---------------------------- MODULE CommandWord ----------------------------
(***************************************************************************)
(* The header of a 1553-over-TCP packet and the 16-bit MIL-STD-1553        *)
(* command word the bus monitor rebuilds from it.                          *)
(*                                                                         *)
(* Numbers are what the C++ types hold: a header field is a byte, a        *)
(* command word is a uint16_t, shifts and masks are arithmetic with powers *)
(* of two.  The code ORs the fields together, so a subaddress byte above   *)
(* 31 spills into the T/R bit and into the low bits of the RT field; the   *)
(* definitions keep that.                                                  *)
(***************************************************************************)
EXTENDS Integers

\* uint8_t and uint16_t.
MaxByte == 255
MaxWord == 65535
Byte == 0..MaxByte
Word == 0..MaxWord

\* The sync pattern, and the two mode bytes the parser accepts.
Magic0 == 170    \* 0xAA
Magic1 == 85     \* 0x55
ModeRx == 0      \* BC -> RT
ModeTx == 1      \* RT -> BC

\* Bitwise or of two bits, and of a 5-bit field with a value below 4.
OrBit(a, b) == IF a = 1 \/ b = 1 THEN 1 ELSE 0

OrLow2(field, low) ==
    4 * (field \div 4) + 2 * OrBit((field \div 2) % 2, low \div 2)
                       + OrBit(field % 2, low % 2)

(***************************************************************************)
(* cmd1 = (rt << 11) | (tr << 10) | (sa << 5) | (wc & 0x1F), truncated to  *)
(* uint16_t.                                                               *)
(***************************************************************************)
CmdWord(mode, rt, sa, wc) ==
    LET tr == IF mode = ModeTx THEN 1 ELSE 0
    IN  2048 * OrLow2(rt % 32, sa \div 64)
        + 1024 * OrBit(tr, (sa \div 32) % 2)
        + 32 * (sa % 32)
        + (wc % 32)

\* What the monitor reads back out of a command word.
RtOf(cmd) == (cmd \div 2048) % 32
TrOf(cmd) == (cmd \div 1024) % 2
SaOf(cmd) == (cmd \div 32) % 32
WcOf(cmd) == cmd % 32

\* "WC: " as the monitor prints it: a zero field stands for 32 words.
ActualWc(cmd) == IF WcOf(cmd) = 0 THEN 32 ELSE WcOf(cmd)

\* How many data words of the fixed payload a packet with this WC carries.
WordCount(wc, maxWords) ==
    IF wc = 0 \/ wc > maxWords THEN maxWords ELSE wc
============================================================================
