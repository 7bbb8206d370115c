----------------------------- MODULE TcpPacket -----------------------------
(***************************************************************************)
(* The packet of the 1553-over-TCP protocol: a 6-byte header (sync pattern,*)
(* mode, RT, SA, WC) and a payload of fixed size, big-endian words.        *)
(***************************************************************************)
EXTENDS CommandWord, Sequences

CONSTANT
    MaxWords    \* data words in the fixed payload (32 in the code)

ASSUME MaxWordsAssumption == MaxWords \in Nat \ {0}

HeaderBytes == 6
PayloadBytes == 2 * MaxWords
PacketBytes == HeaderBytes + PayloadBytes

Transaction == [at : Nat, cmd1 : Word, words : Seq(Word)]

\* Wrong variant: only the first sync byte is tested.
HalfMagic(bytes) == bytes[1] = Magic0

HasMagic(bytes) == bytes[1] = Magic0 /\ bytes[2] = Magic1

ValidMode(mode) == mode \in {ModeRx, ModeTx}

\* The i-th big-endian word of the payload that follows the header.
PayloadWord(bytes, i) ==
    256 * bytes[HeaderBytes + 2 * i - 1] + bytes[HeaderBytes + 2 * i]

\* The transaction decoded from a packet whose first byte is offset `at'.
Decode(bytes, at) ==
    [at    |-> at,
     cmd1  |-> CmdWord(bytes[3], bytes[4], bytes[5], bytes[6]),
     words |-> [i \in 1..WordCount(bytes[6], MaxWords) |->
                    PayloadWord(bytes, i)]]
============================================================================
