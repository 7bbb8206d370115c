--------------------------- MODULE ProtocolParser ---------------------------
(***************************************************************************)
(* ProtocolParser: cuts the sniffed byte stream into fixed-size packets.   *)
(*                                                                         *)
(* parseStream appends the bytes it is given to m_accumulator and then     *)
(* loops: it drops one byte when the head is not a packet header, decodes  *)
(* and drops a packet when a whole one is there, and leaves the loop when  *)
(* it needs more bytes.  One action is one turn of the loop, because the   *)
(* decode turn calls back into the monitor while other threads run.        *)
(*                                                                         *)
(* `received', `consumed' and `decoded' are history variables: everything  *)
(* handed to the parser since the last reset, how many of those bytes have *)
(* been erased, and the transactions passed to the callback.               *)
(***************************************************************************)
EXTENDS TcpPacket

CONSTANT
    Buffers     \* the buffers parseStream may be called with

ASSUME BuffersAssumption == Buffers \subseteq Seq(Byte)

VARIABLES
    accumulator,    \* m_accumulator
    parsing,        \* parseStream has been entered and not left
    received,
    consumed,
    decoded

vars == <<accumulator, parsing, received, consumed, decoded>>

TypeOK ==
    /\ accumulator \in Seq(Byte)
    /\ parsing \in BOOLEAN
    /\ received \in Seq(Byte)
    /\ consumed \in Nat
    /\ decoded \in Seq(Transaction)

Init ==
    /\ accumulator = <<>>
    /\ parsing = FALSE
    /\ received = <<>>
    /\ consumed = 0
    /\ decoded = <<>>

----------------------------------------------------------------------------
\* erase(begin(), begin() + n)
Erase(n) ==
    /\ accumulator' = SubSeq(accumulator, n + 1, Len(accumulator))
    /\ consumed' = consumed + n

----------------------------------------------------------------------------
ParseStream(buffer) ==
    /\ ~parsing
    /\ accumulator' = accumulator \o buffer
    /\ received' = received \o buffer
    /\ parsing' = TRUE
    /\ UNCHANGED <<consumed, decoded>>

\* The head is not the sync pattern: drop one byte and look again.
SkipByte ==
    /\ parsing
    /\ Len(accumulator) >= HeaderBytes
    /\ ~HasMagic(accumulator)
    /\ Erase(1)
    /\ UNCHANGED <<parsing, received, decoded>>

\* Wrong variant: throws the whole packet away instead of one byte.
RejectPacket ==
    /\ parsing
    /\ Len(accumulator) >= PacketBytes
    /\ HasMagic(accumulator)
    /\ ~ValidMode(accumulator[3])
    /\ Erase(PacketBytes)
    /\ UNCHANGED <<parsing, received, decoded>>

\* A whole packet, but with a mode that does not exist: resynchronise.
RejectMode ==
    /\ parsing
    /\ Len(accumulator) >= PacketBytes
    /\ HasMagic(accumulator)
    /\ ~ValidMode(accumulator[3])
    /\ Erase(1)
    /\ UNCHANGED <<parsing, received, decoded>>

\* Wrong variant: derives the length of the packet from WC.
DecodeByWordCount ==
    /\ parsing
    /\ Len(accumulator) >= PacketBytes
    /\ HasMagic(accumulator)
    /\ ValidMode(accumulator[3])
    /\ decoded' = Append(decoded, Decode(accumulator, consumed))
    /\ Erase(HeaderBytes + 2 * WordCount(accumulator[6], MaxWords))
    /\ UNCHANGED <<parsing, received>>

\* A whole packet: report it and drop it.
DecodePacket ==
    /\ parsing
    /\ Len(accumulator) >= PacketBytes
    /\ HasMagic(accumulator)
    /\ ValidMode(accumulator[3])
    /\ decoded' = Append(decoded, Decode(accumulator, consumed))
    /\ Erase(PacketBytes)
    /\ UNCHANGED <<parsing, received>>

\* Wrong variant: waits for the bytes inside the loop (`continue' for `break').
SpinForBytes == parsing /\ UNCHANGED vars

\* Not enough bytes to go on: parseStream returns.
AwaitBytes ==
    /\ parsing
    /\ \/ Len(accumulator) < HeaderBytes
       \/ /\ Len(accumulator) \in HeaderBytes..(PacketBytes - 1)
          /\ HasMagic(accumulator)
    /\ parsing' = FALSE
    /\ UNCHANGED <<accumulator, received, consumed, decoded>>

LoopTurn == SkipByte \/ RejectMode \/ DecodePacket \/ AwaitBytes

\* reset(): a new sniffing session starts with an empty accumulator.
Reset ==
    /\ ~parsing
    /\ accumulator' = <<>>
    /\ received' = <<>>
    /\ consumed' = 0
    /\ decoded' = <<>>
    /\ UNCHANGED parsing

Next == (\E buffer \in Buffers : ParseStream(buffer)) \/ LoopTurn \/ Reset

Spec == Init /\ [][Next]_vars

----------------------------------------------------------------------------
\* Bytes at, at+1, ... of the received stream are a complete valid packet.
FrameAt(at) ==
    /\ at + PacketBytes <= Len(received)
    /\ received[at + 1] = 170 /\ received[at + 2] = 85
    /\ received[at + 3] \in {0, 1}

Covers(d, at) == d.at <= at /\ at < d.at + PacketBytes

(***************************************************************************)
(* Soundness: every transaction handed to the monitor's callback is a      *)
(* complete packet of the received stream, with its own header and payload *)
(* and no byte of a neighbour.                                             *)
(***************************************************************************)
DecodedAreFrames ==
    \A k \in 1..Len(decoded) :
        LET d == decoded[k]
            wc == received[d.at + 6]
        IN  /\ FrameAt(d.at)
            /\ d.cmd1 = CmdWord(received[d.at + 3], received[d.at + 4],
                                received[d.at + 5], wc)
            /\ Len(d.words) = IF wc \in 1..MaxWords THEN wc ELSE MaxWords
            /\ \A i \in 1..Len(d.words) :
                   d.words[i] = 256 * received[d.at + 5 + 2 * i]
                                + received[d.at + 6 + 2 * i]

(***************************************************************************)
(* Packets are reported in stream order and never share a byte, however    *)
(* the stream was cut into buffers and however often parsing had to        *)
(* resynchronise.                                                          *)
(***************************************************************************)
DecodedInOrder ==
    /\ \A k \in 1..Len(decoded) : decoded[k].at + PacketBytes <= consumed
    /\ \A j, k \in 1..Len(decoded) :
           j < k => decoded[j].at + PacketBytes <= decoded[k].at

(***************************************************************************)
(* Completeness: once parseStream has returned, every complete valid       *)
(* packet of the received bytes has been reported, unless it starts inside *)
(* a reported one.  Resynchronising after a bad magic or a bad mode never  *)
(* skips a packet.                                                         *)
(***************************************************************************)
NoFrameMissed ==
    ~parsing =>
        \A at \in 0..Len(received) :
            FrameAt(at) => \E k \in 1..Len(decoded) : Covers(decoded[k], at)

(***************************************************************************)
(* What parseStream leaves behind is less than one packet, so the          *)
(* accumulator cannot grow with the length of the session.                 *)
(***************************************************************************)
BacklogBounded == ~parsing => Len(accumulator) < PacketBytes

\* The stream received so far is packets laid end to end from its first byte.
Aligned ==
    \A n \in 0..Len(received) :
        LET at == n * PacketBytes
        IN  /\ at + 1 <= Len(received) => received[at + 1] = Magic0
            /\ at + 2 <= Len(received) => received[at + 2] = Magic1
            /\ at + 3 <= Len(received) => ValidMode(received[at + 3])

(***************************************************************************)
(* A parser that starts on a packet boundary of a well-formed stream never *)
(* loses synchronisation: no byte is skipped and the n-th transaction is   *)
(* the n-th packet, even when payloads contain the sync pattern.           *)
(***************************************************************************)
AlignedStaysInSync == Aligned => consumed = PacketBytes * Len(decoded)

(***************************************************************************)
(* The resynchronisation loop of parseStream ends: the monitor thread      *)
(* always gets back to its shutdown check.                                 *)
(***************************************************************************)
ParseTerminates == parsing ~> ~parsing
============================================================================
