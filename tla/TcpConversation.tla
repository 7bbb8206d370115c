--------------------------- MODULE TcpConversation ---------------------------
(***************************************************************************)
(* What the bus monitor makes of one TCP connection between the bus        *)
(* controller and the simulator.                                           *)
(*                                                                         *)
(* Each peer writes packets into its stream, TCP cuts the stream into      *)
(* segments, and the sniffer sees the segments of both streams, bare       *)
(* acknowledgements and retransmissions in the order they cross the wire.  *)
(* packetHandler puts the payloads of all of them into one queue (which    *)
(* BusMonitor shows to lose nothing; here the parser is given a payload at *)
(* once).  At the controller's end, read() takes an answer out of the      *)
(* simulator's stream.                                                     *)
(*                                                                         *)
(* TCP and the simulator are external.  The simulator answers an RT -> BC  *)
(* packet, and only that, within the 100 ms that read() waits.             *)
(***************************************************************************)
EXTENDS CapturedFrame, TcpPacket, SequencesExt

CONSTANTS
    Requests,           \* packets sendAcyclicFrame may write
    Answers,            \* packets the simulator may answer with
    Headers,            \* headers of the frames on the wire
    Incoming,           \* peers whose frames come from the wire, padded
    MaxRequests,        \* bound on the packets written by the controller
    MaxAcks             \* bound on the acknowledgements without data

Peers == {"controller", "simulator"}
Other(p) == IF p = "controller" THEN "simulator" ELSE "controller"
Packet == [1..PacketBytes -> Byte]

ASSUME PacketsAssumption ==
    Requests \cup Answers \subseteq {p \in Packet : HasMagic(p) /\ ValidMode(p[3])}
ASSUME HeadersAssumption == Headers \subseteq Header
ASSUME IncomingAssumption == Incoming \subseteq Peers

VARIABLES
    unsent,             \* written by a peer, not on the wire yet
    unread,             \* arrived at a peer, not read yet
    partial,            \* of the packet a peer is sending, what has crossed
    crossed,            \* packets that have crossed, by their last byte
    waiting,            \* the controller is in read()
    answer,             \* the simulator's latest answer
    obtained,           \* what the latest read() returned
    last,               \* the latest segment
    cut,                \* peers whose packet was ever cut into segments
    disturbed,          \* foreign bytes have crossed inside a packet, or twice
    requests, acks

VARIABLES accumulator, parsing, received, consumed, decoded

parserVars == <<accumulator, parsing, received, consumed, decoded>>
wireVars == <<unsent, unread, partial, crossed, last, cut, disturbed, acks>>
peerVars == <<waiting, answer, obtained, requests>>
vars == <<wireVars, peerVars, parserVars>>

Parser == INSTANCE ProtocolParser WITH Buffers <- {}

Bytes == Seq(Byte)

TypeOK ==
    /\ unsent \in [Peers -> Bytes] /\ unread \in [Peers -> Bytes]
    /\ partial \in [Peers -> Bytes] /\ crossed \in Seq(Packet)
    /\ waiting \in BOOLEAN /\ answer \in Bytes /\ obtained \in Bytes
    /\ last \in Bytes /\ cut \subseteq Peers /\ disturbed \in BOOLEAN
    /\ requests \in Nat /\ acks \in Nat
    /\ Parser!TypeOK

Init ==
    /\ unsent = [p \in Peers |-> <<>>] /\ unread = [p \in Peers |-> <<>>]
    /\ partial = [p \in Peers |-> <<>>] /\ crossed = <<>>
    /\ waiting = FALSE /\ answer = <<>> /\ obtained = <<>>
    /\ last = <<>> /\ cut = {} /\ disturbed = FALSE
    /\ requests = 0 /\ acks = 0
    /\ Parser!Init

----------------------------------------------------------------------------
(* The peers.                                                              *)

\* sendAcyclicFrame writes a packet, and for RT -> BC goes on to read().
Request(r) ==
    /\ ~waiting
    /\ requests < MaxRequests
    /\ requests' = requests + 1
    /\ unsent' = [unsent EXCEPT !["controller"] = @ \o r]
    /\ waiting' = (r[3] = ModeTx)
    /\ UNCHANGED <<unread, partial, crossed, last, cut, disturbed, acks, answer,
                   obtained, parserVars>>

\* The simulator takes a whole packet from its stream.
SimulatorReads(a) ==
    LET in == unread["simulator"] IN
    /\ Len(in) >= PacketBytes
    /\ unread' = [unread EXCEPT !["simulator"] = SubSeq(in, PacketBytes + 1, Len(in))]
    /\ IF in[3] = ModeTx
       THEN unsent' = [unsent EXCEPT !["simulator"] = @ \o a] /\ answer' = a
       ELSE UNCHANGED <<unsent, answer>>
    /\ UNCHANGED <<partial, crossed, last, cut, disturbed, acks, waiting, obtained,
                   requests, parserVars>>

ReadUpTo(n) ==
    LET in == unread["controller"] IN
    /\ waiting /\ in # <<>>
    /\ waiting' = FALSE
    /\ obtained' = SubSeq(in, 1, IF Len(in) < n THEN Len(in) ELSE n)
    /\ unread' = [unread EXCEPT !["controller"] = SubSeq(in, n + 1, Len(in))]
    /\ UNCHANGED <<unsent, partial, crossed, last, cut, disturbed, acks, answer,
                   requests, parserVars>>

\* Wrong variant: the size of the header instead of the packet.
ReadHeader == ReadUpTo(HeaderBytes)

\* read() returns what has arrived, at most one packet of it.
Read == ReadUpTo(PacketBytes)

----------------------------------------------------------------------------
(* The wire and the sniffer.                                               *)

\* Segments of p complete packets of p.
Complete(p, bytes) ==
    LET stream == partial[p] \o bytes
        whole == Len(stream) \div PacketBytes
    IN  /\ crossed' = crossed \o
               [k \in 1..whole |->
                   SubSeq(stream, (k - 1) * PacketBytes + 1, k * PacketBytes)]
        /\ partial' = [partial EXCEPT
               ![p] = SubSeq(stream, whole * PacketBytes + 1, Len(stream))]

PaddingOf(p, h, n) == IF p \in Incoming THEN Padding(h, n) ELSE <<>>

Segment(p, n, h) ==
    LET bytes == SubSeq(unsent[p], 1, n)
        padding == PaddingOf(p, h, n)
    IN
    /\ Complete(p, bytes)
    /\ unsent' = [unsent EXCEPT ![p] = SubSeq(@, n + 1, Len(@))]
    /\ unread' = [unread EXCEPT ![Other(p)] = @ \o bytes]
    /\ last' = bytes
    /\ cut' = IF partial'[p] = <<>> THEN cut ELSE cut \cup {p}
    /\ disturbed' = (\/ partial[Other(p)] # <<>>
                     \/ partial'[p] # <<>> /\ padding # <<>>)
    /\ Parser!ParseStream(PayloadOf(h.link, Frame(h, bytes, padding)))
    /\ UNCHANGED <<acks, peerVars>>

\* A bare acknowledgement counts only if padding makes it look like data.
Acknowledge(p, h) ==
    /\ acks < MaxAcks
    /\ PaddingOf(p, h, 0) # <<>>
    /\ acks' = acks + 1
    /\ disturbed' = (\E q \in Peers : partial[q] # <<>>)
    /\ Parser!ParseStream(PayloadOf(h.link, Frame(h, <<>>, PaddingOf(p, h, 0))))
    /\ UNCHANGED <<unsent, unread, partial, crossed, last, cut, peerVars>>

\* TCP sends the latest segment again; the receiver has it already.
Retransmit(h) ==
    /\ last # <<>>
    /\ disturbed' = TRUE
    /\ Parser!ParseStream(PayloadOf(h.link, Frame(h, last, <<>>)))
    /\ UNCHANGED <<unsent, unread, partial, crossed, last, cut, acks, peerVars>>

\* A disturbance ends the model: what follows one has no claim made of it.
Wire ==
    /\ ~disturbed
    /\ \E h \in Headers :
           \/ \E p \in Peers : \E n \in 1..Len(unsent[p]) : Segment(p, n, h)
           \/ \E p \in Peers : Acknowledge(p, h)
           \/ Retransmit(h)

ParserTurn == Parser!LoopTurn /\ UNCHANGED <<wireVars, peerVars>>

Next ==
    \/ \E r \in Requests : Request(r)
    \/ \E a \in Answers : SimulatorReads(a)
    \/ Read
    \/ Wire
    \/ ParserTurn

Spec == Init /\ [][Next]_vars

----------------------------------------------------------------------------
(* Properties.                                                             *)

Reports ==
    ~parsing =>
        /\ Len(decoded) = Len(crossed)
        /\ \A i \in 1..Len(crossed) : decoded[i] = Decode(crossed[i], decoded[i].at)

(***************************************************************************)
(* The monitor reports the packets of both peers, each once, in the order  *)
(* they crossed, whatever the frame headers, the cuts, and the padding of  *)
(* acknowledgements between packets; as long as nothing was sent twice and *)
(* no other byte was captured in the middle of a packet.                   *)
(***************************************************************************)
ReportsConversation == ~disturbed => Reports

(***************************************************************************)
(* As long as the simulator's packets cross in one piece, what read()      *)
(* returns is the answer to the packet just written, all of it.            *)
(***************************************************************************)
AnswerIsWhole ==
    "simulator" \notin cut => obtained = <<>> \/ waiting \/ obtained = answer

----------------------------------------------------------------------------
(* What the code does not do.                                              *)

(***************************************************************************)
(* README: the monitor "provides a real-time view of all 1553 traffic".    *)
(* A segment or padding of the other peer inside a packet destroys it.     *)
(***************************************************************************)
ReportsAllTraffic == Reports

(***************************************************************************)
(* An answer that read() accepts, 6 bytes or more, is a whole answer.      *)
(***************************************************************************)
AcceptedIsWhole ==
    Len(obtained) >= HeaderBytes => obtained \in Answers
============================================================================
