------------------------ MODULE TcpConversationProofs ------------------------
(***************************************************************************)
(* What the monitor reports of a conversation, and what read() obtains,    *)
(* for every packet size, every set of packets and headers, and any number *)
(* of requests and acknowledgements.                                       *)
(*                                                                         *)
(* ReportsConversation speaks of the moments at which parseStream is not   *)
(* running.  Layout says what the accumulator holds at every moment: the   *)
(* packets that have crossed and are not reported yet, laid end to end,    *)
(* then what has crossed of the next one, and around them nothing but the  *)
(* zeros of padding.                                                       *)
(*                                                                         *)
(* AnswerIsWhole rests on Exchange: at most one request for an answer, or  *)
(* the answer to it, is between the peers.                                 *)
(***************************************************************************)
EXTENDS TcpConversation, SequenceTheorems, TLAPS

\* The parser's theorems, for any payload it may be given.
Proved == INSTANCE ProtocolParserProofs WITH Buffers <- Bytes

\* A position in a stream at which a packet starts.
Boundary(at) == \E n \in Nat : at = n * PacketBytes

\* Packets laid end to end.
WholePackets(stream) ==
    /\ Boundary(Len(stream))
    /\ \A at \in 0..Len(stream) :
           Boundary(at) /\ at < Len(stream) =>
               /\ stream[at + 1] = Magic0 /\ stream[at + 2] = Magic1
               /\ ValidMode(stream[at + 3])

Accepted(p) == HasMagic(p) /\ ValidMode(p[3])

\* The packets of a stream, and the start of the one after them.
Pieces(stream) ==
    [k \in 1..(Len(stream) \div PacketBytes) |->
        SubSeq(stream, (k - 1) * PacketBytes + 1, k * PacketBytes)]
Rest(stream) ==
    SubSeq(stream, (Len(stream) \div PacketBytes) * PacketBytes + 1, Len(stream))

----------------------------------------------------------------------------
(* The streams.                                                            *)

\* What peer p has still to send, and what it has still to read.
Outgoing(p) == partial[p] \o unsent[p]
Underway(p) == unread[p] \o unsent[Other(p)]

Streams ==
    /\ \A p \in Peers : WholePackets(Outgoing(p)) /\ Len(partial[p]) < PacketBytes
    /\ \A k \in 1..Len(crossed) : Accepted(crossed[k])

----------------------------------------------------------------------------
(* The accumulator.                                                        *)

Zero(bytes, from, to) == \A i \in (from + 1)..to : bytes[i] = 0

\* z zeros, the packets after the first `done', the start of the one after
\* them, and, if no packet has started, zeros.
LaidOut(bytes, z, packets, done, start) ==
    LET pending == Len(packets) - done
        tail == z + pending * PacketBytes
        end == tail + Len(start)
    IN  /\ end <= Len(bytes)
        /\ Zero(bytes, 0, z) /\ Zero(bytes, end, Len(bytes))
        /\ \A k \in 1..pending : \A i \in 1..PacketBytes :
               bytes[z + (k - 1) * PacketBytes + i] = packets[done + k][i]
        /\ \A i \in 1..Len(start) : bytes[tail + i] = start[i]
        /\ start # <<>> => end = Len(bytes)

Reported ==
    /\ Len(decoded) <= Len(crossed)
    /\ \A k \in 1..Len(decoded) : decoded[k] = Decode(crossed[k], decoded[k].at)
    /\ ~parsing => Len(decoded) = Len(crossed)

Layout ==
    ~disturbed =>
        /\ Reported
        /\ \E p \in Peers : \E z \in 0..Len(accumulator) :
               /\ partial[Other(p)] = <<>>
               /\ LaidOut(accumulator, z, crossed, Len(decoded), partial[p])

----------------------------------------------------------------------------
(* The exchange of requests and answers.                                   *)

\* Of a stream `asks' of packets to the simulator and a stream `tells' of what
\* it says, with `in' of it arrived, and `part' of a packet crossed.
ExchangeOf(asks, tells, in, part, inPackets, inRead, said, got) ==
    /\ WholePackets(asks)
    /\ said \in Answers \cup {<<>>}
    /\ inPackets =>
           /\ part = <<>>
           /\ Boundary(Len(in))
           /\ \A at \in 0..Len(asks) :
                  Boundary(at) /\ at < Len(asks) /\ asks[at + 3] = ModeTx =>
                      /\ inRead /\ tells = <<>>
                      /\ at + PacketBytes = Len(asks)
           /\ tells # <<>> => inRead /\ tells = said
           /\ got = <<>> \/ inRead \/ got = said

Exchange ==
    ExchangeOf(Underway("simulator"), Underway("controller"), unread["controller"],
               partial["simulator"], "simulator" \notin cut, waiting, answer, obtained)

----------------------------------------------------------------------------
(* Packet boundaries.                                                      *)

LEMMA PacketSize == PacketBytes \in Nat /\ PacketBytes >= 8
BY MaxWordsAssumption DEF PacketBytes, PayloadBytes, HeaderBytes

\* Boundaries are at least a packet apart.
LEMMA Boundaries ==
    /\ Boundary(0) /\ Boundary(PacketBytes)
    /\ \A a, b \in Nat : Boundary(a) /\ Boundary(b) =>
           /\ Boundary(a + b)
           /\ b <= a => Boundary(a - b)
           /\ b < a => b + PacketBytes <= a
<1>1. Boundary(0) /\ Boundary(PacketBytes)
  <2>1. 0 = 0 * PacketBytes /\ PacketBytes = 1 * PacketBytes
    BY PacketSize
  <2>2. QED  BY <2>1 DEF Boundary
<1>2. ASSUME NEW a \in Nat, NEW b \in Nat, Boundary(a), Boundary(b)
      PROVE  /\ Boundary(a + b)
             /\ b <= a => Boundary(a - b)
             /\ b < a => b + PacketBytes <= a
  <2>1. PICK m \in Nat : a = m * PacketBytes
    BY <1>2 DEF Boundary
  <2>2. PICK n \in Nat : b = n * PacketBytes
    BY <1>2 DEF Boundary
  <2>3. /\ m * PacketBytes + n * PacketBytes = (m + n) * PacketBytes
        /\ m * PacketBytes - n * PacketBytes = (m - n) * PacketBytes
    BY PacketSize
  <2>4. b <= a => n <= m
    <3>1. m < n => (n - m) * PacketBytes >= PacketBytes
      BY PacketSize
    <3>2. (n - m) * PacketBytes = n * PacketBytes - m * PacketBytes
      BY PacketSize
    <3>3. QED  BY <2>1, <2>2, <3>1, <3>2, PacketSize
  <2>5. b < a => (m - n) * PacketBytes >= PacketBytes
    BY <2>1, <2>2, <2>4, PacketSize
  <2>6. Boundary(a + b)
    BY <2>1, <2>2, <2>3 DEF Boundary
  <2>7. ASSUME b <= a PROVE Boundary(a - b)
    <3>1. m - n \in Nat
      BY <2>4, <2>7
    <3>2. QED  BY <2>1, <2>2, <2>3, <3>1 DEF Boundary
  <2>8. b < a => b + PacketBytes <= a
    BY <2>1, <2>2, <2>3, <2>5, PacketSize
  <2>9. QED  BY <2>6, <2>7, <2>8
<1>3. QED  BY <1>1, <1>2

\* The last boundary of a stream is less than a packet from its end.
LEMMA LastBoundary ==
    ASSUME NEW n \in Nat
    PROVE  /\ n \div PacketBytes \in Nat
           /\ (n \div PacketBytes) * PacketBytes <= n
           /\ n < (n \div PacketBytes) * PacketBytes + PacketBytes
           /\ Boundary((n \div PacketBytes) * PacketBytes)
<1>1. /\ n \div PacketBytes \in Nat
      /\ (n \div PacketBytes) * PacketBytes <= n
      /\ n < (n \div PacketBytes) * PacketBytes + PacketBytes
  BY PacketSize, SMT
<1>2. QED  BY <1>1 DEF Boundary

----------------------------------------------------------------------------
(* Streams of bytes.                                                       *)

\* A stream without its first n bytes.
LEMMA Drop ==
    ASSUME NEW s \in Seq(Byte), NEW n \in 0..Len(s)
    PROVE  /\ SubSeq(s, n + 1, Len(s)) \in Seq(Byte)
           /\ Len(SubSeq(s, n + 1, Len(s))) = Len(s) - n
           /\ \A i \in 1..(Len(s) - n) : SubSeq(s, n + 1, Len(s))[i] = s[n + i]
<1>1. Len(s) \in Nat /\ n \in Nat /\ n <= Len(s)
  BY LenProperties
<1>2. \A i \in (n + 1)..Len(s) : s[i] \in Byte
  BY <1>1, ElementOfSeq
<1>3. QED  BY <1>1, <1>2, SubSeqProperties

\* The bytes of a stream between two positions.
LEMMA Cut ==
    ASSUME NEW s \in Seq(Byte), NEW m \in 0..Len(s), NEW n \in m..Len(s)
    PROVE  /\ SubSeq(s, m + 1, n) \in Seq(Byte)
           /\ Len(SubSeq(s, m + 1, n)) = n - m
           /\ \A i \in 1..(n - m) : SubSeq(s, m + 1, n)[i] = s[m + i]
<1>1. Len(s) \in Nat /\ m \in Nat /\ n \in Nat /\ m <= n /\ n <= Len(s)
  BY LenProperties
<1>2. \A i \in (m + 1)..n : s[i] \in Byte
  BY <1>1, ElementOfSeq
<1>3. QED  BY <1>1, <1>2, SubSeqProperties

\* What is taken from the front of a stream and what is left make it up.
LEMMA CutInTwo ==
    ASSUME NEW s \in Seq(Byte), NEW n \in 0..Len(s)
    PROVE  SubSeq(s, 1, n) \o SubSeq(s, n + 1, Len(s)) = s
<1>1. Len(s) \in Nat /\ n \in Nat /\ n <= Len(s)
  BY LenProperties
<1>2. /\ 1 \in 1..(Len(s) + 1) /\ n \in (1 - 1)..Len(s) /\ Len(s) \in n..Len(s)
  BY <1>1
<1>3. SubSeq(s, 1, n) \o SubSeq(s, n + 1, Len(s)) = SubSeq(s, 1, Len(s))
  BY ONLY <1>2, s \in Seq(Byte), ConcatAdjacentSubSeq
<1>4. QED  BY <1>3, SubSeqFull

LEMMA Concat ==
    ASSUME NEW s \in Seq(Byte), NEW t \in Seq(Byte)
    PROVE  /\ Len(s) \in Nat /\ Len(t) \in Nat
           /\ s \o t \in Seq(Byte) /\ Len(s \o t) = Len(s) + Len(t)
           /\ \A i \in 1..Len(s) : (s \o t)[i] = s[i]
           /\ \A i \in 1..Len(t) : (s \o t)[Len(s) + i] = t[i]
<1>1. Len(s) \in Nat /\ Len(t) \in Nat
  BY LenProperties
<1>2. /\ s \o t \in Seq(Byte) /\ Len(s \o t) = Len(s) + Len(t)
      /\ \A i \in 1..(Len(s) + Len(t)) :
             (s \o t)[i] = IF i <= Len(s) THEN s[i] ELSE t[i - Len(s)]
  BY ConcatProperties
<1>3. \A i \in 1..Len(t) : (s \o t)[Len(s) + i] = t[i]
  BY <1>1, <1>2
<1>4. QED  BY <1>1, <1>2, <1>3

LEMMA BytesAssociative ==
    \A a, b, c \in Seq(Byte) : (a \o b) \o c = a \o (b \o c)
BY ConcatAssociative

LEMMA PacketsConcat ==
    ASSUME NEW s \in Seq(Byte), NEW t \in Seq(Byte), WholePackets(s), WholePackets(t)
    PROVE  WholePackets(s \o t)
<1>1. /\ Len(s) \in Nat /\ Len(t) \in Nat
      /\ Len(s \o t) = Len(s) + Len(t)
      /\ \A i \in 1..(Len(s) + Len(t)) :
             (s \o t)[i] = IF i <= Len(s) THEN s[i] ELSE t[i - Len(s)]
  BY LenProperties, ConcatProperties
<1>2. Boundary(Len(s)) /\ Boundary(Len(t))
  BY DEF WholePackets
<1>3. ASSUME NEW at \in 0..Len(s \o t), Boundary(at), at < Len(s \o t)
      PROVE  /\ (s \o t)[at + 1] = Magic0 /\ (s \o t)[at + 2] = Magic1
             /\ ValidMode((s \o t)[at + 3])
  <2>1. CASE at < Len(s)
    <3>1. at + 8 <= Len(s)
      BY <1>1, <1>2, <1>3, <2>1, Boundaries, PacketSize
    <3>2. /\ (s \o t)[at + 1] = s[at + 1] /\ (s \o t)[at + 2] = s[at + 2]
          /\ (s \o t)[at + 3] = s[at + 3]
      BY <1>1, <1>3, <3>1
    <3>3. QED  BY <1>1, <1>3, <2>1, <3>2 DEF WholePackets
  <2>2. CASE ~(at < Len(s))
    <3>1. at - Len(s) \in 0..Len(t) /\ Boundary(at - Len(s)) /\ at - Len(s) < Len(t)
      <4>1. at \in Nat /\ Len(s) <= at /\ at < Len(s) + Len(t)
        BY <1>1, <1>3, <2>2
      <4>2. Boundary(at - Len(s))
        BY <1>1, <1>2, <1>3, <4>1, Boundaries
      <4>3. QED  BY <1>1, <4>1, <4>2
    <3>2. at - Len(s) + 8 <= Len(t)
      <4>1. (at - Len(s)) + PacketBytes <= Len(t)
        BY <1>1, <1>2, <3>1, Boundaries
      <4>2. QED  BY <1>1, <1>3, <4>1, PacketSize
    <3>3. /\ (s \o t)[at + 1] = t[(at - Len(s)) + 1]
          /\ (s \o t)[at + 2] = t[(at - Len(s)) + 2]
          /\ (s \o t)[at + 3] = t[(at - Len(s)) + 3]
      BY <1>1, <1>3, <2>2, <3>2
    <3>4. QED  BY <3>1, <3>3 DEF WholePackets
  <2>3. QED  BY <2>1, <2>2
<1>4. Boundary(Len(s \o t))
  BY <1>1, <1>2, Boundaries
<1>5. QED  BY <1>3, <1>4 DEF WholePackets

LEMMA PacketsDrop ==
    ASSUME NEW s \in Seq(Byte), WholePackets(s), NEW n \in 0..Len(s), Boundary(n)
    PROVE  WholePackets(SubSeq(s, n + 1, Len(s)))
<1> DEFINE rest == SubSeq(s, n + 1, Len(s))
<1>1. /\ Len(s) \in Nat /\ n \in Nat /\ n <= Len(s) /\ Boundary(Len(s))
      /\ Len(rest) = Len(s) - n
      /\ \A i \in 1..(Len(s) - n) : rest[i] = s[n + i]
  BY LenProperties, Drop DEF WholePackets
<1> HIDE DEF rest
<1>2. ASSUME NEW at \in 0..Len(rest), Boundary(at), at < Len(rest)
      PROVE  rest[at + 1] = Magic0 /\ rest[at + 2] = Magic1 /\ ValidMode(rest[at + 3])
  <2>1. n + at \in 0..Len(s) /\ Boundary(n + at) /\ n + at < Len(s)
    <3>1. at \in Nat /\ n + at < Len(s)
      BY <1>1, <1>2
    <3>2. Boundary(n + at)
      BY <1>1, <1>2, <3>1, Boundaries
    <3>3. QED  BY <1>1, <3>1, <3>2
  <2>2. n + at + 8 <= Len(s)
    BY <1>1, <2>1, Boundaries, PacketSize
  <2>3. /\ rest[at + 1] = s[(n + at) + 1] /\ rest[at + 2] = s[(n + at) + 2]
        /\ rest[at + 3] = s[(n + at) + 3]
    <3>1. at \in Nat /\ {at + 1, at + 2, at + 3} \subseteq 1..(Len(s) - n)
      BY <1>1, <1>2, <2>2
    <3>2. /\ n + (at + 1) = (n + at) + 1 /\ n + (at + 2) = (n + at) + 2
          /\ n + (at + 3) = (n + at) + 3
      BY <1>1, <3>1
    <3>3. QED  BY <1>1, <3>1, <3>2
  <2>4. QED  BY <2>1, <2>3 DEF WholePackets
<1>3. Boundary(Len(rest))
  BY <1>1, Boundaries
<1>4. WholePackets(rest)
  BY <1>2, <1>3 DEF WholePackets
<1>5. QED  BY <1>4 DEF rest

LEMMA OnePacket ==
    ASSUME NEW p \in Packet, Accepted(p)
    PROVE  p \in Seq(Byte) /\ Len(p) = PacketBytes /\ WholePackets(p)
<1>1. p \in Seq(Byte) /\ Len(p) = PacketBytes
  <2>1. p \in Seq(Byte)
    BY PacketSize, SeqDef DEF Packet
  <2>2. DOMAIN p = 1..PacketBytes /\ DOMAIN p = 1..Len(p) /\ Len(p) \in Nat
    BY <2>1, LenProperties DEF Packet
  <2>3. QED  BY <2>1, <2>2, PacketSize
<1>2. ASSUME NEW at \in 0..Len(p), Boundary(at), at < Len(p)
      PROVE  p[at + 1] = Magic0 /\ p[at + 2] = Magic1 /\ ValidMode(p[at + 3])
  <2>1. at = 0
    <3>1. at > 0 => PacketBytes <= at
      BY <1>1, <1>2, Boundaries, PacketSize
    <3>2. QED  BY <1>1, <1>2, <3>1, PacketSize
  <2>2. QED  BY <2>1 DEF Accepted, HasMagic
<1>3. QED  BY <1>1, <1>2, Boundaries DEF WholePackets

\* Cutting a stream of packets at its boundaries gives packets.
LEMMA PacketAt ==
    ASSUME NEW s \in Seq(Byte), NEW t \in Seq(Byte), WholePackets(s \o t),
           NEW at \in Nat, Boundary(at), at + PacketBytes <= Len(s)
    PROVE  LET p == SubSeq(s, at + 1, at + PacketBytes)
           IN  /\ p \in Packet /\ Accepted(p)
               /\ \A i \in 1..PacketBytes : p[i] = s[at + i]
<1> DEFINE p == SubSeq(s, at + 1, at + PacketBytes)
<1>1. /\ Len(s) \in Nat /\ Len(t) \in Nat /\ Len(s \o t) = Len(s) + Len(t)
      /\ \A i \in 1..Len(s) : (s \o t)[i] = s[i]
  BY LenProperties, ConcatProperties
<1>2. /\ p \in Seq(Byte) /\ Len(p) = PacketBytes
      /\ \A i \in 1..PacketBytes : p[i] = s[at + i]
  BY <1>1, Cut, PacketSize
<1> HIDE DEF p
<1>3. p \in Packet
  BY <1>2, LenProperties DEF Packet
<1>4. /\ p[1] = (s \o t)[at + 1] /\ p[2] = (s \o t)[at + 2] /\ p[3] = (s \o t)[at + 3]
  BY <1>1, <1>2, PacketSize
<1>5. at \in 0..Len(s \o t) /\ at < Len(s \o t)
  BY <1>1, PacketSize
<1>6. Accepted(p)
  BY <1>4, <1>5 DEF WholePackets, Accepted, HasMagic
<1>7. QED  BY <1>2, <1>3, <1>6 DEF p

LEMMA EmptyIsWhole == WholePackets(<<>>)
BY Boundaries DEF WholePackets

\* Cutting the start of a stream of packets into pieces: packets, and less
\* than a packet that the rest of the stream goes on with.
LEMMA PiecesOfStream ==
    ASSUME NEW s \in Seq(Byte), NEW t \in Seq(Byte), WholePackets(s \o t)
    PROVE  LET whole == Len(s) \div PacketBytes
           IN  /\ whole \in Nat /\ whole * PacketBytes \in Nat
               /\ Boundary(whole * PacketBytes)
               /\ Pieces(s) \in Seq(Packet) /\ Len(Pieces(s)) = whole
               /\ \A k \in 1..whole :
                      /\ Accepted(Pieces(s)[k])
                      /\ \A i \in 1..PacketBytes :
                             Pieces(s)[k][i] = s[(k - 1) * PacketBytes + i]
               /\ Rest(s) \in Seq(Byte) /\ Len(Rest(s)) < PacketBytes
               /\ Len(s) = whole * PacketBytes + Len(Rest(s))
               /\ \A i \in 1..Len(Rest(s)) : Rest(s)[i] = s[whole * PacketBytes + i]
               /\ WholePackets(Rest(s) \o t)
<1> DEFINE whole == Len(s) \div PacketBytes
           end == whole * PacketBytes
<1>1. /\ Len(s) \in Nat /\ Len(t) \in Nat /\ s \o t \in Seq(Byte)
      /\ Len(s \o t) = Len(s) + Len(t)
      /\ \A i \in 1..Len(s) : (s \o t)[i] = s[i]
      /\ \A i \in 1..Len(t) : (s \o t)[Len(s) + i] = t[i]
  BY Concat
<1>2. /\ whole \in Nat /\ end \in Nat /\ end <= Len(s) /\ Len(s) < end + PacketBytes
      /\ Boundary(end)
  <2>1. /\ whole \in Nat /\ end <= Len(s) /\ Len(s) < end + PacketBytes
        /\ Boundary(end)
    BY <1>1, LastBoundary
  <2>2. end \in Nat
    BY <2>1, PacketSize
  <2>3. QED  BY <2>1, <2>2
<1>3. ASSUME NEW k \in 1..whole
      PROVE  /\ Pieces(s)[k] \in Packet /\ Accepted(Pieces(s)[k])
             /\ \A i \in 1..PacketBytes : Pieces(s)[k][i] = s[(k - 1) * PacketBytes + i]
  <2>1. /\ k - 1 \in Nat /\ (k - 1) * PacketBytes \in Nat
        /\ (k - 1) * PacketBytes + PacketBytes = k * PacketBytes
        /\ k * PacketBytes <= end
    <3>1. (k - 1) * PacketBytes + PacketBytes = k * PacketBytes
      BY PacketSize
    <3>2. k * PacketBytes + (whole - k) * PacketBytes = end
      BY <1>2, PacketSize
    <3>3. (whole - k) * PacketBytes \in Nat /\ (k - 1) * PacketBytes \in Nat
      BY <1>2, PacketSize
    <3>4. QED  BY <1>2, <3>1, <3>2, <3>3, PacketSize
  <2>2. Boundary((k - 1) * PacketBytes)
    BY <2>1 DEF Boundary
  <2>3. Pieces(s)[k] = SubSeq(s, (k - 1) * PacketBytes + 1, (k - 1) * PacketBytes + PacketBytes)
    BY <2>1 DEF Pieces
  <2> DEFINE at == (k - 1) * PacketBytes
  <2> HIDE DEF at
  <2>4. at \in Nat /\ Boundary(at) /\ at + PacketBytes <= Len(s)
    BY <1>1, <1>2, <2>1, <2>2, PacketSize DEF at
  <2>5. /\ SubSeq(s, at + 1, at + PacketBytes) \in Packet
        /\ Accepted(SubSeq(s, at + 1, at + PacketBytes))
        /\ \A i \in 1..PacketBytes : SubSeq(s, at + 1, at + PacketBytes)[i] = s[at + i]
    BY <2>4, PacketAt
  <2>6. QED  BY <2>3, <2>5 DEF at
<1>4. Pieces(s) \in Seq(Packet) /\ Len(Pieces(s)) = whole
  <2>1. Pieces(s) = [k \in 1..whole |-> Pieces(s)[k]]
    BY DEF Pieces
  <2>2. Pieces(s) \in [1..whole -> Packet]
    BY <1>3, <2>1
  <2>3. Pieces(s) \in Seq(Packet)
    BY <1>2, <2>2, SeqDef
  <2>4. Len(Pieces(s)) \in Nat /\ DOMAIN Pieces(s) = 1..Len(Pieces(s))
    BY <2>3, LenProperties
  <2>5. DOMAIN Pieces(s) = 1..whole
    BY <2>2
  <2>6. QED  BY <1>2, <2>3, <2>4, <2>5
<1>5. /\ Rest(s) \in Seq(Byte) /\ Len(Rest(s)) = Len(s) - end
      /\ \A i \in 1..(Len(s) - end) : Rest(s)[i] = s[end + i]
  BY <1>1, <1>2, Drop DEF Rest
<1> HIDE DEF whole, end
<1>6. WholePackets(Rest(s) \o t)
  <2>1. end \in 0..Len(s \o t)
    BY <1>1, <1>2
  <2>2. WholePackets(SubSeq(s \o t, end + 1, Len(s \o t)))
    BY <1>1, <1>2, <2>1, PacketsDrop
  <2>3. SubSeq(s \o t, end + 1, Len(s \o t)) = Rest(s) \o t
    <3> DEFINE left == SubSeq(s \o t, end + 1, Len(s \o t))
    <3>1. /\ left \in Seq(Byte) /\ Len(left) = Len(s \o t) - end
          /\ \A i \in 1..(Len(s \o t) - end) : left[i] = (s \o t)[end + i]
      BY <1>1, <2>1, Drop
    <3> HIDE DEF left
    <3>2. /\ Rest(s) \o t \in Seq(Byte) /\ Len(Rest(s) \o t) = Len(left)
          /\ \A i \in 1..Len(Rest(s)) : (Rest(s) \o t)[i] = Rest(s)[i]
          /\ \A i \in 1..Len(t) : (Rest(s) \o t)[Len(Rest(s)) + i] = t[i]
      <4>1. /\ Rest(s) \o t \in Seq(Byte) /\ Len(Rest(s) \o t) = Len(Rest(s)) + Len(t)
            /\ \A i \in 1..Len(Rest(s)) : (Rest(s) \o t)[i] = Rest(s)[i]
            /\ \A i \in 1..Len(t) : (Rest(s) \o t)[Len(Rest(s)) + i] = t[i]
        BY <1>5, Concat
      <4>2. QED  BY <1>1, <1>2, <1>5, <3>1, <4>1
    <3>3. ASSUME NEW i \in 1..Len(left) PROVE left[i] = (Rest(s) \o t)[i]
      <4>1. /\ i \in Nat /\ i >= 1 /\ i <= Len(s) + Len(t) - end
            /\ left[i] = (s \o t)[end + i]
        BY <1>1, <1>2, <3>1
      <4>2. CASE i <= Len(s) - end
        <5>1. i \in 1..(Len(s) - end) /\ end + i \in 1..Len(s)
          BY <1>1, <1>2, <4>1, <4>2
        <5>2. (s \o t)[end + i] = s[end + i]
          BY <1>1, <5>1
        <5>3. QED  BY <1>5, <3>2, <4>1, <5>1, <5>2
      <4>3. CASE ~(i <= Len(s) - end)
        <5> DEFINE j == i - (Len(s) - end)
        <5>1. j \in 1..Len(t) /\ end + i = Len(s) + j /\ i = Len(Rest(s)) + j
          BY <1>1, <1>2, <1>5, <4>1, <4>3
        <5> HIDE DEF j
        <5>2. QED  BY <1>1, <3>2, <4>1, <5>1
      <4>4. QED  BY <4>2, <4>3
    <3>4. left = Rest(s) \o t
      BY <3>1, <3>2, <3>3, SeqEqual
    <3>5. QED  BY <3>4 DEF left
  <2>4. QED  BY <2>2, <2>3
<1>7. /\ Len(Rest(s)) < PacketBytes /\ Len(s) = end + Len(Rest(s))
      /\ \A i \in 1..Len(Rest(s)) : Rest(s)[i] = s[end + i]
  BY <1>1, <1>2, <1>5, PacketSize
<1>8. QED  BY <1>2, <1>3, <1>4, <1>5, <1>6, <1>7, Zenon DEF whole, end

----------------------------------------------------------------------------
(* Captured frames.                                                        *)

\* Bytes are small numbers; the bound is kept apart from the range.
LEMMA ByteBounds ==
    ASSUME NEW b
    PROVE  b \in Byte <=> b \in Nat /\ b <= 255
<1>1. b \in Byte <=> b \in Nat /\ b <= MaxByte
  <2>1. MaxByte \in Nat
    BY DEF MaxByte
  <2>2. QED  BY <2>1 DEF Byte
<1>2. QED  BY <1>1 DEF MaxByte

\* Where the headers of a frame are, and the two bytes that are read.
LEMMA HeaderFields ==
    ASSUME NEW h \in Header
    PROVE  LET ip == LinkLength[h.link]
               tcp == ip + IpHeaderLength(h)
               bytes == HeaderBytesOf(h)
           IN  /\ ip \in Nat /\ IpHeaderLength(h) \in Nat /\ IpHeaderLength(h) >= 20
               /\ tcp + 13 <= HeaderLength(h)
               /\ HeaderLength(h) = tcp + 4 * h.doff
               /\ bytes \in Seq(Byte) /\ Len(bytes) = HeaderLength(h)
               /\ bytes[ip + 1] = 16 * h.version + (IF h.version = 4 THEN h.ihl ELSE 0)
               /\ bytes[tcp + 13] = 16 * h.doff
<1> DEFINE ip == LinkLength[h.link]
           tcp == ip + IpHeaderLength(h)
           bytes == HeaderBytesOf(h)
           version == 16 * h.version + (IF h.version = 4 THEN h.ihl ELSE 0)
<1>1. /\ h.version \in {4, 6}
      /\ h.ihl \in Nat /\ h.ihl >= 5 /\ h.ihl <= 15
      /\ h.doff \in Nat /\ h.doff >= 5 /\ h.doff <= 15
      /\ h.link \in {"EN10MB", "NULL", "LINUX_SLL"}
  BY DEF Header, Known, LinkLength
<1>2. ip \in Nat
  BY <1>1 DEF LinkLength
<1>3. /\ IpHeaderLength(h) \in Nat /\ IpHeaderLength(h) >= 20
  BY <1>1 DEF IpHeaderLength
<1>4. HeaderLength(h) = tcp + 4 * h.doff
  BY DEF HeaderLength
<1> HIDE DEF ip
<1>5. tcp \in Nat /\ tcp + 13 <= HeaderLength(h) /\ HeaderLength(h) \in Nat
  BY <1>1, <1>2, <1>3, <1>4
<1>6. ip + 1 \in 1..HeaderLength(h) /\ tcp + 13 \in 1..HeaderLength(h) /\ ip + 1 # tcp + 13
  BY <1>2, <1>3, <1>5
<1>7. version \in Byte /\ 16 * h.doff \in Byte /\ 0 \in Byte
  <2>1. version \in Nat /\ version <= 255
    BY <1>1
  <2>2. 16 * h.doff \in Nat /\ 16 * h.doff <= 255
    BY <1>1
  <2>3. QED  BY <2>1, <2>2, ByteBounds
<1> HIDE DEF tcp, version
<1>8. bytes = [i \in 1..HeaderLength(h) |->
                  CASE i = ip + 1 -> version [] i = tcp + 13 -> 16 * h.doff [] OTHER -> 0]
  BY DEF HeaderBytesOf, ip, tcp, version
<1>9. \A i \in 1..HeaderLength(h) :
          bytes[i] = IF i = ip + 1 THEN version
                     ELSE IF i = tcp + 13 THEN 16 * h.doff ELSE 0
  BY <1>6, <1>8
<1>10. bytes[ip + 1] = version /\ bytes[tcp + 13] = 16 * h.doff
  BY <1>6, <1>9
<1>11. bytes \in Seq(Byte) /\ Len(bytes) = HeaderLength(h)
  <2>1. DOMAIN bytes = 1..HeaderLength(h) /\ bytes = [i \in 1..HeaderLength(h) |-> bytes[i]]
    BY <1>8
  <2>2. bytes \in [1..HeaderLength(h) -> Byte]
    BY <1>7, <1>9, <2>1
  <2>3. bytes \in Seq(Byte)
    BY <1>5, <2>2, SeqDef
  <2>4. QED  BY <1>5, <2>1, <2>3, LenProperties
<1>12. QED  BY <1>2, <1>3, <1>4, <1>5, <1>10, <1>11 DEF ip, tcp, version

(***************************************************************************)
(* packetHandler finds the payload: for each link type, with or without IP *)
(* and TCP options, what it queues of a frame is the payload and the       *)
(* padding behind it, and no byte of the headers.                          *)
(***************************************************************************)
THEOREM PayloadIsFound ==
    ASSUME NEW h \in Header, NEW payload \in Seq(Byte), NEW padding \in Seq(Byte)
    PROVE  PayloadOf(h.link, Frame(h, payload, padding)) = payload \o padding
<1> DEFINE ip == LinkLength[h.link]
           tcp == ip + IpHeaderLength(h)
           header == HeaderBytesOf(h)
           data == payload \o padding
           frame == Frame(h, payload, padding)
<1>1. /\ h.version \in {4, 6} /\ h.link \in Known
      /\ h.ihl \in Nat /\ h.ihl >= 5 /\ h.ihl <= 15
      /\ h.doff \in Nat /\ h.doff >= 5 /\ h.doff <= 15
  BY DEF Header
<1>2. /\ ip \in Nat /\ IpHeaderLength(h) \in Nat /\ IpHeaderLength(h) >= 20
      /\ tcp + 13 <= HeaderLength(h)
      /\ HeaderLength(h) = tcp + 4 * h.doff
      /\ header \in Seq(Byte) /\ Len(header) = HeaderLength(h)
      /\ header[ip + 1] = 16 * h.version + (IF h.version = 4 THEN h.ihl ELSE 0)
      /\ header[tcp + 13] = 16 * h.doff
  BY HeaderFields
<1>3. data \in Seq(Byte)
  BY ConcatProperties
<1> HIDE DEF ip, header, data, frame
<1>4. frame = header \o data
  <2>1. (header \o payload) \o padding = header \o (payload \o padding)
    BY <1>2, BytesAssociative
  <2>2. QED  BY <2>1 DEF Frame, frame, header, data
<1>5. /\ frame \in Seq(Byte) /\ Len(frame) = Len(header) + Len(data)
      /\ \A i \in 1..Len(header) : frame[i] = header[i]
      /\ \A i \in 1..Len(data) : frame[Len(header) + i] = data[i]
      /\ Len(header) \in Nat /\ Len(data) \in Nat
  <2>1. Len(header) \in Nat /\ Len(data) \in Nat
    BY <1>2, <1>3, LenProperties
  <2>2. /\ frame \in Seq(Byte) /\ Len(frame) = Len(header) + Len(data)
        /\ \A i \in 1..(Len(header) + Len(data)) :
               frame[i] = IF i <= Len(header) THEN header[i] ELSE data[i - Len(header)]
    BY <1>2, <1>3, <1>4, ConcatProperties
  <2>3. \A i \in 1..Len(data) : frame[Len(header) + i] = data[i]
    BY <2>1, <2>2
  <2>4. QED  BY <2>1, <2>2, <2>3
<1>6. ip + 1 \in 1..Len(header) /\ tcp + 13 \in 1..Len(header)
  <2>1. ip \in Nat /\ IpHeaderLength(h) \in Nat /\ Len(header) \in Nat
    BY <1>2, <1>5
  <2>2. ip + IpHeaderLength(h) + 13 <= Len(header)
    BY <1>2
  <2>3. \A i, l, n \in Nat : i + l + 13 <= n => i + 1 \in 1..n /\ (i + l) + 13 \in 1..n
    OBVIOUS
  <2>4. QED  BY ONLY <2>1, <2>2, <2>3
<1>7. IpLength(frame, ip) = IpHeaderLength(h)
  <2>1. frame[ip + 1] = 16 * h.version + (IF h.version = 4 THEN h.ihl ELSE 0)
    BY <1>2, <1>5, <1>6
  <2>2. CASE h.version = 4
    <3>1. (64 + h.ihl) \div 16 = 4 /\ (64 + h.ihl) % 16 = h.ihl
      <4>1. \A n \in Nat : n <= 15 => (64 + n) \div 16 = 4 /\ (64 + n) % 16 = n
        BY SMT
      <4>2. QED  BY <1>1, <4>1
    <3>2. frame[ip + 1] = 64 + h.ihl
      BY <1>1, <2>1, <2>2
    <3>3. QED  BY <1>1, <2>2, <3>1, <3>2 DEF IpLength, IpHeaderLength
  <2>3. CASE h.version = 6
    <3>1. frame[ip + 1] = 96 /\ 96 \div 16 = 6
      BY <2>1, <2>3
    <3>2. QED  BY <2>3, <3>1 DEF IpLength, IpHeaderLength
  <2>4. QED  BY <1>1, <2>2, <2>3
<1>8. TcpLength(frame, tcp) = 4 * h.doff
  <2>1. frame[tcp + 13] = 16 * h.doff
    BY <1>2, <1>5, <1>6
  <2>2. (16 * h.doff) \div 16 = h.doff
    BY <1>1, SMT
  <2>3. QED  BY <1>1, <2>1, <2>2 DEF TcpLength
<1>9. PayloadOffset(h.link, frame) = Len(header)
  BY <1>2, <1>7, <1>8 DEF PayloadOffset, ip
<1>10. PayloadOf(h.link, frame) = SubSeq(frame, Len(header) + 1, Len(frame))
  BY <1>1, <1>9 DEF PayloadOf
<1>11. SubSeq(frame, Len(header) + 1, Len(frame)) = data
  <2> DEFINE rest == SubSeq(frame, Len(header) + 1, Len(frame))
  <2>1. /\ rest \in Seq(Byte) /\ Len(rest) = Len(frame) - Len(header)
        /\ \A i \in 1..(Len(frame) - Len(header)) : rest[i] = frame[Len(header) + i]
    BY <1>5, Drop
  <2> HIDE DEF rest
  <2>2. Len(rest) = Len(data) /\ \A i \in 1..Len(data) : rest[i] = data[i]
    BY <1>5, <2>1
  <2>3. rest = data
    BY <1>3, <2>1, <2>2, SeqEqual
  <2>4. QED  BY <2>3 DEF rest
<1>12. QED  BY <1>10, <1>11 DEF frame, data

\* Padding is zeros.
LEMMA PaddingIsZeros ==
    ASSUME NEW h \in Header, NEW n \in Nat, NEW p
    PROVE  /\ PaddingOf(p, h, n) \in Seq(Byte)
           /\ \A i \in 1..Len(PaddingOf(p, h, n)) : PaddingOf(p, h, n)[i] = 0
<1>1. HeaderLength(h) \in Nat
  BY HeaderFields, LenProperties
<1>2. ASSUME NEW k \in Nat
      PROVE  Zeros(k) \in Seq(Byte) /\ \A i \in 1..Len(Zeros(k)) : Zeros(k)[i] = 0
  <2>1. 0 \in Byte
    BY ByteBounds
  <2>2. Zeros(k) \in [1..k -> Byte]
    BY <2>1 DEF Zeros
  <2>3. Zeros(k) \in Seq(Byte)
    BY <2>2, SeqDef
  <2>4. DOMAIN Zeros(k) = 1..Len(Zeros(k))
    BY <2>3, LenProperties
  <2>5. QED  BY <2>3, <2>4 DEF Zeros
<1>3. <<>> \in Seq(Byte) /\ Len(<<>>) = 0
  BY EmptySeq
<1>4. Padding(h, n) \in Seq(Byte) /\ \A i \in 1..Len(Padding(h, n)) : Padding(h, n)[i] = 0
  <2>1. CASE h.link = "EN10MB" /\ HeaderLength(h) + n < MinFrame
    <3>1. MinFrame - HeaderLength(h) - n \in Nat
      BY <1>1, <2>1 DEF MinFrame
    <3>2. QED  BY <1>2, <2>1, <3>1 DEF Padding
  <2>2. CASE ~(h.link = "EN10MB" /\ HeaderLength(h) + n < MinFrame)
    BY <1>3, <2>2 DEF Padding
  <2>3. QED  BY <2>1, <2>2
<1>5. QED  BY <1>3, <1>4 DEF PaddingOf

----------------------------------------------------------------------------
(* The parser inside the conversation is the one of ProtocolParser.        *)

LEMMA SamePacket ==
    /\ Parser!PacketBytes = PacketBytes /\ Proved!PacketBytes = PacketBytes
    /\ Parser!HeaderBytes = 6 /\ Proved!HeaderBytes = 6
    /\ \A bytes : /\ Parser!HasMagic(bytes) <=> HasMagic(bytes)
                  /\ Proved!HasMagic(bytes) <=> HasMagic(bytes)
                  /\ \A at : /\ Parser!Decode(bytes, at) = Decode(bytes, at)
                            /\ Proved!Decode(bytes, at) = Decode(bytes, at)
    /\ \A mode : /\ Parser!ValidMode(mode) <=> ValidMode(mode)
                 /\ Proved!ValidMode(mode) <=> ValidMode(mode)
<1>1. /\ Parser!PacketBytes = PacketBytes /\ Proved!PacketBytes = PacketBytes
      /\ Parser!HeaderBytes = 6 /\ Proved!HeaderBytes = 6
  BY DEF Parser!PacketBytes, Proved!PacketBytes, PacketBytes, Parser!PayloadBytes,
         Proved!PayloadBytes, PayloadBytes, Parser!HeaderBytes, Proved!HeaderBytes,
         HeaderBytes
<1>2. \A bytes : /\ Parser!HasMagic(bytes) <=> HasMagic(bytes)
                 /\ Proved!HasMagic(bytes) <=> HasMagic(bytes)
  BY DEF Parser!HasMagic, Proved!HasMagic, HasMagic, Parser!Magic0, Proved!Magic0, Magic0,
         Parser!Magic1, Proved!Magic1, Magic1
<1>3. \A mode : /\ Parser!ValidMode(mode) <=> ValidMode(mode)
                /\ Proved!ValidMode(mode) <=> ValidMode(mode)
  BY DEF Parser!ValidMode, Proved!ValidMode, ValidMode, Parser!ModeRx, Proved!ModeRx,
         ModeRx, Parser!ModeTx, Proved!ModeTx, ModeTx
<1>4. \A bytes, at : Parser!Decode(bytes, at) = Decode(bytes, at)
  BY DEF Parser!Decode, Decode, Parser!CmdWord, CmdWord, Parser!OrLow2, OrLow2,
         Parser!OrBit, OrBit, Parser!ModeTx, ModeTx, Parser!WordCount, WordCount,
         Parser!PayloadWord, PayloadWord, Parser!HeaderBytes, HeaderBytes
<1>5. \A bytes, at : Proved!Decode(bytes, at) = Decode(bytes, at)
  BY DEF Proved!Decode, Decode, Proved!CmdWord, CmdWord, Proved!OrLow2, OrLow2,
         Proved!OrBit, OrBit, Proved!ModeTx, ModeTx, Proved!WordCount, WordCount,
         Proved!PayloadWord, PayloadWord, Proved!HeaderBytes, HeaderBytes
<1>6. QED  BY <1>1, <1>2, <1>3, <1>4, <1>5

LEMMA SameBytes ==
    /\ Bytes \subseteq Seq(Proved!Byte)
    /\ Parser!TypeOK <=> Proved!TypeOK
<1>1. Proved!Byte = Byte
  BY DEF Byte, Proved!Byte, MaxByte, Proved!MaxByte
<1>2. Parser!TypeOK <=> Proved!TypeOK
  BY DEF Parser!TypeOK, Proved!TypeOK, Parser!Byte, Proved!Byte, Parser!Transaction,
         Proved!Transaction, Parser!Word, Proved!Word, Parser!MaxByte, Proved!MaxByte,
         Parser!MaxWord, Proved!MaxWord
<1>3. QED  BY <1>1, <1>2 DEF Bytes

LEMMA SameSteps ==
    /\ Parser!Init <=> Proved!Init
    /\ Parser!vars = Proved!vars
    /\ Parser!LoopTurn <=> Proved!LoopTurn
    /\ \A b : Parser!ParseStream(b) <=> Proved!ParseStream(b)
<1>1. Parser!Init <=> Proved!Init
  BY DEF Parser!Init, Proved!Init
<1>2. Parser!vars = Proved!vars
  BY DEF Parser!vars, Proved!vars
<1>3. \A b : Parser!ParseStream(b) <=> Proved!ParseStream(b)
  BY DEF Parser!ParseStream, Proved!ParseStream
<1>4. \A n : Parser!Erase(n) <=> Proved!Erase(n)
  BY DEF Parser!Erase, Proved!Erase
<1>5. /\ Parser!SkipByte <=> Proved!SkipByte
      /\ Parser!RejectMode <=> Proved!RejectMode
      /\ Parser!AwaitBytes <=> Proved!AwaitBytes
  BY <1>4, SamePacket DEF Parser!SkipByte, Proved!SkipByte, Parser!RejectMode,
     Proved!RejectMode, Parser!AwaitBytes, Proved!AwaitBytes
<1>6. Parser!DecodePacket <=> Proved!DecodePacket
  BY <1>4, SamePacket DEF Parser!DecodePacket, Proved!DecodePacket
<1>7. QED  BY <1>1, <1>2, <1>3, <1>5, <1>6 DEF Parser!LoopTurn, Proved!LoopTurn

\* What a step does to the parser keeps the invariant proved for it.
LEMMA ParserInvStep ==
    ASSUME Proved!Inv,
           \/ \E b \in Bytes : Parser!ParseStream(b)
           \/ Parser!LoopTurn
           \/ UNCHANGED parserVars
    PROVE  Proved!Inv'
<1>1. MaxWords \in Nat \ {0}
  BY MaxWordsAssumption
<1>2. [Proved!Next]_(Proved!vars)
  BY SameSteps DEF Proved!Next, Proved!vars, parserVars
<1>3. QED  BY <1>1, <1>2, SameBytes, Proved!NextInv

LEMMA ParserInvInit == Parser!Init => Proved!Inv
BY MaxWordsAssumption, SameBytes, SameSteps, Proved!InitInv

LEMMA SameTypes == Parser!TypeOK /\ UNCHANGED parserVars => Parser!TypeOK'
BY DEF Parser!TypeOK, parserVars

\* What is queued of a segment, and of an acknowledgement.
LEMMA Queued ==
    ASSUME NEW h \in Headers, NEW p, NEW bytes \in Bytes, NEW n \in Nat
    PROVE  /\ PayloadOf(h.link, Frame(h, bytes, PaddingOf(p, h, n)))
                  = bytes \o PaddingOf(p, h, n)
           /\ PayloadOf(h.link, Frame(h, bytes, <<>>)) = bytes
           /\ bytes \o PaddingOf(p, h, n) \in Bytes
           /\ <<>> \o PaddingOf(p, h, n) = PaddingOf(p, h, n)
<1>1. h \in Header
  BY HeadersAssumption
<1>2. PaddingOf(p, h, n) \in Seq(Byte) /\ bytes \in Seq(Byte) /\ <<>> \in Seq(Byte)
  BY <1>1, PaddingIsZeros, EmptySeq DEF Bytes
<1>3. bytes \o <<>> = bytes /\ <<>> \o PaddingOf(p, h, n) = PaddingOf(p, h, n)
  BY <1>2, ConcatEmptySeq
<1>4. bytes \o PaddingOf(p, h, n) \in Seq(Byte)
  BY <1>2, ConcatProperties
<1>5. QED  BY <1>1, <1>2, <1>3, <1>4, PayloadIsFound DEF Bytes

----------------------------------------------------------------------------
(* What the actions do to the streams.                                     *)

LEMMA TwoPeers ==
    /\ Peers = {"controller", "simulator"} /\ "controller" # "simulator"
    /\ Other("controller") = "simulator" /\ Other("simulator") = "controller"
    /\ \A p \in Peers : Other(p) \in Peers /\ Other(p) # p /\ Other(Other(p)) = p
    /\ \A p, q \in Peers : q # p => q = Other(p)
BY DEF Peers, Other

\* The packets of the peers are what the parser accepts.
LEMMA PacketsSent ==
    ASSUME NEW p \in Requests \cup Answers
    PROVE  p \in Bytes /\ Len(p) = PacketBytes /\ WholePackets(p)
<1>1. p \in Packet /\ Accepted(p)
  BY PacketsAssumption DEF Accepted
<1>2. QED  BY <1>1, OnePacket DEF Bytes

\* A segment takes bytes from a sender's stream and completes packets.
LEMMA SegmentMoves ==
    ASSUME TypeOK, Streams, NEW p \in Peers, NEW n \in 1..Len(unsent[p]),
           NEW h \in Headers, Segment(p, n, h)
    PROVE  LET bytes == SubSeq(unsent[p], 1, n)
               stream == partial[p] \o bytes
           IN  /\ bytes \in Bytes /\ Len(bytes) = n /\ stream \in Bytes
               /\ unsent'[p] \in Bytes /\ bytes \o unsent'[p] = unsent[p]
               /\ WholePackets(stream \o unsent'[p])
               /\ unsent' \in [Peers -> Bytes] /\ unread' \in [Peers -> Bytes]
               /\ unsent'[Other(p)] = unsent[Other(p)]
               /\ unread'[Other(p)] = unread[Other(p)] \o bytes
               /\ unread'[p] = unread[p]
               /\ crossed' = crossed \o Pieces(stream)
               /\ partial' = [partial EXCEPT ![p] = Rest(stream)]
<1> DEFINE bytes == SubSeq(unsent[p], 1, n)
           stream == partial[p] \o bytes
           left == SubSeq(unsent[p], n + 1, Len(unsent[p]))
<1>1. /\ unsent \in [Peers -> Bytes] /\ unread \in [Peers -> Bytes]
      /\ partial \in [Peers -> Bytes] /\ Other(p) \in Peers /\ Other(p) # p
  BY TwoPeers DEF TypeOK
<1>2. unsent[p] \in Seq(Byte) /\ partial[p] \in Seq(Byte) /\ unread[Other(p)] \in Seq(Byte)
  BY <1>1 DEF Bytes
<1>3. Len(unsent[p]) \in Nat /\ n \in 0..Len(unsent[p]) /\ n \in Nat
  BY <1>2, LenProperties
<1>4. bytes \in Seq(Byte) /\ Len(bytes) = n
  <2>1. bytes = SubSeq(unsent[p], 0 + 1, n) /\ 0 \in 0..Len(unsent[p]) /\ n \in 0..Len(unsent[p])
    BY <1>3
  <2>2. QED  BY <1>2, <1>3, <2>1, Cut
<1>5. left \in Seq(Byte) /\ bytes \o left = unsent[p]
  BY <1>2, <1>3, Drop, CutInTwo
<1>6. /\ unsent' = [unsent EXCEPT ![p] = left]
      /\ unread' = [unread EXCEPT ![Other(p)] = @ \o bytes]
      /\ Complete(p, bytes)
  BY DEF Segment
<1> HIDE DEF bytes, left
<1>7. /\ crossed' = crossed \o Pieces(stream)
      /\ partial' = [partial EXCEPT ![p] = Rest(stream)]
  BY <1>6 DEF Complete, Pieces, Rest
<1>8. stream \in Seq(Byte) /\ unread[Other(p)] \o bytes \in Seq(Byte)
  BY <1>2, <1>4, ConcatProperties
<1>9. stream \o left = Outgoing(p)
  <2>1. stream \o left = partial[p] \o (bytes \o left)
    BY <1>2, <1>4, <1>5, BytesAssociative
  <2>2. QED  BY <1>5, <2>1 DEF Outgoing
<1>10. WholePackets(stream \o left)
  BY <1>9 DEF Streams
<1> HIDE DEF stream
<1>11. /\ unsent'[p] = left /\ unsent'[Other(p)] = unsent[Other(p)]
       /\ unread'[Other(p)] = unread[Other(p)] \o bytes /\ unread'[p] = unread[p]
       /\ unsent' \in [Peers -> Bytes] /\ unread' \in [Peers -> Bytes]
  BY <1>1, <1>5, <1>6, <1>8 DEF Bytes
<1>12. QED  BY <1>4, <1>5, <1>7, <1>8, <1>10, <1>11 DEF Bytes, stream, bytes

\* The streams after a segment, and what it adds to the packets.
LEMMA SegmentStreams ==
    ASSUME TypeOK, Streams, NEW p \in Peers, NEW n \in 1..Len(unsent[p]),
           NEW h \in Headers, Segment(p, n, h)
    PROVE  /\ partial' \in [Peers -> Bytes] /\ crossed' \in Seq(Packet)
           /\ Streams'
<1> DEFINE bytes == SubSeq(unsent[p], 1, n)
           stream == partial[p] \o bytes
           whole == Len(stream) \div PacketBytes
<1>1. /\ stream \in Seq(Byte) /\ unsent'[p] \in Seq(Byte)
      /\ WholePackets(stream \o unsent'[p])
      /\ unsent'[Other(p)] = unsent[Other(p)]
      /\ crossed' = crossed \o Pieces(stream)
      /\ partial' = [partial EXCEPT ![p] = Rest(stream)]
  BY SegmentMoves DEF Bytes
<1> HIDE DEF stream
<1>2. /\ whole \in Nat /\ Pieces(stream) \in Seq(Packet) /\ Len(Pieces(stream)) = whole
      /\ \A k \in 1..whole : Accepted(Pieces(stream)[k])
      /\ Rest(stream) \in Seq(Byte) /\ Len(Rest(stream)) < PacketBytes
      /\ WholePackets(Rest(stream) \o unsent'[p])
  BY <1>1, PiecesOfStream
<1> HIDE DEF whole
<1>3. /\ partial \in [Peers -> Bytes] /\ crossed \in Seq(Packet)
      /\ Other(p) \in Peers /\ Other(p) # p /\ \A q \in Peers : q = p \/ q = Other(p)
  BY TwoPeers DEF TypeOK
<1>4. /\ partial' \in [Peers -> Bytes] /\ partial'[p] = Rest(stream)
      /\ partial'[Other(p)] = partial[Other(p)]
  BY <1>1, <1>2, <1>3 DEF Bytes
<1>5. /\ crossed' \in Seq(Packet) /\ Len(crossed') = Len(crossed) + whole
      /\ Len(crossed) \in Nat
      /\ \A k \in 1..(Len(crossed) + whole) :
             crossed'[k] = IF k <= Len(crossed) THEN crossed[k]
                           ELSE Pieces(stream)[k - Len(crossed)]
  BY <1>1, <1>2, <1>3, ConcatProperties, LenProperties
<1>6. \A k \in 1..Len(crossed') : Accepted(crossed'[k])
  <2> SUFFICES ASSUME NEW k \in 1..Len(crossed') PROVE Accepted(crossed'[k])
    OBVIOUS
  <2>1. CASE k <= Len(crossed)
    BY <1>2, <1>5, <2>1 DEF Streams
  <2>2. CASE ~(k <= Len(crossed))
    <3>1. k - Len(crossed) \in 1..whole
      BY <1>2, <1>5, <2>2
    <3>2. QED  BY <1>2, <1>5, <2>2, <3>1
  <2>3. QED  BY <2>1, <2>2
<1>7. \A q \in Peers : WholePackets(partial'[q] \o unsent'[q]) /\ Len(partial'[q]) < PacketBytes
  <2>1. WholePackets(partial'[p] \o unsent'[p]) /\ Len(partial'[p]) < PacketBytes
    BY <1>2, <1>4
  <2>2. /\ WholePackets(partial'[Other(p)] \o unsent'[Other(p)])
        /\ Len(partial'[Other(p)]) < PacketBytes
    BY <1>1, <1>3, <1>4 DEF Streams, Outgoing
  <2>3. QED  BY <1>3, <2>1, <2>2
<1>8. Streams'
  <2>1. Streams' <=> /\ \A q \in Peers : WholePackets(partial'[q] \o unsent'[q])
                                         /\ Len(partial'[q]) < PacketBytes
                     /\ \A k \in 1..Len(crossed') : Accepted(crossed'[k])
    BY DEF Streams, Outgoing, WholePackets, Boundary, Accepted, HasMagic, ValidMode
  <2>2. QED  BY <1>6, <1>7, <2>1
<1>9. QED  BY <1>4, <1>5, <1>8

StreamsOf(parts, rests, packets) ==
    /\ \A p \in Peers : WholePackets(parts[p] \o rests[p]) /\ Len(parts[p]) < PacketBytes
    /\ \A k \in 1..Len(packets) : Accepted(packets[k])

LEMMA StreamsPrimed ==
    /\ Streams <=> StreamsOf(partial, unsent, crossed)
    /\ Streams' <=> StreamsOf(partial', unsent', crossed')
<1>1. Streams <=> StreamsOf(partial, unsent, crossed)
  BY DEF Streams, StreamsOf, Outgoing
<1>2. (Streams <=> StreamsOf(partial, unsent, crossed))'
  BY <1>1, PTL
<1>3. StreamsOf(partial, unsent, crossed)' <=> StreamsOf(partial', unsent', crossed')
  BY DEF StreamsOf, WholePackets, Boundary, Accepted, HasMagic, ValidMode
<1>4. QED  BY <1>1, <1>2, <1>3

\* A peer that writes a packet appends a packet to its stream.
LEMMA WriteStreams ==
    ASSUME TypeOK, Streams, NEW p \in Peers, NEW r \in Requests \cup Answers,
           unsent' = [unsent EXCEPT ![p] = @ \o r], UNCHANGED <<partial, crossed>>
    PROVE  unsent' \in [Peers -> Bytes] /\ Streams'
<1>1. /\ unsent \in [Peers -> Bytes] /\ partial \in [Peers -> Bytes]
      /\ r \in Seq(Byte) /\ WholePackets(r)
  BY PacketsSent DEF TypeOK, Bytes
<1>2. /\ unsent[p] \in Seq(Byte) /\ partial[p] \in Seq(Byte)
      /\ unsent'[p] = unsent[p] \o r
      /\ \A q \in Peers : q # p => unsent'[q] = unsent[q]
  BY <1>1 DEF Bytes
<1>3. unsent[p] \o r \in Seq(Byte)
  BY <1>1, <1>2, ConcatProperties
<1>4. unsent' \in [Peers -> Bytes]
  BY <1>1, <1>3 DEF Bytes
<1>5. WholePackets(partial[p] \o unsent'[p])
  <2>1. partial[p] \o (unsent[p] \o r) = (partial[p] \o unsent[p]) \o r
    BY <1>1, <1>2, BytesAssociative
  <2>2. partial[p] \o unsent[p] \in Seq(Byte) /\ WholePackets(partial[p] \o unsent[p])
    BY <1>2, ConcatProperties DEF Streams, Outgoing
  <2>3. QED  BY <1>1, <1>2, <2>1, <2>2, PacketsConcat
<1>6. StreamsOf(partial', unsent', crossed')
  BY <1>2, <1>5, StreamsPrimed DEF StreamsOf
<1>7. QED  BY <1>4, <1>6, StreamsPrimed

\* What a peer leaves unread of its stream.
LEMMA TakenFrom ==
    ASSUME TypeOK, NEW p \in Peers, NEW n \in Nat,
           unread' = [unread EXCEPT ![p] = SubSeq(unread[p], n + 1, Len(unread[p]))]
    PROVE  /\ unread' \in [Peers -> Bytes]
           /\ unread[p] \in Bytes /\ Len(unread[p]) \in Nat
           /\ \A q \in Peers : q # p => unread'[q] = unread[q]
           /\ unread'[p] = SubSeq(unread[p], n + 1, Len(unread[p]))
<1>1. unread \in [Peers -> Bytes] /\ unread[p] \in Seq(Byte)
  BY DEF TypeOK, Bytes
<1>2. Len(unread[p]) \in Nat
  BY <1>1, LenProperties
<1>3. SubSeq(unread[p], n + 1, Len(unread[p])) \in Seq(Byte)
  <2>1. \A i \in (n + 1)..Len(unread[p]) : unread[p][i] \in Byte
    BY <1>1, <1>2, ElementOfSeq
  <2>2. QED  BY <1>2, <2>1, SubSeqProperties
<1>4. QED  BY <1>1, <1>2, <1>3 DEF Bytes

LEMMA RequestTypes ==
    ASSUME TypeOK, Streams, NEW r \in Requests, Request(r)
    PROVE  TypeOK' /\ Streams'
<1>1. "controller" \in Peers /\ r \in Requests \cup Answers
  BY TwoPeers
<1>2. unsent' \in [Peers -> Bytes] /\ Streams'
  BY <1>1, WriteStreams DEF Request
<1>3. UNCHANGED parserVars
  BY DEF Request
<1>4. Parser!TypeOK'
  BY <1>3, SameTypes DEF TypeOK
<1>5. QED  BY <1>2, <1>4 DEF Request, TypeOK

LEMMA SimulatorReadsTypes ==
    ASSUME TypeOK, Streams, NEW a \in Answers, SimulatorReads(a)
    PROVE  TypeOK' /\ Streams'
<1>1. "simulator" \in Peers /\ a \in Requests \cup Answers /\ a \in Bytes /\ PacketBytes \in Nat
  BY TwoPeers, PacketsSent, PacketSize
<1>2. unread' \in [Peers -> Bytes]
  BY <1>1, TakenFrom DEF SimulatorReads
<1>3. UNCHANGED parserVars
  BY DEF SimulatorReads
<1>4. Parser!TypeOK'
  BY <1>3, SameTypes DEF TypeOK
<1>5. unsent' \in [Peers -> Bytes] /\ answer' \in Bytes /\ Streams'
  <2>1. UNCHANGED <<partial, crossed>>
    BY DEF SimulatorReads
  <2>2. CASE unsent' = [unsent EXCEPT !["simulator"] = @ \o a] /\ answer' = a
    BY <1>1, <2>1, <2>2, WriteStreams
  <2>3. CASE UNCHANGED <<unsent, answer>>
    BY <2>1, <2>3, StreamsPrimed DEF TypeOK
  <2>4. QED  BY <2>2, <2>3 DEF SimulatorReads
<1>6. QED  BY <1>2, <1>4, <1>5 DEF SimulatorReads, TypeOK

LEMMA ReadTypes ==
    ASSUME TypeOK, Streams, Read
    PROVE  TypeOK' /\ Streams'
<1>1. "controller" \in Peers /\ PacketBytes \in Nat
  BY TwoPeers, PacketSize
<1>2. /\ unread' \in [Peers -> Bytes]
      /\ unread["controller"] \in Seq(Byte) /\ Len(unread["controller"]) \in Nat
  BY <1>1, TakenFrom DEF Read, ReadUpTo, Bytes
<1>3. UNCHANGED <<unsent, partial, crossed>> /\ UNCHANGED parserVars
  BY DEF Read, ReadUpTo
<1>4. Parser!TypeOK' /\ Streams'
  BY <1>3, SameTypes, StreamsPrimed DEF TypeOK
<1>5. obtained' \in Bytes
  <2> DEFINE in == unread["controller"]
             n == IF Len(in) < PacketBytes THEN Len(in) ELSE PacketBytes
  <2>1. n \in 0..Len(in) /\ 0 \in 0..Len(in) /\ n \in 0..Len(in) /\ 0 + 1 = 1
    BY <1>1, <1>2
  <2>2. obtained' = SubSeq(in, 0 + 1, n)
    BY <2>1 DEF Read, ReadUpTo
  <2> HIDE DEF n
  <2>3. SubSeq(in, 0 + 1, n) \in Seq(Byte)
    BY <1>2, <2>1, Cut
  <2>4. QED  BY <2>2, <2>3 DEF Bytes
<1>6. QED  BY <1>2, <1>4, <1>5 DEF Read, ReadUpTo, TypeOK

LEMMA SegmentTypes ==
    ASSUME TypeOK, Streams, NEW p \in Peers, NEW n \in 1..Len(unsent[p]),
           NEW h \in Headers, Segment(p, n, h), Parser!TypeOK'
    PROVE  TypeOK' /\ Streams'
<1>1. partial' \in [Peers -> Bytes] /\ crossed' \in Seq(Packet) /\ Streams'
  BY SegmentStreams
<1>2. /\ unsent' \in [Peers -> Bytes] /\ unread' \in [Peers -> Bytes]
      /\ SubSeq(unsent[p], 1, n) \in Bytes
  BY SegmentMoves
<1>3. last' \in Bytes /\ cut' \subseteq Peers /\ disturbed' \in BOOLEAN
  <2>1. last' = SubSeq(unsent[p], 1, n) /\ cut' \subseteq cut \cup {p} /\ disturbed' \in BOOLEAN
    BY DEF Segment
  <2>2. QED  BY <1>2, <2>1 DEF TypeOK
<1>4. /\ waiting' \in BOOLEAN /\ answer' \in Bytes /\ obtained' \in Bytes
      /\ requests' \in Nat /\ acks' \in Nat
  BY DEF Segment, peerVars, TypeOK
<1>5. QED  BY <1>1, <1>2, <1>3, <1>4 DEF TypeOK

LEMMA AcknowledgeTypes ==
    ASSUME TypeOK, Streams, NEW p \in Peers, NEW h, Acknowledge(p, h), Parser!TypeOK'
    PROVE  TypeOK' /\ Streams'
<1>1. UNCHANGED <<unsent, unread, partial, crossed, last, cut, peerVars>>
  BY DEF Acknowledge
<1>2. acks' \in Nat /\ disturbed' \in BOOLEAN
  BY DEF Acknowledge, TypeOK
<1>3. Streams'
  BY <1>1, StreamsPrimed
<1>4. QED  BY <1>1, <1>2, <1>3 DEF TypeOK, peerVars

LEMMA RetransmitTypes ==
    ASSUME TypeOK, Streams, NEW h, Retransmit(h), Parser!TypeOK'
    PROVE  TypeOK' /\ Streams'
<1>1. UNCHANGED <<unsent, unread, partial, crossed, last, cut, acks, peerVars>>
  BY DEF Retransmit
<1>2. Streams'
  BY <1>1, StreamsPrimed
<1>3. disturbed' = TRUE
  BY DEF Retransmit
<1>4. QED  BY <1>1, <1>2, <1>3 DEF TypeOK, peerVars

\* Every step gives the parser a payload, is a turn of its loop, or leaves it.
LEMMA ParserMoves ==
    ASSUME TypeOK, [Next]_vars
    PROVE  \/ \E b \in Bytes : Parser!ParseStream(b)
           \/ Parser!LoopTurn
           \/ UNCHANGED parserVars
<1>1. ASSUME NEW p \in Peers, NEW n \in 1..Len(unsent[p]), NEW h \in Headers, Segment(p, n, h)
      PROVE  \E b \in Bytes : Parser!ParseStream(b)
  <2> DEFINE bytes == SubSeq(unsent[p], 1, n)
  <2>1. unsent[p] \in Seq(Byte)
    BY DEF TypeOK, Bytes
  <2>2. n \in Nat /\ bytes \in Bytes
    <3>1. Len(unsent[p]) \in Nat /\ n \in 0..Len(unsent[p]) /\ 0 \in 0..Len(unsent[p])
      BY <2>1, LenProperties
    <3>2. SubSeq(unsent[p], 0 + 1, n) \in Seq(Byte)
      BY <2>1, <3>1, Cut
    <3>3. QED  BY <3>1, <3>2 DEF Bytes
  <2> HIDE DEF bytes
  <2>3. bytes \o PaddingOf(p, h, n) \in Bytes
    BY <2>2, Queued
  <2>4. Parser!ParseStream(bytes \o PaddingOf(p, h, n))
    <3>1. Parser!ParseStream(PayloadOf(h.link, Frame(h, bytes, PaddingOf(p, h, n))))
      BY <1>1 DEF Segment, bytes
    <3>2. QED  BY <2>2, <3>1, Queued
  <2>5. QED  BY <2>3, <2>4
<1>2. ASSUME NEW p \in Peers, NEW h \in Headers, Acknowledge(p, h)
      PROVE  \E b \in Bytes : Parser!ParseStream(b)
  <2>1. <<>> \in Bytes
    BY EmptySeq DEF Bytes
  <2>2. <<>> \o PaddingOf(p, h, 0) \in Bytes
    BY <2>1, Queued
  <2>3. Parser!ParseStream(<<>> \o PaddingOf(p, h, 0))
    <3>1. PayloadOf(h.link, Frame(h, <<>>, PaddingOf(p, h, 0))) = <<>> \o PaddingOf(p, h, 0)
      <4>1. \A b \in Bytes : PayloadOf(h.link, Frame(h, b, PaddingOf(p, h, 0)))
                                 = b \o PaddingOf(p, h, 0)
        BY 0 \in Nat, Queued, Zenon
      <4>2. QED  BY <2>1, <4>1, Zenon
    <3>2. Parser!ParseStream(PayloadOf(h.link, Frame(h, <<>>, PaddingOf(p, h, 0))))
      BY <1>2 DEF Acknowledge
    <3>3. QED  BY <3>1, <3>2, Zenon
  <2>4. QED  BY <2>2, <2>3
<1>3. ASSUME NEW h \in Headers, Retransmit(h)
      PROVE  \E b \in Bytes : Parser!ParseStream(b)
  <2>1. last \in Bytes
    BY DEF TypeOK
  <2>2. Parser!ParseStream(last)
    BY <1>3, <2>1, Queued DEF Retransmit
  <2>3. QED  BY <2>1, <2>2
<1>4. ASSUME NEW r, Request(r) PROVE UNCHANGED parserVars
  BY <1>4 DEF Request
<1>5. ASSUME NEW a, SimulatorReads(a) PROVE UNCHANGED parserVars
  BY <1>5 DEF SimulatorReads
<1>6. ASSUME Read PROVE UNCHANGED parserVars
  BY <1>6 DEF Read, ReadUpTo
<1>7. ASSUME Wire PROVE \E b \in Bytes : Parser!ParseStream(b)
  BY <1>1, <1>2, <1>3, <1>7 DEF Wire
<1>8. ASSUME UNCHANGED vars PROVE UNCHANGED parserVars
  BY <1>8 DEF vars
<1>9. QED  BY <1>4, <1>5, <1>6, <1>7, <1>8 DEF Next, ParserTurn

Base == TypeOK /\ Proved!Inv /\ Streams

LEMMA ParserTyped == Proved!Inv => Parser!TypeOK
BY SameBytes DEF Proved!Inv

LEMMA BaseInit == Init => Base
<1> SUFFICES ASSUME Init PROVE Base
  OBVIOUS
<1>1. Proved!Inv
  BY ParserInvInit DEF Init
<1>2. Parser!TypeOK
  BY <1>1, ParserTyped
<1>3. TypeOK
  <2>1. <<>> \in Bytes /\ <<>> \in Seq(Packet)
    BY EmptySeq DEF Bytes
  <2>2. QED  BY <1>2, <2>1 DEF Init, TypeOK
<1>4. Streams
  <2>1. <<>> \in Seq(Byte) /\ Len(<<>>) = 0
    BY EmptySeq
  <2>2. <<>> \o <<>> = <<>>
    BY <2>1, ConcatEmptySeq
  <2>3. QED  BY <2>1, <2>2, EmptyIsWhole, PacketSize DEF Init, Streams, Outgoing
<1>5. QED  BY <1>1, <1>3, <1>4 DEF Base

LEMMA BaseStep == Base /\ [Next]_vars => Base'
<1> SUFFICES ASSUME Base, [Next]_vars PROVE Base'
  OBVIOUS
<1>1. TypeOK /\ Proved!Inv /\ Streams
  BY DEF Base
<1>2. Proved!Inv'
  BY <1>1, ParserMoves, ParserInvStep
<1>3. Parser!TypeOK'
  <2>1. (Proved!Inv => Parser!TypeOK)'
    BY ParserTyped, PTL
  <2>2. QED  BY <1>2, <2>1
<1>4. ASSUME NEW r \in Requests, Request(r) PROVE TypeOK' /\ Streams'
  BY <1>1, <1>4, RequestTypes
<1>5. ASSUME NEW a \in Answers, SimulatorReads(a) PROVE TypeOK' /\ Streams'
  BY <1>1, <1>5, SimulatorReadsTypes
<1>6. ASSUME Read PROVE TypeOK' /\ Streams'
  BY <1>1, <1>6, ReadTypes
<1>7. ASSUME Wire PROVE TypeOK' /\ Streams'
  BY <1>1, <1>3, <1>7, SegmentTypes, AcknowledgeTypes, RetransmitTypes DEF Wire
<1>8. ASSUME ParserTurn PROVE TypeOK' /\ Streams'
  <2>1. UNCHANGED wireVars /\ UNCHANGED peerVars
    BY <1>8 DEF ParserTurn
  <2>2. Streams'
    BY <1>1, <2>1, StreamsPrimed DEF wireVars
  <2>3. QED  BY <1>1, <1>3, <2>1, <2>2 DEF TypeOK, wireVars, peerVars
<1>9. ASSUME UNCHANGED vars PROVE TypeOK' /\ Streams'
  <2>1. UNCHANGED wireVars /\ UNCHANGED peerVars
    BY <1>9 DEF vars
  <2>2. Streams'
    BY <1>1, <2>1, StreamsPrimed DEF wireVars
  <2>3. QED  BY <1>1, <1>3, <2>1, <2>2 DEF TypeOK, wireVars, peerVars
<1>10. TypeOK' /\ Streams'
  BY <1>4, <1>5, <1>6, <1>7, <1>8, <1>9 DEF Next
<1>11. QED  BY <1>2, <1>10 DEF Base

----------------------------------------------------------------------------
(* What the accumulator holds.                                             *)

\* Nothing but zeros is a layout without a packet.
LEMMA ZerosAreLaidOut ==
    ASSUME NEW bytes \in Bytes, NEW packets \in Seq(Packet),
           \A i \in 1..Len(bytes) : bytes[i] = 0
    PROVE  LaidOut(bytes, Len(bytes), packets, Len(packets), <<>>)
<1>1. /\ Len(bytes) \in Nat /\ Len(packets) \in Nat /\ Len(<<>>) = 0
      /\ Len(packets) - Len(packets) = 0 /\ 0 * PacketBytes = 0
      /\ Len(bytes) + 0 = Len(bytes) /\ 1..0 = {}
  BY LenProperties, PacketSize DEF Bytes
<1>2. Zero(bytes, 0, Len(bytes)) /\ Zero(bytes, Len(bytes), Len(bytes))
  BY <1>1 DEF Zero
<1>3. QED  BY <1>1, <1>2 DEF LaidOut

\* Without a packet or the start of one there is nothing but zeros.
LEMMA OnlyZeros ==
    ASSUME NEW bytes \in Bytes, NEW z \in Nat, NEW packets \in Seq(Packet),
           LaidOut(bytes, z, packets, Len(packets), <<>>)
    PROVE  /\ \A i \in 1..Len(bytes) : bytes[i] = 0
           /\ LaidOut(bytes, Len(bytes), packets, Len(packets), <<>>)
<1>1. Len(bytes) \in Nat /\ Len(packets) \in Nat /\ Len(<<>>) = 0
  BY LenProperties DEF Bytes
<1>2. Len(packets) - Len(packets) = 0 /\ 0 * PacketBytes = 0 /\ z + 0 = z
  BY <1>1, PacketSize
<1>3. z <= Len(bytes) /\ Zero(bytes, 0, z) /\ Zero(bytes, z, Len(bytes))
  BY <1>1, <1>2 DEF LaidOut
<1>4. \A i \in 1..Len(bytes) : bytes[i] = 0
  <2>1. \A i \in 1..Len(bytes) : i \in 1..z \/ i \in (z + 1)..Len(bytes)
    BY <1>1
  <2>2. QED  BY <1>3, <2>1 DEF Zero
<1>5. QED  BY <1>4, ZerosAreLaidOut

\* Erasing a zero in front.
LEMMA ErasesZero ==
    ASSUME NEW bytes \in Bytes, NEW z \in Nat, z > 0, NEW packets \in Seq(Packet),
           NEW done \in 0..Len(packets), NEW start \in Bytes,
           LaidOut(bytes, z, packets, done, start)
    PROVE  LaidOut(SubSeq(bytes, 2, Len(bytes)), z - 1, packets, done, start)
<1> DEFINE pending == Len(packets) - done
           span == pending * PacketBytes
           rest == SubSeq(bytes, 2, Len(bytes))
<1>1. /\ Len(bytes) \in Nat /\ Len(packets) \in Nat /\ Len(start) \in Nat
      /\ pending \in Nat /\ bytes \in Seq(Byte)
  BY LenProperties DEF Bytes
<1>2. span \in Nat
  BY <1>1, PacketSize
<1> HIDE DEF span
<1>3. /\ z + span + Len(start) <= Len(bytes)
      /\ Zero(bytes, 0, z) /\ Zero(bytes, z + span + Len(start), Len(bytes))
      /\ \A k \in 1..pending : \A i \in 1..PacketBytes :
             bytes[z + (k - 1) * PacketBytes + i] = packets[done + k][i]
      /\ \A i \in 1..Len(start) : bytes[z + span + i] = start[i]
      /\ start # <<>> => z + span + Len(start) = Len(bytes)
  BY DEF LaidOut, span
<1>4. /\ Len(rest) = Len(bytes) - 1
      /\ \A i \in 1..(Len(bytes) - 1) : rest[i] = bytes[1 + i]
  <2>1. 1 \in 0..Len(bytes) /\ 1 + 1 = 2
    BY <1>1, <1>2, <1>3
  <2>2. QED  BY <1>1, <2>1, Drop
<1> HIDE DEF pending, rest
<1>5. /\ (z - 1) + span + Len(start) <= Len(rest)
      /\ start # <<>> => (z - 1) + span + Len(start) = Len(rest)
  BY <1>1, <1>2, <1>3, <1>4
<1>6. Zero(rest, 0, z - 1) /\ Zero(rest, (z - 1) + span + Len(start), Len(rest))
  <2>1. ASSUME NEW i \in 1..(z - 1) PROVE rest[i] = 0
    <3>1. i \in 1..(Len(bytes) - 1) /\ 1 + i \in (0 + 1)..z
      BY <1>1, <1>2, <1>3
    <3>2. QED  BY <1>3, <1>4, <3>1 DEF Zero
  <2>2. ASSUME NEW i \in ((z - 1) + span + Len(start) + 1)..Len(rest) PROVE rest[i] = 0
    <3>1. /\ i \in 1..(Len(bytes) - 1)
          /\ 1 + i \in (z + span + Len(start) + 1)..Len(bytes)
      BY <1>1, <1>2, <1>4
    <3>2. QED  BY <1>3, <1>4, <3>1 DEF Zero
  <2>3. QED  BY <2>1, <2>2 DEF Zero
<1>7. ASSUME NEW k \in 1..pending, NEW i \in 1..PacketBytes
      PROVE  rest[(z - 1) + (k - 1) * PacketBytes + i] = packets[done + k][i]
  <2> DEFINE at == (k - 1) * PacketBytes
  <2>1. at \in Nat /\ at + PacketBytes <= span
    <3>1. at + PacketBytes = k * PacketBytes /\ (pending - k) * PacketBytes + k * PacketBytes = span
      BY <1>1, PacketSize DEF span
    <3>2. (pending - k) * PacketBytes \in Nat /\ at \in Nat
      BY <1>1, PacketSize
    <3>3. QED  BY <1>1, <1>2, <3>1, <3>2, PacketSize
  <2>2. bytes[z + at + i] = packets[done + k][i]
    BY <1>3
  <2> HIDE DEF at
  <2>3. (z - 1) + at + i \in 1..(Len(bytes) - 1) /\ 1 + ((z - 1) + at + i) = z + at + i
    BY <1>1, <1>2, <1>3, <2>1, PacketSize
  <2>4. rest[(z - 1) + at + i] = bytes[z + at + i]
    BY <1>4, <2>3
  <2>5. QED  BY <2>2, <2>4 DEF at
<1>8. ASSUME NEW i \in 1..Len(start)
      PROVE  rest[(z - 1) + span + i] = start[i]
  <2>1. (z - 1) + span + i \in 1..(Len(bytes) - 1) /\ 1 + ((z - 1) + span + i) = z + span + i
    BY <1>1, <1>2, <1>3
  <2>2. QED  BY <1>3, <1>4, <2>1
<1>9. QED  BY <1>5, <1>6, <1>7, <1>8, Zenon DEF LaidOut, pending, span, rest

\* Erasing the packet in front.
LEMMA ErasesPacket ==
    ASSUME NEW bytes \in Bytes, NEW packets \in Seq(Packet), NEW done \in Nat,
           done < Len(packets), NEW start \in Bytes,
           LaidOut(bytes, 0, packets, done, start)
    PROVE  /\ LaidOut(SubSeq(bytes, PacketBytes + 1, Len(bytes)), 0, packets, done + 1, start)
           /\ PacketBytes <= Len(bytes)
           /\ \A i \in 1..PacketBytes : bytes[i] = packets[done + 1][i]
<1> DEFINE pending == Len(packets) - done
           span == (pending - 1) * PacketBytes
           rest == SubSeq(bytes, PacketBytes + 1, Len(bytes))
<1>1. /\ Len(bytes) \in Nat /\ Len(packets) \in Nat /\ Len(start) \in Nat
      /\ pending \in Nat /\ pending >= 1 /\ bytes \in Seq(Byte)
  BY LenProperties DEF Bytes
<1>2. span \in Nat /\ 0 + pending * PacketBytes = PacketBytes + span
  BY <1>1, PacketSize
<1> HIDE DEF span
<1>3. /\ PacketBytes + span + Len(start) <= Len(bytes)
      /\ Zero(bytes, PacketBytes + span + Len(start), Len(bytes))
      /\ \A k \in 1..pending : \A i \in 1..PacketBytes :
             bytes[0 + (k - 1) * PacketBytes + i] = packets[done + k][i]
      /\ \A i \in 1..Len(start) : bytes[PacketBytes + span + i] = start[i]
      /\ start # <<>> => PacketBytes + span + Len(start) = Len(bytes)
  BY <1>2, Zenon DEF LaidOut, pending
<1>4. /\ Len(rest) = Len(bytes) - PacketBytes
      /\ \A i \in 1..(Len(bytes) - PacketBytes) : rest[i] = bytes[PacketBytes + i]
  <2>1. PacketBytes \in 0..Len(bytes)
    BY <1>1, <1>2, <1>3, PacketSize
  <2>2. QED  BY <1>1, <2>1, Drop
<1>5. \A i \in 1..PacketBytes : bytes[i] = packets[done + 1][i]
  <2> SUFFICES ASSUME NEW i \in 1..PacketBytes PROVE bytes[i] = packets[done + 1][i]
    OBVIOUS
  <2>1. 1 \in 1..pending /\ 0 + (1 - 1) * PacketBytes + i = i
    BY <1>1, PacketSize
  <2>2. QED  BY <1>3, <2>1
<1> HIDE DEF pending, rest
<1>6. /\ 0 + span + Len(start) <= Len(rest)
      /\ start # <<>> => 0 + span + Len(start) = Len(rest)
      /\ PacketBytes <= Len(bytes)
  BY <1>1, <1>2, <1>3, <1>4, PacketSize
<1>7. Zero(rest, 0, 0) /\ Zero(rest, 0 + span + Len(start), Len(rest))
  <2>1. ASSUME NEW i \in (0 + span + Len(start) + 1)..Len(rest) PROVE rest[i] = 0
    <3>1. /\ i \in 1..(Len(bytes) - PacketBytes)
          /\ PacketBytes + i \in (PacketBytes + span + Len(start) + 1)..Len(bytes)
      BY <1>1, <1>2, <1>4, PacketSize
    <3>2. QED  BY <1>3, <1>4, <3>1 DEF Zero
  <2>2. QED  BY <2>1 DEF Zero
<1>8. ASSUME NEW k \in 1..(pending - 1), NEW i \in 1..PacketBytes
      PROVE  rest[0 + (k - 1) * PacketBytes + i] = packets[(done + 1) + k][i]
  <2> DEFINE at == (k - 1) * PacketBytes
  <2>1. at \in Nat /\ at + PacketBytes <= span /\ k * PacketBytes = PacketBytes + at
    <3>1. /\ at + PacketBytes = k * PacketBytes
          /\ ((pending - 1) - k) * PacketBytes + k * PacketBytes = span
      BY <1>1, PacketSize DEF span
    <3>2. ((pending - 1) - k) * PacketBytes \in Nat /\ at \in Nat
      BY <1>1, PacketSize
    <3>3. QED  BY <1>1, <1>2, <3>1, <3>2, PacketSize
  <2>2. bytes[PacketBytes + at + i] = packets[(done + 1) + k][i]
    <3>1. /\ k + 1 \in 1..pending /\ (k + 1) - 1 = k /\ done + (k + 1) = (done + 1) + k
      BY <1>1
    <3>2. bytes[0 + ((k + 1) - 1) * PacketBytes + i] = packets[done + (k + 1)][i]
      BY <1>3, <3>1, Zenon
    <3>3. 0 + k * PacketBytes + i = PacketBytes + at + i
      BY <2>1, PacketSize
    <3>4. QED  BY <3>1, <3>2, <3>3
  <2> HIDE DEF at
  <2>3. /\ 0 + at + i \in 1..(Len(bytes) - PacketBytes)
        /\ PacketBytes + (0 + at + i) = PacketBytes + at + i
    BY <1>1, <1>2, <1>3, <2>1, PacketSize
  <2>4. rest[0 + at + i] = bytes[PacketBytes + at + i]
    BY <1>4, <2>3
  <2>5. QED  BY <2>2, <2>4 DEF at
<1>9. ASSUME NEW i \in 1..Len(start)
      PROVE  rest[0 + span + i] = start[i]
  <2>1. /\ 0 + span + i \in 1..(Len(bytes) - PacketBytes)
        /\ PacketBytes + (0 + span + i) = PacketBytes + span + i
    BY <1>1, <1>2, <1>3, PacketSize
  <2>2. QED  BY <1>3, <1>4, <2>1
<1>10. Len(packets) - (done + 1) = pending - 1
  BY <1>1 DEF pending
<1>11. LaidOut(rest, 0, packets, done + 1, start)
  BY <1>6, <1>7, <1>8, <1>9, <1>10, Zenon DEF LaidOut, span
<1>12. QED  BY <1>5, <1>6, <1>11 DEF rest

\* Before a segment there is at most the start of a packet.
LEMMA BeforeSegment ==
    ASSUME NEW bytes \in Bytes, NEW z \in Nat, NEW packets \in Seq(Packet),
           NEW start \in Bytes, LaidOut(bytes, z, packets, Len(packets), start)
    PROVE  /\ \A i \in 1..z : bytes[i] = 0
           /\ \A i \in 1..Len(start) : bytes[z + i] = start[i]
<1>1. /\ Len(packets) \in Nat /\ Len(packets) - Len(packets) = 0
      /\ z + 0 = z /\ 0 * PacketBytes = 0
  BY LenProperties, PacketSize
<1>2. Zero(bytes, 0, z) /\ \A i \in 1..Len(start) : bytes[z + 0 * PacketBytes + i] = start[i]
  BY <1>1 DEF LaidOut
<1>3. QED  BY <1>1, <1>2 DEF Zero

\* Bytes queued behind the start of a packet go on with it.
LEMMA GoesOn ==
    ASSUME NEW bytes \in Bytes, NEW z \in Nat, NEW start \in Bytes,
           \A i \in 1..z : bytes[i] = 0,
           \A i \in 1..Len(start) : bytes[z + i] = start[i],
           z + Len(start) = Len(bytes),
           NEW new \in Bytes, NEW padding \in Bytes
    PROVE  /\ bytes \o (new \o padding) \in Bytes /\ start \o new \in Bytes
           /\ Len(bytes \o (new \o padding)) = z + Len(start \o new) + Len(padding)
           /\ \A i \in 1..z : (bytes \o (new \o padding))[i] = 0
           /\ \A i \in 1..Len(start \o new) :
                  (bytes \o (new \o padding))[z + i] = (start \o new)[i]
           /\ \A i \in 1..Len(padding) :
                  (bytes \o (new \o padding))[z + Len(start \o new) + i] = padding[i]
<1> DEFINE all == bytes \o (new \o padding)
           stream == start \o new
<1>1. Len(bytes) \in Nat /\ Len(start) \in Nat
  BY LenProperties DEF Bytes
<1>2. /\ \A i \in 1..z : bytes[i] = 0
      /\ \A i \in 1..Len(start) : bytes[z + i] = start[i]
  OBVIOUS
<1>3. /\ Len(new) \in Nat /\ Len(padding) \in Nat /\ new \o padding \in Seq(Byte)
      /\ Len(new \o padding) = Len(new) + Len(padding)
      /\ \A i \in 1..Len(new) : (new \o padding)[i] = new[i]
      /\ \A i \in 1..Len(padding) : (new \o padding)[Len(new) + i] = padding[i]
  BY Concat DEF Bytes
<1>4. /\ stream \in Seq(Byte) /\ Len(stream) = Len(start) + Len(new)
      /\ \A i \in 1..Len(start) : stream[i] = start[i]
      /\ \A i \in 1..Len(new) : stream[Len(start) + i] = new[i]
  BY Concat DEF Bytes
<1>5. /\ all \in Seq(Byte) /\ Len(all) = Len(bytes) + Len(new \o padding)
      /\ \A i \in 1..Len(bytes) : all[i] = bytes[i]
      /\ \A i \in 1..Len(new \o padding) : all[Len(bytes) + i] = (new \o padding)[i]
  BY <1>3, Concat DEF Bytes
<1> HIDE DEF all, stream
<1>6. /\ z \in Nat /\ Len(start) \in Nat /\ Len(new) \in Nat /\ Len(padding) \in Nat
      /\ Len(bytes) = z + Len(start) /\ Len(stream) = Len(start) + Len(new)
      /\ Len(new \o padding) = Len(new) + Len(padding)
      /\ Len(all) = z + Len(stream) + Len(padding)
  <2>1. /\ Len(new) \in Nat /\ Len(padding) \in Nat
        /\ Len(new \o padding) = Len(new) + Len(padding)
    BY <1>3
  <2>2. Len(stream) = Len(start) + Len(new)
    BY <1>4
  <2>3. Len(all) = Len(bytes) + Len(new \o padding)
    BY <1>5
  <2>4. Len(start) \in Nat
    BY <1>1
  <2>5. z \in Nat /\ Len(bytes) = z + Len(start)
    OBVIOUS
  <2>6. QED  BY ONLY <2>1, <2>2, <2>3, <2>4, <2>5
<1>7. ASSUME NEW i \in 1..z PROVE all[i] = 0
  <2>1. i \in 1..Len(bytes)
    BY <1>6
  <2>2. QED  BY <1>2, <1>5, <2>1
<1>8. ASSUME NEW i \in 1..Len(stream) PROVE all[z + i] = stream[i]
  <2>1. CASE i <= Len(start)
    <3>1. i \in 1..Len(start) /\ z + i \in 1..Len(bytes)
      BY <1>6, <2>1
    <3>2. QED  BY <1>2, <1>4, <1>5, <3>1
  <2>2. CASE ~(i <= Len(start))
    <3> DEFINE j == i - Len(start)
    <3>1. /\ j \in 1..Len(new) /\ j \in 1..Len(new \o padding)
          /\ z + i = Len(bytes) + j /\ i = Len(start) + j
      BY <1>6, <2>2
    <3> HIDE DEF j
    <3>2. QED  BY <1>3, <1>4, <1>5, <3>1
  <2>3. QED  BY <2>1, <2>2
<1>9. ASSUME NEW i \in 1..Len(padding) PROVE all[z + Len(stream) + i] = padding[i]
  <2>1. /\ Len(new) + i \in 1..Len(new \o padding)
        /\ z + Len(stream) + i = Len(bytes) + (Len(new) + i)
    BY <1>6
  <2>2. QED  BY <1>3, <1>5, <2>1
<1>10. QED  BY <1>4, <1>5, <1>6, <1>7, <1>8, <1>9 DEF Bytes, all, stream

\* A segment behind the start of a packet: its packets are laid out.
LEMMA QueuesSegment ==
    ASSUME NEW bytes \in Bytes, NEW z \in Nat, NEW packets \in Seq(Packet),
           NEW start \in Bytes,
           LaidOut(bytes, z, packets, Len(packets), start), z + Len(start) = Len(bytes),
           NEW new \in Bytes, NEW left \in Bytes, WholePackets((start \o new) \o left),
           NEW padding \in Bytes, \A i \in 1..Len(padding) : padding[i] = 0,
           padding # <<>> => Rest(start \o new) = <<>>
    PROVE  LaidOut(bytes \o (new \o padding), z, packets \o Pieces(start \o new),
                   Len(packets), Rest(start \o new))
<1> DEFINE all == bytes \o (new \o padding)
           stream == start \o new
           whole == Len(stream) \div PacketBytes
           span == whole * PacketBytes
           more == packets \o Pieces(stream)
<1>1. /\ all \in Seq(Byte) /\ stream \in Seq(Byte)
      /\ Len(all) = z + Len(stream) + Len(padding)
      /\ \A i \in 1..z : all[i] = 0
      /\ \A i \in 1..Len(stream) : all[z + i] = stream[i]
      /\ \A i \in 1..Len(padding) : all[z + Len(stream) + i] = 0
  <2>1. /\ all \in Bytes /\ stream \in Bytes
        /\ Len(all) = z + Len(stream) + Len(padding)
        /\ \A i \in 1..z : all[i] = 0
        /\ \A i \in 1..Len(stream) : all[z + i] = stream[i]
        /\ \A i \in 1..Len(padding) : all[z + Len(stream) + i] = padding[i]
    <3>1. /\ \A i \in 1..z : bytes[i] = 0
          /\ \A i \in 1..Len(start) : bytes[z + i] = start[i]
      BY BeforeSegment
    <3>2. bytes \in Bytes /\ z \in Nat /\ start \in Bytes /\ new \in Bytes /\ padding \in Bytes
      OBVIOUS
    <3>3. z + Len(start) = Len(bytes)
      OBVIOUS
    <3>4. bytes \o (new \o padding) \in Bytes
      BY <3>1, <3>2, <3>3, GoesOn
    <3>5. start \o new \in Bytes
      BY <3>1, <3>2, <3>3, GoesOn
    <3>6. Len(bytes \o (new \o padding)) = z + Len(start \o new) + Len(padding)
      BY <3>1, <3>2, <3>3, GoesOn
    <3>7. \A i \in 1..z : (bytes \o (new \o padding))[i] = 0
      BY <3>1, <3>2, <3>3, GoesOn
    <3>8. \A i \in 1..Len(start \o new) :
              (bytes \o (new \o padding))[z + i] = (start \o new)[i]
      BY <3>1, <3>2, <3>3, GoesOn
    <3>9. \A i \in 1..Len(padding) :
              (bytes \o (new \o padding))[z + Len(start \o new) + i] = padding[i]
      BY <3>1, <3>2, <3>3, GoesOn
    <3>10. QED  BY <3>4, <3>5, <3>6, <3>7, <3>8, <3>9
  <2>2. all \in Seq(Byte) /\ stream \in Seq(Byte)
    BY <2>1 DEF Bytes
  <2>3. \A i \in 1..Len(padding) : all[z + Len(stream) + i] = 0
    BY <2>1, Zenon
  <2>4. QED  BY <2>1, <2>2, <2>3
<1> HIDE DEF stream, all
<1>2. left \in Seq(Byte) /\ WholePackets(stream \o left)
  BY DEF Bytes, stream
<1>3. /\ whole \in Nat /\ span \in Nat
      /\ Pieces(stream) \in Seq(Packet) /\ Len(Pieces(stream)) = whole
      /\ \A k \in 1..whole : \A i \in 1..PacketBytes :
             Pieces(stream)[k][i] = stream[(k - 1) * PacketBytes + i]
      /\ Rest(stream) \in Seq(Byte) /\ Len(stream) = span + Len(Rest(stream))
      /\ \A i \in 1..Len(Rest(stream)) : Rest(stream)[i] = stream[span + i]
  BY <1>1, <1>2, PiecesOfStream
<1> HIDE DEF whole, span
<1>4. /\ Len(packets) \in Nat /\ Len(stream) \in Nat /\ Len(padding) \in Nat
      /\ Len(Rest(stream)) \in Nat
  BY <1>1, <1>3, LenProperties DEF Bytes
<1>5. /\ Len(more) = Len(packets) + whole /\ Len(more) - Len(packets) = whole
      /\ \A k \in 1..whole : more[Len(packets) + k] = Pieces(stream)[k]
  <2>1. /\ Len(more) = Len(packets) + whole
        /\ \A k \in 1..(Len(packets) + whole) :
               more[k] = IF k <= Len(packets) THEN packets[k]
                         ELSE Pieces(stream)[k - Len(packets)]
    <3>1. packets \in Seq(Packet) /\ Pieces(stream) \in Seq(Packet) /\ Len(Pieces(stream)) = whole
      BY <1>3
    <3>2. QED  BY <3>1, ConcatProperties
  <2>2. QED  BY <1>3, <1>4, <2>1
<1> HIDE DEF more
<1> DEFINE end == z + span + Len(Rest(stream))
<1>6. end = z + Len(stream) /\ end \in Nat
  BY <1>3, <1>4
<1> HIDE DEF end
<1>7. end <= Len(all) /\ (Rest(stream) # <<>> => end = Len(all))
  <2>1. end <= Len(all)
    BY <1>1, <1>4, <1>6
  <2>2. ASSUME Rest(stream) # <<>> PROVE end = Len(all)
    <3>1. padding = <<>>
      BY <2>2 DEF stream
    <3>2. Len(padding) = 0
      BY <3>1
    <3>3. QED  BY <1>1, <1>4, <1>6, <3>2
  <2>3. QED  BY <2>1, <2>2
<1>8. Zero(all, 0, z) /\ Zero(all, end, Len(all))
  <2>1. ASSUME NEW i \in (end + 1)..Len(all) PROVE all[i] = 0
    <3> DEFINE j == i - end
    <3>1. j \in 1..Len(padding) /\ i = z + Len(stream) + j
      <4>1. Len(all) = z + Len(stream) + Len(padding)
        BY <1>1
      <4>2. QED  BY <1>4, <1>6, <4>1
    <3> HIDE DEF j
    <3>2. QED  BY <1>1, <3>1
  <2>2. QED  BY <1>1, <2>1 DEF Zero
<1>9. ASSUME NEW k \in 1..whole, NEW i \in 1..PacketBytes
      PROVE  all[z + (k - 1) * PacketBytes + i] = more[Len(packets) + k][i]
  <2> DEFINE at == (k - 1) * PacketBytes
  <2>1. at \in Nat /\ at + PacketBytes <= span
    <3>1. whole \in Nat /\ span \in Nat
      BY <1>3
    <3>2. /\ at + PacketBytes = k * PacketBytes
          /\ (whole - k) * PacketBytes + k * PacketBytes = span
      BY <3>1, PacketSize DEF span
    <3>3. (whole - k) * PacketBytes \in Nat /\ at \in Nat
      BY <3>1, PacketSize
    <3>4. QED  BY <3>1, <3>2, <3>3, PacketSize
  <2>2. Pieces(stream)[k][i] = stream[at + i]
    BY <1>3
  <2> HIDE DEF at
  <2>3. at + i \in 1..Len(stream) /\ z + at + i = z + (at + i)
    BY <1>3, <1>4, <2>1, PacketSize
  <2>4. all[z + at + i] = stream[at + i]
    BY <1>1, <2>3
  <2>5. QED  BY <1>5, <2>2, <2>4 DEF at
<1>10. ASSUME NEW i \in 1..Len(Rest(stream))
       PROVE  all[z + span + i] = Rest(stream)[i]
  <2>1. span + i \in 1..Len(stream) /\ z + span + i = z + (span + i)
    BY <1>3, <1>4
  <2>2. QED  BY <1>1, <1>3, <2>1
<1>11. LaidOut(all, z, more, Len(packets), Rest(stream))
  BY <1>5, <1>7, <1>8, <1>9, <1>10, Zenon DEF LaidOut, span, end
<1>12. QED  BY <1>11 DEF all, more, stream

----------------------------------------------------------------------------
(* The layout is kept by every step.                                       *)

\* Layout, of explicit values: what it says of the next state.
LayoutOf(calm, busy, bytes, packets, found, parts) ==
    calm =>
        /\ Len(found) <= Len(packets)
        /\ \A k \in 1..Len(found) : found[k] = Decode(packets[k], found[k].at)
        /\ ~busy => Len(found) = Len(packets)
        /\ \E p \in Peers : \E z \in 0..Len(bytes) :
               /\ parts[Other(p)] = <<>>
               /\ LaidOut(bytes, z, packets, Len(found), parts[p])

LEMMA LayoutPrimed ==
    /\ Layout <=> LayoutOf(~disturbed, parsing, accumulator, crossed, decoded, partial)
    /\ Layout' <=> LayoutOf(~disturbed', parsing', accumulator', crossed', decoded', partial')
<1>1. Layout <=> LayoutOf(~disturbed, parsing, accumulator, crossed, decoded, partial)
  BY DEF Layout, Reported, LayoutOf
<1>2. (Layout <=> LayoutOf(~disturbed, parsing, accumulator, crossed, decoded, partial))'
  BY <1>1, PTL
<1>3. LayoutOf(~disturbed, parsing, accumulator, crossed, decoded, partial)'
          <=> LayoutOf(~disturbed', parsing', accumulator', crossed', decoded', partial')
  BY DEF LayoutOf
<1>4. QED  BY <1>1, <1>2, <1>3

\* The types the layout rests on.
LEMMA LayoutTypes ==
    ASSUME Base
    PROVE  /\ accumulator \in Bytes /\ Len(accumulator) \in Nat
           /\ crossed \in Seq(Packet) /\ Len(crossed) \in Nat
           /\ decoded \in Seq(Parser!Transaction) /\ Len(decoded) \in Nat
           /\ \A p \in Peers : partial[p] \in Bytes /\ Len(partial[p]) \in Nat
           /\ \A k \in 1..Len(crossed) : Accepted(crossed[k])
<1>1. accumulator \in Bytes /\ decoded \in Seq(Parser!Transaction)
  <2>1. Parser!TypeOK
    BY DEF Base, TypeOK
  <2>2. Parser!Byte = Byte
    BY DEF Parser!Byte, Byte, Parser!MaxByte, MaxByte
  <2>3. QED  BY <2>1, <2>2 DEF Parser!TypeOK, Bytes
<1>2. crossed \in Seq(Packet) /\ partial \in [Peers -> Bytes]
  BY DEF Base, TypeOK
<1>3. \A p \in Peers : partial[p] \in Bytes /\ Len(partial[p]) \in Nat
  BY <1>2, LenProperties DEF Bytes
<1>4. Len(accumulator) \in Nat /\ Len(decoded) \in Nat /\ Len(crossed) \in Nat
  BY <1>1, <1>2, LenProperties DEF Bytes
<1>5. QED  BY <1>1, <1>2, <1>3, <1>4 DEF Base, Streams

\* A packet that has started has the sync pattern at its start.
LEMMA StartedPacket ==
    ASSUME Base, NEW p \in Peers, Len(partial[p]) >= 6
    PROVE  Accepted(partial[p])
<1> DEFINE start == partial[p]
           all == partial[p] \o unsent[p]
<1>1. start \in Seq(Byte) /\ unsent[p] \in Seq(Byte) /\ WholePackets(all)
  BY DEF Base, TypeOK, Bytes, Streams, Outgoing
<1>2. /\ Len(start) \in Nat /\ Len(unsent[p]) \in Nat
      /\ Len(all) = Len(start) + Len(unsent[p])
      /\ \A i \in 1..Len(start) : all[i] = start[i]
  BY <1>1, Concat
<1>3. Len(start) >= 6
  OBVIOUS
<1> HIDE DEF start, all
<1>4. 0 \in 0..Len(all) /\ 0 < Len(all) /\ Boundary(0)
  BY <1>2, <1>3, Boundaries
<1>5. all[0 + 1] = Magic0 /\ all[0 + 2] = Magic1 /\ ValidMode(all[0 + 3])
  BY <1>1, <1>4 DEF WholePackets
<1>6. all[1] = start[1] /\ all[2] = start[2] /\ all[3] = start[3]
  BY <1>2, <1>3
<1>7. Accepted(start)
  BY <1>5, <1>6 DEF Accepted, HasMagic
<1>8. QED  BY <1>7 DEF start

\* At the head of the accumulator is a zero, a packet, or all there is of one.
LEMMA LayoutHead ==
    ASSUME Base, Layout, ~disturbed, Len(accumulator) >= 6
    PROVE  \/ /\ accumulator[1] = 0
              /\ \E p \in Peers : \E z \in 1..Len(accumulator) :
                     /\ partial[Other(p)] = <<>>
                     /\ LaidOut(accumulator, z, crossed, Len(decoded), partial[p])
           \/ /\ HasMagic(accumulator)
              /\ \/ ValidMode(accumulator[3]) /\ Len(decoded) < Len(crossed)
                 \/ Len(accumulator) < PacketBytes
              /\ \E p \in Peers :
                     /\ partial[Other(p)] = <<>>
                     /\ LaidOut(accumulator, 0, crossed, Len(decoded), partial[p])
<1>1. /\ accumulator \in Bytes /\ Len(accumulator) \in Nat
      /\ crossed \in Seq(Packet) /\ Len(crossed) \in Nat /\ Len(decoded) \in Nat
      /\ \A p \in Peers : partial[p] \in Bytes /\ Len(partial[p]) \in Nat
      /\ \A k \in 1..Len(crossed) : Accepted(crossed[k])
  BY LayoutTypes
<1>2. Len(decoded) <= Len(crossed)
  BY DEF Layout, Reported
<1>3. PICK p \in Peers :
          \E z \in 0..Len(accumulator) :
              /\ partial[Other(p)] = <<>>
              /\ LaidOut(accumulator, z, crossed, Len(decoded), partial[p])
  BY DEF Layout
<1>4. PICK z \in 0..Len(accumulator) :
          /\ partial[Other(p)] = <<>>
          /\ LaidOut(accumulator, z, crossed, Len(decoded), partial[p])
  BY <1>3
<1>5. CASE z > 0
  <2>1. accumulator[1] = 0
    <3>1. Zero(accumulator, 0, z) /\ 1 \in (0 + 1)..z
      BY <1>1, <1>4, <1>5 DEF LaidOut
    <3>2. QED  BY <3>1 DEF Zero
  <2>2. z \in 1..Len(accumulator)
    BY <1>1, <1>5
  <2>3. QED  BY <1>4, <2>1, <2>2
<1>6. CASE z = 0 /\ Len(decoded) < Len(crossed)
  <2>1. LaidOut(accumulator, 0, crossed, Len(decoded), partial[p])
    BY <1>4, <1>6
  <2>2. \A i \in 1..PacketBytes : accumulator[i] = crossed[Len(decoded) + 1][i]
    BY <1>1, <1>6, <2>1, ErasesPacket
  <2>3. Accepted(crossed[Len(decoded) + 1])
    BY <1>1, <1>6
  <2>4. HasMagic(accumulator) /\ ValidMode(accumulator[3])
    <3>1. 1 \in 1..PacketBytes /\ 2 \in 1..PacketBytes /\ 3 \in 1..PacketBytes
      BY PacketSize
    <3>2. QED  BY <2>2, <2>3, <3>1 DEF Accepted, HasMagic
  <2>5. QED  BY <1>4, <1>6, <2>1, <2>4
<1>7. CASE z = 0 /\ Len(decoded) = Len(crossed) /\ partial[p] = <<>>
  <2>1. LaidOut(accumulator, z, crossed, Len(crossed), <<>>) /\ z \in Nat
    BY <1>4, <1>7
  <2>2. /\ \A i \in 1..Len(accumulator) : accumulator[i] = 0
        /\ LaidOut(accumulator, Len(accumulator), crossed, Len(crossed), <<>>)
    BY <1>1, <2>1, OnlyZeros
  <2>3. 1 \in 1..Len(accumulator) /\ Len(accumulator) \in 1..Len(accumulator)
    BY <1>1
  <2>4. QED  BY <1>4, <1>7, <2>2, <2>3
<1>8. CASE z = 0 /\ Len(decoded) = Len(crossed) /\ partial[p] # <<>>
  <2>1. /\ Len(crossed) - Len(decoded) = 0 /\ 0 * PacketBytes = 0 /\ 0 + 0 = 0
        /\ 0 + Len(partial[p]) = Len(partial[p])
    BY <1>1, <1>8, PacketSize
  <2>2. LaidOut(accumulator, 0, crossed, Len(decoded), partial[p])
    BY <1>4, <1>8
  <2>3. /\ Len(partial[p]) = Len(accumulator)
        /\ \A i \in 1..Len(partial[p]) : accumulator[0 + i] = partial[p][i]
    BY <1>8, <2>1, <2>2 DEF LaidOut
  <2>4. Accepted(partial[p])
    BY <2>3, StartedPacket
  <2>5. /\ accumulator[1] = partial[p][1] /\ accumulator[2] = partial[p][2]
    <3>1. 1 \in 1..Len(partial[p]) /\ 2 \in 1..Len(partial[p]) /\ 0 + 1 = 1 /\ 0 + 2 = 2
      BY <1>1, <2>3
    <3>2. QED  BY <2>3, <3>1
  <2>6. HasMagic(accumulator)
    BY <2>4, <2>5 DEF Accepted, HasMagic
  <2>7. Len(accumulator) < PacketBytes
    BY <2>3 DEF Base, Streams
  <2>8. QED  BY <1>4, <2>2, <2>6, <2>7
<1>9. QED  BY <1>1, <1>2, <1>4, <1>5, <1>6, <1>7, <1>8

\* Decoding reads no byte behind the packet.
LEMMA DecodesPacket ==
    ASSUME NEW bytes \in Bytes, PacketBytes <= Len(bytes), NEW p, NEW at,
           \A i \in 1..PacketBytes : bytes[i] = p[i]
    PROVE  Decode(bytes, at) = Decode(p, at)
<1>1. bytes \in Seq(Byte) /\ Len(bytes) \in Nat
  BY LenProperties DEF Bytes
<1>2. /\ bytes[3] = p[3] /\ bytes[4] = p[4] /\ bytes[5] = p[5] /\ bytes[6] = p[6]
      /\ bytes[6] \in Byte
  <2>1. {3, 4, 5, 6} \subseteq 1..PacketBytes /\ 6 \in 1..Len(bytes)
    BY <1>1, PacketSize
  <2>2. QED  BY <1>1, <2>1, ElementOfSeq
<1> DEFINE n == WordCount(bytes[6], MaxWords)
<1>3. n \in 1..MaxWords
  <2>1. bytes[6] \in Nat
    BY <1>2, ByteBounds
  <2>2. QED  BY <2>1, MaxWordsAssumption DEF WordCount
<1>4. n = WordCount(p[6], MaxWords)
  BY <1>2
<1> HIDE DEF n
<1>5. ASSUME NEW i \in 1..n PROVE PayloadWord(bytes, i) = PayloadWord(p, i)
  <2>1. {HeaderBytes + 2 * i - 1, HeaderBytes + 2 * i} \subseteq 1..PacketBytes
    BY <1>3, MaxWordsAssumption DEF PacketBytes, PayloadBytes, HeaderBytes
  <2>2. QED  BY <2>1 DEF PayloadWord
<1>6. [i \in 1..n |-> PayloadWord(bytes, i)] = [i \in 1..n |-> PayloadWord(p, i)]
  BY <1>5
<1>7. QED  BY <1>2, <1>4, <1>6 DEF Decode, n

\* Every turn of the loop keeps the layout.
LEMMA LoopLayout ==
    ASSUME Base, Layout, Parser!LoopTurn, UNCHANGED wireVars
    PROVE  Layout'
<1>1. UNCHANGED <<partial, crossed, disturbed>>
  BY DEF wireVars
<1>2. CASE disturbed
  BY <1>1, <1>2, LayoutPrimed DEF LayoutOf
<1>3. ASSUME ~disturbed PROVE Layout'
  <2>1. /\ accumulator \in Bytes /\ Len(accumulator) \in Nat
        /\ crossed \in Seq(Packet) /\ Len(crossed) \in Nat /\ Len(decoded) \in Nat
        /\ \A p \in Peers : partial[p] \in Bytes /\ Len(partial[p]) \in Nat
    BY LayoutTypes
  <2>2. /\ Len(decoded) <= Len(crossed)
        /\ \A k \in 1..Len(decoded) : decoded[k] = Decode(crossed[k], decoded[k].at)
    BY <1>3 DEF Layout, Reported
  <2>3. ASSUME Parser!SkipByte PROVE Layout'
    <3>1. /\ parsing /\ Len(accumulator) >= 6 /\ ~HasMagic(accumulator)
          /\ accumulator' = SubSeq(accumulator, 2, Len(accumulator))
          /\ UNCHANGED <<parsing, decoded>>
      BY <2>3, SamePacket DEF Parser!SkipByte, Parser!Erase
    <3>2. PICK p \in Peers : \E z \in 1..Len(accumulator) :
              /\ partial[Other(p)] = <<>>
              /\ LaidOut(accumulator, z, crossed, Len(decoded), partial[p])
      BY <1>3, <3>1, LayoutHead
    <3>3. PICK z \in 1..Len(accumulator) :
              /\ partial[Other(p)] = <<>>
              /\ LaidOut(accumulator, z, crossed, Len(decoded), partial[p])
      BY <3>2
    <3>4. LaidOut(accumulator', z - 1, crossed, Len(decoded), partial[p])
      <4>1. z \in Nat /\ z > 0 /\ Len(decoded) \in 0..Len(crossed)
        BY <2>1, <2>2
      <4>2. QED  BY <2>1, <3>1, <3>3, <4>1, ErasesZero
    <3>5. z - 1 \in 0..Len(accumulator')
      <4>1. accumulator \in Seq(Byte) /\ 1 \in 0..Len(accumulator) /\ 1 + 1 = 2
        BY <2>1, <3>1 DEF Bytes
      <4>2. Len(accumulator') = Len(accumulator) - 1
        BY <3>1, <4>1, Drop
      <4>3. QED  BY <2>1, <4>2
    <3>6. LayoutOf(~disturbed', parsing', accumulator', crossed', decoded', partial')
      BY <1>1, <2>2, <3>1, <3>3, <3>4, <3>5 DEF LayoutOf
    <3>7. QED  BY <3>6, LayoutPrimed
  <2>4. ASSUME Parser!RejectMode PROVE FALSE
    <3>1. /\ Len(accumulator) >= PacketBytes /\ HasMagic(accumulator)
          /\ ~ValidMode(accumulator[3])
      BY <2>4, SamePacket DEF Parser!RejectMode
    <3>2. Len(accumulator) >= 6 /\ ~(Len(accumulator) < PacketBytes)
      BY <2>1, <3>1, PacketSize
    <3>3. accumulator[1] # 0
      BY <3>1 DEF HasMagic, Magic0
    <3>4. QED  BY <1>3, <3>1, <3>2, <3>3, LayoutHead
  <2>5. ASSUME Parser!DecodePacket PROVE Layout'
    <3>1. /\ parsing /\ Len(accumulator) >= PacketBytes /\ HasMagic(accumulator)
          /\ accumulator' = SubSeq(accumulator, PacketBytes + 1, Len(accumulator))
          /\ decoded' = Append(decoded, Decode(accumulator, consumed))
          /\ UNCHANGED parsing
      BY <2>5, SamePacket DEF Parser!DecodePacket, Parser!Erase
    <3>2. Len(accumulator) >= 6 /\ ~(Len(accumulator) < PacketBytes)
      BY <2>1, <3>1, PacketSize
    <3>3. accumulator[1] # 0
      BY <3>1 DEF HasMagic, Magic0
    <3>4. Len(decoded) < Len(crossed)
      BY <1>3, <3>2, <3>3, LayoutHead
    <3>5. PICK p \in Peers :
              /\ partial[Other(p)] = <<>>
              /\ LaidOut(accumulator, 0, crossed, Len(decoded), partial[p])
      BY <1>3, <3>2, <3>3, LayoutHead
    <3>6. /\ LaidOut(accumulator', 0, crossed, Len(decoded) + 1, partial[p])
          /\ \A i \in 1..PacketBytes : accumulator[i] = crossed[Len(decoded) + 1][i]
      BY <2>1, <3>1, <3>4, <3>5, ErasesPacket
    <3>7. Decode(accumulator, consumed) = Decode(crossed[Len(decoded) + 1], consumed)
      BY <2>1, <3>1, <3>6, DecodesPacket
    <3>8. /\ Len(decoded') = Len(decoded) + 1
          /\ \A k \in 1..Len(decoded) : decoded'[k] = decoded[k]
          /\ decoded'[Len(decoded) + 1] = Decode(accumulator, consumed)
      <4> DEFINE S == Parser!Transaction \cup {Decode(accumulator, consumed)}
      <4>1. decoded \in Seq(S)
        BY LayoutTypes, SeqMonotonic
      <4>2. QED  BY <3>1, <4>1, AppendProperties
    <3>9. ASSUME NEW k \in 1..Len(decoded')
          PROVE  decoded'[k] = Decode(crossed[k], decoded'[k].at)
      <4>1. CASE k \in 1..Len(decoded)
        BY <2>2, <3>8, <4>1
      <4>2. CASE k = Len(decoded) + 1
        <5>1. decoded'[k].at = consumed
          BY <3>8, <4>2 DEF Decode
        <5>2. QED  BY <3>7, <3>8, <4>2, <5>1
      <4>3. QED  BY <2>1, <3>8, <4>1, <4>2
    <3>10. 0 \in 0..Len(accumulator')
      <4>1. accumulator \in Seq(Byte) /\ PacketBytes \in 0..Len(accumulator)
        BY <2>1, <3>1, PacketSize DEF Bytes
      <4>2. Len(accumulator') = Len(accumulator) - PacketBytes
        BY <3>1, <4>1, Drop
      <4>3. QED  BY <2>1, <4>1, <4>2
    <3>11. Len(decoded') <= Len(crossed)
      BY <2>1, <3>4, <3>8
    <3>12. LaidOut(accumulator', 0, crossed, Len(decoded'), partial[p])
      BY <3>6, <3>8
    <3>13. LayoutOf(~disturbed', parsing', accumulator', crossed', decoded', partial')
      BY <1>1, <3>1, <3>5, <3>9, <3>10, <3>11, <3>12 DEF LayoutOf
    <3>14. QED  BY <3>13, LayoutPrimed
  <2>6. ASSUME Parser!AwaitBytes PROVE Layout'
    <3>1. /\ Len(accumulator) < 6 \/ Len(accumulator) \in 6..(PacketBytes - 1)
          /\ UNCHANGED <<accumulator, decoded>>
      BY <2>6, SamePacket DEF Parser!AwaitBytes
    <3>2. Len(accumulator) < PacketBytes
      BY <2>1, <3>1, PacketSize
    <3>3. PICK p \in Peers :
              \E z \in 0..Len(accumulator) :
                  /\ partial[Other(p)] = <<>>
                  /\ LaidOut(accumulator, z, crossed, Len(decoded), partial[p])
      BY <1>3 DEF Layout
    <3>4. PICK z \in 0..Len(accumulator) :
              /\ partial[Other(p)] = <<>>
              /\ LaidOut(accumulator, z, crossed, Len(decoded), partial[p])
      BY <3>3
    <3>5. Len(decoded) = Len(crossed)
      <4> DEFINE pending == Len(crossed) - Len(decoded)
      <4>1. z + pending * PacketBytes + Len(partial[p]) <= Len(accumulator)
        BY <3>4 DEF LaidOut
      <4>2. pending \in Nat
        BY <2>1, <2>2
      <4> HIDE DEF pending
      <4>3. pending >= 1 => pending * PacketBytes >= PacketBytes
        BY <4>2, PacketSize
      <4>4. pending * PacketBytes \in Nat
        BY <4>2, PacketSize
      <4>5. pending = 0
        <5> DEFINE span == pending * PacketBytes
                   started == Len(partial[p])
        <5>1. started \in Nat /\ z \in Nat
          BY <2>1
        <5>2. z + span + started <= Len(accumulator) /\ span \in Nat
          BY <4>1, <4>4
        <5>3. pending >= 1 => span >= PacketBytes
          BY <4>3
        <5> HIDE DEF span, started
        <5>4. QED  BY <2>1, <3>2, <4>2, <5>1, <5>2, <5>3, PacketSize
      <4>6. QED  BY <2>1, <4>5 DEF pending
    <3>6. LayoutOf(~disturbed', parsing', accumulator', crossed', decoded', partial')
      BY <1>1, <2>2, <3>1, <3>4, <3>5 DEF LayoutOf
    <3>7. QED  BY <3>6, LayoutPrimed
  <2>7. QED  BY <2>3, <2>4, <2>5, <2>6 DEF Parser!LoopTurn
<1>4. QED  BY <1>2, <1>3

\* Between two calls of parseStream there is at most the start of p's packet,
\* if the other peer has started none.
LEMMA LayoutBetween ==
    ASSUME Base, Layout, ~disturbed, ~parsing,
           NEW p \in Peers, partial[Other(p)] = <<>>
    PROVE  /\ Len(decoded) = Len(crossed)
           /\ \E z \in Nat : /\ LaidOut(accumulator, z, crossed, Len(crossed), partial[p])
                            /\ z + Len(partial[p]) = Len(accumulator)
           /\ partial[p] = <<>> => \A i \in 1..Len(accumulator) : accumulator[i] = 0
<1>1. /\ accumulator \in Bytes /\ Len(accumulator) \in Nat
      /\ crossed \in Seq(Packet) /\ Len(crossed) \in Nat
      /\ \A q \in Peers : partial[q] \in Bytes /\ Len(partial[q]) \in Nat
  BY LayoutTypes
<1>2. Len(decoded) = Len(crossed)
  BY DEF Layout, Reported
<1>3. PICK q \in Peers :
          \E z \in 0..Len(accumulator) :
              /\ partial[Other(q)] = <<>>
              /\ LaidOut(accumulator, z, crossed, Len(crossed), partial[q])
  BY <1>2 DEF Layout
<1>4. PICK z \in 0..Len(accumulator) :
          /\ partial[Other(q)] = <<>>
          /\ LaidOut(accumulator, z, crossed, Len(crossed), partial[q])
  BY <1>3
<1>5. CASE partial[p] = <<>>
  <2>1. partial[q] = <<>>
    BY <1>5, TwoPeers
  <2>2. /\ \A i \in 1..Len(accumulator) : accumulator[i] = 0
        /\ LaidOut(accumulator, Len(accumulator), crossed, Len(crossed), <<>>)
    <3>1. LaidOut(accumulator, z, crossed, Len(crossed), <<>>) /\ z \in Nat
      BY <1>4, <2>1
    <3>2. QED  BY <1>1, <3>1, OnlyZeros
  <2>3. Len(accumulator) + Len(partial[p]) = Len(accumulator)
    BY <1>1, <1>5
  <2>4. QED  BY <1>1, <1>2, <1>5, <2>2, <2>3
<1>6. CASE partial[p] # <<>>
  <2>1. q = p
    BY <1>4, <1>6, TwoPeers
  <2>2. LaidOut(accumulator, z, crossed, Len(crossed), partial[p]) /\ z \in Nat
    BY <1>4, <2>1
  <2>3. z + (Len(crossed) - Len(crossed)) * PacketBytes + Len(partial[p]) = Len(accumulator)
    BY <1>6, <2>2 DEF LaidOut
  <2>4. (Len(crossed) - Len(crossed)) * PacketBytes = 0
    BY <1>1, PacketSize
  <2>5. z + Len(partial[p]) = Len(accumulator)
    BY <1>1, <2>2, <2>3, <2>4
  <2>6. QED  BY <1>2, <1>6, <2>2, <2>5
<1>7. QED  BY <1>5, <1>6

LEMMA SegmentLayout ==
    ASSUME Base, Layout, ~disturbed, NEW p \in Peers, NEW n \in 1..Len(unsent[p]),
           NEW h \in Headers, Segment(p, n, h), ~disturbed'
    PROVE  Layout'
<1> DEFINE bytes == SubSeq(unsent[p], 1, n)
           stream == partial[p] \o bytes
           padding == PaddingOf(p, h, n)
<1>1. /\ bytes \in Bytes /\ Len(bytes) = n /\ stream \in Bytes
      /\ unsent'[p] \in Bytes /\ WholePackets(stream \o unsent'[p])
      /\ crossed' = crossed \o Pieces(stream)
      /\ partial' = [partial EXCEPT ![p] = Rest(stream)]
  BY SegmentMoves DEF Base
<1>2. /\ ~parsing /\ parsing' = TRUE /\ decoded' = decoded
      /\ accumulator' = accumulator \o PayloadOf(h.link, Frame(h, bytes, padding))
  BY DEF Segment, Parser!ParseStream
<1>3. partial[Other(p)] = <<>> /\ (partial'[p] = <<>> \/ padding = <<>>)
  BY DEF Segment
<1>4. n \in Nat /\ Other(p) \in Peers /\ Other(p) # p
  BY <1>1, TwoPeers, LenProperties DEF Bytes
<1> HIDE DEF bytes
<1>5. PayloadOf(h.link, Frame(h, bytes, padding)) = bytes \o padding
  <2>1. bytes \in Bytes /\ n \in Nat
    BY <1>1, <1>4
  <2>2. QED  BY <2>1, Queued, Zenon
<1>6. padding \in Bytes /\ \A i \in 1..Len(padding) : padding[i] = 0
  BY <1>4, HeadersAssumption, PaddingIsZeros DEF Bytes
<1> HIDE DEF padding
<1>7. /\ accumulator \in Bytes /\ crossed \in Seq(Packet) /\ Len(crossed) \in Nat
      /\ partial[p] \in Bytes
  BY LayoutTypes
<1>8. Len(decoded) = Len(crossed)
  BY <1>2, <1>3, LayoutBetween
<1>9. PICK z \in Nat : /\ LaidOut(accumulator, z, crossed, Len(crossed), partial[p])
                      /\ z + Len(partial[p]) = Len(accumulator)
  BY <1>2, <1>3, LayoutBetween
<1>10. partial'[p] = Rest(stream) /\ partial'[Other(p)] = <<>>
  BY <1>1, <1>3, <1>4 DEF Base, TypeOK
<1>11. LaidOut(accumulator', z, crossed', Len(crossed), partial'[p])
  <2>1. padding # <<>> => Rest(stream) = <<>>
    BY <1>3, <1>10
  <2>2. LaidOut(accumulator \o (bytes \o padding), z, crossed \o Pieces(stream),
                Len(crossed), Rest(stream))
    BY <1>1, <1>6, <1>7, <1>9, <2>1, QueuesSegment
  <2>3. QED  BY <1>1, <1>2, <1>5, <1>10, <2>2
<1>12. z \in 0..Len(accumulator')
  <2>1. /\ Len(accumulator') = Len(accumulator) + Len(bytes \o padding)
        /\ Len(accumulator) \in Nat /\ Len(bytes \o padding) \in Nat
    <3>1. accumulator \in Seq(Byte) /\ bytes \o padding \in Seq(Byte)
      BY <1>1, <1>6, <1>7, ConcatProperties DEF Bytes
    <3>2. accumulator' = accumulator \o (bytes \o padding)
      BY <1>2, <1>5
    <3>3. QED  BY <3>1, <3>2, Concat
  <2>2. Len(partial[p]) \in Nat
    BY LayoutTypes
  <2>3. QED  BY <1>9, <2>1, <2>2
<1>13. Len(crossed) <= Len(crossed') /\ \A k \in 1..Len(crossed) : crossed'[k] = crossed[k]
  <2>1. Pieces(stream) \in Seq(Packet)
    BY <1>1, PiecesOfStream DEF Bytes
  <2>2. Len(Pieces(stream)) \in Nat
    BY <2>1, LenProperties
  <2>3. /\ Len(crossed') = Len(crossed) + Len(Pieces(stream))
        /\ \A k \in 1..(Len(crossed) + Len(Pieces(stream))) :
               crossed'[k] = IF k <= Len(crossed) THEN crossed[k]
                             ELSE Pieces(stream)[k - Len(crossed)]
    BY <1>1, <1>7, <2>1, ConcatProperties
  <2>4. QED  BY <1>7, <2>2, <2>3
<1>14. \A k \in 1..Len(decoded') : decoded'[k] = Decode(crossed'[k], decoded'[k].at)
  <2>1. \A k \in 1..Len(decoded) : decoded[k] = Decode(crossed[k], decoded[k].at)
    BY DEF Layout, Reported
  <2>2. QED  BY <1>2, <1>8, <1>13, <2>1
<1>15. LayoutOf(~disturbed', parsing', accumulator', crossed', decoded', partial')
  BY <1>2, <1>8, <1>10, <1>11, <1>12, <1>13, <1>14 DEF LayoutOf
<1>16. QED  BY <1>15, LayoutPrimed

LEMMA AcknowledgeLayout ==
    ASSUME Base, Layout, ~disturbed, NEW p \in Peers, NEW h \in Headers,
           Acknowledge(p, h), ~disturbed'
    PROVE  Layout'
<1> DEFINE padding == PaddingOf(p, h, 0)
<1>1. /\ ~parsing /\ parsing' = TRUE /\ decoded' = decoded
      /\ accumulator' = accumulator \o PayloadOf(h.link, Frame(h, <<>>, padding))
      /\ UNCHANGED <<partial, crossed>>
  BY DEF Acknowledge, Parser!ParseStream
<1>2. \A q \in Peers : partial[q] = <<>>
  BY DEF Acknowledge
<1>3. PayloadOf(h.link, Frame(h, <<>>, padding)) = padding
  <2>1. <<>> \in Bytes /\ 0 \in Nat
    BY EmptySeq DEF Bytes
  <2>2. \A b \in Bytes : PayloadOf(h.link, Frame(h, b, padding)) = b \o padding
    BY <2>1, Queued, Zenon
  <2>3. PayloadOf(h.link, Frame(h, <<>>, padding)) = <<>> \o padding
    BY <2>1, <2>2, Zenon
  <2>4. h \in Header
    BY HeadersAssumption
  <2>5. padding \in Seq(Byte)
    BY <2>1, <2>4, PaddingIsZeros, Zenon
  <2>6. <<>> \o padding = padding
    BY <2>5, ConcatEmptySeq
  <2>7. QED  BY <2>3, <2>6
<1>4. padding \in Bytes /\ \A i \in 1..Len(padding) : padding[i] = 0
  <2>1. h \in Header /\ 0 \in Nat
    BY HeadersAssumption
  <2>2. padding \in Seq(Byte) /\ \A i \in 1..Len(padding) : padding[i] = 0
    BY <2>1, PaddingIsZeros, Zenon
  <2>3. QED  BY <2>2 DEF Bytes
<1> HIDE DEF padding
<1>5. accumulator \in Bytes /\ crossed \in Seq(Packet) /\ Len(crossed) \in Nat
  BY LayoutTypes
<1>6. /\ Len(decoded) = Len(crossed)
      /\ \A i \in 1..Len(accumulator) : accumulator[i] = 0
  BY <1>1, <1>2, TwoPeers, LayoutBetween
<1>7. /\ accumulator' = accumulator \o padding /\ accumulator' \in Bytes
      /\ Len(accumulator') \in Nat
      /\ \A i \in 1..Len(accumulator') : accumulator'[i] = 0
  <2>1. accumulator' = accumulator \o padding
    BY <1>1, <1>3
  <2>2. /\ Len(accumulator) \in Nat /\ Len(padding) \in Nat /\ accumulator' \in Seq(Byte)
        /\ Len(accumulator') = Len(accumulator) + Len(padding)
        /\ \A i \in 1..Len(accumulator) : accumulator'[i] = accumulator[i]
        /\ \A i \in 1..Len(padding) : accumulator'[Len(accumulator) + i] = padding[i]
    BY <1>4, <1>5, <2>1, Concat DEF Bytes
  <2>3. ASSUME NEW i \in 1..Len(accumulator') PROVE accumulator'[i] = 0
    <3>1. CASE i <= Len(accumulator)
      BY <1>6, <2>2, <3>1
    <3>2. CASE ~(i <= Len(accumulator))
      <4> DEFINE j == i - Len(accumulator)
      <4>1. j \in 1..Len(padding) /\ i = Len(accumulator) + j
        BY <2>2, <3>2
      <4> HIDE DEF j
      <4>2. QED  BY <1>4, <2>2, <4>1
    <3>3. QED  BY <3>1, <3>2
  <2>4. QED  BY <2>1, <2>2, <2>3 DEF Bytes
<1>8. LaidOut(accumulator', Len(accumulator'), crossed, Len(crossed), <<>>)
  BY <1>5, <1>7, ZerosAreLaidOut
<1>9. \A k \in 1..Len(decoded') : decoded'[k] = Decode(crossed'[k], decoded'[k].at)
  <2>1. \A k \in 1..Len(decoded) : decoded[k] = Decode(crossed[k], decoded[k].at)
    BY DEF Layout, Reported
  <2>2. QED  BY <1>1, <2>1
<1>10. LayoutOf(~disturbed', parsing', accumulator', crossed', decoded', partial')
  <2>1. Len(accumulator') \in 0..Len(accumulator')
    BY <1>7
  <2>2. partial'[p] = <<>> /\ partial'[Other(p)] = <<>>
    BY <1>1, <1>2, TwoPeers
  <2>3. LaidOut(accumulator', Len(accumulator'), crossed', Len(decoded'), partial'[p])
    BY <1>1, <1>6, <1>8, <2>2
  <2>4. Len(decoded') <= Len(crossed')
    BY <1>1, <1>5, <1>6
  <2>5. QED  BY <1>1, <1>9, <2>1, <2>2, <2>3, <2>4 DEF LayoutOf
<1>11. QED  BY <1>10, LayoutPrimed

LEMMA LayoutInit == Init => Layout
<1> SUFFICES ASSUME Init PROVE Layout
  OBVIOUS
<1>1. /\ accumulator = <<>> /\ decoded = <<>> /\ crossed = <<>>
      /\ partial = [p \in Peers |-> <<>>]
  BY DEF Init, Parser!Init
<1>2. Len(<<>>) = 0 /\ <<>> \in Bytes /\ <<>> \in Seq(Packet)
  BY EmptySeq DEF Bytes
<1>3. LaidOut(<<>>, 0, <<>>, 0, <<>>)
  <2>1. Zero(<<>>, 0, 0)
    BY DEF Zero
  <2>2. /\ 0 - 0 = 0 /\ 0 * PacketBytes = 0 /\ 0 + 0 = 0 /\ 0 <= 0 /\ 1..0 = {}
    BY PacketSize
  <2>3. QED  BY <1>2, <2>1, <2>2 DEF LaidOut
<1>4. Reported
  BY <1>1, <1>2 DEF Reported
<1>5. "controller" \in Peers /\ partial[Other("controller")] = <<>> /\ partial["controller"] = <<>>
  BY <1>1, TwoPeers
<1>6. QED  BY <1>1, <1>2, <1>3, <1>4, <1>5 DEF Layout

LEMMA LayoutStep == Base /\ Layout /\ [Next]_vars => Layout'
<1> SUFFICES ASSUME Base, Layout, [Next]_vars PROVE Layout'
  OBVIOUS
<1>1. ASSUME UNCHANGED <<disturbed, partial, crossed>>, UNCHANGED parserVars PROVE Layout'
  BY <1>1, LayoutPrimed DEF parserVars
<1>2. ASSUME disturbed' PROVE Layout'
  BY <1>2, LayoutPrimed DEF LayoutOf
<1>3. ASSUME NEW r, Request(r) PROVE Layout'
  BY <1>1, <1>3 DEF Request
<1>4. ASSUME NEW a, SimulatorReads(a) PROVE Layout'
  BY <1>1, <1>4 DEF SimulatorReads
<1>5. ASSUME Read PROVE Layout'
  BY <1>1, <1>5 DEF Read, ReadUpTo
<1>6. ASSUME Wire PROVE Layout'
  <2>1. ~disturbed
    BY <1>6 DEF Wire
  <2>2. ASSUME NEW h, Retransmit(h) PROVE Layout'
    BY <1>2, <2>2 DEF Retransmit
  <2>3. QED  BY <1>2, <1>6, <2>1, <2>2, SegmentLayout, AcknowledgeLayout DEF Wire
<1>7. ASSUME ParserTurn PROVE Layout'
  BY <1>7, LoopLayout DEF ParserTurn
<1>8. ASSUME UNCHANGED vars PROVE Layout'
  BY <1>1, <1>8 DEF vars, wireVars
<1>9. QED  BY <1>3, <1>4, <1>5, <1>6, <1>7, <1>8 DEF Next

----------------------------------------------------------------------------
(* The exchange.                                                           *)

LEMMA ExchangePrimed ==
    Exchange' <=> ExchangeOf(unread'["simulator"] \o unsent'["controller"],
                             unread'["controller"] \o unsent'["simulator"],
                             unread'["controller"], partial'["simulator"],
                             "simulator" \notin cut', waiting', answer', obtained')
<1>1. Exchange <=> ExchangeOf(unread["simulator"] \o unsent["controller"],
                              unread["controller"] \o unsent["simulator"],
                              unread["controller"], partial["simulator"],
                              "simulator" \notin cut, waiting, answer, obtained)
  BY TwoPeers DEF Exchange, Underway
<1>2. (Exchange <=> ExchangeOf(unread["simulator"] \o unsent["controller"],
                               unread["controller"] \o unsent["simulator"],
                               unread["controller"], partial["simulator"],
                               "simulator" \notin cut, waiting, answer, obtained))'
  BY <1>1, PTL
<1>3. ExchangeOf(unread["simulator"] \o unsent["controller"],
                 unread["controller"] \o unsent["simulator"],
                 unread["controller"], partial["simulator"],
                 "simulator" \notin cut, waiting, answer, obtained)'
      <=> ExchangeOf(unread'["simulator"] \o unsent'["controller"],
                     unread'["controller"] \o unsent'["simulator"],
                     unread'["controller"], partial'["simulator"],
                     "simulator" \notin cut', waiting', answer', obtained')
  BY DEF ExchangeOf, WholePackets, Boundary, ValidMode
<1>4. QED  BY <1>2, <1>3

\* The streams are sequences of bytes.
LEMMA ExchangeTypes ==
    ASSUME Base
    PROVE  /\ unread \in [Peers -> Bytes] /\ unsent \in [Peers -> Bytes]
           /\ \A p \in Peers : unread[p] \in Seq(Byte) /\ unsent[p] \in Seq(Byte)
           /\ \A p \in Peers : Len(unread[p]) \in Nat /\ Len(unsent[p]) \in Nat
           /\ \A p, q \in Peers : unread[p] \o unsent[q] \in Seq(Byte)
<1>1. unread \in [Peers -> Bytes] /\ unsent \in [Peers -> Bytes]
  BY DEF Base, TypeOK
<1>2. \A p \in Peers : unread[p] \in Seq(Byte) /\ unsent[p] \in Seq(Byte)
  BY <1>1 DEF Bytes
<1>3. QED  BY <1>1, <1>2, ConcatProperties, LenProperties

\* Dropping from the front of a stream drops from what follows it too.
LEMMA DropConcat ==
    ASSUME NEW s \in Seq(Byte), NEW t \in Seq(Byte), NEW n \in 0..Len(s)
    PROVE  SubSeq(s, n + 1, Len(s)) \o t = SubSeq(s \o t, n + 1, Len(s \o t))
<1> DEFINE rest == SubSeq(s, n + 1, Len(s))
           all == SubSeq(s \o t, n + 1, Len(s \o t))
<1>1. /\ Len(s) \in Nat /\ Len(t) \in Nat /\ n \in Nat /\ n <= Len(s)
      /\ s \o t \in Seq(Byte) /\ Len(s \o t) = Len(s) + Len(t)
      /\ \A i \in 1..(Len(s) + Len(t)) :
             (s \o t)[i] = IF i <= Len(s) THEN s[i] ELSE t[i - Len(s)]
  BY LenProperties, ConcatProperties
<1>2. /\ rest \in Seq(Byte) /\ Len(rest) = Len(s) - n
      /\ \A i \in 1..(Len(s) - n) : rest[i] = s[n + i]
  BY Drop
<1>3. /\ all \in Seq(Byte) /\ Len(all) = Len(s) + Len(t) - n
      /\ \A i \in 1..(Len(s) + Len(t) - n) : all[i] = (s \o t)[n + i]
  <2>1. n \in 0..Len(s \o t)
    BY <1>1
  <2>2. QED  BY <1>1, <2>1, Drop
<1> HIDE DEF rest, all
<1>4. /\ rest \o t \in Seq(Byte) /\ Len(rest \o t) = Len(s) - n + Len(t)
      /\ \A i \in 1..(Len(s) - n + Len(t)) :
             (rest \o t)[i] = IF i <= Len(s) - n THEN rest[i] ELSE t[i - (Len(s) - n)]
  <2>1. /\ rest \o t \in Seq(Byte) /\ Len(rest \o t) = Len(rest) + Len(t)
        /\ \A i \in 1..(Len(rest) + Len(t)) :
               (rest \o t)[i] = IF i <= Len(rest) THEN rest[i] ELSE t[i - Len(rest)]
    BY <1>2, ConcatProperties
  <2>2. QED  BY <1>2, <2>1
<1>5. ASSUME NEW i \in 1..Len(all) PROVE (rest \o t)[i] = all[i]
  <2>1. /\ i \in Nat /\ i >= 1 /\ n + i \in 1..(Len(s) + Len(t))
        /\ i \in 1..(Len(s) - n + Len(t)) /\ i \in 1..(Len(s) + Len(t) - n)
    BY <1>1, <1>3
  <2>2. all[i] = (s \o t)[n + i]
    BY <1>3, <2>1
  <2>3. CASE i <= Len(s) - n
    <3>1. (rest \o t)[i] = rest[i] /\ rest[i] = s[n + i]
      BY <1>1, <1>2, <1>4, <2>1, <2>3
    <3>2. (s \o t)[n + i] = s[n + i]
      BY <1>1, <2>1, <2>3
    <3>3. QED  BY <2>2, <3>1, <3>2
  <2>4. CASE ~(i <= Len(s) - n)
    <3>1. (rest \o t)[i] = t[i - (Len(s) - n)]
      BY <1>4, <2>1, <2>4
    <3>2. (s \o t)[n + i] = t[(n + i) - Len(s)]
      BY <1>1, <2>1, <2>4
    <3>3. i - (Len(s) - n) = (n + i) - Len(s)
      BY <1>1, <2>1
    <3>4. QED  BY <2>2, <3>1, <3>2, <3>3
  <2>5. QED  BY <2>3, <2>4
<1>6. rest \o t = all
  <2>1. Len(rest \o t) = Len(all)
    BY <1>1, <1>3, <1>4
  <2>2. QED  BY <1>3, <1>4, <1>5, <2>1, SeqEqual
<1>7. QED  BY <1>6 DEF rest, all

\* A packet asks for an answer only if nothing else is under way.
LEMMA RequestExchange ==
    ASSUME Base, Exchange, NEW r \in Requests, Request(r)
    PROVE  Exchange'
<1> DEFINE asks == unread["simulator"] \o unsent["controller"]
           tells == unread["controller"] \o unsent["simulator"]
<1>1. "controller" \in Peers /\ "simulator" \in Peers /\ "controller" # "simulator"
  BY TwoPeers
<1>2. r \in Seq(Byte) /\ Len(r) = PacketBytes /\ WholePackets(r)
  BY PacketsSent DEF Bytes
<1>3. /\ asks \in Seq(Byte) /\ unsent["controller"] \in Seq(Byte)
      /\ unread["simulator"] \in Seq(Byte) /\ unsent \in [Peers -> Bytes]
  BY <1>1, ExchangeTypes
<1>4. /\ unread' = unread /\ unsent'["controller"] = unsent["controller"] \o r
      /\ unsent'["simulator"] = unsent["simulator"] /\ partial' = partial
      /\ cut' = cut /\ answer' = answer /\ obtained' = obtained
      /\ ~waiting /\ waiting' = (r[3] = ModeTx)
  BY <1>1, <1>3 DEF Request
<1>5. unread'["simulator"] \o unsent'["controller"] = asks \o r
  <2>1. unread["simulator"] \o (unsent["controller"] \o r) = asks \o r
    BY <1>2, <1>3, BytesAssociative
  <2>2. QED  BY <1>4, <2>1
<1>6. ExchangeOf(asks, tells, unread["controller"], partial["simulator"],
                 "simulator" \notin cut, waiting, answer, obtained)
  BY TwoPeers DEF Exchange, Underway
<1> HIDE DEF asks, tells
<1>7. WholePackets(asks) /\ Boundary(Len(asks)) /\ Len(asks) \in Nat
  BY <1>3, <1>6, LenProperties DEF ExchangeOf, WholePackets
<1>8. WholePackets(asks \o r)
  BY <1>2, <1>3, <1>7, PacketsConcat
<1>9. /\ Len(asks \o r) = Len(asks) + PacketBytes
      /\ \A i \in 1..Len(asks) : (asks \o r)[i] = asks[i]
      /\ \A i \in 1..PacketBytes : (asks \o r)[Len(asks) + i] = r[i]
  BY <1>2, <1>3, Concat
<1>10. ASSUME "simulator" \notin cut, NEW at \in 0..Len(asks \o r), Boundary(at),
              at < Len(asks \o r), (asks \o r)[at + 3] = ModeTx
       PROVE  waiting' /\ tells = <<>> /\ at + PacketBytes = Len(asks \o r)
  <2>1. CASE at < Len(asks)
    <3>1. at \in Nat /\ at + PacketBytes <= Len(asks)
      BY <1>7, <1>10, <2>1, Boundaries
    <3>2. (asks \o r)[at + 3] = asks[at + 3]
      BY <1>7, <1>9, <3>1, PacketSize
    <3>3. at \in 0..Len(asks)
      BY <1>7, <1>10, <2>1
    <3>4. waiting
      BY <1>6, <1>10, <2>1, <3>2, <3>3 DEF ExchangeOf
    <3>5. QED  BY <1>4, <3>4
  <2>2. CASE ~(at < Len(asks))
    <3>1. at \in Nat /\ (Len(asks) < at => Len(asks) + PacketBytes <= at)
      BY <1>7, <1>10, <2>2, Boundaries
    <3>2. at = Len(asks)
      BY <1>7, <1>9, <1>10, <2>2, <3>1, PacketSize
    <3>3. (asks \o r)[at + 3] = r[3]
      BY <1>9, <3>2, PacketSize
    <3>4. waiting'
      BY <1>4, <1>10, <3>3
    <3>5. tells = <<>>
      BY <1>4, <1>6, <1>10 DEF ExchangeOf
    <3>6. QED  BY <1>9, <3>2, <3>4, <3>5
  <2>3. QED  BY <2>1, <2>2
<1>11. ExchangeOf(asks \o r, tells, unread["controller"], partial["simulator"],
                  "simulator" \notin cut, waiting', answer, obtained)
  BY <1>4, <1>6, <1>8, <1>10 DEF ExchangeOf
<1>12. unread'["controller"] \o unsent'["simulator"] = tells
  BY <1>4 DEF tells
<1>13. QED  BY <1>4, <1>5, <1>11, <1>12, ExchangePrimed

\* The simulator answers the last packet, and only if it asks for an answer.
LEMMA SimulatorExchange ==
    ASSUME Base, Exchange, NEW a \in Answers, SimulatorReads(a)
    PROVE  Exchange'
<1> DEFINE in == unread["simulator"]
           asks == in \o unsent["controller"]
           left == SubSeq(asks, PacketBytes + 1, Len(asks))
           tells == unread["controller"] \o unsent["simulator"]
<1>1. "controller" \in Peers /\ "simulator" \in Peers /\ "controller" # "simulator"
  BY TwoPeers
<1>2. /\ asks \in Seq(Byte) /\ unsent["controller"] \in Seq(Byte) /\ in \in Seq(Byte)
      /\ unread["controller"] \in Seq(Byte) /\ unsent["simulator"] \in Seq(Byte)
      /\ tells \in Seq(Byte) /\ Len(in) \in Nat
      /\ unsent \in [Peers -> Bytes] /\ unread \in [Peers -> Bytes]
  BY <1>1, ExchangeTypes
<1>3. /\ Len(in) >= PacketBytes /\ partial' = partial /\ cut' = cut
      /\ waiting' = waiting /\ obtained' = obtained
      /\ unread' = [unread EXCEPT !["simulator"] = SubSeq(in, PacketBytes + 1, Len(in))]
      /\ in[3] = ModeTx => /\ unsent' = [unsent EXCEPT !["simulator"] = @ \o a]
                           /\ answer' = a
      /\ in[3] # ModeTx => unsent' = unsent /\ answer' = answer
  BY DEF SimulatorReads
<1> HIDE DEF in, tells
<1>4. /\ Len(asks) = Len(in) + Len(unsent["controller"]) /\ Len(asks) \in Nat
      /\ Len(asks) >= PacketBytes /\ PacketBytes \in Nat
      /\ \A i \in 1..Len(in) : asks[i] = in[i]
  <2>1. Len(unsent["controller"]) \in Nat
    BY <1>2, LenProperties
  <2>2. /\ Len(asks) = Len(in) + Len(unsent["controller"])
        /\ \A i \in 1..Len(in) : asks[i] = in[i]
    BY <1>2, Concat
  <2>3. QED  BY <1>2, <1>3, <2>1, <2>2, PacketSize
<1>5. unread'["simulator"] \o unsent'["controller"] = left
  <2>1. PacketBytes \in 0..Len(in)
    BY <1>2, <1>3, PacketSize
  <2>2. SubSeq(in, PacketBytes + 1, Len(in)) \o unsent["controller"] = left
    BY <1>2, <2>1, DropConcat
  <2>3. /\ unread'["simulator"] = SubSeq(in, PacketBytes + 1, Len(in))
        /\ unsent'["controller"] = unsent["controller"]
    BY <1>1, <1>2, <1>3
  <2>4. QED  BY <2>2, <2>3
<1>6. unread'["controller"] = unread["controller"]
  BY <1>1, <1>2, <1>3
<1>7. ExchangeOf(asks, tells, unread["controller"], partial["simulator"],
                 "simulator" \notin cut, waiting, answer, obtained)
  BY TwoPeers DEF Exchange, Underway, in, tells
<1>8. in[3] = asks[3]
  BY <1>2, <1>3, <1>4, PacketSize
<1> HIDE DEF asks
<1>9. /\ left \in Seq(Byte) /\ Len(left) = Len(asks) - PacketBytes
      /\ \A i \in 1..(Len(asks) - PacketBytes) : left[i] = asks[PacketBytes + i]
  <2>1. PacketBytes \in 0..Len(asks)
    BY <1>4
  <2>2. QED  BY <1>2, <2>1, Drop
<1>10. WholePackets(asks) /\ Boundary(Len(asks))
  BY <1>7 DEF ExchangeOf, WholePackets
<1>11. WholePackets(left)
  <2>1. PacketBytes \in 0..Len(asks)
    BY <1>4
  <2>2. QED  BY <1>2, <1>10, <2>1, Boundaries, PacketsDrop
<1> HIDE DEF left
<1>12. CASE asks[3] = ModeTx
  <2>1. ASSUME "simulator" \notin cut
        PROVE  waiting /\ tells = <<>> /\ Len(left) = 0
    <3>1. 0 \in 0..Len(asks) /\ 0 < Len(asks) /\ 0 + 3 = 3
      BY <1>4, PacketSize
    <3>2. waiting /\ tells = <<>> /\ 0 + PacketBytes = Len(asks)
      BY <1>7, <1>12, <2>1, <3>1, Boundaries DEF ExchangeOf
    <3>3. QED  BY <1>4, <1>9, <3>2
  <2>2. unread'["controller"] \o unsent'["simulator"] = tells \o a
    <3>1. unsent'["simulator"] = unsent["simulator"] \o a
      BY <1>1, <1>2, <1>3, <1>8, <1>12
    <3>2. a \in Seq(Byte)
      BY PacketsSent DEF Bytes
    <3>3. unread["controller"] \o (unsent["simulator"] \o a) = tells \o a
      <4>1. (unread["controller"] \o unsent["simulator"]) \o a
                = unread["controller"] \o (unsent["simulator"] \o a)
        <5>1. unread["controller"] \in Seq(Byte) /\ unsent["simulator"] \in Seq(Byte)
          BY <1>2
        <5>2. QED  BY <3>2, <5>1, BytesAssociative, Zenon
      <4>2. QED  BY <4>1 DEF tells
    <3>4. QED  BY <1>6, <3>1, <3>3
  <2>3. tells = <<>> => tells \o a = a
    BY PacketsSent, ConcatEmptySeq DEF Bytes
  <2>4. ASSUME "simulator" \notin cut
        PROVE  /\ partial["simulator"] = <<>> /\ Boundary(Len(unread["controller"]))
               /\ waiting /\ tells \o a = a /\ Len(left) = 0
    BY <1>7, <2>1, <2>3, <2>4 DEF ExchangeOf
  <2>5. ExchangeOf(left, tells \o a, unread["controller"], partial["simulator"],
                   "simulator" \notin cut, waiting, a, obtained)
    <3>1. a \in Answers \cup {<<>>}
      OBVIOUS
    <3>2. ASSUME Len(left) = 0, NEW at \in 0..Len(left), at < Len(left) PROVE FALSE
      BY <3>2
    <3>3. QED  BY <1>11, <2>4, <3>1, <3>2 DEF ExchangeOf
  <2>6. answer' = a
    BY <1>3, <1>8, <1>12
  <2>7. QED  BY <1>3, <1>5, <1>6, <2>2, <2>5, <2>6, ExchangePrimed
<1>13. CASE asks[3] # ModeTx
  <2>1. ASSUME "simulator" \notin cut, NEW at \in 0..Len(left), Boundary(at),
               at < Len(left), left[at + 3] = ModeTx
        PROVE  waiting /\ tells = <<>> /\ at + PacketBytes = Len(left)
    <3>1. at \in Nat /\ PacketBytes + at \in 0..Len(asks) /\ PacketBytes + at < Len(asks)
      BY <1>4, <1>9, <2>1
    <3>2. Boundary(PacketBytes + at)
      BY <1>4, <2>1, <3>1, Boundaries
    <3>3. (PacketBytes + at) + PacketBytes <= Len(asks)
      <4>1. PacketBytes + at \in Nat
        BY <3>1
      <4>2. QED  BY <1>4, <1>10, <3>1, <3>2, <4>1, Boundaries
    <3>4. at + 3 \in 1..(Len(asks) - PacketBytes) /\ PacketBytes + (at + 3) = (PacketBytes + at) + 3
      BY <1>4, <3>1, <3>3, PacketSize
    <3>5. asks[(PacketBytes + at) + 3] = ModeTx
      BY <1>9, <2>1, <3>4
    <3>6. waiting /\ tells = <<>> /\ (PacketBytes + at) + PacketBytes = Len(asks)
      BY <1>7, <2>1, <3>1, <3>2, <3>5 DEF ExchangeOf
    <3>7. QED  BY <1>4, <1>9, <3>1, <3>6
  <2>2. ExchangeOf(left, tells, unread["controller"], partial["simulator"],
                   "simulator" \notin cut, waiting, answer, obtained)
    BY <1>7, <1>11, <2>1 DEF ExchangeOf
  <2>3. unread'["controller"] \o unsent'["simulator"] = tells /\ answer' = answer
    BY <1>3, <1>6, <1>8, <1>13 DEF tells
  <2>4. QED  BY <1>3, <1>5, <1>6, <2>2, <2>3, ExchangePrimed
<1>14. QED  BY <1>12, <1>13

\* What read() returns is all that is under way: the answer.
LEMMA ReadExchange ==
    ASSUME Base, Exchange, Read
    PROVE  Exchange'
<1> DEFINE in == unread["controller"]
           asks == unread["simulator"] \o unsent["controller"]
           tells == in \o unsent["simulator"]
<1>1. "controller" \in Peers /\ "simulator" \in Peers /\ "controller" # "simulator"
  BY TwoPeers
<1>2. /\ in \in Seq(Byte) /\ unsent["simulator"] \in Seq(Byte) /\ Len(in) \in Nat
      /\ unread \in [Peers -> Bytes]
  BY <1>1, ExchangeTypes
<1>3. /\ waiting /\ in # <<>> /\ partial' = partial /\ cut' = cut /\ answer' = answer
      /\ obtained' = SubSeq(in, 1, IF Len(in) < PacketBytes THEN Len(in) ELSE PacketBytes)
      /\ unread' = [unread EXCEPT !["controller"] = SubSeq(in, PacketBytes + 1, Len(in))]
      /\ unsent' = unsent
  BY DEF Read, ReadUpTo
<1>4. /\ unread'["simulator"] = unread["simulator"]
      /\ unread'["controller"] = SubSeq(in, PacketBytes + 1, Len(in))
  BY <1>1, <1>2, <1>3
<1>5. ExchangeOf(asks, tells, in, partial["simulator"],
                 "simulator" \notin cut, waiting, answer, obtained)
  BY TwoPeers DEF Exchange, Underway
<1> HIDE DEF in
<1>6. CASE "simulator" \in cut
  <2>1. WholePackets(asks) /\ answer \in Answers \cup {<<>>}
    BY <1>5 DEF ExchangeOf
  <2>2. unread'["simulator"] \o unsent'["controller"] = asks
    BY <1>3, <1>4
  <2>3. QED  BY <1>3, <1>6, <2>1, <2>2, ExchangePrimed DEF ExchangeOf
<1>7. CASE "simulator" \notin cut
  <2>1. /\ Len(tells) = Len(in) + Len(unsent["simulator"])
        /\ Len(unsent["simulator"]) \in Nat
        /\ \A i \in 1..Len(in) : tells[i] = in[i]
    BY <1>2, Concat
  <2> HIDE DEF tells
  <2>2. Len(in) > 0
    <3>1. Len(in) = 0 => in = <<>>
      BY <1>2, EmptySeq
    <3>2. QED  BY <1>2, <1>3, <3>1
  <2>3. tells = answer /\ tells # <<>>
    <3>1. tells # <<>>
      <4>1. Len(<<>>) = 0
        BY EmptySeq
      <4>2. Len(tells) > 0
        BY <1>2, <2>1, <2>2
      <4>3. QED  BY <4>1, <4>2
    <3>2. QED  BY <1>5, <1>7, <3>1 DEF ExchangeOf
  <2>4. Len(tells) = PacketBytes
    <3>1. answer \in Answers
      BY <1>5, <2>3 DEF ExchangeOf
    <3>2. QED  BY <2>3, <3>1, PacketsSent
  <2>5. Len(in) = PacketBytes /\ Len(unsent["simulator"]) = 0
    <3>1. Boundary(Len(in))
      BY <1>5, <1>7 DEF ExchangeOf
    <3>2. 0 + PacketBytes <= Len(in)
      BY <1>2, <2>2, <3>1, Boundaries
    <3>3. QED  BY <1>2, <2>1, <2>4, <3>2, PacketSize
  <2>6. unsent["simulator"] = <<>>
    BY <1>2, <2>5, EmptySeq
  <2>7. in = tells
    BY <1>2, <2>6, ConcatEmptySeq DEF tells
  <2>8. obtained' = answer
    <3>1. obtained' = SubSeq(in, 1, Len(in))
      BY <1>3, <2>5, PacketSize
    <3>2. SubSeq(in, 1, Len(in)) = in
      BY <1>2, SubSeqFull
    <3>3. QED  BY <2>3, <2>7, <3>1, <3>2
  <2>9. unread'["controller"] = <<>>
    <3>1. Len(in) \in 0..Len(in)
      BY <1>2
    <3>2. /\ SubSeq(in, Len(in) + 1, Len(in)) \in Seq(Byte)
          /\ Len(SubSeq(in, Len(in) + 1, Len(in))) = Len(in) - Len(in)
      BY <1>2, <3>1, Drop
    <3>3. Len(SubSeq(in, Len(in) + 1, Len(in))) = 0
      BY <1>2, <3>2
    <3>4. SubSeq(in, Len(in) + 1, Len(in)) = <<>>
      BY <3>2, <3>3, EmptySeq
    <3>5. QED  BY <1>4, <2>5, <3>4
  <2>10. unread'["controller"] \o unsent'["simulator"] = <<>>
    <3>1. <<>> \o <<>> = <<>>
      BY <1>2, <2>6, ConcatEmptySeq
    <3>2. QED  BY <1>3, <2>6, <2>9, <3>1
  <2>11. unread'["simulator"] \o unsent'["controller"] = asks
    BY <1>3, <1>4
  <2>12. ASSUME NEW at \in 0..Len(asks), Boundary(at), at < Len(asks), asks[at + 3] = ModeTx
         PROVE  FALSE
    BY <1>5, <1>7, <2>3, <2>12 DEF ExchangeOf
  <2>13. ExchangeOf(asks, <<>>, <<>>, partial["simulator"],
                    "simulator" \notin cut, waiting', answer, answer)
    <3>1. Len(<<>>) = 0 /\ Boundary(0)
      BY EmptySeq, Boundaries
    <3>2. QED  BY <1>5, <2>12, <3>1 DEF ExchangeOf
  <2>14. QED  BY <1>3, <2>8, <2>9, <2>10, <2>11, <2>13, ExchangePrimed
<1>8. QED  BY <1>6, <1>7

\* A segment moves bytes on within a stream.
LEMMA SegmentExchange ==
    ASSUME Base, Exchange, NEW p \in Peers, NEW n \in 1..Len(unsent[p]),
           NEW h \in Headers, Segment(p, n, h)
    PROVE  Exchange'
<1> DEFINE bytes == SubSeq(unsent[p], 1, n)
           stream == partial[p] \o bytes
           in == unread["controller"]
           asks == unread["simulator"] \o unsent["controller"]
           tells == in \o unsent["simulator"]
<1>1. "controller" \in Peers /\ "simulator" \in Peers /\ "controller" # "simulator"
  BY TwoPeers
<1>2. /\ in \in Seq(Byte) /\ Len(in) \in Nat
      /\ unread[Other(p)] \in Seq(Byte) /\ partial \in [Peers -> Bytes]
  BY <1>1, TwoPeers, ExchangeTypes DEF Base, TypeOK
<1>3. /\ bytes \in Seq(Byte) /\ Len(bytes) = n /\ stream \in Seq(Byte)
      /\ unsent'[p] \in Seq(Byte) /\ bytes \o unsent'[p] = unsent[p]
      /\ unsent'[Other(p)] = unsent[Other(p)]
      /\ unread'[Other(p)] = unread[Other(p)] \o bytes /\ unread'[p] = unread[p]
      /\ partial' = [partial EXCEPT ![p] = Rest(stream)]
  BY SegmentMoves DEF Base, Bytes
<1>4. /\ cut' = IF partial'[p] = <<>> THEN cut ELSE cut \cup {p}
      /\ waiting' = waiting /\ answer' = answer /\ obtained' = obtained
  BY DEF Segment, peerVars
<1>5. ExchangeOf(asks, tells, in, partial["simulator"],
                 "simulator" \notin cut, waiting, answer, obtained)
  BY TwoPeers DEF Exchange, Underway
<1> HIDE DEF bytes
<1>6. unread'[Other(p)] \o unsent'[p] = unread[Other(p)] \o unsent[p]
  <2>1. (unread[Other(p)] \o bytes) \o unsent'[p] = unread[Other(p)] \o (bytes \o unsent'[p])
    BY <1>2, <1>3, BytesAssociative
  <2>2. QED  BY <1>3, <2>1
<1>7. /\ unread'["simulator"] \o unsent'["controller"] = asks
      /\ unread'["controller"] \o unsent'["simulator"] = tells
  BY <1>3, <1>6, TwoPeers
<1> HIDE DEF asks, tells
<1>8. CASE p = "controller"
  <2>1. partial'["simulator"] = partial["simulator"] /\ unread'["controller"] = in
    BY <1>1, <1>2, <1>3, <1>8
  <2>2. "simulator" \notin cut' <=> "simulator" \notin cut
    BY <1>1, <1>4, <1>8
  <2>3. ExchangeOf(asks, tells, in, partial["simulator"],
                   "simulator" \notin cut', waiting, answer, obtained)
    BY <1>5, <2>2 DEF ExchangeOf
  <2>4. QED  BY <1>4, <1>7, <2>1, <2>3, ExchangePrimed
<1>9. CASE p = "simulator"
  <2>1. unread'["controller"] = in \o bytes /\ partial'["simulator"] = Rest(stream)
    BY <1>1, <1>2, <1>3, <1>9, TwoPeers
  <2>2. ASSUME "simulator" \notin cut'
        PROVE  /\ "simulator" \notin cut /\ Rest(stream) = <<>>
               /\ Boundary(Len(in \o bytes))
    <3>1. "simulator" \notin cut /\ Rest(stream) = <<>>
      BY <1>4, <1>9, <2>1, <2>2
    <3>2. stream = bytes
      <4>1. partial["simulator"] = <<>>
        BY <1>5, <3>1 DEF ExchangeOf
      <4>2. QED  BY <1>3, <1>9, <4>1, ConcatEmptySeq
    <3>3. Boundary(n)
      <4> DEFINE whole == (n \div PacketBytes) * PacketBytes
      <4>1. n \in Nat
        BY <1>3, LenProperties
      <4>2. whole \in Nat /\ whole <= n /\ Boundary(whole)
        BY <4>1, LastBoundary, PacketSize
      <4> HIDE DEF whole
      <4>3. Len(SubSeq(bytes, whole + 1, n)) = n - whole
        BY <1>3, <4>1, <4>2, Drop
      <4>4. SubSeq(bytes, whole + 1, n) = <<>>
        BY <1>3, <3>1, <3>2 DEF Rest, whole
      <4>5. n - whole = 0
        BY <4>3, <4>4, EmptySeq
      <4>6. n = whole
        BY <4>1, <4>2, <4>5
      <4>7. QED  BY <4>2, <4>6
    <3>4. Len(in \o bytes) = Len(in) + n /\ n \in Nat
      BY <1>2, <1>3, Concat
    <3>5. Boundary(Len(in))
      BY <1>5, <3>1 DEF ExchangeOf
    <3>6. QED  BY <1>2, <3>1, <3>3, <3>4, <3>5, Boundaries
  <2>3. ExchangeOf(asks, tells, in \o bytes, Rest(stream),
                   "simulator" \notin cut', waiting, answer, obtained)
    BY <1>5, <2>2 DEF ExchangeOf
  <2>4. QED  BY <1>4, <1>7, <2>1, <2>3, ExchangePrimed
<1>10. QED  BY <1>8, <1>9 DEF Peers

LEMMA ExchangeInit == Init => Exchange
<1> SUFFICES ASSUME Init PROVE Exchange
  OBVIOUS
<1>1. /\ \A p \in Peers : unread[p] = <<>> /\ unsent[p] = <<>> /\ partial[p] = <<>>
      /\ answer = <<>> /\ obtained = <<>>
  BY DEF Init
<1>2. /\ <<>> \in Seq(Byte) /\ Len(<<>>) = 0
      /\ Boundary(0) /\ WholePackets(<<>>)
  BY EmptySeq, EmptyIsWhole, Boundaries
<1>3. <<>> \o <<>> = <<>>
  BY <1>2, ConcatEmptySeq
<1>4. /\ Underway("simulator") = <<>> /\ Underway("controller") = <<>>
      /\ unread["controller"] = <<>> /\ partial["simulator"] = <<>>
  BY <1>1, <1>3, TwoPeers DEF Underway
<1>5. \A inPackets, inRead : ExchangeOf(<<>>, <<>>, <<>>, <<>>, inPackets, inRead, <<>>, <<>>)
  BY <1>2 DEF ExchangeOf
<1>6. QED  BY <1>1, <1>4, <1>5 DEF Exchange

LEMMA ExchangeStep == Base /\ Exchange /\ [Next]_vars => Exchange'
<1> SUFFICES ASSUME Base, Exchange, [Next]_vars PROVE Exchange'
  OBVIOUS
<1>1. ASSUME UNCHANGED <<unsent, unread, partial, cut, peerVars>> PROVE Exchange'
  <2>1. Exchange <=> ExchangeOf(unread["simulator"] \o unsent["controller"],
                                unread["controller"] \o unsent["simulator"],
                                unread["controller"], partial["simulator"],
                                "simulator" \notin cut, waiting, answer, obtained)
    BY TwoPeers DEF Exchange, Underway
  <2>2. QED  BY <1>1, <2>1, ExchangePrimed DEF peerVars
<1>2. ASSUME Wire PROVE Exchange'
  <2>1. ASSUME NEW p, NEW h, Acknowledge(p, h) PROVE Exchange'
    BY <1>1, <2>1 DEF Acknowledge
  <2>2. ASSUME NEW h, Retransmit(h) PROVE Exchange'
    BY <1>1, <2>2 DEF Retransmit
  <2>3. QED  BY <1>2, <2>1, <2>2, SegmentExchange DEF Wire
<1>3. ASSUME ParserTurn PROVE Exchange'
  BY <1>1, <1>3 DEF ParserTurn, wireVars
<1>4. ASSUME UNCHANGED vars PROVE Exchange'
  BY <1>1, <1>4 DEF vars, wireVars
<1>5. QED
  BY <1>2, <1>3, <1>4, RequestExchange, SimulatorExchange, ReadExchange DEF Next

----------------------------------------------------------------------------
(* The theorems.                                                           *)

(***************************************************************************)
(* The streams of both peers, the packets that have crossed and the state  *)
(* of parseStream keep their types; with them, both streams stay made of   *)
(* whole packets, and less than a packet of each has crossed unfinished.   *)
(***************************************************************************)
THEOREM StreamsTyped == Spec => [](TypeOK /\ Streams)
<1>1. Base => TypeOK /\ Streams
  BY DEF Base
<1>2. QED  BY <1>1, BaseInit, BaseStep, PTL DEF Spec

(***************************************************************************)
(* Given the payloads of such a connection, the parser still implements    *)
(* its specification, so that its theorems hold of the captured stream.    *)
(***************************************************************************)
THEOREM ConversationParses == Spec => Proved!Spec
<1>1. Init => Proved!Init
  BY SameSteps DEF Init
<1>2. TypeOK /\ [Next]_vars => [Proved!Next]_(Proved!vars)
  <2> SUFFICES ASSUME TypeOK, [Next]_vars PROVE [Proved!Next]_(Proved!vars)
    OBVIOUS
  <2>1. CASE \E b \in Bytes : Parser!ParseStream(b)
    BY <2>1, SameSteps DEF Proved!Next
  <2>2. CASE Parser!LoopTurn
    BY <2>2, SameSteps DEF Proved!Next
  <2>3. CASE UNCHANGED parserVars
    BY <2>3 DEF parserVars, Proved!vars
  <2>4. QED  BY <2>1, <2>2, <2>3, ParserMoves
<1>3. Spec => []TypeOK
  BY StreamsTyped, PTL
<1>4. QED  BY <1>1, <1>2, <1>3, PTL DEF Spec, Proved!Spec

(***************************************************************************)
(* The monitor reports the packets of both peers, each once and in the     *)
(* order they crossed, with the fields they carry: whatever the size of a  *)
(* packet, the frame headers, the way the streams are cut into segments    *)
(* and the zeros of padding between packets, up to the first byte that is  *)
(* captured inside a packet it does not belong to, or twice.               *)
(***************************************************************************)
THEOREM ConversationReported == Spec => []ReportsConversation
<1>1. Base /\ Layout => ReportsConversation
  <2> SUFFICES ASSUME Base, Layout, ~disturbed, ~parsing
               PROVE  /\ Len(decoded) = Len(crossed)
                      /\ \A i \in 1..Len(crossed) :
                             decoded[i] = Decode(crossed[i], decoded[i].at)
    BY DEF ReportsConversation, Reports
  <2>1. QED  BY DEF Layout, Reported
<1>2. QED  BY <1>1, BaseInit, BaseStep, LayoutInit, LayoutStep, PTL DEF Spec

(***************************************************************************)
(* As long as each packet of the simulator crosses in one piece, what      *)
(* read() returns is the answer to the packet sendAcyclicFrame has just    *)
(* written, all of it: an answer never stays behind for a later read().    *)
(***************************************************************************)
THEOREM AnswersAreWhole == Spec => []AnswerIsWhole
<1>1. Exchange => AnswerIsWhole
  BY DEF Exchange, ExchangeOf, AnswerIsWhole
<1>2. QED  BY <1>1, BaseInit, BaseStep, ExchangeInit, ExchangeStep, PTL DEF Spec
============================================================================
