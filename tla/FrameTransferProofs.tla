------------------------- MODULE FrameTransferProofs -------------------------
(***************************************************************************)
(* Whatever frame is configured, the packet that is sent is one the parser *)
(* accepts, and the transaction the monitor shows is the configured frame. *)
(***************************************************************************)
EXTENDS FrameTransfer, SequenceTheorems, TLAPS

\* The packet is the one built from the frame as it was sent, and the
\* transaction is the one decoded from that packet.
Carried ==
    /\ step # "edited" => packet = BuildPacket(sent)
    /\ Monitored => shown = Decode(packet, 0)

TransferInv == TypeOK /\ Carried

----------------------------------------------------------------------------
(* Numbers and fields.                                                     *)

\* A packet is longer than its header, by two bytes for each payload word.
LEMMA PacketSize ==
    /\ PacketBytes \in Nat
    /\ PacketBytes = 6 + 2 * MaxWords
    /\ PacketBytes >= 8
BY MaxWordsAssumption DEF PacketBytes, PayloadBytes, HeaderBytes

\* Bytes and words are the numbers up to their largest one.  The bounds are
\* kept apart from the ranges, whose members a prover would list.
LEMMA ByteBounds ==
    ASSUME NEW b
    PROVE  b \in Byte <=> b \in Nat /\ b <= 255
<1>1. b \in Byte <=> b \in Nat /\ b <= MaxByte
  <2>1. MaxByte \in Nat
    BY DEF MaxByte
  <2>2. QED  BY <2>1 DEF Byte
<1>2. QED  BY <1>1 DEF MaxByte

LEMMA WordBounds ==
    ASSUME NEW w
    PROVE  w \in Word <=> w \in Nat /\ w <= 65535
<1>1. w \in Word <=> w \in Nat /\ w <= MaxWord
  <2>1. MaxWord \in Nat
    BY DEF MaxWord
  <2>2. QED  BY <2>1 DEF Word
<1>2. QED  BY <1>1 DEF MaxWord

\* Or-ing with zero changes nothing.
LEMMA OrLow2Zero ==
    ASSUME NEW field \in 0..31
    PROVE  OrLow2(field, 0) = field
<1>1. 0 \div 2 = 0 /\ 0 % 2 = 0
  BY SMT
<1>2. OrBit((field \div 2) % 2, 0) = (field \div 2) % 2 /\ OrBit(field % 2, 0) = field % 2
  BY SMT DEF OrBit
<1>3. field = 4 * (field \div 4) + 2 * ((field \div 2) % 2) + (field % 2)
  BY SMT
<1>4. QED  BY <1>1, <1>2, <1>3 DEF OrLow2

(***************************************************************************)
(* A header whose RT and SA fit their 5-bit fields comes back from the     *)
(* command word unchanged: what the monitor reads out of cmd1 is what      *)
(* sendAcyclicFrame put into the packet, with WC 32 shown as 0.            *)
(***************************************************************************)
THEOREM FieldsRoundTrip ==
    ASSUME NEW mode, NEW rt \in 0..31, NEW sa \in 0..31, NEW wc \in Byte
    PROVE  LET cmd == CmdWord(mode, rt, sa, wc)
           IN  /\ cmd \in Word
               /\ RtOf(cmd) = rt
               /\ TrOf(cmd) = IF mode = ModeTx THEN 1 ELSE 0
               /\ SaOf(cmd) = sa
               /\ WcOf(cmd) = wc % 32
<1> DEFINE tr == IF mode = ModeTx THEN 1 ELSE 0
           cmd == CmdWord(mode, rt, sa, wc)
           w == wc % 32
<1>1. wc \in Nat
  BY ByteBounds
<1>2. w \in 0..31 /\ tr \in {0, 1}
  BY <1>1, SMT
<1>3. rt % 32 = rt /\ sa \div 64 = 0 /\ sa \div 32 = 0 /\ sa % 32 = sa
  BY SMT
<1>4. 0 % 2 = 0
  BY SMT
<1>5. OrBit(tr, 0) = tr
  BY DEF OrBit
<1>6. cmd = 2048 * rt + 1024 * tr + 32 * sa + w
  BY <1>3, <1>4, <1>5, OrLow2Zero DEF CmdWord
<1> HIDE DEF tr, cmd, w
<1>7. cmd \div 2048 = rt /\ cmd \div 1024 = 2 * rt + tr /\ cmd \div 32 = 64 * rt + 32 * tr + sa
  BY <1>2, <1>6, SMT
<1>8. rt % 32 = rt /\ (2 * rt + tr) % 2 = tr /\ (64 * rt + 32 * tr + sa) % 32 = sa /\ cmd % 32 = w
  BY <1>2, <1>6, SMT
<1>9. cmd \in Word
  BY <1>2, <1>6, WordBounds
<1>10. QED  BY <1>7, <1>8, <1>9 DEF RtOf, TrOf, SaOf, WcOf, cmd, tr, w

----------------------------------------------------------------------------
(* The packet.                                                             *)

\* The fields of a configuration fit the header's bytes.
LEMMA FieldsAreBytes ==
    ASSUME NEW c \in Config
    PROVE  /\ c.rt \in 0..31 /\ c.sa \in 0..31 /\ c.wc \in 0..MaxWords
           /\ c.rt \in Byte /\ c.sa \in Byte /\ c.wc \in Byte
           /\ ModeByte(c.mode) \in Byte /\ Magic0 \in Byte /\ Magic1 \in Byte
<1>1. c.rt \in 0..31 /\ c.sa \in 0..31 /\ c.wc \in 0..MaxWords
  BY ComboAssumption DEF Config
<1>2. c.rt \in Byte /\ c.sa \in Byte /\ c.wc \in Byte
  BY <1>1, ByteBounds, WidthAssumption, MaxWordsAssumption
<1>3. ModeByte(c.mode) \in {0, 1}
  BY DEF ModeByte, ModeTx, ModeRx
<1>4. ModeByte(c.mode) \in Byte
  BY <1>3, ByteBounds
<1>5. Magic0 \in Byte /\ Magic1 \in Byte
  BY ByteBounds DEF Magic0, Magic1
<1>6. QED  BY <1>1, <1>2, <1>4, <1>5

\* A data field becomes a uint16_t: two bytes that make up the word again.
LEMMA FieldBytes ==
    ASSUME NEW field \in Nat \cup {NotHex}
    PROVE  /\ FieldWord(field) \in Word
           /\ HighByte(FieldWord(field)) \in Byte
           /\ LowByte(FieldWord(field)) \in Byte
           /\ 256 * HighByte(FieldWord(field)) + LowByte(FieldWord(field)) = FieldWord(field)
<1> DEFINE w == FieldWord(field)
<1>1. w \in Nat /\ w <= 65535
  BY DEF FieldWord, NotHex
<1> HIDE DEF w
<1>2. /\ w \div 256 \in Nat /\ w \div 256 <= 255
      /\ w % 256 \in Nat /\ w % 256 <= 255
      /\ 256 * (w \div 256) + (w % 256) = w
  BY <1>1, SMT
<1>3. HighByte(w) \in Byte /\ LowByte(w) \in Byte
  BY <1>2, ByteBounds DEF HighByte, LowByte
<1>4. w \in Word
  BY <1>1, WordBounds
<1>5. 256 * HighByte(w) + LowByte(w) = w
  BY <1>2 DEF HighByte, LowByte
<1>6. QED  BY <1>3, <1>4, <1>5 DEF w

\* The header of the packet, and the two bytes of each payload word.
LEMMA PacketParts ==
    ASSUME NEW c \in Config
    PROVE  /\ Len(BuildPacket(c)) = PacketBytes
           /\ BuildPacket(c)[1] = Magic0
           /\ BuildPacket(c)[2] = Magic1
           /\ BuildPacket(c)[3] = ModeByte(c.mode)
           /\ BuildPacket(c)[4] = c.rt
           /\ BuildPacket(c)[5] = c.sa
           /\ BuildPacket(c)[6] = c.wc
           /\ \A i \in 1..MaxWords :
                  /\ BuildPacket(c)[5 + 2 * i] = HighByte(FieldWord(c.data[i]))
                  /\ BuildPacket(c)[6 + 2 * i] = LowByte(FieldWord(c.data[i]))
<1> DEFINE body(j) == LET word == FieldWord(c.data[(j - 6 + 1) \div 2])
                      IN  IF j % 2 = 1 THEN HighByte(word) ELSE LowByte(word)
           head == <<Magic0, Magic1, ModeByte(c.mode), c.rt, c.sa, c.wc>>
           p == [j \in 1..PacketBytes |-> IF j <= 6 THEN head[j] ELSE body(j)]
<1>1. BuildPacket(c) = p
  BY DEF BuildPacket, HeaderBytes
<1>2. Len(p) = PacketBytes
  BY PacketSize
<1>3. \A j \in 1..6 : p[j] = head[j]
  BY PacketSize
<1>4. /\ head[1] = Magic0 /\ head[2] = Magic1 /\ head[3] = ModeByte(c.mode)
      /\ head[4] = c.rt /\ head[5] = c.sa /\ head[6] = c.wc
  OBVIOUS
<1>5. ASSUME NEW i \in 1..MaxWords
      PROVE  /\ p[5 + 2 * i] = HighByte(FieldWord(c.data[i]))
             /\ p[6 + 2 * i] = LowByte(FieldWord(c.data[i]))
  <2>1. /\ 5 + 2 * i \in 1..PacketBytes /\ ~(5 + 2 * i <= 6)
        /\ 6 + 2 * i \in 1..PacketBytes /\ ~(6 + 2 * i <= 6)
    BY PacketSize, MaxWordsAssumption
  <2>2. /\ (5 + 2 * i - 6 + 1) \div 2 = i /\ (5 + 2 * i) % 2 = 1
        /\ (6 + 2 * i - 6 + 1) \div 2 = i /\ (6 + 2 * i) % 2 = 0
    BY MaxWordsAssumption, SMT
  <2>3. p[5 + 2 * i] = body(5 + 2 * i) /\ p[6 + 2 * i] = body(6 + 2 * i)
    BY <2>1
  <2>4. body(5 + 2 * i) = HighByte(FieldWord(c.data[i]))
    BY <2>2
  <2>5. body(6 + 2 * i) = LowByte(FieldWord(c.data[i]))
    BY <2>2
  <2>6. QED  BY <2>3, <2>4, <2>5
<1> HIDE DEF p, head
<1>6. QED  BY <1>1, <1>2, <1>3, <1>4, <1>5

\* The packet is a sequence of bytes.
LEMMA PacketType ==
    ASSUME NEW c \in Config
    PROVE  BuildPacket(c) \in Seq(Byte)
<1>1. \A i \in 1..MaxWords : c.data[i] \in Nat \cup {NotHex}
  BY DEF Config
<1>2. ASSUME NEW j \in 1..PacketBytes
      PROVE  BuildPacket(c)[j] \in Byte
  <2>1. CASE j <= 6
    <3>1. j = 1 \/ j = 2 \/ j = 3 \/ j = 4 \/ j = 5 \/ j = 6
      BY <2>1, PacketSize
    <3>2. QED  BY <3>1, PacketParts, FieldsAreBytes
  <2>2. CASE j > 6
    <3>1. PICK i \in 1..MaxWords : j = 5 + 2 * i \/ j = 6 + 2 * i
      <4>1. (j - 5) \div 2 \in 1..MaxWords
        BY <2>2, PacketSize, MaxWordsAssumption, SMT
      <4>2. j = 5 + 2 * ((j - 5) \div 2) \/ j = 6 + 2 * ((j - 5) \div 2)
        BY <2>2, PacketSize, SMT
      <4>3. QED  BY <4>1, <4>2
    <3>2. c.data[i] \in Nat \cup {NotHex}
      BY <1>1
    <3>3. HighByte(FieldWord(c.data[i])) \in Byte /\ LowByte(FieldWord(c.data[i])) \in Byte
      BY <3>2, FieldBytes
    <3>4. /\ BuildPacket(c)[5 + 2 * i] = HighByte(FieldWord(c.data[i]))
          /\ BuildPacket(c)[6 + 2 * i] = LowByte(FieldWord(c.data[i]))
      BY PacketParts
    <3>5. BuildPacket(c)[5 + 2 * i] \in Byte /\ BuildPacket(c)[6 + 2 * i] \in Byte
      BY <3>3, <3>4, Zenon
    <3>6. QED  BY <3>1, <3>5, Zenon
  <2>3. QED  BY <2>1, <2>2, PacketSize
<1>3. BuildPacket(c) = [j \in 1..PacketBytes |-> BuildPacket(c)[j]]
  BY DEF BuildPacket
<1>4. BuildPacket(c) \in [1..PacketBytes -> Byte]
  BY <1>2, <1>3
<1>5. QED  BY <1>4, PacketSize, SeqDef

----------------------------------------------------------------------------
(* The transaction decoded from it.                                        *)

\* What the monitor decodes from the packet of a configured frame is that
\* frame: its fields, and its first words.
LEMMA DecodedFrame ==
    ASSUME NEW c \in Config
    PROVE  LET t == Decode(BuildPacket(c), 0)
               words == IF c.wc = 0 THEN MaxWords ELSE c.wc
           IN  /\ t \in Transaction
               /\ RtOf(t.cmd1) = c.rt
               /\ SaOf(t.cmd1) = c.sa
               /\ TrOf(t.cmd1) = 1 <=> c.mode = "RT_TO_BC"
               /\ Len(t.words) = words
               /\ \A i \in 1..words :
                      t.words[i] = IF c.data[i] = NotHex THEN 0 ELSE c.data[i] % 65536
<1> DEFINE p == BuildPacket(c)
           t == Decode(p, 0)
           words == IF c.wc = 0 THEN MaxWords ELSE c.wc
<1>1. /\ p[3] = ModeByte(c.mode) /\ p[4] = c.rt /\ p[5] = c.sa /\ p[6] = c.wc
      /\ \A i \in 1..MaxWords : /\ p[5 + 2 * i] = HighByte(FieldWord(c.data[i]))
                                /\ p[6 + 2 * i] = LowByte(FieldWord(c.data[i]))
  BY PacketParts
<1>2. c.rt \in 0..31 /\ c.sa \in 0..31 /\ c.wc \in 0..MaxWords /\ c.wc \in Byte
  BY FieldsAreBytes
<1> HIDE DEF p
<1>3. /\ t.cmd1 = CmdWord(ModeByte(c.mode), c.rt, c.sa, c.wc)
      /\ t.words = [i \in 1..WordCount(c.wc, MaxWords) |-> PayloadWord(p, i)]
  BY <1>1 DEF Decode
<1> HIDE DEF t
<1>4. /\ RtOf(t.cmd1) = c.rt /\ SaOf(t.cmd1) = c.sa
      /\ TrOf(t.cmd1) = IF ModeByte(c.mode) = ModeTx THEN 1 ELSE 0
  <2> DEFINE cmd == CmdWord(ModeByte(c.mode), c.rt, c.sa, c.wc)
  <2>1. /\ RtOf(cmd) = c.rt /\ SaOf(cmd) = c.sa
        /\ TrOf(cmd) = IF ModeByte(c.mode) = ModeTx THEN 1 ELSE 0
    BY <1>2, FieldsRoundTrip, Zenon
  <2>2. t.cmd1 = cmd
    BY <1>3
  <2>3. QED  BY <2>1, <2>2, Zenon
<1>5. ModeByte(c.mode) = ModeTx <=> c.mode = "RT_TO_BC"
  BY DEF ModeByte, ModeTx, ModeRx
<1>6. TrOf(t.cmd1) = 1 <=> c.mode = "RT_TO_BC"
  BY <1>4, <1>5
<1>7. WordCount(c.wc, MaxWords) = words /\ words \in 1..MaxWords
  BY <1>2, MaxWordsAssumption DEF WordCount
<1> HIDE DEF words
<1>8. Len(t.words) = words
  BY <1>3, <1>7, MaxWordsAssumption
<1>9. ASSUME NEW i \in 1..words
      PROVE  t.words[i] = IF c.data[i] = NotHex THEN 0 ELSE c.data[i] % 65536
  <2>1. i \in 1..MaxWords /\ i \in Nat
    BY <1>7, MaxWordsAssumption
  <2>2. c.data[i] \in Nat \cup {NotHex}
    BY <2>1 DEF Config
  <2>3. t.words[i] = PayloadWord(p, i)
    BY <1>3, <1>7
  <2>4. PayloadWord(p, i) = 256 * p[5 + 2 * i] + p[6 + 2 * i]
    <3>1. 6 + 2 * i - 1 = 5 + 2 * i
      BY <2>1
    <3>2. QED  BY <3>1 DEF PayloadWord, HeaderBytes
  <2>5. PayloadWord(p, i) = FieldWord(c.data[i])
    BY <1>1, <2>1, <2>2, <2>4, FieldBytes
  <2>6. QED  BY <2>3, <2>5 DEF FieldWord
<1>10. t \in Transaction
  <2>1. t.cmd1 \in Word
    <3>1. CmdWord(ModeByte(c.mode), c.rt, c.sa, c.wc) \in Word
      BY <1>2, FieldsRoundTrip, Zenon
    <3>2. QED  BY <1>3, <3>1, Zenon
  <2>2. t.words \in Seq(Word)
    <3>1. \A i \in 1..words : PayloadWord(p, i) \in Word
      <4> SUFFICES ASSUME NEW i \in 1..words PROVE PayloadWord(p, i) \in Word
        OBVIOUS
      <4>1. i \in 1..MaxWords /\ c.data[i] \in Nat \cup {NotHex}
        BY <1>7, MaxWordsAssumption DEF Config
      <4>2. PayloadWord(p, i) = 256 * p[5 + 2 * i] + p[6 + 2 * i]
        <5>1. 6 + 2 * i - 1 = 5 + 2 * i
          BY <4>1, MaxWordsAssumption
        <5>2. QED  BY <5>1 DEF PayloadWord, HeaderBytes
      <4>3. PayloadWord(p, i) = FieldWord(c.data[i])
        BY <1>1, <4>1, <4>2, FieldBytes
      <4>4. FieldWord(c.data[i]) \in Word
        BY <4>1, FieldBytes
      <4>5. QED  BY <4>3, <4>4, Zenon
    <3>2. QED  BY <1>3, <1>7, <3>1, MaxWordsAssumption, SeqDef
  <2>3. t = [at |-> 0, cmd1 |-> t.cmd1, words |-> t.words]
    BY DEF t, Decode
  <2>4. QED  BY <2>1, <2>2, <2>3 DEF Transaction
<1>11. QED  BY <1>4, <1>6, <1>8, <1>9, <1>10 DEF p, t, words

----------------------------------------------------------------------------
(* The invariant.                                                          *)

\* It holds of every frame that is about to be sent.
LEMMA TransferInit == Init => TransferInv
<1> SUFFICES ASSUME Init PROVE TransferInv
  OBVIOUS
<1>1. config \in Config
  BY DataAssumption DEF Init, Config
<1>2. 0 \in Byte /\ 0 \in Word
  BY ByteBounds, WordBounds
<1>3. NoTransaction \in Transaction
  BY <1>2 DEF NoTransaction, Transaction
<1>4. NoReply.wc \in Byte /\ NoReply.words \in [1..MaxWords -> Word]
  BY <1>2 DEF NoReply
<1>5. received \in [1..MaxWords -> Word]
  BY LeftoversAssumption DEF Init
<1>6. packet \in Seq(Byte)
  BY DEF Init
<1>7. TypeOK
  BY <1>1, <1>3, <1>4, <1>5, <1>6 DEF Init, TypeOK
<1>8. Carried
  BY DEF Init, Carried, Monitored
<1>9. QED  BY <1>7, <1>8 DEF TransferInv

\* Each step keeps it.
LEMMA TransferNext == TransferInv /\ [Next]_vars => TransferInv'
<1> SUFFICES ASSUME TransferInv, [Next]_vars PROVE TransferInv'
  OBVIOUS
<1> USE DEF TransferInv
<1>1. CASE SendAcyclicFrame
  <2>1. packet' = BuildPacket(config) /\ packet' \in Seq(Byte)
    BY <1>1, PacketType DEF SendAcyclicFrame, TypeOK
  <2>2. TypeOK'
    BY <1>1, <2>1 DEF SendAcyclicFrame, TypeOK
  <2>3. Carried'
    BY <1>1, <2>1 DEF SendAcyclicFrame, Carried, Monitored
  <2>4. QED  BY <2>2, <2>3
<1>2. CASE MonitorDecodes
  <2>1. shown' \in Transaction
    <3>1. sent \in Config /\ shown' = Decode(BuildPacket(sent), 0)
      BY <1>2 DEF MonitorDecodes, TypeOK, Carried
    <3>2. QED  BY <3>1, DecodedFrame
  <2>2. TypeOK'
    BY <1>2, <2>1 DEF MonitorDecodes, TypeOK
  <2>3. Carried'
    BY <1>2 DEF MonitorDecodes, Carried, Monitored
  <2>4. QED  BY <2>2, <2>3
<1>3. CASE AnswerArrives
  <2>1. reply'.wc \in Byte /\ reply'.words \in [1..MaxWords -> Word]
    BY <1>3, AnswersAssumption DEF AnswerArrives
  <2>2. received' \in [1..MaxWords -> Word]
    BY <1>3, <2>1 DEF AnswerArrives, TypeOK
  <2>3. TypeOK'
    BY <1>3, <2>1, <2>2 DEF AnswerArrives, TypeOK
  <2>4. Carried'
    BY <1>3 DEF AnswerArrives, Carried, Monitored
  <2>5. QED  BY <2>3, <2>4
<1>4. CASE NoAnswerExpected
  <2>1. TypeOK'
    BY <1>4 DEF NoAnswerExpected, TypeOK
  <2>2. Carried'
    BY <1>4 DEF NoAnswerExpected, Carried, Monitored
  <2>3. QED  BY <2>1, <2>2
<1>5. CASE UpdateFrameData
  <2>1. received \in [1..MaxWords -> Nat \cup {NotHex}]
    <3>1. Word \subseteq Nat
      BY WordBounds
    <3>2. QED  BY <3>1 DEF TypeOK
  <2>2. config' \in Config
    BY <1>5, <2>1 DEF UpdateFrameData, TypeOK, Config
  <2>3. TypeOK'
    BY <1>5, <2>2 DEF UpdateFrameData, TypeOK
  <2>4. Carried'
    BY <1>5 DEF UpdateFrameData, Carried, Monitored
  <2>5. QED  BY <2>3, <2>4
<1>6. CASE UNCHANGED vars
  BY <1>6 DEF vars, TypeOK, Carried, Monitored
<1>7. QED  BY <1>1, <1>2, <1>3, <1>4, <1>5, <1>6 DEF Next

\* Every reachable state satisfies the invariant.
THEOREM TransferInvHolds == Spec => []TransferInv
BY TransferInit, TransferNext, PTL DEF Spec

\* Every variable keeps its type, for every frame, answer and stack content.
THEOREM TransferTypeCorrect == Spec => []TypeOK
BY TransferInvHolds, PTL DEF TransferInv

(***************************************************************************)
(* Every packet sendAcyclicFrame writes is a whole packet parseStream      *)
(* accepts, whatever the frame.                                            *)
(***************************************************************************)
THEOREM PacketsAccepted == Spec => []PacketAccepted
<1>1. TransferInv => PacketAccepted
  <2> SUFFICES ASSUME TransferInv, step # "edited" PROVE
           /\ Len(packet) = 6 + 2 * MaxWords
           /\ packet[1] = 170 /\ packet[2] = 85 /\ packet[3] \in {0, 1}
    BY DEF PacketAccepted
  <2>1. sent \in Config /\ packet = BuildPacket(sent)
    BY DEF TransferInv, TypeOK, Carried
  <2>2. ModeByte(sent.mode) \in {0, 1}
    BY DEF ModeByte, ModeTx, ModeRx
  <2>3. QED  BY <2>1, <2>2, PacketParts, PacketSize DEF Magic0, Magic1
<1>2. QED  BY <1>1, TransferInvHolds, PTL

(***************************************************************************)
(* The transaction in the monitor is the frame in the bus controller, for  *)
(* every RT, SA, WC, mode and content of the data fields.                  *)
(***************************************************************************)
THEOREM MonitorShowsSentFrame == Spec => []MonitorShowsFrame
<1>1. TransferInv => MonitorShowsFrame
  <2> SUFFICES ASSUME TransferInv, Monitored PROVE MonitorShowsFrame
    BY DEF MonitorShowsFrame
  <2>1. sent \in Config /\ shown = Decode(BuildPacket(sent), 0)
    BY DEF TransferInv, TypeOK, Carried, Monitored
  <2>2. QED  BY <2>1, DecodedFrame DEF MonitorShowsFrame
<1>2. QED  BY <1>1, TransferInvHolds, PTL

----------------------------------------------------------------------------
\* The words sendFrame has are those of the answer, as many as it says it has.
AnswerCopied ==
    step \in {"returned", "updated"} /\ config.mode = "RT_TO_BC" =>
        \A i \in 1..ReceivedWords(reply) : received[i] = reply.words[i]

AnswerInv == AnswerCopied /\ AnswerShown

\* ReceivedWords counts what AnswerShown speaks of.
LEMMA AnswerWords ==
    ASSUME NEW r, r.wc \in Nat
    PROVE  /\ ReceivedWords(r) = IF r.wc \in 1..MaxWords THEN r.wc ELSE MaxWords
           /\ ReceivedWords(r) \in 1..MaxWords
BY MaxWordsAssumption DEF ReceivedWords

LEMMA AnswerNext ==
    ASSUME TransferInv, AnswerInv, [Next]_vars
    PROVE  AnswerInv'
<1>0. TypeOK
  BY DEF TransferInv
<1>1. CASE SendAcyclicFrame
  BY <1>1 DEF SendAcyclicFrame, AnswerInv, AnswerCopied, AnswerShown
<1>2. CASE MonitorDecodes
  BY <1>2 DEF MonitorDecodes, AnswerInv, AnswerCopied, AnswerShown
<1>3. CASE AnswerArrives
  <2>1. PICK r \in Answers :
            /\ reply' = r
            /\ received' = [i \in 1..MaxWords |->
                               IF i <= ReceivedWords(r) THEN r.words[i] ELSE received[i]]
            /\ step' = "returned" /\ config' = config
    BY <1>3 DEF AnswerArrives
  <2>2. r.wc \in Nat
    <3>1. r.wc \in Byte
      BY AnswersAssumption
    <3>2. QED  BY <3>1 DEF Byte, MaxByte
  <2>3. ReceivedWords(r) \in 1..MaxWords
    BY <2>2, AnswerWords
  <2>4. ASSUME NEW i \in 1..ReceivedWords(r) PROVE received'[i] = r.words[i]
    <3>1. i \in 1..MaxWords /\ i <= ReceivedWords(r)
      BY <2>3, MaxWordsAssumption
    <3>2. QED  BY <2>1, <3>1
  <2>5. AnswerCopied'
    BY <2>1, <2>4 DEF AnswerCopied, ReceivedWords
  <2>6. AnswerShown'
    BY <2>1 DEF AnswerShown
  <2>7. QED  BY <2>5, <2>6 DEF AnswerInv
<1>4. CASE NoAnswerExpected
  BY <1>4 DEF NoAnswerExpected, AnswerInv, AnswerCopied, AnswerShown
<1>5. CASE UpdateFrameData
  <2>1. /\ step = "returned" /\ step' = "updated" /\ UNCHANGED <<reply, received>>
        /\ config' = [config EXCEPT !.data = received]
    BY <1>5 DEF UpdateFrameData
  <2>2. config'.mode = config.mode /\ config'.data = received
    BY <1>0, <2>1 DEF TypeOK, Config
  <2>3. AnswerCopied'
    BY <2>1, <2>2 DEF AnswerInv, AnswerCopied, ReceivedWords
  <2>4. ASSUME config'.mode = "RT_TO_BC",
               NEW i \in 1..(IF reply.wc \in 1..MaxWords THEN reply.wc ELSE MaxWords)
        PROVE  config'.data[i] = reply.words[i]
    <3>1. reply.wc \in Nat
      <4>1. reply.wc \in Byte
        BY <1>0 DEF TypeOK
      <4>2. QED  BY <4>1 DEF Byte, MaxByte
    <3>2. i \in 1..ReceivedWords(reply)
      BY <3>1, AnswerWords
    <3>3. QED  BY <2>1, <2>2, <2>4, <3>2 DEF AnswerInv, AnswerCopied
  <2>5. AnswerShown'
    BY <2>1, <2>4 DEF AnswerShown
  <2>6. QED  BY <2>3, <2>5 DEF AnswerInv
<1>6. CASE UNCHANGED vars
  BY <1>6 DEF vars, AnswerInv, AnswerCopied, AnswerShown, ReceivedWords
<1>7. QED  BY <1>1, <1>2, <1>3, <1>4, <1>5, <1>6 DEF Next

(***************************************************************************)
(* The words of every answer, of any length, appear in the frame's data.   *)
(***************************************************************************)
THEOREM AnswersAreShown == Spec => []AnswerShown
<1>1. Init => AnswerInv
  BY DEF Init, AnswerInv, AnswerCopied, AnswerShown
<1>2. TransferInv /\ AnswerInv /\ [Next]_vars => AnswerInv'
  BY AnswerNext
<1>3. AnswerInv => AnswerShown
  BY DEF AnswerInv
<1>4. QED  BY <1>1, <1>2, <1>3, TransferInvHolds, PTL DEF Spec
============================================================================
