------------------------ MODULE ProtocolParserProofs ------------------------
(***************************************************************************)
(* The safety properties of ProtocolParser, for every payload size and     *)
(* every set of buffers.                                                   *)
(*                                                                         *)
(* Inv strengthens them with two facts.  Split: the accumulator is the     *)
(* part of the received bytes that has not been erased.  Accounted: every  *)
(* erased byte lies in a reported packet or was skipped as the start of no *)
(* packet.  It is about headers and not about whole packets, since bytes   *)
(* that arrive later complete a packet but do not change a header.         *)
(***************************************************************************)
EXTENDS ProtocolParser, SequenceTheorems, TLAPS

Split ==
    /\ Len(received) = consumed + Len(accumulator)
    /\ \A i \in 1..Len(accumulator) : accumulator[i] = received[consumed + i]

HeaderAt(at) ==
    received[at + 1] = 170 /\ received[at + 2] = 85 /\ received[at + 3] \in {0, 1}

Accounted ==
    \A at \in 0..(consumed - 1) :
        \/ \E k \in 1..Len(decoded) : Covers(decoded[k], at)
        \/ at + HeaderBytes <= Len(received) /\ ~HeaderAt(at)

Inv ==
    /\ TypeOK
    /\ Split
    /\ DecodedAreFrames
    /\ DecodedInOrder
    /\ Accounted
    /\ BacklogBounded
    /\ AlignedStaysInSync

\* What DecodedAreFrames says of one transaction.
FaithfulTo(bytes, d) ==
    LET wc == bytes[d.at + 6]
    IN  /\ d.at + PacketBytes <= Len(bytes)
        /\ bytes[d.at + 1] = 170 /\ bytes[d.at + 2] = 85 /\ bytes[d.at + 3] \in {0, 1}
        /\ d.cmd1 = CmdWord(bytes[d.at + 3], bytes[d.at + 4], bytes[d.at + 5], wc)
        /\ Len(d.words) = IF wc \in 1..MaxWords THEN wc ELSE MaxWords
        /\ \A i \in 1..Len(d.words) :
               d.words[i] = 256 * bytes[d.at + 5 + 2 * i] + bytes[d.at + 6 + 2 * i]

LEMMA FramesAreFaithful ==
    DecodedAreFrames <=> \A k \in 1..Len(decoded) : FaithfulTo(received, decoded[k])
BY DEF DecodedAreFrames, FaithfulTo, FrameAt

----------------------------------------------------------------------------
(* The packet.                                                             *)

\* A packet is longer than its header, by two bytes for each payload word.
LEMMA PacketSize ==
    /\ PacketBytes \in Nat
    /\ PacketBytes = 6 + 2 * MaxWords
    /\ PacketBytes >= 8
BY MaxWordsAssumption DEF PacketBytes, PayloadBytes, HeaderBytes

\* A packet carries between one word and the whole payload.
LEMMA WordCountBounds ==
    ASSUME NEW wc \in Byte
    PROVE  /\ WordCount(wc, MaxWords) \in 1..MaxWords
           /\ WordCount(wc, MaxWords) = IF wc \in 1..MaxWords THEN wc ELSE MaxWords
<1>1. wc \in Nat
  BY DEF Byte, MaxByte
<1>2. QED  BY <1>1, MaxWordsAssumption DEF WordCount

\* Or-ing a 5-bit field with two bits gives a 5-bit field.
LEMMA OrLow2Bounds ==
    ASSUME NEW field \in 0..31, NEW low \in 0..3
    PROVE  OrLow2(field, low) \in 0..31
<1>1. field \div 4 \in 0..7
  BY SMT
<1>2. OrBit((field \div 2) % 2, low \div 2) \in {0, 1} /\ OrBit(field % 2, low % 2) \in {0, 1}
  BY DEF OrBit
<1>3. QED  BY <1>1, <1>2 DEF OrLow2

\* Bytes and words are the numbers up to their largest one.  The bounds are
\* kept apart from the ranges, whose members a prover would list.
LEMMA ByteBounds ==
    ASSUME NEW b
    PROVE  b \in Byte <=> b \in Nat /\ b <= 255
<1>1. b \in Byte <=> b \in Nat /\ b <= MaxByte
  <2>1. MaxByte \in Nat
    BY DEF MaxByte
  <2>2. QED  BY <2>1 DEF Byte
<1>2. QED  BY <1>1 DEF MaxByte

LEMMA WordBounds ==
    ASSUME NEW w
    PROVE  w \in Word <=> w \in Nat /\ w <= 65535
<1>1. w \in Word <=> w \in Nat /\ w <= MaxWord
  <2>1. MaxWord \in Nat
    BY DEF MaxWord
  <2>2. QED  BY <2>1 DEF Word
<1>2. QED  BY <1>1 DEF MaxWord

\* Whatever the header bytes are, the command word is a uint16_t.
LEMMA CmdWordType ==
    ASSUME NEW mode, NEW rt \in Byte, NEW sa \in Byte, NEW wc \in Byte
    PROVE  CmdWord(mode, rt, sa, wc) \in Word
<1> DEFINE tr == IF mode = ModeTx THEN 1 ELSE 0
           high == OrLow2(rt % 32, sa \div 64)
           bit == OrBit(tr, (sa \div 32) % 2)
<1>1. /\ rt \in Nat /\ sa \in Nat /\ wc \in Nat
      /\ rt <= 255 /\ sa <= 255 /\ wc <= 255
  BY ByteBounds
<1>2. rt % 32 \in 0..31 /\ sa \div 64 \in 0..3 /\ sa % 32 \in 0..31 /\ wc % 32 \in 0..31
  BY <1>1, SMT
<1>3. high \in 0..31
  BY <1>2, OrLow2Bounds
<1>4. bit \in 0..1
  BY DEF OrBit
<1>5. CmdWord(mode, rt, sa, wc) = 2048 * high + 1024 * bit + 32 * (sa % 32) + (wc % 32)
  BY DEF CmdWord
<1> HIDE DEF tr, high, bit
<1>6. CmdWord(mode, rt, sa, wc) \in Nat /\ CmdWord(mode, rt, sa, wc) <= 65535
  BY <1>2, <1>3, <1>4, <1>5, SMT
<1>7. QED  BY <1>6, WordBounds

\* Each decoded payload word is a uint16_t.
LEMMA PayloadWordType ==
    ASSUME NEW bytes \in Seq(Byte), Len(bytes) >= PacketBytes, NEW i \in 1..MaxWords
    PROVE  PayloadWord(bytes, i) \in Word
<1>1. 5 + 2 * i \in 1..Len(bytes) /\ 6 + 2 * i \in 1..Len(bytes)
  BY PacketSize, MaxWordsAssumption
<1>2. bytes[5 + 2 * i] \in Byte /\ bytes[6 + 2 * i] \in Byte
  BY <1>1, ElementOfSeq
<1>3. PayloadWord(bytes, i) = 256 * bytes[5 + 2 * i] + bytes[6 + 2 * i]
  BY MaxWordsAssumption DEF PayloadWord, HeaderBytes
<1>4. PayloadWord(bytes, i) \in Nat /\ PayloadWord(bytes, i) <= 65535
  BY <1>2, <1>3, ByteBounds
<1>5. QED  BY <1>4, WordBounds

\* Decoding any packet-sized buffer gives a transaction.
LEMMA DecodeType ==
    ASSUME NEW bytes \in Seq(Byte), Len(bytes) >= PacketBytes, NEW at \in Nat
    PROVE  Decode(bytes, at) \in Transaction
<1> DEFINE n == WordCount(bytes[6], MaxWords)
           words == [i \in 1..n |-> PayloadWord(bytes, i)]
<1>1. bytes[3] \in Byte /\ bytes[4] \in Byte /\ bytes[5] \in Byte /\ bytes[6] \in Byte
  BY PacketSize, ElementOfSeq
<1>2. n \in 1..MaxWords
  BY <1>1, WordCountBounds
<1>3. \A i \in 1..n : PayloadWord(bytes, i) \in Word
  BY <1>2, PayloadWordType, MaxWordsAssumption
<1>4. words \in [1..n -> Word] /\ n \in Nat
  BY <1>2, <1>3, MaxWordsAssumption
<1>5. words \in Seq(Word)
  BY <1>4, SeqDef
<1>6. CmdWord(bytes[3], bytes[4], bytes[5], bytes[6]) \in Word
  BY <1>1, CmdWordType
<1>7. QED  BY <1>5, <1>6 DEF Decode, Transaction

----------------------------------------------------------------------------
(* Facts about one state.                                                  *)

\* The first bytes of the accumulator are the next bytes of the stream.
LEMMA HeadOfStream ==
    ASSUME TypeOK, Split, Len(accumulator) >= HeaderBytes
    PROVE  /\ consumed + HeaderBytes <= Len(received)
           /\ \A i \in 1..6 : accumulator[i] = received[consumed + i]
BY DEF TypeOK, Split, HeaderBytes

\* A transaction that is faithful to a stream is faithful to a longer one.
LEMMA FaithfulGrows ==
    ASSUME NEW s \in Seq(Byte), NEW t \in Seq(Byte), NEW d \in Transaction,
           FaithfulTo(s, d)
    PROVE  FaithfulTo(s \o t, d)
<1>1. d.at \in Nat /\ d.words \in Seq(Word)
  BY DEF Transaction
<1>2. /\ Len(s \o t) = Len(s) + Len(t) /\ Len(s) \in Nat /\ Len(t) \in Nat
      /\ \A i \in 1..Len(s) : (s \o t)[i] = s[i]
  BY ConcatProperties, LenProperties
<1>3. d.at + PacketBytes <= Len(s)
  BY DEF FaithfulTo
<1>4. \A i \in 1..PacketBytes : (s \o t)[d.at + i] = s[d.at + i]
  BY <1>1, <1>2, <1>3, PacketSize
<1>5. /\ (s \o t)[d.at + 1] = s[d.at + 1] /\ (s \o t)[d.at + 2] = s[d.at + 2]
      /\ (s \o t)[d.at + 3] = s[d.at + 3] /\ (s \o t)[d.at + 4] = s[d.at + 4]
      /\ (s \o t)[d.at + 5] = s[d.at + 5] /\ (s \o t)[d.at + 6] = s[d.at + 6]
  <2>1. \A i \in {1, 2, 3, 4, 5, 6} : i \in 1..PacketBytes
    BY PacketSize
  <2>2. QED  BY <1>4, <2>1
<1>6. s[d.at + 6] \in Byte
  BY <1>1, <1>3, PacketSize, ElementOfSeq
<1>7. Len(d.words) \in 1..MaxWords
  BY <1>6, ByteBounds, MaxWordsAssumption DEF FaithfulTo
<1>8. \A i \in 1..Len(d.words) : /\ (s \o t)[d.at + 5 + 2 * i] = s[d.at + 5 + 2 * i]
                                 /\ (s \o t)[d.at + 6 + 2 * i] = s[d.at + 6 + 2 * i]
  <2> SUFFICES ASSUME NEW i \in 1..Len(d.words)
               PROVE  /\ (s \o t)[d.at + 5 + 2 * i] = s[d.at + 5 + 2 * i]
                      /\ (s \o t)[d.at + 6 + 2 * i] = s[d.at + 6 + 2 * i]
    OBVIOUS
  <2>1. i \in Nat /\ 5 + 2 * i \in 1..PacketBytes /\ 6 + 2 * i \in 1..PacketBytes
    BY <1>7, PacketSize, MaxWordsAssumption
  <2>2. d.at + 5 + 2 * i = d.at + (5 + 2 * i) /\ d.at + 6 + 2 * i = d.at + (6 + 2 * i)
    BY <1>1, <2>1
  <2>3. QED  BY <1>4, <2>1, <2>2
<1>9. d.at + PacketBytes <= Len(s \o t)
  BY <1>1, <1>2, <1>3, PacketSize
<1>10. \A i \in 1..Len(d.words) :
           d.words[i] = 256 * (s \o t)[d.at + 5 + 2 * i] + (s \o t)[d.at + 6 + 2 * i]
  <2>1. \A i \in 1..Len(d.words) :
            d.words[i] = 256 * s[d.at + 5 + 2 * i] + s[d.at + 6 + 2 * i]
    BY Zenon DEF FaithfulTo
  <2>2. QED  BY <1>8, <2>1, Zenon
<1>11. /\ (s \o t)[d.at + 1] = 170 /\ (s \o t)[d.at + 2] = 85
       /\ (s \o t)[d.at + 3] \in {0, 1}
       /\ d.cmd1 = CmdWord((s \o t)[d.at + 3], (s \o t)[d.at + 4],
                           (s \o t)[d.at + 5], (s \o t)[d.at + 6])
       /\ Len(d.words) = IF (s \o t)[d.at + 6] \in 1..MaxWords
                         THEN (s \o t)[d.at + 6] ELSE MaxWords
  BY <1>5, Zenon DEF FaithfulTo
<1>12. QED  BY <1>9, <1>10, <1>11, Zenon DEF FaithfulTo

\* What the parser decodes is faithful to the stream.
LEMMA DecodeIsFaithful ==
    ASSUME TypeOK, Split, Len(accumulator) >= PacketBytes,
           HasMagic(accumulator), ValidMode(accumulator[3])
    PROVE  FaithfulTo(received, Decode(accumulator, consumed))
<1> DEFINE d == Decode(accumulator, consumed)
           n == WordCount(accumulator[6], MaxWords)
<1>1. accumulator \in Seq(Byte) /\ consumed \in Nat /\ received \in Seq(Byte)
  BY DEF TypeOK
<1>2. \A i \in 1..PacketBytes : accumulator[i] = received[consumed + i]
  BY <1>1, PacketSize DEF Split
<1>3. /\ accumulator[1] = received[consumed + 1] /\ accumulator[2] = received[consumed + 2]
      /\ accumulator[3] = received[consumed + 3] /\ accumulator[4] = received[consumed + 4]
      /\ accumulator[5] = received[consumed + 5] /\ accumulator[6] = received[consumed + 6]
  <2>1. \A i \in {1, 2, 3, 4, 5, 6} : i \in 1..PacketBytes
    BY PacketSize
  <2>2. QED  BY <1>2, <2>1
<1>4. accumulator[6] \in Byte
  BY <1>1, PacketSize, ElementOfSeq
<1>5. n \in 1..MaxWords /\ n = IF accumulator[6] \in 1..MaxWords THEN accumulator[6] ELSE MaxWords
  BY <1>4, WordCountBounds
<1>6. /\ d.at = consumed
      /\ d.cmd1 = CmdWord(accumulator[3], accumulator[4], accumulator[5], accumulator[6])
      /\ d.words = [i \in 1..n |-> PayloadWord(accumulator, i)]
  BY DEF Decode
<1>7. Len(d.words) = n
  BY <1>5, <1>6, MaxWordsAssumption
<1>8. \A i \in 1..n :
          d.words[i] = 256 * received[consumed + 5 + 2 * i] + received[consumed + 6 + 2 * i]
  <2> SUFFICES ASSUME NEW i \in 1..n
               PROVE  d.words[i] = 256 * received[consumed + 5 + 2 * i]
                                   + received[consumed + 6 + 2 * i]
    OBVIOUS
  <2>1. i \in Nat /\ 5 + 2 * i \in 1..PacketBytes /\ 6 + 2 * i \in 1..PacketBytes
    BY <1>5, PacketSize, MaxWordsAssumption
  <2>2. d.words[i] = 256 * accumulator[5 + 2 * i] + accumulator[6 + 2 * i]
    <3>1. d.words[i] = PayloadWord(accumulator, i)
      BY <1>6
    <3>2. HeaderBytes + 2 * i - 1 = 5 + 2 * i /\ HeaderBytes + 2 * i = 6 + 2 * i
      BY <2>1 DEF HeaderBytes
    <3>3. QED  BY <3>1, <3>2 DEF PayloadWord
  <2>3. consumed + 5 + 2 * i = consumed + (5 + 2 * i) /\ consumed + 6 + 2 * i = consumed + (6 + 2 * i)
    BY <1>1, <2>1
  <2>4. QED  BY <1>2, <2>1, <2>2, <2>3
<1>9. consumed + PacketBytes <= Len(received)
  BY <1>1, PacketSize DEF Split
<1>10. accumulator[1] = 170 /\ accumulator[2] = 85 /\ accumulator[3] \in {0, 1}
  BY DEF HasMagic, ValidMode, Magic0, Magic1, ModeRx, ModeTx
<1> HIDE DEF d, n
<1>11. \A i \in 1..Len(d.words) :
           d.words[i] = 256 * received[d.at + 5 + 2 * i] + received[d.at + 6 + 2 * i]
  BY <1>6, <1>7, <1>8
<1>12. /\ d.at + PacketBytes <= Len(received)
       /\ received[d.at + 1] = 170 /\ received[d.at + 2] = 85
       /\ received[d.at + 3] \in {0, 1}
       /\ d.cmd1 = CmdWord(received[d.at + 3], received[d.at + 4],
                           received[d.at + 5], received[d.at + 6])
       /\ Len(d.words) = IF received[d.at + 6] \in 1..MaxWords
                         THEN received[d.at + 6] ELSE MaxWords
  BY <1>3, <1>5, <1>6, <1>7, <1>9, <1>10
<1>13. FaithfulTo(received, d)
  BY <1>11, <1>12, Zenon DEF FaithfulTo
<1>14. QED  BY <1>13 DEF d

\* While the stream is aligned, what is at the head is the start of a packet.
LEMMA AlignedHead ==
    ASSUME TypeOK, Split, AlignedStaysInSync, Aligned,
           Len(accumulator) >= HeaderBytes
    PROVE  HasMagic(accumulator) /\ ValidMode(accumulator[3])
<1> DEFINE n == Len(decoded)
<1>1. consumed \in Nat /\ n \in Nat /\ consumed = PacketBytes * n
  BY LenProperties DEF TypeOK, AlignedStaysInSync
<1>2. PacketBytes * n >= n
  BY <1>1, PacketSize
<1>3. consumed + 6 <= Len(received) /\ Len(received) \in Nat
  BY HeadOfStream, LenProperties DEF TypeOK, HeaderBytes
<1>4. n \in 0..Len(received) /\ n * PacketBytes = consumed
  BY <1>1, <1>2, <1>3, PacketSize
<1>5. /\ received[consumed + 1] = Magic0 /\ received[consumed + 2] = Magic1
      /\ ValidMode(received[consumed + 3])
  BY <1>1, <1>3, <1>4 DEF Aligned
<1>6. /\ accumulator[1] = received[consumed + 1] /\ accumulator[2] = received[consumed + 2]
      /\ accumulator[3] = received[consumed + 3]
  BY HeadOfStream
<1>7. QED  BY <1>5, <1>6 DEF HasMagic

\* Erasing the first n bytes keeps the rest of the stream in the accumulator.
LEMMA EraseKeepsSplit ==
    ASSUME TypeOK, Split, NEW n \in 0..Len(accumulator), Erase(n),
           UNCHANGED received
    PROVE  /\ accumulator' \in Seq(Byte) /\ consumed' \in Nat
           /\ consumed' = consumed + n
           /\ Len(accumulator') = Len(accumulator) - n
           /\ Split'
<1>1. accumulator \in Seq(Byte) /\ consumed \in Nat /\ received \in Seq(Byte)
  BY DEF TypeOK
<1>2. Len(accumulator) \in Nat /\ n \in Nat /\ n <= Len(accumulator)
  BY <1>1, LenProperties
<1>3. \A i \in (n + 1)..Len(accumulator) : accumulator[i] \in Byte
  BY <1>1, <1>2, ElementOfSeq
<1>4. /\ accumulator' \in Seq(Byte)
      /\ Len(accumulator') = Len(accumulator) - n
      /\ \A i \in 1..(Len(accumulator) - n) : accumulator'[i] = accumulator[n + i]
  BY <1>2, <1>3, SubSeqProperties DEF Erase
<1>5. consumed' = consumed + n /\ consumed' \in Nat
  BY <1>1, <1>2 DEF Erase
<1>6. \A i \in 1..Len(accumulator') : accumulator'[i] = received'[consumed' + i]
  <2> SUFFICES ASSUME NEW i \in 1..Len(accumulator')
               PROVE  accumulator'[i] = received'[consumed' + i]
    OBVIOUS
  <2>1. n + i \in 1..Len(accumulator) /\ i \in 1..(Len(accumulator) - n)
    BY <1>2, <1>4
  <2>2. accumulator'[i] = accumulator[n + i]
    BY <1>4, <2>1
  <2>3. accumulator[n + i] = received[consumed + (n + i)]
    BY <2>1 DEF Split
  <2>4. consumed + (n + i) = consumed' + i
    BY <1>1, <1>2, <1>5, <2>1
  <2>5. QED  BY <2>2, <2>3, <2>4
<1>7. Len(received') = consumed' + Len(accumulator')
  <2>1. Len(received') = Len(received) /\ Len(received) = consumed + Len(accumulator)
    BY DEF Split
  <2>2. QED  BY <1>1, <1>2, <1>4, <1>5, <2>1
<1>8. QED  BY <1>4, <1>5, <1>6, <1>7 DEF Split

----------------------------------------------------------------------------
(* The invariant holds initially and is kept by every action.              *)

LEMMA InitInv == Init => Inv
<1> SUFFICES ASSUME Init PROVE Inv
  OBVIOUS
<1>1. /\ accumulator = <<>> /\ parsing = FALSE /\ received = <<>>
      /\ consumed = 0 /\ decoded = <<>>
  BY DEF Init
<1>2. TypeOK
  BY <1>1, EmptySeq DEF TypeOK
<1>3. Len(accumulator) = 0 /\ Len(received) = 0 /\ Len(decoded) = 0
  BY <1>1
<1>4. Split /\ DecodedAreFrames /\ DecodedInOrder /\ Accounted
  BY <1>1, <1>3 DEF Split, DecodedAreFrames, DecodedInOrder, Accounted
<1>5. BacklogBounded
  BY <1>3, PacketSize DEF BacklogBounded
<1>6. AlignedStaysInSync
  BY <1>1, <1>3, PacketSize DEF AlignedStaysInSync
<1>7. QED  BY <1>2, <1>4, <1>5, <1>6 DEF Inv

\* New bytes go to the end of the stream; nothing decoded or skipped changes.
LEMMA ParseStreamInv ==
    ASSUME Inv, NEW buffer \in Buffers, ParseStream(buffer)
    PROVE  Inv'
<1>1. buffer \in Seq(Byte)
  BY BuffersAssumption
<1>2. /\ accumulator \in Seq(Byte) /\ received \in Seq(Byte)
      /\ consumed \in Nat /\ decoded \in Seq(Transaction)
  BY DEF Inv, TypeOK
<1>3. /\ accumulator' = accumulator \o buffer /\ received' = received \o buffer
      /\ parsing' = TRUE /\ consumed' = consumed /\ decoded' = decoded
  BY DEF ParseStream
<1>4. /\ Len(accumulator) \in Nat /\ Len(received) \in Nat /\ Len(buffer) \in Nat
      /\ Len(decoded) \in Nat
  BY <1>1, <1>2, LenProperties
<1>5. /\ accumulator' \in Seq(Byte) /\ Len(accumulator') = Len(accumulator) + Len(buffer)
      /\ \A i \in 1..(Len(accumulator) + Len(buffer)) :
             accumulator'[i] = IF i <= Len(accumulator) THEN accumulator[i]
                               ELSE buffer[i - Len(accumulator)]
  BY <1>1, <1>2, <1>3, ConcatProperties
<1>6. /\ received' \in Seq(Byte) /\ Len(received') = Len(received) + Len(buffer)
      /\ \A i \in 1..(Len(received) + Len(buffer)) :
             received'[i] = IF i <= Len(received) THEN received[i]
                            ELSE buffer[i - Len(received)]
  BY <1>1, <1>2, <1>3, ConcatProperties
<1>7. TypeOK'
  BY <1>2, <1>3, <1>5, <1>6 DEF TypeOK
<1>8. Split'
  <2>1. Len(received) = consumed + Len(accumulator)
    BY DEF Inv, Split
  <2>2. ASSUME NEW i \in 1..Len(accumulator')
        PROVE  accumulator'[i] = received'[consumed' + i]
    <3>1. i \in Nat /\ i >= 1 /\ i <= Len(accumulator) + Len(buffer)
      BY <1>4, <1>5
    <3>2. consumed + i \in 1..(Len(received) + Len(buffer))
      BY <1>2, <1>4, <2>1, <3>1
    <3>3. CASE i <= Len(accumulator)
      <4>1. accumulator[i] = received[consumed + i]
        BY <1>4, <3>1, <3>3 DEF Inv, Split
      <4>2. consumed + i <= Len(received)
        BY <1>2, <1>4, <2>1, <3>1, <3>3
      <4>3. QED  BY <1>3, <1>4, <1>5, <1>6, <3>1, <3>2, <3>3, <4>1, <4>2
    <3>4. CASE ~(i <= Len(accumulator))
      <4>1. /\ ~(consumed + i <= Len(received))
            /\ (consumed + i) - Len(received) = i - Len(accumulator)
        BY <1>2, <1>4, <2>1, <3>1, <3>4
      <4>2. QED  BY <1>3, <1>4, <1>5, <1>6, <3>1, <3>2, <3>4, <4>1
    <3>5. QED  BY <3>3, <3>4
  <2>3. Len(received') = consumed' + Len(accumulator')
    BY <1>2, <1>3, <1>4, <1>5, <1>6, <2>1
  <2>4. QED  BY <2>2, <2>3 DEF Split
<1>9. DecodedAreFrames'
  <2>1. ASSUME NEW k \in 1..Len(decoded)
        PROVE  FaithfulTo(received', decoded[k])
    <3>1. FaithfulTo(received, decoded[k])
      BY FramesAreFaithful DEF Inv
    <3>2. decoded[k] \in Transaction
      BY <1>2, ElementOfSeq
    <3>3. QED  BY <1>1, <1>2, <1>3, <3>1, <3>2, FaithfulGrows
  <2>2. \A k \in 1..Len(decoded') : FaithfulTo(received', decoded'[k])
    BY <1>3, <2>1
  <2>3. QED  BY <2>2 DEF DecodedAreFrames, FaithfulTo, FrameAt
<1>10. DecodedInOrder'
  BY <1>3 DEF Inv, DecodedInOrder
<1>11. Accounted'
  <2>1. ASSUME NEW at \in 0..(consumed - 1), at + HeaderBytes <= Len(received), ~HeaderAt(at)
        PROVE  at + HeaderBytes <= Len(received') /\ ~HeaderAt(at)'
    <3>1. at + 1 \in 1..Len(received) /\ at + 2 \in 1..Len(received) /\ at + 3 \in 1..Len(received)
      BY <1>2, <1>4, <2>1 DEF HeaderBytes
    <3>2. /\ received'[at + 1] = received[at + 1] /\ received'[at + 2] = received[at + 2]
          /\ received'[at + 3] = received[at + 3]
      BY <1>4, <1>6, <3>1
    <3>3. at + HeaderBytes <= Len(received')
      BY <1>2, <1>4, <1>6, <2>1 DEF HeaderBytes
    <3>4. QED  BY <2>1, <3>2, <3>3 DEF HeaderAt
  <2>2. \A at \in 0..(consumed' - 1) :
            \/ \E k \in 1..Len(decoded') : Covers(decoded'[k], at)
            \/ at + HeaderBytes <= Len(received') /\ ~HeaderAt(at)'
    BY <1>3, <2>1 DEF Inv, Accounted
  <2>3. QED  BY <2>2 DEF Accounted, Covers, HeaderAt
<1>12. BacklogBounded'
  BY <1>3 DEF BacklogBounded
<1>13. AlignedStaysInSync'
  <2>1. ASSUME Aligned' PROVE Aligned
    <3> SUFFICES ASSUME NEW n \in 0..Len(received)
                 PROVE  LET at == n * PacketBytes
                        IN  /\ at + 1 <= Len(received) => received[at + 1] = Magic0
                            /\ at + 2 <= Len(received) => received[at + 2] = Magic1
                            /\ at + 3 <= Len(received) => ValidMode(received[at + 3])
      BY DEF Aligned
    <3> DEFINE at == n * PacketBytes
    <3>1. n \in 0..Len(received') /\ n \in Nat
      BY <1>4, <1>6
    <3>2. at \in Nat
      BY <3>1, PacketSize
    <3>3. /\ at + 1 <= Len(received') => received'[at + 1] = Magic0
          /\ at + 2 <= Len(received') => received'[at + 2] = Magic1
          /\ at + 3 <= Len(received') => ValidMode(received'[at + 3])
      BY <2>1, <3>1, Zenon DEF Aligned, ValidMode
    <3> HIDE DEF at
    <3>4. \A j \in {1, 2, 3} : at + j <= Len(received) =>
              at + j <= Len(received') /\ received'[at + j] = received[at + j]
      BY <1>4, <1>6, <3>2
    <3>5. /\ at + 1 <= Len(received) => received[at + 1] = Magic0
          /\ at + 2 <= Len(received) => received[at + 2] = Magic1
          /\ at + 3 <= Len(received) => ValidMode(received[at + 3])
      BY <3>3, <3>4
    <3>6. QED  BY <3>5 DEF at
  <2>2. QED  BY <1>3, <2>1 DEF Inv, AlignedStaysInSync
<1>14. QED  BY <1>7, <1>8, <1>9, <1>10, <1>11, <1>12, <1>13 DEF Inv

\* Erasing one byte that starts no packet: a bad sync pattern or a bad mode.
LEMMA SkipInv ==
    ASSUME Inv, parsing, Len(accumulator) >= HeaderBytes,
           ~(HasMagic(accumulator) /\ ValidMode(accumulator[3])),
           Erase(1), UNCHANGED <<parsing, received, decoded>>
    PROVE  Inv'
<1>1. TypeOK /\ Split /\ consumed \in Nat /\ Len(accumulator) \in Nat
  BY LenProperties DEF Inv, TypeOK
<1>2. 1 \in 0..Len(accumulator)
  BY <1>1 DEF HeaderBytes
<1>3. /\ accumulator' \in Seq(Byte) /\ consumed' \in Nat
      /\ consumed' = consumed + 1
      /\ Split'
  BY <1>1, <1>2, EraseKeepsSplit
<1>4. TypeOK'
  BY <1>3 DEF Inv, TypeOK
<1>5. DecodedAreFrames'
  BY DEF Inv, DecodedAreFrames, FrameAt
<1>6. DecodedInOrder'
  <2>1. ASSUME NEW k \in 1..Len(decoded)
        PROVE  decoded[k].at + PacketBytes <= consumed'
    <3>1. decoded[k].at \in Nat
      <4>1. decoded[k] \in Transaction
        BY <1>1, ElementOfSeq DEF TypeOK
      <4>2. QED  BY <4>1 DEF Transaction
    <3>2. decoded[k].at + PacketBytes <= consumed
      BY DEF Inv, DecodedInOrder
    <3>3. QED  BY <1>1, <1>3, <3>1, <3>2, PacketSize
  <2>2. QED  BY <2>1 DEF Inv, DecodedInOrder
<1>7. Accounted'
  <2>1. consumed + HeaderBytes <= Len(received) /\ ~HeaderAt(consumed)
    <3>1. /\ consumed + HeaderBytes <= Len(received)
          /\ accumulator[1] = received[consumed + 1] /\ accumulator[2] = received[consumed + 2]
          /\ accumulator[3] = received[consumed + 3]
      BY <1>1, HeadOfStream
    <3>2. QED  BY <3>1 DEF HeaderAt, HasMagic, ValidMode, Magic0, Magic1, ModeRx, ModeTx
  <2>2. ASSUME NEW at \in 0..(consumed' - 1)
        PROVE  \/ \E k \in 1..Len(decoded) : Covers(decoded[k], at)
               \/ at + HeaderBytes <= Len(received) /\ ~HeaderAt(at)
    <3>1. at = consumed \/ at \in 0..(consumed - 1)
      BY <1>1, <1>3
    <3>2. QED  BY <2>1, <3>1 DEF Inv, Accounted
  <2>3. QED  BY <2>2 DEF Accounted, Covers, HeaderAt
<1>8. BacklogBounded'
  BY DEF BacklogBounded
<1>9. AlignedStaysInSync'
  <2>1. ~Aligned
    BY <1>1, AlignedHead DEF Inv
  <2>2. ~Aligned'
    BY <2>1 DEF Aligned, ValidMode
  <2>3. QED  BY <2>2 DEF AlignedStaysInSync
<1>10. QED  BY <1>3, <1>4, <1>5, <1>6, <1>7, <1>8, <1>9 DEF Inv

LEMMA SkipByteInv == ASSUME Inv, SkipByte PROVE Inv'
BY SkipInv DEF SkipByte

LEMMA RejectModeInv == ASSUME Inv, RejectMode PROVE Inv'
<1>1. Len(accumulator) >= HeaderBytes
  BY PacketSize, LenProperties DEF RejectMode, HeaderBytes, Inv, TypeOK
<1>2. QED  BY <1>1, SkipInv DEF RejectMode

\* A packet goes from the accumulator to the end of `decoded'.
LEMMA DecodePacketInv ==
    ASSUME Inv, DecodePacket
    PROVE  Inv'
<1> DEFINE d == Decode(accumulator, consumed)
           len == Len(decoded)
<1>1. /\ TypeOK /\ Split
      /\ consumed \in Nat /\ accumulator \in Seq(Byte) /\ decoded \in Seq(Transaction)
      /\ Len(accumulator) \in Nat /\ len \in Nat
  BY LenProperties DEF Inv, TypeOK
<1>2. /\ parsing /\ parsing' = parsing /\ received' = received
      /\ Len(accumulator) >= PacketBytes
      /\ HasMagic(accumulator) /\ ValidMode(accumulator[3])
      /\ decoded' = Append(decoded, d)
      /\ Erase(PacketBytes)
  BY DEF DecodePacket
<1>3. PacketBytes \in 0..Len(accumulator) /\ PacketBytes \in Nat
  BY <1>1, <1>2, PacketSize
<1>4. /\ accumulator' \in Seq(Byte) /\ consumed' \in Nat
      /\ consumed' = consumed + PacketBytes
      /\ Split'
  BY <1>1, <1>2, <1>3, EraseKeepsSplit
<1>5. d \in Transaction /\ d.at = consumed
  BY <1>1, <1>2, DecodeType DEF Decode
<1>6. FaithfulTo(received, d)
  BY <1>1, <1>2, DecodeIsFaithful
<1> HIDE DEF d
<1>7. /\ decoded' \in Seq(Transaction) /\ Len(decoded') = len + 1
      /\ \A k \in 1..len : decoded'[k] = decoded[k]
      /\ decoded'[len + 1] = d
  BY <1>1, <1>2, <1>5, AppendProperties
<1>8. \A k \in 1..Len(decoded') : k = len + 1 \/ k \in 1..len
  BY <1>1, <1>7
<1>9. TypeOK'
  BY <1>1, <1>2, <1>4, <1>7 DEF TypeOK
<1>10. DecodedAreFrames'
  <2>1. \A k \in 1..len : FaithfulTo(received, decoded[k])
    BY FramesAreFaithful DEF Inv
  <2>2. \A k \in 1..Len(decoded') : FaithfulTo(received', decoded'[k])
    BY <1>2, <1>6, <1>7, <1>8, <2>1
  <2>3. QED  BY <2>2 DEF DecodedAreFrames, FaithfulTo, FrameAt
<1>11. DecodedInOrder'
  <2>1. ASSUME NEW k \in 1..len
        PROVE  decoded[k].at \in Nat /\ decoded[k].at + PacketBytes <= consumed
    <3>1. decoded[k].at \in Nat
      <4>1. decoded[k] \in Transaction
        BY <1>1, ElementOfSeq
      <4>2. QED  BY <4>1 DEF Transaction
    <3>2. QED  BY <3>1 DEF Inv, DecodedInOrder
  <2>2. \A k \in 1..Len(decoded') : decoded'[k].at + PacketBytes <= consumed'
    BY <1>1, <1>3, <1>4, <1>5, <1>7, <1>8, <2>1
  <2>3. ASSUME NEW j \in 1..Len(decoded'), NEW k \in 1..Len(decoded'), j < k
        PROVE  decoded'[j].at + PacketBytes <= decoded'[k].at
    <3>1. j \in 1..len
      BY <1>1, <1>7, <2>3
    <3>2. CASE k = len + 1
      BY <1>5, <1>7, <2>1, <3>1, <3>2
    <3>3. CASE k \in 1..len
      BY <1>7, <2>3, <3>1, <3>3 DEF Inv, DecodedInOrder
    <3>4. QED  BY <1>8, <3>2, <3>3
  <2>4. QED  BY <2>2, <2>3 DEF DecodedInOrder
<1>12. Accounted'
  <2>1. ASSUME NEW at \in 0..(consumed' - 1)
        PROVE  \/ \E k \in 1..Len(decoded') : Covers(decoded'[k], at)
               \/ at + HeaderBytes <= Len(received) /\ ~HeaderAt(at)
    <3>1. CASE at \in 0..(consumed - 1)
      <4>1. CASE \E k \in 1..len : Covers(decoded[k], at)
        <5>1. PICK k \in 1..len : Covers(decoded[k], at)
          BY <4>1
        <5>2. k \in 1..Len(decoded') /\ decoded'[k] = decoded[k]
          BY <1>1, <1>7
        <5>3. QED  BY <5>1, <5>2
      <4>2. QED  BY <3>1, <4>1 DEF Inv, Accounted
    <3>2. CASE at \notin 0..(consumed - 1)
      <4>1. d.at <= at /\ at < d.at + PacketBytes
        BY <1>1, <1>3, <1>4, <1>5, <3>2
      <4>2. len + 1 \in 1..Len(decoded')
        BY <1>1, <1>7
      <4>3. QED  BY <1>7, <4>1, <4>2 DEF Covers
    <3>3. QED  BY <3>1, <3>2
  <2>2. QED  BY <1>2, <2>1 DEF Accounted, Covers, HeaderAt
<1>13. BacklogBounded'
  BY <1>2 DEF BacklogBounded
<1>14. AlignedStaysInSync'
  <2>1. ASSUME Aligned PROVE consumed' = PacketBytes * Len(decoded')
    <3>1. consumed = PacketBytes * len
      BY <2>1 DEF Inv, AlignedStaysInSync
    <3>2. PacketBytes * (len + 1) = PacketBytes * len + PacketBytes
      BY <1>1, <1>3
    <3>3. QED  BY <1>4, <1>7, <3>1, <3>2
  <2>2. Aligned' => Aligned
    BY <1>2 DEF Aligned, ValidMode
  <2>3. QED  BY <2>1, <2>2 DEF AlignedStaysInSync
<1>15. QED  BY <1>4, <1>9, <1>10, <1>11, <1>12, <1>13, <1>14 DEF Inv

\* Leaving the loop: what is left is less than a packet.
LEMMA AwaitBytesInv ==
    ASSUME Inv, AwaitBytes
    PROVE  Inv'
<1>1. /\ accumulator' = accumulator /\ received' = received
      /\ consumed' = consumed /\ decoded' = decoded /\ parsing' = FALSE
  BY DEF AwaitBytes
<1>2. Len(accumulator) \in Nat
  BY LenProperties DEF Inv, TypeOK
<1>3. Len(accumulator) < PacketBytes
  BY <1>2, PacketSize DEF AwaitBytes, HeaderBytes
<1>4. TypeOK' /\ Split' /\ DecodedInOrder'
  BY <1>1 DEF Inv, TypeOK, Split, DecodedInOrder
<1>5. DecodedAreFrames'
  BY <1>1 DEF Inv, DecodedAreFrames, FrameAt
<1>6. Accounted'
  BY <1>1 DEF Inv, Accounted, Covers, HeaderAt
<1>7. BacklogBounded'
  BY <1>1, <1>3 DEF BacklogBounded
<1>8. AlignedStaysInSync'
  BY <1>1 DEF Inv, AlignedStaysInSync, Aligned, ValidMode
<1>9. QED  BY <1>4, <1>5, <1>6, <1>7, <1>8 DEF Inv

\* reset() leaves an empty stream behind.
LEMMA ResetInv ==
    ASSUME Inv, Reset
    PROVE  Inv'
<1>1. /\ accumulator' = <<>> /\ received' = <<>>
      /\ consumed' = 0 /\ decoded' = <<>> /\ parsing' = parsing
  BY DEF Reset
<1>2. Len(accumulator') = 0 /\ Len(received') = 0 /\ Len(decoded') = 0
  BY <1>1
<1>3. TypeOK'
  BY <1>1, EmptySeq DEF Inv, TypeOK
<1>4. Split' /\ DecodedAreFrames' /\ DecodedInOrder' /\ Accounted'
  BY <1>1, <1>2 DEF Split, DecodedAreFrames, DecodedInOrder, Accounted
<1>5. BacklogBounded' /\ AlignedStaysInSync'
  BY <1>1, <1>2, PacketSize DEF BacklogBounded, AlignedStaysInSync
<1>6. QED  BY <1>3, <1>4, <1>5 DEF Inv

LEMMA StutterInv ==
    ASSUME Inv, UNCHANGED vars
    PROVE  Inv'
BY DEF vars, Inv, TypeOK, Split, DecodedAreFrames, FrameAt, DecodedInOrder, Accounted,
       Covers, HeaderAt, BacklogBounded, AlignedStaysInSync, Aligned, ValidMode

LEMMA NextInv == Inv /\ [Next]_vars => Inv'
<1> SUFFICES ASSUME Inv, [Next]_vars PROVE Inv'
  OBVIOUS
<1>1. ASSUME NEW buffer \in Buffers, ParseStream(buffer) PROVE Inv'
  BY <1>1, ParseStreamInv
<1>2. CASE SkipByte
  BY <1>2, SkipByteInv
<1>3. CASE RejectMode
  BY <1>3, RejectModeInv
<1>4. CASE DecodePacket
  BY <1>4, DecodePacketInv
<1>5. CASE AwaitBytes
  BY <1>5, AwaitBytesInv
<1>6. CASE Reset
  BY <1>6, ResetInv
<1>7. CASE UNCHANGED vars
  BY <1>7, StutterInv
<1>8. QED  BY <1>1, <1>2, <1>3, <1>4, <1>5, <1>6, <1>7 DEF Next, LoopTurn

----------------------------------------------------------------------------
(* The theorems.                                                           *)

(***************************************************************************)
(* The strengthened invariant is an invariant of the specification.        *)
(***************************************************************************)
THEOREM InvHolds == Spec => []Inv
BY InitInv, NextInv, PTL DEF Spec

(***************************************************************************)
(* Type correctness: every decoded command word is a uint16_t, whatever    *)
(* bytes arrive.                                                           *)
(***************************************************************************)
THEOREM TypeCorrect == Spec => []TypeOK
<1>1. Inv => TypeOK
  BY DEF Inv
<1>2. QED  BY <1>1, InvHolds, PTL

(***************************************************************************)
(* Soundness of parseStream: what it reports is a packet of the stream.    *)
(***************************************************************************)
THEOREM ReportsOnlyFrames == Spec => []DecodedAreFrames
<1>1. Inv => DecodedAreFrames
  BY DEF Inv
<1>2. QED  BY <1>1, InvHolds, PTL

(***************************************************************************)
(* What parseStream reports is in stream order and without overlap.        *)
(***************************************************************************)
THEOREM ReportsInOrder == Spec => []DecodedInOrder
<1>1. Inv => DecodedInOrder
  BY DEF Inv
<1>2. QED  BY <1>1, InvHolds, PTL

(***************************************************************************)
(* The accumulator holds less than a packet between calls of parseStream.  *)
(***************************************************************************)
THEOREM AccumulatorBounded == Spec => []BacklogBounded
<1>1. Inv => BacklogBounded
  BY DEF Inv
<1>2. QED  BY <1>1, InvHolds, PTL

(***************************************************************************)
(* The variant behind ParseTerminates: a turn of parseStream's loop that   *)
(* does not leave it erases at least one byte of the accumulator, and only *)
(* what it erases counts as consumed.                                      *)
(***************************************************************************)
THEOREM TurnsErase ==
    Spec => [][parsing /\ parsing' =>
                   /\ Len(accumulator') < Len(accumulator)
                   /\ consumed' - consumed = Len(accumulator) - Len(accumulator')]_vars
<1>1. Inv /\ [Next]_vars =>
          [parsing /\ parsing' =>
               /\ Len(accumulator') < Len(accumulator)
               /\ consumed' - consumed = Len(accumulator) - Len(accumulator')]_vars
  <2> SUFFICES ASSUME Inv, Next, parsing, parsing'
               PROVE  /\ Len(accumulator') < Len(accumulator)
                      /\ consumed' - consumed = Len(accumulator) - Len(accumulator')
    OBVIOUS
  <2>1. TypeOK /\ Split /\ Len(accumulator) \in Nat /\ consumed \in Nat
    BY LenProperties DEF Inv, TypeOK
  <2>2. PICK n \in 1..Len(accumulator) : Erase(n) /\ UNCHANGED received
    <3>1. CASE SkipByte \/ RejectMode
      BY <2>1, <3>1, PacketSize DEF SkipByte, RejectMode, HeaderBytes
    <3>2. CASE DecodePacket
      BY <2>1, <3>2, PacketSize DEF DecodePacket
    <3>3. QED  BY <3>1, <3>2 DEF Next, LoopTurn, ParseStream, Reset, AwaitBytes
  <2>3. n \in 0..Len(accumulator)
    BY <2>1
  <2>4. consumed' = consumed + n /\ Len(accumulator') = Len(accumulator) - n
    BY <2>1, <2>2, <2>3, EraseKeepsSplit
  <2>5. QED  BY <2>1, <2>3, <2>2, <2>4
<1>2. QED  BY <1>1, InvHolds, PTL DEF Spec

(***************************************************************************)
(* On a stream of packets laid end to end parseStream never skips a byte.  *)
(***************************************************************************)
THEOREM StaysInSync == Spec => []AlignedStaysInSync
<1>1. Inv => AlignedStaysInSync
  BY DEF Inv
<1>2. QED  BY <1>1, InvHolds, PTL

(***************************************************************************)
(* Completeness of parseStream: when it has returned, every packet of the  *)
(* stream has been reported or starts inside one that has.  A packet that  *)
(* starts in the erased part is accounted for; one that starts in the      *)
(* accumulator would need more bytes than the backlog has.                 *)
(***************************************************************************)
THEOREM ReportsEveryFrame == Spec => []NoFrameMissed
<1>1. Inv => NoFrameMissed
  <2> SUFFICES ASSUME Inv, ~parsing, NEW at \in 0..Len(received), FrameAt(at)
               PROVE  \E k \in 1..Len(decoded) : Covers(decoded[k], at)
    BY DEF NoFrameMissed
  <2>1. /\ consumed \in Nat /\ Len(accumulator) \in Nat /\ Len(received) \in Nat
        /\ Len(received) = consumed + Len(accumulator)
        /\ Len(accumulator) < PacketBytes
    BY LenProperties DEF Inv, TypeOK, Split, BacklogBounded
  <2>2. at + PacketBytes <= Len(received) /\ HeaderAt(at)
    BY DEF FrameAt, HeaderAt
  <2>3. at \in 0..(consumed - 1)
    BY <2>1, <2>2, PacketSize
  <2>4. QED  BY <2>2, <2>3 DEF Inv, Accounted
<1>2. QED  BY <1>1, InvHolds, PTL
============================================================================
