-------------------------- MODULE BusMonitorProofs --------------------------
(***************************************************************************)
(* The life cycle of the bus monitor and the ownership of its parser, for  *)
(* every traffic, payload size, buffer size and filter, and that the       *)
(* monitor drives its parser only as ProtocolParser allows, so that the    *)
(* theorems about the parser hold inside the monitor.                      *)
(*                                                                         *)
(* IdleAgrees is not inductive: it says nothing of the moments at which    *)
(* start() or stop() is under way.  Phases says, for each place the GUI    *)
(* thread can be in, what the flags, the handle and the two threads are.   *)
(***************************************************************************)
EXTENDS BusMonitor, SequenceTheorems, WellFoundedInduction, TLAPS

\* The parser's theorems, for the buffers the monitor's parser is given.
Proved == INSTANCE ProtocolParserProofs
              WITH Buffers <- {ReadBytes(k) : k \in 1..Len(Traffic)}

----------------------------------------------------------------------------
(* The phases of the life cycle.                                           *)

Stopped ==
    /\ ~active /\ ~shutdownRequested /\ ~running
    /\ handle # "open"
    /\ capture = "none" /\ monitor = "none"

Monitoring ==
    /\ active /\ ~shutdownRequested /\ running
    /\ handle = "open"
    /\ capture \in {"check", "dispatch"}
    /\ monitor \in Working \ {"leaving", "left"}

Starting ==
    \/ gui \in {"signal", "joinCapture", "joinMonitor", "open"} /\ Stopped
    \/ /\ gui = "spawn"
       /\ ~active /\ ~shutdownRequested /\ running
       /\ handle = "open"
       /\ capture \in {"check", "dispatch"} /\ monitor = "none"

Stopping ==
    /\ monitor \in Working \cup {"exited"}
    /\ \/ /\ gui = "signal"
          /\ running /\ handle = "open" /\ capture \in {"check", "dispatch"}
       \/ /\ gui = "joinCapture"
          /\ ~running /\ handle = "open" /\ capture \in {"check", "dispatch", "exited"}
       \/ /\ gui = "joinMonitor"
          /\ ~running /\ handle = "null" /\ capture = "none"

Phases ==
    \/ op = "none" /\ gui \in {"idle", "storeSa", "enable"} /\ (Stopped \/ Monitoring)
    \/ op = "start" /\ Starting
    \/ op = "stop" /\ Stopping

\* Where the monitor thread is inside parseStream.
InParser == {"parse"} \cup Callback

ParserPhase == parsing <=> monitor \in InParser

LifeTypes ==
    /\ op \in {"none", "start", "stop"}
    /\ gui \in GuiAt
    /\ active \in BOOLEAN /\ shutdownRequested \in BOOLEAN /\ running \in BOOLEAN
    /\ handle \in {"null", "open", "closed"}
    /\ capture \in CaptureAt
    /\ monitor \in MonitorAt

LifeInv == LifeTypes /\ Phases /\ ParserPhase

LEMMA LifeInit == Init => LifeInv
BY DEF Init, LifeInv, LifeTypes, Phases, Stopped, ParserPhase, InParser, Callback,
       GuiAt, CaptureAt, MonitorAt, Parser!Init

LEMMA LifeStep == LifeInv /\ [Next]_vars => LifeInv'
<1> SUFFICES ASSUME LifeInv, [Next]_vars PROVE LifeInv'
  OBVIOUS
<1> USE DEF LifeInv, LifeTypes, Phases, Stopped, Monitoring, Starting, Stopping,
            ParserPhase, InParser, Callback, Working, GuiAt, CaptureAt, MonitorAt
<1>1. CASE StartCall
  BY <1>1 DEF StartCall, parserVars
<1>2. CASE StopCall
  BY <1>2 DEF StopCall, parserVars
<1>3. CASE Signal
  BY <1>3 DEF Signal, parserVars
<1>4. CASE JoinCapture
  BY <1>4 DEF JoinCapture, parserVars
<1>5. CASE StopReturns
  BY <1>5 DEF StopReturns, parserVars
<1>6. CASE ResetSession
  BY <1>6 DEF ResetSession, Parser!Reset
<1>7. CASE OpenFails
  BY <1>7 DEF OpenFails, parserVars
<1>8. CASE FilterSetupFails
  BY <1>8 DEF FilterSetupFails, parserVars
<1>9. CASE SniffingStarts
  BY <1>9 DEF SniffingStarts, parserVars
<1>10. CASE SpawnMonitor
  BY <1>10 DEF SpawnMonitor, parserVars
<1>11. ASSUME NEW c \in Criteria, ClickTree(c) PROVE LifeInv'
  BY <1>11 DEF ClickTree, parserVars
<1>12. CASE StoreSa
  BY <1>12 DEF StoreSa, parserVars
<1>13. CASE EnableFilter
  BY <1>13 DEF EnableFilter, parserVars
<1>14. CASE ClearFilter
  BY <1>14 DEF ClearFilter, lifeVars, parserVars
<1>15. CASE CaptureCheck
  BY <1>15 DEF CaptureCheck, lifeVars, parserVars
<1>16. CASE DispatchReturns
  BY <1>16 DEF DispatchReturns, lifeVars, parserVars
<1>17. CASE PacketHandler
  BY <1>17 DEF PacketHandler, lifeVars, parserVars
<1>18. CASE SegmentUnseen
  BY <1>18 DEF SegmentUnseen, lifeVars, parserVars
<1>19. CASE MonitorCheck
  BY <1>19 DEF MonitorCheck, Goto, lifeVars, parserVars
<1>20. CASE NothingToRead
  BY <1>20 DEF NothingToRead, Goto, lifeVars, parserVars
<1>21. CASE ReceiveData
  BY <1>21 DEF ReceiveData, Goto, lifeVars, Parser!ParseStream
<1>22. CASE ParseTurn
  BY <1>22 DEF ParseTurn, Goto, lifeVars, Parser!SkipByte, Parser!RejectMode,
               Parser!DecodePacket, Parser!AwaitBytes
<1>23. CASE FilterRead
  BY <1>23 DEF FilterRead, Goto, lifeVars, parserVars
<1>24. CASE DropFiltered
  BY <1>24 DEF DropFiltered, Goto, lifeVars, parserVars
<1>25. CASE AppendPending
  BY <1>25 DEF AppendPending, Goto, lifeVars, parserVars
<1>26. CASE Flush
  BY <1>26 DEF Flush, Goto, lifeVars, parserVars
<1>27. CASE FlushLater
  BY <1>27 DEF FlushLater, Goto, lifeVars, parserVars
<1>28. CASE MonitorLeaving
  BY <1>28 DEF MonitorLeaving, Goto, parserVars
<1>29. CASE MonitorExits
  BY <1>29 DEF MonitorExits, Goto, parserVars
<1>30. CASE Tick
  BY <1>30 DEF Tick, lifeVars, parserVars
<1>31. CASE UNCHANGED vars
  BY <1>31 DEF vars, lifeVars, parserVars
<1>32. QED
  BY <1>1, <1>2, <1>3, <1>4, <1>5, <1>6, <1>7, <1>8, <1>9, <1>10, <1>11, <1>12, <1>13,
     <1>14, <1>15, <1>16, <1>17, <1>18, <1>19, <1>20, <1>21, <1>22, <1>23, <1>24, <1>25,
     <1>26, <1>27, <1>28, <1>29, <1>30, <1>31
     DEF Next, Lifecycle, FilterStep, CaptureStep, MonitorStep

----------------------------------------------------------------------------
(* The queue, and the parser the monitor thread drives.                    *)

QueueTypes ==
    /\ payloadQueue \in Seq(1..Len(Traffic))
    /\ taken \in Seq(1..Len(Traffic))
    /\ nextSegment \in 1..(Len(Traffic) + 1)
    /\ first \in 1..(Len(Traffic) + 1)
    /\ session \in Nat
    /\ buffer \in 0..Len(Traffic)
    /\ monitor \in InParser => buffer # 0

LEMMA TrafficLength == Len(Traffic) \in Nat
BY TrafficAssumption, LenProperties

\* A payload, or as much of it as receiveData copies, is a buffer of bytes.
LEMMA ParserBuffersAreBytes ==
    {ReadBytes(k) : k \in 1..Len(Traffic)} \subseteq Seq(Byte)
<1> SUFFICES ASSUME NEW k \in 1..Len(Traffic) PROVE ReadBytes(k) \in Seq(Byte)
  OBVIOUS
<1>1. Traffic[k] \in Seq(Byte)
  BY TrafficAssumption, ElementOfSeq
<1> DEFINE n == IF Len(Traffic[k]) < ReadMax THEN Len(Traffic[k]) ELSE ReadMax
<1>2. n \in Nat /\ n <= Len(Traffic[k])
  BY <1>1, LenProperties, ReadMaxAssumption
<1>3. \A i \in 1..n : Traffic[k][i] \in Byte
  BY <1>1, <1>2, LenProperties, ElementOfSeq
<1> HIDE DEF n
<1>4. SubSeq(Traffic[k], 1, n) \in Seq(Byte)
  BY <1>2, <1>3, SubSeqProperties
<1>5. QED  BY <1>4 DEF ReadBytes, n

LEMMA QueueInit == Init => QueueTypes
BY TrafficLength, EmptySeq DEF Init, QueueTypes, InParser, Callback

\* The steps that touch the queue, the parser's buffer or the counters.
LEMMA QueueSteps ==
    ASSUME [Next]_vars
    PROVE  \/ ResetSession \/ PacketHandler \/ SegmentUnseen \/ ReceiveData
           \/ /\ UNCHANGED <<payloadQueue, taken, nextSegment, first, session, buffer>>
              /\ monitor' \in InParser => monitor \in InParser
BY DEF Next, vars, Lifecycle, FilterStep, CaptureStep, MonitorStep, busVars, lifeVars,
       StartCall, StopCall, Signal, JoinCapture, StopReturns, OpenFails, FilterSetupFails,
       SniffingStarts, SpawnMonitor, ClickTree, StoreSa, EnableFilter, ClearFilter,
       CaptureCheck, DispatchReturns, MonitorCheck, NothingToRead, ParseTurn, FilterRead,
       DropFiltered, AppendPending, Flush, FlushLater, MonitorLeaving, MonitorExits, Tick,
       Goto, InParser, Callback

LEMMA QueueStep == QueueTypes /\ [Next]_vars => QueueTypes'
<1> SUFFICES ASSUME QueueTypes, [Next]_vars PROVE QueueTypes'
  OBVIOUS
<1>1. CASE ResetSession
  BY <1>1 DEF ResetSession, QueueTypes, InParser, Callback
<1>2. CASE PacketHandler
  <2>1. nextSegment \in 1..Len(Traffic) /\ nextSegment + 1 \in 1..(Len(Traffic) + 1)
    BY <1>2, TrafficLength DEF PacketHandler, QueueTypes
  <2>2. /\ payloadQueue' \in Seq(1..Len(Traffic)) /\ taken' \in Seq(1..Len(Traffic))
    BY <1>2, <2>1, AppendProperties DEF PacketHandler, QueueTypes
  <2>3. QED  BY <1>2, <2>1, <2>2 DEF PacketHandler, QueueTypes, lifeVars
<1>3. CASE SegmentUnseen
  <2>1. nextSegment' \in 1..(Len(Traffic) + 1)
    BY <1>3, TrafficLength DEF SegmentUnseen, QueueTypes
  <2>2. QED  BY <1>3, <2>1 DEF SegmentUnseen, QueueTypes, lifeVars
<1>4. CASE ReceiveData
  <2>1. /\ payloadQueue' \in Seq(1..Len(Traffic)) /\ buffer' \in 1..Len(Traffic)
    BY <1>4, HeadTailProperties DEF ReceiveData, QueueTypes
  <2>2. buffer' \in 0..Len(Traffic) /\ buffer' # 0
    BY <2>1, TrafficLength
  <2>3. QED  BY <1>4, <2>1, <2>2 DEF ReceiveData, QueueTypes, lifeVars
<1>5. CASE /\ UNCHANGED <<payloadQueue, taken, nextSegment, first, session, buffer>>
           /\ monitor' \in InParser => monitor \in InParser
  BY <1>5 DEF QueueTypes, InParser, Callback
<1>6. QED  BY <1>1, <1>2, <1>3, <1>4, <1>5, QueueSteps

\* The steps that touch the parser.
LEMMA ParserSteps ==
    ASSUME [Next]_vars
    PROVE  \/ ResetSession \/ ReceiveData \/ ParseTurn
           \/ UNCHANGED parserVars
BY DEF Next, vars, Lifecycle, FilterStep, CaptureStep, MonitorStep,
       StartCall, StopCall, Signal, JoinCapture, StopReturns, OpenFails, FilterSetupFails,
       SniffingStarts, SpawnMonitor, ClickTree, StoreSa, EnableFilter, ClearFilter,
       CaptureCheck, DispatchReturns, PacketHandler, SegmentUnseen, MonitorCheck,
       NothingToRead, FilterRead, DropFiltered, AppendPending, Flush, FlushLater,
       MonitorLeaving, MonitorExits, Tick

\* Every step of the monitor is a step of its parser or leaves it alone.
LEMMA ParserStepRefines ==
    ASSUME QueueTypes, [Next]_vars
    PROVE  [Parser!Next]_(Parser!vars)
<1>1. CASE ResetSession
  BY <1>1 DEF ResetSession, Parser!Next
<1>2. CASE ReceiveData
  <2>1. buffer' \in 1..Len(Traffic)
    BY <1>2, HeadTailProperties DEF ReceiveData, QueueTypes
  <2>2. Parser!ParseStream(ReadBytes(buffer'))
    BY <1>2 DEF ReceiveData
  <2>3. QED  BY <2>1, <2>2 DEF Parser!Next
<1>3. CASE ParseTurn
  BY <1>3 DEF ParseTurn, Parser!Next, Parser!LoopTurn
<1>4. CASE UNCHANGED parserVars
  BY <1>4 DEF parserVars, Parser!vars
<1>5. QED  BY <1>1, <1>2, <1>3, <1>4, ParserSteps

----------------------------------------------------------------------------
(* The parser's theorems are about the instance Proved; the monitor is     *)
(* written with the instance Parser.  The two are the same specification.  *)

LEMMA SamePacket ==
    /\ Parser!PacketBytes = Proved!PacketBytes /\ Parser!HeaderBytes = Proved!HeaderBytes
    /\ \A bytes : /\ Parser!HasMagic(bytes) <=> Proved!HasMagic(bytes)
                  /\ \A at : Parser!Decode(bytes, at) = Proved!Decode(bytes, at)
    /\ \A mode : Parser!ValidMode(mode) <=> Proved!ValidMode(mode)
<1>1. /\ Parser!PacketBytes = Proved!PacketBytes /\ Parser!HeaderBytes = Proved!HeaderBytes
  BY DEF Parser!PacketBytes, Proved!PacketBytes, Parser!PayloadBytes, Proved!PayloadBytes,
         Parser!HeaderBytes, Proved!HeaderBytes
<1>2. \A bytes : Parser!HasMagic(bytes) <=> Proved!HasMagic(bytes)
  BY DEF Parser!HasMagic, Proved!HasMagic, Parser!Magic0, Proved!Magic0, Parser!Magic1,
         Proved!Magic1
<1>3. \A mode : Parser!ValidMode(mode) <=> Proved!ValidMode(mode)
  BY DEF Parser!ValidMode, Proved!ValidMode, Parser!ModeRx, Proved!ModeRx, Parser!ModeTx,
         Proved!ModeTx
<1>4. \A bytes, at : Parser!Decode(bytes, at) = Proved!Decode(bytes, at)
  BY DEF Parser!Decode, Proved!Decode, Parser!CmdWord, Proved!CmdWord, Parser!OrLow2,
         Proved!OrLow2, Parser!OrBit, Proved!OrBit, Parser!ModeTx, Proved!ModeTx,
         Parser!WordCount, Proved!WordCount, Parser!PayloadWord, Proved!PayloadWord,
         Parser!HeaderBytes, Proved!HeaderBytes
<1>5. QED  BY <1>1, <1>2, <1>3, <1>4

LEMMA SameParser ==
    /\ Parser!Init <=> Proved!Init
    /\ Parser!Next <=> Proved!Next
    /\ Parser!vars = Proved!vars
    /\ Parser!TypeOK <=> Proved!TypeOK
<1>1. Parser!Init <=> Proved!Init
  BY DEF Parser!Init, Proved!Init
<1>2. \A buffered : Parser!ParseStream(buffered) <=> Proved!ParseStream(buffered)
  BY DEF Parser!ParseStream, Proved!ParseStream
<1>3. Parser!vars = Proved!vars
  BY DEF Parser!vars, Proved!vars
<1>4. \A n : Parser!Erase(n) <=> Proved!Erase(n)
  BY DEF Parser!Erase, Proved!Erase
<1>5. /\ Parser!SkipByte <=> Proved!SkipByte
      /\ Parser!RejectMode <=> Proved!RejectMode
      /\ Parser!AwaitBytes <=> Proved!AwaitBytes
  BY <1>4, SamePacket DEF Parser!SkipByte, Proved!SkipByte, Parser!RejectMode,
     Proved!RejectMode, Parser!AwaitBytes, Proved!AwaitBytes
<1>6. Parser!DecodePacket <=> Proved!DecodePacket
  BY <1>4, SamePacket DEF Parser!DecodePacket, Proved!DecodePacket
<1>7. Parser!Reset <=> Proved!Reset
  BY DEF Parser!Reset, Proved!Reset
<1>8. Parser!Next <=> Proved!Next
  BY <1>2, <1>5, <1>6, <1>7 DEF Parser!Next, Proved!Next, Parser!LoopTurn, Proved!LoopTurn
<1>9. Parser!TypeOK <=> Proved!TypeOK
  BY DEF Parser!TypeOK, Proved!TypeOK, Parser!Byte, Proved!Byte, Parser!Transaction,
         Proved!Transaction, Parser!Word, Proved!Word, Parser!MaxByte, Proved!MaxByte,
         Parser!MaxWord, Proved!MaxWord
<1>10. QED  BY <1>1, <1>3, <1>8, <1>9

\* The parser's invariant, inside the monitor.
LEMMA ParserInvInit == Init => Proved!Inv
<1>1. MaxWords \in Nat \ {0}
  BY MaxWordsAssumption
<1>2. {ReadBytes(k) : k \in 1..Len(Traffic)} \subseteq Seq(Proved!Byte)
  BY ParserBuffersAreBytes DEF Byte, Proved!Byte, MaxByte, Proved!MaxByte
<1>3. Init => Proved!Init
  BY SameParser DEF Init
<1>4. QED  BY <1>1, <1>2, <1>3, Proved!InitInv

LEMMA ParserInvStep == QueueTypes /\ Proved!Inv /\ [Next]_vars => Proved!Inv'
<1>1. MaxWords \in Nat \ {0}
  BY MaxWordsAssumption
<1>2. {ReadBytes(k) : k \in 1..Len(Traffic)} \subseteq Seq(Proved!Byte)
  BY ParserBuffersAreBytes DEF Byte, Proved!Byte, MaxByte, Proved!MaxByte
<1>3. QueueTypes /\ [Next]_vars => [Proved!Next]_(Proved!vars)
  BY ParserStepRefines, SameParser DEF Parser!vars, Proved!vars
<1>4. QED  BY <1>1, <1>2, <1>3, Proved!NextInv

----------------------------------------------------------------------------
(* The pending and the shown messages, and the filter.                     *)

\* The RT/SA pairs of a sequence of messages.
KeysOf(ms) == {<<RtOf(ms[i].cmd1), SaOf(ms[i].cmd1)>> : i \in 1..Len(ms)}

DataInv ==
    /\ pending \in Seq(Message) /\ relayed \in Seq(Message)
    /\ flushDue \in BOOLEAN
    /\ pendingKeys = KeysOf(pending) /\ relayedKeys = KeysOf(relayed)
    /\ monitor \in Callback => decoded # <<>>

FilterTypes ==
    /\ filterEnabled \in BOOLEAN
    /\ filterRt \in Criterion /\ filterSa \in Criterion
    /\ want \in Filter /\ chosen \in Filter /\ seen \subseteq Filter
    /\ filterChanges \in Nat

LEMMA KeysOfAppend ==
    ASSUME NEW ms \in Seq(Message), NEW m \in Message
    PROVE  KeysOf(Append(ms, m)) = KeysOf(ms) \cup {<<RtOf(m.cmd1), SaOf(m.cmd1)>>}
<1>1. /\ Len(Append(ms, m)) = Len(ms) + 1 /\ Len(ms) \in Nat
      /\ \A i \in 1..Len(ms) : Append(ms, m)[i] = ms[i]
      /\ Append(ms, m)[Len(ms) + 1] = m
  BY AppendProperties, LenProperties
<1>2. 1..(Len(ms) + 1) = 1..Len(ms) \cup {Len(ms) + 1}
  BY <1>1
<1>3. QED  BY <1>1, <1>2 DEF KeysOf

LEMMA KeysOfConcat ==
    ASSUME NEW ms \in Seq(Message), NEW ns \in Seq(Message)
    PROVE  KeysOf(ms \o ns) = KeysOf(ms) \cup KeysOf(ns)
<1> DEFINE key(m) == <<RtOf(m.cmd1), SaOf(m.cmd1)>>
<1>1. /\ Len(ms \o ns) = Len(ms) + Len(ns) /\ Len(ms) \in Nat /\ Len(ns) \in Nat
      /\ \A i \in 1..(Len(ms) + Len(ns)) :
             (ms \o ns)[i] = IF i <= Len(ms) THEN ms[i] ELSE ns[i - Len(ms)]
  BY ConcatProperties, LenProperties
<1>2. ASSUME NEW k \in KeysOf(ms \o ns) PROVE k \in KeysOf(ms) \cup KeysOf(ns)
  <2>1. PICK i \in 1..Len(ms \o ns) : k = key((ms \o ns)[i])
    BY <1>2 DEF KeysOf
  <2>2. CASE i <= Len(ms)
    <3>1. i \in 1..Len(ms) /\ (ms \o ns)[i] = ms[i]
      BY <1>1, <2>1, <2>2
    <3>2. QED  BY <2>1, <3>1 DEF KeysOf
  <2>3. CASE ~(i <= Len(ms))
    <3>1. i - Len(ms) \in 1..Len(ns) /\ (ms \o ns)[i] = ns[i - Len(ms)]
      BY <1>1, <2>1, <2>3
    <3>2. QED  BY <2>1, <3>1 DEF KeysOf
  <2>4. QED  BY <2>2, <2>3
<1>3. ASSUME NEW k \in KeysOf(ms) PROVE k \in KeysOf(ms \o ns)
  <2>1. PICK i \in 1..Len(ms) : k = key(ms[i])
    BY <1>3 DEF KeysOf
  <2>2. i \in 1..Len(ms \o ns) /\ (ms \o ns)[i] = ms[i]
    BY <1>1, <2>1
  <2>3. QED  BY <2>1, <2>2 DEF KeysOf
<1>4. ASSUME NEW k \in KeysOf(ns) PROVE k \in KeysOf(ms \o ns)
  <2>1. PICK i \in 1..Len(ns) : k = key(ns[i])
    BY <1>4 DEF KeysOf
  <2>2. /\ Len(ms) + i \in 1..Len(ms \o ns)
        /\ (ms \o ns)[Len(ms) + i] = ns[i]
    <3>1. Len(ms) + i \in 1..(Len(ms) + Len(ns)) /\ ~(Len(ms) + i <= Len(ms))
          /\ (Len(ms) + i) - Len(ms) = i
      BY <1>1, <2>1
    <3>2. QED  BY <1>1, <3>1
  <2>3. QED  BY <2>1, <2>2 DEF KeysOf
<1>5. QED  BY <1>2, <1>3, <1>4

LEMMA FieldRanges ==
    ASSUME NEW cmd \in Nat
    PROVE  RtOf(cmd) \in 0..31 /\ SaOf(cmd) \in 0..31
<1>1. cmd \div 2048 \in Nat /\ cmd \div 32 \in Nat
  BY SMT
<1>2. (cmd \div 2048) % 32 \in 0..31 /\ (cmd \div 32) % 32 \in 0..31
  BY <1>1, SMT
<1>3. QED  BY <1>2 DEF RtOf, SaOf

LEMMA KeysAreKeys ==
    ASSUME NEW ms \in Seq(Message)
    PROVE  KeysOf(ms) \subseteq Key
<1> SUFFICES ASSUME NEW i \in 1..Len(ms)
             PROVE  RtOf(ms[i].cmd1) \in 0..31 /\ SaOf(ms[i].cmd1) \in 0..31
  BY DEF KeysOf, Key
<1>1. ms[i] \in Message
  BY ElementOfSeq
<1>2. ms[i].cmd1 \in Word
  BY <1>1 DEF Message
<1>3. ms[i].cmd1 \in Nat
  <2>1. MaxWord \in Nat
    BY DEF MaxWord
  <2>2. QED  BY <1>2, <2>1 DEF Word
<1>4. QED  BY <1>3, FieldRanges

LEMMA DataInit == Init => DataInv
<1> SUFFICES ASSUME Init PROVE DataInv
  OBVIOUS
<1>1. KeysOf(<<>>) = {}
  BY DEF KeysOf
<1>2. QED  BY <1>1, EmptySeq DEF Init, DataInv, Callback

\* The steps that touch the messages or the end of the callback's list.
LEMMA DataSteps ==
    ASSUME [Next]_vars
    PROVE  \/ ResetSession \/ ReceiveData \/ ParseTurn \/ AppendPending \/ Flush \/ Tick
           \/ /\ UNCHANGED <<pending, pendingKeys, relayed, relayedKeys, flushDue, decoded>>
              /\ monitor' \in Callback => monitor \in Callback
BY DEF Next, vars, dataVars, parserVars, Lifecycle, FilterStep, CaptureStep, MonitorStep,
       lifeVars, StartCall, StopCall, Signal, JoinCapture, StopReturns, OpenFails,
       FilterSetupFails, SniffingStarts, SpawnMonitor, ClickTree, StoreSa, EnableFilter,
       ClearFilter, CaptureCheck, DispatchReturns, PacketHandler, SegmentUnseen,
       MonitorCheck, NothingToRead, FilterRead, DropFiltered, FlushLater, MonitorLeaving,
       MonitorExits, Goto, Callback

\* The transaction in the callback has a place and a command word.
LEMMA TransType ==
    ASSUME Parser!TypeOK, decoded # <<>>
    PROVE  Trans.at \in Nat /\ Trans.cmd1 \in Word
<1>1. decoded \in Seq(Parser!Transaction)
  BY DEF Parser!TypeOK
<1>2. Len(decoded) \in 1..Len(decoded)
  BY <1>1, EmptySeq, LenProperties
<1>3. Trans \in Parser!Transaction
  BY <1>1, <1>2, ElementOfSeq DEF Trans
<1>4. Parser!MaxWord = MaxWord
  BY DEF Parser!MaxWord, MaxWord
<1>5. Parser!Word = Word
  BY <1>4 DEF Parser!Word, Word
<1>6. QED  BY <1>3, <1>5 DEF Parser!Transaction

\* A decoded packet makes the list of transactions nonempty.
LEMMA DecodedGrows ==
    ASSUME Parser!TypeOK, Parser!DecodePacket
    PROVE  decoded' # <<>>
<1>1. decoded' = Append(decoded, Parser!Decode(accumulator, consumed))
  BY DEF Parser!DecodePacket
<1>2. decoded \in Seq(Parser!Transaction)
  BY DEF Parser!TypeOK
<1>3. Len(decoded') = Len(decoded) + 1 /\ Len(decoded) \in Nat
  BY <1>1, <1>2, LenProperties
<1>4. QED  BY <1>3

LEMMA DataStep ==
    ASSUME DataInv, QueueTypes, LifeTypes, Parser!TypeOK, [Next]_vars
    PROVE  DataInv'
<1>1. CASE ResetSession
  <2>1. KeysOf(<<>>) = {}
    BY DEF KeysOf
  <2>2. QED  BY <1>1, <2>1, EmptySeq DEF ResetSession, DataInv, Callback, KeysOf
<1>2. CASE ReceiveData
  BY <1>2 DEF ReceiveData, Goto, dataVars, DataInv, Callback, KeysOf
<1>3. CASE ParseTurn
  <2>1. UNCHANGED dataVars
    BY <1>3 DEF ParseTurn
  <2>2. monitor' \in Callback => decoded' # <<>>
    <3>1. CASE (Parser!SkipByte \/ Parser!RejectMode) /\ UNCHANGED <<monitor, seen>>
      BY <1>3, <3>1 DEF ParseTurn, Callback
    <3>2. CASE Parser!DecodePacket
      BY <3>2, DecodedGrows
    <3>3. CASE Parser!AwaitBytes /\ Goto("flush")
      BY <3>3 DEF Goto, Callback
    <3>4. QED  BY <1>3, <3>1, <3>2, <3>3 DEF ParseTurn
  <2>3. QED  BY <2>1, <2>2 DEF dataVars, DataInv, KeysOf
<1>4. CASE AppendPending
  <2> DEFINE m == [session |-> session, segment |-> buffer,
                   at |-> Trans.at, cmd1 |-> Trans.cmd1]
  <2>1. monitor \in Callback /\ monitor \in InParser
    BY <1>4 DEF AppendPending, Callback, InParser
  <2>2. Trans.at \in Nat /\ Trans.cmd1 \in Word
    BY <2>1, TransType DEF DataInv
  <2>3. session \in Nat /\ buffer \in 1..Len(Traffic)
    BY <2>1, TrafficLength DEF QueueTypes
  <2>4. m \in Message
    BY <2>2, <2>3 DEF Message
  <2>5. pending' = Append(pending, m) /\ pendingKeys' = pendingKeys \cup {<<RtOf(m.cmd1), SaOf(m.cmd1)>>}
    BY <1>4 DEF AppendPending
  <2> HIDE DEF m
  <2>6. pending' \in Seq(Message) /\ pendingKeys' = KeysOf(pending')
    BY <2>4, <2>5, AppendProperties, KeysOfAppend DEF DataInv
  <2>7. UNCHANGED <<flushDue, relayed, relayedKeys>> /\ monitor' \notin Callback
    BY <1>4 DEF AppendPending, Goto, Callback
  <2>8. QED  BY <2>6, <2>7 DEF DataInv, KeysOf
<1>5. CASE Flush
  <2>1. /\ relayed' = relayed \o pending /\ relayedKeys' = relayedKeys \cup pendingKeys
        /\ pending' = <<>> /\ pendingKeys' = {} /\ flushDue' = FALSE
        /\ monitor' \notin Callback
    BY <1>5 DEF Flush, Goto, Callback
  <2>2. relayed' \in Seq(Message) /\ relayedKeys' = KeysOf(relayed')
    BY <2>1, ConcatProperties, KeysOfConcat DEF DataInv
  <2>3. KeysOf(<<>>) = {}
    BY DEF KeysOf
  <2>4. pending' \in Seq(Message) /\ pendingKeys' = KeysOf(pending')
    BY <2>1, <2>3, EmptySeq
  <2>5. QED  BY <2>1, <2>2, <2>4 DEF DataInv
<1>6. CASE Tick
  BY <1>6 DEF Tick, DataInv, KeysOf, parserVars
<1>7. CASE /\ UNCHANGED <<pending, pendingKeys, relayed, relayedKeys, flushDue, decoded>>
           /\ monitor' \in Callback => monitor \in Callback
  BY <1>7 DEF DataInv, KeysOf, Callback
<1>8. QED  BY <1>1, <1>2, <1>3, <1>4, <1>5, <1>6, <1>7, DataSteps

LEMMA NoFilterType == -1 \in Criterion /\ NoFilter \in Filter
<1>1. -1 \in Criterion
  BY DEF Criterion
<1>2. QED  BY <1>1 DEF NoFilter, Filter

LEMMA FilterInit == Init => FilterTypes
<1> SUFFICES ASSUME Init PROVE FilterTypes
  OBVIOUS
<1>1. filterEnabled \in BOOLEAN /\ seen \subseteq Filter
  BY Zenon DEF Init
<1>2. filterChanges \in Nat
  BY DEF Init
<1>3. filterRt \in Criterion /\ filterSa \in Criterion /\ want \in Filter /\ chosen \in Filter
  BY NoFilterType, Zenon DEF Init
<1>4. QED  BY <1>1, <1>2, <1>3 DEF FilterTypes

\* The steps that touch the filter.
LEMMA FilterSteps ==
    ASSUME [Next]_vars
    PROVE  \/ \E c \in Criteria : ClickTree(c)
           \/ StoreSa \/ EnableFilter \/ ClearFilter \/ ParseTurn
           \/ UNCHANGED <<filterVars, seen>>
BY DEF Next, vars, Lifecycle, FilterStep, CaptureStep, MonitorStep,
       StartCall, StopCall, Signal, JoinCapture, StopReturns, ResetSession, OpenFails,
       FilterSetupFails, SniffingStarts, SpawnMonitor, CaptureCheck, DispatchReturns,
       PacketHandler, SegmentUnseen, MonitorCheck, NothingToRead, ReceiveData, FilterRead,
       DropFiltered, AppendPending, Flush, FlushLater, MonitorLeaving, MonitorExits, Tick

LEMMA FilterTypesStep == FilterTypes /\ [Next]_vars => FilterTypes'
<1> SUFFICES ASSUME FilterTypes, [Next]_vars PROVE FilterTypes'
  OBVIOUS
<1>1. ASSUME NEW c \in Criteria, ClickTree(c) PROVE FilterTypes'
  <2>1. c.rt \in Criterion /\ c.sa \in Criterion
    BY CriteriaAssumption
  <2>2. want' \in Filter
    BY <1>1, <2>1 DEF ClickTree, Filter
  <2>3. seen' \subseteq Filter /\ filterChanges' \in Nat
    <3>1. seen' \subseteq Filter
      BY <1>1, <2>2, Zenon DEF ClickTree, FilterTypes
    <3>2. filterChanges' \in Nat
      BY <1>1 DEF ClickTree, FilterTypes
    <3>3. QED  BY <3>1, <3>2
  <2>4. UNCHANGED <<filterEnabled, filterSa, chosen>> /\ filterRt' = c.rt
    BY <1>1 DEF ClickTree
  <2>5. QED  BY <2>1, <2>2, <2>3, <2>4 DEF FilterTypes
<1>2. CASE StoreSa
  <2>1. want.sa \in Criterion
    BY DEF FilterTypes, Filter
  <2>2. QED  BY <1>2, <2>1 DEF StoreSa, FilterTypes
<1>3. CASE EnableFilter
  BY <1>3 DEF EnableFilter, FilterTypes
<1>4. CASE ClearFilter
  <2>1. seen' \subseteq Filter /\ chosen' \in Filter
    BY <1>4, NoFilterType, Zenon DEF ClearFilter, FilterTypes
  <2>2. filterChanges' \in Nat
    BY <1>4 DEF ClearFilter, FilterTypes
  <2>3. UNCHANGED <<filterRt, filterSa, want>> /\ filterEnabled' = FALSE
    BY <1>4 DEF ClearFilter
  <2>4. QED  BY <2>1, <2>2, <2>3 DEF FilterTypes
<1>5. CASE ParseTurn
  BY <1>5 DEF ParseTurn, filterVars, FilterTypes
<1>6. CASE UNCHANGED <<filterVars, seen>>
  BY <1>6 DEF filterVars, FilterTypes
<1>7. QED  BY <1>1, <1>2, <1>3, <1>4, <1>5, <1>6, FilterSteps

----------------------------------------------------------------------------
(* The theorems.                                                           *)

MonitorInv == LifeInv /\ QueueTypes /\ Proved!Inv /\ DataInv /\ FilterTypes

LEMMA MonitorInvIsInductive ==
    /\ Init => MonitorInv
    /\ MonitorInv /\ [Next]_vars => MonitorInv'
<1>1. Proved!Inv => Parser!TypeOK
  BY SameParser DEF Proved!Inv
<1>2. Init => MonitorInv
  BY LifeInit, QueueInit, ParserInvInit, DataInit, FilterInit DEF MonitorInv
<1>3. MonitorInv /\ [Next]_vars => LifeInv' /\ QueueTypes' /\ Proved!Inv' /\ FilterTypes'
  BY LifeStep, QueueStep, ParserInvStep, FilterTypesStep DEF MonitorInv
<1>4. MonitorInv /\ [Next]_vars => DataInv'
  BY <1>1, DataStep DEF MonitorInv, LifeInv
<1>5. QED  BY <1>2, <1>3, <1>4 DEF MonitorInv

(***************************************************************************)
(* The invariant the others follow from.                                   *)
(***************************************************************************)
THEOREM MonitorInvHolds == Spec => []MonitorInv
BY MonitorInvIsInductive, PTL DEF Spec

(***************************************************************************)
(* Type correctness of the monitor, its parser included.                   *)
(***************************************************************************)
THEOREM MonitorTypeCorrect == Spec => []TypeOK
<1>1. Proved!Inv => Parser!TypeOK
  BY SameParser DEF Proved!Inv
<1>2. pendingKeys = KeysOf(pending) /\ pending \in Seq(Message) => pendingKeys \subseteq Key
  BY KeysAreKeys
<1>3. relayedKeys = KeysOf(relayed) /\ relayed \in Seq(Message) => relayedKeys \subseteq Key
  BY KeysAreKeys
<1>4. MonitorInv => TypeOK
  BY <1>1, <1>2, <1>3
     DEF MonitorInv, TypeOK, LifeInv, LifeTypes, QueueTypes, DataInv, FilterTypes
<1>5. QED  BY <1>4, MonitorInvHolds, PTL

(***************************************************************************)
(* isMonitoring(), the two threads and the pcap handle agree whenever no   *)
(* start() or stop() is under way.                                         *)
(***************************************************************************)
THEOREM FlagsAgreeWithThreads == Spec => []IdleAgrees
<1>1. MonitorInv => IdleAgrees
  BY DEF MonitorInv, LifeInv, LifeTypes, Phases, Stopped, Monitoring, IdleAgrees,
         MonitorAlive, CaptureAlive, Working, Callback
<1>2. QED  BY <1>1, MonitorInvHolds, PTL

(***************************************************************************)
(* start() never assigns to a joinable thread.                             *)
(***************************************************************************)
THEOREM ThreadsNotOverwritten == Spec => []NoThreadOverwritten
<1>1. MonitorInv => NoThreadOverwritten
  BY DEF MonitorInv, LifeInv, Phases, Starting, Stopping, Stopped, NoThreadOverwritten
<1>2. QED  BY <1>1, MonitorInvHolds, PTL

(***************************************************************************)
(* Only one thread at a time touches the parser, which has no lock.        *)
(***************************************************************************)
THEOREM ParserHasOneOwner == Spec => []ParserOwned
<1>1. MonitorInv => ParserOwned
  BY DEF MonitorInv, LifeInv, Phases, Starting, Stopped, ParserPhase, InParser, Callback,
         ParserOwned, MonitorAlive, Working
<1>2. QED  BY <1>1, MonitorInvHolds, PTL

(***************************************************************************)
(* The RT/SA tree and the message list show the same transactions.         *)
(***************************************************************************)
THEOREM TreeAgreesWithList == Spec => []TreeMatchesMessages
<1>1. MonitorInv => TreeMatchesMessages
  BY DEF MonitorInv, DataInv, KeysOf, TreeMatchesMessages
<1>2. QED  BY <1>1, MonitorInvHolds, PTL

(***************************************************************************)
(* The monitor implements its parser's specification.                      *)
(***************************************************************************)
THEOREM MonitorImplementsParser == Spec => ParserSpec
<1>1. Init => Parser!Init
  BY DEF Init
<1>2. MonitorInv /\ [Next]_vars => [Parser!Next]_(Parser!vars)
  BY ParserStepRefines DEF MonitorInv
<1>3. QED  BY <1>1, <1>2, MonitorInvHolds, PTL DEF Spec, ParserSpec, Parser!Spec

(***************************************************************************)
(* Inside the monitor, with its threads and restarts, the parser reports   *)
(* every complete packet of a session and nothing else.                    *)
(***************************************************************************)
THEOREM SessionPacketsReported ==
    Spec => [](Proved!DecodedAreFrames /\ Proved!NoFrameMissed)
<1>1. MaxWords \in Nat \ {0}
  BY MaxWordsAssumption
<1>2. {ReadBytes(k) : k \in 1..Len(Traffic)} \subseteq Seq(Proved!Byte)
  BY ParserBuffersAreBytes DEF Byte, Proved!Byte, MaxByte, Proved!MaxByte
<1>3. Spec => Proved!Spec
  <2>1. Parser!Init => Proved!Init
    BY SameParser
  <2>2. [Parser!Next]_(Parser!vars) => [Proved!Next]_(Proved!vars)
    BY SameParser DEF Parser!vars, Proved!vars
  <2>3. QED  BY <2>1, <2>2, MonitorImplementsParser, PTL DEF ParserSpec, Parser!Spec, Proved!Spec
<1>4. Proved!Spec => []Proved!DecodedAreFrames
  BY <1>1, <1>2, Proved!ReportsOnlyFrames
<1>5. Proved!Spec => []Proved!NoFrameMissed
  BY <1>1, <1>2, Proved!ReportsEveryFrame
<1>6. QED  BY <1>3, <1>4, <1>5, PTL

(***************************************************************************)
(* The pcap handle is only used while it is open, by the capture thread    *)
(* and by stop(), also after a capture filter could not be installed.      *)
(***************************************************************************)
THEOREM HandleOnlyUsedOpen == Spec => []HandleUsedOpen
<1>1. MonitorInv => HandleUsedOpen
  BY DEF MonitorInv, LifeInv, Phases, Starting, Stopping, Stopped, Monitoring,
         HandleUsedOpen
<1>2. QED  BY <1>1, MonitorInvHolds, PTL
----------------------------------------------------------------------------
(* The monitor implements MonitorSession.                                  *)

SessionInv ==
    /\ monitor \in Working => active
    /\ gui \in {"open", "spawn"} => pending = <<>>

\* The steps that touch what MonitorSession can see.
LEMMA SessionSteps ==
    ASSUME [Next]_vars
    PROVE  \/ ResetSession \/ SpawnMonitor \/ StopReturns
           \/ AppendPending \/ Flush \/ MonitorExits
           \/ /\ UNCHANGED <<active, pending, relayed>>
              /\ monitor' \in Working => monitor \in Working
              /\ gui' \in {"open", "spawn"} => gui \in {"open", "spawn"}
BY DEF Next, vars, Lifecycle, FilterStep, CaptureStep, MonitorStep, lifeVars, dataVars,
       StartCall, StopCall, Signal, JoinCapture, OpenFails, FilterSetupFails,
       SniffingStarts, ClickTree, StoreSa, EnableFilter, ClearFilter, CaptureCheck,
       DispatchReturns, PacketHandler, SegmentUnseen, MonitorCheck, NothingToRead,
       ReceiveData, ParseTurn, FilterRead, DropFiltered, FlushLater, MonitorLeaving,
       Tick, Goto, Working, Callback

LEMMA SessionInit == Init => SessionInv
BY DEF Init, SessionInv, Working, Callback

LEMMA SessionInvStep == LifeInv /\ SessionInv /\ [Next]_vars => SessionInv'
<1> SUFFICES ASSUME LifeInv, SessionInv, [Next]_vars PROVE SessionInv'
  OBVIOUS
<1> USE DEF SessionInv, Working, Callback
<1>1. CASE ResetSession
  BY <1>1 DEF ResetSession
<1>2. CASE SpawnMonitor
  BY <1>2 DEF SpawnMonitor
<1>3. CASE StopReturns
  BY <1>3 DEF StopReturns
<1>4. CASE AppendPending
  <2>1. gui \notin {"open", "spawn"}
    BY <1>4 DEF AppendPending, LifeInv, Phases, Starting, Stopping, Stopped
  <2>2. QED  BY <1>4, <2>1 DEF AppendPending, Goto, lifeVars
<1>5. CASE Flush
  BY <1>5 DEF Flush, Goto, lifeVars
<1>6. CASE MonitorExits
  BY <1>6 DEF MonitorExits, Goto, dataVars
<1>7. QED  BY <1>1, <1>2, <1>3, <1>4, <1>5, <1>6, SessionSteps

LEMMA SessionStep ==
    ASSUME LifeInv, DataInv, QueueTypes, Parser!TypeOK,
           SessionInv, [Next]_vars
    PROVE  [Session!Next]_(Session!sessionVars)
<1> USE DEF Session!Next, Session!sessionVars
<1>1. CASE ResetSession
  <2>1. ~active
    BY <1>1 DEF ResetSession, LifeInv, Phases, Starting, Stopped
  <2>2. QED  BY <1>1, <2>1 DEF ResetSession, Session!Discard
<1>2. CASE SpawnMonitor
  <2>1. ~active /\ pending = <<>>
    BY <1>2 DEF SpawnMonitor, SessionInv, LifeInv, Phases, Starting, Stopping
  <2>2. QED  BY <1>2, <2>1 DEF SpawnMonitor, Session!Start, dataVars
<1>3. CASE StopReturns
  BY <1>3 DEF StopReturns, Session!Stop, dataVars, LifeInv, LifeTypes
<1>4. CASE AppendPending
  <2>1. active /\ monitor \in Callback /\ monitor \in InParser
    BY <1>4 DEF AppendPending, SessionInv, Working, Callback, InParser
  <2>2. PICK m \in Message : pending' = Append(pending, m)
    <3>1. Trans.at \in Nat /\ Trans.cmd1 \in Word
      BY <2>1, TransType DEF DataInv
    <3>2. session \in Nat /\ buffer \in 1..Len(Traffic)
      BY <2>1, TrafficLength DEF QueueTypes
    <3>3. QED  BY <1>4, <3>1, <3>2 DEF AppendPending, Message
  <2>3. pending' # <<>> /\ pending'[Len(pending')] = m
    BY <2>2, AppendProperties DEF DataInv
  <2>4. UNCHANGED <<active, relayed>>
    BY <1>4 DEF AppendPending, lifeVars
  <2>5. QED  BY <2>1, <2>2, <2>3, <2>4 DEF Session!ShowAny, Session!Show
<1>5. CASE Flush
  <2>1. active
    BY <1>5 DEF Flush, SessionInv, Working
  <2>2. QED  BY <1>5, <2>1 DEF Flush, Session!Relay, lifeVars
<1>6. CASE MonitorExits
  BY <1>6 DEF MonitorExits, SessionInv, Working, Session!Stop, dataVars
<1>7. CASE UNCHANGED <<active, pending, relayed>>
  BY <1>7
<1>8. QED  BY <1>1, <1>2, <1>3, <1>4, <1>5, <1>6, <1>7, SessionSteps

(***************************************************************************)
(* BM with its three threads implements MonitorSession: messages are made  *)
(* pending and relayed only while monitoring, each flush relays all that   *)
(* is pending in order, and no session inherits the pending text of the    *)
(* one before.                                                             *)
(***************************************************************************)
THEOREM MonitorImplementsSession == Spec => SessionSpec
<1>1. Init => Session!Init /\ SessionInv
  BY SessionInit DEF Init, Session!Init
<1>2. MonitorInv => Parser!TypeOK
  BY SameParser DEF MonitorInv, Proved!Inv
<1>3. MonitorInv /\ SessionInv /\ [Next]_vars => SessionInv'
  BY SessionInvStep DEF MonitorInv
<1>4. MonitorInv /\ SessionInv /\ [Next]_vars => [Session!Next]_(Session!sessionVars)
  BY <1>2, SessionStep DEF MonitorInv
<1>5. QED
  BY <1>1, <1>3, <1>4, MonitorInvHolds, PTL DEF Spec, SessionSpec, Session!Spec
----------------------------------------------------------------------------
(* The bytes of the queue: nothing is lost on the way to the parser.       *)

\* Induction over the natural numbers, with a set in place of a predicate.
LEMMA Smallest ==
    ASSUME NEW T, T \subseteq Nat, T # {}
    PROVE  \E x \in T : \A y \in T : ~(y < x)
<1> DEFINE R == {ss \in Nat \X Nat : ss[1] < ss[2]}
<1>1. IsWellFoundedOn(R, Nat)
  BY NatLessThanWellFounded DEF OpToRel
<1>2. \E x \in T : \A y \in T : ~(<<y, x>> \in R)
  <2> HIDE DEF R
  <2> QED  BY <1>1, WFMin
<1>3. \A x, y \in Nat : y < x => <<y, x>> \in R
  OBVIOUS
<1>4. QED  BY <1>2, <1>3

LEMMA SetInduction ==
    ASSUME NEW S, 0 \in S, \A n \in Nat : n \in S => n + 1 \in S
    PROVE  \A n \in Nat : n \in S
<1> SUFFICES ASSUME Nat \ S # {} PROVE FALSE
  OBVIOUS
<1> DEFINE T == Nat \ S
<1>1. \E m \in T : \A y \in T : ~(y < m)
  <2>1. T \subseteq Nat /\ T # {}
    OBVIOUS
  <2> HIDE DEF T
  <2>2. QED  BY <2>1, Smallest
<1>2. PICK m \in Nat \ S : \A y \in Nat \ S : ~(y < m)
  BY <1>1
<1>3. m # 0 /\ m - 1 \in Nat
  BY <1>2
<1>4. m - 1 \in S
  BY <1>2, <1>3
<1>5. QED  BY <1>2, <1>3, <1>4

Segments == 1..Len(Traffic)

\* f[k] is the bytes of the first k segments of s, for k up to n.
IsPartial(f, s, n) ==
    /\ f \in [0..n -> Seq(Byte)]
    /\ f = [k \in 0..n |-> IF k = 0 THEN <<>> ELSE f[k - 1] \o Traffic[s[k]]]

LEMMA PartialExists ==
    ASSUME NEW s \in Seq(Segments)
    PROVE  \E f : IsPartial(f, s, Len(s))
<1> DEFINE S == {n \in Nat : n <= Len(s) => \E f : IsPartial(f, s, n)}
<1>0. Len(s) \in Nat
  BY LenProperties
<1>1. 0 \in S
  <2>1. IsPartial([k \in 0..0 |-> <<>>], s, 0)
    BY EmptySeq DEF IsPartial
  <2>2. QED  BY <2>1
<1>2. ASSUME NEW n \in Nat, n \in S PROVE n + 1 \in S
  <2> SUFFICES ASSUME n + 1 <= Len(s) PROVE \E f : IsPartial(f, s, n + 1)
    BY <1>0
  <2>1. PICK f : IsPartial(f, s, n)
    BY <1>0, <1>2
  <2>2. f[n] \in Seq(Byte)
    BY <2>1 DEF IsPartial
  <2>3. Traffic[s[n + 1]] \in Seq(Byte)
    <3>1. s[n + 1] \in Segments
      BY <1>0, ElementOfSeq
    <3>2. QED  BY <3>1, TrafficAssumption, ElementOfSeq DEF Segments
  <2> DEFINE v == f[n] \o Traffic[s[n + 1]]
             g == [k \in 0..(n + 1) |-> IF k = n + 1 THEN v ELSE f[k]]
  <2>4. v \in Seq(Byte)
    BY <2>2, <2>3, ConcatProperties
  <2>5. g \in [0..(n + 1) -> Seq(Byte)]
    <3> HIDE DEF v
    <3>1. \A k \in 0..(n + 1) : k # n + 1 => f[k] \in Seq(Byte)
      BY <2>1 DEF IsPartial
    <3>2. QED  BY <3>1, <2>4
  <2>6. ASSUME NEW k \in 0..(n + 1)
        PROVE  g[k] = IF k = 0 THEN <<>> ELSE g[k - 1] \o Traffic[s[k]]
    <3>1. CASE k = n + 1
      BY <3>1
    <3>2. CASE k # n + 1
      <4>1. k \in 0..n /\ g[k] = f[k]
        BY <3>2
      <4>2. f[k] = IF k = 0 THEN <<>> ELSE f[k - 1] \o Traffic[s[k]]
        BY <2>1, <4>1 DEF IsPartial
      <4>3. k # 0 => g[k - 1] = f[k - 1]
        BY <4>1
      <4>4. QED  BY <4>1, <4>2, <4>3
    <3>3. QED  BY <3>1, <3>2
  <2>7. g = [k \in 0..(n + 1) |-> IF k = 0 THEN <<>> ELSE g[k - 1] \o Traffic[s[k]]]
    <3>1. g = [k \in 0..(n + 1) |-> g[k]]
      OBVIOUS
    <3> HIDE DEF g
    <3>2. QED  BY <2>6, <3>1
  <2>8. IsPartial(g, s, n + 1)
    <3> HIDE DEF g
    <3> QED  BY <2>5, <2>7 DEF IsPartial
  <2>9. QED  BY <2>8
<1>3. \A n \in Nat : n \in S
  <2> HIDE DEF S
  <2> QED  BY <1>1, <1>2, SetInduction
<1>4. QED  BY <1>0, <1>3

LEMMA BytesIsPartial ==
    ASSUME NEW s \in Seq(Segments)
    PROVE  \E f : IsPartial(f, s, Len(s)) /\ Bytes(s) = f[Len(s)]
<1> DEFINE eq(f) == f = [k \in 0..Len(s) |-> IF k = 0 THEN <<>> ELSE f[k - 1] \o Traffic[s[k]]]
           F == CHOOSE f : eq(f)
<1>1. Bytes(s) = F[Len(s)]
  BY DEF Bytes
<1>2. eq(F)
  <2>1. \E f : eq(f)
    BY PartialExists DEF IsPartial
  <2> HIDE DEF eq
  <2>2. QED  BY <2>1
<1> HIDE DEF F
<1>0. Len(s) \in Nat
  BY LenProperties
<1> DEFINE S == {n \in Nat : n <= Len(s) => F[n] \in Seq(Byte)}
<1>3. 0 \in S
  <2>1. F[0] = <<>>
    BY <1>0, <1>2
  <2>2. QED  BY <2>1, EmptySeq
<1>4. ASSUME NEW n \in Nat, n \in S PROVE n + 1 \in S
  <2> SUFFICES ASSUME n + 1 <= Len(s) PROVE F[n + 1] \in Seq(Byte)
    BY <1>0
  <2>1. n + 1 \in 0..Len(s) /\ n + 1 # 0 /\ (n + 1) - 1 = n
    BY <1>0
  <2>2. F[n + 1] = F[n] \o Traffic[s[n + 1]]
    BY <1>2, <2>1
  <2>3. Traffic[s[n + 1]] \in Seq(Byte)
    <3>1. s[n + 1] \in Segments
      BY <1>0, ElementOfSeq
    <3>2. QED  BY <3>1, TrafficAssumption, ElementOfSeq DEF Segments
  <2>4. F[n] \in Seq(Byte)
    BY <1>0, <1>4
  <2>5. QED  BY <2>2, <2>3, <2>4, ConcatProperties
<1>5. \A n \in Nat : n \in S
  <2> HIDE DEF S
  <2> QED  BY <1>3, <1>4, SetInduction
<1>6. IsPartial(F, s, Len(s))
  <2>1. \A n \in 0..Len(s) : F[n] \in Seq(Byte)
    BY <1>0, <1>5
  <2>2. F \in [0..Len(s) -> Seq(Byte)]
    BY <2>1, <1>2
  <2>3. QED  BY <2>2, <1>2 DEF IsPartial
<1>7. QED  BY <1>1, <1>6


\* f[k] is the bytes of the first k segments of s.
IsSum(f, s) ==
    /\ f[0] = <<>>
    /\ \A k \in 0..Len(s) : f[k] \in Seq(Byte)
    /\ \A k \in 1..Len(s) : f[k] = f[k - 1] \o Traffic[s[k]]

LEMMA BytesIsSum ==
    ASSUME NEW s \in Seq(Segments)
    PROVE  \E f : IsSum(f, s) /\ Bytes(s) = f[Len(s)]
<1>1. Len(s) \in Nat
  BY LenProperties
<1>2. PICK f : IsPartial(f, s, Len(s)) /\ Bytes(s) = f[Len(s)]
  BY BytesIsPartial
<1>3. \A k \in 0..Len(s) : f[k] \in Seq(Byte)
  BY <1>2 DEF IsPartial
<1>4. \A k \in 0..Len(s) : f[k] = IF k = 0 THEN <<>> ELSE f[k - 1] \o Traffic[s[k]]
  BY <1>2 DEF IsPartial
<1>5. f[0] = <<>>
  BY <1>1, <1>4
<1>6. \A k \in 1..Len(s) : f[k] = f[k - 1] \o Traffic[s[k]]
  <2>1. \A k \in 1..Len(s) : k \in 0..Len(s) /\ k # 0
    BY <1>1
  <2>2. QED  BY <1>4, <2>1
<1>7. QED  BY <1>2, <1>3, <1>5, <1>6 DEF IsSum

LEMMA BytesEmpty == Bytes(<<>>) = <<>>
<1>1. <<>> \in Seq(Segments) /\ Len(<<>>) = 0
  BY EmptySeq
<1>2. PICK f : IsSum(f, <<>>) /\ Bytes(<<>>) = f[Len(<<>>)]
  BY <1>1, BytesIsSum
<1>3. QED  BY <1>1, <1>2 DEF IsSum

LEMMA BytesType ==
    ASSUME NEW s \in Seq(Segments)
    PROVE  Bytes(s) \in Seq(Byte)
<1>1. Len(s) \in 0..Len(s)
  BY LenProperties
<1>2. PICK f : IsSum(f, s) /\ Bytes(s) = f[Len(s)]
  BY BytesIsSum
<1>3. QED  BY <1>1, <1>2 DEF IsSum

LEMMA BytesAppend ==
    ASSUME NEW s \in Seq(Segments), NEW x \in Segments
    PROVE  Bytes(Append(s, x)) = Bytes(s) \o Traffic[x]
<1> DEFINE t == Append(s, x)
           n == Len(s)
<1>1. /\ t \in Seq(Segments) /\ Len(t) = n + 1 /\ n \in Nat
      /\ \A k \in 1..n : t[k] = s[k]
      /\ t[n + 1] = x
  BY AppendProperties, LenProperties
<1> HIDE DEF t
<1>2. PICK f : IsSum(f, s) /\ Bytes(s) = f[n]
  BY BytesIsSum
<1>3. PICK g : IsSum(g, t) /\ Bytes(t) = g[Len(t)]
  BY <1>1, BytesIsSum
<1>4. \A k \in 1..n : /\ k - 1 \in Nat
                      /\ f[k] = f[k - 1] \o Traffic[s[k]]
                      /\ g[k] = g[k - 1] \o Traffic[s[k]]
  <2> SUFFICES ASSUME NEW k \in 1..n
               PROVE  /\ k - 1 \in Nat
                      /\ f[k] = f[k - 1] \o Traffic[s[k]]
                      /\ g[k] = g[k - 1] \o Traffic[s[k]]
    OBVIOUS
  <2>1. k \in 1..Len(t) /\ t[k] = s[k] /\ k - 1 \in Nat
    BY <1>1
  <2>2. QED  BY <1>2, <1>3, <2>1 DEF IsSum
<1>5. g[n + 1] = g[n] \o Traffic[x]
  <2>1. n + 1 \in 1..Len(t) /\ (n + 1) - 1 = n
    BY <1>1
  <2>2. QED  BY <1>1, <1>3, <2>1 DEF IsSum
<1> DEFINE S == {k \in Nat : k <= n => g[k] = f[k]}
<1>6. 0 \in S
  BY <1>2, <1>3 DEF IsSum
<1>7. ASSUME NEW k \in Nat, k \in S PROVE k + 1 \in S
  <2> SUFFICES ASSUME k + 1 <= n PROVE g[k + 1] = f[k + 1]
    OBVIOUS
  <2>1. k + 1 \in 1..n /\ (k + 1) - 1 = k /\ k <= n
    BY <1>1
  <2>2. g[k] = f[k]
    BY <1>7, <2>1
  <2>3. QED  BY <1>4, <2>1, <2>2
<1>8. \A k \in Nat : k \in S
  <2> HIDE DEF S
  <2> QED  BY <1>6, <1>7, SetInduction
<1>9. g[n] = f[n]
  BY <1>1, <1>8
<1>10. QED  BY <1>1, <1>2, <1>3, <1>5, <1>9 DEF t

LEMMA BytesAssociative ==
    \A a, b, c \in Seq(Byte) : (a \o b) \o c = a \o (b \o c)
BY ConcatAssociative

LEMMA BytesTail ==
    ASSUME NEW s \in Seq(Segments), s # <<>>
    PROVE  Bytes(s) = Traffic[Head(s)] \o Bytes(Tail(s))
<1> DEFINE t == Tail(s)
           n == Len(t)
           b == Traffic[s[1]]
<1>1. /\ t \in Seq(Segments) /\ Len(s) = n + 1 /\ n \in Nat
      /\ \A k \in 1..n : t[k] = s[k + 1]
      /\ Head(s) = s[1] /\ s[1] \in Segments
  BY HeadTailProperties, LenProperties, EmptySeq, ElementOfSeq
<1>2. PICK f : IsSum(f, s) /\ Bytes(s) = f[Len(s)]
  BY BytesIsSum
<1>3. PICK g : IsSum(g, t) /\ Bytes(t) = g[n]
  BY <1>1, BytesIsSum
<1>4. b \in Seq(Byte)
  BY <1>1, TrafficAssumption, ElementOfSeq DEF Segments
<1>5. n \in Nat
  BY <1>1
<1> DEFINE h == [k \in 0..n |-> f[k + 1]]
<1>6. /\ f[1] = h[0] /\ f[Len(s)] = h[n]
  BY <1>1
<1>7. h[0] = b \o g[0]
  <2>1. 1 \in 1..Len(s) /\ 1 - 1 = 0
    BY <1>1
  <2>2. f[1] = f[0] \o b /\ f[0] = <<>> /\ g[0] = <<>>
    BY <1>2, <1>3, <2>1 DEF IsSum
  <2>3. <<>> \o b = b \o <<>>
    BY <1>4, ConcatEmptySeq
  <2>4. QED  BY <1>6, <2>2, <2>3
<1>8. \A k \in 1..n : /\ g[k] = g[k - 1] \o Traffic[t[k]]
                      /\ g[k - 1] \in Seq(Byte) /\ Traffic[t[k]] \in Seq(Byte)
                      /\ h[k] = h[k - 1] \o Traffic[t[k]]
  <2> SUFFICES ASSUME NEW k \in 1..n
               PROVE  /\ g[k] = g[k - 1] \o Traffic[t[k]]
                      /\ g[k - 1] \in Seq(Byte) /\ Traffic[t[k]] \in Seq(Byte)
                      /\ h[k] = h[k - 1] \o Traffic[t[k]]
    OBVIOUS
  <2>1. g[k] = g[k - 1] \o Traffic[t[k]] /\ g[k - 1] \in Seq(Byte)
    <3>1. k - 1 \in 0..n
      BY <1>5
    <3>2. QED  BY <1>3, <3>1 DEF IsSum
  <2>2. Traffic[t[k]] \in Seq(Byte)
    <3>1. t[k] \in Segments
      BY <1>1, ElementOfSeq
    <3>2. QED  BY <3>1, TrafficAssumption, ElementOfSeq DEF Segments
  <2>3. h[k] = h[k - 1] \o Traffic[t[k]]
    <3>1. k + 1 \in 1..Len(s) /\ (k + 1) - 1 = k /\ k \in 0..n /\ k - 1 \in 0..n
          /\ (k - 1) + 1 = k
      BY <1>1
    <3>2. f[k + 1] = f[(k + 1) - 1] \o Traffic[s[k + 1]]
      BY <1>2, <3>1 DEF IsSum
    <3>3. h[k] = f[k + 1] /\ h[k - 1] = f[k] /\ t[k] = s[k + 1]
      BY <1>1, <3>1
    <3> HIDE DEF h, t
    <3>4. QED  BY <3>1, <3>2, <3>3
  <2>4. QED  BY <2>1, <2>2, <2>3
<1> HIDE DEF h, t, n, b
<1> DEFINE S == {k \in Nat : k <= n => h[k] = b \o g[k]}
<1>9. 0 \in S
  BY <1>7
<1>10. ASSUME NEW k \in Nat, k \in S PROVE k + 1 \in S
  <2> SUFFICES ASSUME k + 1 <= n PROVE h[k + 1] = b \o g[k + 1]
    OBVIOUS
  <2>1. k + 1 \in 1..n /\ (k + 1) - 1 = k /\ k <= n
    BY <1>5
  <2>2. h[k] = b \o g[k]
    BY <1>10, <2>1
  <2>3. /\ g[k + 1] = g[k] \o Traffic[t[k + 1]]
        /\ g[k] \in Seq(Byte) /\ Traffic[t[k + 1]] \in Seq(Byte)
        /\ h[k + 1] = h[k] \o Traffic[t[k + 1]]
    BY <1>8, <2>1
  <2>4. (b \o g[k]) \o Traffic[t[k + 1]] = b \o (g[k] \o Traffic[t[k + 1]])
    BY <1>4, <2>3, BytesAssociative
  <2>5. QED  BY <2>2, <2>3, <2>4
<1>11. \A k \in Nat : k \in S
  <2> HIDE DEF S
  <2> QED  BY <1>9, <1>10, SetInduction
<1>12. h[n] = b \o g[n]
  BY <1>5, <1>11
<1>13. QED  BY <1>1, <1>2, <1>3, <1>6, <1>12 DEF t, b

(***************************************************************************)
(* Every payload fits into the monitor thread's buffer.                    *)
(***************************************************************************)
PayloadsFit == \A k \in Segments : Len(Traffic[k]) <= ReadMax

LEMMA ReadBytesAll ==
    ASSUME PayloadsFit, NEW k \in Segments
    PROVE  ReadBytes(k) = Traffic[k] /\ Traffic[k] \in Seq(Byte)
<1>1. Traffic[k] \in Seq(Byte)
  BY TrafficAssumption, ElementOfSeq DEF Segments
<1>2. Len(Traffic[k]) \in Nat /\ Len(Traffic[k]) <= ReadMax
  BY <1>1, LenProperties DEF PayloadsFit
<1>3. (IF Len(Traffic[k]) < ReadMax THEN Len(Traffic[k]) ELSE ReadMax) = Len(Traffic[k])
  BY <1>2, ReadMaxAssumption
<1>4. ReadBytes(k) = SubSeq(Traffic[k], 1, Len(Traffic[k]))
  BY <1>3 DEF ReadBytes
<1>5. QED  BY <1>1, <1>4, SubSeqFull

LEMMA LosslessInit == Init => QueueLossless
<1> SUFFICES ASSUME Init PROVE QueueLossless
  OBVIOUS
<1>1. <<>> \o <<>> = <<>>
  BY EmptySeq, ConcatEmptySeq
<1>2. received = <<>> /\ payloadQueue = <<>> /\ taken = <<>>
  BY DEF Init, Parser!Init
<1>3. QED  BY <1>1, <1>2, BytesEmpty DEF QueueLossless

LEMMA LosslessStep ==
    ASSUME PayloadsFit, QueueTypes, Parser!TypeOK, QueueLossless, [Next]_vars
    PROVE  QueueLossless'
<1>1. payloadQueue \in Seq(Segments) /\ taken \in Seq(Segments)
  BY DEF QueueTypes, Segments
<1>2. received \in Seq(Byte)
  <2>1. Parser!Byte = Byte
    BY DEF Parser!Byte, Byte, Parser!MaxByte, MaxByte
  <2>2. QED  BY <2>1 DEF Parser!TypeOK
<1>3. received \o Bytes(payloadQueue) = Bytes(taken)
  BY DEF QueueLossless
<1>4. SUFFICES received' \o Bytes(payloadQueue') = Bytes(taken')
  BY DEF QueueLossless, Bytes
<1>5. Bytes(payloadQueue) \in Seq(Byte)
  BY <1>1, BytesType
<1>6. CASE ResetSession
  <2>1. received' = <<>> /\ payloadQueue' = payloadQueue /\ taken' = payloadQueue
    BY <1>6 DEF ResetSession, Parser!Reset
  <2>2. QED  BY <1>5, <2>1, ConcatEmptySeq
<1>7. CASE PacketHandler
  <2>1. nextSegment \in Segments
    BY <1>7, TrafficLength DEF PacketHandler, QueueTypes, Segments
  <2>2. /\ payloadQueue' = Append(payloadQueue, nextSegment)
        /\ taken' = Append(taken, nextSegment)
        /\ received' = received
    BY <1>7 DEF PacketHandler, parserVars
  <2>3. Traffic[nextSegment] \in Seq(Byte)
    BY <2>1, ReadBytesAll
  <2>4. /\ Bytes(payloadQueue') = Bytes(payloadQueue) \o Traffic[nextSegment]
        /\ Bytes(taken') = Bytes(taken) \o Traffic[nextSegment]
    BY <1>1, <2>1, <2>2, BytesAppend
  <2>5. (received \o Bytes(payloadQueue)) \o Traffic[nextSegment]
            = received \o (Bytes(payloadQueue) \o Traffic[nextSegment])
    BY <1>2, <1>5, <2>3, BytesAssociative
  <2>6. QED  BY <1>3, <2>2, <2>4, <2>5
<1>8. CASE ReceiveData
  <2>1. /\ payloadQueue # <<>> /\ payloadQueue' = Tail(payloadQueue)
        /\ received' = received \o ReadBytes(Head(payloadQueue))
        /\ taken' = taken
    BY <1>8 DEF ReceiveData, Parser!ParseStream
  <2>2. Head(payloadQueue) \in Segments /\ Tail(payloadQueue) \in Seq(Segments)
    BY <1>1, <2>1, HeadTailProperties
  <2>3. /\ ReadBytes(Head(payloadQueue)) = Traffic[Head(payloadQueue)]
        /\ Traffic[Head(payloadQueue)] \in Seq(Byte)
    BY <2>2, ReadBytesAll
  <2>4. Bytes(payloadQueue) = Traffic[Head(payloadQueue)] \o Bytes(Tail(payloadQueue))
    BY <1>1, <2>1, BytesTail
  <2>5. Bytes(Tail(payloadQueue)) \in Seq(Byte)
    BY <2>2, BytesType
  <2>6. (received \o Traffic[Head(payloadQueue)]) \o Bytes(Tail(payloadQueue))
            = received \o (Traffic[Head(payloadQueue)] \o Bytes(Tail(payloadQueue)))
    BY <1>2, <2>3, <2>5, BytesAssociative
  <2>7. QED  BY <1>3, <2>1, <2>3, <2>4, <2>6
<1>9. CASE ParseTurn
  <2>1. received' = received /\ UNCHANGED <<payloadQueue, taken>>
    BY <1>9 DEF ParseTurn, busVars, Parser!SkipByte, Parser!RejectMode,
                Parser!DecodePacket, Parser!AwaitBytes
  <2>2. QED  BY <1>3, <2>1
<1>10. CASE SegmentUnseen
  BY <1>3, <1>10 DEF SegmentUnseen, parserVars
<1>11. CASE UNCHANGED parserVars /\ UNCHANGED <<payloadQueue, taken, nextSegment, first, session, buffer>>
  BY <1>3, <1>11 DEF parserVars
<1>12. QED
  BY <1>6, <1>7, <1>8, <1>9, <1>10, <1>11, QueueSteps, ParserSteps

(***************************************************************************)
(* Whatever the capture and the monitor thread interleave, and however     *)
(* often the monitor is stopped and started, the parser is given every     *)
(* byte of the session's payloads, in order and once, if each payload fits *)
(* into the monitor thread's buffer.                                       *)
(***************************************************************************)
THEOREM NoByteLost ==
    ASSUME PayloadsFit
    PROVE  Spec => []QueueLossless
<1>1. Init => QueueLossless
  BY LosslessInit
<1>2. Proved!Inv => Parser!TypeOK
  BY SameParser DEF Proved!Inv
<1>3. MonitorInv /\ QueueLossless /\ [Next]_vars => QueueLossless'
  BY <1>2, LosslessStep DEF MonitorInv
<1>4. QED  BY <1>1, <1>3, MonitorInvHolds, PTL DEF Spec

----------------------------------------------------------------------------
(* Until the user sets a filter, everything that was decoded is shown.     *)

\* Nothing of the filter is under way before its first change.
Unfiltered ==
    filterChanges = 0 =>
        /\ ~filterEnabled
        /\ gui \notin {"storeSa", "enable"}
        /\ monitor \notin {"rtSet", "rtMatch", "saSet", "saMatch", "drop"}

LEMMA UnfilteredInit == Init => Unfiltered
BY DEF Init, Unfiltered

LEMMA UnfilteredStep ==
    ASSUME LifeInv, FilterTypes, Unfiltered, [Next]_vars
    PROVE  Unfiltered'
<1> SUFFICES ASSUME filterChanges' = 0
             PROVE  /\ ~filterEnabled'
                    /\ gui' \notin {"storeSa", "enable"}
                    /\ monitor' \notin {"rtSet", "rtMatch", "saSet", "saMatch", "drop"}
  BY DEF Unfiltered
<1>1. ASSUME NEW c \in Criteria, ClickTree(c) PROVE FALSE
  BY <1>1 DEF ClickTree, FilterTypes
<1>2. CASE ClearFilter
  BY <1>2 DEF ClearFilter, FilterTypes
<1>3. CASE UNCHANGED filterChanges /\ ~ClearFilter
  <2>1. /\ ~filterEnabled
        /\ gui \notin {"storeSa", "enable"}
        /\ monitor \notin {"rtSet", "rtMatch", "saSet", "saMatch", "drop"}
    BY <1>3 DEF Unfiltered
  <2>2. ~filterEnabled'
    BY <2>1, <1>1, <1>3, FilterSteps DEF StoreSa, EnableFilter, ParseTurn, filterVars
  <2>3. gui' \notin {"storeSa", "enable"}
    BY <2>1, <1>1, <1>3
       DEF Next, vars, lifeVars, Lifecycle, FilterStep, CaptureStep, MonitorStep,
           StartCall, StopCall, Signal, JoinCapture, StopReturns, ResetSession, OpenFails,
           FilterSetupFails, SniffingStarts, SpawnMonitor, StoreSa, EnableFilter,
           CaptureCheck, DispatchReturns, PacketHandler, SegmentUnseen, MonitorCheck,
           NothingToRead, ReceiveData, ParseTurn, FilterRead, DropFiltered, AppendPending,
           Flush, FlushLater, MonitorLeaving, MonitorExits, Tick
  <2>4. monitor' \notin {"rtSet", "rtMatch", "saSet", "saMatch", "drop"}
    BY <2>1, <1>1, <1>3
       DEF Next, vars, Lifecycle, FilterStep, CaptureStep, MonitorStep, Goto,
           StartCall, StopCall, Signal, JoinCapture, StopReturns, ResetSession, OpenFails,
           FilterSetupFails, SniffingStarts, SpawnMonitor, StoreSa, EnableFilter,
           CaptureCheck, DispatchReturns, PacketHandler, SegmentUnseen, MonitorCheck,
           NothingToRead, ReceiveData, ParseTurn, FilterRead, DropFiltered, AppendPending,
           Flush, FlushLater, MonitorLeaving, MonitorExits, Tick
  <2>5. QED  BY <2>2, <2>3, <2>4
<1>4. UNCHANGED filterChanges \/ ClearFilter \/ \E c \in Criteria : ClickTree(c)
  BY FilterSteps DEF StoreSa, EnableFilter, ParseTurn, filterVars
<1>5. QED  BY <1>1, <1>2, <1>3, <1>4

\* The steps that touch what is shown, what was decoded, or the session.
LEMMA ShowSteps ==
    ASSUME LifeInv, monitor # "drop", [Next]_vars
    PROVE  \/ ResetSession \/ ParseTurn \/ AppendPending \/ Flush
           \/ /\ UNCHANGED <<pending, relayed, decoded, session>>
              /\ monitor' \in Callback <=> monitor \in Callback
<1>1. SpawnMonitor => monitor = "none"
  BY DEF SpawnMonitor, LifeInv, Phases, Starting, Stopped, Stopping
<1>2. QED
  BY <1>1
     DEF Next, vars, dataVars, parserVars, Lifecycle, FilterStep, CaptureStep, MonitorStep,
         lifeVars, StartCall, StopCall, Signal, JoinCapture, StopReturns, OpenFails,
         FilterSetupFails, SniffingStarts, SpawnMonitor, ClickTree, StoreSa, EnableFilter,
         ClearFilter, CaptureCheck, DispatchReturns, PacketHandler, SegmentUnseen,
         MonitorCheck, NothingToRead, ReceiveData, Parser!ParseStream, FilterRead,
         DropFiltered, FlushLater, MonitorLeaving, MonitorExits, Tick, Goto, Callback

\* What ShownAsDecoded says of a list of messages and of transactions of which
\* the first h have been handled.
AsDecoded(shown, transactions, h, current) ==
    LET before == Len(shown) - h
    IN  /\ before >= 0
        /\ \A i \in 1..before : shown[i].session < current
        /\ \A i \in 1..h :
               /\ shown[before + i].session = current
               /\ shown[before + i].at = transactions[i].at
               /\ shown[before + i].cmd1 = transactions[i].cmd1

LEMMA AsDecodedAppend ==
    ASSUME NEW shown \in Seq(Message), NEW transactions, NEW h \in Nat, NEW current,
           AsDecoded(shown, transactions, h, current),
           NEW m \in Message, m.session = current,
           m.at = transactions[h + 1].at, m.cmd1 = transactions[h + 1].cmd1
    PROVE  AsDecoded(Append(shown, m), transactions, h + 1, current)
<1> DEFINE longer == Append(shown, m)
           before == Len(shown) - h
<1>1. /\ Len(longer) = Len(shown) + 1 /\ Len(shown) \in Nat
      /\ \A i \in 1..Len(shown) : longer[i] = shown[i]
      /\ longer[Len(shown) + 1] = m
  BY AppendProperties, LenProperties
<1> HIDE DEF longer
<1>2. Len(longer) - (h + 1) = before /\ before >= 0 /\ before \in Nat
  BY <1>1 DEF AsDecoded
<1>3. ASSUME NEW i \in 1..before PROVE longer[i].session < current
  <2>1. i \in 1..Len(shown)
    BY <1>1, <1>2
  <2>2. QED  BY <1>1, <2>1 DEF AsDecoded
<1>4. ASSUME NEW i \in 1..(h + 1)
      PROVE  /\ longer[before + i].session = current
             /\ longer[before + i].at = transactions[i].at
             /\ longer[before + i].cmd1 = transactions[i].cmd1
  <2>1. CASE i = h + 1
    <3>1. before + i = Len(shown) + 1
      BY <1>1, <2>1
    <3>2. QED  BY <1>1, <2>1, <3>1
  <2>2. CASE i # h + 1
    <3>1. i \in 1..h /\ before + i \in 1..Len(shown)
      BY <1>1, <1>2, <2>2
    <3>2. QED  BY <1>1, <3>1 DEF AsDecoded
  <2>3. QED  BY <2>1, <2>2
<1>5. QED  BY <1>2, <1>3, <1>4 DEF AsDecoded, longer

LEMMA AsDecodedNewSession ==
    ASSUME NEW old \in Seq(Message), NEW new \in Seq(Message), NEW transactions,
           NEW h \in Nat, NEW current \in Nat,
           AsDecoded(old \o new, transactions, h, current)
    PROVE  AsDecoded(old \o <<>>, <<>>, 0, current + 1)
<1> DEFINE shown == old \o new
           before == Len(shown) - h
<1>1. /\ Len(shown) = Len(old) + Len(new) /\ Len(old) \in Nat /\ Len(new) \in Nat
      /\ \A i \in 1..Len(old) : shown[i] = old[i]
  BY ConcatProperties, LenProperties
<1>2. old \o <<>> = old
  BY ConcatEmptySeq
<1> HIDE DEF shown
<1>3. before >= 0 /\ before \in Nat
  BY <1>1 DEF AsDecoded, shown
<1>4. ASSUME NEW i \in 1..Len(old) PROVE old[i].session < current + 1
  <2>1. old[i] = shown[i] /\ old[i] \in Message /\ i \in 1..Len(shown)
    BY <1>1, ElementOfSeq
  <2>2. old[i].session \in Nat
    BY <2>1 DEF Message
  <2>3. CASE i <= before
    <3>1. i \in 1..before
      BY <1>3, <2>3
    <3>2. shown[i].session < current
      BY <3>1 DEF AsDecoded, shown
    <3>3. QED  BY <2>1, <2>2, <3>2
  <2>4. CASE ~(i <= before)
    <3>1. i - before \in 1..h /\ before + (i - before) = i
      BY <1>1, <1>3, <2>1, <2>4
    <3>2. shown[before + (i - before)].session = current
      BY <3>1 DEF AsDecoded, shown
    <3>3. QED  BY <2>1, <2>2, <3>1, <3>2
  <2>5. QED  BY <2>3, <2>4
<1>5. QED  BY <1>1, <1>2, <1>4 DEF AsDecoded

LEMMA ShownIs ==
    ShownAsDecoded <=>
        (filterChanges = 0 =>
             AsDecoded(relayed \o pending, decoded, Len(decoded) - InCallback, session))
BY DEF ShownAsDecoded, AsDecoded

LEMMA ShownInit == Init => ShownAsDecoded
<1> SUFFICES ASSUME Init PROVE ShownAsDecoded
  OBVIOUS
<1>1. /\ relayed = <<>> /\ pending = <<>> /\ decoded = <<>> /\ InCallback = 0
  BY DEF Init, Parser!Init, InCallback, Callback
<1>2. <<>> \o <<>> = <<>> /\ Len(<<>>) = 0
  BY EmptySeq, ConcatEmptySeq
<1>3. AsDecoded(<<>>, <<>>, 0, session)
  BY <1>2 DEF AsDecoded
<1>4. QED  BY <1>1, <1>2, <1>3, ShownIs

LEMMA ShownStep ==
    ASSUME LifeInv, QueueTypes, FilterTypes, DataInv, Parser!TypeOK,
           Unfiltered, ShownAsDecoded, [Next]_vars
    PROVE  ShownAsDecoded'
<1> DEFINE handled == Len(decoded) - InCallback
<1>1. SUFFICES ASSUME filterChanges' = 0
               PROVE  AsDecoded(relayed' \o pending', decoded',
                                Len(decoded') - (IF monitor' \in Callback THEN 1 ELSE 0),
                                session')
  BY DEF ShownAsDecoded, AsDecoded, InCallback
<1>2. filterChanges = 0
  <2>1. filterChanges \in Nat
    BY DEF FilterTypes
  <2>2. ASSUME NEW c \in Criteria, ClickTree(c) PROVE FALSE
    BY <1>1, <2>1, <2>2 DEF ClickTree
  <2>3. ~ClearFilter
    BY <1>1, <2>1 DEF ClearFilter
  <2>4. filterChanges' = filterChanges
    BY <2>2, <2>3, FilterSteps DEF StoreSa, EnableFilter, ParseTurn, filterVars
  <2>5. QED  BY <1>1, <2>4
<1>3. AsDecoded(relayed \o pending, decoded, handled, session)
  BY <1>2, ShownIs
<1>4. /\ relayed \in Seq(Message) /\ pending \in Seq(Message)
      /\ relayed \o pending \in Seq(Message)
      /\ session \in Nat
  BY ConcatProperties DEF DataInv, QueueTypes
<1>5. decoded \in Seq(Parser!Transaction) /\ Len(decoded) \in Nat
  BY LenProperties DEF Parser!TypeOK
<1>6. /\ handled \in Nat
      /\ monitor \in Callback => decoded # <<>> /\ Len(decoded) = handled + 1
      /\ monitor \notin Callback => Len(decoded) = handled
  <2>1. decoded # <<>> => Len(decoded) > 0
    BY <1>5, EmptySeq
  <2>2. QED  BY <1>5, <2>1 DEF DataInv, InCallback
<1> HIDE DEF handled
<1>7. CASE ResetSession
  <2>1. /\ relayed' = relayed /\ pending' = <<>> /\ decoded' = <<>>
        /\ session' = session + 1 /\ monitor' \notin Callback
    BY <1>7 DEF ResetSession, Parser!Reset, Callback
  <2>2. Len(<<>>) = 0
    BY EmptySeq
  <2>3. AsDecoded(relayed \o <<>>, <<>>, 0, session + 1)
    BY <1>3, <1>4, <1>6, AsDecodedNewSession
  <2>4. QED  BY <2>1, <2>2, <2>3
<1>8. CASE ParseTurn
  <2>1. relayed' = relayed /\ pending' = pending /\ session' = session
        /\ monitor \notin Callback
    BY <1>8 DEF ParseTurn, dataVars, lifeVars, Callback
  <2>2. CASE Parser!DecodePacket /\ monitor' = "filter"
    <3> DEFINE d == Parser!Decode(accumulator, consumed)
    <3>1. decoded' = Append(decoded, d) /\ monitor' \in Callback
      BY <2>2 DEF Parser!DecodePacket, Callback
    <3> HIDE DEF d
    <3>2. /\ Len(decoded') = Len(decoded) + 1
          /\ \A i \in 1..Len(decoded) : decoded'[i] = decoded[i]
      BY <1>5, <3>1, LenProperties
    <3>3. AsDecoded(relayed \o pending, decoded', handled, session)
      <4>1. \A i \in 1..handled : decoded'[i] = decoded[i]
        BY <1>6, <2>1, <3>2
      <4>2. QED  BY <1>3, <4>1 DEF AsDecoded
    <3>4. Len(decoded') - 1 = handled
      BY <1>5, <1>6, <2>1, <3>2
    <3>5. QED  BY <2>1, <3>1, <3>3, <3>4
  <2>3. CASE decoded' = decoded /\ monitor' \notin Callback
    <3>1. Len(decoded') - 0 = handled
      BY <1>6, <2>1, <2>3
    <3>2. QED  BY <1>3, <2>1, <2>3, <3>1
  <2>4. QED
    BY <1>8, <2>2, <2>3
       DEF ParseTurn, Goto, Parser!SkipByte, Parser!RejectMode, Parser!AwaitBytes, Callback
<1>9. CASE AppendPending
  <2> DEFINE m == [session |-> session, segment |-> buffer,
                   at |-> Trans.at, cmd1 |-> Trans.cmd1]
  <2>1. /\ relayed' = relayed /\ pending' = Append(pending, m) /\ decoded' = decoded
        /\ session' = session /\ monitor' \notin Callback /\ monitor \in Callback
    BY <1>9 DEF AppendPending, lifeVars, parserVars, Goto, Callback
  <2>2. m \in Message
    <3>1. Trans.at \in Nat /\ Trans.cmd1 \in Word
      BY <1>6, <2>1, TransType
    <3>2. buffer \in 1..Len(Traffic)
      BY <2>1, TrafficLength DEF QueueTypes, InParser
    <3>3. QED  BY <1>4, <3>1, <3>2 DEF Message
  <2>3. m.session = session /\ m.at = decoded[handled + 1].at /\ m.cmd1 = decoded[handled + 1].cmd1
    BY <1>6, <2>1 DEF Trans
  <2> HIDE DEF m
  <2>4. relayed \o Append(pending, m) = Append(relayed \o pending, m)
    BY <1>4, <2>2, AppendProperties, ConcatProperties, SeqEqual
  <2>5. AsDecoded(Append(relayed \o pending, m), decoded, handled + 1, session)
    BY <1>3, <1>4, <1>6, <2>2, <2>3, AsDecodedAppend
  <2>6. Len(decoded) - 0 = handled + 1
    BY <1>5, <1>6, <2>1
  <2>7. QED  BY <2>1, <2>4, <2>5, <2>6
<1>10. CASE Flush
  <2>1. /\ relayed' = relayed \o pending /\ pending' = <<>> /\ decoded' = decoded
        /\ session' = session /\ monitor' \notin Callback /\ monitor \notin Callback
    BY <1>10 DEF Flush, lifeVars, parserVars, Goto, Callback
  <2>2. relayed' \o pending' = relayed \o pending
    BY <1>4, <2>1, ConcatEmptySeq
  <2>3. Len(decoded) - 0 = handled
    BY <1>6, <2>1
  <2>4. QED  BY <1>3, <2>1, <2>2, <2>3
<1>11. CASE /\ UNCHANGED <<pending, relayed, decoded, session>>
            /\ monitor' \in Callback <=> monitor \in Callback
  BY <1>3, <1>11 DEF handled, InCallback
<1>12. monitor # "drop"
  BY <1>2 DEF Unfiltered
<1>13. QED  BY <1>7, <1>8, <1>9, <1>10, <1>11, <1>12, ShowSteps

(***************************************************************************)
(* Until the user sets a filter, the list shows every transaction of the   *)
(* session that its parser has decoded and its callback has handled, once  *)
(* and in the order of the stream.                                         *)
(***************************************************************************)
THEOREM EverythingDecodedIsShown == Spec => []ShownAsDecoded
<1>1. Init => Unfiltered /\ ShownAsDecoded
  BY UnfilteredInit, ShownInit
<1>2. Proved!Inv => Parser!TypeOK
  BY SameParser DEF Proved!Inv
<1>3. MonitorInv /\ Unfiltered /\ ShownAsDecoded /\ [Next]_vars
      => Unfiltered' /\ ShownAsDecoded'
  BY <1>2, UnfilteredStep, ShownStep DEF MonitorInv
<1>4. QED  BY <1>1, <1>3, MonitorInvHolds, PTL DEF Spec

----------------------------------------------------------------------------
(* The filter decides field by field: what a read of one atomic lets pass  *)
(* or stop belongs to a filter that was set while the transaction was      *)
(* looked at, whatever the user clicks between the reads.                  *)

Changing == gui \in {"storeSa", "enable"}

\* The atomics follow the filter the user chose; a filter that is being
\* installed has stored its RT, then its SA.
AtomicsFollow ==
    /\ filterEnabled => chosen.on = TRUE
    /\ ~filterEnabled => chosen.on = FALSE
    /\ chosen.on = TRUE =>
           /\ filterRt = chosen.rt \/ Changing
           /\ filterSa = chosen.sa \/ gui = "enable"
    /\ Changing => want.on = TRUE /\ filterRt = want.rt
    /\ gui = "enable" => filterSa = want.sa

\* While a transaction is looked at, every filter in force is recorded.
SeenInForce ==
    monitor \in Callback => chosen \in seen /\ (Changing => want \in seen)

\* A filter that was set asked for this RT, or for this SA.
RtSeen(r) == \E f \in seen : f.on = TRUE /\ f.rt = r
SaSeen(a) == \E f \in seen : f.on = TRUE /\ f.sa = a

\* What the reads of a decision have found so far.
RtAsked == \E r : RtSeen(r) /\ r # -1
RtPassed == RtSeen(-1) \/ RtSeen(RtOf(Trans.cmd1))
SaAsked == \E a : SaSeen(a) /\ a # -1
Reading == {"rtSet", "rtMatch", "saSet", "saMatch"}

ReadsFit ==
    /\ monitor \in Reading => RtSeen(filterRt) /\ SaSeen(filterSa)
    /\ monitor = "rtMatch" => RtAsked
    /\ monitor \in {"saSet", "saMatch"} => RtPassed
    /\ monitor = "saMatch" => SaAsked

FilterInv ==
    /\ AtomicsFollow /\ SeenInForce /\ ReadsFit
    /\ ShownFieldsAdmitted /\ WithheldFieldsExcluded

\* The steps that touch the filter, and those that bring a transaction or
\* take the monitor thread through its decision.
LEMMA DecisionSteps ==
    ASSUME LifeInv, [Next]_vars
    PROVE  \/ \E c \in Criteria : ClickTree(c)
           \/ StoreSa \/ EnableFilter \/ ClearFilter
           \/ ParseTurn \/ FilterRead
           \/ /\ UNCHANGED <<filterVars, seen>>
              /\ Changing' => Changing /\ gui' = gui
              /\ Changing => Changing' /\ gui' = gui
              /\ monitor' \in Callback => monitor' = monitor /\ decoded' = decoded
<1>1. Parser!ParseStream(ReadBytes(buffer')) => decoded' = decoded
  BY DEF Parser!ParseStream
<1>2. ResetSession => monitor' = "none"
  BY DEF ResetSession
<1>3. QED
  BY <1>1, <1>2
     DEF Next, vars, lifeVars, parserVars, Lifecycle, FilterStep, CaptureStep, MonitorStep,
         StartCall, StopCall, Signal, JoinCapture, StopReturns, ResetSession, OpenFails,
         FilterSetupFails, SniffingStarts, SpawnMonitor, CaptureCheck, DispatchReturns,
         PacketHandler, SegmentUnseen, MonitorCheck, NothingToRead, ReceiveData,
         DropFiltered, AppendPending, Flush, FlushLater, MonitorLeaving, MonitorExits,
         Tick, Goto, Callback, Changing, LifeInv, Phases, Starting, Stopping

LEMMA FilterInvInit == Init => FilterInv
BY DEF Init, FilterInv, AtomicsFollow, SeenInForce, ReadsFit, ShownFieldsAdmitted,
       WithheldFieldsExcluded, NoFilter, Changing, Callback, Reading

\* A filter that comes into force takes nothing back of what was found.
LEMMA DecisionStays ==
    ASSUME ReadsFit, ShownFieldsAdmitted, WithheldFieldsExcluded,
           seen \subseteq seen', decoded' = decoded, monitor' = monitor,
           monitor \in Reading => RtSeen(filterRt)' /\ SaSeen(filterSa)'
    PROVE  ReadsFit' /\ ShownFieldsAdmitted' /\ WithheldFieldsExcluded'
<1>1. Trans' = Trans
  BY DEF Trans
<1>2. ReadsFit'
  <2>1. \A r : RtSeen(r) => \E f \in seen' : f.on = TRUE /\ f.rt = r
    BY DEF RtSeen
  <2>2. \A a : SaSeen(a) => \E f \in seen' : f.on = TRUE /\ f.sa = a
    BY DEF SaSeen
  <2>3. (RtAsked => RtAsked') /\ (RtPassed => RtPassed') /\ (SaAsked => SaAsked')
    BY <1>1, <2>1, <2>2 DEF RtAsked, RtPassed, SaAsked, RtSeen, SaSeen
  <2>4. QED  BY <2>3 DEF ReadsFit
<1>3. ShownFieldsAdmitted'
  BY <1>1 DEF ShownFieldsAdmitted
<1>4. WithheldFieldsExcluded'
  BY <1>1 DEF WithheldFieldsExcluded
<1>5. QED  BY <1>2, <1>3, <1>4

LEMMA ClickKeeps ==
    ASSUME FilterInv, NEW c \in Criteria, ClickTree(c)
    PROVE  FilterInv'
<1> DEFINE w == [on |-> TRUE, rt |-> c.rt, sa |-> c.sa]
<1>1. /\ gui = "idle" /\ gui' = "storeSa" /\ want' = w /\ seen' = seen \cup {w}
      /\ filterRt' = w.rt /\ w.on = TRUE
      /\ UNCHANGED <<monitor, decoded, filterEnabled, filterSa, chosen>>
  BY DEF ClickTree, parserVars
<1> HIDE DEF w
<1>2. AtomicsFollow' /\ SeenInForce'
  BY <1>1 DEF FilterInv, AtomicsFollow, SeenInForce, Changing, Callback
<1>3. monitor \in Reading => RtSeen(filterRt)' /\ SaSeen(filterSa)'
  BY <1>1 DEF FilterInv, ReadsFit, RtSeen, SaSeen
<1>4. ReadsFit' /\ ShownFieldsAdmitted' /\ WithheldFieldsExcluded'
  BY <1>1, <1>3, DecisionStays DEF FilterInv
<1>5. QED  BY <1>2, <1>4 DEF FilterInv

LEMMA StoreKeeps ==
    ASSUME FilterInv, StoreSa
    PROVE  FilterInv'
<1>1. /\ gui = "storeSa" /\ gui' = "enable" /\ filterSa' = want.sa
      /\ UNCHANGED <<monitor, decoded, filterEnabled, filterRt, want, chosen, seen>>
  BY DEF StoreSa, parserVars
<1>2. AtomicsFollow' /\ SeenInForce'
  BY <1>1 DEF FilterInv, AtomicsFollow, SeenInForce, Changing
<1>3. monitor \in Reading => RtSeen(filterRt)' /\ SaSeen(filterSa)'
  <2>1. monitor \in Reading => want \in seen /\ want.on = TRUE
    BY <1>1 DEF FilterInv, AtomicsFollow, SeenInForce, Changing, Callback, Reading
  <2>2. QED  BY <1>1, <2>1 DEF FilterInv, ReadsFit, RtSeen, SaSeen
<1>4. ReadsFit' /\ ShownFieldsAdmitted' /\ WithheldFieldsExcluded'
  BY <1>1, <1>3, DecisionStays DEF FilterInv
<1>5. QED  BY <1>2, <1>4 DEF FilterInv

LEMMA EnableKeeps ==
    ASSUME FilterInv, EnableFilter
    PROVE  FilterInv'
<1>1. /\ gui = "enable" /\ gui' = "idle" /\ filterEnabled' = TRUE /\ chosen' = want
      /\ UNCHANGED <<monitor, decoded, filterRt, filterSa, want, seen>>
  BY DEF EnableFilter, parserVars
<1>2. AtomicsFollow' /\ SeenInForce'
  BY <1>1 DEF FilterInv, AtomicsFollow, SeenInForce, Changing
<1>3. monitor \in Reading => RtSeen(filterRt)' /\ SaSeen(filterSa)'
  BY <1>1 DEF FilterInv, ReadsFit, RtSeen, SaSeen
<1>4. ReadsFit' /\ ShownFieldsAdmitted' /\ WithheldFieldsExcluded'
  BY <1>1, <1>3, DecisionStays DEF FilterInv
<1>5. QED  BY <1>2, <1>4 DEF FilterInv

LEMMA ClearKeeps ==
    ASSUME FilterInv, ClearFilter
    PROVE  FilterInv'
<1>1. /\ gui = "idle" /\ gui' = gui /\ filterEnabled' = FALSE /\ chosen' = NoFilter
      /\ seen' = seen \cup {NoFilter} /\ NoFilter.on = FALSE
      /\ UNCHANGED <<monitor, decoded, filterRt, filterSa, want>>
  BY DEF ClearFilter, lifeVars, parserVars, NoFilter
<1>2. AtomicsFollow' /\ SeenInForce'
  BY <1>1 DEF AtomicsFollow, SeenInForce, Changing
<1>3. monitor \in Reading => RtSeen(filterRt)' /\ SaSeen(filterSa)'
  BY <1>1 DEF FilterInv, ReadsFit, RtSeen, SaSeen
<1>4. ReadsFit' /\ ShownFieldsAdmitted' /\ WithheldFieldsExcluded'
  BY <1>1, <1>3, DecisionStays DEF FilterInv
<1>5. QED  BY <1>2, <1>4 DEF FilterInv

LEMMA DecodeKeeps ==
    ASSUME FilterInv, ParseTurn
    PROVE  FilterInv'
<1>1. monitor = "parse" /\ gui' = gui
      /\ UNCHANGED <<filterEnabled, filterRt, filterSa, want, chosen>>
  BY DEF ParseTurn, lifeVars, filterVars
<1>2. AtomicsFollow'
  BY <1>1 DEF FilterInv, AtomicsFollow, Changing
<1>3. monitor' \in {"parse", "flush", "filter"}
  BY <1>1 DEF ParseTurn, Goto
<1>4. SeenInForce'
  <2>1. CASE monitor' = "filter"
    <3>1. seen' = {chosen} \cup (IF gui \in {"storeSa", "enable"} THEN {want} ELSE {})
      BY <1>1, <2>1 DEF ParseTurn, Goto
    <3>2. QED  BY <1>1, <3>1 DEF SeenInForce, Changing
  <2>2. CASE monitor' # "filter"
    BY <1>3, <2>2 DEF SeenInForce, Callback
  <2>3. QED  BY <2>1, <2>2
<1>5. ReadsFit' /\ ShownFieldsAdmitted' /\ WithheldFieldsExcluded'
  BY <1>3 DEF ReadsFit, Reading, ShownFieldsAdmitted, WithheldFieldsExcluded
<1>6. QED  BY <1>2, <1>4, <1>5 DEF FilterInv

\* The transaction may be shown, or withheld, on what was found.
MayShow ==
    \/ \E f \in seen : ~f.on
    \/ /\ \E f \in seen : f.on /\ f.rt \in {-1, RtOf(Trans.cmd1)}
       /\ \E f \in seen : f.on /\ f.sa \in {-1, SaOf(Trans.cmd1)}
MayWithhold ==
    \E f, g \in seen :
        /\ f.on /\ g.on
        /\ \/ f.rt # -1 /\ g.rt # RtOf(Trans.cmd1)
           \/ f.sa # -1 /\ g.sa # SaOf(Trans.cmd1)

LEMMA Findings ==
    /\ RtPassed /\ (SaSeen(-1) \/ SaSeen(SaOf(Trans.cmd1))) => MayShow
    /\ \A r : RtAsked /\ RtSeen(r) /\ r # RtOf(Trans.cmd1) => MayWithhold
    /\ \A a : SaAsked /\ SaSeen(a) /\ a # SaOf(Trans.cmd1) => MayWithhold
<1>1. ASSUME RtPassed, SaSeen(-1) \/ SaSeen(SaOf(Trans.cmd1)) PROVE MayShow
  BY <1>1 DEF RtPassed, RtSeen, SaSeen, MayShow
<1>2. ASSUME NEW r, RtAsked, RtSeen(r), r # RtOf(Trans.cmd1) PROVE MayWithhold
  BY <1>2 DEF RtAsked, RtSeen, MayWithhold
<1>3. ASSUME NEW a, SaAsked, SaSeen(a), a # SaOf(Trans.cmd1) PROVE MayWithhold
  BY <1>3 DEF SaAsked, SaSeen, MayWithhold
<1>4. QED  BY <1>1, <1>2, <1>3

\* One read of an atomic: what is read belongs to a filter that was in force.
LEMMA ReadKeeps ==
    ASSUME FilterInv, FilterRead
    PROVE  FilterInv'
<1>1. UNCHANGED <<gui, filterEnabled, filterRt, filterSa, want, chosen, seen, decoded>>
  BY DEF FilterRead, lifeVars, filterVars, parserVars
<1>2. monitor \in Callback
  BY DEF FilterRead, Callback
<1>3. AtomicsFollow' /\ SeenInForce'
  BY <1>1, <1>2 DEF FilterInv, AtomicsFollow, SeenInForce, Changing
<1>4. Trans' = Trans
  BY <1>1 DEF Trans
<1>5. /\ monitor \in Reading => RtSeen(filterRt) /\ SaSeen(filterSa)
      /\ monitor = "rtMatch" => RtAsked
      /\ monitor \in {"saSet", "saMatch"} => RtPassed
      /\ monitor = "saMatch" => SaAsked
  BY DEF FilterInv, ReadsFit
<1>6. /\ monitor' = "append" => MayShow
      /\ monitor' = "drop" => MayWithhold
      /\ monitor' \in Reading => RtSeen(filterRt) /\ SaSeen(filterSa)
      /\ monitor' = "rtMatch" => RtAsked
      /\ monitor' \in {"saSet", "saMatch"} => RtPassed
      /\ monitor' = "saMatch" => SaAsked
  <2>1. CASE monitor = "filter" /\ ~filterEnabled
    <3>1. monitor' = "append"
      BY <2>1 DEF FilterRead, Goto
    <3>2. chosen.on = FALSE /\ chosen \in seen
      BY <1>2, <2>1 DEF FilterInv, AtomicsFollow, SeenInForce
    <3>3. QED  BY <3>1, <3>2 DEF MayShow, Reading
  <2>2. CASE monitor = "filter" /\ filterEnabled
    <3>1. monitor' = "rtSet"
      BY <2>2 DEF FilterRead, Goto
    <3>2. RtSeen(filterRt) /\ SaSeen(filterSa)
      BY <1>2, <2>2 DEF FilterInv, AtomicsFollow, SeenInForce, Changing, RtSeen, SaSeen
    <3>3. QED  BY <3>1, <3>2
  <2>3. CASE monitor = "rtSet"
    <3>1. monitor' = IF filterRt # -1 THEN "rtMatch" ELSE "saSet"
      BY <2>3 DEF FilterRead, Goto
    <3>2. QED  BY <1>5, <2>3, <3>1 DEF Reading, RtAsked, RtPassed
  <2>4. CASE monitor = "rtMatch"
    <3>1. monitor' = IF RtOf(Trans.cmd1) # filterRt THEN "drop" ELSE "saSet"
      BY <2>4 DEF FilterRead, Goto
    <3>2. QED  BY <1>5, <2>4, <3>1, Findings DEF Reading, RtPassed
  <2>5. CASE monitor = "saSet"
    <3>1. monitor' = IF filterSa # -1 THEN "saMatch" ELSE "append"
      BY <2>5 DEF FilterRead, Goto
    <3>2. QED  BY <1>5, <2>5, <3>1, Findings DEF Reading, SaAsked
  <2>6. CASE monitor = "saMatch"
    <3>1. monitor' = IF SaOf(Trans.cmd1) # filterSa THEN "drop" ELSE "append"
      BY <2>6 DEF FilterRead, Goto
    <3>2. QED  BY <1>5, <2>6, <3>1, Findings DEF Reading
  <2>7. QED  BY <2>1, <2>2, <2>3, <2>4, <2>5, <2>6 DEF FilterRead
<1>7. ReadsFit'
  <2>1. /\ \A r : RtSeen(r)' <=> RtSeen(r)
        /\ \A a : SaSeen(a)' <=> SaSeen(a)
        /\ (RtAsked' <=> RtAsked) /\ (RtPassed' <=> RtPassed) /\ (SaAsked' <=> SaAsked)
    BY <1>1, <1>4 DEF RtSeen, SaSeen, RtAsked, RtPassed, SaAsked
  <2>2. QED  BY <1>1, <1>6, <2>1 DEF ReadsFit, RtSeen, SaSeen
<1>8. ShownFieldsAdmitted' /\ WithheldFieldsExcluded'
  BY <1>1, <1>4, <1>6 DEF ShownFieldsAdmitted, WithheldFieldsExcluded, MayShow, MayWithhold
<1>9. QED  BY <1>3, <1>7, <1>8 DEF FilterInv

LEMMA FilterInvStep ==
    ASSUME LifeInv, FilterInv, [Next]_vars
    PROVE  FilterInv'
<1>1. CASE ParseTurn \/ FilterRead \/ ClearFilter \/ EnableFilter \/ StoreSa
           \/ \E c \in Criteria : ClickTree(c)
  BY <1>1, ClickKeeps, StoreKeeps, EnableKeeps, ClearKeeps, DecodeKeeps, ReadKeeps
<1>2. CASE /\ UNCHANGED <<filterVars, seen>>
           /\ Changing' => Changing /\ gui' = gui
           /\ Changing => Changing' /\ gui' = gui
           /\ monitor' \in Callback => monitor' = monitor /\ decoded' = decoded
  <2>1. UNCHANGED <<filterEnabled, filterRt, filterSa, want, chosen, seen>>
    BY <1>2 DEF filterVars
  <2>2. AtomicsFollow'
    BY <1>2, <2>1 DEF FilterInv, AtomicsFollow, Changing
  <2>3. SeenInForce'
    BY <1>2, <2>1 DEF FilterInv, SeenInForce
  <2>4. CASE monitor' \in Callback
    <3>1. monitor \in Reading => RtSeen(filterRt)' /\ SaSeen(filterSa)'
      BY <2>1 DEF FilterInv, ReadsFit, RtSeen, SaSeen
    <3>2. ReadsFit' /\ ShownFieldsAdmitted' /\ WithheldFieldsExcluded'
      BY <1>2, <2>1, <2>4, <3>1, DecisionStays DEF FilterInv
    <3>3. QED  BY <2>2, <2>3, <3>2 DEF FilterInv
  <2>5. CASE monitor' \notin Callback
    <3>1. ReadsFit' /\ ShownFieldsAdmitted' /\ WithheldFieldsExcluded'
      BY <2>5 DEF ReadsFit, Reading, ShownFieldsAdmitted, WithheldFieldsExcluded, Callback
    <3>2. QED  BY <2>2, <2>3, <3>1 DEF FilterInv
  <2>6. QED  BY <2>4, <2>5
<1>3. QED  BY <1>1, <1>2, DecisionSteps

(***************************************************************************)
(* Whatever the user clicks while the callback reads the filter, each      *)
(* field of a transaction that is shown passed a filter the user had set   *)
(* while it was looked at, or the filter was off then.                     *)
(***************************************************************************)
THEOREM ShownFieldByField == Spec => []ShownFieldsAdmitted
<1>1. MonitorInv /\ FilterInv /\ [Next]_vars => FilterInv'
  BY FilterInvStep DEF MonitorInv
<1>2. Spec => []FilterInv
  BY <1>1, FilterInvInit, MonitorInvHolds, PTL DEF Spec
<1>3. FilterInv => ShownFieldsAdmitted
  BY DEF FilterInv
<1>4. QED  BY <1>2, <1>3, PTL

(***************************************************************************)
(* A transaction is withheld only on account of a field for which filters  *)
(* the user had set while it was looked at ask for a value, and not for    *)
(* the transaction's, whatever the user clicks.                            *)
(***************************************************************************)
THEOREM WithheldForOneField == Spec => []WithheldFieldsExcluded
<1>1. MonitorInv /\ FilterInv /\ [Next]_vars => FilterInv'
  BY FilterInvStep DEF MonitorInv
<1>2. Spec => []FilterInv
  BY <1>1, FilterInvInit, MonitorInvHolds, PTL DEF Spec
<1>3. FilterInv => WithheldFieldsExcluded
  BY DEF FilterInv
<1>4. QED  BY <1>2, <1>3, PTL
============================================================================
