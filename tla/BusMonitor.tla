----------------------------- MODULE BusMonitor -----------------------------
(***************************************************************************)
(* BM and TcpProxy: the passive bus monitor.                               *)
(*                                                                         *)
(* Three threads work on it.  The GUI thread calls start(), stop() and the *)
(* filter setters.  The capture thread runs TcpProxy::captureLoop and      *)
(* pushes the payload of every sniffed segment on m_payloadQueue.  The     *)
(* monitor thread runs monitorThreadFunc: it pops one payload, runs the    *)
(* parser on it, filters and formats each transaction into the pending     *)
(* text, and flushes that text to the GUI at most every 50 ms.             *)
(*                                                                         *)
(* A step of a thread is what it does between two accesses to state it     *)
(* shares with another thread.  The parser is the ProtocolParser module,   *)
(* driven only by the monitor thread and by start().                       *)
(***************************************************************************)
EXTENDS CommandWord, Sequences

CONSTANTS
    MaxWords,           \* data words in the fixed payload (32 in the code)
    Traffic,            \* payloads of the TCP segments that cross the bus
    ReadMax,            \* size of the monitor thread's buffer (4096)
    FilterSetups,       \* outcomes of pcap_compile and pcap_setfilter
    Criteria,           \* [rt, sa] pairs a click in the tree may ask for
    MaxStarts,          \* bound on the calls of start()
    MaxFilterChanges    \* bound on the changes of the filter

\* What the filter asks of an RT or SA field: a value, or -1 for any.
Criterion == -1..31

ASSUME MaxWordsAssumption == MaxWords \in Nat \ {0}
ASSUME TrafficAssumption == Traffic \in Seq(Seq(Byte) \ {<<>>})
ASSUME ReadMaxAssumption == ReadMax \in Nat \ {0}
ASSUME FilterSetupsAssumption ==
    "ok" \in FilterSetups /\ FilterSetups \subseteq {"ok", "fail"}
ASSUME CriteriaAssumption == Criteria \subseteq [rt : Criterion, sa : Criterion]
ASSUME BoundsAssumption == MaxStarts \in Nat /\ MaxFilterChanges \in Nat

VARIABLES
    op,                 \* the BM call the GUI thread is in: none, start, stop
    gui,                \* where the GUI thread is in it
    active,             \* m_monitoringActive
    shutdownRequested,  \* m_shutdownRequested
    running,            \* TcpProxy::m_running
    handle,             \* m_pcapHandle: null, open, or closed but not null
    capture,            \* m_captureThread: none when not joinable
    monitor,            \* m_monitorThread: none when not joinable
    payloadQueue,       \* m_payloadQueue, as indices into Traffic
    buffer,             \* the payload the monitor thread works on
    pending,            \* m_pendingMessages
    pendingKeys,        \* m_pendingActiveKeys
    flushDue,           \* more than 50 ms have passed since m_lastGuiUpdate
    relayed,            \* messages passed to the GUI callback, ever
    relayedKeys,        \* RT/SA pairs passed to the tree callback, ever
    filterEnabled,      \* m_filterEnabled
    filterRt,           \* m_filterRt
    filterSa,           \* m_filterSa
    want,               \* the criteria the GUI thread is installing
    nextSegment,        \* the next segment to cross the bus
    session,            \* how often start() has reset the parser
    first,              \* the first segment that could belong to this session
    taken,              \* payloads this session's parser must be given
    filterChanges,      \* how often the filter was changed
    chosen,             \* the filter the user sees installed
    seen                \* filters in force since the last decode

VARIABLES accumulator, parsing, received, consumed, decoded

parserVars == <<accumulator, parsing, received, consumed, decoded>>
lifeVars == <<op, gui, active, shutdownRequested, running, handle, session>>
dataVars == <<pending, pendingKeys, flushDue, relayed, relayedKeys>>
filterVars == <<filterEnabled, filterRt, filterSa, want, filterChanges, chosen>>
busVars == <<payloadQueue, nextSegment, first, taken>>
vars == <<lifeVars, capture, monitor, busVars, buffer, dataVars, filterVars,
          seen, parserVars>>

\* What receiveData copies out of a payload: the rest of it is gone.
ReadBytes(k) ==
    LET p == Traffic[k]
    IN  SubSeq(p, 1, IF Len(p) < ReadMax THEN Len(p) ELSE ReadMax)

Parser == INSTANCE ProtocolParser
              WITH Buffers <- {ReadBytes(k) : k \in 1..Len(Traffic)}

NoFilter == [on |-> FALSE, rt |-> -1, sa |-> -1]
Filter == [on : BOOLEAN, rt : Criterion, sa : Criterion]
Key == (0..31) \X (0..31)
Message == [session : Nat, segment : 1..Len(Traffic), at : Nat, cmd1 : Word]

GuiAt == {"idle", "signal", "joinCapture", "joinMonitor", "open", "spawn",
          "storeSa", "enable"}
CaptureAt == {"none", "check", "dispatch", "exited"}
Callback == {"filter", "rtSet", "rtMatch", "saSet", "saMatch", "append", "drop"}
Working == {"check", "receive", "parse", "flush", "leaving", "left"} \cup Callback
MonitorAt == {"none", "exited"} \cup Working

TypeOK ==
    /\ op \in {"none", "start", "stop"}
    /\ gui \in GuiAt
    /\ active \in BOOLEAN /\ shutdownRequested \in BOOLEAN /\ running \in BOOLEAN
    /\ handle \in {"null", "open", "closed"}
    /\ capture \in CaptureAt
    /\ monitor \in MonitorAt
    /\ payloadQueue \in Seq(1..Len(Traffic))
    /\ buffer \in 0..Len(Traffic)
    /\ pending \in Seq(Message) /\ relayed \in Seq(Message)
    /\ pendingKeys \subseteq Key /\ relayedKeys \subseteq Key
    /\ flushDue \in BOOLEAN
    /\ filterEnabled \in BOOLEAN
    /\ filterRt \in Criterion /\ filterSa \in Criterion
    /\ want \in Filter /\ chosen \in Filter /\ seen \subseteq Filter
    /\ nextSegment \in 1..(Len(Traffic) + 1)
    /\ session \in Nat /\ filterChanges \in Nat
    /\ first \in 1..(Len(Traffic) + 1)
    /\ taken \in Seq(1..Len(Traffic))
    /\ Parser!TypeOK

Init ==
    /\ op = "none" /\ gui = "idle"
    /\ active = FALSE /\ shutdownRequested = FALSE /\ running = FALSE
    /\ handle = "null"
    /\ capture = "none" /\ monitor = "none"
    /\ payloadQueue = <<>> /\ buffer = 0
    /\ pending = <<>> /\ pendingKeys = {} /\ flushDue = FALSE
    /\ relayed = <<>> /\ relayedKeys = {}
    /\ filterEnabled = FALSE /\ filterRt = -1 /\ filterSa = -1
    /\ want = NoFilter /\ chosen = NoFilter /\ seen = {}
    /\ nextSegment = 1 /\ session = 0 /\ filterChanges = 0
    /\ first = 1 /\ taken = <<>>
    /\ Parser!Init

----------------------------------------------------------------------------
(* The GUI thread: start() and stop().                                     *)

\* start() while monitoring returns at once.
StartCall ==
    /\ gui = "idle" /\ ~active
    /\ session < MaxStarts
    /\ op' = "start" /\ gui' = "signal"
    /\ UNCHANGED <<active, shutdownRequested, running, handle, session, capture,
                   monitor, busVars, buffer, dataVars, filterVars, seen, parserVars>>

\* stop() while not monitoring returns at once.
StopCall ==
    /\ gui = "idle" /\ active
    /\ op' = "stop" /\ gui' = "signal"
    /\ shutdownRequested' = TRUE
    /\ UNCHANGED <<active, running, handle, session, capture, monitor, busVars,
                   buffer, dataVars, filterVars, seen, parserVars>>

\* Wrong variant: relies on pcap_breakloop alone.
BreakLoopOnly ==
    /\ gui = "signal"
    /\ gui' = "joinCapture"
    /\ UNCHANGED <<op, active, shutdownRequested, running, handle, session, capture,
                   monitor, busVars, buffer, dataVars, filterVars, seen, parserVars>>

\* terminate(): m_running = false, then pcap_breakloop on a non-null handle.
Signal ==
    /\ gui = "signal"
    /\ running' = FALSE
    /\ gui' = "joinCapture"
    /\ UNCHANGED <<op, active, shutdownRequested, handle, session, capture,
                   monitor, busVars, buffer, dataVars, filterVars, seen, parserVars>>

\* Wrong variant: the capture thread is not joined.
CloseWithoutJoin ==
    /\ gui = "joinCapture"
    /\ handle' = "null"
    /\ gui' = "joinMonitor"
    /\ UNCHANGED <<op, active, shutdownRequested, running, session, capture, monitor,
                   busVars, buffer, dataVars, filterVars, seen, parserVars>>

\* terminate(): join the capture thread, then close the handle and null it.
JoinCapture ==
    /\ gui = "joinCapture"
    /\ capture \in {"none", "exited"}
    /\ capture' = "none"
    /\ handle' = "null"
    /\ gui' = "joinMonitor"
    /\ UNCHANGED <<op, active, shutdownRequested, running, session, monitor,
                   busVars, buffer, dataVars, filterVars, seen, parserVars>>

\* Wrong variant: stop() does not wait for the monitor thread.
StopWithoutJoin ==
    /\ gui = "joinMonitor" /\ op = "stop"
    /\ active' = FALSE /\ shutdownRequested' = FALSE
    /\ op' = "none" /\ gui' = "idle"
    /\ UNCHANGED <<running, handle, session, capture, monitor, busVars, buffer,
                   dataVars, filterVars, seen, parserVars>>

\* stop(): join the monitor thread and clear both flags.
StopReturns ==
    /\ gui = "joinMonitor" /\ op = "stop"
    /\ monitor \in {"none", "exited"}
    /\ monitor' = "none"
    /\ active' = FALSE /\ shutdownRequested' = FALSE
    /\ op' = "none" /\ gui' = "idle"
    /\ UNCHANGED <<running, handle, session, capture, busVars, buffer, dataVars,
                   filterVars, seen, parserVars>>

\* Wrong variant: the parser's accumulator survives.
ResetKeepsBytes ==
    /\ gui = "joinMonitor" /\ op = "start"
    /\ monitor \in {"none", "exited"}
    /\ monitor' = "none"
    /\ received' = <<>> /\ consumed' = 0 /\ decoded' = <<>>
    /\ pending' = <<>> /\ pendingKeys' = {} /\ flushDue' = FALSE
    /\ session' = session + 1
    /\ first' = nextSegment
    /\ taken' = payloadQueue
    /\ gui' = "open"
    /\ UNCHANGED <<op, active, shutdownRequested, running, handle, capture,
                   payloadQueue, nextSegment, buffer, relayed, relayedKeys,
                   filterVars, seen, accumulator, parsing>>

\* start(): join the monitor thread, reset the parser, drop the pending text.
\* Nothing empties m_payloadQueue: what is in it goes to the new session.
ResetSession ==
    /\ gui = "joinMonitor" /\ op = "start"
    /\ monitor \in {"none", "exited"}
    /\ monitor' = "none"
    /\ Parser!Reset
    /\ pending' = <<>> /\ pendingKeys' = {} /\ flushDue' = FALSE
    /\ session' = session + 1
    /\ first' = nextSegment
    /\ taken' = payloadQueue
    /\ gui' = "open"
    /\ UNCHANGED <<op, active, shutdownRequested, running, handle, capture,
                   payloadQueue, nextSegment, buffer, relayed, relayedKeys,
                   filterVars, seen>>

\* startSniffing(): pcap_open_live fails.
OpenFails ==
    /\ gui = "open"
    /\ handle' = "null"
    /\ op' = "none" /\ gui' = "idle"
    /\ UNCHANGED <<active, shutdownRequested, running, session, capture, monitor,
                   busVars, buffer, dataVars, filterVars, seen, parserVars>>

\* startSniffing(): the capture filter cannot be compiled or installed.  The
\* handle is closed and m_pcapHandle keeps pointing at it.
FilterSetupFails ==
    /\ gui = "open" /\ "fail" \in FilterSetups
    /\ handle' = "closed"
    /\ op' = "none" /\ gui' = "idle"
    /\ UNCHANGED <<active, shutdownRequested, running, session, capture, monitor,
                   busVars, buffer, dataVars, filterVars, seen, parserVars>>

SniffingStarts ==
    /\ gui = "open" /\ "ok" \in FilterSetups
    /\ handle' = "open"
    /\ running' = TRUE
    /\ capture' = "check"
    /\ gui' = "spawn"
    /\ UNCHANGED <<op, active, shutdownRequested, session, monitor, busVars,
                   buffer, dataVars, filterVars, seen, parserVars>>

\* start(): the flags, then the monitor thread, the only other reader of them.
SpawnMonitor ==
    /\ gui = "spawn"
    /\ active' = TRUE /\ shutdownRequested' = FALSE
    /\ monitor' = "check"
    /\ op' = "none" /\ gui' = "idle"
    /\ UNCHANGED <<running, handle, session, capture, busVars, buffer, dataVars,
                   filterVars, seen, parserVars>>

Lifecycle ==
    \/ Signal \/ JoinCapture \/ StopReturns \/ ResetSession
    \/ OpenFails \/ FilterSetupFails \/ SniffingStarts \/ SpawnMonitor

----------------------------------------------------------------------------
(* The GUI thread: the filter setters.                                     *)

\* A click on a tree item: setFilterCriteria stores the RT, ...
ClickTree(c) ==
    /\ gui = "idle"
    /\ filterChanges < MaxFilterChanges
    /\ filterChanges' = filterChanges + 1
    /\ want' = [on |-> TRUE, rt |-> c.rt, sa |-> c.sa]
    /\ seen' = seen \cup {want'}
    /\ filterRt' = c.rt
    /\ gui' = "storeSa"
    /\ UNCHANGED <<op, active, shutdownRequested, running, handle, session, capture,
                   monitor, busVars, buffer, dataVars, filterEnabled, filterSa,
                   chosen, parserVars>>

\* ... then the SA, ...
StoreSa ==
    /\ gui = "storeSa"
    /\ filterSa' = want.sa
    /\ gui' = "enable"
    /\ UNCHANGED <<op, active, shutdownRequested, running, handle, session, capture,
                   monitor, busVars, buffer, dataVars, filterEnabled, filterRt,
                   want, filterChanges, chosen, seen, parserVars>>

\* ... and the click handler calls enableFilter(true).
EnableFilter ==
    /\ gui = "enable"
    /\ filterEnabled' = TRUE
    /\ chosen' = want
    /\ gui' = "idle"
    /\ UNCHANGED <<op, active, shutdownRequested, running, handle, session, capture,
                   monitor, busVars, buffer, dataVars, filterRt, filterSa, want,
                   filterChanges, seen, parserVars>>

\* The filter button: enableFilter(false); the criteria stay.
ClearFilter ==
    /\ gui = "idle" /\ filterEnabled
    /\ filterChanges < MaxFilterChanges
    /\ filterChanges' = filterChanges + 1
    /\ filterEnabled' = FALSE
    /\ chosen' = NoFilter
    /\ seen' = seen \cup {NoFilter}
    /\ UNCHANGED <<lifeVars, capture, monitor, busVars, buffer, dataVars, filterRt,
                   filterSa, want, parserVars>>

FilterStep == StoreSa \/ EnableFilter

----------------------------------------------------------------------------
(* The capture thread, and the bus it listens to.                          *)

CaptureCheck ==
    /\ capture = "check"
    /\ capture' = IF running THEN "dispatch" ELSE "exited"
    /\ UNCHANGED <<lifeVars, monitor, busVars, buffer, dataVars, filterVars, seen,
                   parserVars>>

\* packetHandler: push the payload of the captured segment.
PacketHandler ==
    /\ capture = "dispatch"
    /\ nextSegment <= Len(Traffic)
    /\ payloadQueue' = Append(payloadQueue, nextSegment)
    /\ taken' = Append(taken, nextSegment)
    /\ nextSegment' = nextSegment + 1
    /\ UNCHANGED <<lifeVars, capture, monitor, first, buffer, dataVars, filterVars,
                   seen, parserVars>>

\* pcap_dispatch returns: a buffer is done, 100 ms are over, or breakloop.
DispatchReturns ==
    /\ capture = "dispatch"
    /\ capture' = "check"
    /\ UNCHANGED <<lifeVars, monitor, busVars, buffer, dataVars, filterVars, seen,
                   parserVars>>

\* A segment crosses the bus while no capture is open.
SegmentUnseen ==
    /\ handle # "open"
    /\ nextSegment <= Len(Traffic)
    /\ nextSegment' = nextSegment + 1
    /\ UNCHANGED <<lifeVars, capture, monitor, payloadQueue, first, taken, buffer,
                   dataVars, filterVars, seen, parserVars>>

CaptureStep == CaptureCheck \/ DispatchReturns

----------------------------------------------------------------------------
(* The monitor thread.                                                     *)

Goto(at) == monitor' = at

MonitorCheck ==
    /\ monitor = "check"
    /\ Goto(IF shutdownRequested THEN "leaving" ELSE "receive")
    /\ UNCHANGED <<lifeVars, capture, busVars, buffer, dataVars, filterVars, seen,
                   parserVars>>

\* receiveData finds the queue empty.
NothingToRead ==
    /\ monitor = "receive" /\ payloadQueue = <<>>
    /\ Goto("check")
    /\ UNCHANGED <<lifeVars, capture, busVars, buffer, dataVars, filterVars, seen,
                   parserVars>>

\* Wrong variant: front() without pop().
ReceiveAgain ==
    /\ monitor = "receive" /\ payloadQueue # <<>>
    /\ buffer' = Head(payloadQueue)
    /\ Parser!ParseStream(ReadBytes(buffer'))
    /\ Len(received) < 64      \* keeps the variant finite
    /\ Goto("parse")
    /\ UNCHANGED <<lifeVars, capture, busVars, dataVars, filterVars, seen>>

\* receiveData pops a payload; parseStream takes what fits in the buffer.
ReceiveData ==
    /\ monitor = "receive" /\ payloadQueue # <<>>
    /\ payloadQueue' = Tail(payloadQueue)
    /\ buffer' = Head(payloadQueue)
    /\ Parser!ParseStream(ReadBytes(buffer'))
    /\ Goto("parse")
    /\ UNCHANGED <<lifeVars, capture, nextSegment, first, taken, dataVars,
                   filterVars, seen>>

\* A turn of the parser's loop; a decoded packet enters the callback.
ParseTurn ==
    /\ monitor = "parse"
    /\ \/ (Parser!SkipByte \/ Parser!RejectMode) /\ UNCHANGED <<monitor, seen>>
       \/ /\ Parser!DecodePacket
          /\ Goto("filter")
          /\ seen' = {chosen} \cup (IF gui \in {"storeSa", "enable"} THEN {want} ELSE {})
       \/ Parser!AwaitBytes /\ Goto("flush") /\ UNCHANGED seen
    /\ UNCHANGED <<lifeVars, capture, busVars, buffer, dataVars, filterVars>>

\* The transaction the callback was called with.
Trans == decoded[Len(decoded)]

\* Wrong variants: the SA criterion is ignored; the filter is never off.
FilterIgnoresSa ==
    /\ \/ monitor = "filter"
          /\ Goto(IF filterEnabled THEN "rtSet" ELSE "append")
       \/ monitor = "rtSet"
          /\ Goto(IF filterRt # -1 THEN "rtMatch" ELSE "append")
       \/ monitor = "rtMatch"
          /\ Goto(IF RtOf(Trans.cmd1) # filterRt THEN "drop" ELSE "append")
    /\ UNCHANGED <<lifeVars, capture, busVars, buffer, dataVars, filterVars, seen,
                   parserVars>>

FilterAlways ==
    /\ \/ monitor = "filter" /\ Goto("rtSet")
       \/ monitor = "rtSet"
          /\ Goto(IF filterRt \notin {-1, RtOf(Trans.cmd1)} THEN "drop" ELSE "saSet")
       \/ monitor = "saSet"
          /\ Goto(IF filterSa \notin {-1, SaOf(Trans.cmd1)} THEN "drop" ELSE "append")
    /\ UNCHANGED <<lifeVars, capture, busVars, buffer, dataVars, filterVars, seen,
                   parserVars>>

\* The callback reads the filter without m_filterMutex, one atomic at a time:
\* m_filterEnabled, then m_filterRt and m_filterSa twice each.
FilterRead ==
    /\ \/ monitor = "filter"
          /\ Goto(IF filterEnabled THEN "rtSet" ELSE "append")
       \/ monitor = "rtSet"
          /\ Goto(IF filterRt # -1 THEN "rtMatch" ELSE "saSet")
       \/ monitor = "rtMatch"
          /\ Goto(IF RtOf(Trans.cmd1) # filterRt THEN "drop" ELSE "saSet")
       \/ monitor = "saSet"
          /\ Goto(IF filterSa # -1 THEN "saMatch" ELSE "append")
       \/ monitor = "saMatch"
          /\ Goto(IF SaOf(Trans.cmd1) # filterSa THEN "drop" ELSE "append")
    /\ UNCHANGED <<lifeVars, capture, busVars, buffer, dataVars, filterVars, seen,
                   parserVars>>

\* The callback returns early: the filter withholds the transaction.
DropFiltered ==
    /\ monitor = "drop"
    /\ Goto("parse")
    /\ UNCHANGED <<lifeVars, capture, busVars, buffer, dataVars, filterVars, seen,
                   parserVars>>

\* formatAndRelayTransaction, then the text and the key are made pending.
AppendPending ==
    /\ monitor = "append"
    /\ pending' = Append(pending, [session |-> session, segment |-> buffer,
                                   at |-> Trans.at, cmd1 |-> Trans.cmd1])
    /\ pendingKeys' = pendingKeys \cup {<<RtOf(Trans.cmd1), SaOf(Trans.cmd1)>>}
    /\ Goto("parse")
    /\ UNCHANGED <<lifeVars, capture, busVars, buffer, flushDue, relayed,
                   relayedKeys, filterVars, seen, parserVars>>

\* Wrong variant: the flushed text is not cleared.
FlushKeeps ==
    /\ monitor = "flush" /\ flushDue
    /\ relayed' = relayed \o pending
    /\ relayedKeys' = relayedKeys \cup pendingKeys
    /\ flushDue' = FALSE
    /\ Goto("check")
    /\ UNCHANGED <<lifeVars, capture, busVars, buffer, pending, pendingKeys,
                   filterVars, seen, parserVars>>

\* End of processAndRelayData: flush if the last flush is over 50 ms ago.
Flush ==
    /\ monitor = "flush" /\ flushDue
    /\ relayed' = relayed \o pending
    /\ relayedKeys' = relayedKeys \cup pendingKeys
    /\ pending' = <<>> /\ pendingKeys' = {} /\ flushDue' = FALSE
    /\ Goto("check")
    /\ UNCHANGED <<lifeVars, capture, busVars, buffer, filterVars, seen, parserVars>>

FlushLater ==
    /\ monitor = "flush" /\ ~flushDue
    /\ Goto("check")
    /\ UNCHANGED <<lifeVars, capture, busVars, buffer, dataVars, filterVars, seen,
                   parserVars>>

\* After the loop the thread clears m_shutdownRequested, ...
MonitorLeaving ==
    /\ monitor = "leaving"
    /\ shutdownRequested' = FALSE
    /\ Goto("left")
    /\ UNCHANGED <<op, gui, active, running, handle, session, capture, busVars,
                   buffer, dataVars, filterVars, seen, parserVars>>

\* ... then m_monitoringActive, and ends.
MonitorExits ==
    /\ monitor = "left"
    /\ active' = FALSE
    /\ Goto("exited")
    /\ UNCHANGED <<op, gui, shutdownRequested, running, handle, session, capture,
                   busVars, buffer, dataVars, filterVars, seen, parserVars>>

MonitorStep ==
    \/ MonitorCheck \/ NothingToRead \/ ReceiveData \/ ParseTurn
    \/ FilterRead \/ DropFiltered \/ AppendPending \/ Flush \/ FlushLater
    \/ MonitorLeaving \/ MonitorExits

\* Time passes: the next flush is due.
Tick ==
    /\ ~flushDue
    /\ flushDue' = TRUE
    /\ UNCHANGED <<lifeVars, capture, monitor, busVars, buffer, pending, pendingKeys,
                   relayed, relayedKeys, filterVars, seen, parserVars>>

Next ==
    \/ StartCall \/ StopCall \/ Lifecycle
    \/ (\E c \in Criteria : ClickTree(c)) \/ FilterStep \/ ClearFilter
    \/ CaptureStep \/ PacketHandler \/ SegmentUnseen
    \/ MonitorStep \/ Tick

Spec == Init /\ [][Next]_vars

(***************************************************************************)
(* Every thread that can take a step takes one.  pcap_dispatch returns     *)
(* after its 100 ms timeout at the latest, segments that were sent are     *)
(* captured, and time passes.  The user need not do anything.              *)
(***************************************************************************)
FairSpec ==
    /\ Spec
    /\ WF_vars(Lifecycle) /\ WF_vars(FilterStep)
    /\ WF_vars(CaptureStep) /\ SF_vars(PacketHandler)
    /\ WF_vars(MonitorStep) /\ WF_vars(Tick)

----------------------------------------------------------------------------
(* Properties.                                                             *)

MonitorAlive == monitor \in Working
CaptureAlive == capture \in {"check", "dispatch"}

(***************************************************************************)
(* Between two GUI calls the flags, the handle and the two threads agree:  *)
(* isMonitoring() is true exactly when both threads run on an open handle, *)
(* and no stop request is left over to end the next session.               *)
(***************************************************************************)
IdleAgrees ==
    op = "none" =>
        /\ active = MonitorAlive
        /\ active = CaptureAlive
        /\ active = (handle = "open")
        /\ active = running
        /\ ~shutdownRequested

(***************************************************************************)
(* start() never assigns to a std::thread that is still joinable, which    *)
(* would end the program: the capture thread is joined before              *)
(* startSniffing and the monitor thread before it is spawned.              *)
(***************************************************************************)
NoThreadOverwritten ==
    /\ gui = "open" => capture = "none"
    /\ gui = "spawn" => monitor = "none"

(***************************************************************************)
(* The pcap handle is used only while it is open: by pcap_dispatch and     *)
(* packetHandler in the capture thread, however stop() closes it, and by   *)
(* pcap_breakloop and pcap_close in the terminate() of stop().             *)
(***************************************************************************)
HandleUsedOpen ==
    /\ capture = "dispatch" => handle = "open"
    /\ op = "stop" /\ gui \in {"signal", "joinCapture"} => handle = "open"

(***************************************************************************)
(* start() calls terminate() too, after a session or a failed attempt:     *)
(* what it breaks and closes then is no handle that is closed already.     *)
(***************************************************************************)
StartsClean ==
    op = "start" /\ gui \in {"signal", "joinCapture"} => handle # "closed"

(***************************************************************************)
(* The parser and the pending text belong to one thread at a time: start() *)
(* resets them, without the parser having a lock, only when the monitor    *)
(* thread is gone, and never in the middle of parseStream.                 *)
(***************************************************************************)
ParserOwned ==
    /\ parsing => MonitorAlive
    /\ gui = "joinMonitor" /\ op = "start" => monitor = "none"

\* The concatenated payloads of a sequence of segments.
Bytes(segments) ==
    LET upTo[n \in 0..Len(segments)] ==
            IF n = 0 THEN <<>> ELSE upTo[n - 1] \o Traffic[segments[n]]
    IN  upTo[Len(segments)]

(***************************************************************************)
(* The queue between the capture and the monitor thread loses, repeats and *)
(* reorders nothing: what the parser has received followed by what is      *)
(* queued is every payload of the session, byte for byte.  It needs every  *)
(* payload to fit into the monitor thread's 4096-byte buffer.              *)
(***************************************************************************)
QueueLossless == received \o Bytes(payloadQueue) = Bytes(taken)

\* The transaction in the callback, if it has not been made pending yet.
InCallback == IF monitor \in Callback THEN 1 ELSE 0

(***************************************************************************)
(* With no filter set, the messages shown and pending end with the         *)
(* transactions this session's parser decoded: each once, in stream order, *)
(* whatever the flushes and restarts in between, and behind everything     *)
(* that earlier sessions have shown.                                       *)
(***************************************************************************)
ShownAsDecoded ==
    LET shown == relayed \o pending
        handled == Len(decoded) - InCallback
        before == Len(shown) - handled
    IN  filterChanges = 0 =>
            /\ before >= 0
            /\ \A i \in 1..before : shown[i].session < session
            /\ \A i \in 1..handled :
                   /\ shown[before + i].session = session
                   /\ shown[before + i].at = decoded[i].at
                   /\ shown[before + i].cmd1 = decoded[i].cmd1

(***************************************************************************)
(* The RT/SA tree lights up for exactly the messages that are shown.       *)
(***************************************************************************)
TreeMatchesMessages ==
    LET keysOf(ms) == {<<RtOf(ms[i].cmd1), SaOf(ms[i].cmd1)>> : i \in 1..Len(ms)}
    IN  relayedKeys = keysOf(relayed) /\ pendingKeys = keysOf(pending)

(***************************************************************************)
(* A transaction is shown only if each field of the filter lets it pass:   *)
(* while it was looked at the filter was off, or its RT passed a filter    *)
(* that was set and its SA passed a filter that was set.  The fields are   *)
(* read one at a time while clicks store them one at a time, so the two    *)
(* may be different filters; what an earlier filter left behind in the     *)
(* atomics decides nothing.                                                *)
(***************************************************************************)
ShownFieldsAdmitted ==
    monitor = "append" =>
        \/ \E f \in seen : ~f.on
        \/ /\ \E f \in seen : f.on /\ f.rt \in {-1, RtOf(Trans.cmd1)}
           /\ \E f \in seen : f.on /\ f.sa \in {-1, SaOf(Trans.cmd1)}

(***************************************************************************)
(* A transaction is withheld only on account of one field: a filter that   *)
(* was set while it was looked at asks for a value there, and such a       *)
(* filter, perhaps another one, does not ask for the transaction's.        *)
(***************************************************************************)
WithheldFieldsExcluded ==
    monitor = "drop" =>
        \E f, g \in seen :
            /\ f.on /\ g.on
            /\ \/ f.rt # -1 /\ g.rt # RtOf(Trans.cmd1)
               \/ f.sa # -1 /\ g.sa # SaOf(Trans.cmd1)

Admits(f, cmd1) ==
    f.on => f.rt \in {-1, RtOf(cmd1)} /\ f.sa \in {-1, SaOf(cmd1)}

(***************************************************************************)
(* A transaction is shown only if a filter the user had set while it was   *)
(* being looked at admits it.  A click on a tree item of another RT and    *)
(* SA during the reads shows what neither filter admits.                   *)
(***************************************************************************)
ShownWasAdmitted ==
    monitor = "append" => \E f \in seen : Admits(f, Trans.cmd1)

(***************************************************************************)
(* A transaction is withheld only if a filter the user had set while it    *)
(* was being looked at excludes it.  A click on the bus item, which asks   *)
(* for any RT, between the two reads of m_filterRt withholds what both     *)
(* filters admit.                                                          *)
(***************************************************************************)
WithheldWasExcluded ==
    monitor = "drop" => \E f \in seen : ~Admits(f, Trans.cmd1)

(***************************************************************************)
(* A message shown in a session was captured in that session.              *)
(***************************************************************************)
ShownIsFresh == monitor = "append" => buffer >= first

(***************************************************************************)
(* The monitor drives its parser only as ProtocolParser allows, so that    *)
(* what holds of the parser holds of the parser inside the monitor.        *)
(***************************************************************************)
ParserSpec == Parser!Spec

Session == INSTANCE MonitorSession WITH on <- active, Messages <- Message

(***************************************************************************)
(* BM implements MonitorSession: whatever the three threads interleave,    *)
(* the callback gets exactly what a session made pending, in order, only   *)
(* while isMonitoring() is true, and a session starts with nothing         *)
(* pending from the one before.                                            *)
(***************************************************************************)
SessionSpec == Session!Spec

(***************************************************************************)
(* start() and stop() return: the GUI thread never waits forever for the   *)
(* capture or the monitor thread.                                          *)
(***************************************************************************)
CallsReturn == gui # "idle" ~> gui = "idle"

(***************************************************************************)
(* While monitoring goes on, a message that was decoded reaches the GUI.   *)
(***************************************************************************)
PendingIsShown == pending # <<>> /\ active ~> pending = <<>> \/ ~active
============================================================================
