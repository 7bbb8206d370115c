----------------------------- MODULE MonitorView -----------------------------
(***************************************************************************)
(* The windows in front of the bus monitor: the connection panel, and      *)
(* BusMonitorPanel with its message list, RT/SA tree and filter button.    *)
(*                                                                         *)
(* The monitor behind them is MonitorSession, which BusMonitor implements. *)
(* Its callbacks do not touch a window: they post functions with           *)
(* CallAfter, which the event loop runs one by one between the clicks, in  *)
(* the order of posting but at any later time.                             *)
(***************************************************************************)
EXTENDS Integers, SequencesExt

CONSTANTS
    Messages,           \* [rt, sa, wc]; the parser puts all of them on bus A
    Items,              \* items of the tree the user may click
    Ports,              \* numbers the user may type for the port
    MessageLines,       \* lines of text of one message
    Recent,             \* m_uiRecentMessageCount (2000 in the code)
    Slack,              \* lines tolerated above Recent (200)
    TrimEvery,          \* appends between two looks at the list's length (10)
    MaxMessages,        \* bound on the messages made pending and relayed
    MaxClicks           \* bound on the user's clicks

Field == -1..31         \* an RT, SA or mode code; -1 where an item has none
Item == [bus : {"A", "B"}, rt : Field, sa : Field, mc : Field]
NoItem == [bus |-> "none", rt |-> -1, sa |-> -1, mc |-> -1]

ASSUME MessagesAssumption == Messages \subseteq [rt : 0..31, sa : 0..31, wc : 0..31]
ASSUME ItemsAssumption == Items \subseteq Item
ASSUME PortsAssumption == Ports \subseteq Int
ASSUME ListAssumption ==
    /\ MessageLines \in Nat \ {0} /\ Slack \in Nat
    /\ Recent \in Nat \ {0} /\ TrimEvery \in Nat \ {0}

VARIABLES
    on, pending, relayed,   \* the monitor's session
    window,             \* what is shown: the connection panel, the notebook
    asked,              \* the port that was typed
    port,               \* m_port, and the port that is sniffed
    button,             \* the label of m_startStopButton
    label,              \* the item m_filterButton names, if it is enabled
    posted,             \* functions posted with wxTheApp->CallAfter
    list,               \* lines of m_messageList
    appends,            \* checkCounter of appendMessagesToUi, modulo TrimEvery
    lit,                \* green items of the tree
    bold,               \* bold items of the tree
    fresh,              \* RT/SA pairs appended since the tree was last reset
    clearedAt,          \* messages relayed when the list was last cleared
    clicks              \* how often the user clicked

sessionVars == <<on, pending, relayed>>
listVars == <<list, appends, clearedAt>>
treeVars == <<lit, bold, fresh>>
windowVars == <<window, asked, port, button>>
vars == <<sessionVars, windowVars, label, posted, listVars, treeVars, clicks>>

Session == INSTANCE MonitorSession

\* The values of a uint16_t, the type the port is cast to.
PortValues == 65536

SaItem(k) == [bus |-> "A", rt |-> k.rt, sa |-> k.sa, mc |-> -1]
RtItem(k) == [bus |-> "A", rt |-> k.rt, sa |-> -1, mc |-> -1]
BusItem == [bus |-> "A", rt |-> -1, sa |-> -1, mc |-> -1]
ModeCodes == {i \in Item : i.mc # -1}
KeyOf(m) == [rt |-> m.rt, sa |-> m.sa]

Key == [rt : 0..31, sa : 0..31]
Line == Messages \X Nat
Posted == [do : {"append"}, text : Seq(Messages)] \cup [do : {"light"}, key : Key]

TypeOK ==
    /\ on \in BOOLEAN /\ pending \in Seq(Messages) /\ relayed \in Seq(Messages)
    /\ window \in {"connect", "notebook", "closed"}
    /\ asked \in Int /\ port \in 0..(PortValues - 1)
    /\ button \in {"Start", "Stop"}
    /\ label \in Item \cup {NoItem}
    /\ posted \in Seq(Posted)
    /\ list \in Seq(Line) /\ appends \in 0..(TrimEvery - 1)
    /\ lit \subseteq Item /\ bold \subseteq Item /\ fresh \subseteq Key
    /\ clearedAt \in Nat /\ clicks \in Nat

Init ==
    /\ Session!Init
    /\ window = "connect" /\ asked = 0 /\ port = 0 /\ button = "Start"
    /\ label = NoItem
    /\ posted = <<>>
    /\ list = <<>> /\ appends = 0 /\ clearedAt = 0
    /\ lit = {} /\ bold = {} /\ fresh = {}
    /\ clicks = 0

----------------------------------------------------------------------------
(* The user.                                                               *)

Click(shown) ==
    /\ window = shown
    /\ clicks < MaxClicks
    /\ clicks' = clicks + 1

\* resetTreeVisualState() goes through buses, RTs and SAs, not mode codes.
ResetTree ==
    /\ lit' = {} /\ fresh' = {}
    /\ bold' = bold \cap ModeCodes

ClearList ==
    /\ list' = <<>>
    /\ clearedAt' = Len(relayed)
    /\ UNCHANGED appends

\* onConnect: sniffing starts, and InitializePanels shows the notebook.  Any
\* number is accepted and cast to uint16_t.
ConnectTo(p, text) ==
    /\ Click("connect")
    /\ asked' = p
    /\ port' = p % PortValues
    /\ Session!Start
    /\ window' = "notebook" /\ button' = text
    /\ UNCHANGED <<label, posted, listVars, treeVars>>

\* Wrong variant: the button does not follow isMonitoring().
ConnectKeepsButton(p) == ConnectTo(p, button)

Connect(p) == ConnectTo(p, "Stop")

ConnectFails ==
    /\ Click("connect")
    /\ Session!Discard
    /\ UNCHANGED <<windowVars, label, posted, listVars, treeVars>>

\* onStartStopClicked while monitoring.
StopClick ==
    /\ Click("notebook")
    /\ Session!Stop
    /\ button' = "Start"
    /\ UNCHANGED <<window, asked, port, label, posted, listVars, treeVars>>

\* onStartStopClicked otherwise: the view is emptied, then start() may fail.
StartClick ==
    /\ Click("notebook")
    /\ \/ Session!Start /\ button' = "Stop"
       \/ Session!Discard /\ UNCHANGED button
    /\ ResetTree /\ ClearList
    /\ UNCHANGED <<window, asked, port, label, posted>>

\* onClearClicked, and onResetStreamClicked, which wants the monitor stopped.
ClearClick ==
    /\ Click("notebook")
    /\ ResetTree /\ ClearList
    /\ UNCHANGED <<sessionVars, windowVars, label, posted>>

\* onTreeItemClicked: set the filter, name it, reset the tree, embolden the item.
ItemClick(i) ==
    /\ Click("notebook")
    /\ label' = i
    /\ lit' = {} /\ fresh' = {}
    /\ bold' = (bold \cap ModeCodes) \cup {i}
    /\ UNCHANGED <<sessionVars, windowVars, posted, listVars>>

\* onClearFilterClicked: the button is enabled while it names an item.
ClearFilterClick ==
    /\ label # NoItem
    /\ Click("notebook")
    /\ label' = NoItem
    /\ ResetTree
    /\ UNCHANGED <<sessionVars, windowVars, posted, listVars>>

\* onClose destroys the panel, whose destructor stops a running monitor.
CloseClick ==
    /\ Click("notebook")
    /\ window' = "closed"
    /\ IF on THEN Session!Stop ELSE UNCHANGED sessionVars
    /\ UNCHANGED <<asked, port, button, label, posted, listVars, treeVars>>

User ==
    \/ (\E p \in Ports : Connect(p)) \/ ConnectFails
    \/ StopClick \/ StartClick \/ ClearClick
    \/ (\E i \in Items : ItemClick(i)) \/ ClearFilterClick \/ CloseClick

----------------------------------------------------------------------------
(* The monitor thread.                                                     *)

\* A message becomes pending.  What the filter lets through is the matter of
\* BusMonitor: clicks change it while it is read, so any message may pass here.
Decode(m) ==
    /\ Len(relayed) + Len(pending) < MaxMessages
    /\ Session!Show(m)
    /\ UNCHANGED <<windowVars, label, posted, listVars, treeVars, clicks>>

AppendCall(ms) == [do |-> "append", text |-> ms]
LightCall(k) == [do |-> "light", key |-> k]

RelayLighting(keys) ==
    /\ pending # <<>>
    /\ Session!Relay
    /\ posted' = posted \o <<AppendCall(pending)>>
                        \o SetToSeq({LightCall(k) : k \in keys})
    /\ UNCHANGED <<windowVars, label, listVars, treeVars, clicks>>

\* Wrong variant: the pairs are taken after they have been cleared.
RelayNoKeys == RelayLighting({})

\* A flush posts the text, then one function for each RT/SA pair in it.
Relay == RelayLighting({KeyOf(m) : m \in Range(pending)})

----------------------------------------------------------------------------
(* The event loop runs a posted function.                                  *)

\* The text of a sequence of messages, line by line.
Text(ms) ==
    [j \in 1..(Len(ms) * MessageLines) |->
        <<ms[((j - 1) \div MessageLines) + 1], ((j - 1) % MessageLines) + 1>>]

\* Wrong variants: the newest lines go; too many lines go.
TrimsNewest(lines) ==
    IF Len(lines) + 1 > Recent + Slack THEN SubSeq(lines, 1, Recent) ELSE lines
TrimsMany(lines) ==
    IF Len(lines) + 1 > Recent + Slack
    THEN SubSeq(lines, Recent + 1, Len(lines)) ELSE lines

\* GetNumberOfLines() counts the empty line after the last line break.
Trimmed(lines) ==
    IF Len(lines) + 1 > Recent + Slack
    THEN SubSeq(lines, (Len(lines) + 1 - Recent) + 1, Len(lines))
    ELSE lines

RunAppend ==
    /\ posted # <<>> /\ Head(posted).do = "append"
    /\ posted' = Tail(posted)
    /\ appends' = (appends + 1) % TrimEvery
    /\ LET lines == list \o Text(Head(posted).text)
       IN  list' = IF appends' = 0 THEN Trimmed(lines) ELSE lines
    /\ fresh' = fresh \cup {KeyOf(m) : m \in Range(Head(posted).text)}
    /\ UNCHANGED <<sessionVars, windowVars, label, clearedAt, lit, bold, clicks>>

\* Wrong variant: text that comes after Stop is left in the queue.
AppendWhileOn == window = "notebook" /\ on /\ RunAppend

\* appendMessagesToUi: every TrimEvery-th call looks at the length.
AppendMessages == window = "notebook" /\ RunAppend

\* updateTreeItemVisualState: the SA, its RT and its bus.
LightItem ==
    /\ window = "notebook" /\ posted # <<>> /\ Head(posted).do = "light"
    /\ posted' = Tail(posted)
    /\ LET k == Head(posted).key IN
           /\ lit' = lit \cup {SaItem(k), RtItem(k), BusItem}
           /\ bold' = bold \cup {SaItem(k), RtItem(k), BusItem}
    /\ UNCHANGED <<sessionVars, windowVars, label, listVars, fresh, clicks>>

\* The application may still run a function when the panel is gone.
RunAfterClose ==
    /\ window = "closed" /\ posted # <<>>
    /\ posted' = Tail(posted)
    /\ UNCHANGED <<sessionVars, windowVars, label, listVars, treeVars, clicks>>

RunPosted == AppendMessages \/ LightItem \/ RunAfterClose

Next == User \/ (\E m \in Messages : Decode(m)) \/ Relay \/ RunPosted

Spec == Init /\ [][Next]_vars

(***************************************************************************)
(* The event loop runs what was posted.  Neither the user nor the bus need *)
(* do anything, and the monitor thread flushes only when segments come.    *)
(***************************************************************************)
FairSpec == Spec /\ WF_vars(RunPosted)

----------------------------------------------------------------------------
(* Properties.                                                             *)

(***************************************************************************)
(* Once the notebook is shown the button says Stop exactly when isMonitor- *)
(* ing() is true: after a start from the connection panel, from the button *)
(* itself, and after a start that failed.                                  *)
(***************************************************************************)
ButtonAgrees == window = "notebook" => ((button = "Stop") = on)

\* The messages in functions still waiting to run, and the number already run.
Waiting == FoldLeft(LAMBDA ms, c : IF c.do = "append" THEN ms \o c.text ELSE ms,
                    <<>>, posted)
Handled == Len(relayed) - Len(Waiting)

(***************************************************************************)
(* What the list shows followed by what still waits in the event queue is  *)
(* the latest part of the text the monitor relayed: nothing in it is lost, *)
(* doubled or out of order, whatever was cleared or trimmed.               *)
(***************************************************************************)
ShowsStream ==
    window # "closed" => IsSuffix(list \o Text(Waiting), Text(relayed))

(***************************************************************************)
(* Trimming spares the newest m_uiRecentMessageCount lines, the empty one  *)
(* at the end included, of the text appended since the list was cleared.   *)
(***************************************************************************)
KeepsRecent ==
    LET lines == MessageLines * (Handled - clearedAt)
    IN  window # "closed" =>
            Len(list) >= (IF lines < Recent - 1 THEN lines ELSE Recent - 1)

(***************************************************************************)
(* The list does not grow for ever: after every TrimEvery-th append it is  *)
(* at most Slack lines longer than Recent.                                 *)
(***************************************************************************)
ListTrimmed == appends = 0 => Len(list) + 1 <= Recent + Slack

(***************************************************************************)
(* The tree follows the list: an RT/SA pair appended since the tree was    *)
(* last reset is green with its RT and bus, or about to be made green.     *)
(***************************************************************************)
ActiveIsLit ==
    window # "closed" =>
        \A k \in fresh : \/ {SaItem(k), RtItem(k), BusItem} \subseteq lit
                         \/ LightCall(k) \in Range(posted)

(***************************************************************************)
(* Buses, RTs and SAs are bold for a reason: they are active, or they are  *)
(* the item the filter button names.                                       *)
(***************************************************************************)
BoldIsLitOrChosen == bold \ ModeCodes \subseteq lit \cup {label}

(***************************************************************************)
(* Every relayed message is handled: it reaches the list, unless the panel *)
(* is closed first.                                                        *)
(***************************************************************************)
RelayedIsHandled ==
    \A n \in 1..MaxMessages : Len(relayed) >= n ~> Handled >= n

----------------------------------------------------------------------------
(* What one might expect of the view and the code does not do.             *)

(***************************************************************************)
(* The list holds nothing relayed before Clear or Start emptied it.  A     *)
(* function posted before runs after.                                      *)
(***************************************************************************)
ClearForgets == Handled >= clearedAt \/ list = <<>>

(***************************************************************************)
(* Only active items and the chosen one are bold.  A mode code that was    *)
(* clicked stays bold for ever.                                            *)
(***************************************************************************)
BoldIsCurrent == bold \subseteq lit \cup {label}

(***************************************************************************)
(* The port that is sniffed is the one that was typed.  The cast to        *)
(* uint16_t takes 70538 for 5002.                                          *)
(***************************************************************************)
PortAsAsked == port = asked

(***************************************************************************)
(* No posted function outlives the panel it captured.                      *)
(***************************************************************************)
PostedToLivePanel == window = "closed" => posted = <<>>

(***************************************************************************)
(* The list starts with the first line of a message.                       *)
(***************************************************************************)
StartsWithMessage == list = <<>> \/ Head(list)[2] = 1
============================================================================
