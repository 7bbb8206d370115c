------------------------- MODULE MonitorViewProofs -------------------------
(***************************************************************************)
(* What the windows of the bus monitor show, for any messages, any clicks  *)
(* and any delay of the posted functions.                                  *)
(*                                                                         *)
(* That the tree follows the list needs the queue's order (LightsFollow):  *)
(* behind every text that waits to be appended wait the functions that     *)
(* light its RT/SA pairs.  StreamInv names the text that has left the      *)
(* list: what was relayed is that text, then the list, then what waits.    *)
(***************************************************************************)
EXTENDS MonitorView, FiniteSetTheorems, SequenceTheorems, WellFoundedInduction, TLAPS

LightsFollow ==
    \A i \in 1..Len(posted) :
        posted[i].do = "append" =>
            \A m \in Range(posted[i].text) :
                \E j \in (i + 1)..Len(posted) : posted[j] = LightCall(KeyOf(m))

ViewInv ==
    /\ TypeOK /\ ButtonAgrees /\ BoldIsLitOrChosen
    /\ ListTrimmed /\ LightsFollow /\ ActiveIsLit

----------------------------------------------------------------------------
(* Sequences.                                                              *)

LEMMA DivBound ==
    ASSUME NEW n \in Nat, NEW b \in Nat \ {0}, NEW a \in Nat, a < n * b
    PROVE  a \div b \in 0..(n - 1) /\ a % b \in Nat
<1> DEFINE q == a \div b
           r == a % b
<1>1. q \in Int /\ r \in 0..(b - 1) /\ a = b * q + r
    OBVIOUS
<1> HIDE DEF q, r
<1>2. q >= 0
    <2> SUFFICES ASSUME q <= -1 PROVE FALSE
        BY <1>1
    <2>1. b * q <= b * (-1)
        BY <1>1
    <2> QED BY <2>1, <1>1
<1>3. q < n
    <2> SUFFICES ASSUME q >= n PROVE FALSE
        BY <1>1
    <2>1. b * q >= b * n
        BY <1>1
    <2>2. b * n = n * b
        OBVIOUS
    <2> QED BY <2>1, <2>2, <1>1
<1> QED
    BY <1>1, <1>2, <1>3 DEF q, r

(***************************************************************************)
(* The lines of some messages are lines of these messages.                 *)
(***************************************************************************)
LEMMA TextType ==
    ASSUME NEW ms \in Seq(Messages)
    PROVE  Text(ms) \in Seq(Line)
<1> DEFINE n == Len(ms) * MessageLines
<1>1. Len(ms) \in Nat /\ MessageLines \in Nat \ {0} /\ n \in Nat
    <2>1. Len(ms) \in Nat /\ MessageLines \in Nat \ {0}
        BY ListAssumption, LenProperties
    <2> QED BY <2>1
<1>2. ASSUME NEW j \in 1..n
      PROVE  <<ms[((j - 1) \div MessageLines) + 1], ((j - 1) % MessageLines) + 1>> \in Line
    <2>1. j - 1 \in Nat /\ j - 1 < Len(ms) * MessageLines
        BY <1>1
    <2> HIDE DEF n
    <2>2. /\ (j - 1) \div MessageLines \in 0..(Len(ms) - 1)
          /\ (j - 1) % MessageLines \in Nat
        BY <1>1, <2>1, DivBound
    <2>3. ((j - 1) \div MessageLines) + 1 \in 1..Len(ms)
        BY <1>1, <2>2
    <2>4. ms[((j - 1) \div MessageLines) + 1] \in Messages
        BY <2>3, ElementOfSeq
    <2>5. ((j - 1) % MessageLines) + 1 \in Nat
        BY <2>2
    <2> QED BY <2>4, <2>5 DEF Line
<1> HIDE DEF n
<1>3. Text(ms) = [j \in 1..n |-> <<ms[((j - 1) \div MessageLines) + 1],
                                   ((j - 1) % MessageLines) + 1>>]
    BY DEF Text, n
<1>4. Text(ms) \in [1..n -> Line]
    BY <1>2, <1>3
<1> QED
    BY <1>1, <1>4, SeqDef

(***************************************************************************)
(* Trimming leaves lines of the list, and few enough of them.              *)
(***************************************************************************)
LEMMA TrimmedProperties ==
    ASSUME NEW lines \in Seq(Line)
    PROVE  Trimmed(lines) \in Seq(Line) /\ Len(Trimmed(lines)) + 1 <= Recent + Slack
<1>1. /\ Len(lines) \in Nat /\ Recent \in Nat \ {0} /\ Slack \in Nat
      /\ \A i \in 1..Len(lines) : lines[i] \in Line
    BY LenProperties, ElementOfSeq, ListAssumption
<1>2. CASE Len(lines) + 1 > Recent + Slack
    <2> DEFINE first == (Len(lines) + 1 - Recent) + 1
    <2>1. first \in 1..(Len(lines) + 1)
        BY <1>1, <1>2
    <2>2. /\ SubSeq(lines, first, Len(lines)) \in Seq(Line)
          /\ Len(SubSeq(lines, first, Len(lines))) =
                 IF first <= Len(lines) THEN Len(lines) - first + 1 ELSE 0
        <3>1. first \in Int /\ Len(lines) \in Int /\ \A i \in first..Len(lines) : lines[i] \in Line
            BY <1>1, <2>1
        <3> HIDE DEF first
        <3> QED BY <3>1, SubSeqProperties
    <2>3. Trimmed(lines) = SubSeq(lines, first, Len(lines))
        BY <1>2 DEF Trimmed
    <2> QED BY <1>1, <2>1, <2>2, <2>3
<1>3. CASE ~(Len(lines) + 1 > Recent + Slack)
    <2>1. Trimmed(lines) = lines
        BY <1>3 DEF Trimmed
    <2> QED BY <1>1, <1>3, <2>1
<1> QED
    BY <1>2, <1>3

(***************************************************************************)
(* SetToSeq lists a finite set.                                            *)
(***************************************************************************)
LEMMA SetToSeqProperties ==
    ASSUME NEW S, IsFiniteSet(S)
    PROVE  /\ SetToSeq(S) \in Seq(S)
           /\ \A x \in S : \E i \in 1..Len(SetToSeq(S)) : SetToSeq(S)[i] = x
<1> DEFINE n == Cardinality(S)
           f == SetToSeq(S)
<1>1. n \in Nat /\ ExistsBijection(1..n, S)
    BY FS_CardinalityType
<1>2. \E g \in [1..n -> S] : IsInjective(g)
    BY <1>1 DEF ExistsBijection, Bijection, Injection
<1>3. f \in [1..n -> S] /\ IsInjective(f)
    BY <1>2 DEF SetToSeq
<1> HIDE DEF f
<1>4. f \in Seq(S) /\ Len(f) = n
    BY <1>1, <1>3, SeqDef
<1>5. ASSUME NEW x \in S, \A i \in 1..n : f[i] # x
      PROVE  FALSE
    <2> DEFINE T == S \ {x}
    <2>1. IsFiniteSet(T) /\ Cardinality(T) = n - 1
        BY FS_RemoveElement
    <2>2. IsFiniteSet(1..n) /\ Cardinality(1..n) = n
        <3> HIDE DEF n
        <3> QED BY <1>1, FS_Interval
    <2>3. f \in [1..n -> T]
        BY <1>3, <1>5
    <2> HIDE DEF T, n
    <2>4. Cardinality(T) < Cardinality(1..n)
        BY <1>1, <2>1, <2>2
    <2>5. \E i, j \in 1..n : i # j /\ f[i] = f[j]
        BY <2>1, <2>2, <2>3, <2>4, FS_PigeonHole
    <2> QED BY <2>5, <1>3 DEF IsInjective
<1> QED
    BY <1>4, <1>5 DEF f

----------------------------------------------------------------------------
(* The queue of posted functions.                                          *)

Lights(ms) == {LightCall(k) : k \in {KeyOf(m) : m \in Range(ms)}}

LEMMA LightsFinite ==
    ASSUME NEW ms \in Seq(Messages)
    PROVE  IsFiniteSet(Lights(ms)) /\ Lights(ms) \subseteq Posted
<1> DEFINE f == [i \in 1..Len(ms) |-> LightCall(KeyOf(ms[i]))]
<1>1. Len(ms) \in Nat /\ DOMAIN ms = 1..Len(ms) /\ \A i \in 1..Len(ms) : ms[i] \in Messages
    BY LenProperties, ElementOfSeq
<1>2. f \in Surjection(1..Len(ms), Lights(ms))
    BY <1>1 DEF Surjection, Lights, Range
<1>3. IsFiniteSet(1..Len(ms))
    BY <1>1, FS_Interval
<1>4. IsFiniteSet(Lights(ms))
    BY <1>2, <1>3, FS_Surjection
<1>5. ASSUME NEW m \in Messages PROVE LightCall(KeyOf(m)) \in Posted
    BY MessagesAssumption DEF LightCall, KeyOf, Posted, Key
<1> QED
    BY <1>1, <1>4, <1>5 DEF Lights, Range

(***************************************************************************)
(* A flush puts the text, and behind it the functions that light its       *)
(* pairs, at the end of the queue.                                         *)
(***************************************************************************)
LEMMA RelayedQueue ==
    ASSUME posted \in Seq(Posted), pending \in Seq(Messages),
           NEW q, q = posted \o <<AppendCall(pending)>> \o SetToSeq(Lights(pending))
    PROVE  /\ q \in Seq(Posted)
           /\ Len(q) \in Nat /\ Len(q) > Len(posted)
           /\ \A i \in 1..Len(posted) : q[i] = posted[i]
           /\ q[Len(posted) + 1] = AppendCall(pending)
           /\ \A i \in (Len(posted) + 2)..Len(q) : q[i] \in Lights(pending)
           /\ \A x \in Lights(pending) : \E i \in (Len(posted) + 2)..Len(q) : q[i] = x
<1> DEFINE l == SetToSeq(Lights(pending))
           n == Len(posted)
           p == posted \o <<AppendCall(pending)>>
<1>1. /\ l \in Seq(Lights(pending)) /\ l \in Seq(Posted) /\ Len(l) \in Nat
      /\ \A i \in 1..Len(l) : l[i] \in Lights(pending)
      /\ \A x \in Lights(pending) : \E i \in 1..Len(l) : l[i] = x
    <2>1. /\ l \in Seq(Lights(pending))
          /\ \A x \in Lights(pending) : \E i \in 1..Len(l) : l[i] = x
        BY LightsFinite, SetToSeqProperties
    <2>2. l \in Seq(Posted)
        BY <2>1, LightsFinite, SeqMonotonic
    <2> HIDE DEF l
    <2> QED BY <2>1, <2>2, LenProperties, ElementOfSeq
<1>2. AppendCall(pending) \in Posted
    BY DEF AppendCall, Posted
<1>3. /\ p = Append(posted, AppendCall(pending))
      /\ p \in Seq(Posted) /\ Len(p) = n + 1
      /\ \A i \in 1..n : p[i] = posted[i]
      /\ p[n + 1] = AppendCall(pending)
    BY <1>2, AppendIsConcat, AppendProperties
<1> HIDE DEF p, l
<1>4. q = p \o l
    BY DEF p, l
<1>5. /\ q \in Seq(Posted) /\ Len(q) = Len(p) + Len(l)
      /\ \A i \in 1..(Len(p) + Len(l)) : q[i] = IF i <= Len(p) THEN p[i] ELSE l[i - Len(p)]
    <2>1. p \in Seq(Posted) /\ l \in Seq(Posted)
        BY <1>1, <1>3
    <2>2. /\ p \o l \in Seq(Posted) /\ Len(p \o l) = Len(p) + Len(l)
          /\ \A i \in 1..(Len(p) + Len(l)) :
                 (p \o l)[i] = IF i <= Len(p) THEN p[i] ELSE l[i - Len(p)]
        BY ONLY <2>1, ConcatProperties
    <2> QED BY ONLY <1>4, <2>2
<1>6. n \in Nat
    BY LenProperties
<1> HIDE DEF n
<1>7. ASSUME NEW x \in Lights(pending)
      PROVE  \E i \in (n + 2)..Len(q) : q[i] = x
    <2>1. PICK i \in 1..Len(l) : l[i] = x
        BY <1>1
    <2>2. PICK j \in Nat : j = n + 1 + i
        BY <1>1, <1>6
    <2>3. /\ j \in (n + 2)..Len(q) /\ j \in 1..(Len(p) + Len(l))
          /\ ~(j <= Len(p)) /\ j - Len(p) = i
        BY <1>1, <1>3, <1>5, <1>6, <2>2
    <2>4. q[j] = l[i]
        BY ONLY <2>3, <1>5
    <2> QED BY <2>1, <2>3, <2>4
<1>8. ASSUME NEW i \in (n + 2)..Len(q)
      PROVE  q[i] \in Lights(pending)
    <2>1. i - Len(p) \in 1..Len(l) /\ ~(i <= Len(p)) /\ i \in 1..(Len(p) + Len(l))
        BY <1>1, <1>3, <1>5, <1>6
    <2> QED BY <2>1, <1>1, <1>5
<1>9. /\ \A i \in 1..n : q[i] = posted[i]
      /\ q[n + 1] = AppendCall(pending)
    <2>1. Len(p) = n + 1 /\ \A i \in 1..(n + 1) : i \in 1..(Len(p) + Len(l)) /\ i <= Len(p)
        BY <1>1, <1>3, <1>6
    <2>2. \A i \in 1..(n + 1) : q[i] = p[i]
        BY <2>1, <1>5
    <2> QED BY <2>2, <1>3, <1>6
<1>10. q \in Seq(Posted) /\ Len(q) \in Nat /\ Len(q) > n
    <2>1. q \in Seq(Posted) /\ Len(q) = n + 1 + Len(l)
        BY <1>3, <1>5
    <2> QED BY <2>1, <1>1, <1>6
<1> QED
    BY <1>7, <1>8, <1>9, <1>10, Zenon DEF n

----------------------------------------------------------------------------
(* Types.                                                                  *)

\* The types of what one action or another changes together.
SessionTypes == on \in BOOLEAN /\ pending \in Seq(Messages) /\ relayed \in Seq(Messages)
WindowTypes == window \in {"connect", "notebook", "closed"} /\ button \in {"Start", "Stop"}
PortNumbers == 0..(PortValues - 1)
NumberTypes == asked \in Int /\ port \in PortNumbers /\ clicks \in Nat
LabelType == label \in Item \cup {NoItem}
QueueType == posted \in Seq(Posted)
ListTypes == list \in Seq(Line) /\ appends \in 0..(TrimEvery - 1) /\ clearedAt \in Nat
TreeTypes == lit \subseteq Item /\ bold \subseteq Item /\ fresh \subseteq Key

LEMMA TypeParts ==
    TypeOK <=> /\ SessionTypes /\ WindowTypes /\ NumberTypes /\ LabelType
               /\ QueueType /\ ListTypes /\ TreeTypes
BY PTL DEF TypeOK, SessionTypes, WindowTypes, NumberTypes, PortNumbers, LabelType, QueueType,
           ListTypes, TreeTypes

LEMMA InitView == Init => ViewInv
<1> SUFFICES ASSUME Init PROVE ViewInv
    OBVIOUS
<1>1. /\ <<>> \in Seq(Messages) /\ <<>> \in Seq(Posted) /\ <<>> \in Seq(Line)
      /\ Len(<<>>) = 0
    BY EmptySeq
<1>2. TypeOK
    <2>1. 0 \in 0..(TrimEvery - 1)
        BY ListAssumption
    <2>2. SessionTypes
        BY <1>1 DEF Init, Session!Init, SessionTypes
    <2>3. WindowTypes /\ NumberTypes
        BY DEF Init, WindowTypes, NumberTypes, PortNumbers, PortValues
    <2>4. LabelType
        BY DEF Init, LabelType
    <2>5. QueueType
        BY <1>1 DEF Init, QueueType
    <2>6. ListTypes
        BY <1>1, <2>1 DEF Init, ListTypes
    <2>7. TreeTypes
        BY DEF Init, TreeTypes
    <2> QED BY <2>2, <2>3, <2>4, <2>5, <2>6, <2>7, TypeParts
<1>3. ButtonAgrees /\ BoldIsLitOrChosen /\ ActiveIsLit
    BY DEF Init, Session!Init, ButtonAgrees, BoldIsLitOrChosen, ActiveIsLit
<1>4. ListTrimmed
    BY <1>1, ListAssumption DEF Init, ListTrimmed
<1>5. LightsFollow
    BY <1>1 DEF Init, LightsFollow
<1> QED
    BY <1>2, <1>3, <1>4, <1>5 DEF ViewInv

----------------------------------------------------------------------------
(* A step keeps the types.                                                 *)

LEMMA SessionStep == SessionTypes /\ Next => SessionTypes'
<1> SUFFICES ASSUME SessionTypes, Next PROVE SessionTypes'
    OBVIOUS
<1>0. <<>> \in Seq(Messages)
    BY EmptySeq
<1>1. CASE Session!Start \/ Session!Stop \/ Session!Discard \/ UNCHANGED sessionVars
    BY <1>0, <1>1 DEF SessionTypes, Session!Start, Session!Stop, Session!Discard, sessionVars
<1>2. ASSUME NEW m \in Messages, Session!Show(m) PROVE SessionTypes'
    <2>1. Append(pending, m) \in Seq(Messages)
        BY AppendProperties DEF SessionTypes
    <2> QED BY <1>2, <2>1 DEF SessionTypes, Session!Show
<1>3. CASE Session!Relay
    <2>1. relayed \o pending \in Seq(Messages)
        BY ConcatProperties DEF SessionTypes
    <2> QED BY <1>0, <1>3, <2>1 DEF SessionTypes, Session!Relay
<1> QED
    BY <1>1, <1>2, <1>3
       DEF Next, User, RunPosted, Connect, ConnectTo, ConnectFails, StopClick, StartClick,
           ClearClick, ItemClick, ClearFilterClick, CloseClick, Decode, Relay, RelayLighting,
           AppendMessages, RunAppend, LightItem, RunAfterClose

LEMMA WindowStep == WindowTypes /\ Next => WindowTypes'
<1> SUFFICES ASSUME WindowTypes, Next PROVE WindowTypes'
    OBVIOUS
<1>1. window' \in {window, "notebook", "closed"}
    BY DEF Next, User, RunPosted, Connect, ConnectTo, ConnectFails, StopClick, StartClick,
           ClearClick, ItemClick, ClearFilterClick, CloseClick, Decode, Relay, RelayLighting,
           AppendMessages, RunAppend, LightItem, RunAfterClose, windowVars
<1>2. button' \in {button, "Start", "Stop"}
    BY DEF Next, User, RunPosted, Connect, ConnectTo, ConnectFails, StopClick, StartClick,
           ClearClick, ItemClick, ClearFilterClick, CloseClick, Decode, Relay, RelayLighting,
           AppendMessages, RunAppend, LightItem, RunAfterClose, windowVars
<1>3. window \in {"connect", "notebook", "closed"} /\ button \in {"Start", "Stop"}
    BY DEF WindowTypes
<1>4. window' \in {"connect", "notebook", "closed"} /\ button' \in {"Start", "Stop"}
    BY ONLY <1>1, <1>2, <1>3
<1> QED
    BY ONLY <1>4 DEF WindowTypes

LEMMA PortOf ==
    ASSUME NEW p \in Int
    PROVE  p % PortValues \in PortNumbers
<1>1. PortValues \in Nat \ {0}
    BY SMT DEF PortValues
<1> HIDE DEF PortValues
<1> QED
    BY SMT, <1>1 DEF PortNumbers

LEMMA NumberStep == NumberTypes /\ Next => NumberTypes'
<1> SUFFICES ASSUME NumberTypes, Next PROVE NumberTypes'
    OBVIOUS
<1>1. ASSUME NEW p \in Ports
      PROVE  p \in Int /\ p % PortValues \in PortNumbers
    BY PortsAssumption, PortOf
<1>2. /\ UNCHANGED <<asked, port>> \/ \E p \in Ports : asked' = p /\ port' = p % PortValues
      /\ clicks' \in {clicks, clicks + 1}
    BY SMT DEF Next, User, RunPosted, Connect, ConnectTo, ConnectFails, StopClick, StartClick,
           ClearClick, ItemClick, ClearFilterClick, CloseClick, Click, Decode, Relay,
           RelayLighting, AppendMessages, RunAppend, LightItem, RunAfterClose, windowVars
<1>3. asked' \in Int /\ port' \in PortNumbers
    BY <1>1, <1>2 DEF NumberTypes
<1>4. clicks' \in Nat
    BY SMT, <1>2 DEF NumberTypes
<1> QED
    BY <1>3, <1>4 DEF NumberTypes

LEMMA LabelStep == LabelType /\ Next => LabelType'
<1> SUFFICES ASSUME LabelType, Next PROVE LabelType'
    OBVIOUS
<1>1. ASSUME NEW i \in Items, ItemClick(i) PROVE LabelType'
    <2>1. i \in Item
        BY ItemsAssumption
    <2> QED BY <1>1, <2>1 DEF ItemClick, LabelType
<1>2. CASE ClearFilterClick
    BY <1>2 DEF ClearFilterClick, LabelType
<1>3. CASE UNCHANGED label
    BY <1>3 DEF LabelType
<1> QED
    BY <1>1, <1>2, <1>3
       DEF Next, User, RunPosted, Connect, ConnectTo, ConnectFails, StopClick, StartClick,
           ClearClick, CloseClick, Decode, Relay, RelayLighting, AppendMessages, RunAppend,
           LightItem, RunAfterClose

\* What a step can do to the queue.
LEMMA QueueSteps ==
    ASSUME Next
    PROVE  UNCHANGED posted \/ Relay \/ (posted # <<>> /\ posted' = Tail(posted))
BY DEF Next, User, RunPosted, Connect, ConnectTo, ConnectFails, StopClick, StartClick,
       ClearClick, ItemClick, ClearFilterClick, CloseClick, Decode, AppendMessages, RunAppend,
       LightItem, RunAfterClose

LEMMA QueueStep == SessionTypes /\ QueueType /\ Next => QueueType'
<1> SUFFICES ASSUME SessionTypes, QueueType, Next PROVE QueueType'
    OBVIOUS
<1>1. CASE UNCHANGED posted
    BY <1>1 DEF QueueType
<1>2. CASE Relay
    <2>1. posted' = posted \o <<AppendCall(pending)>> \o SetToSeq(Lights(pending))
        BY <1>2 DEF Relay, RelayLighting, Lights
    <2> QED BY <2>1, RelayedQueue DEF SessionTypes, QueueType
<1>3. CASE posted # <<>> /\ posted' = Tail(posted)
    BY <1>3, HeadTailProperties DEF QueueType
<1> QED
    BY <1>1, <1>2, <1>3, QueueSteps

\* The text of an append, and the pair of a light.
LEMMA HeadText ==
    ASSUME QueueType, posted # <<>>, Head(posted).do = "append"
    PROVE  Head(posted).text \in Seq(Messages)
<1>1. Head(posted) \in Posted
    BY HeadTailProperties DEF QueueType
<1> QED
    BY <1>1 DEF Posted

LEMMA HeadKey ==
    ASSUME QueueType, posted # <<>>, Head(posted).do = "light"
    PROVE  Head(posted).key \in Key
<1>1. Head(posted) \in Posted
    BY HeadTailProperties DEF QueueType
<1> QED
    BY <1>1 DEF Posted

LEMMA ListStep ==
    SessionTypes /\ QueueType /\ ListTypes /\ ListTrimmed /\ Next
        => ListTypes' /\ ListTrimmed'
<1> SUFFICES ASSUME SessionTypes, QueueType, ListTypes, ListTrimmed, Next
             PROVE  ListTypes' /\ ListTrimmed'
    OBVIOUS
<1>1. CASE RunAppend
    <2>1. posted # <<>> /\ Head(posted).do = "append"
        BY <1>1 DEF RunAppend
    <2> DEFINE lines == list \o Text(Head(posted).text)
    <2>2. lines \in Seq(Line)
        <3>1. Text(Head(posted).text) \in Seq(Line)
            BY <2>1, HeadText, TextType
        <3> QED BY <3>1, ConcatProperties DEF ListTypes
    <2>3. Trimmed(lines) \in Seq(Line) /\ Len(Trimmed(lines)) + 1 <= Recent + Slack
        BY <2>2, TrimmedProperties
    <2>4. /\ list' = IF appends' = 0 THEN Trimmed(lines) ELSE lines
          /\ appends' = (appends + 1) % TrimEvery /\ clearedAt' = clearedAt
        BY <1>1 DEF RunAppend
    <2>5. appends' \in 0..(TrimEvery - 1)
        BY <2>4, ListAssumption DEF ListTypes
    <2> HIDE DEF lines
    <2> QED BY <2>2, <2>3, <2>4, <2>5 DEF ListTypes, ListTrimmed
<1>2. CASE ClearList
    <2>1. <<>> \in Seq(Line) /\ Len(<<>>) = 0 /\ Len(relayed) \in Nat
        BY EmptySeq, LenProperties DEF SessionTypes
    <2> QED BY <1>2, <2>1, ListAssumption DEF ClearList, ListTypes, ListTrimmed
<1>3. CASE UNCHANGED listVars
    BY <1>3 DEF ListTypes, ListTrimmed, listVars
<1> QED
    BY <1>1, <1>2, <1>3
       DEF Next, User, RunPosted, Connect, ConnectTo, ConnectFails, StopClick, StartClick,
           ClearClick, ItemClick, ClearFilterClick, CloseClick, Decode, Relay, RelayLighting,
           AppendMessages, LightItem, RunAfterClose

LEMMA KeysOf ==
    ASSUME NEW ms \in Seq(Messages)
    PROVE  {KeyOf(m) : m \in Range(ms)} \subseteq Key
<1>1. Range(ms) \subseteq Messages
    BY LenProperties, ElementOfSeq DEF Range
<1> QED
    BY <1>1, MessagesAssumption DEF KeyOf, Key

LEMMA TreeStep == QueueType /\ TreeTypes /\ Next => TreeTypes'
<1> SUFFICES ASSUME QueueType, TreeTypes, Next PROVE TreeTypes'
    OBVIOUS
<1>1. ASSUME NEW i \in Items, ItemClick(i) PROVE TreeTypes'
    <2>1. i \in Item
        BY ItemsAssumption
    <2> QED BY <1>1, <2>1 DEF ItemClick, TreeTypes
<1>2. CASE ResetTree
    BY <1>2 DEF ResetTree, TreeTypes
<1>3. CASE RunAppend
    <2>1. {KeyOf(m) : m \in Range(Head(posted).text)} \subseteq Key
        BY <1>3, HeadText, KeysOf DEF RunAppend
    <2> QED BY <1>3, <2>1 DEF RunAppend, TreeTypes
<1>4. CASE LightItem
    <2>1. Head(posted).key \in Key
        BY <1>4, HeadKey DEF LightItem
    <2>2. ASSUME NEW k \in Key PROVE {SaItem(k), RtItem(k), BusItem} \subseteq Item
        BY DEF SaItem, RtItem, BusItem, Item, Field, Key
    <2> QED BY <1>4, <2>1, <2>2 DEF LightItem, TreeTypes
<1>5. CASE UNCHANGED treeVars
    BY <1>5 DEF TreeTypes, treeVars
<1> QED
    BY <1>1, <1>2, <1>3, <1>4, <1>5
       DEF Next, User, RunPosted, Connect, ConnectTo, ConnectFails, StopClick, StartClick,
           ClearClick, ClearFilterClick, CloseClick, Decode, Relay, RelayLighting,
           AppendMessages, RunAfterClose

----------------------------------------------------------------------------
(* A step keeps what the windows say of each other and of the monitor.     *)

LEMMA ButtonStep == ButtonAgrees /\ Next => ButtonAgrees'
<1> SUFFICES ASSUME ButtonAgrees, Next PROVE ButtonAgrees'
    OBVIOUS
<1>1. CASE UNCHANGED <<on, window, button>>
    BY <1>1 DEF ButtonAgrees
<1>2. ASSUME NEW p \in Ports, Connect(p) PROVE ButtonAgrees'
    <2>1. on' = TRUE /\ button' = "Stop"
        BY <1>2, SMT DEF Connect, ConnectTo, Session!Start
    <2> QED BY <2>1, Zenon DEF ButtonAgrees
<1>3. CASE ConnectFails
    BY <1>3 DEF ConnectFails, Session!Discard, windowVars, ButtonAgrees
<1>4. CASE StopClick
    BY <1>4 DEF StopClick, Session!Stop, ButtonAgrees
<1>5. CASE StartClick
    BY <1>5 DEF StartClick, Session!Start, Session!Discard, ButtonAgrees
<1>6. CASE CloseClick
    BY <1>6 DEF CloseClick, ButtonAgrees
<1> QED
    BY <1>1, <1>2, <1>3, <1>4, <1>5, <1>6
       DEF Session!Show, Session!Relay, sessionVars, windowVars, Next, User, RunPosted,
           ClearClick, ItemClick, ClearFilterClick, Decode, Relay, RelayLighting,
           AppendMessages, RunAppend, LightItem, RunAfterClose

LEMMA BoldStep == BoldIsLitOrChosen /\ Next => BoldIsLitOrChosen'
<1> SUFFICES ASSUME BoldIsLitOrChosen, Next PROVE BoldIsLitOrChosen'
    OBVIOUS
<1>1. ASSUME NEW i \in Items, ItemClick(i) PROVE BoldIsLitOrChosen'
    BY <1>1 DEF ItemClick, BoldIsLitOrChosen
<1>2. CASE ResetTree
    BY <1>2 DEF ResetTree, BoldIsLitOrChosen
<1>3. CASE LightItem
    BY <1>3 DEF LightItem, BoldIsLitOrChosen
<1>4. CASE UNCHANGED <<lit, bold, label>>
    BY <1>4 DEF BoldIsLitOrChosen
<1> QED
    BY <1>1, <1>2, <1>3, <1>4
       DEF treeVars,
           Next, User, RunPosted, Connect, ConnectTo, ConnectFails, StopClick, StartClick,
           ClearClick, ClearFilterClick, CloseClick, Decode, Relay, RelayLighting,
           AppendMessages, RunAppend, RunAfterClose

LEMMA FollowStep ==
    SessionTypes /\ QueueType /\ LightsFollow /\ Next => LightsFollow'
<1> SUFFICES ASSUME SessionTypes, QueueType, LightsFollow, Next,
                    NEW i \in 1..Len(posted'), posted'[i].do = "append",
                    NEW m \in Range(posted'[i].text)
             PROVE  \E j \in (i + 1)..Len(posted') : posted'[j] = LightCall(KeyOf(m))
    BY DEF LightsFollow
<1>0. Len(posted) \in Nat
    BY LenProperties DEF QueueType
<1>1. CASE UNCHANGED posted
    BY <1>1 DEF LightsFollow
<1>2. CASE posted # <<>> /\ posted' = Tail(posted)
    <2>1. /\ Len(posted') = Len(posted) - 1
          /\ \A h \in 1..Len(posted') : posted'[h] = posted[h + 1]
        BY <1>2, HeadTailProperties DEF QueueType
    <2>2. i + 1 \in 1..Len(posted) /\ posted[i + 1] = posted'[i]
        BY <1>0, <2>1
    <2>3. PICK j \in (i + 2)..Len(posted) : posted[j] = LightCall(KeyOf(m))
        BY <2>2 DEF LightsFollow
    <2>4. j - 1 \in (i + 1)..Len(posted') /\ posted'[j - 1] = posted[j]
        BY <1>0, <2>1, <2>3
    <2> QED BY <2>3, <2>4
<1>3. CASE Relay
    <2>1. posted' = posted \o <<AppendCall(pending)>> \o SetToSeq(Lights(pending))
        BY <1>3 DEF Relay, RelayLighting, Lights
    <2> DEFINE n == Len(posted)
    <2>2. /\ Len(posted') \in Nat /\ Len(posted') > n
          /\ \A h \in 1..n : posted'[h] = posted[h]
          /\ posted'[n + 1] = AppendCall(pending)
          /\ \A h \in (n + 2)..Len(posted') : posted'[h] \in Lights(pending)
          /\ \A x \in Lights(pending) : \E h \in (n + 2)..Len(posted') : posted'[h] = x
        BY <2>1, RelayedQueue DEF SessionTypes, QueueType
    <2> HIDE DEF n
    <2>3. n \in Nat /\ n = Len(posted)
        BY <1>0 DEF n
    <2>4. CASE i \in 1..n
        <3>1. PICK j \in (i + 1)..n : posted[j] = LightCall(KeyOf(m))
            BY <2>2, <2>3, <2>4 DEF LightsFollow
        <3>2. j \in (i + 1)..Len(posted') /\ posted'[j] = posted[j]
            BY <2>2, <2>3, <3>1
        <3> QED BY <3>1, <3>2
    <2>5. CASE i = n + 1
        <3>1. m \in Range(pending)
            BY <2>2, <2>5 DEF AppendCall
        <3>2. LightCall(KeyOf(m)) \in Lights(pending)
            BY <3>1 DEF Lights
        <3> QED BY <2>2, <2>5, <2>3, <3>2
    <2>6. CASE i \in (n + 2)..Len(posted')
        <3>1. posted'[i] \in Lights(pending)
            BY <2>2, <2>6
        <3>2. posted'[i].do = "light"
            BY <3>1 DEF Lights, LightCall
        <3> QED BY <3>2
    <2> QED BY <2>2, <2>3, <2>4, <2>5, <2>6
<1> QED
    BY <1>1, <1>2, <1>3, QueueSteps

\* What waits behind the head of the queue.
LEMMA InTail ==
    ASSUME QueueType, posted # <<>>, NEW j \in 2..Len(posted)
    PROVE  posted[j] \in Range(Tail(posted))
<1>1. /\ Len(posted) \in Nat /\ Tail(posted) \in Seq(Posted)
      /\ Len(Tail(posted)) = Len(posted) - 1
      /\ \A h \in 1..Len(Tail(posted)) : Tail(posted)[h] = posted[h + 1]
    BY HeadTailProperties, LenProperties DEF QueueType
<1>2. j - 1 \in 1..Len(Tail(posted)) /\ Tail(posted)[j - 1] = posted[j]
    BY <1>1
<1>3. DOMAIN Tail(posted) = 1..Len(Tail(posted))
    BY <1>1, LenProperties
<1> QED
    BY <1>2, <1>3 DEF Range

LEMMA InRange ==
    ASSUME QueueType, NEW x \in Range(posted)
    PROVE  \E j \in 1..Len(posted) : posted[j] = x
BY LenProperties DEF QueueType, Range

LEMMA ActiveStep ==
    SessionTypes /\ QueueType /\ LightsFollow /\ ActiveIsLit /\ Next => ActiveIsLit'
<1> SUFFICES ASSUME SessionTypes, QueueType, LightsFollow, ActiveIsLit, Next,
                    window' # "closed", NEW k \in fresh'
             PROVE  \/ {SaItem(k), RtItem(k), BusItem} \subseteq lit'
                    \/ LightCall(k) \in Range(posted')
    BY DEF ActiveIsLit
<1> DEFINE Shown == \/ {SaItem(k), RtItem(k), BusItem} \subseteq lit'
                    \/ LightCall(k) \in Range(posted')
<1>0. Len(posted) \in Nat
    BY LenProperties DEF QueueType
<1>1. CASE fresh' = {}
    BY <1>1
<1>2. CASE /\ UNCHANGED <<fresh, lit, posted>>
           /\ window # "closed"
    BY <1>2 DEF ActiveIsLit
<1>3. CASE Relay
    <2>1. posted' = posted \o <<AppendCall(pending)>> \o SetToSeq(Lights(pending))
        BY <1>3 DEF Relay, RelayLighting, Lights
    <2>2. /\ posted' \in Seq(Posted) /\ Len(posted') \in Nat /\ Len(posted') > Len(posted)
          /\ \A h \in 1..Len(posted) : posted'[h] = posted[h]
        BY <2>1, RelayedQueue DEF SessionTypes, QueueType
    <2>3. UNCHANGED <<fresh, lit, window>>
        BY <1>3 DEF Relay, RelayLighting, windowVars, treeVars
    <2>4. CASE LightCall(k) \in Range(posted)
        <3>1. PICK j \in 1..Len(posted) : posted[j] = LightCall(k)
            BY <2>4, InRange
        <3>2. j \in 1..Len(posted') /\ posted'[j] = LightCall(k)
            BY <1>0, <2>2, <3>1
        <3>3. DOMAIN posted' = 1..Len(posted')
            BY <2>2, LenProperties
        <3> QED BY <3>2, <3>3 DEF Range
    <2> QED BY <2>3, <2>4 DEF ActiveIsLit
<1>4. CASE RunAppend /\ window # "closed"
    <2>1. /\ posted # <<>> /\ Head(posted).do = "append" /\ posted' = Tail(posted)
          /\ fresh' = fresh \cup {KeyOf(m) : m \in Range(Head(posted).text)}
          /\ UNCHANGED lit
        BY <1>4 DEF RunAppend
    <2>2. 1 \in 1..Len(posted) /\ posted[1] = Head(posted)
        BY <1>0, <2>1, HeadTailProperties, EmptySeq DEF QueueType
    <2>3. CASE k \in fresh
        <3>1. CASE LightCall(k) \in Range(posted)
            <4>1. PICK j \in 1..Len(posted) : posted[j] = LightCall(k)
                BY <3>1, InRange
            <4>2. posted[j].do = "light"
                BY <4>1 DEF LightCall
            <4>3. j # 1
                BY <2>1, <2>2, <4>2
            <4>4. j \in 2..Len(posted)
                BY <1>0, <4>3
            <4> QED BY <2>1, <4>1, <4>4, InTail
        <3> QED BY <1>4, <2>1, <2>3, <3>1 DEF ActiveIsLit
    <2>4. ASSUME NEW m \in Range(Head(posted).text), k = KeyOf(m)
          PROVE  LightCall(k) \in Range(posted')
        <3>1. PICK j \in (1 + 1)..Len(posted) : posted[j] = LightCall(KeyOf(m))
            BY <2>1, <2>2 DEF LightsFollow
        <3>2. j \in 2..Len(posted)
            OBVIOUS
        <3> QED BY <2>1, <2>4, <3>1, <3>2, InTail
    <2> QED BY <2>1, <2>3, <2>4
<1>5. CASE LightItem
    <2>1. /\ posted # <<>> /\ posted' = Tail(posted) /\ window # "closed"
          /\ lit' = lit \cup {SaItem(Head(posted).key), RtItem(Head(posted).key), BusItem}
          /\ UNCHANGED fresh
        BY <1>5 DEF LightItem
    <2>2. 1 \in 1..Len(posted) /\ posted[1] = Head(posted)
        BY <1>0, <2>1, HeadTailProperties, EmptySeq DEF QueueType
    <2>3. CASE LightCall(k) \in Range(posted)
        <3>1. PICK j \in 1..Len(posted) : posted[j] = LightCall(k)
            BY <2>3, InRange
        <3>2. CASE j = 1
            <4>1. Head(posted).key = k
                BY <2>2, <3>1, <3>2 DEF LightCall
            <4> QED BY <2>1, <4>1
        <3>3. CASE j \in 2..Len(posted)
            BY <2>1, <3>1, <3>3, InTail
        <3> QED BY <1>0, <3>2, <3>3
    <2> QED BY <2>1, <2>3 DEF ActiveIsLit
<1>6. CASE window = "closed" /\ window' = window
    BY <1>6
<1> QED
    BY <1>1, <1>2, <1>3, <1>4, <1>5, <1>6
       DEF Next, User, RunPosted, Connect, ConnectTo, ConnectFails, StopClick, StartClick,
           ClearClick, ItemClick, ClearFilterClick, CloseClick, Click, ResetTree, Decode,
           AppendMessages, RunAfterClose, windowVars, treeVars

----------------------------------------------------------------------------
(* The theorems.                                                           *)

LEMMA ViewStep == ViewInv /\ [Next]_vars => ViewInv'
<1> SUFFICES ASSUME ViewInv, [Next]_vars PROVE ViewInv'
    OBVIOUS
<1>1. CASE Next
    <2>1. /\ SessionTypes /\ WindowTypes /\ NumberTypes /\ LabelType
          /\ QueueType /\ ListTypes /\ TreeTypes
        BY TypeParts DEF ViewInv
    <2>2. TypeOK'
        <3>1. /\ SessionTypes' /\ WindowTypes' /\ NumberTypes' /\ LabelType'
              /\ QueueType' /\ ListTypes' /\ TreeTypes'
            BY <1>1, <2>1, SessionStep, WindowStep, NumberStep, LabelStep, QueueStep,
               ListStep, TreeStep DEF ViewInv
        <3> QED BY <3>1, TypeParts, PTL
    <2> QED BY <1>1, <2>1, <2>2, ButtonStep, BoldStep, ListStep, FollowStep, ActiveStep
            DEF ViewInv
<1>2. CASE UNCHANGED vars
    <2>1. /\ UNCHANGED <<on, pending, relayed>> /\ UNCHANGED <<window, asked, port, button>>
          /\ UNCHANGED label /\ UNCHANGED posted
          /\ UNCHANGED <<list, appends, clearedAt>> /\ UNCHANGED <<lit, bold, fresh>>
          /\ UNCHANGED clicks
        BY <1>2, SMT DEF vars, sessionVars, windowVars, listVars, treeVars
    <2>2. TypeOK'
        <3>1. /\ SessionTypes' /\ WindowTypes' /\ NumberTypes' /\ LabelType'
              /\ QueueType' /\ ListTypes' /\ TreeTypes'
            BY <2>1, TypeParts, SMT
               DEF ViewInv, SessionTypes, WindowTypes, NumberTypes, LabelType, QueueType,
                   ListTypes, TreeTypes
        <3> QED BY <3>1, TypeParts, PTL
    <2>3. ButtonAgrees' /\ BoldIsLitOrChosen' /\ ListTrimmed'
        BY <2>1, SMT DEF ViewInv, ButtonAgrees, BoldIsLitOrChosen, ListTrimmed
    <2>4. LightsFollow' /\ ActiveIsLit'
        BY <2>1, SMT DEF ViewInv, LightsFollow, ActiveIsLit
    <2> QED BY <2>2, <2>3, <2>4 DEF ViewInv
<1> QED
    BY <1>1, <1>2

(***************************************************************************)
(* The invariant the theorems below follow from.                           *)
(***************************************************************************)
THEOREM ViewInvariant == Spec => []ViewInv
BY InitView, ViewStep, PTL DEF Spec

(***************************************************************************)
(* Every variable of the windows keeps its type; so each line of the list  *)
(* is a line of a message, and the sniffed port fits sixteen bits.         *)
(***************************************************************************)
THEOREM ViewTypes == Spec => []TypeOK
<1>1. ViewInv => TypeOK
    BY DEF ViewInv
<1> QED BY <1>1, ViewInvariant, PTL

(***************************************************************************)
(* The button says Stop exactly when the monitor runs, whatever the user   *)
(* clicks and whichever starts fail.                                       *)
(***************************************************************************)
THEOREM ButtonFollowsMonitor == Spec => []ButtonAgrees
<1>1. ViewInv => ButtonAgrees
    BY DEF ViewInv
<1> QED BY <1>1, ViewInvariant, PTL

(***************************************************************************)
(* An RT/SA pair in the list is green in the tree, or the function that    *)
(* makes it green is posted, however the posted functions are delayed.     *)
(***************************************************************************)
THEOREM TreeFollowsList == Spec => []ActiveIsLit
<1>1. ViewInv => ActiveIsLit
    BY DEF ViewInv
<1> QED BY <1>1, ViewInvariant, PTL

(***************************************************************************)
(* Buses, RTs and SAs are bold only while active or named by the button.   *)
(***************************************************************************)
THEOREM BoldForReason == Spec => []BoldIsLitOrChosen
<1>1. ViewInv => BoldIsLitOrChosen
    BY DEF ViewInv
<1> QED BY <1>1, ViewInvariant, PTL

(***************************************************************************)
(* After every TrimEvery-th append the list is short enough, however long  *)
(* the appended texts are.                                                 *)
(***************************************************************************)
THEOREM ListStaysTrimmed == Spec => []ListTrimmed
<1>1. ViewInv => ListTrimmed
    BY DEF ViewInv
<1> QED BY <1>1, ViewInvariant, PTL

----------------------------------------------------------------------------
(* Induction, with the set of the numbers a claim holds for.               *)

LEMMA Smallest ==
    ASSUME NEW T, T \subseteq Nat, T # {}
    PROVE  \E x \in T : \A y \in T : ~(y < x)
<1> DEFINE R == {ss \in Nat \X Nat : ss[1] < ss[2]}
<1>1. IsWellFoundedOn(R, Nat)
  BY NatLessThanWellFounded DEF OpToRel
<1>2. \E x \in T : \A y \in T : ~(<<y, x>> \in R)
  <2> HIDE DEF R
  <2> QED  BY <1>1, WFMin
<1>3. \A x, y \in Nat : y < x => <<y, x>> \in R
  OBVIOUS
<1>4. QED  BY <1>2, <1>3

LEMMA SetInduction ==
    ASSUME NEW S, 0 \in S, \A n \in Nat : n \in S => n + 1 \in S
    PROVE  \A n \in Nat : n \in S
<1> SUFFICES ASSUME Nat \ S # {} PROVE FALSE
  OBVIOUS
<1> DEFINE T == Nat \ S
<1>1. \E m \in T : \A y \in T : ~(y < m)
  <2>1. T \subseteq Nat /\ T # {}
    OBVIOUS
  <2> HIDE DEF T
  <2>2. QED  BY <2>1, Smallest
<1>2. PICK m \in Nat \ S : \A y \in Nat \ S : ~(y < m)
  BY <1>1
<1>3. m # 0 /\ m - 1 \in Nat
  BY <1>2
<1>4. m - 1 \in S
  BY <1>2, <1>3
<1>5. QED  BY <1>2, <1>3, <1>4

----------------------------------------------------------------------------
(* The texts that wait: FoldLeft over the queue, entry by entry.           *)

Largest(s) == CHOOSE x \in s : \A y \in s : x >= y
Adding(ms, c) == IF c.do = "append" THEN ms \o c.text ELSE ms

\* f is FoldLeft's function over the positions 1..n of q.
IsFold(f, q, n) ==
    f = [s \in SUBSET (1..n) |->
            IF s = {} THEN <<>> ELSE Adding(f[s \ {Largest(s)}], q[Largest(s)])]

LEMMA LargestOf ==
    ASSUME NEW n \in Nat, NEW s \in SUBSET (1..(n + 1)), n + 1 \in s
    PROVE  Largest(s) = n + 1
<1>1. \A y \in s : n + 1 >= y
    OBVIOUS
<1>2. \E x \in s : \A y \in s : x >= y
    BY <1>1
<1>3. Largest(s) \in s /\ \A y \in s : Largest(s) >= y
    BY <1>2 DEF Largest
<1>4. Largest(s) \in 1..(n + 1) /\ Largest(s) >= n + 1
    BY <1>3
<1> QED
    BY <1>4

LEMMA FoldExists ==
    ASSUME NEW q
    PROVE  \A n \in Nat : \E f : IsFold(f, q, n)
<1> DEFINE S == {n \in Nat : \E f : IsFold(f, q, n)}
<1>1. 0 \in S
    <2> DEFINE f == [s \in SUBSET (1..0) |-> <<>>]
    <2>1. 1..0 = {}
        OBVIOUS
    <2>2. \A s \in SUBSET (1..0) : s = {}
        BY <2>1
    <2>3. IsFold(f, q, 0)
        BY <2>2 DEF IsFold
    <2> QED
        BY <2>3
<1>2. ASSUME NEW n \in Nat, n \in S PROVE n + 1 \in S
    <2>1. PICK f : IsFold(f, q, n)
        BY <1>2
    <2> DEFINE g == [s \in SUBSET (1..(n + 1)) |->
                        IF n + 1 \in s THEN Adding(f[s \ {n + 1}], q[n + 1]) ELSE f[s]]
    <2>2. \A s \in SUBSET (1..(n + 1)) : n + 1 \notin s => s \in SUBSET (1..n) /\ g[s] = f[s]
        <3>1. \A k \in 1..(n + 1) : k # n + 1 => k \in 1..n
            OBVIOUS
        <3> QED
            BY <3>1
    <2>3. ASSUME NEW s \in SUBSET (1..(n + 1))
          PROVE  g[s] = IF s = {} THEN <<>> ELSE Adding(g[s \ {Largest(s)}], q[Largest(s)])
        <3>1. CASE n + 1 \in s
            <4>1. Largest(s) = n + 1
                BY <3>1, LargestOf
            <4>2. g[s \ {n + 1}] = f[s \ {n + 1}]
                <5>1. s \ {n + 1} \in SUBSET (1..(n + 1)) /\ n + 1 \notin s \ {n + 1}
                    OBVIOUS
                <5> HIDE DEF g
                <5> QED
                    BY <5>1, <2>2
            <4>3. g[s] = Adding(f[s \ {n + 1}], q[n + 1])
                BY <3>1
            <4>4. s # {}
                BY <3>1
            <4> HIDE DEF g
            <4> QED
                BY <4>1, <4>2, <4>3, <4>4
        <3>2. CASE n + 1 \notin s
            <4>1. s \in SUBSET (1..n) /\ g[s] = f[s]
                BY <2>2, <3>2
            <4>2. f[s] = IF s = {} THEN <<>> ELSE Adding(f[s \ {Largest(s)}], q[Largest(s)])
                BY <2>1, <4>1 DEF IsFold
            <4>3. g[s \ {Largest(s)}] = f[s \ {Largest(s)}]
                <5>1. s \ {Largest(s)} \in SUBSET (1..(n + 1)) /\ n + 1 \notin s \ {Largest(s)}
                    BY <3>2
                <5> HIDE DEF g
                <5> QED
                    BY <5>1, <2>2
            <4> HIDE DEF g
            <4> QED
                BY <4>1, <4>2, <4>3
        <3> QED
            BY <3>1, <3>2
    <2>4. g = [s \in SUBSET (1..(n + 1)) |-> g[s]]
        OBVIOUS
    <2> HIDE DEF g
    <2>5. IsFold(g, q, n + 1)
        BY <2>3, <2>4 DEF IsFold
    <2> QED
        BY <2>5
<1>3. \A n \in Nat : n \in S
    <2> HIDE DEF S
    <2> QED
        BY <1>1, <1>2, SetInduction
<1> QED
    BY <1>3

WaitingIn(q) ==
    FoldLeft(LAMBDA ms, c : IF c.do = "append" THEN ms \o c.text ELSE ms, <<>>, q)

\* f[k] is the text in the first k functions of q.
IsRun(f, q) ==
    /\ f[0] = <<>>
    /\ \A k \in 1..Len(q) : f[k] = Adding(f[k - 1], q[k])

(***************************************************************************)
(* FoldLeft goes through a sequence from its first element to its last.    *)
(***************************************************************************)
LEMMA WaitingIsRun ==
    ASSUME NEW q \in Seq(Posted)
    PROVE  \E f : IsRun(f, q) /\ WaitingIn(q) = f[Len(q)]
<1>0. Len(q) \in Nat /\ DOMAIN q = 1..Len(q)
    BY LenProperties
<1> DEFINE F == CHOOSE f : IsFold(f, q, Len(q))
<1>1. WaitingIn(q) = F[1..Len(q)]
    <2>1. WaitingIn(q) =
              (CHOOSE f : f = [s \in SUBSET DOMAIN q |->
                                  IF s = {} THEN <<>>
                                  ELSE Adding(f[s \ {Largest(s)}], q[Largest(s)])])[DOMAIN q]
        BY DEF WaitingIn, FoldLeft, MapThenFoldSet, Adding, Largest, Max
    <2> QED
        BY <2>1, <1>0 DEF IsFold
<1>2. IsFold(F, q, Len(q))
    BY <1>0, FoldExists
<1> HIDE DEF F
<1> DEFINE f == [k \in 0..Len(q) |-> F[1..k]]
<1>3. ASSUME NEW k \in 1..Len(q) PROVE F[1..k] = Adding(F[1..(k - 1)], q[k])
    <2>1. 1..k \in SUBSET (1..Len(q)) /\ k - 1 \in Nat /\ (k - 1) + 1 = k /\ k \in 1..k
        BY <1>0
    <2>2. Largest(1..k) = k
        <3> DEFINE j == k - 1
        <3>1. j \in Nat /\ k = j + 1
            BY <2>1
        <3> HIDE DEF j
        <3> QED
            BY <2>1, <3>1, LargestOf
    <2>3. (1..k) \ {k} = 1..(k - 1)
        BY <1>0
    <2>4. 1..k # {}
        BY <2>1
    <2> QED
        BY <1>2, <2>1, <2>2, <2>3, <2>4 DEF IsFold
<1>4. F[1..0] = <<>>
    <2>1. 1..0 = {} /\ {} \in SUBSET (1..Len(q))
        OBVIOUS
    <2> QED
        BY <1>2, <2>1 DEF IsFold
<1>5. /\ f[0] = F[1..0] /\ f[Len(q)] = F[1..Len(q)]
      /\ \A k \in 1..Len(q) : f[k] = F[1..k] /\ f[k - 1] = F[1..(k - 1)]
    BY <1>0
<1> HIDE DEF f
<1>6. IsRun(f, q)
    BY <1>3, <1>4, <1>5 DEF IsRun
<1> QED
    BY <1>1, <1>5, <1>6

\* The text in one posted function.
TextOf(c) == IF c.do = "append" THEN c.text ELSE <<>>

LEMMA MessagesAssociative ==
    \A a, b, c \in Seq(Messages) : (a \o b) \o c = a \o (b \o c)
BY ConcatAssociative

LEMMA AddingText ==
    ASSUME NEW c \in Posted, NEW ms \in Seq(Messages)
    PROVE  /\ TextOf(c) \in Seq(Messages)
           /\ Adding(ms, c) = ms \o TextOf(c) /\ Adding(ms, c) \in Seq(Messages)
<1>1. CASE c.do = "append"
    <2>1. c.text \in Seq(Messages)
        BY <1>1 DEF Posted
    <2> QED
        BY <1>1, <2>1, ConcatProperties DEF TextOf, Adding
<1>2. CASE c.do # "append"
    <2>1. ms \o <<>> = ms /\ <<>> \in Seq(Messages)
        BY ConcatEmptySeq, EmptySeq
    <2> QED
        BY <1>2, <2>1 DEF TextOf, Adding
<1> QED
    BY <1>1, <1>2

LEMMA RunTypes ==
    ASSUME NEW q \in Seq(Posted), NEW f, IsRun(f, q)
    PROVE  /\ \A k \in 0..Len(q) : f[k] \in Seq(Messages)
           /\ \A k \in 1..Len(q) : /\ TextOf(q[k]) \in Seq(Messages)
                                   /\ f[k] = f[k - 1] \o TextOf(q[k])
<1>0. Len(q) \in Nat /\ \A k \in 1..Len(q) : q[k] \in Posted
    BY LenProperties, ElementOfSeq
<1> DEFINE S == {k \in Nat : k <= Len(q) => f[k] \in Seq(Messages)}
<1>1. 0 \in S
    BY EmptySeq DEF IsRun
<1>2. ASSUME NEW k \in Nat, k \in S PROVE k + 1 \in S
    <2> SUFFICES ASSUME k + 1 <= Len(q) PROVE f[k + 1] \in Seq(Messages)
        OBVIOUS
    <2>1. k + 1 \in 1..Len(q) /\ (k + 1) - 1 = k /\ f[k] \in Seq(Messages)
        BY <1>0, <1>2
    <2>2. f[k + 1] = Adding(f[k], q[k + 1]) /\ q[k + 1] \in Posted
        BY <1>0, <2>1 DEF IsRun
    <2> QED
        BY <2>1, <2>2, AddingText
<1>3. \A k \in Nat : k \in S
    <2> HIDE DEF S
    <2> QED
        BY <1>1, <1>2, SetInduction
<1>4. \A k \in 0..Len(q) : f[k] \in Seq(Messages)
    BY <1>0, <1>3
<1>5. ASSUME NEW k \in 1..Len(q)
      PROVE  TextOf(q[k]) \in Seq(Messages) /\ f[k] = f[k - 1] \o TextOf(q[k])
    <2>1. f[k - 1] \in Seq(Messages) /\ q[k] \in Posted
        <3>1. k - 1 \in 0..Len(q)
            BY <1>0
        <3> QED
            BY <1>0, <1>4, <3>1
    <2>2. f[k] = Adding(f[k - 1], q[k])
        BY DEF IsRun
    <2> QED
        BY <2>1, <2>2, AddingText
<1> QED
    BY <1>4, <1>5

LEMMA WaitingType ==
    ASSUME NEW q \in Seq(Posted)
    PROVE  WaitingIn(q) \in Seq(Messages)
<1>1. Len(q) \in 0..Len(q)
    BY LenProperties
<1> QED
    BY <1>1, WaitingIsRun, RunTypes

(***************************************************************************)
(* The texts of q without its head are those of q without the head's text. *)
(***************************************************************************)
LEMMA WaitingHandled ==
    ASSUME NEW q \in Seq(Posted), q # <<>>
    PROVE  /\ TextOf(Head(q)) \in Seq(Messages)
           /\ WaitingIn(q) = TextOf(Head(q)) \o WaitingIn(Tail(q))
<1> DEFINE t == Tail(q)
           n == Len(t)
           b == TextOf(q[1])
<1>1. /\ t \in Seq(Posted) /\ Len(q) = n + 1 /\ n \in Nat
      /\ \A k \in 1..n : t[k] = q[k + 1]
      /\ Head(q) = q[1] /\ q[1] \in Posted
    BY HeadTailProperties, LenProperties, EmptySeq, ElementOfSeq
<1>2. PICK f : IsRun(f, q) /\ WaitingIn(q) = f[Len(q)]
    BY WaitingIsRun
<1>3. PICK g : IsRun(g, t) /\ WaitingIn(t) = g[n]
    BY <1>1, WaitingIsRun
<1>4. /\ \A k \in 0..Len(q) : f[k] \in Seq(Messages)
      /\ \A k \in 1..Len(q) : /\ TextOf(q[k]) \in Seq(Messages)
                              /\ f[k] = f[k - 1] \o TextOf(q[k])
    BY <1>2, RunTypes
<1>5. /\ \A k \in 0..n : g[k] \in Seq(Messages)
      /\ \A k \in 1..n : /\ TextOf(t[k]) \in Seq(Messages)
                         /\ g[k] = g[k - 1] \o TextOf(t[k])
    BY <1>1, <1>3, RunTypes
<1>6. f[0] = <<>> /\ g[0] = <<>>
    BY <1>2, <1>3 DEF IsRun
<1> DEFINE h == [k \in 0..n |-> f[k + 1]]
<1>7. b \in Seq(Messages) /\ h[0] = b \o g[0] /\ f[Len(q)] = h[n]
    <2>1. 1 \in 1..Len(q) /\ 1 - 1 = 0
        BY <1>1
    <2>2. b \in Seq(Messages) /\ f[1] = <<>> \o b
        BY <1>4, <1>6, <2>1
    <2>3. <<>> \o b = b \o <<>>
        BY <2>2, ConcatEmptySeq
    <2>4. f[1] = h[0] /\ f[Len(q)] = h[n]
        BY <1>1
    <2> QED
        BY <1>6, <2>2, <2>3, <2>4
<1>8. ASSUME NEW k \in 1..n
      PROVE  h[k] = h[k - 1] \o TextOf(t[k]) /\ g[k - 1] \in Seq(Messages)
    <2>1. k + 1 \in 1..Len(q) /\ (k + 1) - 1 = k /\ k \in 0..n /\ k - 1 \in 0..n
          /\ (k - 1) + 1 = k
        BY <1>1
    <2>2. f[k + 1] = f[(k + 1) - 1] \o TextOf(q[k + 1])
        BY <1>4, <2>1
    <2>3. h[k] = f[k + 1] /\ h[k - 1] = f[k] /\ t[k] = q[k + 1] /\ g[k - 1] \in Seq(Messages)
        BY <1>1, <1>5, <2>1
    <2> HIDE DEF h, t
    <2> QED
        BY <2>1, <2>2, <2>3
<1>9. n \in Nat
    BY <1>1
<1> HIDE DEF h, t, n, b
<1> DEFINE S == {k \in Nat : k <= n => h[k] = b \o g[k]}
<1>10. 0 \in S
    BY <1>7
<1>11. ASSUME NEW k \in Nat, k \in S PROVE k + 1 \in S
    <2> SUFFICES ASSUME k + 1 <= n PROVE h[k + 1] = b \o g[k + 1]
        OBVIOUS
    <2>1. k + 1 \in 1..n /\ (k + 1) - 1 = k /\ k <= n
        BY <1>9
    <2>2. h[k] = b \o g[k]
        BY <1>11, <2>1
    <2>3. /\ h[k + 1] = h[k] \o TextOf(t[k + 1]) /\ g[k] \in Seq(Messages)
          /\ g[k + 1] = g[k] \o TextOf(t[k + 1]) /\ TextOf(t[k + 1]) \in Seq(Messages)
        BY <1>5, <1>8, <2>1
    <2>4. (b \o g[k]) \o TextOf(t[k + 1]) = b \o (g[k] \o TextOf(t[k + 1]))
        BY <1>7, <2>3, MessagesAssociative
    <2> QED
        BY <2>2, <2>3, <2>4
<1>12. \A k \in Nat : k \in S
    <2> HIDE DEF S
    <2> QED
        BY <1>10, <1>11, SetInduction
<1>13. h[n] = b \o g[n]
    BY <1>9, <1>12
<1> QED
    BY <1>1, <1>2, <1>3, <1>7, <1>13 DEF t, b

(***************************************************************************)
(* A flush adds the pending messages, once, and the functions behind them  *)
(* add no text.                                                            *)
(***************************************************************************)
LEMMA WaitingRelayed ==
    ASSUME posted \in Seq(Posted), pending \in Seq(Messages),
           NEW q, q = posted \o <<AppendCall(pending)>> \o SetToSeq(Lights(pending))
    PROVE  WaitingIn(q) = WaitingIn(posted) \o pending
<1> DEFINE n == Len(posted)
<1>1. /\ q \in Seq(Posted) /\ Len(q) \in Nat /\ Len(q) > n
      /\ \A i \in 1..n : q[i] = posted[i]
      /\ q[n + 1] = AppendCall(pending)
      /\ \A i \in (n + 2)..Len(q) : q[i] \in Lights(pending)
    BY RelayedQueue
<1>2. PICK f : IsRun(f, posted) /\ WaitingIn(posted) = f[n]
    BY WaitingIsRun
<1>3. PICK g : IsRun(g, q) /\ WaitingIn(q) = g[Len(q)]
    BY <1>1, WaitingIsRun
<1>4. /\ f[0] = <<>> /\ g[0] = <<>>
      /\ \A k \in 1..n : f[k] = f[k - 1] \o TextOf(posted[k])
    BY <1>2, <1>3, RunTypes DEF IsRun
<1>5. /\ \A k \in 0..Len(q) : g[k] \in Seq(Messages)
      /\ \A k \in 1..Len(q) : g[k] = g[k - 1] \o TextOf(q[k])
    BY <1>1, <1>3, RunTypes
<1>6. n \in Nat
    BY LenProperties
<1> HIDE DEF n
<1> DEFINE S == {k \in Nat : k <= n => g[k] = f[k]}
<1>7. 0 \in S
    BY <1>4
<1>8. ASSUME NEW k \in Nat, k \in S PROVE k + 1 \in S
    <2> SUFFICES ASSUME k + 1 <= n PROVE g[k + 1] = f[k + 1]
        OBVIOUS
    <2>1. k + 1 \in 1..n /\ k + 1 \in 1..Len(q) /\ (k + 1) - 1 = k /\ k <= n
        BY <1>1, <1>6
    <2>2. g[k] = f[k] /\ q[k + 1] = posted[k + 1]
        BY <1>1, <1>8, <2>1
    <2> QED
        BY <1>4, <1>5, <2>1, <2>2
<1>9. \A k \in Nat : k \in S
    <2> HIDE DEF S
    <2> QED
        BY <1>7, <1>8, SetInduction
<1>10. g[n] = f[n]
    BY <1>6, <1>9
<1>11. g[n + 1] = f[n] \o pending
    <2>1. n + 1 \in 1..Len(q) /\ (n + 1) - 1 = n
        BY <1>1, <1>6
    <2>2. TextOf(q[n + 1]) = pending
        <3>1. TextOf(AppendCall(pending)) = pending
            BY DEF TextOf, AppendCall
        <3> QED
            BY <1>1, <3>1
    <2> QED
        BY <1>5, <1>10, <2>1, <2>2
<1> DEFINE L == {k \in Nat : n + 1 + k <= Len(q) => g[n + 1 + k] = g[n + 1]}
<1>12. 0 \in L
    <2>1. n + 1 + 0 = n + 1
        BY <1>6
    <2> QED
        BY <2>1
<1>13. ASSUME NEW k \in Nat, k \in L PROVE k + 1 \in L
    <2> SUFFICES ASSUME n + 1 + (k + 1) <= Len(q) PROVE g[n + 1 + (k + 1)] = g[n + 1]
        OBVIOUS
    <2> DEFINE i == n + 1 + (k + 1)
    <2>1. i \in (n + 2)..Len(q) /\ i \in 1..Len(q) /\ i - 1 = n + 1 + k /\ i - 1 \in 0..Len(q)
        BY <1>1, <1>6
    <2>2. n + 1 + k <= Len(q)
        BY <1>1, <1>6
    <2>3. g[n + 1 + k] = g[n + 1]
        BY <1>13, <2>2
    <2> HIDE DEF i
    <2>4. TextOf(q[i]) = <<>>
        <3>1. q[i] \in Lights(pending)
            BY <1>1, <2>1
        <3>2. q[i].do = "light"
            BY ONLY <3>1 DEF Lights, LightCall
        <3> QED
            BY <3>2 DEF TextOf
    <2>5. g[i] = g[i - 1] \o <<>> /\ g[i - 1] \in Seq(Messages)
        BY <1>5, <2>1, <2>4
    <2>6. g[i] = g[i - 1]
        BY <2>5, ConcatEmptySeq
    <2> QED
        BY <2>1, <2>3, <2>6 DEF i
<1>14. \A k \in Nat : k \in L
    <2> HIDE DEF L
    <2> QED
        BY <1>12, <1>13, SetInduction
<1>15. g[Len(q)] = g[n + 1]
    <2> DEFINE k == Len(q) - (n + 1)
    <2>1. k \in Nat /\ n + 1 + k = Len(q)
        BY <1>1, <1>6
    <2>2. k \in L
        BY <1>14, <2>1
    <2> HIDE DEF k
    <2> QED
        BY <1>1, <2>1, <2>2
<1> QED
    BY <1>2, <1>3, <1>11, <1>15

----------------------------------------------------------------------------
(* The lines of a text, and what is left of a list that is trimmed.        *)

LEMMA DivUnique ==
    ASSUME NEW b \in Nat \ {0}, NEW x \in Int, NEW q \in Int, NEW r \in 0..(b - 1),
           x = b * q + r
    PROVE  x \div b = q /\ x % b = r
<1> DEFINE p == x \div b
           t == x % b
<1>1. p \in Int /\ t \in 0..(b - 1) /\ x = b * p + t
    OBVIOUS
<1> HIDE DEF p, t
<1>2. ~(p >= q + 1)
    <2> SUFFICES ASSUME p >= q + 1 PROVE FALSE
        OBVIOUS
    <2>1. b * p >= b * (q + 1) /\ b * (q + 1) = b * q + b
        BY <1>1
    <2> QED
        BY <2>1, <1>1
<1>3. ~(p <= q - 1)
    <2> SUFFICES ASSUME p <= q - 1 PROVE FALSE
        OBVIOUS
    <2>1. b * p <= b * (q - 1) /\ b * (q - 1) = b * q - b
        BY <1>1
    <2> QED
        BY <2>1, <1>1
<1>4. p = q
    BY <1>1, <1>2, <1>3
<1> QED
    BY <1>1, <1>4 DEF p, t

LEMMA DivShift ==
    ASSUME NEW b \in Nat \ {0}, NEW n \in Nat, NEW a \in Nat
    PROVE  (n * b + a) \div b = n + (a \div b) /\ (n * b + a) % b = a % b
<1> DEFINE q == a \div b
           r == a % b
           x == n * b + a
<1>1. q \in Int /\ r \in 0..(b - 1) /\ a = b * q + r
    OBVIOUS
<1> HIDE DEF q, r
<1>2. x \in Int /\ n + q \in Int /\ x = b * (n + q) + r
    <2>1. b * (n + q) = n * b + b * q /\ n * b \in Int
        BY <1>1
    <2> QED
        BY <2>1, <1>1
<1> HIDE DEF x
<1>3. x \div b = n + q /\ x % b = r
    BY <1>1, <1>2, DivUnique
<1> QED
    BY <1>3 DEF x, q, r

LEMMA TextLength ==
    ASSUME NEW ms \in Seq(Messages)
    PROVE  Len(Text(ms)) = Len(ms) * MessageLines /\ Len(Text(ms)) \in Nat
<1>1. Len(ms) \in Nat /\ MessageLines \in Nat
    BY ListAssumption, LenProperties
<1> DEFINE n == Len(ms) * MessageLines
<1>2. n \in Nat
    BY <1>1
<1>3. Text(ms) \in Seq(Line) /\ DOMAIN Text(ms) = 1..n
    BY TextType DEF Text
<1> HIDE DEF n
<1>4. Len(Text(ms)) = n
    BY <1>2, <1>3, LenProperties
<1> QED
    BY <1>2, <1>4 DEF n

(***************************************************************************)
(* The lines of two texts, one after the other, are those of both.         *)
(***************************************************************************)
LEMMA TextConcat ==
    ASSUME NEW a \in Seq(Messages), NEW b \in Seq(Messages)
    PROVE  Text(a \o b) = Text(a) \o Text(b)
<1> DEFINE M == MessageLines
           c == a \o b
           A == Len(a) * M
           B == Len(b) * M
           d(j) == (j - 1) \div M
           r(j) == (j - 1) % M
<1>1. /\ Len(a) \in Nat /\ Len(b) \in Nat /\ M \in Nat \ {0}
      /\ c \in Seq(Messages) /\ Len(c) = Len(a) + Len(b)
      /\ \A i \in 1..(Len(a) + Len(b)) : c[i] = IF i <= Len(a) THEN a[i] ELSE b[i - Len(a)]
    BY ListAssumption, LenProperties, ConcatProperties
<1>2. A \in Nat /\ B \in Nat /\ Len(c) * M = A + B
    BY <1>1
<1>3. /\ Text(a) \in Seq(Line) /\ Len(Text(a)) = A
      /\ Text(b) \in Seq(Line) /\ Len(Text(b)) = B
      /\ Text(c) \in Seq(Line) /\ Len(Text(c)) = A + B
    <2>1. /\ Text(a) \in Seq(Line) /\ Len(Text(a)) = A
          /\ Text(b) \in Seq(Line) /\ Len(Text(b)) = B
        BY TextType, TextLength
    <2>2. Text(c) \in Seq(Line) /\ Len(Text(c)) = Len(c) * M
        BY <1>1, TextType, TextLength
    <2> QED
        BY <1>2, <2>1, <2>2
<1>4. /\ \A j \in 1..A : Text(a)[j] = <<a[d(j) + 1], r(j) + 1>>
      /\ \A j \in 1..B : Text(b)[j] = <<b[d(j) + 1], r(j) + 1>>
      /\ \A j \in 1..(A + B) : Text(c)[j] = <<c[d(j) + 1], r(j) + 1>>
    <2>1. \A j \in 1..(Len(c) * M) : Text(c)[j] = <<c[d(j) + 1], r(j) + 1>>
        <3> HIDE DEF c
        <3> QED
            BY DEF Text
    <2> QED
        BY <1>2, <2>1 DEF Text
<1>5. /\ Text(a) \o Text(b) \in Seq(Line) /\ Len(Text(a) \o Text(b)) = A + B
      /\ \A j \in 1..(A + B) :
             (Text(a) \o Text(b))[j] = IF j <= A THEN Text(a)[j] ELSE Text(b)[j - A]
    <2> HIDE DEF A, B, c, d, r
    <2> QED
        BY ONLY <1>3, ConcatProperties
<1>6. ASSUME NEW j \in 1..(A + B) PROVE Text(c)[j] = (Text(a) \o Text(b))[j]
    <2>1. CASE j <= A
        <3>1. j \in 1..A /\ j - 1 \in Nat /\ j - 1 < Len(a) * M
            BY <1>2, <2>1
        <3>2. d(j) \in 0..(Len(a) - 1)
            BY <1>1, <3>1, DivBound
        <3> HIDE DEF d, r, A, B, c
        <3>3. d(j) + 1 \in 1..(Len(a) + Len(b)) /\ d(j) + 1 <= Len(a)
            BY <1>1, <3>2
        <3>4. c[d(j) + 1] = a[d(j) + 1]
            BY <1>1, <3>3
        <3> QED
            BY <1>4, <1>5, <2>1, <3>1, <3>4
    <2>2. CASE ~(j <= A)
        <3> DEFINE i == j - A
        <3>1. i \in 1..B /\ i - 1 \in Nat /\ i - 1 < Len(b) * M /\ j - 1 = A + (i - 1)
            BY <1>2, <2>2
        <3> HIDE DEF i
        <3>2. (i - 1) \div M \in 0..(Len(b) - 1)
            BY <1>1, <3>1, DivBound
        <3>3. d(j) = Len(a) + d(i) /\ r(j) = r(i)
            <4> DEFINE k == i - 1
            <4>1. k \in Nat /\ j - 1 = Len(a) * M + k
                BY <3>1
            <4> HIDE DEF k
            <4>2. (Len(a) * M + k) \div M = Len(a) + (k \div M) /\ (Len(a) * M + k) % M = k % M
                BY <1>1, <4>1, DivShift
            <4> QED
                BY <4>1, <4>2 DEF k
        <3>4. d(i) \in 0..(Len(b) - 1)
            BY <3>2
        <3> HIDE DEF d, r, A, B, c
        <3>5. /\ d(j) + 1 \in 1..(Len(a) + Len(b)) /\ ~(d(j) + 1 <= Len(a))
              /\ (d(j) + 1) - Len(a) = d(i) + 1
            BY <1>1, <3>3, <3>4
        <3>6. c[d(j) + 1] = b[d(i) + 1]
            BY <1>1, <3>5
        <3>7. Text(b)[i] = <<b[d(i) + 1], r(i) + 1>>
            BY <1>4, <3>1
        <3>8. (Text(a) \o Text(b))[j] = Text(b)[i]
            BY <1>5, <2>2 DEF i
        <3> QED
            BY <1>4, <3>3, <3>6, <3>7, <3>8
    <2> QED
        BY <2>1, <2>2
<1> HIDE DEF A, B, c, d, r
<1>7. Text(c) = Text(a) \o Text(b)
    <2>1. /\ Text(c) \in Seq(Line) /\ Text(a) \o Text(b) \in Seq(Line)
          /\ Len(Text(c)) = Len(Text(a) \o Text(b))
          /\ \A j \in 1..Len(Text(c)) : Text(c)[j] = (Text(a) \o Text(b))[j]
        BY <1>3, <1>5, <1>6
    <2> QED
        BY <2>1, SeqEqual
<1> QED
    BY <1>7 DEF c

LEMMA TextEmpty == Text(<<>>) = <<>>
<1>1. <<>> \in Seq(Messages) /\ Len(<<>>) = 0
    BY EmptySeq
<1>2. Text(<<>>) \in Seq(Line) /\ Len(Text(<<>>)) = 0 * MessageLines
    BY <1>1, TextType, TextLength
<1>3. 0 * MessageLines = 0
    BY ListAssumption
<1> QED
    BY <1>2, <1>3, EmptySeq

(***************************************************************************)
(* Trimming takes lines off the front, and never one of the newest         *)
(* Recent - 1.                                                             *)
(***************************************************************************)
LEMMA TrimmedRest ==
    ASSUME NEW lines \in Seq(Line)
    PROVE  /\ \E d \in Seq(Line) : lines = d \o Trimmed(lines)
           /\ Trimmed(lines) = lines \/ Len(Trimmed(lines)) = Recent - 1
<1>1. /\ Len(lines) \in Nat /\ Recent \in Nat \ {0} /\ Slack \in Nat
      /\ \A i \in 1..Len(lines) : lines[i] \in Line
    BY LenProperties, ElementOfSeq, ListAssumption
<1>2. CASE Len(lines) + 1 > Recent + Slack
    <2> DEFINE n == Len(lines)
               first == (n + 1 - Recent) + 1
               d == SubSeq(lines, 1, first - 1)
               t == SubSeq(lines, first, n)
    <2>1. first \in 1..(n + 1) /\ n \in Nat
        BY <1>1, <1>2
    <2>2. n - first + 1 = Recent - 1
        BY <1>1
    <2>3. Trimmed(lines) = t
        BY <1>2 DEF Trimmed
    <2> HIDE DEF first, n
    <2>4. t \in Seq(Line) /\ Len(t) = n - first + 1 /\ \A i \in 1..(n - first + 1) : t[i] = lines[first + i - 1]
        <3>1. first \in Int /\ n \in Int /\ \A i \in first..n : lines[i] \in Line
            BY <1>1, <2>1 DEF n
        <3>2. /\ t \in Seq(Line)
              /\ Len(t) = IF first <= n THEN n - first + 1 ELSE 0
              /\ \A i \in 1..(n - first + 1) : t[i] = lines[first + i - 1]
            BY <3>1, SubSeqProperties
        <3> HIDE DEF t
        <3> QED
            BY <2>1, <3>2
    <2>5. d \in Seq(Line) /\ Len(d) = first - 1 /\ \A i \in 1..(first - 1) : d[i] = lines[i]
        <3> DEFINE last == first - 1
        <3>1. last \in Nat /\ last <= n
            BY <2>1
        <3> HIDE DEF last
        <3>2. \A i \in 1..last : lines[i] \in Line
            BY <1>1, <2>1, <3>1 DEF n
        <3>3. /\ SubSeq(lines, 1, last) \in Seq(Line)
              /\ Len(SubSeq(lines, 1, last)) = IF 1 <= last THEN last - 1 + 1 ELSE 0
              /\ \A i \in 1..(last - 1 + 1) : SubSeq(lines, 1, last)[i] = lines[1 + i - 1]
            BY <3>1, <3>2, SubSeqProperties
        <3>4. Len(SubSeq(lines, 1, last)) = last /\ \A i \in 1..last : SubSeq(lines, 1, last)[i] = lines[i]
            BY <3>1, <3>3
        <3> QED
            BY <3>3, <3>4 DEF last
    <2> HIDE DEF d, t
    <2>6. /\ d \o t \in Seq(Line) /\ Len(d \o t) = n
          /\ \A i \in 1..n : (d \o t)[i] = lines[i]
        <3>1. /\ d \o t \in Seq(Line) /\ Len(d \o t) = Len(d) + Len(t)
              /\ \A i \in 1..(Len(d) + Len(t)) :
                     (d \o t)[i] = IF i <= Len(d) THEN d[i] ELSE t[i - Len(d)]
            BY <2>4, <2>5, ConcatProperties
        <3>2. Len(d) + Len(t) = n
            BY <2>1, <2>4, <2>5
        <3>3. ASSUME NEW i \in 1..n PROVE (d \o t)[i] = lines[i]
            <4>1. CASE i <= Len(d)
                BY <2>1, <2>5, <3>1, <3>2, <4>1
            <4>2. CASE ~(i <= Len(d))
                <5>1. /\ i - Len(d) \in 1..(n - first + 1)
                      /\ first + (i - Len(d)) - 1 = i
                    BY <2>1, <2>5, <4>2
                <5>2. t[i - Len(d)] = lines[i]
                    BY <2>4, <5>1
                <5> QED
                    BY <3>1, <3>2, <4>2, <5>2
            <4> QED
                BY <4>1, <4>2
        <3> QED
            BY <3>1, <3>2, <3>3
    <2>7. d \o t = lines
        BY <2>6, SeqEqual DEF n
    <2> QED
        BY <2>2, <2>3, <2>4, <2>5, <2>7
<1>3. CASE ~(Len(lines) + 1 > Recent + Slack)
    <2>1. Trimmed(lines) = lines
        BY <1>3 DEF Trimmed
    <2>2. <<>> \in Seq(Line) /\ <<>> \o lines = lines
        BY EmptySeq, ConcatEmptySeq
    <2> QED
        BY <2>1, <2>2
<1> QED
    BY <1>2, <1>3

(***************************************************************************)
(* IsSuffix, which reverses both sequences, holds of the end of a          *)
(* concatenation.                                                          *)
(***************************************************************************)
LEMMA ReverseProperties ==
    ASSUME NEW S, NEW s \in Seq(S)
    PROVE  /\ Reverse(s) \in Seq(S) /\ Len(Reverse(s)) = Len(s)
           /\ \A i \in 1..Len(s) : Reverse(s)[i] = s[Len(s) - i + 1]
<1>1. Len(s) \in Nat /\ \A i \in 1..Len(s) : s[i] \in S
    BY LenProperties, ElementOfSeq
<1>2. \A i \in 1..Len(s) : Len(s) - i + 1 \in 1..Len(s)
    BY <1>1
<1>3. Reverse(s) = [i \in 1..Len(s) |-> s[Len(s) - i + 1]]
    BY DEF Reverse
<1>4. Reverse(s) \in Seq(S) /\ Len(Reverse(s)) = Len(s)
    BY <1>1, <1>2, <1>3, IsASeq
<1> QED
    BY <1>3, <1>4

LEMMA SuffixOfConcat ==
    ASSUME NEW u \in Seq(Line), NEW s \in Seq(Line)
    PROVE  IsSuffix(s, u \o s)
<1> DEFINE t == u \o s
           n == Len(s)
<1>1. /\ t \in Seq(Line) /\ Len(t) = Len(u) + n /\ n \in Nat /\ Len(u) \in Nat
      /\ \A i \in 1..(Len(u) + n) : t[i] = IF i <= Len(u) THEN u[i] ELSE s[i - Len(u)]
    BY ConcatProperties, LenProperties
<1> HIDE DEF t
<1>2. /\ Reverse(s) \in Seq(Line) /\ Len(Reverse(s)) = n
      /\ \A i \in 1..n : Reverse(s)[i] = s[n - i + 1]
    BY ReverseProperties
<1>3. /\ Reverse(t) \in Seq(Line) /\ Len(Reverse(t)) = Len(t)
      /\ \A i \in 1..Len(t) : Reverse(t)[i] = t[Len(t) - i + 1]
    BY <1>1, ReverseProperties
<1> HIDE DEF n
<1>4. \A i \in 1..n : Reverse(s)[i] = Reverse(t)[i]
    <2> SUFFICES ASSUME NEW i \in 1..n PROVE Reverse(s)[i] = Reverse(t)[i]
        OBVIOUS
    <2> DEFINE j == Len(t) - i + 1
    <2>1. /\ i \in 1..Len(t) /\ j \in 1..(Len(u) + n) /\ ~(j <= Len(u))
          /\ j - Len(u) = n - i + 1
        BY <1>1
    <2>2. Reverse(t)[i] = t[j]
        BY <1>3, <2>1
    <2> HIDE DEF j
    <2>3. t[j] = s[n - i + 1]
        BY <1>1, <2>1
    <2> QED
        BY <1>2, <2>2, <2>3
<1>5. SubSeq(Reverse(s), 1, n) = SubSeq(Reverse(t), 1, n)
    <2>1. /\ \A i \in 1..n : Reverse(s)[i] \in Line
          /\ \A i \in 1..n : Reverse(t)[i] \in Line
        BY <1>1, <1>2, <1>4, ElementOfSeq
    <2>2. /\ SubSeq(Reverse(s), 1, n) \in Seq(Line)
          /\ Len(SubSeq(Reverse(s), 1, n)) = (IF 1 <= n THEN n - 1 + 1 ELSE 0)
          /\ \A i \in 1..(n - 1 + 1) : SubSeq(Reverse(s), 1, n)[i] = Reverse(s)[1 + i - 1]
        BY <1>1, <2>1, SubSeqProperties
    <2>3. /\ SubSeq(Reverse(t), 1, n) \in Seq(Line)
          /\ Len(SubSeq(Reverse(t), 1, n)) = (IF 1 <= n THEN n - 1 + 1 ELSE 0)
          /\ \A i \in 1..(n - 1 + 1) : SubSeq(Reverse(t), 1, n)[i] = Reverse(t)[1 + i - 1]
        BY <1>1, <2>1, SubSeqProperties
    <2>4. /\ Len(SubSeq(Reverse(s), 1, n)) = n /\ Len(SubSeq(Reverse(t), 1, n)) = n
          /\ \A i \in 1..n : SubSeq(Reverse(s), 1, n)[i] = Reverse(s)[i]
          /\ \A i \in 1..n : SubSeq(Reverse(t), 1, n)[i] = Reverse(t)[i]
        BY <1>1, <2>2, <2>3
    <2>5. \A i \in 1..n : SubSeq(Reverse(s), 1, n)[i] = SubSeq(Reverse(t), 1, n)[i]
        BY <1>4, <2>4
    <2> QED
        BY <2>2, <2>3, <2>4, <2>5, SeqEqual
<1>6. IsSuffix(s, t)
    BY <1>1, <1>2, <1>3, <1>5 DEF IsSuffix, IsPrefix
<1> QED
    BY <1>6 DEF t

----------------------------------------------------------------------------
(* The list and the waiting texts together are the end of what was relayed. *)

StreamInv ==
    window # "closed" =>
        \E u \in Seq(Line) : Text(relayed) = u \o (list \o Text(WaitingIn(posted)))

LEMMA LinesAssociative ==
    \A a, b, c \in Seq(Line) : (a \o b) \o c = a \o (b \o c)
BY ConcatAssociative

LEMMA WaitingText ==
    ASSUME SessionTypes, QueueType, ListTypes
    PROVE  /\ WaitingIn(posted) \in Seq(Messages) /\ Text(WaitingIn(posted)) \in Seq(Line)
           /\ relayed \in Seq(Messages) /\ pending \in Seq(Messages) /\ list \in Seq(Line)
BY WaitingType, TextType DEF SessionTypes, QueueType, ListTypes

\* What a step can do to the text.
LEMMA TextSteps ==
    ASSUME Next, window' # "closed"
    PROVE  /\ window # "closed"
           /\ \/ UNCHANGED <<relayed, posted, list, clearedAt>>
              \/ ClearList /\ UNCHANGED <<relayed, posted>>
              \/ Relay /\ UNCHANGED <<list, clearedAt>>
              \/ RunAppend /\ UNCHANGED <<relayed, clearedAt>>
              \/ LightItem /\ UNCHANGED <<relayed, list, clearedAt>>
<1>1. window # "closed"
    BY DEF Next, User, RunPosted, Connect, ConnectTo, ConnectFails, StopClick, StartClick,
           ClearClick, ItemClick, ClearFilterClick, CloseClick, Click, Decode, Relay,
           RelayLighting, AppendMessages, RunAppend, LightItem, RunAfterClose, windowVars
<1>2. CASE User
    BY <1>1, <1>2
       DEF User, Connect, ConnectTo, ConnectFails, StopClick, StartClick, ClearClick,
           ItemClick, ClearFilterClick, CloseClick, Session!Start, Session!Stop,
           Session!Discard, sessionVars, listVars
<1>3. CASE (\E m \in Messages : Decode(m)) \/ Relay
    BY <1>1, <1>3 DEF Decode, Relay, RelayLighting, Session!Show, listVars
<1>4. CASE RunPosted
    BY <1>4 DEF RunPosted, AppendMessages, RunAppend, LightItem, RunAfterClose, sessionVars,
                windowVars, listVars
<1> QED
    BY <1>1, <1>2, <1>3, <1>4 DEF Next

LEMMA StreamStep ==
    ASSUME SessionTypes, QueueType, ListTypes, StreamInv, Next
    PROVE  StreamInv'
<1> SUFFICES ASSUME window' # "closed"
             PROVE  \E v \in Seq(Line) : Text(relayed') = v \o (list' \o Text(WaitingIn(posted')))
    BY DEF StreamInv
<1> DEFINE W == WaitingIn(posted)
<1>1. /\ W \in Seq(Messages) /\ Text(W) \in Seq(Line)
      /\ relayed \in Seq(Messages) /\ pending \in Seq(Messages) /\ list \in Seq(Line)
      /\ posted \in Seq(Posted)
    BY WaitingText DEF QueueType
<1>2. PICK u \in Seq(Line) : Text(relayed) = u \o (list \o Text(W))
    BY TextSteps DEF StreamInv
<1> HIDE DEF W
<1>3. CASE UNCHANGED <<relayed, posted, list, clearedAt>>
    BY <1>2, <1>3 DEF W
<1>4. CASE ClearList /\ UNCHANGED <<relayed, posted>>
    <2>1. list' = <<>> /\ relayed' = relayed /\ posted' = posted
        BY <1>4 DEF ClearList
    <2>2. u \o list \in Seq(Line) /\ <<>> \o Text(W) = Text(W)
        BY <1>1, ConcatProperties, ConcatEmptySeq
    <2>3. (u \o list) \o Text(W) = u \o (list \o Text(W))
        BY <1>1, LinesAssociative
    <2> QED
        BY <1>2, <2>1, <2>2, <2>3 DEF W
<1>5. CASE Relay /\ UNCHANGED <<list, clearedAt>>
    <2>1. /\ posted' = posted \o <<AppendCall(pending)>> \o SetToSeq(Lights(pending))
          /\ relayed' = relayed \o pending /\ list' = list
        BY <1>5 DEF Relay, RelayLighting, Lights, Session!Relay
    <2>2. WaitingIn(posted') = W \o pending
        BY <1>1, <2>1, WaitingRelayed DEF W
    <2> DEFINE p == Text(pending)
               w == Text(W)
    <2>3. Text(relayed') = Text(relayed) \o p /\ Text(WaitingIn(posted')) = w \o p
        BY <1>1, <2>1, <2>2, TextConcat
    <2>4. p \in Seq(Line) /\ w \in Seq(Line) /\ list \o w \in Seq(Line)
        BY <1>1, TextType, ConcatProperties
    <2> HIDE DEF p, w
    <2>5. (u \o (list \o w)) \o p = u \o ((list \o w) \o p)
        BY <2>4, LinesAssociative
    <2>6. (list \o w) \o p = list \o (w \o p)
        BY <1>1, <2>4, LinesAssociative
    <2>7. Text(relayed) = u \o (list \o w)
        BY <1>2 DEF w
    <2> QED
        BY <2>1, <2>3, <2>5, <2>6, <2>7
<1>6. CASE RunAppend /\ UNCHANGED <<relayed, clearedAt>>
    <2> DEFINE h == Head(posted).text
               w == WaitingIn(posted')
               lines == list \o Text(h)
    <2>1. /\ posted # <<>> /\ posted' = Tail(posted) /\ Head(posted).do = "append"
          /\ list' \in {lines, Trimmed(lines)} /\ relayed' = relayed
        BY <1>6 DEF RunAppend
    <2>2. /\ h \in Seq(Messages) /\ w \in Seq(Messages) /\ W = h \o w
        <3>1. TextOf(Head(posted)) = h
            BY <2>1 DEF TextOf
        <3>2. h \in Seq(Messages) /\ W = h \o WaitingIn(Tail(posted))
            BY <1>1, <2>1, <3>1, WaitingHandled DEF W
        <3>3. Tail(posted) \in Seq(Posted)
            BY <1>1, <2>1, HeadTailProperties
        <3>4. WaitingIn(Tail(posted)) \in Seq(Messages)
            BY <3>3, WaitingType
        <3> QED
            BY <2>1, <3>2, <3>4
    <2>3. Text(h) \in Seq(Line) /\ Text(w) \in Seq(Line) /\ lines \in Seq(Line)
        <3> HIDE DEF h, w
        <3>1. Text(h) \in Seq(Line) /\ Text(w) \in Seq(Line)
            BY <2>2, TextType
        <3> QED
            BY <1>1, <3>1, ConcatProperties
    <2>4. Text(W) = Text(h) \o Text(w)
        BY <2>2, TextConcat
    <2> HIDE DEF h, w
    <2>5. list \o (Text(h) \o Text(w)) = lines \o Text(w)
        BY <1>1, <2>3, LinesAssociative
    <2> HIDE DEF lines
    <2>6. PICK d \in Seq(Line) : lines = d \o list'
        <3>1. \E d \in Seq(Line) : lines = d \o Trimmed(lines)
            BY <2>3, TrimmedRest
        <3>2. <<>> \in Seq(Line) /\ <<>> \o lines = lines
            BY <2>3, EmptySeq, ConcatEmptySeq
        <3> QED
            BY <2>1, <3>1, <3>2
    <2>7. list' \in Seq(Line)
        BY <2>1, <2>3, TrimmedProperties
    <2>8. (d \o list') \o Text(w) = d \o (list' \o Text(w)) /\ list' \o Text(w) \in Seq(Line)
        BY <2>3, <2>7, LinesAssociative, ConcatProperties
    <2>9. /\ u \o (d \o (list' \o Text(w))) = (u \o d) \o (list' \o Text(w))
          /\ u \o d \in Seq(Line)
        BY <2>8, LinesAssociative, ConcatProperties
    <2>10. Text(relayed') = (u \o d) \o (list' \o Text(w))
        BY <1>2, <2>1, <2>4, <2>5, <2>6, <2>8, <2>9
    <2> QED
        BY <2>9, <2>10 DEF w
<1>7. CASE LightItem /\ UNCHANGED <<relayed, list, clearedAt>>
    <2>1. posted # <<>> /\ posted' = Tail(posted) /\ Head(posted).do = "light"
        BY <1>7 DEF LightItem
    <2>2. TextOf(Head(posted)) = <<>>
        BY <2>1 DEF TextOf
    <2>3. W = <<>> \o WaitingIn(posted') /\ WaitingIn(posted') \in Seq(Messages)
        <3>1. Tail(posted) \in Seq(Posted)
            BY <1>1, <2>1, HeadTailProperties
        <3> QED
            BY <1>1, <2>1, <2>2, <3>1, WaitingHandled, WaitingType DEF W
    <2>4. W = WaitingIn(posted')
        BY <2>3, ConcatEmptySeq
    <2> QED
        BY <1>2, <1>7, <2>4
<1> QED
    BY <1>3, <1>4, <1>5, <1>6, <1>7, TextSteps

(***************************************************************************)
(* How many lines must be left when n messages were handled since the list *)
(* was cleared.                                                            *)
(***************************************************************************)
Spared(n) == IF MessageLines * n < Recent - 1 THEN MessageLines * n ELSE Recent - 1

HandledIn(q, r) == Len(r) - Len(WaitingIn(q))

LEMMA SparedGrows ==
    ASSUME NEW n \in Int, NEW k \in Nat
    PROVE  /\ Spared(n) \in Int /\ Spared(n) <= Recent - 1
           /\ Spared(n + k) <= Spared(n) + k * MessageLines
           /\ Spared(-k) <= 0
<1>1. MessageLines \in Nat \ {0} /\ Recent \in Nat \ {0}
    BY ListAssumption
<1> DEFINE a == MessageLines * n
           b == k * MessageLines
<1>2. /\ a \in Int /\ b \in Nat
      /\ MessageLines * (n + k) = a + b /\ MessageLines * (-k) = -b
    BY <1>1
<1>3. /\ Spared(n) = IF a < Recent - 1 THEN a ELSE Recent - 1
      /\ Spared(n + k) = IF a + b < Recent - 1 THEN a + b ELSE Recent - 1
      /\ Spared(-k) = IF -b < Recent - 1 THEN -b ELSE Recent - 1
    BY <1>2 DEF Spared
<1> HIDE DEF a, b
<1> QED
    BY <1>1, <1>2, <1>3 DEF b

LEMMA WaitingSame == Waiting = WaitingIn(posted)
BY DEF Waiting, WaitingIn

LEMMA RecentMeans ==
    /\ KeepsRecent <=>
           (window # "closed" => Len(list) >= Spared(HandledIn(posted, relayed) - clearedAt))
    /\ KeepsRecent' <=>
           (window' # "closed" =>
                Len(list') >= Spared(HandledIn(posted', relayed') - clearedAt'))
<1>1. Waiting = WaitingIn(posted) /\ Waiting' = WaitingIn(posted')
    <2>1. (Waiting = WaitingIn(posted))'
        BY WaitingSame, PTL
    <2> QED
        BY <2>1, WaitingSame
<1>2. Handled = HandledIn(posted, relayed) /\ Handled' = HandledIn(posted', relayed')
    BY <1>1 DEF Handled, HandledIn
<1> QED
    BY <1>2 DEF KeepsRecent, Spared

LEMMA RecentStep ==
    ASSUME SessionTypes, QueueType, ListTypes, KeepsRecent, Next
    PROVE  KeepsRecent'
<1> DEFINE H == HandledIn(posted, relayed)
<1> SUFFICES ASSUME window' # "closed"
             PROVE  Len(list') >= Spared(HandledIn(posted', relayed') - clearedAt')
    BY RecentMeans
<1>1. /\ WaitingIn(posted) \in Seq(Messages) /\ Len(WaitingIn(posted)) \in Nat
      /\ relayed \in Seq(Messages) /\ pending \in Seq(Messages) /\ list \in Seq(Line)
      /\ posted \in Seq(Posted) /\ clearedAt \in Nat
      /\ Len(relayed) \in Nat /\ Len(pending) \in Nat /\ Len(list) \in Nat
    BY WaitingText, LenProperties DEF QueueType, ListTypes
<1>2. H \in Int /\ Len(list) >= Spared(H - clearedAt) /\ H = Len(relayed) - Len(WaitingIn(posted))
    BY <1>1, TextSteps, RecentMeans DEF HandledIn
<1> HIDE DEF H
<1>3. CASE UNCHANGED <<relayed, posted, list, clearedAt>>
    BY <1>2, <1>3 DEF H
<1>4. CASE ClearList /\ UNCHANGED <<relayed, posted>>
    <2>1. /\ list' = <<>> /\ clearedAt' = Len(relayed)
          /\ HandledIn(posted', relayed') = H
        BY <1>4 DEF ClearList, H
    <2>2. Len(list') = 0
        BY <2>1, EmptySeq
    <2>3. H - Len(relayed) = -Len(WaitingIn(posted))
        BY <1>1, <1>2
    <2>4. Spared(-Len(WaitingIn(posted))) <= 0 /\ Spared(-Len(WaitingIn(posted))) \in Int
        BY <1>1, SparedGrows
    <2> QED
        BY <2>1, <2>2, <2>3, <2>4
<1>5. CASE Relay /\ UNCHANGED <<list, clearedAt>>
    <2>1. /\ posted' = posted \o <<AppendCall(pending)>> \o SetToSeq(Lights(pending))
          /\ relayed' = relayed \o pending
        BY <1>5 DEF Relay, RelayLighting, Lights, Session!Relay
    <2>2. WaitingIn(posted') = WaitingIn(posted) \o pending
        BY <1>1, <2>1, WaitingRelayed
    <2>3. /\ Len(WaitingIn(posted')) = Len(WaitingIn(posted)) + Len(pending)
          /\ Len(relayed') = Len(relayed) + Len(pending)
        BY <1>1, <2>1, <2>2, ConcatProperties
    <2>4. HandledIn(posted', relayed') = H
        BY <1>1, <1>2, <2>3 DEF HandledIn
    <2> QED
        BY <1>2, <1>5, <2>4
<1>6. CASE RunAppend /\ UNCHANGED <<relayed, clearedAt>>
    <2> DEFINE h == Head(posted).text
               lines == list \o Text(h)
    <2>1. /\ posted # <<>> /\ posted' = Tail(posted) /\ Head(posted).do = "append"
          /\ list' \in {lines, Trimmed(lines)} /\ UNCHANGED <<relayed, clearedAt>>
        BY <1>6 DEF RunAppend
    <2>2. /\ h \in Seq(Messages) /\ WaitingIn(posted') \in Seq(Messages)
          /\ WaitingIn(posted) = h \o WaitingIn(posted')
        <3>1. TextOf(Head(posted)) = h
            BY <2>1 DEF TextOf
        <3>2. h \in Seq(Messages) /\ WaitingIn(posted) = h \o WaitingIn(Tail(posted))
            BY <1>1, <2>1, <3>1, WaitingHandled
        <3>3. Tail(posted) \in Seq(Posted)
            BY <1>1, <2>1, HeadTailProperties
        <3>4. WaitingIn(Tail(posted)) \in Seq(Messages)
            BY <3>3, WaitingType
        <3> QED
            BY <2>1, <3>2, <3>4
    <2> HIDE DEF h
    <2>3. /\ Len(h) \in Nat /\ Len(WaitingIn(posted')) \in Nat
          /\ Len(WaitingIn(posted)) = Len(h) + Len(WaitingIn(posted'))
        BY <2>2, ConcatProperties, LenProperties
    <2>4. HandledIn(posted', relayed') - clearedAt' = (H - clearedAt) + Len(h)
        BY <1>1, <1>2, <2>1, <2>3 DEF HandledIn
    <2>5. /\ Spared(H - clearedAt) \in Int
          /\ Spared((H - clearedAt) + Len(h)) \in Int
          /\ Spared((H - clearedAt) + Len(h)) <= Recent - 1
          /\ Spared((H - clearedAt) + Len(h)) <= Spared(H - clearedAt) + Len(h) * MessageLines
        <3> DEFINE n == H - clearedAt
        <3>1. n \in Int /\ n + Len(h) \in Int
            BY <1>1, <1>2, <2>3
        <3> HIDE DEF n
        <3>2. /\ Spared(n) \in Int /\ Spared(n + Len(h)) <= Spared(n) + Len(h) * MessageLines
            BY <3>1, <2>3, SparedGrows
        <3>3. Spared(n + Len(h)) \in Int /\ Spared(n + Len(h)) <= Recent - 1
            BY <3>1, <2>3, SparedGrows
        <3> QED
            BY <3>2, <3>3 DEF n
    <2>6. lines \in Seq(Line) /\ Len(lines) = Len(list) + Len(h) * MessageLines
        <3>1. /\ Text(h) \in Seq(Line) /\ Len(Text(h)) = Len(h) * MessageLines
            BY <2>2, TextType, TextLength
        <3>2. lines \in Seq(Line) /\ Len(lines) = Len(list) + Len(Text(h))
            BY <1>1, <3>1, ConcatProperties
        <3> QED
            BY <3>1, <3>2
    <2> HIDE DEF lines
    <2>7. list' = lines \/ Len(list') = Recent - 1
        BY <2>1, <2>6, TrimmedRest
    <2>8. Len(h) * MessageLines \in Nat /\ Recent \in Nat
        BY <2>3, ListAssumption
    <2> DEFINE k == Len(h) * MessageLines
               s == Spared((H - clearedAt) + Len(h))
               p == Spared(H - clearedAt)
    <2> HIDE DEF k, s, p
    <2>9. /\ k \in Nat /\ s \in Int /\ p \in Int /\ s <= Recent - 1 /\ s <= p + k
          /\ Len(list) >= p /\ Len(lines) = Len(list) + k
        BY <1>2, <2>5, <2>6, <2>8 DEF k, s, p
    <2>10. Len(list') >= s
        BY <1>1, <2>7, <2>8, <2>9
    <2> QED
        BY <2>4, <2>10 DEF s
<1>7. CASE LightItem /\ UNCHANGED <<relayed, list, clearedAt>>
    <2>1. posted # <<>> /\ posted' = Tail(posted) /\ Head(posted).do = "light"
        BY <1>7 DEF LightItem
    <2>2. TextOf(Head(posted)) = <<>>
        BY <2>1 DEF TextOf
    <2>3. /\ WaitingIn(posted) = <<>> \o WaitingIn(posted')
          /\ WaitingIn(posted') \in Seq(Messages)
        <3>1. Tail(posted) \in Seq(Posted)
            BY <1>1, <2>1, HeadTailProperties
        <3> QED
            BY <1>1, <2>1, <2>2, <3>1, WaitingHandled, WaitingType
    <2>4. WaitingIn(posted) = WaitingIn(posted')
        BY <2>3, ConcatEmptySeq
    <2> QED
        BY <1>2, <1>7, <2>4 DEF H, HandledIn
<1> QED
    BY <1>3, <1>4, <1>5, <1>6, <1>7, TextSteps

LEMMA StreamInit == Init => StreamInv /\ KeepsRecent
<1> SUFFICES ASSUME Init PROVE StreamInv /\ KeepsRecent
    OBVIOUS
<1>1. /\ posted = <<>> /\ relayed = <<>> /\ list = <<>> /\ clearedAt = 0
    BY DEF Init, Session!Init
<1>2. <<>> \in Seq(Posted) /\ <<>> \in Seq(Line) /\ <<>> \in Seq(Messages) /\ Len(<<>>) = 0
    BY EmptySeq
<1>3. WaitingIn(<<>>) = <<>>
    BY <1>2, WaitingIsRun DEF IsRun
<1>4. StreamInv
    <2>1. <<>> \o (<<>> \o <<>>) = <<>>
        BY <1>2, ConcatEmptySeq
    <2>2. Text(relayed) = <<>> \o (list \o Text(WaitingIn(posted)))
        BY <1>1, <1>3, <2>1, TextEmpty
    <2> QED
        BY <1>2, <2>2 DEF StreamInv
<1>5. KeepsRecent
    <2>1. HandledIn(posted, relayed) - clearedAt = -0 /\ 0 \in Nat
        BY <1>1, <1>2, <1>3 DEF HandledIn
    <2>2. Spared(-0) <= 0 /\ Spared(-0) \in Int
        BY <2>1, SparedGrows
    <2> QED
        BY <1>1, <1>2, <2>1, <2>2, RecentMeans
<1> QED
    BY <1>4, <1>5

(***************************************************************************)
(* Stuttering and real steps together.                                     *)
(***************************************************************************)
LEMMA StreamStutter ==
    ASSUME StreamInv, KeepsRecent, UNCHANGED vars
    PROVE  StreamInv' /\ KeepsRecent'
<1>1. UNCHANGED <<relayed, posted, list, clearedAt, window>>
    BY DEF vars, sessionVars, listVars, windowVars
<1>2. StreamInv'
    BY <1>1 DEF StreamInv
<1>3. KeepsRecent'
    BY <1>1, RecentMeans
<1> QED
    BY <1>2, <1>3

(***************************************************************************)
(* The list followed by the texts still in the event queue is always the   *)
(* end of the text the monitor relayed, for messages of any number of      *)
(* lines, any Recent, Slack and TrimEvery, and any delay of the functions. *)
(***************************************************************************)
THEOREM ListShowsStream == Spec => []ShowsStream
<1>1. ViewInv => SessionTypes /\ QueueType /\ ListTypes
    BY TypeParts DEF ViewInv
<1>2. Init => StreamInv /\ KeepsRecent
    BY StreamInit
<1>3. ViewInv /\ StreamInv /\ KeepsRecent /\ [Next]_vars => StreamInv' /\ KeepsRecent'
    BY <1>1, StreamStep, RecentStep, StreamStutter
<1>4. ViewInv /\ StreamInv => ShowsStream
    <2> SUFFICES ASSUME ViewInv, StreamInv, window # "closed"
                 PROVE  IsSuffix(list \o Text(Waiting), Text(relayed))
        BY DEF ShowsStream
    <2>1. PICK u \in Seq(Line) : Text(relayed) = u \o (list \o Text(WaitingIn(posted)))
        BY DEF StreamInv
    <2>2. list \o Text(WaitingIn(posted)) \in Seq(Line)
        BY <1>1, WaitingText, ConcatProperties
    <2>3. IsSuffix(list \o Text(WaitingIn(posted)), Text(relayed))
        BY <2>1, <2>2, SuffixOfConcat
    <2> QED
        BY <2>3, WaitingSame
<1> QED
    BY <1>2, <1>3, <1>4, ViewInvariant, PTL DEF Spec

(***************************************************************************)
(* Trimming spares the newest Recent - 1 lines appended since the list was *)
(* cleared, whatever was posted before the list was cleared and run after. *)
(***************************************************************************)
THEOREM RecentLinesKept == Spec => []KeepsRecent
<1>1. ViewInv => SessionTypes /\ QueueType /\ ListTypes
    BY TypeParts DEF ViewInv
<1>2. Init => StreamInv /\ KeepsRecent
    BY StreamInit
<1>3. ViewInv /\ StreamInv /\ KeepsRecent /\ [Next]_vars => StreamInv' /\ KeepsRecent'
    BY <1>1, StreamStep, RecentStep, StreamStutter
<1> QED
    BY <1>2, <1>3, ViewInvariant, PTL DEF Spec

============================================================================
