---------------------- MODULE BusControllerPanelProofs ----------------------
(***************************************************************************)
(* The list of frames and the send thread's life, for any number of        *)
(* frames, any default frames, and a user who may do anything at any time. *)
(***************************************************************************)
EXTENDS BusControllerPanel, SequenceTheorems, TLAPS

USE DEF NoFrame

LEMMA LastIndex ==
    ASSUME NEW n \in Nat
    PROVE  /\ \A i \in 1..(n + 1) : i \in 1..n \/ i = n + 1
           /\ \A i \in 1..n : i \in 1..(n + 1)
           /\ n + 1 \in 1..(n + 1)
    OBVIOUS

(***************************************************************************)
(* What removeFrame leaves: the other frames, in their order.              *)
(***************************************************************************)
LEMMA RemoveAtProperties ==
    ASSUME NEW S, NEW s \in Seq(S), NEW p \in 1..Len(s)
    PROVE  /\ RemoveAt(s, p) \in Seq(S)
           /\ Len(RemoveAt(s, p)) = Len(s) - 1
           /\ \A i \in 1..(Len(s) - 1) :
                  RemoveAt(s, p)[i] = IF i < p THEN s[i] ELSE s[i + 1]
<1> DEFINE a == SubSeq(s, 1, p - 1)
           b == SubSeq(s, p + 1, Len(s))
<1>1. Len(s) \in Nat /\ \A i \in 1..Len(s) : s[i] \in S
    BY ElementOfSeq, LenProperties
<1>2. /\ a \in Seq(S) /\ Len(a) = p - 1
      /\ \A i \in 1..(p - 1) : a[i] = s[i]
    <2>1. \A i \in 1..(p - 1) : s[i] \in S
        BY <1>1
    <2>2. /\ a \in Seq(S)
          /\ Len(a) = IF 1 <= p - 1 THEN (p - 1) - 1 + 1 ELSE 0
          /\ \A i \in 1..((p - 1) - 1 + 1) : a[i] = s[1 + i - 1]
        BY <2>1, <1>1, SubSeqProperties
    <2> QED BY <2>2, <1>1
<1>3. /\ b \in Seq(S) /\ Len(b) = Len(s) - p
      /\ \A i \in 1..(Len(s) - p) : b[i] = s[p + i]
    <2>1. \A i \in (p + 1)..Len(s) : s[i] \in S
        BY <1>1
    <2>2. /\ b \in Seq(S)
          /\ Len(b) = IF p + 1 <= Len(s) THEN Len(s) - (p + 1) + 1 ELSE 0
          /\ \A i \in 1..(Len(s) - (p + 1) + 1) : b[i] = s[(p + 1) + i - 1]
        BY <2>1, <1>1, SubSeqProperties
    <2> QED BY <2>2, <1>1
<1> HIDE DEF a, b
<1>4. RemoveAt(s, p) = a \o b
    BY DEF RemoveAt, a, b
<1>5. /\ a \o b \in Seq(S) /\ Len(a \o b) = Len(a) + Len(b)
      /\ \A i \in 1..(Len(a) + Len(b)) :
             (a \o b)[i] = IF i <= Len(a) THEN a[i] ELSE b[i - Len(a)]
    BY <1>2, <1>3, ConcatProperties
<1> QED
    BY <1>1, <1>2, <1>3, <1>4, <1>5

(***************************************************************************)
(* Without(f), as removeFrame needs it: a list of frames without f, which  *)
(* holds no frame twice if the list before did not.                        *)
(***************************************************************************)
LEMMA WithoutProperties ==
    ASSUME frameComponents \in Seq(Frame), NEW f
    PROVE  /\ Without(f) \in Seq(Frame)
           /\ \A i \in DOMAIN Without(f) :
                  \E j \in DOMAIN frameComponents : Without(f)[i] = frameComponents[j]
           /\ IsInjective(frameComponents) =>
                  /\ IsInjective(Without(f))
                  /\ \A i \in DOMAIN Without(f) : Without(f)[i] # f
<1> DEFINE s == frameComponents
<1>1. CASE ~ \E i \in DOMAIN s : s[i] = f
    BY <1>1 DEF Without
<1>2. CASE \E i \in DOMAIN s : s[i] = f
    <2>1. PICK p \in DOMAIN s : s[p] = f /\ Without(f) = RemoveAt(s, p)
        BY <1>2 DEF Without
    <2>2. Len(s) \in Nat /\ DOMAIN s = 1..Len(s)
        BY LenProperties
    <2>3. /\ RemoveAt(s, p) \in Seq(Frame)
          /\ Len(RemoveAt(s, p)) = Len(s) - 1
          /\ \A i \in 1..(Len(s) - 1) :
                 RemoveAt(s, p)[i] = IF i < p THEN s[i] ELSE s[i + 1]
        BY <2>2, RemoveAtProperties
    <2> DEFINE r == RemoveAt(s, p)
               old(i) == IF i < p THEN i ELSE i + 1
    <2>4. DOMAIN r = 1..(Len(s) - 1)
        BY <2>3, LenProperties
    <2>5. \A i \in DOMAIN r :
              old(i) \in DOMAIN s /\ old(i) # p /\ r[i] = s[old(i)]
        BY <2>2, <2>3, <2>4
    <2>6. \A i, j \in DOMAIN r : old(i) = old(j) => i = j
        BY <2>2, <2>4
    <2> HIDE DEF r, old
    <2>7. IsInjective(s) => IsInjective(r)
        BY <2>5, <2>6 DEF IsInjective
    <2>8. IsInjective(s) => \A i \in DOMAIN r : r[i] # f
        BY <2>1, <2>5 DEF IsInjective
    <2>9. r \in Seq(Frame) /\ Without(f) = r
        BY <2>1, <2>3 DEF r
    <2> QED
        BY <2>5, <2>7, <2>8, <2>9
<1> QED
    BY <1>1, <1>2

(***************************************************************************)
(* Posting a function makes it the last one to be handled.                 *)
(***************************************************************************)
LEMMA PostProperties ==
    ASSUME posted \in Seq(Posted), session \in Nat,
           NEW what \in {"snapshot", "stop", "untoggle", "data", "destroy"},
           NEW f \in Frame \cup {NoFrame}
    PROVE  /\ Append(posted, Post(what, f)) \in Seq(Posted)
           /\ Len(Append(posted, Post(what, f))) = Len(posted) + 1
           /\ \A i \in 1..Len(posted) : Append(posted, Post(what, f))[i] = posted[i]
           /\ Append(posted, Post(what, f))[Len(posted) + 1] = Post(what, f)
           /\ Post(what, f).what = what /\ Post(what, f).frame = f
<1>1. Post(what, f) \in Posted
    BY DEF Post, Posted
<1>2. Post(what, f).what = what /\ Post(what, f).frame = f
    BY DEF Post
<1> HIDE DEF NoFrame
<1> QED
    BY <1>1, <1>2, AppendProperties

----------------------------------------------------------------------------
(* The invariant: the properties and, for a new frame to be one that no    *)
(* posted function and no edit window knows, Created.                      *)

Created ==
    \A f \in Frame : Destroying(f) \/ editing[f] > 0 => object[f] # "none"

IInv == TypeOK /\ ThreadJoined /\ ListedFramesLive /\ Created

LEMMA InitIInv == Init => IInv
<1> SUFFICES ASSUME Init PROVE IInv
    OBVIOUS
<1> USE DEF Init
<1>1. DefaultFrames \in Seq(Frame) /\ IsInjective(DefaultFrames)
    BY FrameAssumption, DefaultsDistinct
<1>2. posted = <<>> /\ frames = <<>> /\ posted \in Seq(Posted) /\ frames \in Seq(Frame)
    BY EmptySeq
<1>3. TypeOK
    BY <1>1, <1>2 DEF TypeOK
<1>4. DOMAIN posted = {}
    BY <1>2, EmptySeq, LenProperties
<1>5. \A f : ~Destroying(f)
    BY <1>4 DEF Destroying
<1>6. \A i \in DOMAIN DefaultFrames :
          DefaultFrames[i] \in Frame /\ DefaultFrames[i] \in ToSet(DefaultFrames)
    BY <1>1, ElementOfSeq, LenProperties DEF ToSet
<1>7. ListedFramesLive
    BY <1>1, <1>5, <1>6 DEF ListedFramesLive
<1>8. Created
    BY <1>5 DEF Created
<1>9. ThreadJoined
    BY DEF ThreadJoined
<1> QED
    BY <1>3, <1>7, <1>8, <1>9 DEF IInv

----------------------------------------------------------------------------
(* What each step does to the functions posted.                            *)

LEMMA PostedAfterPost ==
    ASSUME TypeOK, NEW what \in {"snapshot", "stop", "untoggle", "data", "destroy"},
           NEW f \in Frame \cup {NoFrame}, posted' = Append(posted, Post(what, f))
    PROVE  /\ posted' \in Seq(Posted)
           /\ \A g : Destroying(g)' <=> Destroying(g) \/ (what = "destroy" /\ g = f)
<1>1. posted \in Seq(Posted) /\ session \in Nat
    BY DEF TypeOK
<1>2. /\ posted' \in Seq(Posted) /\ Len(posted') = Len(posted) + 1
      /\ \A i \in 1..Len(posted) : posted'[i] = posted[i]
      /\ posted'[Len(posted) + 1].what = what /\ posted'[Len(posted) + 1].frame = f
    <2> HIDE DEF NoFrame
    <2> QED BY <1>1, PostProperties
<1>3. /\ Len(posted) \in Nat /\ DOMAIN posted = 1..Len(posted)
      /\ DOMAIN posted' = 1..(Len(posted) + 1)
    BY <1>1, <1>2, LenProperties
<1>5. \A i \in DOMAIN posted : posted'[i] = posted[i]
    BY <1>2, <1>3
<1>6. \A i \in DOMAIN posted' : i \in DOMAIN posted \/ i = Len(posted) + 1
    BY <1>3, LastIndex, Zenon
<1>7. DOMAIN posted \subseteq DOMAIN posted' /\ Len(posted) + 1 \in DOMAIN posted'
    <2>1. \A i \in 1..Len(posted) : i \in 1..(Len(posted) + 1)
        BY <1>3, LastIndex, Zenon
    <2>2. DOMAIN posted \subseteq DOMAIN posted'
        <3>1. DOMAIN posted = 1..Len(posted) /\ DOMAIN posted' = 1..(Len(posted) + 1)
            BY <1>3
        <3> QED
            BY <2>1, <3>1, Zenon
    <2>3. Len(posted) + 1 \in DOMAIN posted'
        BY <1>3, LastIndex, Zenon
    <2> QED
        BY <2>2, <2>3
<1> HIDE DEF NoFrame
<1>8. ASSUME NEW g PROVE Destroying(g)' <=> Destroying(g) \/ (what = "destroy" /\ g = f)
    <2> DEFINE last == Len(posted) + 1
    <2> HIDE DEF last
    <2> QED
        BY <1>2, <1>5, <1>6, <1>7, Zenon DEF Destroying, last
<1> QED
    BY <1>2, <1>8

LEMMA PostedAfterHandling ==
    ASSUME TypeOK, posted # <<>>, posted' = Tail(posted)
    PROVE  /\ posted' \in Seq(Posted)
           /\ \A g : Destroying(g)' => Destroying(g)
           /\ Head(posted) \in Posted
           /\ Head(posted).what = "destroy" => Destroying(Head(posted).frame)
<1>1. posted \in Seq(Posted)
    BY DEF TypeOK
<1>2. /\ posted' \in Seq(Posted) /\ Len(posted') = Len(posted) - 1
      /\ \A i \in 1..Len(posted') : posted'[i] = posted[i + 1]
      /\ Head(posted) \in Posted
    BY <1>1, HeadTailProperties
<1>3. Len(posted) \in Nat /\ DOMAIN posted = 1..Len(posted) /\ DOMAIN posted' = 1..Len(posted')
    BY <1>1, <1>2, LenProperties
<1>4. Len(posted) # 0
    BY <1>1, EmptySeq
<1>5. 1 \in DOMAIN posted
    BY <1>3, <1>4
<1>7. Head(posted) = posted[1]
    OBVIOUS
<1>6. \A i \in DOMAIN posted' : i + 1 \in DOMAIN posted /\ posted'[i] = posted[i + 1]
    BY <1>2, <1>3
<1> QED
    BY <1>2, <1>5, <1>6, <1>7 DEF Destroying

LEMMA PostedAfterClear ==
    ASSUME TypeOK,
           posted' = posted \o [i \in DOMAIN frameComponents |-> Post("destroy", frameComponents[i])]
    PROVE  /\ posted' \in Seq(Posted)
           /\ \A g : Destroying(g)' =>
                  Destroying(g) \/ \E i \in DOMAIN frameComponents : g = frameComponents[i]
<1> DEFINE d == [i \in DOMAIN frameComponents |-> Post("destroy", frameComponents[i])]
<1>1. posted \in Seq(Posted) /\ frameComponents \in Seq(Frame) /\ session \in Nat
    BY DEF TypeOK
<1>2. /\ Len(frameComponents) \in Nat
      /\ DOMAIN frameComponents = 1..Len(frameComponents)
      /\ \A i \in DOMAIN frameComponents : frameComponents[i] \in Frame
    BY <1>1, LenProperties, ElementOfSeq
<1>3. \A i \in DOMAIN frameComponents :
          Post("destroy", frameComponents[i]) \in Posted
          /\ Post("destroy", frameComponents[i]).frame = frameComponents[i]
    BY <1>1, <1>2 DEF Post, Posted
<1>4. d \in Seq(Posted) /\ Len(d) = Len(frameComponents)
    BY <1>2, <1>3, IsASeq
<1>5. \A i \in DOMAIN frameComponents : d[i].frame = frameComponents[i]
    BY <1>3
<1> HIDE DEF d
<1>6. posted' = posted \o d
    BY DEF d
<1>7. /\ posted' \in Seq(Posted) /\ Len(posted') = Len(posted) + Len(d)
      /\ \A i \in 1..(Len(posted) + Len(d)) :
             posted'[i] = IF i <= Len(posted) THEN posted[i] ELSE d[i - Len(posted)]
    <2>1. /\ posted \o d \in Seq(Posted) /\ Len(posted \o d) = Len(posted) + Len(d)
          /\ \A i \in 1..(Len(posted) + Len(d)) :
                 (posted \o d)[i] = IF i <= Len(posted) THEN posted[i] ELSE d[i - Len(posted)]
        BY <1>1, <1>4, ConcatProperties
    <2> QED
        BY <1>6, <2>1
<1>8. /\ Len(posted) \in Nat /\ DOMAIN posted = 1..Len(posted)
      /\ DOMAIN posted' = 1..(Len(posted) + Len(frameComponents))
    BY <1>1, <1>4, <1>7, LenProperties
<1>9. \A i \in DOMAIN posted' :
          \/ i \in DOMAIN posted /\ posted'[i] = posted[i]
          \/ \E j \in DOMAIN frameComponents : posted'[i] = d[j]
    <2> SUFFICES ASSUME NEW i \in DOMAIN posted'
                 PROVE  \/ i \in DOMAIN posted /\ posted'[i] = posted[i]
                        \/ \E j \in DOMAIN frameComponents : posted'[i] = d[j]
        OBVIOUS
    <2>2. CASE i <= Len(posted)
        BY <2>2, <1>1, <1>4, <1>7, <1>8
    <2>1. CASE ~(i <= Len(posted))
        <3>1. /\ Len(posted) \in Nat /\ Len(frameComponents) \in Nat
              /\ i \in 1..(Len(posted) + Len(frameComponents))
            BY <1>2, <1>8
        <3>2. i - Len(posted) \in 1..Len(frameComponents)
            BY <2>1, <3>1
        <3>3. posted'[i] = d[i - Len(posted)]
            BY <1>4, <1>7, <2>1, <3>1
        <3> QED
            BY <1>2, <3>2, <3>3
    <2> QED
        BY <2>2, <2>1
<1> QED
    BY <1>5, <1>7, <1>9 DEF Destroying

----------------------------------------------------------------------------
(* Type correctness.                                                       *)

UserStep ==
    \/ \E f \in Frame : AddFrame(f) \/ RemoveFrame(f) \/ SendOnce(f)
    \/ \E f \in Frame : OpenEdit(f) \/ CancelEdit(f)
    \/ \E f, g \in Frame : SaveEdit(f, g)
    \/ ClearFrames \/ RepeatToggle \/ SendToggleOn \/ SendToggleOff
    \/ CloseWindow \/ JoinReturns

LEMMA UserStepTypes == TypeOK /\ UserStep => TypeOK'
<1> SUFFICES ASSUME TypeOK, UserStep PROVE TypeOK'
    OBVIOUS
<1> USE DEF TypeOK, Click, flagVars, threadVars, listVars
<1>1. CASE \E f \in Frame : AddFrame(f)
    <2>1. PICK f \in Frame : AddFrame(f)
        BY <1>1
    <2>2. frameComponents' \in Seq(Frame)
        BY <2>1, AppendProperties DEF AddFrame
    <2>3. object' \in [Frame -> {"none", "live", "destroyed"}] /\ clicks' \in Nat
        BY <2>1 DEF AddFrame
    <2>4. UNCHANGED <<editing, dropped, posted, flagVars, gui, threadVars, session>>
        BY <2>1 DEF AddFrame
    <2> QED
        BY <2>2, <2>3, <2>4
<1>2. CASE \E f \in Frame : RemoveFrame(f)
    <2>1. PICK f \in Frame : RemoveFrame(f)
        BY <1>2
    <2>2. posted' \in Seq(Posted)
        BY <2>1, PostedAfterPost DEF RemoveFrame
    <2>3. frameComponents' \in Seq(Frame) /\ dropped' \subseteq Frame /\ clicks' \in Nat
        BY <2>1, WithoutProperties DEF RemoveFrame
    <2>4. UNCHANGED <<object, editing, flagVars, gui, threadVars, session>>
        BY <2>1 DEF RemoveFrame
    <2> QED
        BY <2>2, <2>3, <2>4
<1>3. CASE \E f \in Frame : SendOnce(f)
    <2>1. PICK f \in Frame : SendOnce(f)
        BY <1>3
    <2>2. posted' \in Seq(Posted)
        BY <2>1, PostedAfterPost DEF SendOnce
    <2>3. clicks' \in Nat /\ UNCHANGED <<listVars, flagVars, gui, threadVars, session>>
        BY <2>1 DEF SendOnce
    <2> QED
        BY <2>2, <2>3
<1>4. CASE \E f \in Frame : OpenEdit(f) \/ CancelEdit(f)
    <2>1. PICK f \in Frame : OpenEdit(f) \/ CancelEdit(f)
        BY <1>4
    <2>2. editing[f] \in Nat
        OBVIOUS
    <2>3. editing' \in [Frame -> Nat] /\ clicks' \in Nat
        <3>1. CASE OpenEdit(f)
            BY <2>2, <3>1 DEF OpenEdit
        <3>2. CASE CancelEdit(f)
            <4>1. editing[f] - 1 \in Nat
                BY <2>2, <3>2 DEF CancelEdit
            <4> QED
                BY <3>2, <4>1 DEF CancelEdit
        <3> QED
            BY <2>1, <3>1, <3>2
    <2>4. UNCHANGED <<frameComponents, object, dropped, posted, flagVars, gui, threadVars, session>>
        BY <2>1 DEF OpenEdit, CancelEdit
    <2> QED
        BY <2>3, <2>4
<1>5. CASE \E f, g \in Frame : SaveEdit(f, g)
    <2>1. PICK f, g \in Frame : SaveEdit(f, g)
        BY <1>5
    <2>2. Without(f) \in Seq(Frame)
        BY WithoutProperties
    <2>3. frameComponents' \in Seq(Frame)
        BY <2>1, <2>2, AppendProperties DEF SaveEdit
    <2>4. posted' \in Seq(Posted)
        BY <2>1, PostedAfterPost DEF SaveEdit
    <2>5. /\ object' \in [Frame -> {"none", "live", "destroyed"}] /\ dropped' \subseteq Frame
          /\ clicks' \in Nat
        BY <2>1 DEF SaveEdit
    <2>6. editing' \in [Frame -> Nat]
        BY <2>1 DEF SaveEdit
    <2> QED
        BY <2>1, <2>3, <2>4, <2>5, <2>6 DEF SaveEdit
<1>6. CASE ClearFrames
    <2>1. posted' \in Seq(Posted)
        BY <1>6, PostedAfterClear DEF ClearFrames
    <2>2. frameComponents' \in Seq(Frame)
        BY <1>6, EmptySeq DEF ClearFrames
    <2> QED
        BY <1>6, <2>1, <2>2 DEF ClearFrames
<1>7. CASE RepeatToggle \/ SendToggleOff \/ CloseWindow
    <2>1. isSending' \in BOOLEAN /\ isRepeatOn' \in BOOLEAN /\ sendToggle' \in BOOLEAN
        BY <1>7 DEF RepeatToggle, SendToggleOff, StopSending, CloseWindow
    <2>2. gui' \in {"idle", "joining", "closing", "closed"} /\ clicks' \in Nat
        BY <1>7 DEF RepeatToggle, SendToggleOff, StopSending, CloseWindow
    <2> QED
        BY <1>7, <2>1, <2>2 DEF RepeatToggle, SendToggleOff, CloseWindow
<1>9. CASE SendToggleOn
    <2>1. isSending' \in BOOLEAN /\ sendToggle' \in BOOLEAN
        BY <1>9 DEF SendToggleOn
    <2>2. session' \in Nat /\ clicks' \in Nat
        BY <1>9 DEF SendToggleOn
    <2>3. sendThread' \in {"none", "loop", "ask", "await", "frame", "sending",
                           "pass", "last", "exited"}
        BY <1>9 DEF SendToggleOn
    <2> QED
        BY <1>9, <2>1, <2>2, <2>3 DEF SendToggleOn
<1>8. CASE JoinReturns
    <2>1. posted' \in Seq(Posted)
        BY <1>8, PostedAfterPost DEF JoinReturns
    <2>2. frameComponents' \in Seq(Frame)
        BY <1>8, EmptySeq DEF JoinReturns
    <2> DEFINE closed(f) == IF object[f] = "live" THEN "destroyed" ELSE object[f]
    <2>6. \A f \in Frame : closed(f) \in {"none", "live", "destroyed"}
        OBVIOUS
    <2>7. \/ UNCHANGED <<object, editing>>
          \/ object' = [f \in Frame |-> closed(f)] /\ editing' = [f \in Frame |-> 0]
        BY <1>8 DEF JoinReturns
    <2>3. object' \in [Frame -> {"none", "live", "destroyed"}] /\ editing' \in [Frame -> Nat]
        <3> HIDE DEF closed
        <3> QED BY <2>6, <2>7
    <2>4. gui' \in {"idle", "joining", "closing", "closed"} /\ sendThread' = "none"
        BY <1>8 DEF JoinReturns
    <2>5. UNCHANGED <<dropped, flagVars, promise, frames, index, session, clicks>>
        BY <1>8 DEF JoinReturns
    <2> QED
        BY <2>1, <2>2, <2>3, <2>4, <2>5
<1> QED
    BY <1>1, <1>2, <1>3, <1>4, <1>5, <1>6, <1>7, <1>8, <1>9 DEF UserStep

LEMMA HandlePostedTypes == TypeOK /\ HandlePosted => TypeOK'
<1> SUFFICES ASSUME TypeOK, HandlePosted PROVE TypeOK'
    OBVIOUS
<1> USE DEF flagVars, threadVars, listVars
<1>1. posted' \in Seq(Posted) /\ Head(posted) \in Posted
    BY PostedAfterHandling
       DEF HandlePosted, GiveSnapshot, HandleStop, HandleUntoggle, UpdateData, DestroyFrame, Handle
<1> USE DEF TypeOK
<1>2. CASE GiveSnapshot
    BY <1>1, <1>2 DEF GiveSnapshot
<1>3. CASE HandleStop \/ HandleUntoggle \/ UpdateData
    BY <1>1, <1>3 DEF HandleStop, HandleUntoggle, UpdateData, StopSending
<1>4. CASE DestroyFrame
    BY <1>1, <1>4 DEF DestroyFrame
<1> QED
    BY <1>2, <1>3, <1>4 DEF HandlePosted

LEMMA SendThreadTypes == TypeOK /\ SendThreadStep => TypeOK'
<1> SUFFICES ASSUME TypeOK, SendThreadStep PROVE TypeOK'
    OBVIOUS
<1> USE DEF TypeOK, flagVars, threadVars, listVars
<1>1. CASE SendLoop \/ NextFrame \/ PassEnds
    BY <1>1 DEF SendLoop, NextFrame, PassEnds
<1>2. CASE InitializeFails \/ AskForFrames \/ PostStop
    <2>1. posted' \in Seq(Posted)
        BY <1>2, PostedAfterPost DEF InitializeFails, AskForFrames, PostStop
    <2> QED
        BY <1>2, <2>1 DEF InitializeFails, AskForFrames, PostStop
<1>3. CASE FramesArrive
    <2>1. posted' \in Seq(Posted)
        BY <1>3, PostedAfterPost DEF FramesArrive
    <2> DEFINE empty == frames = <<>>
    <2>4. IF empty THEN sendThread' = "last" /\ index' = index
                   ELSE sendThread' = "frame" /\ index' = 1
        BY <1>3, Zenon DEF FramesArrive
    <2>2. index' \in Nat /\ sendThread' \in {"frame", "last"}
        BY <2>4
    <2>3. UNCHANGED <<listVars, flagVars, gui, promise, frames, session, clicks>>
        BY <1>3 DEF FramesArrive
    <2> QED
        BY <2>1, <2>2, <2>3
<1>4. CASE FrameSent
    <2>1. posted' \in Seq(Posted)
        <3>1. CASE posted' = posted
            BY <3>1
        <3>2. CASE frames[index] \in Answering
                   /\ posted' = Append(posted, Post("data", frames[index]))
            <4>1. frames[index] \in Frame
                BY <3>2, FrameAssumption
            <4> HIDE DEF TypeOK
            <4> QED
                BY <3>2, <4>1, PostedAfterPost
        <3> QED
            BY <1>4, <3>1, <3>2 DEF FrameSent
    <2> QED
        BY <1>4, <2>1 DEF FrameSent
<1> QED
    BY <1>1, <1>2, <1>3, <1>4 DEF SendThreadStep, RunSendThread

LEMMA TypeStep == TypeOK /\ [Next]_vars => TypeOK'
<1>1. TypeOK /\ UNCHANGED vars => TypeOK'
    BY DEF TypeOK, vars, listVars, flagVars, threadVars
<1> QED
    BY <1>1, UserStepTypes, HandlePostedTypes, SendThreadTypes DEF Next, UserStep

----------------------------------------------------------------------------
(* The list.                                                               *)

Listed(f) == \E i \in DOMAIN frameComponents : frameComponents[i] = f

(***************************************************************************)
(* A frame added at the end of a list it is not in.                        *)
(***************************************************************************)
LEMMA AppendNew ==
    ASSUME NEW S, NEW s \in Seq(S), NEW e \in S, IsInjective(s), \A i \in DOMAIN s : s[i] # e
    PROVE  /\ IsInjective(Append(s, e))
           /\ \A i \in DOMAIN Append(s, e) :
                  Append(s, e)[i] = e \/ \E j \in DOMAIN s : Append(s, e)[i] = s[j]
<1> DEFINE t == Append(s, e)
<1>1. /\ t \in Seq(S) /\ Len(t) = Len(s) + 1
      /\ \A i \in 1..Len(s) : t[i] = s[i]
      /\ t[Len(s) + 1] = e
    BY AppendProperties
<1>2. Len(s) \in Nat /\ DOMAIN s = 1..Len(s) /\ DOMAIN t = 1..(Len(s) + 1)
    BY <1>1, LenProperties
<1> HIDE DEF t
<1>3. \A i \in DOMAIN t : i \in DOMAIN s \/ i = Len(s) + 1
    BY <1>2, LastIndex, Zenon
<1>4. \A i \in DOMAIN s : t[i] = s[i]
    BY <1>1, <1>2
<1>5. IsInjective(t)
    BY <1>1, <1>3, <1>4, Zenon DEF IsInjective
<1>6. \A i \in DOMAIN t : t[i] = e \/ \E j \in DOMAIN s : t[i] = s[j]
    BY <1>1, <1>3, <1>4, Zenon
<1> QED
    BY <1>5, <1>6 DEF t

(***************************************************************************)
(* ListedFramesLive, frame by frame.                                       *)
(***************************************************************************)
LEMMA ListedByFrame ==
    /\ ListedFramesLive =>
           /\ IsInjective(frameComponents)
           /\ \A f : Listed(f) => object[f] = "live" /\ ~Destroying(f)
    /\ /\ IsInjective(frameComponents')
       /\ \A f : Listed(f)' => object'[f] = "live" /\ ~Destroying(f)'
       => ListedFramesLive'
BY Zenon DEF ListedFramesLive, Listed

LEMMA QuietListStep ==
    ASSUME ListedFramesLive, Created, UNCHANGED <<frameComponents, object, editing>>,
           \A g : Destroying(g)' => Destroying(g)
    PROVE  ListedFramesLive' /\ Created'
BY Zenon DEF ListedFramesLive, Created

LEMMA UserListStep ==
    TypeOK /\ ListedFramesLive /\ Created /\ UserStep => ListedFramesLive' /\ Created'
<1> SUFFICES ASSUME TypeOK, ListedFramesLive, Created, UserStep
             PROVE  ListedFramesLive' /\ Created'
    OBVIOUS
<1> HIDE DEF NoFrame
<1>0. /\ frameComponents \in Seq(Frame) /\ IsInjective(frameComponents)
      /\ \A f : Listed(f) => object[f] = "live" /\ ~Destroying(f)
      /\ object \in [Frame -> {"none", "live", "destroyed"}]
    BY ListedByFrame DEF TypeOK
<1>1. ASSUME NEW f \in Frame, AddFrame(f)
      PROVE  ListedFramesLive' /\ Created'
    <2>1. /\ object[f] = "none" /\ object' = [object EXCEPT ![f] = "live"]
          /\ frameComponents' = Append(frameComponents, f)
          /\ UNCHANGED <<editing, posted>>
        BY <1>1 DEF AddFrame
    <2>2. ~Listed(f) /\ ~Destroying(f)
        BY <1>0, <2>1 DEF Created
    <2>3. IsInjective(frameComponents') /\ \A g : Listed(g)' => Listed(g) \/ g = f
        <3>1. \A i \in DOMAIN frameComponents : frameComponents[i] # f
            BY <2>2, Zenon DEF Listed
        <3>2. /\ IsInjective(Append(frameComponents, f))
              /\ \A i \in DOMAIN Append(frameComponents, f) :
                     \/ Append(frameComponents, f)[i] = f
                     \/ \E j \in DOMAIN frameComponents :
                            Append(frameComponents, f)[i] = frameComponents[j]
            BY <1>0, <3>1, AppendNew
        <3> QED
            BY <2>1, <3>2, Zenon DEF Listed
    <2>4. \A g : Destroying(g)' <=> Destroying(g)
        BY <2>1 DEF Destroying
    <2>5. object'[f] = "live" /\ \A g : g # f => object'[g] = object[g]
        BY <1>0, <2>1
    <2>6. ListedFramesLive'
        BY <1>0, <2>2, <2>3, <2>4, <2>5, ListedByFrame
    <2>7. Created'
        BY <2>1, <2>4, <2>5 DEF Created
    <2> QED
        BY <2>6, <2>7
<1>2. ASSUME NEW f \in Frame, RemoveFrame(f)
      PROVE  ListedFramesLive' /\ Created'
    <2>1. /\ object[f] = "live" /\ frameComponents' = Without(f)
          /\ posted' = Append(posted, Post("destroy", f))
          /\ UNCHANGED <<object, editing>>
        BY <1>2 DEF RemoveFrame
    <2>2. IsInjective(frameComponents') /\ \A g : Listed(g)' => Listed(g) /\ g # f
        <3>1. /\ IsInjective(Without(f))
              /\ \A i \in DOMAIN Without(f) :
                     /\ Without(f)[i] # f
                     /\ \E j \in DOMAIN frameComponents : Without(f)[i] = frameComponents[j]
            BY <1>0, WithoutProperties
        <3> QED
            BY <2>1, <3>1, Zenon DEF Listed
    <2>3. \A g : Destroying(g)' <=> Destroying(g) \/ g = f
        BY <2>1, PostedAfterPost
    <2> QED
        BY <1>0, <2>1, <2>2, <2>3, ListedByFrame DEF Created
<1>3. ASSUME NEW f \in Frame, NEW g \in Frame, SaveEdit(f, g)
      PROVE  ListedFramesLive' /\ Created'
    <2>1. /\ editing[f] > 0 /\ object[g] = "none"
          /\ frameComponents' = Append(Without(f), g)
          /\ object' = [object EXCEPT ![g] = "live"]
          /\ posted' = Append(posted, Post("destroy", f))
          /\ editing' = [editing EXCEPT ![f] = @ - 1]
        BY <1>3 DEF SaveEdit
    <2>2. ~Listed(g) /\ ~Destroying(g) /\ f # g
        BY <1>0, <2>1 DEF Created
    <2>3. /\ IsInjective(frameComponents')
          /\ \A h : Listed(h)' => h = g \/ (Listed(h) /\ h # f)
        <3>1. /\ Without(f) \in Seq(Frame) /\ IsInjective(Without(f))
              /\ \A i \in DOMAIN Without(f) :
                     /\ Without(f)[i] # f
                     /\ \E j \in DOMAIN frameComponents : Without(f)[i] = frameComponents[j]
            BY <1>0, WithoutProperties
        <3>2. \A i \in DOMAIN Without(f) : Without(f)[i] # g
            BY <2>2, <3>1, Zenon DEF Listed
        <3>3. /\ IsInjective(Append(Without(f), g))
              /\ \A i \in DOMAIN Append(Without(f), g) :
                     \/ Append(Without(f), g)[i] = g
                     \/ \E j \in DOMAIN Without(f) :
                            Append(Without(f), g)[i] = Without(f)[j]
            BY <3>1, <3>2, AppendNew
        <3> QED
            BY <2>1, <3>1, <3>3, Zenon DEF Listed
    <2>4. \A h : Destroying(h)' <=> Destroying(h) \/ h = f
        BY <2>1, PostedAfterPost
    <2>5. object'[g] = "live" /\ \A h : h # g => object'[h] = object[h]
        BY <1>0, <2>1
    <2>6. ListedFramesLive'
        BY <1>0, <2>2, <2>3, <2>4, <2>5, ListedByFrame
    <2>7. \A h \in Frame : editing'[h] > 0 => editing[h] > 0
        BY <2>1 DEF TypeOK
    <2>8. object'[f] # "none"
        BY <2>1, <2>2, <2>5 DEF Created
    <2>9. Created'
        BY <2>4, <2>5, <2>7, <2>8 DEF Created
    <2> QED
        BY <2>6, <2>9
<1>4. CASE \E f \in Frame : OpenEdit(f) \/ CancelEdit(f)
    <2>1. PICK f \in Frame : OpenEdit(f) \/ CancelEdit(f)
        BY <1>4
    <2>2. UNCHANGED <<frameComponents, object, posted>>
        BY <2>1 DEF OpenEdit, CancelEdit
    <2>3. \A g \in Frame : editing'[g] > 0 => editing[g] > 0 \/ object[g] = "live"
        BY <2>1 DEF OpenEdit, CancelEdit, TypeOK
    <2>4. \A g : Destroying(g)' <=> Destroying(g)
        BY <2>2 DEF Destroying
    <2>5. ListedFramesLive'
        BY <2>2, <2>4, Zenon DEF ListedFramesLive
    <2>6. Created'
        BY <2>2, <2>3, <2>4 DEF Created
    <2> QED
        BY <2>5, <2>6
<1>5. CASE ClearFrames
    <2>1. /\ frameComponents' = <<>>
          /\ posted' = posted \o [i \in DOMAIN frameComponents |->
                                      Post("destroy", frameComponents[i])]
          /\ UNCHANGED <<object, editing>>
        BY <1>5 DEF ClearFrames
    <2>2. \A g : Destroying(g)' => Destroying(g) \/ Listed(g)
        BY <2>1, PostedAfterClear, Zenon DEF Listed
    <2>3. IsInjective(frameComponents') /\ \A g : ~Listed(g)'
        BY <2>1 DEF IsInjective, Listed
    <2>4. Created'
        BY <1>0, <2>1, <2>2 DEF Created
    <2> QED
        BY <2>3, <2>4, ListedByFrame
<1>6. CASE JoinReturns
    <2>1. posted' = Append(posted, Post("untoggle", NoFrame))
        BY <1>6 DEF JoinReturns
    <2>2. \A g : Destroying(g)' <=> Destroying(g)
        BY <2>1, PostedAfterPost
    <2>3. CASE UNCHANGED listVars
        BY <2>2, <2>3, QuietListStep DEF listVars
    <2>4. CASE /\ frameComponents' = <<>>
               /\ object' = [f \in Frame |->
                                IF object[f] = "live" THEN "destroyed" ELSE object[f]]
               /\ editing' = [f \in Frame |-> 0]
        <3>1. IsInjective(frameComponents') /\ \A g : ~Listed(g)'
            BY <2>4 DEF IsInjective, Listed
        <3>2. Created'
            BY <2>2, <2>4 DEF Created
        <3> QED
            BY <3>1, <3>2, ListedByFrame
    <2> QED
        BY <1>6, <2>3, <2>4 DEF JoinReturns
<1>7. CASE \E f \in Frame : SendOnce(f)
    <2>1. PICK f \in Frame : SendOnce(f)
        BY <1>7
    <2>2. \A g : Destroying(g)' <=> Destroying(g)
        <3>1. CASE posted' = posted
            BY <3>1 DEF Destroying
        <3>2. CASE posted' = Append(posted, Post("data", f))
            BY <3>2, PostedAfterPost
        <3> QED
            BY <2>1, <3>1, <3>2 DEF SendOnce
    <2> QED
        BY <2>1, <2>2, QuietListStep DEF SendOnce, listVars
<1>8. CASE RepeatToggle \/ SendToggleOn \/ SendToggleOff \/ CloseWindow
    <2>1. UNCHANGED listVars /\ UNCHANGED posted
        BY <1>8 DEF RepeatToggle, SendToggleOn, SendToggleOff, CloseWindow
    <2>2. \A g : Destroying(g)' <=> Destroying(g)
        BY <2>1 DEF Destroying
    <2> QED
        BY <2>1, <2>2, QuietListStep DEF listVars
<1> QED
    BY <1>1, <1>2, <1>3, <1>4, <1>5, <1>6, <1>7, <1>8, Zenon DEF UserStep

LEMMA HandlePostedListStep ==
    TypeOK /\ ListedFramesLive /\ Created /\ HandlePosted => ListedFramesLive' /\ Created'
<1> SUFFICES ASSUME TypeOK, ListedFramesLive, Created, HandlePosted
             PROVE  ListedFramesLive' /\ Created'
    OBVIOUS
<1>1. \A g : Destroying(g)' => Destroying(g)
    BY PostedAfterHandling
       DEF HandlePosted, GiveSnapshot, HandleStop, HandleUntoggle, UpdateData, DestroyFrame, Handle
<1>2. CASE GiveSnapshot \/ HandleStop \/ HandleUntoggle \/ UpdateData
    <2>1. UNCHANGED listVars
        BY <1>2 DEF GiveSnapshot, HandleStop, HandleUntoggle, UpdateData
    <2> QED
        BY <1>1, <2>1, QuietListStep DEF listVars
<1>3. CASE DestroyFrame
    <2> DEFINE f == Head(posted).frame
    <2>1. /\ object' = [object EXCEPT ![f] = "destroyed"]
          /\ UNCHANGED <<frameComponents, editing>>
        BY <1>3 DEF DestroyFrame
    <2>2. Destroying(f)
        BY <1>3, PostedAfterHandling DEF DestroyFrame, Handle
    <2> HIDE DEF f
    <2>3. object \in [Frame -> {"none", "live", "destroyed"}]
        BY DEF TypeOK
    <2>4. \A g \in Frame : object'[g] = IF g = f THEN "destroyed" ELSE object[g]
        BY <2>1, <2>3
    <2>5. \A g : Listed(g) => g \in Frame
        <3>1. \A i \in DOMAIN frameComponents : frameComponents[i] \in Frame
            BY LenProperties, ElementOfSeq DEF TypeOK
        <3> QED
            BY <3>1 DEF Listed
    <2>6. IsInjective(frameComponents') /\ \A g : Listed(g)' <=> Listed(g)
        BY <2>1, ListedByFrame DEF Listed
    <2>7. ListedFramesLive'
        BY <1>1, <2>2, <2>4, <2>5, <2>6, ListedByFrame
    <2>8. Created'
        BY <1>1, <2>1, <2>4 DEF Created
    <2> QED
        BY <2>7, <2>8
<1> QED
    BY <1>2, <1>3 DEF HandlePosted

LEMMA SendThreadListStep ==
    TypeOK /\ ListedFramesLive /\ Created /\ SendThreadStep => ListedFramesLive' /\ Created'
<1> SUFFICES ASSUME TypeOK, ListedFramesLive, Created, SendThreadStep
             PROVE  ListedFramesLive' /\ Created'
    OBVIOUS
<1> HIDE DEF NoFrame
<1>1. UNCHANGED <<frameComponents, object, editing>>
    BY DEF SendThreadStep, RunSendThread, SendLoop, InitializeFails, AskForFrames, FramesArrive, NextFrame,
           FrameSent, PassEnds, PostStop, listVars
<1>2. \/ posted' = posted
      \/ posted' = Append(posted, Post("stop", NoFrame))
      \/ posted' = Append(posted, Post("snapshot", NoFrame))
      \/ frames[index] \in Answering /\ posted' = Append(posted, Post("data", frames[index]))
    BY Zenon DEF SendThreadStep, RunSendThread, SendLoop, InitializeFails, AskForFrames, FramesArrive, NextFrame,
                 FrameSent, PassEnds, PostStop
<1>3. \A g : Destroying(g)' <=> Destroying(g)
    <2>1. CASE posted' = posted
        BY <2>1 DEF Destroying
    <2>2. CASE posted' # posted
        BY <1>2, <2>2, FrameAssumption, PostedAfterPost
    <2> QED
        BY <2>1, <2>2
<1> QED
    BY <1>1, <1>3, QuietListStep

LEMMA ListStep ==
    TypeOK /\ ListedFramesLive /\ Created /\ [Next]_vars => ListedFramesLive' /\ Created'
<1> SUFFICES ASSUME TypeOK, ListedFramesLive, Created, [Next]_vars
             PROVE  ListedFramesLive' /\ Created'
    OBVIOUS
<1>1. CASE UNCHANGED vars
    <2>1. UNCHANGED listVars /\ UNCHANGED posted
        BY <1>1 DEF vars
    <2>2. \A g : Destroying(g)' <=> Destroying(g)
        BY <2>1 DEF Destroying
    <2> QED
        BY <2>1, <2>2, QuietListStep DEF listVars
<1>2. CASE Next
    BY <1>2, UserListStep, HandlePostedListStep, SendThreadListStep, Zenon DEF Next, UserStep
<1> QED
    BY <1>1, <1>2

----------------------------------------------------------------------------
(* The send thread.                                                        *)

LEMMA ThreadStep == ThreadJoined /\ [Next]_vars => ThreadJoined'
<1> SUFFICES ASSUME ThreadJoined, [Next]_vars PROVE ThreadJoined'
    OBVIOUS
<1> USE DEF ThreadJoined, flagVars, threadVars
<1>1. CASE SendThreadStep
    BY <1>1 DEF SendThreadStep, RunSendThread, SendLoop, InitializeFails, AskForFrames, FramesArrive,
                NextFrame, FrameSent, PassEnds, PostStop
<1>2. CASE HandlePosted
    BY <1>2 DEF HandlePosted, GiveSnapshot, HandleStop, HandleUntoggle, UpdateData,
                DestroyFrame, Handle, StopSending
<1>3. CASE SendToggleOn \/ SendToggleOff \/ CloseWindow \/ JoinReturns
    BY <1>3 DEF SendToggleOn, SendToggleOff, CloseWindow, JoinReturns, StopSending, Click
<1>4. CASE \/ \E f \in Frame : AddFrame(f) \/ RemoveFrame(f) \/ SendOnce(f)
           \/ \E f \in Frame : OpenEdit(f) \/ CancelEdit(f)
           \/ \E f, g \in Frame : SaveEdit(f, g)
           \/ ClearFrames \/ RepeatToggle
    BY <1>4 DEF AddFrame, RemoveFrame, SendOnce, OpenEdit, CancelEdit, SaveEdit,
                ClearFrames, RepeatToggle
<1>5. CASE UNCHANGED vars
    BY <1>5 DEF vars
<1> QED
    BY <1>1, <1>2, <1>3, <1>4, <1>5 DEF Next

----------------------------------------------------------------------------
(* The theorems.                                                           *)

THEOREM PanelInvariant == Spec => []IInv
<1>1. IInv /\ [Next]_vars => IInv'
    BY TypeStep, ListStep, ThreadStep DEF IInv
<1> QED
    BY InitIInv, <1>1, PTL DEF Spec

(***************************************************************************)
(* The variables of the panel have the values the code can give them.      *)
(***************************************************************************)
THEOREM PanelTypes == Spec => []TypeOK
BY PanelInvariant, PTL DEF IInv

(***************************************************************************)
(* startSendingThread never assigns to a joinable m_sendThread, and the    *)
(* panel is never deleted with one, whatever the order of clicks, posted   *)
(* stops and the thread's own end.                                         *)
(***************************************************************************)
THEOREM SendThreadJoined == Spec => []ThreadJoined
BY PanelInvariant, PTL DEF IInv

(***************************************************************************)
(* m_frameComponents never holds a frame twice, or one that is destroyed   *)
(* or about to be: also when frames are removed while an edit window or    *)
(* two are open on them, or while frames are being sent.                   *)
(***************************************************************************)
THEOREM ListSound == Spec => []ListedFramesLive
BY PanelInvariant, PTL DEF IInv
----------------------------------------------------------------------------
(* The frames the send thread uses.                                        *)

SnapshotAt(i) == posted[i].what = "snapshot"

\* A posted snapshot is the one the send thread waits for.
OneSnapshot ==
    \A i \in DOMAIN posted : SnapshotAt(i) =>
        /\ sendThread = "await" /\ ~promise
        /\ \A j \in DOMAIN posted : SnapshotAt(j) => i = j

\* The send thread has its snapshot and is not through with it.
Using == sendThread \in {"frame", "sending"} \/ (sendThread = "await" /\ promise)

SnapshotLive ==
    Using =>
        \A i \in DOMAIN frames : frames[i] \notin dropped =>
            object[frames[i]] = "live" /\ ~Destroying(frames[i])

IndexInSnapshot ==
    /\ sendThread = "frame" => index >= 1
    /\ sendThread = "sending" => index \in 1..Len(frames)

SendInv == OneSnapshot /\ SnapshotLive /\ IndexInSnapshot

(***************************************************************************)
(* The functions posted, position by position, after one more is posted    *)
(* and after the first one is handled.                                     *)
(***************************************************************************)
LEMMA PositionsAfterPost ==
    ASSUME TypeOK, NEW what \in {"snapshot", "stop", "untoggle", "data", "destroy"},
           NEW f \in Frame \cup {NoFrame}, posted' = Append(posted, Post(what, f))
    PROVE  /\ Len(posted) \in Nat /\ DOMAIN posted = 1..Len(posted)
           /\ \A i \in DOMAIN posted : posted'[i] = posted[i]
           /\ \A i \in DOMAIN posted' :
                  \/ i \in DOMAIN posted /\ posted'[i] = posted[i]
                  \/ /\ i = Len(posted) + 1 /\ posted'[i].what = what /\ posted'[i].frame = f
                     /\ posted'[i].listed => what = "data" /\ f \in ToSet(frameComponents)
<1>1. posted \in Seq(Posted) /\ session \in Nat
    BY DEF TypeOK
<1>2. /\ posted' \in Seq(Posted) /\ Len(posted') = Len(posted) + 1
      /\ \A i \in 1..Len(posted) : posted'[i] = posted[i]
      /\ posted'[Len(posted) + 1].what = what /\ posted'[Len(posted) + 1].frame = f
    <2> HIDE DEF NoFrame
    <2> QED
        BY <1>1, PostProperties
<1>4. posted'[Len(posted) + 1].listed => what = "data" /\ f \in ToSet(frameComponents)
    <2>1. posted'[Len(posted) + 1] = Post(what, f)
        <3> HIDE DEF NoFrame
        <3> QED
            BY <1>1, PostProperties
    <2>2. Post(what, f).listed = (what = "data" /\ f \in ToSet(frameComponents))
        BY Zenon DEF Post
    <2> QED
        BY <2>1, <2>2, Zenon
<1>3. /\ Len(posted) \in Nat /\ DOMAIN posted = 1..Len(posted)
      /\ DOMAIN posted' = 1..(Len(posted) + 1)
    BY <1>1, <1>2, LenProperties
<1> QED
    BY <1>2, <1>3, <1>4, LastIndex, Zenon

LEMMA PositionsAfterHandling ==
    ASSUME TypeOK, posted # <<>>, posted' = Tail(posted)
    PROVE  /\ 1 \in DOMAIN posted /\ Head(posted) = posted[1]
           /\ \A i \in DOMAIN posted' :
                  /\ i \in Nat /\ i >= 1
                  /\ i + 1 \in DOMAIN posted /\ posted'[i] = posted[i + 1]
<1>1. posted \in Seq(Posted)
    BY DEF TypeOK
<1>2. /\ posted' \in Seq(Posted) /\ Len(posted') = Len(posted) - 1
      /\ \A i \in 1..Len(posted') : posted'[i] = posted[i + 1]
    BY <1>1, HeadTailProperties
<1>3. Len(posted) \in Nat /\ DOMAIN posted = 1..Len(posted) /\ DOMAIN posted' = 1..Len(posted')
    BY <1>1, <1>2, LenProperties
<1>4. Len(posted) # 0
    BY <1>1, EmptySeq
<1> QED
    BY <1>2, <1>3, <1>4

(***************************************************************************)
(* Clear All posts destructions only.                                      *)
(***************************************************************************)
LEMMA PositionsAfterClear ==
    ASSUME TypeOK,
           posted' = posted \o [i \in DOMAIN frameComponents |-> Post("destroy", frameComponents[i])]
    PROVE  /\ \A i \in DOMAIN posted : posted'[i] = posted[i]
           /\ \A i \in DOMAIN posted' :
                  \/ i \in DOMAIN posted /\ posted'[i] = posted[i]
                  \/ posted'[i].what = "destroy"
<1> DEFINE d == [i \in DOMAIN frameComponents |-> Post("destroy", frameComponents[i])]
<1>1. posted \in Seq(Posted) /\ frameComponents \in Seq(Frame) /\ session \in Nat
    BY DEF TypeOK
<1>2. /\ Len(frameComponents) \in Nat
      /\ DOMAIN frameComponents = 1..Len(frameComponents)
      /\ \A i \in DOMAIN frameComponents : frameComponents[i] \in Frame
    BY <1>1, LenProperties, ElementOfSeq
<1>3. \A i \in DOMAIN frameComponents : Post("destroy", frameComponents[i]) \in Posted
    BY <1>1, <1>2 DEF Post, Posted
<1>4. d \in Seq(Posted) /\ Len(d) = Len(frameComponents)
    BY <1>2, <1>3, IsASeq
<1>5. \A i \in 1..Len(frameComponents) : d[i].what = "destroy"
    BY <1>2 DEF Post
<1> HIDE DEF d
<1>6. posted' = posted \o d
    BY DEF d
<1>7. /\ posted \o d \in Seq(Posted) /\ Len(posted \o d) = Len(posted) + Len(d)
      /\ \A i \in 1..(Len(posted) + Len(d)) :
             (posted \o d)[i] = IF i <= Len(posted) THEN posted[i] ELSE d[i - Len(posted)]
    BY <1>1, <1>4, ConcatProperties
<1>8. /\ Len(posted) \in Nat /\ DOMAIN posted = 1..Len(posted)
      /\ DOMAIN posted' = 1..(Len(posted) + Len(d))
    BY <1>1, <1>4, <1>6, <1>7, LenProperties
<1>11. \A i \in DOMAIN posted : posted'[i] = posted[i]
    BY <1>2, <1>4, <1>6, <1>7, <1>8
<1> SUFFICES ASSUME NEW i \in DOMAIN posted'
             PROVE  \/ i \in DOMAIN posted /\ posted'[i] = posted[i]
                    \/ posted'[i].what = "destroy"
    BY <1>11
<1>9. CASE i <= Len(posted)
    BY <1>9, <1>6, <1>7, <1>8
<1>10. CASE ~(i <= Len(posted))
    <2>1. i - Len(posted) \in 1..Len(frameComponents)
        BY <1>10, <1>2, <1>4, <1>8
    <2>2. posted'[i] = d[i - Len(posted)]
        BY <1>10, <1>6, <1>7, <1>8
    <2> QED
        BY <1>5, <2>1, <2>2
<1> QED
    BY <1>9, <1>10

(***************************************************************************)
(* No snapshot waits unless the send thread waits for it, in particular    *)
(* not when a new session begins: the old thread was joined.               *)
(***************************************************************************)
LEMMA NoStraySnapshot ==
    ASSUME OneSnapshot, sendThread # "await" \/ promise
    PROVE  \A i \in DOMAIN posted : ~SnapshotAt(i)
BY DEF OneSnapshot

\* A step that posts no snapshot, and does not move the thread while one waits.
LEMMA NoNewSnapshot ==
    ASSUME OneSnapshot,
           \A i \in DOMAIN posted' : SnapshotAt(i)' => i \in DOMAIN posted /\ SnapshotAt(i),
           UNCHANGED <<sendThread, promise>> \/ sendThread # "await" \/ promise
    PROVE  OneSnapshot'
<1>1. CASE UNCHANGED <<sendThread, promise>>
    BY <1>1, Zenon DEF OneSnapshot
<1>2. CASE sendThread # "await" \/ promise
    BY <1>2, NoStraySnapshot, Zenon DEF OneSnapshot
<1> QED
    BY <1>1, <1>2

LEMMA NothingPosted ==
    ASSUME posted' = posted
    PROVE  \A i \in DOMAIN posted' : SnapshotAt(i)' => i \in DOMAIN posted /\ SnapshotAt(i)
BY DEF SnapshotAt

LEMMA OtherPosted ==
    ASSUME TypeOK, NEW what \in {"stop", "untoggle", "data", "destroy"},
           NEW f \in Frame \cup {NoFrame}, posted' = Append(posted, Post(what, f))
    PROVE  \A i \in DOMAIN posted' : SnapshotAt(i)' => i \in DOMAIN posted /\ SnapshotAt(i)
<1> HIDE DEF NoFrame
<1>1. what # "snapshot"
    OBVIOUS
<1>2. \A i \in DOMAIN posted' :
          \/ i \in DOMAIN posted /\ posted'[i] = posted[i]
          \/ posted'[i].what = what
    BY PositionsAfterPost
<1> QED
    BY <1>1, <1>2 DEF SnapshotAt

LEMMA SnapshotUserStep ==
    ASSUME TypeOK, ThreadJoined, OneSnapshot, UserStep
    PROVE  OneSnapshot'
<1> HIDE DEF NoFrame
<1> USE DEF Click, flagVars, threadVars
<1>1. CASE \/ \E f \in Frame : AddFrame(f) \/ OpenEdit(f) \/ CancelEdit(f)
           \/ RepeatToggle \/ SendToggleOff \/ CloseWindow
    <2>1. UNCHANGED <<posted, sendThread, promise>>
        BY <1>1 DEF AddFrame, OpenEdit, CancelEdit, RepeatToggle, SendToggleOff, CloseWindow
    <2> QED
        BY <2>1, NothingPosted, NoNewSnapshot
<1>2. CASE \/ \E f \in Frame : RemoveFrame(f) \/ SendOnce(f)
           \/ \E f, g \in Frame : SaveEdit(f, g)
    <2>1. PICK f \in Frame : \/ posted' = posted
                             \/ posted' = Append(posted, Post("destroy", f))
                             \/ posted' = Append(posted, Post("data", f))
        BY <1>2 DEF RemoveFrame, SendOnce, SaveEdit
    <2>2. UNCHANGED <<sendThread, promise>>
        BY <1>2 DEF RemoveFrame, SendOnce, SaveEdit
    <2> QED
        BY <2>1, <2>2, NothingPosted, OtherPosted, NoNewSnapshot
<1>3. CASE ClearFrames
    <2>1. UNCHANGED <<sendThread, promise>>
        BY <1>3 DEF ClearFrames
    <2>2. \A i \in DOMAIN posted' : SnapshotAt(i)' => i \in DOMAIN posted /\ SnapshotAt(i)
        BY <1>3, PositionsAfterClear DEF ClearFrames, SnapshotAt
    <2> QED
        BY <2>1, <2>2, NoNewSnapshot
<1>4. CASE SendToggleOn
    <2>1. posted' = posted /\ (UNCHANGED <<sendThread, promise>> \/ sendThread # "await")
        BY <1>4 DEF SendToggleOn, ThreadJoined
    <2> QED
        BY <2>1, NothingPosted, NoNewSnapshot
<1>5. CASE JoinReturns
    <2>1. sendThread # "await" /\ posted' = Append(posted, Post("untoggle", NoFrame))
        BY <1>5 DEF JoinReturns
    <2> QED
        BY <2>1, OtherPosted, NoNewSnapshot
<1> QED
    BY <1>1, <1>2, <1>3, <1>4, <1>5, Zenon DEF UserStep

LEMMA SnapshotHandled ==
    ASSUME TypeOK, OneSnapshot, HandlePosted
    PROVE  OneSnapshot'
<1>1. posted # <<>> /\ posted' = Tail(posted)
    BY DEF HandlePosted, GiveSnapshot, HandleStop, HandleUntoggle, UpdateData, DestroyFrame, Handle
<1>2. /\ 1 \in DOMAIN posted /\ Head(posted) = posted[1]
      /\ \A i \in DOMAIN posted' : /\ i \in Nat /\ i >= 1
                                   /\ i + 1 \in DOMAIN posted /\ posted'[i] = posted[i + 1]
    BY <1>1, PositionsAfterHandling
<1>3. \A i \in DOMAIN posted' : SnapshotAt(i)' => SnapshotAt(i + 1)
    BY <1>2 DEF SnapshotAt
<1>4. CASE GiveSnapshot
    <2>1. SnapshotAt(1)
        BY <1>2, <1>4 DEF GiveSnapshot, Handle, SnapshotAt
    <2>2. ASSUME NEW i \in DOMAIN posted', SnapshotAt(i)' PROVE FALSE
        <3>1. 1 = i + 1
            BY <1>2, <1>3, <2>1, <2>2, Zenon DEF OneSnapshot
        <3> QED
            BY <1>2, <3>1
    <2> QED
        BY <2>2 DEF OneSnapshot
<1>5. CASE HandleStop \/ HandleUntoggle \/ UpdateData \/ DestroyFrame
    <2>1. UNCHANGED <<sendThread, promise>>
        BY <1>5 DEF HandleStop, HandleUntoggle, UpdateData, DestroyFrame, threadVars
    <2>2. ASSUME NEW i \in DOMAIN posted', SnapshotAt(i)'
          PROVE  /\ sendThread' = "await" /\ ~promise'
                 /\ \A j \in DOMAIN posted' : SnapshotAt(j)' => i = j
        <3>1. sendThread = "await" /\ ~promise
            BY <1>2, <1>3, <2>2 DEF OneSnapshot
        <3>2. \A j \in DOMAIN posted' : SnapshotAt(j)' => i + 1 = j + 1
            BY <1>2, <1>3, <2>2, Zenon DEF OneSnapshot
        <3> QED
            BY <1>2, <2>1, <3>1, <3>2
    <2> QED
        BY <2>2 DEF OneSnapshot
<1> QED
    BY <1>4, <1>5 DEF HandlePosted

LEMMA SnapshotThreadStep ==
    ASSUME TypeOK, OneSnapshot, IndexInSnapshot, SendThreadStep
    PROVE  OneSnapshot'
<1> HIDE DEF NoFrame
<1>1. CASE SendLoop \/ NextFrame \/ PassEnds
    <2>1. posted' = posted /\ sendThread # "await"
        BY <1>1 DEF SendLoop, NextFrame, PassEnds
    <2> QED
        BY <2>1, NothingPosted, NoNewSnapshot
<1>2. CASE InitializeFails \/ PostStop
    <2>1. posted' = Append(posted, Post("stop", NoFrame)) /\ sendThread # "await"
        BY <1>2 DEF InitializeFails, PostStop
    <2> QED
        BY <2>1, OtherPosted, NoNewSnapshot
<1>3. CASE FramesArrive
    <2>1. promise /\ (posted' = posted \/ posted' = Append(posted, Post("stop", NoFrame)))
        BY <1>3, Zenon DEF FramesArrive
    <2> QED
        BY <2>1, NothingPosted, OtherPosted, NoNewSnapshot
<1>4. CASE FrameSent
    <2>1. /\ sendThread # "await"
          /\ \/ posted' = posted
             \/ frames[index] \in Frame /\ posted' = Append(posted, Post("data", frames[index]))
        BY <1>4, FrameAssumption DEF FrameSent
    <2> QED
        BY <2>1, NothingPosted, OtherPosted, NoNewSnapshot
<1>5. CASE AskForFrames
    <2>1. /\ sendThread = "ask" /\ sendThread' = "await" /\ promise' = FALSE
          /\ posted' = Append(posted, Post("snapshot", NoFrame))
        BY <1>5 DEF AskForFrames
    <2>2. \A i \in DOMAIN posted : ~SnapshotAt(i)
        BY <2>1, NoStraySnapshot
    <2>3. \A i \in DOMAIN posted' :
              i = Len(posted) + 1 \/ (i \in DOMAIN posted /\ posted'[i] = posted[i])
        BY <2>1, PositionsAfterPost
    <2>4. \A i \in DOMAIN posted' : SnapshotAt(i)' => i = Len(posted) + 1
        BY <2>2, <2>3 DEF SnapshotAt
    <2> QED
        BY <2>1, <2>4, Zenon DEF OneSnapshot
<1> QED
    BY <1>1, <1>2, <1>3, <1>4, <1>5 DEF SendThreadStep, RunSendThread

\* Creating a frame leaves the others as they are.
LEMMA CreatedLive ==
    ASSUME TypeOK,
           object' = object \/ \E g \in Frame : object' = [object EXCEPT ![g] = "live"]
    PROVE  \A h : object[h] = "live" => object'[h] = "live"
<1>1. CASE object' = object
    BY <1>1
<1>2. CASE \E g \in Frame : object' = [object EXCEPT ![g] = "live"]
    <2>1. PICK g \in Frame : object' = [object EXCEPT ![g] = "live"]
        BY <1>2
    <2> QED
        BY <2>1 DEF TypeOK
<1> QED
    BY <1>1, <1>2

(***************************************************************************)
(* The snapshot stays good while the send thread goes through it, but for  *)
(* the dropped frames: Clear All does nothing while m_isSending is set,    *)
(* and the GUI thread handles nothing while it joins.                      *)
(***************************************************************************)
LEMMA LiveUserStep ==
    ASSUME TypeOK, ThreadJoined, SnapshotLive, UserStep
    PROVE  SnapshotLive'
<1> HIDE DEF NoFrame
<1> USE DEF Click, flagVars, threadVars, listVars
<1>0. object \in [Frame -> {"none", "live", "destroyed"}]
    BY DEF TypeOK
<1>1. CASE ClearFrames
    <2>1. sendThread = "none" /\ sendThread' = "none"
        BY <1>1 DEF ClearFrames, ThreadJoined
    <2> QED
        BY <2>1 DEF SnapshotLive, Using
<1>7. ASSUME NEW f \in Frame, RemoveFrame(f) \/ \E g \in Frame : SaveEdit(f, g)
      PROVE  SnapshotLive'
    <2>1. /\ posted' = Append(posted, Post("destroy", f)) /\ dropped' = dropped \cup {f}
          /\ UNCHANGED <<sendThread, promise, frames>>
          /\ object' = object \/ \E g \in Frame : object' = [object EXCEPT ![g] = "live"]
        BY <1>7 DEF RemoveFrame, SaveEdit
    <2>2. \A g : object[g] = "live" => object'[g] = "live"
        BY <2>1, CreatedLive
    <2>3. \A g : Destroying(g)' <=> Destroying(g) \/ g = f
        BY <2>1, PostedAfterPost
    <2>4. \A g : g \notin dropped' => g \notin dropped /\ g # f
        BY <2>1
    <2> QED
        BY <2>1, <2>2, <2>3, <2>4, Zenon DEF SnapshotLive, Using
<1>2. CASE \/ \E f \in Frame : OpenEdit(f) \/ CancelEdit(f)
           \/ RepeatToggle \/ SendToggleOff \/ CloseWindow
    <2>1. UNCHANGED <<posted, object, dropped, sendThread, promise, frames>>
        BY <1>2 DEF OpenEdit, CancelEdit, RepeatToggle, SendToggleOff, CloseWindow
    <2> QED
        BY <2>1, Zenon DEF SnapshotLive, Using, Destroying
<1>3. ASSUME NEW f \in Frame, AddFrame(f) PROVE SnapshotLive'
    <2>1. /\ UNCHANGED <<posted, dropped, sendThread, promise, frames>>
          /\ object' = [object EXCEPT ![f] = "live"]
        BY <1>3 DEF AddFrame
    <2>2. \A g : object[g] = "live" => object'[g] = "live"
        BY <1>0, <2>1
    <2> QED
        BY <2>1, <2>2, Zenon DEF SnapshotLive, Using, Destroying
<1>4. ASSUME NEW f \in Frame, SendOnce(f) PROVE SnapshotLive'
    <2>1. UNCHANGED <<object, dropped, sendThread, promise, frames>>
        BY <1>4 DEF SendOnce
    <2>2. \A g : Destroying(g)' <=> Destroying(g)
        <3>1. CASE posted' = posted
            BY <3>1 DEF Destroying
        <3>2. CASE posted' = Append(posted, Post("data", f))
            BY <3>2, PostedAfterPost
        <3> QED
            BY <1>4, <3>1, <3>2 DEF SendOnce
    <2> QED
        BY <2>1, <2>2, Zenon DEF SnapshotLive, Using
<1>5. CASE SendToggleOn
    <2>1. CASE UNCHANGED sendThread
        <3>1. UNCHANGED <<posted, object, dropped, sendThread, promise, frames>>
            BY <1>5, <2>1 DEF SendToggleOn
        <3> QED
            BY <3>1, Zenon DEF SnapshotLive, Using, Destroying
    <2>2. CASE sendThread' = "loop"
        BY <2>2 DEF SnapshotLive, Using
    <2> QED
        BY <1>5, <2>1, <2>2 DEF SendToggleOn
<1>6. CASE JoinReturns
    BY <1>6 DEF JoinReturns, SnapshotLive, Using
<1> QED
    BY <1>1, <1>2, <1>3, <1>4, <1>5, <1>6, <1>7, Zenon DEF UserStep

LEMMA LiveHandled ==
    ASSUME TypeOK, ListedFramesLive, OneSnapshot, SnapshotLive, HandlePosted
    PROVE  SnapshotLive'
<1>1. posted # <<>> /\ posted' = Tail(posted)
    BY DEF HandlePosted, GiveSnapshot, HandleStop, HandleUntoggle, UpdateData, DestroyFrame, Handle
<1>2. /\ \A g : Destroying(g)' => Destroying(g)
      /\ Head(posted).what = "destroy" => Destroying(Head(posted).frame)
    BY <1>1, PostedAfterHandling
<1>3. CASE GiveSnapshot
    <2>1. frames' = frameComponents /\ UNCHANGED object
        BY <1>3 DEF GiveSnapshot, listVars
    <2> QED
        BY <1>2, <2>1, Zenon DEF SnapshotLive, ListedFramesLive
<1>4. CASE HandleStop \/ HandleUntoggle \/ UpdateData
    <2>1. UNCHANGED <<object, dropped, sendThread, promise, frames>>
        BY <1>4 DEF HandleStop, HandleUntoggle, UpdateData, threadVars, listVars
    <2> QED
        BY <1>2, <2>1, Zenon DEF SnapshotLive, Using
<1>5. CASE DestroyFrame
    <2> DEFINE f == Head(posted).frame
    <2>1. /\ UNCHANGED <<dropped, sendThread, promise, frames>>
          /\ object' = [object EXCEPT ![f] = "destroyed"]
          /\ Head(posted).what = "destroy"
        BY <1>5 DEF DestroyFrame, Handle, threadVars
    <2>2. Destroying(f)
        BY <1>2, <2>1
    <2> HIDE DEF f
    <2>3. \A g : g # f => object'[g] = object[g]
        BY <2>1 DEF TypeOK
    <2> QED
        BY <1>2, <2>1, <2>2, <2>3, Zenon DEF SnapshotLive, Using
<1> QED
    BY <1>3, <1>4, <1>5 DEF HandlePosted

LEMMA LiveThreadStep ==
    ASSUME TypeOK, SnapshotLive, SendThreadStep
    PROVE  SnapshotLive'
<1> HIDE DEF NoFrame
<1>5. CASE SendLoop
    BY <1>5 DEF SendLoop, SnapshotLive, Using
<1>1. ~SendLoop => UNCHANGED <<object, dropped, frames>>
    BY DEF SendThreadStep, RunSendThread, SendLoop, InitializeFails, AskForFrames, FramesArrive, NextFrame,
           FrameSent, PassEnds, PostStop, listVars
<1>2. \/ posted' = posted
      \/ posted' = Append(posted, Post("stop", NoFrame))
      \/ posted' = Append(posted, Post("snapshot", NoFrame))
      \/ frames[index] \in Answering /\ posted' = Append(posted, Post("data", frames[index]))
    BY Zenon DEF SendThreadStep, RunSendThread, SendLoop, InitializeFails, AskForFrames, FramesArrive, NextFrame,
                 FrameSent, PassEnds, PostStop
<1>3. \A g : Destroying(g)' <=> Destroying(g)
    <2>1. CASE posted' = posted
        BY <2>1 DEF Destroying
    <2>2. CASE posted' # posted
        BY <1>2, <2>2, FrameAssumption, PostedAfterPost
    <2> QED
        BY <2>1, <2>2
<1>4. Using' => Using
    BY DEF SendThreadStep, RunSendThread, SendLoop, InitializeFails, AskForFrames, FramesArrive, NextFrame,
           FrameSent, PassEnds, PostStop, Using
<1> QED
    BY <1>1, <1>3, <1>4, <1>5, Zenon DEF SnapshotLive

LEMMA IndexStep ==
    ASSUME TypeOK, OneSnapshot, IndexInSnapshot, [Next]_vars
    PROVE  IndexInSnapshot'
<1> USE DEF flagVars, threadVars
<1>0. index \in Nat /\ Len(frames) \in Nat
    BY LenProperties DEF TypeOK
<1>1. CASE UserStep
    <2>1. /\ UNCHANGED <<frames, index>>
          /\ sendThread' = sendThread \/ sendThread' \in {"loop", "none"}
        BY <1>1 DEF UserStep, AddFrame, RemoveFrame, SendOnce, OpenEdit, CancelEdit, SaveEdit,
                    ClearFrames, RepeatToggle, SendToggleOn, SendToggleOff, CloseWindow, JoinReturns
    <2> QED
        BY <2>1 DEF IndexInSnapshot
<1>2. CASE HandlePosted
    <2>1. CASE GiveSnapshot
        <3>1. SnapshotAt(1) /\ 1 \in DOMAIN posted
            BY <2>1, PositionsAfterHandling DEF GiveSnapshot, Handle, SnapshotAt
        <3>2. sendThread = "await"
            BY <3>1 DEF OneSnapshot
        <3> QED
            BY <2>1, <3>2 DEF GiveSnapshot, IndexInSnapshot
    <2>2. CASE HandleStop \/ HandleUntoggle \/ UpdateData \/ DestroyFrame
        BY <2>2 DEF HandleStop, HandleUntoggle, UpdateData, DestroyFrame, IndexInSnapshot
    <2> QED
        BY <1>2, <2>1, <2>2 DEF HandlePosted
<1>3. CASE SendThreadStep
    <2>1. CASE NextFrame
        BY <1>0, <2>1 DEF NextFrame, IndexInSnapshot
    <2>2. CASE FrameSent
        BY <1>0, <2>2 DEF FrameSent, IndexInSnapshot
    <2>3. CASE FramesArrive
        <3>1. \/ sendThread' = "last"
              \/ sendThread' = "frame" /\ index' = 1
            BY <2>3, Zenon DEF FramesArrive
        <3> QED
            BY <3>1 DEF IndexInSnapshot
    <2>4. CASE SendLoop \/ InitializeFails \/ AskForFrames \/ PassEnds \/ PostStop
        BY <2>4 DEF SendLoop, InitializeFails, AskForFrames, PassEnds, PostStop, IndexInSnapshot
    <2> QED
        BY <1>3, <2>1, <2>2, <2>3, <2>4 DEF SendThreadStep, RunSendThread
<1>4. CASE UNCHANGED vars
    BY <1>4 DEF vars, IndexInSnapshot
<1> QED
    BY <1>1, <1>2, <1>3, <1>4 DEF Next, UserStep

LEMMA SendStep ==
    ASSUME IInv, SendInv, [Next]_vars
    PROVE  SendInv'
<1>1. TypeOK /\ ThreadJoined /\ ListedFramesLive
    BY DEF IInv
<1>2. OneSnapshot /\ SnapshotLive /\ IndexInSnapshot
    BY DEF SendInv
<1>3. IndexInSnapshot'
    BY <1>1, <1>2, IndexStep
<1>4. CASE UserStep
    BY <1>1, <1>2, <1>3, <1>4, SnapshotUserStep, LiveUserStep DEF SendInv
<1>5. CASE HandlePosted
    BY <1>1, <1>2, <1>3, <1>5, SnapshotHandled, LiveHandled DEF SendInv
<1>6. CASE SendThreadStep
    BY <1>1, <1>2, <1>3, <1>6, SnapshotThreadStep, LiveThreadStep DEF SendInv
<1>7. CASE UNCHANGED vars
    <2>1. OneSnapshot'
        BY <1>2, <1>7 DEF vars, threadVars, OneSnapshot, SnapshotAt
    <2>2. SnapshotLive'
        BY <1>2, <1>7, Zenon DEF vars, threadVars, listVars, SnapshotLive, Using, Destroying
    <2> QED
        BY <1>3, <2>1, <2>2 DEF SendInv
<1> QED
    BY <1>4, <1>5, <1>6, <1>7, Zenon DEF Next, UserStep

LEMMA InitSendInv == Init => SendInv
<1> SUFFICES ASSUME Init PROVE SendInv
    OBVIOUS
<1>1. posted = <<>> /\ DOMAIN posted = {} /\ sendThread = "none"
    BY EmptySeq, LenProperties DEF Init
<1> QED
    BY <1>1 DEF SendInv, OneSnapshot, SnapshotLive, IndexInSnapshot, Using

LEMMA SendInvMeans == TypeOK /\ SendInv => SentFrameLives
<1> SUFFICES ASSUME TypeOK, SendInv, NEW f \in InUse, f \notin dropped
             PROVE  object[f] = "live" /\ ~Destroying(f)
    BY DEF SentFrameLives
<1>1. index \in Nat /\ Len(frames) \in Nat /\ DOMAIN frames = 1..Len(frames)
    BY LenProperties DEF TypeOK
<1>2. Using /\ index \in DOMAIN frames /\ f = frames[index]
    BY <1>1 DEF InUse, Using, SendInv, IndexInSnapshot
<1> QED
    BY <1>2 DEF SendInv, SnapshotLive

(***************************************************************************)
(* The send thread follows no pointer to a FrameComponent that is, or is   *)
(* about to be, destroyed, other than one the user removed or replaced     *)
(* during this pass over the list: for any list, any clicks, and however   *)
(* Clear All, Stop, Repeat, the window's closing and new sessions          *)
(* interleave with the posted functions.                                   *)
(***************************************************************************)
THEOREM LiveFramesSent == Spec => []SentFrameLives
<1>1. IInv /\ SendInv /\ [Next]_vars => SendInv'
    BY SendStep
<1>2. IInv /\ SendInv => SentFrameLives
    BY SendInvMeans DEF IInv
<1> QED
    BY InitSendInv, <1>1, <1>2, PanelInvariant, PTL DEF Spec

----------------------------------------------------------------------------
(* Received data.                                                          *)

(***************************************************************************)
(* What is posted stays findable while functions are added behind it and   *)
(* no frame is destroyed.                                                  *)
(***************************************************************************)
LEMMA KeepsFinding ==
    ASSUME TypeOK, NEW i \in DOMAIN posted, FindsFrame(i),
           \A j \in DOMAIN posted : posted'[j] = posted[j],
           \A g : object[g] = "live" => object'[g] = "live"
    PROVE  FindsFrame(i)'
<1>1. DOMAIN posted = 1..Len(posted) /\ Len(posted) \in Nat
    BY LenProperties DEF TypeOK
<1>2. \A j \in 1..(i - 1) : j \in DOMAIN posted
    BY <1>1
<1> QED
    BY <1>2 DEF FindsFrame

LEMMA DataKept ==
    ASSUME TypeOK, UpdatedFrameLives, gui' # "closed" => gui # "closed",
           posted' = posted, \A g : object[g] = "live" => object'[g] = "live"
    PROVE  UpdatedFrameLives'
BY KeepsFinding DEF UpdatedFrameLives

(***************************************************************************)
(* Data that is posted for a frame of the list finds a live frame with no  *)
(* destruction before it in the queue.                                     *)
(***************************************************************************)
LEMMA DataPosted ==
    ASSUME TypeOK, ListedFramesLive, UpdatedFrameLives, gui' # "closed" => gui # "closed",
           \A g : object[g] = "live" => object'[g] = "live",
           NEW what \in {"snapshot", "stop", "untoggle", "data", "destroy"},
           NEW f \in Frame \cup {NoFrame}, posted' = Append(posted, Post(what, f))
    PROVE  UpdatedFrameLives'
<1> HIDE DEF NoFrame
<1>1. /\ Len(posted) \in Nat /\ DOMAIN posted = 1..Len(posted)
      /\ \A i \in DOMAIN posted : posted'[i] = posted[i]
      /\ \A i \in DOMAIN posted' :
             \/ i \in DOMAIN posted /\ posted'[i] = posted[i]
             \/ /\ i = Len(posted) + 1 /\ posted'[i].what = what /\ posted'[i].frame = f
                /\ posted'[i].listed => what = "data" /\ f \in ToSet(frameComponents)
    BY PositionsAfterPost
<1>2. f \in ToSet(frameComponents) => object[f] = "live" /\ ~Destroying(f)
    BY DEF ToSet, ListedFramesLive
<1> SUFFICES ASSUME gui # "closed",
                    NEW i \in DOMAIN posted', posted'[i].what = "data", posted'[i].listed
             PROVE  FindsFrame(i)'
    BY DEF UpdatedFrameLives
<1>3. CASE i \in DOMAIN posted /\ posted'[i] = posted[i]
    BY <1>1, <1>3, KeepsFinding DEF UpdatedFrameLives
<1>4. CASE i = Len(posted) + 1 /\ posted'[i].frame = f /\ f \in ToSet(frameComponents)
    <2>1. object'[f] = "live" /\ ~Destroying(f)
        BY <1>2, <1>4
    <2>2. \A j \in 1..(i - 1) : j \in DOMAIN posted /\ posted'[j] = posted[j]
        BY <1>1, <1>4
    <2> QED
        BY <1>4, <2>1, <2>2 DEF FindsFrame, Destroying
<1> QED
    BY <1>1, <1>3, <1>4

LEMMA DataHandled ==
    ASSUME TypeOK, UpdatedFrameLives, HandlePosted
    PROVE  UpdatedFrameLives'
<1>1. posted # <<>> /\ posted' = Tail(posted) /\ gui = "idle"
    BY DEF HandlePosted, GiveSnapshot, HandleStop, HandleUntoggle, UpdateData, DestroyFrame, Handle
<1>2. /\ 1 \in DOMAIN posted /\ Head(posted) = posted[1]
      /\ \A i \in DOMAIN posted' : /\ i \in Nat /\ i >= 1
                                   /\ i + 1 \in DOMAIN posted /\ posted'[i] = posted[i + 1]
    BY <1>1, PositionsAfterHandling
<1>3. posted \in Seq(Posted) /\ DOMAIN posted = 1..Len(posted) /\ Len(posted) \in Nat
    BY LenProperties DEF TypeOK
<1>4. /\ posted' \in Seq(Posted) /\ DOMAIN posted' = 1..Len(posted')
      /\ Len(posted') = Len(posted) - 1
    BY <1>1, <1>3, HeadTailProperties, LenProperties
<1> SUFFICES ASSUME NEW i \in DOMAIN posted', posted'[i].what = "data", posted'[i].listed
             PROVE  FindsFrame(i)'
    BY DEF UpdatedFrameLives
<1> DEFINE f == posted'[i].frame
<1>5. /\ object[f] = "live"
      /\ \A j \in 1..i : posted[j].what = "destroy" => posted[j].frame # f
    <2>1. /\ posted[i + 1].what = "data" /\ posted[i + 1].listed
          /\ posted[i + 1].frame = f /\ i + 1 \in DOMAIN posted
        BY <1>2
    <2>2. 1..((i + 1) - 1) = 1..i
        BY <1>2
    <2> QED
        BY <1>1, <2>1, <2>2 DEF UpdatedFrameLives, FindsFrame
<1>6. ASSUME NEW j \in 1..(i - 1), posted'[j].what = "destroy" PROVE posted'[j].frame # f
    <2>1. j \in DOMAIN posted' /\ j + 1 \in 1..i
        BY <1>2, <1>3, <1>4
    <2>2. posted'[j] = posted[j + 1]
        BY <1>2, <2>1
    <2> QED
        BY <1>5, <1>6, <2>1, <2>2
<1>7. object'[f] = "live"
    <2>1. CASE DestroyFrame
        <3>1. /\ object' = [object EXCEPT ![Head(posted).frame] = "destroyed"]
              /\ posted[1].what = "destroy"
            BY <1>2, <2>1 DEF DestroyFrame, Handle
        <3>2. 1 \in 1..i
            BY <1>2
        <3>3. Head(posted).frame # f
            BY <1>2, <1>5, <3>1, <3>2
        <3> HIDE DEF f
        <3> QED
            BY <1>5, <3>1, <3>3 DEF TypeOK
    <2>2. CASE GiveSnapshot \/ HandleStop \/ HandleUntoggle \/ UpdateData
        <3>1. UNCHANGED object
            BY <2>2 DEF GiveSnapshot, HandleStop, HandleUntoggle, UpdateData, listVars
        <3> QED
            BY <1>5, <3>1
    <2> QED
        BY <2>1, <2>2 DEF HandlePosted
<1> QED
    BY <1>6, <1>7 DEF FindsFrame

LEMMA DataUserStep ==
    ASSUME TypeOK, ListedFramesLive, UpdatedFrameLives, UserStep
    PROVE  UpdatedFrameLives'
<1> HIDE DEF NoFrame
<1> USE DEF Click, flagVars, threadVars, listVars
<1>1. ASSUME NEW f \in Frame,
             RemoveFrame(f) \/ SendOnce(f) \/ \E g \in Frame : SaveEdit(f, g)
      PROVE  UpdatedFrameLives'
    <2>1. /\ gui # "closed"
          /\ object' = object \/ \E g \in Frame : object' = [object EXCEPT ![g] = "live"]
          /\ \/ posted' = posted
             \/ posted' = Append(posted, Post("destroy", f))
             \/ posted' = Append(posted, Post("data", f))
        BY <1>1 DEF RemoveFrame, SendOnce, SaveEdit
    <2>2. \A g : object[g] = "live" => object'[g] = "live"
        BY <2>1, CreatedLive
    <2> QED
        BY <2>1, <2>2, DataKept, DataPosted
<1>2. CASE \/ \E f \in Frame : AddFrame(f) \/ OpenEdit(f) \/ CancelEdit(f)
           \/ RepeatToggle \/ SendToggleOn \/ SendToggleOff \/ CloseWindow
    <2>1. /\ posted' = posted /\ gui # "closed"
          /\ object' = object \/ \E g \in Frame : object' = [object EXCEPT ![g] = "live"]
        BY <1>2 DEF AddFrame, OpenEdit, CancelEdit, RepeatToggle, SendToggleOn, SendToggleOff,
                    CloseWindow
    <2>2. \A g : object[g] = "live" => object'[g] = "live"
        BY <2>1, CreatedLive
    <2> QED
        BY <2>1, <2>2, DataKept
<1>3. CASE ClearFrames
    <2>1. UNCHANGED <<object, gui>>
        BY <1>3 DEF ClearFrames
    <2>2. /\ \A i \in DOMAIN posted : posted'[i] = posted[i]
          /\ \A i \in DOMAIN posted' :
                 \/ i \in DOMAIN posted /\ posted'[i] = posted[i]
                 \/ posted'[i].what = "destroy"
        BY <1>3, PositionsAfterClear DEF ClearFrames
    <2>3. ASSUME gui # "closed", NEW i \in DOMAIN posted',
                 posted'[i].what = "data", posted'[i].listed
          PROVE  FindsFrame(i)'
        BY <2>1, <2>2, <2>3, KeepsFinding DEF UpdatedFrameLives
    <2> QED
        BY <2>1, <2>3 DEF UpdatedFrameLives
<1>4. CASE JoinReturns
    <2>1. posted' = Append(posted, Post("untoggle", NoFrame))
        BY <1>4 DEF JoinReturns
    <2>2. CASE gui = "joining"
        <3>1. object' = object /\ gui # "closed"
            BY <1>4, <2>2 DEF JoinReturns
        <3> QED
            BY <2>1, <3>1, DataPosted
    <2>3. CASE gui = "closing"
        BY <1>4, <2>3 DEF JoinReturns, UpdatedFrameLives
    <2> QED
        BY <1>4, <2>2, <2>3 DEF JoinReturns
<1> QED
    BY <1>1, <1>2, <1>3, <1>4, Zenon DEF UserStep

LEMMA DataThreadStep ==
    ASSUME TypeOK, ListedFramesLive, UpdatedFrameLives, SendThreadStep
    PROVE  UpdatedFrameLives'
<1> HIDE DEF NoFrame
<1>1. UNCHANGED <<object, gui>>
    BY DEF SendThreadStep, RunSendThread, SendLoop, InitializeFails, AskForFrames, FramesArrive,
           NextFrame, FrameSent, PassEnds, PostStop, listVars
<1>2. \/ posted' = posted
      \/ posted' = Append(posted, Post("stop", NoFrame))
      \/ posted' = Append(posted, Post("snapshot", NoFrame))
      \/ frames[index] \in Answering /\ posted' = Append(posted, Post("data", frames[index]))
    BY Zenon DEF SendThreadStep, RunSendThread, SendLoop, InitializeFails, AskForFrames,
                 FramesArrive, NextFrame, FrameSent, PassEnds, PostStop
<1>3. CASE posted' = posted
    BY <1>1, <1>3, DataKept
<1>4. CASE posted' # posted
    BY <1>1, <1>2, <1>4, FrameAssumption, DataPosted
<1> QED
    BY <1>3, <1>4

LEMMA DataStep ==
    ASSUME IInv, UpdatedFrameLives, [Next]_vars
    PROVE  UpdatedFrameLives'
<1>1. CASE UserStep
    BY <1>1, DataUserStep DEF IInv
<1>2. CASE HandlePosted
    BY <1>2, DataHandled DEF IInv
<1>3. CASE SendThreadStep
    BY <1>3, DataThreadStep DEF IInv
<1>4. CASE UNCHANGED vars
    BY <1>4, DataKept DEF IInv, vars, listVars
<1> QED
    BY <1>1, <1>2, <1>3, <1>4, Zenon DEF Next, UserStep

(***************************************************************************)
(* updateData for a frame that was in the list when the function was       *)
(* posted writes to a frame that exists, for any list and clicks: Remove,  *)
(* Save and Clear All take the frame out of the list and post its          *)
(* destruction in the same handler, so the destruction comes behind.       *)
(***************************************************************************)
THEOREM LiveFramesUpdated == Spec => []UpdatedFrameLives
<1>1. Init => UpdatedFrameLives
    <2>1. DOMAIN <<>> = {}
        BY EmptySeq, LenProperties
    <2> QED
        BY <2>1 DEF Init, UpdatedFrameLives
<1>2. IInv /\ UpdatedFrameLives /\ [Next]_vars => UpdatedFrameLives'
    BY DataStep
<1> QED
    BY <1>1, <1>2, PanelInvariant, PTL DEF Spec
=============================================================================
