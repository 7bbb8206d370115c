------------------------- MODULE BusControllerPanel -------------------------
(***************************************************************************)
(* BusControllerPanel and its frames: the list of frames to inject, the    *)
(* edit windows, and the send thread.                                      *)
(*                                                                         *)
(* The GUI thread runs one handler at a time: of a click, or of a function *)
(* posted with wxTheApp->CallAfter, in posting order.  The send thread     *)
(* keeps raw pointers to the frames and gets the list by posting a         *)
(* function and waiting for its promise; it posts its own stop when it     *)
(* ends.                                                                   *)
(*                                                                         *)
(* A click may come before the functions that were posted earlier: the GTK *)
(* event loop handles one that waited while the GUI thread was busy first. *)
(***************************************************************************)
EXTENDS Integers, Sequences, SequencesExt

CONSTANTS
    Frame,          \* frames (FrameComponent objects) that may be created
    DefaultFrames,  \* those in the list when the panel opens
    Answering,      \* RT -> BC and RT -> RT frames: sending one posts its data
    MaxClicks,      \* bound on what the user does
    ManualStop      \* the user may press the send toggle again to stop

ASSUME FrameAssumption == DefaultFrames \in Seq(Frame) /\ Answering \subseteq Frame
ASSUME DefaultsDistinct == IsInjective(DefaultFrames)
ASSUME ClicksAssumption == MaxClicks \in Nat
ASSUME UserAssumption == ManualStop \in BOOLEAN

VARIABLES
    frameComponents,    \* m_frameComponents
    object,             \* each frame object: none, live, destroyed
    editing,            \* how many edit windows are open on each frame
    dropped,            \* frames removed or replaced since the pass of the send
                        \* thread began
    posted,             \* functions posted with CallAfter
    isSending,          \* m_isSending
    isRepeatOn,         \* m_isRepeatOn, and the Repeat toggle
    sendToggle,         \* value of the Send Active Frames toggle
    gui,                \* idle, joining the send thread, closing, closed
    sendThread,         \* where m_sendThread is: none when not joinable
    promise,            \* the promise of the last snapshot has its value
    frames,             \* the send thread's snapshot of the list
    index,              \* its position in it
    session,            \* how often the send thread was started
    clicks

listVars == <<frameComponents, object, editing, dropped>>
flagVars == <<isSending, isRepeatOn, sendToggle>>
threadVars == <<sendThread, promise, frames, index>>
vars == <<listVars, posted, flagVars, gui, threadVars, session, clicks>>

NoFrame == "no frame"

\* A posted function: what it does, on which frame, from which session; and
\* for data whether the frame was in the list when it was posted.
Posted == [what : {"snapshot", "stop", "untoggle", "data", "destroy"},
           frame : Frame \cup {NoFrame}, session : Nat, listed : BOOLEAN]

Post(what, f) ==
    [what |-> what, frame |-> f, session |-> session,
     listed |-> what = "data" /\ f \in ToSet(frameComponents)]

TypeOK ==
    /\ frameComponents \in Seq(Frame)
    /\ object \in [Frame -> {"none", "live", "destroyed"}]
    /\ editing \in [Frame -> Nat] /\ dropped \subseteq Frame
    /\ posted \in Seq(Posted)
    /\ isSending \in BOOLEAN /\ isRepeatOn \in BOOLEAN /\ sendToggle \in BOOLEAN
    /\ gui \in {"idle", "joining", "closing", "closed"}
    /\ sendThread \in {"none", "loop", "ask", "await", "frame", "sending", "pass", "last", "exited"}
    /\ promise \in BOOLEAN
    /\ frames \in Seq(Frame)
    /\ index \in Nat
    /\ session \in Nat /\ clicks \in Nat

Init ==
    /\ frameComponents = DefaultFrames
    /\ object = [f \in Frame |-> IF f \in ToSet(DefaultFrames) THEN "live" ELSE "none"]
    /\ editing = [f \in Frame |-> 0] /\ dropped = {}
    /\ posted = <<>>
    /\ isSending = FALSE /\ isRepeatOn = FALSE /\ sendToggle = FALSE
    /\ gui = "idle"
    /\ sendThread = "none" /\ promise = FALSE /\ frames = <<>> /\ index = 1
    /\ session = 0 /\ clicks = 0

----------------------------------------------------------------------------
(* The GUI thread: clicks.                                                 *)

Click ==
    /\ gui = "idle"
    /\ clicks < MaxClicks /\ clicks' = clicks + 1

\* Wrong variant: the frame stays in the list.
KeepAll(f) == frameComponents

\* removeFrame(f): out of the list at once, destroyed by a posted function.
\* f need not be in the list any more; it is there at most once, as
\* ListedFramesLive says, so that removing all of it is removing one.
Without(f) ==
    IF \E i \in DOMAIN frameComponents : frameComponents[i] = f
    THEN RemoveAt(frameComponents,
                  CHOOSE i \in DOMAIN frameComponents : frameComponents[i] = f)
    ELSE frameComponents

\* addFrameToList: the create window was saved.
AddFrame(f) ==
    /\ Click
    /\ object[f] = "none"
    /\ object' = [object EXCEPT ![f] = "live"]
    /\ frameComponents' = Append(frameComponents, f)
    /\ UNCHANGED <<editing, dropped, posted, flagVars, gui, threadVars, session>>

\* Wrong variant: the frame is destroyed by the click itself.
RemoveNow(f) ==
    /\ Click
    /\ object[f] = "live"
    /\ frameComponents' = Without(f) /\ dropped' = dropped \cup {f}
    /\ object' = [object EXCEPT ![f] = "destroyed"]
    /\ UNCHANGED <<editing, posted, flagVars, gui, threadVars, session>>

\* The Remove button of a frame that is still on the screen.
RemoveFrame(f) ==
    /\ Click
    /\ object[f] = "live"
    /\ frameComponents' = Without(f) /\ dropped' = dropped \cup {f}
    /\ posted' = Append(posted, Post("destroy", f))
    /\ UNCHANGED <<object, editing, flagVars, gui, threadVars, session>>

\* The Edit button opens one more window with a pointer to the frame.
OpenEdit(f) ==
    /\ Click
    /\ object[f] = "live"
    /\ editing' = [editing EXCEPT ![f] = @ + 1]
    /\ UNCHANGED <<frameComponents, object, dropped, posted, flagVars, gui, threadVars, session>>

CancelEdit(f) ==
    /\ Click
    /\ editing[f] > 0
    /\ editing' = [editing EXCEPT ![f] = @ - 1]
    /\ UNCHANGED <<frameComponents, object, dropped, posted, flagVars, gui, threadVars, session>>

\* onSave in that window: updateFrame replaces the frame by a new one, g.
SaveEdit(f, g) ==
    /\ Click
    /\ editing[f] > 0 /\ object[g] = "none"
    /\ frameComponents' = Append(Without(f), g) /\ dropped' = dropped \cup {f}
    /\ object' = [object EXCEPT ![g] = "live"]
    /\ posted' = Append(posted, Post("destroy", f))
    /\ editing' = [editing EXCEPT ![f] = @ - 1]
    /\ UNCHANGED <<flagVars, gui, threadVars, session>>

\* Clear All; while sending it only shows a warning.
ClearFrames ==
    /\ Click
    /\ ~isSending
    /\ frameComponents' = <<>>
    /\ posted' = posted \o [i \in DOMAIN frameComponents |-> Post("destroy", frameComponents[i])]
    /\ UNCHANGED <<object, editing, dropped, flagVars, gui, threadVars, session>>

RepeatToggle ==
    /\ Click
    /\ isRepeatOn' = ~isRepeatOn
    /\ UNCHANGED <<listVars, posted, isSending, sendToggle, gui, threadVars, session>>

\* Send Active Frames pressed: start the send thread unless m_isSending.
SendToggleOn ==
    /\ Click
    /\ ~sendToggle
    /\ sendToggle' = TRUE
    /\ IF isSending
       THEN UNCHANGED <<isSending, sendThread, session>>
       ELSE isSending' = TRUE /\ sendThread' = "loop" /\ session' = session + 1
    /\ UNCHANGED <<listVars, posted, isRepeatOn, gui, promise, frames, index>>

\* stopSendingThread: clear m_isSending and join.
StopSending == isSending' = FALSE /\ gui' = "joining"

SendToggleOff ==
    /\ ManualStop /\ Click
    /\ sendToggle
    /\ sendToggle' = FALSE
    /\ StopSending
    /\ UNCHANGED <<listVars, posted, isRepeatOn, threadVars, session>>

\* The Send Once button: sendFrame on the GUI thread.
SendOnce(f) ==
    /\ Click
    /\ object[f] = "live"
    /\ \/ UNCHANGED posted
       \/ f \in Answering /\ posted' = Append(posted, Post("data", f))
    /\ UNCHANGED <<listVars, flagVars, gui, threadVars, session>>

\* Wrong variant: the send thread is not joined.
NoJoin ==
    /\ gui = "joining"
    /\ posted' = Append(posted, Post("untoggle", NoFrame))
    /\ gui' = "idle"
    /\ UNCHANGED <<listVars, flagVars, threadVars, session, clicks>>

\* The program's window is closed: deleting it, when nothing else is left to
\* do, runs ~BusControllerPanel, which calls stopSendingThread.
CloseWindow ==
    /\ gui = "idle" /\ posted = <<>>
    /\ ManualStop \/ ~isSending
    /\ isSending' = FALSE /\ gui' = "closing"
    /\ UNCHANGED <<listVars, posted, isRepeatOn, sendToggle, threadVars, session, clicks>>

\* The join returns; the toggle is reset by a posted function.  After the
\* destructor the frames and the edit windows are deleted.
JoinReturns ==
    /\ gui \in {"joining", "closing"}
    /\ sendThread \in {"none", "exited"}
    /\ sendThread' = "none"
    /\ posted' = Append(posted, Post("untoggle", NoFrame))
    /\ IF gui = "joining"
       THEN gui' = "idle" /\ UNCHANGED listVars
       ELSE /\ gui' = "closed"
            /\ frameComponents' = <<>>
            /\ object' = [f \in Frame |-> IF object[f] = "live" THEN "destroyed" ELSE object[f]]
            /\ editing' = [f \in Frame |-> 0] /\ UNCHANGED dropped
    /\ UNCHANGED <<flagVars, promise, frames, index, session, clicks>>

----------------------------------------------------------------------------
(* The GUI thread: posted functions.                                       *)

Handle(what) ==
    /\ gui = "idle"
    /\ posted # <<>> /\ Head(posted).what = what
    /\ posted' = Tail(posted)

\* The list as it is now, every frame of it, to the waiting send thread.
GiveSnapshot ==
    /\ Handle("snapshot")
    /\ frames' = frameComponents
    /\ promise' = TRUE
    /\ UNCHANGED <<listVars, flagVars, gui, sendThread, index, session, clicks>>

HandleStop ==
    /\ Handle("stop")
    /\ StopSending
    /\ UNCHANGED <<listVars, isRepeatOn, sendToggle, threadVars, session, clicks>>

HandleUntoggle ==
    /\ Handle("untoggle")
    /\ sendToggle' = FALSE
    /\ UNCHANGED <<listVars, isSending, isRepeatOn, gui, threadVars, session, clicks>>

\* The received words are written into the frame's configuration.
UpdateData ==
    /\ Handle("data")
    /\ UNCHANGED <<listVars, flagVars, gui, threadVars, session, clicks>>

DestroyFrame ==
    /\ Handle("destroy")
    /\ object' = [object EXCEPT ![Head(posted).frame] = "destroyed"]
    /\ UNCHANGED <<frameComponents, editing, dropped, flagVars, gui, threadVars, session, clicks>>

HandlePosted ==
    GiveSnapshot \/ HandleStop \/ HandleUntoggle \/ UpdateData \/ DestroyFrame

----------------------------------------------------------------------------
(* The send thread.                                                        *)

SendLoop ==
    /\ sendThread = "loop"
    /\ sendThread' = IF isSending THEN "ask" ELSE "last"
    /\ dropped' = {}
    /\ UNCHANGED <<frameComponents, object, editing, posted, flagVars, gui, promise, frames, index, session, clicks>>

\* The bus controller is not initialized and initialize() fails.
InitializeFails ==
    /\ sendThread = "ask"
    /\ posted' = Append(posted, Post("stop", NoFrame))
    /\ sendThread' = "last"
    /\ UNCHANGED <<listVars, flagVars, gui, promise, frames, index, session, clicks>>

AskForFrames ==
    /\ sendThread = "ask"
    /\ posted' = Append(posted, Post("snapshot", NoFrame))
    /\ promise' = FALSE
    /\ sendThread' = "await"
    /\ UNCHANGED <<listVars, flagVars, gui, frames, index, session, clicks>>

\* Wrong variant: no break after the stop for an empty list.
EmptyListLoops ==
    /\ sendThread = "await" /\ promise
    /\ IF frames = <<>>
       THEN /\ posted' = Append(posted, Post("stop", NoFrame))
            /\ sendThread' = "loop"
            /\ UNCHANGED index
       ELSE /\ index' = 1
            /\ sendThread' = "frame"
            /\ UNCHANGED posted
    /\ UNCHANGED <<listVars, flagVars, gui, promise, frames, session, clicks>>

\* future.get()
FramesArrive ==
    /\ sendThread = "await" /\ promise
    /\ IF frames = <<>>
       THEN /\ posted' = Append(posted, Post("stop", NoFrame))
            /\ sendThread' = "last"
            /\ UNCHANGED index
       ELSE /\ index' = 1
            /\ sendThread' = "frame"
            /\ UNCHANGED posted
    /\ UNCHANGED <<listVars, flagVars, gui, promise, frames, session, clicks>>

\* The next frame of the snapshot, if any is left and sending is still on:
\* skipped when it is not active, else sent.
NextFrame ==
    /\ sendThread = "frame"
    /\ IF index > Len(frames) \/ ~isSending
       THEN sendThread' = "pass" /\ UNCHANGED index
       ELSE \/ index' = index + 1 /\ UNCHANGED sendThread
            \/ sendThread' = "sending" /\ UNCHANGED index
    /\ UNCHANGED <<listVars, posted, flagVars, gui, promise, frames, session, clicks>>

\* sendFrame returns, having posted the received data if there is any.
FrameSent ==
    /\ sendThread = "sending"
    /\ \/ UNCHANGED posted
       \/ frames[index] \in Answering /\ posted' = Append(posted, Post("data", frames[index]))
    /\ index' = index + 1
    /\ sendThread' = "frame"
    /\ UNCHANGED <<listVars, flagVars, gui, promise, frames, session, clicks>>

\* Wrong variant: the list is fetched once, before the first pass.
KeepsSnapshot ==
    /\ sendThread = "pass"
    /\ sendThread' = IF isSending /\ isRepeatOn THEN "frame" ELSE "last"
    /\ index' = 1 /\ dropped' = {}
    /\ UNCHANGED <<frameComponents, object, editing, posted, flagVars, gui, promise, frames,
                   session, clicks>>

PassEnds ==
    /\ sendThread = "pass"
    /\ sendThread' = IF isSending /\ isRepeatOn THEN "loop" ELSE "last"
    /\ UNCHANGED <<listVars, posted, flagVars, gui, promise, frames, index, session, clicks>>

\* Wrong variant: the thread just ends.
EndQuietly ==
    /\ sendThread = "last"
    /\ sendThread' = "exited"
    /\ UNCHANGED <<listVars, posted, flagVars, gui, promise, frames, index, session, clicks>>

\* After the loop the thread posts a stop, whoever ended the loop.
PostStop ==
    /\ sendThread = "last"
    /\ posted' = Append(posted, Post("stop", NoFrame))
    /\ sendThread' = "exited"
    /\ UNCHANGED <<listVars, flagVars, gui, promise, frames, index, session, clicks>>

\* What the send thread does without waiting for the bus controller.
RunSendThread ==
    \/ SendLoop \/ InitializeFails \/ AskForFrames \/ FramesArrive
    \/ NextFrame \/ PassEnds \/ PostStop

SendThreadStep == RunSendThread \/ FrameSent

Next ==
    \/ \E f \in Frame : AddFrame(f) \/ RemoveFrame(f) \/ SendOnce(f)
    \/ \E f \in Frame : OpenEdit(f) \/ CancelEdit(f)
    \/ \E f, g \in Frame : SaveEdit(f, g)
    \/ ClearFrames \/ RepeatToggle \/ SendToggleOn \/ SendToggleOff
    \/ CloseWindow \/ JoinReturns \/ HandlePosted
    \/ SendThreadStep

Spec == Init /\ [][Next]_vars

(***************************************************************************)
(* The event loop handles what was posted when it is not in a handler, the *)
(* send thread runs, and a join returns when the thread has ended.  The    *)
(* user need not do anything, and sendFrame need not return: a simulator   *)
(* that does not read may block it in write().                             *)
(***************************************************************************)
FairSpec ==
    Spec /\ WF_vars(JoinReturns) /\ WF_vars(HandlePosted) /\ WF_vars(RunSendThread)
----------------------------------------------------------------------------
(* Properties.                                                             *)

(***************************************************************************)
(* Whenever a new send thread may be started the old one has been joined:  *)
(* m_sendThread is never assigned, nor the panel deleted, while joinable.  *)
(***************************************************************************)
ThreadJoined == gui \in {"idle", "closed"} /\ ~isSending => sendThread = "none"

Destroying(f) == \E i \in DOMAIN posted : posted[i].what = "destroy" /\ posted[i].frame = f

(***************************************************************************)
(* m_frameComponents holds each frame once, and only frames that exist and *)
(* are not about to be destroyed, so a snapshot never starts out stale.    *)
(***************************************************************************)
ListedFramesLive ==
    /\ IsInjective(frameComponents)
    /\ \A i \in DOMAIN frameComponents :
           object[frameComponents[i]] = "live" /\ ~Destroying(frameComponents[i])

\* The frame the send thread calls isActive() or sendFrame() on.
InUse ==
    IF sendThread = "sending" \/ (sendThread = "frame" /\ isSending /\ index <= Len(frames))
    THEN {frames[index]} ELSE {}

(***************************************************************************)
(* The send thread uses a frame only while it exists and is not about to   *)
(* be destroyed, except the frames the user removed, or replaced by saving *)
(* an edit, since this pass over the list began: nothing keeps the thread  *)
(* from those.  Clear All, a new session and the next pass are safe.       *)
(***************************************************************************)
SentFrameLives ==
    \A f \in InUse : f \notin dropped => object[f] = "live" /\ ~Destroying(f)

\* The posted function i finds the object of its frame.
FindsFrame(i) ==
    /\ object[posted[i].frame] = "live"
    /\ \A j \in 1..(i - 1) :
           posted[j].what = "destroy" => posted[j].frame # posted[i].frame

(***************************************************************************)
(* Received data that is posted while its frame is in the list is written  *)
(* into a frame that exists, whatever the user clicks before it is run:    *)
(* any function that destroys the frame comes later in the queue.          *)
(***************************************************************************)
UpdatedFrameLives ==
    gui # "closed" =>
        \A i \in DOMAIN posted :
            posted[i].what = "data" /\ posted[i].listed => FindsFrame(i)

(***************************************************************************)
(* The stop a send thread posts ends no later session.  Nothing in the     *)
(* code sees to it: a user quick enough to send again is hit by it.        *)
(***************************************************************************)
StopsOwnSession ==
    gui = "idle" /\ isSending /\ posted # <<>> /\ Head(posted).what = "stop"
        => Head(posted).session = session

\* The bus controller lets sendFrame return (its SendsReturn), and no stop
\* hits a later session.
SessionsUndisturbed == []<>(sendThread # "sending") /\ []StopsOwnSession

(***************************************************************************)
(* Stopping, and closing the program, ends: the GUI thread gets out of its *)
(* join.  With ManualStop it does not, see panel_hang.cfg.                 *)
(***************************************************************************)
StopReturns ==
    SessionsUndisturbed =>
        (gui \in {"joining", "closing"} ~> gui \in {"idle", "closed"})

(***************************************************************************)
(* With Repeat off sending ends by itself and the toggle is released.      *)
(***************************************************************************)
SendingEnds ==
    SessionsUndisturbed /\ <>[]~isRepeatOn =>
        []<>(~isSending /\ (sendToggle => gui = "closed"))

----------------------------------------------------------------------------
(* What one might expect of the panel and the code does not do.            *)

(***************************************************************************)
(* The send thread uses a frame only while it exists.  Remove and Save do  *)
(* not look at m_isSending.                                                *)
(***************************************************************************)
SendsLiveFrames == \A f \in InUse : object[f] = "live"

(***************************************************************************)
(* Received data is written only into a frame that exists.  The answer to  *)
(* a frame that was removed while it was sent comes behind its destruction.*)
(***************************************************************************)
DataForLiveFrames ==
    \A i \in DOMAIN posted : posted[i].what = "data" => FindsFrame(i)

(***************************************************************************)
(* A frame is destroyed once.  A second click on Remove, or Save in its    *)
(* edit window, posts its destruction again.                               *)
(***************************************************************************)
DestroyedOnce ==
    \A i \in DOMAIN posted :
        posted[i].what = "destroy" => FindsFrame(i)

(***************************************************************************)
(* The GUI thread does not write a frame's data while the send thread is   *)
(* building a packet from it.                                              *)
(***************************************************************************)
NoDataRace ==
    gui = "idle" /\ posted # <<>> /\ Head(posted).what = "data" /\ sendThread = "sending"
        => Head(posted).frame # frames[index]
============================================================================
