----------------------------- MODULE FrameEditor -----------------------------
(***************************************************************************)
(* The create and edit windows (FrameCreationFrame) and the frames they    *)
(* make (FrameComponent).                                                  *)
(*                                                                         *)
(* A window copies the configuration of its frame into its controls when   *)
(* it opens, and makes a new frame of them when it is saved.  It is not    *)
(* modal: meanwhile the frame may receive data, be switched off, be        *)
(* removed, or be edited in a second window.                               *)
(*                                                                         *)
(* Every operation runs on the GUI thread.  That saving in the window of a *)
(* removed frame uses a dead object is BusControllerPanel's subject; here  *)
(* it has the effect it has on the list.                                   *)
(***************************************************************************)
EXTENDS Integers, Sequences, SequencesExt

CONSTANTS
    Frame,          \* frames that may be created
    Window,         \* windows that may be open at a time
    MaxWords,       \* data words of a frame
    Text,           \* contents of a data field
    Offers,         \* for each other control, what it offers
    Defaults,       \* configurations of the frames the panel starts with
    NewData,        \* data fields of a window that creates a frame
    MaxEvents       \* bound on what the user and the simulator do

Details == {"label", "bus", "rt", "sa", "rt2", "sa2"}
BcMode == {"BC_TO_RT", "RT_TO_BC", "RT_TO_RT", "MODE_CODE_NO_DATA", "MODE_CODE_WITH_DATA"}
Empty == ""
Untitled == "Untitled Frame"

Data == [1..MaxWords -> Text]
Config == [details : {d \in [Details -> UNION {Offers[k] : k \in Details}] :
                         \A k \in Details : d[k] \in Offers[k]},
           mode : BcMode, wc : 0..MaxWords, data : Data]

ASSUME WordsAssumption == MaxWords \in Nat \ {0}
ASSUME DefaultsAssumption ==
    /\ Defaults \in Seq(Config)
    /\ \A i \in DOMAIN Defaults : Defaults[i].details.label # Empty
ASSUME FramesAssumption == \E l \in [1..Len(Defaults) -> Frame] : IsInjective(l)
ASSUME NewDataAssumption == NewData \in Data
ASSUME EventsAssumption == MaxEvents \in Nat

VARIABLES
    list,           \* m_frameComponents
    config,         \* m_config of each frame
    grid,           \* the words its data grid shows
    active,         \* its Active toggle
    windows,        \* what is in each open window
    events

vars == <<list, config, grid, active, windows, events>>

NoFrame == "no frame"

ASSUME NoFrameAssumption == NoFrame \notin Frame

\* The function f with a mapped to x.
With(f, a, x) == [b \in DOMAIN f \cup {a} |-> IF b = a THEN x ELSE f[b]]

Frames == DOMAIN config
OpenWindows == DOMAIN windows

----------------------------------------------------------------------------
(* What the two components derive from a configuration.                    *)

IsMc(mode) == mode \in {"MODE_CODE_NO_DATA", "MODE_CODE_WITH_DATA"}
BcSendsData(mode) == mode \in {"BC_TO_RT", "RT_TO_RT", "MODE_CODE_WITH_DATA"}

\* FrameComponent: how many words the grid shows.
WordsToShow(c) ==
    CASE ~IsMc(c.mode)                    -> IF c.wc = 0 THEN MaxWords ELSE c.wc
      [] c.mode = "MODE_CODE_WITH_DATA"   -> 1
      [] c.mode = "MODE_CODE_NO_DATA"     -> 0

Grid(c) == SubSeq(c.data, 1, WordsToShow(c))

\* FrameCreationFrame: which controls are enabled.
EnabledBy(c, wc) ==
    [wc        |-> ~IsMc(c.mode),
     second    |-> c.mode = "RT_TO_RT",
     randomize |-> BcSendsData(c.mode),
     fields    |-> IF BcSendsData(c.mode) THEN {i \in 1..MaxWords : i <= wc} ELSE {}]

\* Wrong variant: a word count of 0 is no word.
EnabledByDigits(c) == EnabledBy(c, IF IsMc(c.mode) THEN 1 ELSE c.wc)

\* updateControlStates
Enabled(c) ==
    EnabledBy(c, IF IsMc(c.mode) THEN 1 ELSE IF c.wc = 0 THEN MaxWords ELSE c.wc)

NewConfig ==
    [details |-> [label |-> "New Frame", bus |-> "A", rt |-> "1", sa |-> "1",
                  rt2 |-> "0", sa2 |-> "0"],
     mode |-> "BC_TO_RT", wc |-> 1, data |-> NewData]

ASSUME OffersAssumption == NewConfig \in Config /\ Untitled \in Offers["label"]

\* A window, with what it was opened on and which controls were used since.
Opened(source, c) ==
    [source |-> source, controls |-> c, enabled |-> Enabled(c),
     opened |-> IF source = NoFrame THEN NewConfig ELSE config[source],
     used |-> {}, typed |-> {}]

TypeOK ==
    /\ list \in Seq(Frames) /\ Frames \subseteq Frame
    /\ \A f \in Frames : config[f] \in Config
    /\ grid \in [Frames -> Seq(Text)] /\ active \in [Frames -> BOOLEAN]
    /\ OpenWindows \subseteq Window
    /\ \A w \in OpenWindows :
           /\ windows[w].source \in Frames \cup {NoFrame}
           /\ windows[w].controls \in Config
           /\ windows[w].enabled.fields \subseteq 1..MaxWords
    /\ events \in 0..MaxEvents

\* addFrameToList, with the frame f made of configuration c.
NewFrame(f, c) ==
    /\ config' = With(config, f, c)
    /\ grid' = With(grid, f, Grid(c))
    /\ active' = With(active, f, TRUE)

Init ==
    /\ list = CHOOSE l \in [1..Len(Defaults) -> Frame] : IsInjective(l)
    /\ config = [f \in ToSet(list) |-> Defaults[CHOOSE i \in DOMAIN list : list[i] = f]]
    /\ grid = [f \in ToSet(list) |-> Grid(config[f])]
    /\ active = [f \in ToSet(list) |-> TRUE]
    /\ windows = <<>>
    /\ events = 0

Event == events < MaxEvents /\ events' = events + 1

----------------------------------------------------------------------------
(* The windows.                                                            *)

Open(w, source, c) ==
    /\ Event
    /\ w \notin OpenWindows
    /\ windows' = With(windows, w, Opened(source, c))
    /\ UNCHANGED <<list, config, grid, active>>

OpenNew(w) == Open(w, NoFrame, NewConfig)

\* Wrong variant: the second RT always starts at 0.
OpenWithoutRt2(w, f) ==
    f \in ToSet(list) /\ Open(w, f, [config[f] EXCEPT !.details.rt2 = "0"])

OpenEdit(w, f) == f \in ToSet(list) /\ Open(w, f, config[f])

Use(w, c, enabled, used, typed) ==
    /\ Event
    /\ windows' = [windows EXCEPT ![w].controls = c, ![w].enabled = enabled,
                       ![w].used = @ \cup used, ![w].typed = @ \cup typed]
    /\ UNCHANGED <<list, config, grid, active>>

\* The label, and the combo boxes that only hold a value.
Choose(w, d, v) ==
    LET win == windows[w] IN
    /\ v # win.controls.details[d]
    /\ d \in {"rt2", "sa2"} => win.enabled.second
    /\ Use(w, [win.controls EXCEPT !.details[d] = v], win.enabled, {d}, {})

\* The mode and the word count: both end in updateControlStates.
ChangeMode(w, m) ==
    LET c == [windows[w].controls EXCEPT !.mode = m] IN
    Use(w, c, Enabled(c), {"mode"}, {})

ChangeWc(w, n) ==
    LET c == [windows[w].controls EXCEPT !.wc = n] IN
    windows[w].enabled.wc /\ Use(w, c, Enabled(c), {"wc"}, {})

TypeData(w, i, t) ==
    LET win == windows[w] IN
    /\ i \in win.enabled.fields /\ t # win.controls.data[i]
    /\ Use(w, [win.controls EXCEPT !.data[i] = t], win.enabled, {}, {i})

RandomizeFields(w, fields) ==
    LET win == windows[w] IN
    /\ win.enabled.randomize
    /\ \E t \in Text :
           Use(w, [win.controls EXCEPT !.data =
                      [i \in 1..MaxWords |-> IF i \in fields THEN t ELSE @[i]]],
               win.enabled, {}, fields)

\* Wrong variant: every field, enabled or not.
RandomizeAll(w) == RandomizeFields(w, 1..MaxWords)

\* onRandomize: the enabled fields.  One text stands for all the numbers.
Randomize(w) == RandomizeFields(w, windows[w].enabled.fields)

Close(w) == windows' = Restrict(windows, OpenWindows \ {w})

Titled(c) == IF c.details.label = Empty THEN [c EXCEPT !.details.label = Untitled] ELSE c

\* removeFrame: the list holds a frame at most once.
Without(f) ==
    IF \E i \in DOMAIN list : list[i] = f
    THEN RemoveAt(list, CHOOSE i \in DOMAIN list : list[i] = f)
    ELSE list

\* onSave: all controls, enabled or not.  updateFrame removes the frame that
\* was edited and adds the new one at the end.
Save(w, f) ==
    /\ Event
    /\ f \in Frame \ Frames
    /\ NewFrame(f, Titled(windows[w].controls))
    /\ list' = Append(Without(windows[w].source), f)
    /\ Close(w)

Cancel(w) ==
    /\ Event
    /\ Close(w)
    /\ UNCHANGED <<list, config, grid, active>>

----------------------------------------------------------------------------
(* The frames.                                                             *)

\* The function sendFrame posts: received words, then updateValues.
Receive(f, data) ==
    /\ Event
    /\ f \in ToSet(list) /\ config[f].mode \in {"RT_TO_BC", "RT_TO_RT"}
    /\ config' = [config EXCEPT ![f].data = data]
    /\ grid' = [grid EXCEPT ![f] = Grid(config'[f])]
    /\ UNCHANGED <<list, active, windows>>

Toggle(f) ==
    /\ Event
    /\ f \in ToSet(list)
    /\ active' = [active EXCEPT ![f] = ~@]
    /\ UNCHANGED <<list, config, grid, windows>>

RemoveFrame(f) ==
    /\ Event
    /\ f \in ToSet(list)
    /\ list' = Without(f)
    /\ UNCHANGED <<config, grid, active, windows>>

OpenWindow(w) ==
    \/ OpenNew(w)
    \/ \E f \in Frames : OpenEdit(w, f)

UseWindow(w) ==
    \/ \E d \in Details : \E v \in Offers[d] : Choose(w, d, v)
    \/ \E m \in BcMode : ChangeMode(w, m)
    \/ \E n \in 0..MaxWords : ChangeWc(w, n)
    \/ \E i \in 1..MaxWords : \E t \in Text : TypeData(w, i, t)
    \/ Randomize(w)
    \/ \E f \in Frame : Save(w, f)
    \/ Cancel(w)

FrameEvent(f) ==
    \/ \E data \in Data : Receive(f, data)
    \/ Toggle(f)
    \/ RemoveFrame(f)

Next ==
    \/ \E w \in Window : OpenWindow(w)
    \/ \E w \in OpenWindows : UseWindow(w)
    \/ \E f \in Frames : FrameEvent(f)

Spec == Init /\ [][Next]_vars

----------------------------------------------------------------------------
(* Properties.                                                             *)

(***************************************************************************)
(* After any sequence of changes, the data fields one can type into are    *)
(* those the frame's grid will show when saved, and none of them for a     *)
(* frame whose data the bus controller does not send.                      *)
(***************************************************************************)
FieldsFitGrid ==
    \A w \in OpenWindows :
        LET c == windows[w].controls IN
        windows[w].enabled.fields =
            IF c.mode \in {"RT_TO_BC", "MODE_CODE_NO_DATA"} THEN {} ELSE DOMAIN Grid(c)

(***************************************************************************)
(* Randomizing and typing leave alone the words that will not be sent.     *)
(***************************************************************************)
OnlySentWordsEdited ==
    [][\A w \in OpenWindows \cap OpenWindows' :
           LET c == windows[w].controls IN
           \A i \in 1..MaxWords :
               windows'[w].controls.data[i] # c.data[i] =>
                   c.mode # "RT_TO_BC" /\ i <= WordsToShow(c)]_vars

\* Window w is saved in this step.
Saved(w) == w \notin OpenWindows' /\ Frames' # Frames

(***************************************************************************)
(* Saving changes what was changed in the window and nothing else: whatever*)
(* control was not used, shown or hidden, keeps the value the frame had    *)
(* when the window was opened, across any detour through other modes.      *)
(***************************************************************************)
UnusedKept ==
    [][\A w \in OpenWindows : Saved(w) =>
           LET win == windows[w]
               old == win.opened
               new == config'[Last(list')]
           IN  /\ \A d \in Details \ win.used : new.details[d] = old.details[d]
               /\ "mode" \notin win.used => new.mode = old.mode
               /\ "wc" \notin win.used => new.wc = old.wc
               /\ \A i \in (1..MaxWords) \ win.typed : new.data[i] = old.data[i]]_vars

(***************************************************************************)
(* What a frame shows is what it has, also after data arrives.             *)
(***************************************************************************)
GridShowsData == \A f \in Frames : grid[f] = Grid(config[f])

----------------------------------------------------------------------------
(* What the code does not do.                                              *)

\* Window w is saved, and the frame it was opened on is still in the list.
Replaces(w) == Saved(w) /\ windows[w].source \in ToSet(list)

(***************************************************************************)
(* Saving keeps the words that were received while the window was open.    *)
(***************************************************************************)
ReceivedKept ==
    [][\A w \in OpenWindows : Replaces(w) =>
           \A i \in (1..MaxWords) \ windows[w].typed :
               config'[Last(list')].data[i] = config[windows[w].source].data[i]]_vars

(***************************************************************************)
(* Editing a frame that is switched off leaves it off.                     *)
(***************************************************************************)
ActiveKept ==
    [][\A w \in OpenWindows : Replaces(w) =>
           active'[Last(list')] = active[windows[w].source]]_vars

(***************************************************************************)
(* Editing a frame keeps its place in the order of sending.                *)
(***************************************************************************)
PlaceKept ==
    [][\A w \in OpenWindows : Replaces(w) =>
           list[Len(list')] = windows[w].source]_vars

(***************************************************************************)
(* Saving an edit never adds a frame.                                      *)
(***************************************************************************)
EditAddsNone ==
    [][\A w \in OpenWindows : Saved(w) /\ windows[w].source # NoFrame =>
           Len(list') = Len(list)]_vars
============================================================================
