-------------------------- MODULE FrameEditorProofs --------------------------
(***************************************************************************)
(* What the edit windows do to frames, for any frames, windows, fields and *)
(* any number of events.                                                   *)
(*                                                                         *)
(* That the fields fit the grid, and that only words that are sent are     *)
(* edited, needs the controls enabled in a window to be those of its mode  *)
(* and word count (EnabledFit): each handler that changes one of the two   *)
(* ends in updateControlStates.  That saving keeps what was not used needs *)
(* the same of the controls while the window is open (UnusedAgree).        *)
(***************************************************************************)
EXTENDS FrameEditor, FiniteSetTheorems, SequenceTheorems, TLAPS

EnabledSet == [wc : BOOLEAN, second : BOOLEAN, randomize : BOOLEAN,
               fields : SUBSET (1..MaxWords)]
WindowSet == [source : Frame \cup {NoFrame}, controls : Config, enabled : EnabledSet,
              opened : Config, used : SUBSET (Details \cup {"mode", "wc"}),
              typed : SUBSET (1..MaxWords)]

\* What holds of one window.
EnabledFit(win) == win.enabled = Enabled(win.controls)
UnusedAgree(win) ==
    /\ win.opened.details.label # Empty
    /\ \A d \in Details \ win.used : win.controls.details[d] = win.opened.details[d]
    /\ "mode" \notin win.used => win.controls.mode = win.opened.mode
    /\ "wc" \notin win.used => win.controls.wc = win.opened.wc
    /\ \A i \in (1..MaxWords) \ win.typed : win.controls.data[i] = win.opened.data[i]
Good(win) ==
    /\ win \in WindowSet /\ EnabledFit(win) /\ UnusedAgree(win)
    /\ win.source \in Frames \cup {NoFrame}

FramesGood ==
    /\ Frames \subseteq Frame
    /\ \A f \in Frames : config[f] \in Config /\ config[f].details.label # Empty
GridsGood == grid \in [Frames -> Seq(Text)] /\ active \in [Frames -> BOOLEAN]
WindowsGood == OpenWindows \subseteq Window /\ \A w \in OpenWindows : Good(windows[w])
ListGood == list \in Seq(Frames)
EventsGood == events \in 0..MaxEvents

EditorInv ==
    /\ FramesGood /\ GridsGood /\ GridShowsData /\ WindowsGood /\ ListGood /\ EventsGood

----------------------------------------------------------------------------
(* Configurations.                                                         *)

LEMMA ConfigFields ==
    ASSUME NEW c \in Config
    PROVE  /\ c.mode \in BcMode /\ c.wc \in 0..MaxWords /\ c.data \in Data
           /\ c.details \in [Details -> UNION {Offers[k] : k \in Details}]
           /\ \A k \in Details : c.details[k] \in Offers[k]
BY DEF Config

LEMMA ConfigMade ==
    ASSUME NEW d \in [Details -> UNION {Offers[k] : k \in Details}],
           \A k \in Details : d[k] \in Offers[k],
           NEW m \in BcMode, NEW n \in 0..MaxWords, NEW x \in Data
    PROVE  [details |-> d, mode |-> m, wc |-> n, data |-> x] \in Config
BY DEF Config

LEMMA ConfigShape ==
    ASSUME NEW c \in Config
    PROVE  c = [details |-> c.details, mode |-> c.mode, wc |-> c.wc, data |-> c.data]
BY DEF Config

(***************************************************************************)
(* How many words the grid shows.                                          *)
(***************************************************************************)
LEMMA WordsBounds ==
    ASSUME NEW c \in Config
    PROVE  WordsToShow(c) \in 0..MaxWords
BY ConfigFields, WordsAssumption DEF WordsToShow, BcMode, IsMc

LEMMA GridType ==
    ASSUME NEW c \in Config
    PROVE  Grid(c) \in Seq(Text) /\ DOMAIN Grid(c) = 1..WordsToShow(c)
<1> DEFINE n == WordsToShow(c)
<1>1. n \in 0..MaxWords /\ MaxWords \in Nat
    BY WordsBounds, WordsAssumption
<1>2. \A i \in 1..MaxWords : c.data[i] \in Text
    BY ConfigFields DEF Data
<1> HIDE DEF n
<1>3. \A i \in 1..n : c.data[i] \in Text
    BY <1>1, <1>2
<1>4. SubSeq(c.data, 1, n) = [i \in 1..n |-> c.data[i]]
    BY <1>1
<1>5. [i \in 1..n |-> c.data[i]] \in [1..n -> Text] /\ n \in Nat
    BY ONLY <1>1, <1>3
<1>6. SubSeq(c.data, 1, n) \in Seq(Text) /\ DOMAIN SubSeq(c.data, 1, n) = 1..n
    BY ONLY <1>4, <1>5, SeqDef
<1> QED
    BY <1>6 DEF Grid, n

(***************************************************************************)
(* The enabled fields are those of the words that are sent.                *)
(***************************************************************************)
LEMMA EnabledFields ==
    ASSUME NEW c \in Config
    PROVE  /\ Enabled(c) \in EnabledSet
           /\ Enabled(c).randomize => c.mode # "RT_TO_BC"
           /\ Enabled(c).fields =
                  IF c.mode \in {"RT_TO_BC", "MODE_CODE_NO_DATA"} THEN {}
                  ELSE 1..WordsToShow(c)
<1>1. c.mode \in BcMode /\ c.wc \in 0..MaxWords /\ MaxWords \in Nat \ {0}
    BY ConfigFields, WordsAssumption
<1> DEFINE wc == IF IsMc(c.mode) THEN 1 ELSE IF c.wc = 0 THEN MaxWords ELSE c.wc
<1>2. wc \in 1..MaxWords
    BY <1>1
<1>3. c.mode \in BcMode \ {"MODE_CODE_NO_DATA"} => WordsToShow(c) = wc
    BY <1>1 DEF WordsToShow, IsMc, BcMode
<1> HIDE DEF wc
<1>4. Enabled(c) = [wc |-> ~IsMc(c.mode), second |-> c.mode = "RT_TO_RT",
                    randomize |-> BcSendsData(c.mode),
                    fields |-> IF BcSendsData(c.mode)
                               THEN {i \in 1..MaxWords : i <= wc} ELSE {}]
    BY DEF Enabled, EnabledBy, wc
<1>5. {i \in 1..MaxWords : i <= wc} = 1..wc
    BY <1>1, <1>2
<1>6. BcSendsData(c.mode) <=> c.mode \notin {"RT_TO_BC", "MODE_CODE_NO_DATA"}
    BY <1>1 DEF BcSendsData, BcMode
<1>7. Enabled(c) \in EnabledSet
    BY <1>4 DEF EnabledSet, IsMc, BcSendsData
<1>8. Enabled(c).randomize => c.mode # "RT_TO_BC"
    BY <1>4, <1>6
<1>9. Enabled(c).fields = IF BcSendsData(c.mode) THEN 1..wc ELSE {}
    <2>1. Enabled(c).fields = IF BcSendsData(c.mode)
                              THEN {i \in 1..MaxWords : i <= wc} ELSE {}
        BY ONLY <1>4
    <2> QED BY ONLY <2>1, <1>5
<1>10. BcSendsData(c.mode) => WordsToShow(c) = wc
    BY <1>1, <1>3, <1>6
<1> QED
    BY <1>6, <1>7, <1>8, <1>9, <1>10

LEMMA EnabledDepends ==
    ASSUME NEW c, NEW d, c.mode = d.mode, c.wc = d.wc
    PROVE  Enabled(c) = Enabled(d)
BY DEF Enabled, EnabledBy

----------------------------------------------------------------------------
(* Sequences and functions.                                                *)

LEMMA RemoveAtProperties ==
    ASSUME NEW S, NEW s \in Seq(S), NEW p \in 1..Len(s)
    PROVE  /\ RemoveAt(s, p) \in Seq(S)
           /\ Len(RemoveAt(s, p)) = Len(s) - 1
           /\ \A i \in 1..(Len(s) - 1) :
                  RemoveAt(s, p)[i] = IF i < p THEN s[i] ELSE s[i + 1]
<1> DEFINE a == SubSeq(s, 1, p - 1)
           b == SubSeq(s, p + 1, Len(s))
<1>1. Len(s) \in Nat /\ \A i \in 1..Len(s) : s[i] \in S
    BY ElementOfSeq, LenProperties
<1>2. /\ a \in Seq(S) /\ Len(a) = p - 1
      /\ \A i \in 1..(p - 1) : a[i] = s[i]
    <2>1. \A i \in 1..(p - 1) : s[i] \in S
        BY <1>1
    <2>2. /\ a \in Seq(S)
          /\ Len(a) = IF 1 <= p - 1 THEN (p - 1) - 1 + 1 ELSE 0
          /\ \A i \in 1..((p - 1) - 1 + 1) : a[i] = s[1 + i - 1]
        BY <2>1, <1>1, SubSeqProperties
    <2> QED BY <2>2, <1>1
<1>3. /\ b \in Seq(S) /\ Len(b) = Len(s) - p
      /\ \A i \in 1..(Len(s) - p) : b[i] = s[p + i]
    <2>1. \A i \in (p + 1)..Len(s) : s[i] \in S
        BY <1>1
    <2>2. /\ b \in Seq(S)
          /\ Len(b) = IF p + 1 <= Len(s) THEN Len(s) - (p + 1) + 1 ELSE 0
          /\ \A i \in 1..(Len(s) - (p + 1) + 1) : b[i] = s[(p + 1) + i - 1]
        BY <2>1, <1>1, SubSeqProperties
    <2> QED BY <2>2, <1>1
<1> HIDE DEF a, b
<1>4. RemoveAt(s, p) = a \o b
    BY DEF RemoveAt, a, b
<1>5. /\ a \o b \in Seq(S) /\ Len(a \o b) = Len(a) + Len(b)
      /\ \A i \in 1..(Len(a) + Len(b)) :
             (a \o b)[i] = IF i <= Len(a) THEN a[i] ELSE b[i - Len(a)]
    BY <1>2, <1>3, ConcatProperties
<1> QED
    BY ONLY <1>1, <1>2, <1>3, <1>4, <1>5, LenProperties


LEMMA WithoutProperties ==
    ASSUME ListGood, NEW f
    PROVE  Without(f) \in Seq(Frames)
<1>1. CASE \E i \in DOMAIN list : list[i] = f
    <2>1. PICK p \in DOMAIN list : Without(f) = RemoveAt(list, p)
        BY <1>1 DEF Without
    <2>2. p \in 1..Len(list)
        BY <2>1, LenProperties DEF ListGood
    <2> QED BY <2>1, <2>2, RemoveAtProperties DEF ListGood
<1>2. CASE ~ \E i \in DOMAIN list : list[i] = f
    BY <1>2 DEF Without, ListGood
<1> QED
    BY <1>1, <1>2

LEMMA WithProperties ==
    ASSUME NEW g, NEW a, NEW x
    PROVE  /\ DOMAIN With(g, a, x) = DOMAIN g \cup {a}
           /\ With(g, a, x)[a] = x
           /\ \A b \in DOMAIN g \ {a} : With(g, a, x)[b] = g[b]
BY DEF With

----------------------------------------------------------------------------
(* The initial state.                                                      *)

LEMMA InitEditor == Init => EditorInv
<1> SUFFICES ASSUME Init PROVE EditorInv
    OBVIOUS
<1> DEFINE n == Len(Defaults)
<1>1. n \in Nat /\ DOMAIN Defaults = 1..n /\ \A i \in 1..n : Defaults[i] \in Config
    BY DefaultsAssumption, LenProperties, ElementOfSeq
<1>2. list \in [1..n -> Frame] /\ IsInjective(list)
    BY FramesAssumption DEF Init
<1> HIDE DEF n
<1>3. DOMAIN list = 1..n /\ ToSet(list) \subseteq Frame /\ \A i \in 1..n : list[i] \in ToSet(list)
    BY <1>2 DEF ToSet
<1>4. /\ config = [f \in ToSet(list) |-> Defaults[CHOOSE i \in DOMAIN list : list[i] = f]]
      /\ grid = [f \in ToSet(list) |-> Grid(config[f])]
      /\ active = [f \in ToSet(list) |-> TRUE]
      /\ windows = <<>> /\ events = 0
    BY DEF Init
<1>5. ASSUME NEW f \in ToSet(list)
      PROVE  config[f] \in Config /\ config[f].details.label # Empty
    <2>1. \E i \in DOMAIN list : list[i] = f
        BY DEF ToSet
    <2>2. PICK i \in DOMAIN list : config[f] = Defaults[i]
        BY <1>4, <2>1
    <2> QED BY <1>1, <1>3, <2>2, DefaultsAssumption
<1>6. Frames = ToSet(list)
    BY <1>4 DEF Frames
<1>7. FramesGood
    BY <1>3, <1>5, <1>6 DEF FramesGood
<1>8. GridsGood /\ GridShowsData
    BY <1>4, <1>5, <1>6, GridType DEF GridsGood, GridShowsData
<1>9. WindowsGood
    BY <1>4 DEF WindowsGood, OpenWindows
<1>10. ListGood
    <2>1. list \in [1..n -> Frames]
        BY <1>2, <1>3, <1>6
    <2> QED BY <1>1, <2>1, SeqDef DEF ListGood
<1>11. EventsGood
    BY <1>4, EventsAssumption DEF EventsGood
<1> QED
    BY <1>7, <1>8, <1>9, <1>10, <1>11 DEF EditorInv

----------------------------------------------------------------------------
(* The windows.                                                            *)

LEMMA OpenedGood ==
    ASSUME FramesGood, NEW source \in Frames \cup {NoFrame},
           NEW c, c = IF source = NoFrame THEN NewConfig ELSE config[source],
           NoFrame \notin Frame
    PROVE  Good(Opened(source, c))
<1>1. c \in Config /\ c.details.label # Empty
    <2>1. CASE source = NoFrame
        <3>1. c = NewConfig /\ NewConfig \in Config
            BY <2>1, OffersAssumption
        <3>2. NewConfig.details.label = "New Frame"
            BY DEF NewConfig
        <3> QED BY <3>1, <3>2 DEF Empty
    <2>2. CASE source # NoFrame
        BY <2>2 DEF FramesGood
    <2> QED BY <2>1, <2>2
<1>2. Opened(source, c) = [source |-> source, controls |-> c, enabled |-> Enabled(c),
                           opened |-> c, used |-> {}, typed |-> {}]
    BY DEF Opened
<1>3. Enabled(c) \in EnabledSet
    BY <1>1, EnabledFields
<1>4. Opened(source, c) \in WindowSet
    BY <1>1, <1>2, <1>3 DEF WindowSet, FramesGood
<1>5. EnabledFit(Opened(source, c)) /\ UnusedAgree(Opened(source, c))
    BY <1>1, <1>2 DEF EnabledFit, UnusedAgree
<1>6. Opened(source, c).source \in Frames \cup {NoFrame}
    BY <1>2
<1> QED
    BY <1>4, <1>5, <1>6 DEF Good

\* What a handler may change: the controls it marks as used.
Changes(a, b, used, typed) ==
    /\ \A d \in Details \ used : b.details[d] = a.details[d]
    /\ "mode" \notin used => b.mode = a.mode
    /\ "wc" \notin used => b.wc = a.wc
    /\ \A i \in (1..MaxWords) \ typed : b.data[i] = a.data[i]

Updated(win, c, used, typed) ==
    [win EXCEPT !.controls = c, !.enabled = Enabled(c), !.used = @ \cup used,
                !.typed = @ \cup typed]

LEMMA UsedGood ==
    ASSUME NEW win, Good(win), NEW c \in Config,
           NEW used \in SUBSET (Details \cup {"mode", "wc"}),
           NEW typed \in SUBSET (1..MaxWords),
           Changes(win.controls, c, used, typed)
    PROVE  Good(Updated(win, c, used, typed)) /\ Updated(win, c, used, typed).controls = c
<1>0. PICK new, en : new = Updated(win, c, used, typed) /\ en = Enabled(c)
    OBVIOUS
<1>1. win \in WindowSet
    BY DEF Good
<1>2. /\ new.source = win.source /\ new.controls = c /\ new.enabled = en
      /\ new.opened = win.opened /\ new.used = win.used \cup used
      /\ new.typed = win.typed \cup typed
    BY <1>0, <1>1 DEF WindowSet, Updated
<1>3. en \in EnabledSet
    BY <1>0, EnabledFields
<1>4. new \in WindowSet
    BY <1>0, <1>1, <1>3 DEF WindowSet, Updated
<1>5. EnabledFit(new)
    BY <1>0, <1>2 DEF EnabledFit
<1>6. UnusedAgree(new)
    BY <1>2 DEF Good, UnusedAgree, Changes
<1>7. Good(new) /\ new.controls = c
    BY <1>2, <1>4, <1>5, <1>6 DEF Good
<1> QED
    BY <1>0, <1>7

\* A handler of the controls of window w, and what it did.
UsesWindow(w, c, used, typed) ==
    /\ c \in Config
    /\ used \in SUBSET (Details \cup {"mode", "wc"}) /\ typed \in SUBSET (1..MaxWords)
    /\ Changes(windows[w].controls, c, used, typed)
    /\ Use(w, c, Enabled(c), used, typed)

SentFields(c) == IF c.mode \in {"RT_TO_BC", "MODE_CODE_NO_DATA"} THEN {} ELSE 1..WordsToShow(c)

(***************************************************************************)
(* Every handler of a control is of this kind, and types only into fields  *)
(* of words that are sent.                                                 *)
(***************************************************************************)
LEMMA ControlHandlers ==
    ASSUME WindowsGood, NEW w \in OpenWindows,
           \/ \E d \in Details : \E v \in Offers[d] : Choose(w, d, v)
           \/ \E m \in BcMode : ChangeMode(w, m)
           \/ \E n \in 0..MaxWords : ChangeWc(w, n)
           \/ \E i \in 1..MaxWords : \E t \in Text : TypeData(w, i, t)
           \/ Randomize(w)
    PROVE  \E c, used, typed :
               UsesWindow(w, c, used, typed) /\ typed \subseteq SentFields(windows[w].controls)
<1> DEFINE win == windows[w]
           old == win.controls
<1>1. Good(win) /\ win \in WindowSet /\ old \in Config /\ win.enabled = Enabled(old)
    BY DEF WindowsGood, Good, WindowSet, EnabledFit
<1>2. /\ old.mode \in BcMode /\ old.wc \in 0..MaxWords /\ old.data \in Data
      /\ old.details \in [Details -> UNION {Offers[k] : k \in Details}]
      /\ \A k \in Details : old.details[k] \in Offers[k]
      /\ old = [details |-> old.details, mode |-> old.mode, wc |-> old.wc, data |-> old.data]
    BY <1>1, ConfigFields, ConfigShape
<1>3. win.enabled.fields = SentFields(old)
    BY <1>1, EnabledFields DEF SentFields
<1>4. SentFields(old) \subseteq 1..MaxWords
    BY <1>1, WordsBounds, WordsAssumption DEF SentFields
<1> HIDE DEF old
<1>5. ASSUME NEW d \in Details, NEW v \in Offers[d], Choose(w, d, v)
      PROVE  UsesWindow(w, [old EXCEPT !.details[d] = v], {d}, {})
    <2> DEFINE e == [old.details EXCEPT ![d] = v]
               c == [old EXCEPT !.details[d] = v]
    <2>1. e \in [Details -> UNION {Offers[k] : k \in Details}]
        BY <1>2
    <2>2. \A k \in Details : e[k] \in Offers[k]
        BY <1>2
    <2>3. c = [details |-> e, mode |-> old.mode, wc |-> old.wc, data |-> old.data]
        BY <1>2
    <2>4. /\ c.details = e /\ c.mode = old.mode /\ c.wc = old.wc /\ c.data = old.data
        BY <2>3
    <2>5. c \in Config
        <3> HIDE DEF e, c
        <3> QED BY <1>2, <2>1, <2>2, <2>3, ConfigMade
    <2>6. Changes(old, c, {d}, {})
        BY <1>2, <2>4 DEF Changes
    <2>7. Enabled(c) = win.enabled
        BY <1>1, <2>4, EnabledDepends
    <2>8. Use(w, c, win.enabled, {d}, {})
        BY <1>5 DEF Choose, old
    <2> HIDE DEF e, c
    <2>9. Changes(windows[w].controls, c, {d}, {})
        BY <2>6 DEF old
    <2>10. UsesWindow(w, c, {d}, {})
        BY <2>5, <2>7, <2>8, <2>9 DEF UsesWindow
    <2> QED BY <2>10 DEF c
<1>6. ASSUME NEW m \in BcMode, ChangeMode(w, m)
      PROVE  UsesWindow(w, [old EXCEPT !.mode = m], {"mode"}, {})
    <2> DEFINE c == [old EXCEPT !.mode = m]
    <2>1. c = [details |-> old.details, mode |-> m, wc |-> old.wc, data |-> old.data]
        BY <1>2
    <2>2. c \in Config
        <3> HIDE DEF c
        <3> QED BY <1>2, <2>1, ConfigMade
    <2>3. Changes(old, c, {"mode"}, {})
        BY <2>1 DEF Changes
    <2>4. Use(w, c, Enabled(c), {"mode"}, {})
        BY <1>6 DEF ChangeMode, old
    <2> HIDE DEF c
    <2>5. Changes(windows[w].controls, c, {"mode"}, {})
        BY <2>3 DEF old
    <2>6. UsesWindow(w, c, {"mode"}, {})
        BY <2>2, <2>4, <2>5 DEF UsesWindow
    <2> QED BY <2>6 DEF c
<1>7. ASSUME NEW n \in 0..MaxWords, ChangeWc(w, n)
      PROVE  UsesWindow(w, [old EXCEPT !.wc = n], {"wc"}, {})
    <2> DEFINE c == [old EXCEPT !.wc = n]
    <2>1. c = [details |-> old.details, mode |-> old.mode, wc |-> n, data |-> old.data]
        BY <1>2
    <2>2. c \in Config
        <3> HIDE DEF c
        <3> QED BY <1>2, <2>1, ConfigMade
    <2>3. Changes(old, c, {"wc"}, {})
        BY <2>1 DEF Changes
    <2>4. Use(w, c, Enabled(c), {"wc"}, {})
        BY <1>7 DEF ChangeWc, old
    <2> HIDE DEF c
    <2>5. Changes(windows[w].controls, c, {"wc"}, {})
        BY <2>3 DEF old
    <2>6. UsesWindow(w, c, {"wc"}, {})
        BY <2>2, <2>4, <2>5 DEF UsesWindow
    <2> QED BY <2>6 DEF c
<1>8. ASSUME NEW x, NEW S, x \in Data, S \subseteq SentFields(old),
             \A i \in (1..MaxWords) \ S : x[i] = old.data[i],
             Use(w, [old EXCEPT !.data = x], win.enabled, {}, S)
      PROVE  UsesWindow(w, [old EXCEPT !.data = x], {}, S)
    <2> DEFINE c == [old EXCEPT !.data = x]
    <2>1. c = [details |-> old.details, mode |-> old.mode, wc |-> old.wc, data |-> x]
        BY <1>2
    <2>2. c \in Config
        <3> HIDE DEF c
        <3> QED BY <1>2, <1>8, <2>1, ConfigMade
    <2>3. Changes(old, c, {}, S)
        BY <1>8, <2>1 DEF Changes
    <2>4. Enabled(c) = win.enabled
        BY <1>1, <2>1, EnabledDepends
    <2> HIDE DEF c
    <2>5. Changes(windows[w].controls, c, {}, S)
        BY <2>3 DEF old
    <2>6. Use(w, c, Enabled(c), {}, S)
        BY <1>8, <2>4 DEF c
    <2>7. UsesWindow(w, c, {}, S)
        BY <1>4, <1>8, <2>2, <2>5, <2>6 DEF UsesWindow
    <2> QED BY <2>7 DEF c
<1>9. ASSUME NEW i \in 1..MaxWords, NEW t \in Text, TypeData(w, i, t)
      PROVE  UsesWindow(w, [old EXCEPT !.data = [old.data EXCEPT ![i] = t]], {}, {i})
    <2> DEFINE x == [old.data EXCEPT ![i] = t]
    <2>1. x \in Data /\ \A j \in (1..MaxWords) \ {i} : x[j] = old.data[j]
        BY <1>2 DEF Data
    <2>2. i \in win.enabled.fields /\ Use(w, [old EXCEPT !.data[i] = t], win.enabled, {}, {i})
        BY <1>9 DEF TypeData, old
    <2>3. [old EXCEPT !.data[i] = t] = [old EXCEPT !.data = x]
        BY <1>2
    <2>4. {i} \subseteq SentFields(old)
        BY <1>3, <2>2
    <2> HIDE DEF x
    <2>5. Use(w, [old EXCEPT !.data = x], win.enabled, {}, {i})
        BY <2>2, <2>3
    <2>6. UsesWindow(w, [old EXCEPT !.data = x], {}, {i})
        BY <1>8, <2>1, <2>4, <2>5
    <2> QED BY <2>6 DEF x
<1>10. ASSUME Randomize(w)
       PROVE  \E x : UsesWindow(w, [old EXCEPT !.data = x], {}, SentFields(old))
    <2>1. PICK t \in Text :
              Use(w, [old EXCEPT !.data = [i \in 1..MaxWords |->
                                              IF i \in win.enabled.fields THEN t ELSE @[i]]],
                  win.enabled, {}, win.enabled.fields)
        BY <1>10 DEF Randomize, RandomizeFields, old
    <2> DEFINE x == [i \in 1..MaxWords |-> IF i \in SentFields(old) THEN t ELSE old.data[i]]
    <2>2. x \in Data /\ \A j \in (1..MaxWords) \ SentFields(old) : x[j] = old.data[j]
        BY <1>2 DEF Data
    <2>3. Use(w, [old EXCEPT !.data = x], win.enabled, {}, SentFields(old))
        BY <1>3, <2>1
    <2> HIDE DEF x
    <2> QED BY <1>8, <2>2, <2>3
<1>11. {} \subseteq SentFields(old)
    OBVIOUS
<1>12. ASSUME NEW i \in 1..MaxWords, NEW t \in Text, TypeData(w, i, t)
       PROVE  {i} \subseteq SentFields(old)
    BY <1>3, <1>12 DEF TypeData
<1>13. ASSUME NEW c, NEW used, NEW typed,
              UsesWindow(w, c, used, typed), typed \subseteq SentFields(old)
       PROVE  \E b, u, t :
                  UsesWindow(w, b, u, t) /\ t \subseteq SentFields(windows[w].controls)
    BY <1>13 DEF old
<1>14. CASE \E d \in Details : \E v \in Offers[d] : Choose(w, d, v)
    <2>1. PICK d \in Details : \E v \in Offers[d] : Choose(w, d, v)
        BY <1>14
    <2>2. \E c : UsesWindow(w, c, {d}, {})
        BY <1>5, <2>1
    <2> QED BY ONLY <2>2, <1>11, <1>13
<1>15. CASE \E m \in BcMode : ChangeMode(w, m)
    <2>1. PICK m \in BcMode : ChangeMode(w, m)
        BY <1>15
    <2>2. \E c : UsesWindow(w, c, {"mode"}, {})
        BY <1>6, <2>1
    <2> QED BY ONLY <2>2, <1>11, <1>13
<1>16. CASE \E n \in 0..MaxWords : ChangeWc(w, n)
    <2>1. PICK n \in 0..MaxWords : ChangeWc(w, n)
        BY <1>16
    <2>2. \E c : UsesWindow(w, c, {"wc"}, {})
        BY <1>7, <2>1
    <2> QED BY ONLY <2>2, <1>11, <1>13
<1>17. CASE \E i \in 1..MaxWords : \E t \in Text : TypeData(w, i, t)
    <2>1. PICK i \in 1..MaxWords, t \in Text : TypeData(w, i, t)
        BY <1>17
    <2>2. \E c : UsesWindow(w, c, {}, {i})
        BY <1>9, <2>1
    <2> QED BY ONLY <2>2, <1>12, <1>13, <2>1
<1>18. CASE Randomize(w)
    BY <1>10, <1>13, <1>18
<1> QED
    BY <1>14, <1>15, <1>16, <1>17, <1>18

----------------------------------------------------------------------------
(* The steps.                                                              *)

\* What a step does to the windows, and to the rest.
LEMMA StepCases ==
    ASSUME FramesGood, WindowsGood, Next
    PROVE  \/ \E w \in Window, source \in Frames \cup {NoFrame} :
                  Open(w, source, IF source = NoFrame THEN NewConfig ELSE config[source])
           \/ \E w \in OpenWindows : \E c, used, typed :
                  /\ UsesWindow(w, c, used, typed)
                  /\ typed \subseteq SentFields(windows[w].controls)
           \/ \E w \in OpenWindows, f \in Frame : Save(w, f)
           \/ \E w \in OpenWindows : Cancel(w)
           \/ \E f \in Frames : FrameEvent(f)
<1>1. CASE \E w \in Window : OpenWindow(w)
    <2>1. PICK w \in Window : OpenWindow(w)
        BY <1>1
    <2>2. CASE OpenNew(w)
        <3>1. Open(w, NoFrame, NewConfig)
            BY <2>2 DEF OpenNew
        <3>2. NewConfig = IF NoFrame = NoFrame THEN NewConfig ELSE config[NoFrame]
            OBVIOUS
        <3> QED BY <3>1, <3>2
    <2>3. ASSUME NEW f \in Frames, OpenEdit(w, f)
          PROVE  \E source \in Frames \cup {NoFrame} :
                     Open(w, source, IF source = NoFrame THEN NewConfig ELSE config[source])
        <3>1. Open(w, f, config[f])
            BY <2>3 DEF OpenEdit
        <3>2. CASE f # NoFrame
            <4>1. config[f] = IF f = NoFrame THEN NewConfig ELSE config[f]
                BY <3>2
            <4> QED BY <3>1, <4>1
        <3> QED BY <3>2, NoFrameAssumption DEF FramesGood
    <2> QED BY <2>1, <2>2, <2>3 DEF OpenWindow
<1>2. CASE \E w \in OpenWindows : UseWindow(w)
    <2>1. PICK w \in OpenWindows : UseWindow(w)
        BY <1>2
    <2>2. \/ \E c, used, typed :
                 /\ UsesWindow(w, c, used, typed)
                 /\ typed \subseteq SentFields(windows[w].controls)
          \/ \E f \in Frame : Save(w, f)
          \/ Cancel(w)
        BY <2>1, ControlHandlers DEF UseWindow
    <2> QED BY <2>2
<1> QED
    BY <1>1, <1>2 DEF Next

LEMMA OpenStep ==
    ASSUME EditorInv, NEW w \in Window, NEW source \in Frames \cup {NoFrame},
           NEW c, c = IF source = NoFrame THEN NewConfig ELSE config[source],
           Open(w, source, c)
    PROVE  EditorInv'
<1>1. /\ w \notin OpenWindows /\ windows' = With(windows, w, Opened(source, c))
      /\ events' \in 0..MaxEvents
      /\ UNCHANGED <<list, config, grid, active>>
    BY EventsAssumption DEF Open, Event, EditorInv, EventsGood
<1>2. Good(Opened(source, c))
    BY OpenedGood, NoFrameAssumption DEF EditorInv
<1>3. /\ DOMAIN windows' = DOMAIN windows \cup {w} /\ windows'[w] = Opened(source, c)
      /\ \A v \in DOMAIN windows \ {w} : windows'[v] = windows[v]
    <2>1. windows' = [v \in DOMAIN windows \cup {w} |->
                         IF v = w THEN Opened(source, c) ELSE windows[v]]
        BY <1>1 DEF With
    <2> QED BY ONLY <2>1
<1>4. \A v \in DOMAIN windows' : Good(windows'[v])
    BY <1>1, <1>2, <1>3 DEF EditorInv, WindowsGood, OpenWindows
<1>5. WindowsGood'
    BY <1>1, <1>3, <1>4 DEF EditorInv, WindowsGood, OpenWindows, Good, Frames
<1>6. FramesGood' /\ GridsGood' /\ GridShowsData' /\ ListGood' /\ EventsGood'
    BY <1>1 DEF EditorInv, FramesGood, GridsGood, GridShowsData, ListGood, EventsGood, Frames
<1> QED
    BY <1>5, <1>6 DEF EditorInv

\* What the controls of window w become.
LEMMA UseEffect ==
    ASSUME WindowsGood, NEW w \in OpenWindows, NEW c, NEW used, NEW typed,
           UsesWindow(w, c, used, typed)
    PROVE  /\ DOMAIN windows' = DOMAIN windows
           /\ windows'[w].controls = c /\ Good(windows'[w])
           /\ \A v \in DOMAIN windows \ {w} : windows'[v] = windows[v]
           /\ UNCHANGED <<list, config, grid, active>>
<1>0. PICK new : new = Updated(windows[w], c, used, typed)
    OBVIOUS
<1>1. /\ c \in Config /\ used \in SUBSET (Details \cup {"mode", "wc"})
      /\ typed \in SUBSET (1..MaxWords) /\ Changes(windows[w].controls, c, used, typed)
      /\ Use(w, c, Enabled(c), used, typed) /\ Good(windows[w]) /\ w \in DOMAIN windows
    BY DEF UsesWindow, WindowsGood, OpenWindows
<1>2. Good(new) /\ new.controls = c
    BY <1>0, <1>1, UsedGood
<1>3. windows' = [windows EXCEPT ![w] = new] /\ UNCHANGED <<list, config, grid, active>>
    BY <1>0, <1>1 DEF Use, Updated
<1> QED
    BY <1>1, <1>2, <1>3

LEMMA UseStep ==
    ASSUME EditorInv, NEW w \in OpenWindows, NEW c, NEW used, NEW typed,
           UsesWindow(w, c, used, typed)
    PROVE  EditorInv'
<1>1. /\ DOMAIN windows' = DOMAIN windows
      /\ windows'[w].controls = c /\ Good(windows'[w])
      /\ \A v \in DOMAIN windows \ {w} : windows'[v] = windows[v]
      /\ UNCHANGED <<list, config, grid, active>>
    BY UseEffect DEF EditorInv
<1>2. events' \in 0..MaxEvents
    BY EventsAssumption DEF UsesWindow, Use, Event, EditorInv, EventsGood
<1>3. \A v \in DOMAIN windows' : Good(windows'[v])
    BY <1>1 DEF EditorInv, WindowsGood, OpenWindows
<1>4. WindowsGood'
    BY <1>1, <1>3 DEF EditorInv, WindowsGood, OpenWindows, Good, Frames
<1>5. FramesGood' /\ GridsGood' /\ GridShowsData' /\ ListGood' /\ EventsGood'
    BY <1>1, <1>2 DEF EditorInv, FramesGood, GridsGood, GridShowsData, ListGood, EventsGood,
                      Frames
<1> QED
    BY <1>4, <1>5 DEF EditorInv

LEMMA CloseEffect ==
    ASSUME NEW w, Close(w)
    PROVE  /\ DOMAIN windows' = DOMAIN windows \ {w}
           /\ \A v \in DOMAIN windows \ {w} : windows'[v] = windows[v]
BY DEF Close, Restrict, OpenWindows

LEMMA TitledProperties ==
    ASSUME NEW c \in Config
    PROVE  /\ Titled(c) \in Config /\ Titled(c).details.label # Empty
           /\ Titled(c).mode = c.mode /\ Titled(c).wc = c.wc /\ Titled(c).data = c.data
           /\ \A d \in Details :
                  d # "label" \/ c.details.label # Empty =>
                      Titled(c).details[d] = c.details[d]
<1>1. /\ c.mode \in BcMode /\ c.wc \in 0..MaxWords /\ c.data \in Data
      /\ c.details \in [Details -> UNION {Offers[k] : k \in Details}]
      /\ \A k \in Details : c.details[k] \in Offers[k]
      /\ c = [details |-> c.details, mode |-> c.mode, wc |-> c.wc, data |-> c.data]
    BY ConfigFields, ConfigShape
<1>2. CASE c.details.label # Empty
    BY <1>2 DEF Titled
<1>3. CASE c.details.label = Empty
    <2> DEFINE e == [c.details EXCEPT !["label"] = Untitled]
    <2>1. "label" \in Details /\ Untitled \in Offers["label"] /\ Untitled # Empty
        BY OffersAssumption DEF Details, Untitled, Empty
    <2>2. /\ e \in [Details -> UNION {Offers[k] : k \in Details}]
          /\ \A k \in Details : e[k] \in Offers[k]
          /\ e["label"] = Untitled
          /\ \A k \in Details \ {"label"} : e[k] = c.details[k]
        BY <1>1, <2>1
    <2>3. Titled(c) = [c EXCEPT !.details = e]
        BY <1>1, <1>3 DEF Titled
    <2>4. Titled(c) = [details |-> e, mode |-> c.mode, wc |-> c.wc, data |-> c.data]
        BY <1>1, <2>3
    <2> HIDE DEF e
    <2>5. Titled(c) \in Config
        BY <1>1, <2>2, <2>4, ConfigMade
    <2> QED BY <1>3, <2>1, <2>2, <2>4, <2>5
<1> QED
    BY <1>2, <1>3

LEMMA SaveEffect ==
    ASSUME EditorInv, NEW w \in OpenWindows, NEW f \in Frame, Save(w, f)
    PROVE  /\ f \notin Frames /\ Frames' = Frames \cup {f}
           /\ list' \in Seq(Frames') /\ Last(list') = f
           /\ config'[f] = Titled(windows[w].controls)
           /\ \A g \in Frames : config'[g] = config[g]
<1>1. /\ f \notin Frames /\ NewFrame(f, Titled(windows[w].controls))
      /\ list' = Append(Without(windows[w].source), f)
    BY DEF Save
<1>2. /\ DOMAIN config' = DOMAIN config \cup {f}
      /\ config'[f] = Titled(windows[w].controls)
      /\ \A g \in DOMAIN config \ {f} : config'[g] = config[g]
    <2>1. PICK c : c = Titled(windows[w].controls)
        OBVIOUS
    <2>2. config' = [g \in DOMAIN config \cup {f} |-> IF g = f THEN c ELSE config[g]]
        BY <1>1, <2>1 DEF NewFrame, With
    <2> QED BY ONLY <2>1, <2>2
<1>3. Frames' = Frames \cup {f}
    BY <1>2 DEF Frames
<1> DEFINE s == Without(windows[w].source)
<1>4. s \in Seq(Frames)
    BY WithoutProperties DEF EditorInv
<1> HIDE DEF s
<1>5. s \in Seq(Frames') /\ f \in Frames'
    <2>1. Frames \subseteq Frames'
        BY <1>3
    <2>2. s \in Seq(Frames')
        BY <1>4, <2>1, SeqMonotonic
    <2> QED BY <1>3, <2>2
<1>6. /\ Append(s, f) \in Seq(Frames') /\ Append(s, f)[Len(Append(s, f))] = f
    BY <1>5, AppendProperties, LenProperties
<1> QED
    BY <1>1, <1>2, <1>3, <1>6 DEF Last, s, Frames

LEMMA SaveStep ==
    ASSUME EditorInv, NEW w \in OpenWindows, NEW f \in Frame, Save(w, f)
    PROVE  EditorInv'
<1> DEFINE c == Titled(windows[w].controls)
<1>1. /\ f \notin Frames /\ Frames' = Frames \cup {f} /\ list' \in Seq(Frames')
      /\ config'[f] = c /\ \A g \in Frames : config'[g] = config[g]
    BY SaveEffect
<1>2. c \in Config /\ c.details.label # Empty
    BY TitledProperties DEF EditorInv, WindowsGood, Good, WindowSet
<1>3. /\ DOMAIN windows' = DOMAIN windows \ {w}
      /\ \A v \in DOMAIN windows \ {w} : windows'[v] = windows[v]
    BY CloseEffect DEF Save
<1>4. NewFrame(f, c) /\ events' \in 0..MaxEvents
    BY EventsAssumption DEF Save, Event, EditorInv, EventsGood
<1> HIDE DEF c
<1>5. FramesGood'
    BY <1>1, <1>2 DEF EditorInv, FramesGood
<1>6. /\ grid' = [g \in Frames' |-> IF g = f THEN Grid(c) ELSE grid[g]]
      /\ active' = [g \in Frames' |-> IF g = f THEN TRUE ELSE active[g]]
    BY <1>1, <1>4 DEF NewFrame, With, EditorInv, GridsGood
<1>7. Grid(c) \in Seq(Text)
    BY <1>2, GridType
<1>8. GridsGood'
    BY <1>1, <1>6, <1>7 DEF EditorInv, GridsGood
<1>9. GridShowsData'
    <2>1. ASSUME NEW g \in Frames' PROVE grid'[g] = Grid(config'[g])
        BY <1>1, <1>6, <2>1 DEF EditorInv, GridShowsData
    <2> QED BY <2>1 DEF GridShowsData, Grid, WordsToShow
<1>10. WindowsGood'
    <2>1. ASSUME NEW v \in DOMAIN windows'
          PROVE  /\ v \in Window /\ windows'[v] = windows[v] /\ Good(windows[v])
        BY <1>3 DEF EditorInv, WindowsGood, OpenWindows
    <2>2. ASSUME NEW v \in DOMAIN windows'
          PROVE  /\ windows'[v] \in WindowSet /\ EnabledFit(windows'[v])
                 /\ UnusedAgree(windows'[v]) /\ windows'[v].source \in Frames' \cup {NoFrame}
        BY <1>1, <2>1 DEF Good
    <2> QED BY <2>1, <2>2 DEF WindowsGood, OpenWindows, Good
<1> QED
    BY <1>1, <1>4, <1>5, <1>8, <1>9, <1>10 DEF EditorInv, ListGood, EventsGood

LEMMA CancelStep ==
    ASSUME EditorInv, NEW w \in OpenWindows, Cancel(w)
    PROVE  EditorInv'
<1>1. /\ DOMAIN windows' = DOMAIN windows \ {w}
      /\ \A v \in DOMAIN windows \ {w} : windows'[v] = windows[v]
      /\ UNCHANGED <<list, config, grid, active>>
    BY CloseEffect DEF Cancel
<1>2. events' \in 0..MaxEvents
    BY EventsAssumption DEF Cancel, Event, EditorInv, EventsGood
<1>3. \A v \in DOMAIN windows' : v \in Window /\ Good(windows'[v])
    BY <1>1 DEF EditorInv, WindowsGood, OpenWindows
<1>4. WindowsGood'
    BY <1>1, <1>3 DEF WindowsGood, OpenWindows, Good, Frames
<1>5. FramesGood' /\ GridsGood' /\ GridShowsData' /\ ListGood' /\ EventsGood'
    BY <1>1, <1>2 DEF EditorInv, FramesGood, GridsGood, GridShowsData, ListGood, EventsGood,
                      Frames
<1> QED
    BY <1>4, <1>5 DEF EditorInv

LEMMA FrameStep ==
    ASSUME EditorInv, NEW f \in Frames, FrameEvent(f)
    PROVE  EditorInv'
<1>0. events' \in 0..MaxEvents
    BY EventsAssumption
       DEF FrameEvent, Receive, Toggle, RemoveFrame, Event, EditorInv, EventsGood
<1>1. CASE Toggle(f)
    BY <1>0, <1>1
       DEF Toggle, EditorInv, FramesGood, GridsGood, GridShowsData, WindowsGood, ListGood,
           EventsGood, Frames, OpenWindows, Good
<1>2. CASE RemoveFrame(f)
    <2>1. list' \in Seq(Frames) /\ UNCHANGED <<config, grid, active, windows>>
        BY <1>2, WithoutProperties DEF RemoveFrame, EditorInv
    <2> QED BY <1>0, <2>1
            DEF EditorInv, FramesGood, GridsGood, GridShowsData, WindowsGood, ListGood,
                EventsGood, Frames, OpenWindows, Good
<1>3. ASSUME NEW x \in Data, Receive(f, x) PROVE EditorInv'
    <2>1. PICK c : c = [config[f] EXCEPT !.data = x]
        OBVIOUS
    <2>2. config' = [config EXCEPT ![f] = c] /\ UNCHANGED <<list, active, windows>>
        BY <1>3, <2>1 DEF Receive
    <2>3. c \in Config /\ c.details.label # Empty
        <3>1. config[f] \in Config /\ config[f].details.label # Empty
            BY DEF EditorInv, FramesGood
        <3>2. c = [details |-> config[f].details, mode |-> config[f].mode,
                   wc |-> config[f].wc, data |-> x]
            BY <2>1, <3>1, ConfigShape
        <3>3. c \in Config
            BY <3>1, <3>2, ConfigFields, ConfigMade
        <3> QED BY <3>1, <3>2, <3>3
    <2>4. /\ Frames' = Frames /\ config'[f] = c
          /\ \A g \in Frames \ {f} : config'[g] = config[g]
        BY <2>2 DEF Frames
    <2>5. grid' = [grid EXCEPT ![f] = Grid(c)]
        BY <1>3, <2>4 DEF Receive
    <2>6. FramesGood'
        BY <2>3, <2>4 DEF EditorInv, FramesGood
    <2>7. Grid(c) \in Seq(Text)
        BY <2>3, GridType
    <2>8. GridsGood'
        BY <2>2, <2>4, <2>5, <2>7 DEF EditorInv, GridsGood
    <2>9. GridShowsData'
        <3>1. ASSUME NEW g \in Frames' PROVE grid'[g] = Grid(config'[g])
            BY <2>4, <2>5, <3>1 DEF EditorInv, GridShowsData, GridsGood
        <3> QED BY <3>1 DEF GridShowsData, Grid, WordsToShow
    <2>10. WindowsGood' /\ ListGood' /\ EventsGood'
        BY <1>0, <2>2, <2>4
           DEF EditorInv, WindowsGood, ListGood, EventsGood, OpenWindows, Good
    <2> QED BY <2>6, <2>8, <2>9, <2>10 DEF EditorInv
<1> QED
    BY <1>1, <1>2, <1>3 DEF FrameEvent

LEMMA EditorStep == EditorInv /\ [Next]_vars => EditorInv'
<1> SUFFICES ASSUME EditorInv, [Next]_vars PROVE EditorInv'
    OBVIOUS
<1>1. CASE Next
    <2>1. FramesGood /\ WindowsGood
        BY DEF EditorInv
    <2> QED BY <1>1, <2>1, StepCases, OpenStep, UseStep, SaveStep, CancelStep, FrameStep
<1>2. CASE UNCHANGED vars
    BY <1>2 DEF vars, EditorInv, FramesGood, GridsGood, GridShowsData, WindowsGood, ListGood,
                EventsGood, Frames, OpenWindows, Good
<1> QED
    BY <1>1, <1>2

----------------------------------------------------------------------------
(* The theorems.                                                           *)

(***************************************************************************)
(* The invariant the theorems below follow from.                           *)
(***************************************************************************)
THEOREM EditorInvariant == Spec => []EditorInv
BY InitEditor, EditorStep, PTL DEF Spec

(***************************************************************************)
(* Every variable keeps its type: whatever is saved is a configuration the *)
(* controls offer.                                                         *)
(***************************************************************************)
THEOREM EditorTypes == Spec => []TypeOK
<1>1. EditorInv => TypeOK
    BY DEF EditorInv, TypeOK, FramesGood, GridsGood, WindowsGood, Good, WindowSet, EnabledSet,
           ListGood, EventsGood
<1> QED BY <1>1, EditorInvariant, PTL

(***************************************************************************)
(* The grid of a frame shows the words it has, for any number of words.    *)
(***************************************************************************)
THEOREM GridsShowData == Spec => []GridShowsData
<1>1. EditorInv => GridShowsData
    BY DEF EditorInv
<1> QED BY <1>1, EditorInvariant, PTL

(***************************************************************************)
(* The fields one can type into are those the grid will show, after any    *)
(* changes of mode and word count.                                         *)
(***************************************************************************)
THEOREM EditableFieldsFit == Spec => []FieldsFitGrid
<1>1. EditorInv => FieldsFitGrid
    <2> SUFFICES ASSUME EditorInv, NEW w \in OpenWindows
                 PROVE  LET c == windows[w].controls IN
                        windows[w].enabled.fields =
                            IF c.mode \in {"RT_TO_BC", "MODE_CODE_NO_DATA"} THEN {}
                            ELSE DOMAIN Grid(c)
        BY DEF FieldsFitGrid
    <2>1. windows[w].controls \in Config /\ windows[w].enabled = Enabled(windows[w].controls)
        BY DEF EditorInv, WindowsGood, Good, WindowSet, EnabledFit
    <2> QED BY <2>1, EnabledFields, GridType
<1> QED BY <1>1, EditorInvariant, PTL

LEMMA EditStep ==
    ASSUME EditorInv, Next, NEW w \in OpenWindows \cap OpenWindows',
           NEW i \in 1..MaxWords,
           windows'[w].controls.data[i] # windows[w].controls.data[i]
    PROVE  windows[w].controls.mode # "RT_TO_BC" /\ i <= WordsToShow(windows[w].controls)
<1>1. windows'[w] # windows[w]
    OBVIOUS
<1>2. /\ \A v \in Window : \A source, c : ~Open(v, source, c)
      /\ \A v \in OpenWindows, f \in Frame : ~Save(v, f)
      /\ \A v \in OpenWindows : ~Cancel(v)
      /\ \A f \in Frames : ~FrameEvent(f)
    <2>1. ASSUME NEW v \in Window, NEW source, NEW c, Open(v, source, c) PROVE FALSE
        BY <1>1, <2>1 DEF Open, With, OpenWindows
    <2>2. ASSUME NEW v, Close(v) PROVE FALSE
        BY <1>1, <2>2, CloseEffect DEF OpenWindows
    <2>3. ASSUME NEW f \in Frames, FrameEvent(f) PROVE FALSE
        BY <1>1, <2>3 DEF FrameEvent, Receive, Toggle, RemoveFrame
    <2> QED BY <2>1, <2>2, <2>3 DEF Save, Cancel
<1>3. PICK v \in OpenWindows : \E c, used, typed :
          UsesWindow(v, c, used, typed) /\ typed \subseteq SentFields(windows[v].controls)
    BY <1>2, StepCases DEF EditorInv
<1>4. PICK c, used, typed :
          UsesWindow(v, c, used, typed) /\ typed \subseteq SentFields(windows[v].controls)
    BY <1>3
<1>5. v = w /\ windows'[w].controls = c
    BY <1>1, <1>4, UseEffect DEF EditorInv, OpenWindows
<1>6. i \in typed
    BY <1>4, <1>5 DEF UsesWindow, Changes
<1>7. windows[w].controls \in Config
    BY DEF EditorInv, WindowsGood, Good, WindowSet
<1>8. WordsToShow(windows[w].controls) \in Int
    BY <1>7, WordsBounds, WordsAssumption
<1> QED
    BY <1>4, <1>5, <1>6, <1>8 DEF SentFields

(***************************************************************************)
(* Randomizing and typing leave alone the words that will not be sent.     *)
(***************************************************************************)
THEOREM UnsentWordsKept == Spec => OnlySentWordsEdited
<1>1. EditorInv /\ [Next]_vars =>
          [\A w \in OpenWindows \cap OpenWindows' :
               LET c == windows[w].controls IN
               \A i \in 1..MaxWords :
                   windows'[w].controls.data[i] # c.data[i] =>
                       c.mode # "RT_TO_BC" /\ i <= WordsToShow(c)]_vars
    BY EditStep
<1> QED BY <1>1, EditorInvariant, PTL DEF Spec, OnlySentWordsEdited

LEMMA SavedStep ==
    ASSUME EditorInv, Next, NEW w \in OpenWindows, Saved(w)
    PROVE  LET win == windows[w]
               old == win.opened
               new == config'[Last(list')]
           IN  /\ \A d \in Details \ win.used : new.details[d] = old.details[d]
               /\ "mode" \notin win.used => new.mode = old.mode
               /\ "wc" \notin win.used => new.wc = old.wc
               /\ \A i \in (1..MaxWords) \ win.typed : new.data[i] = old.data[i]
<1>1. /\ \A v \in Window : \A source, c : ~Open(v, source, c)
      /\ \A v \in OpenWindows : \A c, used, typed : ~UsesWindow(v, c, used, typed)
      /\ \A v \in OpenWindows : ~Cancel(v)
      /\ \A f \in Frames : ~FrameEvent(f)
    <2>1. DOMAIN config' # DOMAIN config
        BY DEF Saved, Frames
    <2>2. ASSUME NEW v, NEW source, NEW c, Open(v, source, c) PROVE FALSE
        BY <2>1, <2>2 DEF Open
    <2>3. ASSUME NEW v, NEW c, NEW used, NEW typed, UsesWindow(v, c, used, typed) PROVE FALSE
        BY <2>1, <2>3 DEF UsesWindow, Use
    <2>4. ASSUME NEW v, Cancel(v) PROVE FALSE
        BY <2>1, <2>4 DEF Cancel
    <2>5. ASSUME NEW f \in Frames, FrameEvent(f) PROVE FALSE
        BY <2>1, <2>5 DEF FrameEvent, Receive, Toggle, RemoveFrame
    <2> QED BY <2>2, <2>3, <2>4, <2>5
<1>2. PICK v \in OpenWindows, f \in Frame : Save(v, f)
    BY <1>1, StepCases DEF EditorInv
<1>3. v = w
    BY <1>2, CloseEffect DEF Save, Saved, OpenWindows
<1>4. config'[Last(list')] = Titled(windows[w].controls)
    BY <1>2, <1>3, SaveEffect
<1>5. windows[w].controls \in Config /\ UnusedAgree(windows[w])
    BY DEF EditorInv, WindowsGood, Good, WindowSet
<1> DEFINE c == windows[w].controls
<1>6. /\ Titled(c).mode = c.mode /\ Titled(c).wc = c.wc /\ Titled(c).data = c.data
      /\ \A d \in Details :
             d # "label" \/ c.details.label # Empty => Titled(c).details[d] = c.details[d]
    BY <1>5, TitledProperties
<1>7. "label" \in Details \ windows[w].used => c.details.label # Empty
    BY <1>5 DEF UnusedAgree
<1> QED
    BY <1>4, <1>5, <1>6, <1>7 DEF UnusedAgree

(***************************************************************************)
(* Saving keeps what was not used in the window, for any detour through    *)
(* other modes and word counts, and whatever happened to the frame.        *)
(***************************************************************************)
THEOREM UnusedControlsKept == Spec => UnusedKept
<1>1. EditorInv /\ [Next]_vars =>
          [\A w \in OpenWindows : Saved(w) =>
               LET win == windows[w]
                   old == win.opened
                   new == config'[Last(list')]
               IN  /\ \A d \in Details \ win.used : new.details[d] = old.details[d]
                   /\ "mode" \notin win.used => new.mode = old.mode
                   /\ "wc" \notin win.used => new.wc = old.wc
                   /\ \A i \in (1..MaxWords) \ win.typed : new.data[i] = old.data[i]]_vars
    BY SavedStep
<1> QED BY <1>1, EditorInvariant, PTL DEF Spec, UnusedKept

============================================================================
