---------------------------- MODULE MCFrameEditor ----------------------------
(***************************************************************************)
(* A small instance of FrameEditor: an RT -> RT frame and an RT -> BC      *)
(* frame of two words.  Controls the code treats alike are given choices   *)
(* in one of them only: rt2 stands for sa2, label and bus for rt and sa.   *)
(***************************************************************************)
EXTENDS FrameEditor

MCFrame == {"f1", "f2", "f3"}
MCText == {"0000", "AA55"}
MCNewData == [i \in 1..MaxWords |-> "0000"]

MCOffers ==
    [label |-> {"New Frame", Empty, Untitled}, bus |-> {"A", "B"}, rt |-> {"1"}, sa |-> {"1"},
     rt2 |-> {"0", "3"}, sa2 |-> {"0"}]

DefaultOf(mode, bus, rt2) ==
    [details |-> [label |-> "New Frame", bus |-> bus, rt |-> "1", sa |-> "1",
                  rt2 |-> rt2, sa2 |-> "0"],
     mode |-> mode, wc |-> 0, data |-> [i \in 1..MaxWords |-> "AA55"]]
MCDefaults == <<DefaultOf("RT_TO_RT", "B", "3"), DefaultOf("RT_TO_BC", "A", "0")>>

============================================================================
