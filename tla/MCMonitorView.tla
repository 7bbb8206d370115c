---------------------------- MODULE MCMonitorView ----------------------------
(***************************************************************************)
(* Small instances of MonitorView: two kinds of messages, one of them the  *)
(* mode command 17, and one item of the tree of each kind.                 *)
(***************************************************************************)
EXTENDS MonitorView

DataMessage == [rt |-> 1, sa |-> 1, wc |-> 1]
ModeMessage == [rt |-> 1, sa |-> 0, wc |-> 17]
MCMessages == {DataMessage, ModeMessage}

MCItems ==
    {SaItem(DataMessage), RtItem(ModeMessage),
     [SaItem(DataMessage) EXCEPT !.bus = "B"],
     [RtItem(ModeMessage) EXCEPT !.mc = 17]}

\* A number that 16 bits turn into port 5002.
MCPorts == {70538}
============================================================================
