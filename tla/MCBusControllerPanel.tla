------------------------ MODULE MCBusControllerPanel ------------------------
(***************************************************************************)
(* Small instances of BusControllerPanel: two default frames, of which the *)
(* first one is answered, and one frame that may be added.                 *)
(***************************************************************************)
EXTENDS BusControllerPanel

MCFrame == {"f1", "f2", "f3"}
MCDefaultFrames == <<"f1", "f2">>
MCAnswering == {"f1", "f3"}
============================================================================
