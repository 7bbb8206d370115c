-------------------------- MODULE MCBusController --------------------------
(***************************************************************************)
(* Small instances of BusController.  The GUI thread sends when the user   *)
(* presses "Send Once", the send thread while frames are being sent.       *)
(***************************************************************************)
EXTENDS BusController

BothCallers == {"gui", "sendThread"}
OneCaller == {"sendThread"}
============================================================================
