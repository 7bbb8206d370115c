--------------------------- MODULE MonitorSession ---------------------------
(***************************************************************************)
(* What BM promises to the panel that shows its messages, without threads, *)
(* parser or filter: a session is on or off; while it is on, messages      *)
(* become pending one at a time, and all that are pending reach the        *)
(* callback together and in order.  What a stopped session left pending is *)
(* never shown: the next start() throws it away.                           *)
(***************************************************************************)
EXTENDS Naturals, Sequences

CONSTANT Messages       \* the formatted transactions

VARIABLES
    on,                 \* isMonitoring()
    pending,            \* m_pendingMessages
    relayed             \* messages passed to the GUI callback, ever

sessionVars == <<on, pending, relayed>>

Init == on = FALSE /\ pending = <<>> /\ relayed = <<>>

\* start() has emptied the pending text; it may still fail.
Discard ==
    /\ ~on
    /\ pending' = <<>>
    /\ UNCHANGED <<on, relayed>>

\* start() returns true.
Start ==
    /\ ~on
    /\ on' = TRUE /\ pending' = <<>>
    /\ UNCHANGED relayed

\* The parser's callback adds a message that passes the filter.
Show(m) ==
    /\ on
    /\ pending' = Append(pending, m)
    /\ UNCHANGED <<on, relayed>>

ShowAny ==
    /\ pending' # <<>>
    /\ LET m == pending'[Len(pending')] IN m \in Messages /\ Show(m)

\* The pending text goes to the GUI.
Relay ==
    /\ on
    /\ relayed' = relayed \o pending
    /\ pending' = <<>>
    /\ UNCHANGED on

\* stop().
Stop ==
    /\ on
    /\ on' = FALSE
    /\ UNCHANGED <<pending, relayed>>

Next == Discard \/ Start \/ ShowAny \/ Relay \/ Stop

Spec == Init /\ [][Next]_sessionVars
============================================================================
