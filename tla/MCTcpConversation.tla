-------------------------- MODULE MCTcpConversation --------------------------
(***************************************************************************)
(* Small instances of TcpConversation: packets of one data word.  The word *)
(* of the request is the sync pattern.                                     *)
(***************************************************************************)
EXTENDS TcpConversation

PacketOf(mode, high, low) == <<Magic0, Magic1, mode, 3, 2, 1, high, low>>

MCRequests == {PacketOf(ModeRx, Magic0, Magic1), PacketOf(ModeTx, 0, 0)}
MCAnswers == {PacketOf(ModeTx, 18, 52)}

\* Ethernet without options, which is padded; with IP and TCP options; BSD
\* loopback; IPv6 on a cooked interface.  A session has one link type, but
\* packetHandler looks at each frame for itself.
MCHeaders ==
    {[link |-> "EN10MB", version |-> 4, ihl |-> 5, doff |-> 5],
     [link |-> "EN10MB", version |-> 4, ihl |-> 6, doff |-> 8],
     [link |-> "NULL", version |-> 4, ihl |-> 5, doff |-> 8],
     [link |-> "LINUX_SLL", version |-> 6, ihl |-> 5, doff |-> 8]}

FromSimulator == {"simulator"}
============================================================================
