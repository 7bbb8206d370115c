---------------------------- MODULE MCBusMonitor ----------------------------
(***************************************************************************)
(* Small instances of BusMonitor: packets of one data word (8 bytes).      *)
(***************************************************************************)
EXTENDS BusMonitor

MCMaxWords == 1

Packet(mode, rt, sa) == <<Magic0, Magic1, mode, rt, sa, 1, 170, 85>>

\* The RT byte of P2 does not fit its field: the monitor sees RT 2.
P1 == Packet(0, 1, 1)
P2 == Packet(1, 34, 1)
P3 == Packet(0, 1, 2)

\* A packet and the first part of one; the rest of it, the header of a packet
\* with a nonexistent mode, and another packet.
SplitTraffic ==
    <<P1 \o SubSeq(P2, 1, 5), SubSeq(P2, 6, 8) \o <<Magic0, Magic1, 7>> \o P3>>

\* Three packets with different RT/SA pairs, in one segment.
FilterTraffic == <<P1 \o P2 \o P3>>

\* Two packets in one segment, one in the next.
PairTraffic == <<P1 \o P2, P3>>

NoCriteria == {}

\* An SA item, and the item of another RT; two SA items; an RT and the bus item.
MixedCriteria == {[rt |-> 1, sa |-> 2], [rt |-> 2, sa |-> -1]}
OtherRtCriteria == {[rt |-> 1, sa |-> 2], [rt |-> 2, sa |-> 1]}
WildcardCriteria == {[rt |-> 1, sa |-> -1], [rt |-> -1, sa |-> -1]}

OkSetup == {"ok"}
AnySetup == {"ok", "fail"}
============================================================================
