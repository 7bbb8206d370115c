-------------------------- MODULE MCProtocolParser --------------------------
(***************************************************************************)
(* ProtocolParser fed from one byte stream, cut into buffers at every      *)
(* possible place.  The streams are the concatenations of at most          *)
(* MaxBlocks blocks: good packets, damaged ones and stray bytes.           *)
(***************************************************************************)
EXTENDS ProtocolParser

CONSTANT MaxBlocks

MCMaxWords == 2

\* Packets of 10 bytes.  The first carries the sync pattern as data, the
\* second uses WC = 0, the third has out-of-range RT, SA and WC bytes.
Good == {<<170, 85, 0, 3, 4, 1, 170, 85, 0, 3>>,
         <<170, 85, 1, 31, 0, 0, 18, 52, 86, 120>>,
         <<170, 85, 1, 255, 97, 200, 0, 1, 170, 170>>}

\* A nonexistent mode with a header inside, a packet cut short, half a sync
\* pattern before a valid mode, stray bytes.
Damaged == {<<170, 85, 7, 170, 85, 0, 2, 1, 0, 9>>,
            <<170, 85, 0, 3>>,
            <<170, 84, 0>>,
            <<170>>,
            <<85, 0>>}

Blocks == Good \cup Damaged

MCStreams ==
    LET Upto[n \in Nat] ==
            IF n = 0 THEN {<<>>}
            ELSE {<<>>} \cup {s \o b : s \in Upto[n - 1], b \in Blocks}
    IN  Upto[MaxBlocks]

MCBuffers ==
    UNION {{SubSeq(s, i, j) : i \in 1..Len(s), j \in 1..Len(s)} : s \in MCStreams}

VARIABLE wire   \* bytes of the stream not handed to the parser yet

MCInit == wire \in MCStreams /\ Init

\* The next n bytes of the stream arrive as one buffer.
Feed(n) ==
    /\ ParseStream(SubSeq(wire, 1, n))
    /\ wire' = SubSeq(wire, n + 1, Len(wire))

MCNext ==
    \/ \E n \in 1..Len(wire) : Feed(n)
    \/ LoopTurn /\ UNCHANGED wire
    \/ Reset /\ UNCHANGED wire

MCSpec == MCInit /\ [][MCNext]_<<wire, vars>>

\* The thread inside parseStream keeps running; nothing makes bytes arrive.
MCFairSpec == MCSpec /\ WF_<<wire, vars>>(LoopTurn /\ UNCHANGED wire)
============================================================================
