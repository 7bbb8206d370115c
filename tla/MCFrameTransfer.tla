-------------------------- MODULE MCFrameTransfer --------------------------
(***************************************************************************)
(* FrameTransfer with the real 32 words and field values that set each bit *)
(* of the RT and SA fields once, plus the extremes.                        *)
(***************************************************************************)
EXTENDS FrameTransfer

MCMaxWords == 32
Corners == {0, 1, 2, 4, 8, 16, 31}
MCWcs == 0..32

\* Every word different; and fields that are no number or negative: "-5"
\* becomes 2^64 - 5, of which only the last 16 bits matter (2^20 - 5 here).
MCDataFields == {[i \in 1..32 |-> 2047 * i],
                 [i \in 1..32 |-> IF i % 3 = 0 THEN NotHex ELSE 1048576 - i]}

MCAnswers == {[wc |-> n, words |-> [i \in 1..32 |-> 65535 - 7 * i]] : n \in {0, 1, 31, 200}}
MCLeftovers == {48879}

FewCorners == {1, 31}
============================================================================
