----------------------------- MODULE MCRxFrames -----------------------------
(***************************************************************************)
(* RxFrames with two clients and a few packets.                            *)
(***************************************************************************)
EXTENDS RxFrames, TLC

CONSTANTS b1, b2, b3

MCBufs == {b1, b2, b3}
MCBufs2 == {b1, b2}
MCSymmetry == Permutations(MCBufs)
MCMasks == {{"frame"}}

\* The state without what is left over from packets that are gone: fields
\* and ring entries that are written before they are read again.
MCView ==
  <<pool, freed, taken \cap Live, c_filter,
    [b \in Live |-> <<stage[b],
                     IF b \in taken THEN {} ELSE IF stage[b] = 1 THEN filter_result[b] ELSE {},
                     IF b \in InUse THEN tcount[b] ELSE 0, forwarding[b]>>],
    setupVars, rdIndex, [i \in Links |-> [n \in 0 .. QueueSize(i) - 1 |-> Entry(i, n)]],
    sending, transmitting>>
=============================================================================
