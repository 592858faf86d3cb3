----------------------------- MODULE MCRxReorder -----------------------------
(* Model-checking instance of RxReorder. The peer may send any sequence    *)
(* number from one below the initial head to twice the window beyond it,   *)
(* so stale frames, duplicates, holes and forced window slides all occur.  *)
EXTENDS RxReorder

\* Heads at the session start and just before seq - ssn wraps past 4096.
MCHeadInit == {Ssn, (Ssn + SeqModulo - 2) % SeqModulo}

MCSeqIn == {(h + k) % SeqModulo : h \in MCHeadInit, k \in -1..(2 * BufSize)}

=============================================================================
