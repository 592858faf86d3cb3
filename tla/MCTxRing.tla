------------------------------- MODULE MCTxRing -------------------------------
(* Model-checking instance of TxRing: a ring of eight descriptors, so     *)
(* that both backpressure thresholds (size/8 and size/4) are non-zero,    *)
(* and enough frames with fragments to wrap it.                           *)
EXTENDS TxRing

\* GSO shapes with Mss = 2: payload in fragments only, split into two
\* segments; and linear payload followed by one fragment.
\* A GSO frame with linear payload and one fragment (TsoUnwind).
MCGsoLinear == {[lin |-> 1, frags |-> <<1>>]}

\* Plain frames, or a GSO frame whose payload is all linear (TsoRingOverflow).
MCGsoLinearOnly == {NoTso, [lin |-> 1, frags |-> <<>>]}

\* A GSO frame of two segments, all in one fragment (TsoHeaderStall).
MCGsoFragsOnly == {[lin |-> 0, frags |-> <<3>>]}

MCGsoChoices == {NoTso, [lin |-> 0, frags |-> <<3>>], [lin |-> 1, frags |-> <<1>>]}

=============================================================================
