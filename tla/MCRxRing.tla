------------------------------- MODULE MCRxRing ------------------------------
(* Model-checking instance of RxRing; the constants are set in the cfgs.  *)
EXTENDS RxRing
=============================================================================
