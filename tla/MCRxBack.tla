------------------------------- MODULE MCRxBack ------------------------------
(* Model-checking instance of RxBack: CID 0 connected, CID 1 known but    *)
(* not connected, CID 9 out of range (cidxtid carries 4 bits of CID).     *)
EXTENDS RxBack

MCCidIn == {0, 1, 9}
MCConnected == {0}
=============================================================================
