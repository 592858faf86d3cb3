----------------------------- MODULE MCTxVrings ------------------------------
(* Three vrings, two connected peers, two frames from the stack.          *)
EXTENDS TxVrings

MCVrings == 0..2
MCCids == {0, 1}
MCDests == {0, 1, NoPeer, Bcast}
MCProtos == {"data", "eapol"}
MCIfTypes == {"ap", "sta", "monitor"}
====
