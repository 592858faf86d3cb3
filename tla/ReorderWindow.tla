---------------------------- MODULE ReorderWindow ----------------------------
(***************************************************************************)
(* What a block-ack reorder session promises the network stack, without   *)
(* the window, the slots or the head pointer of rx_reorder.c.              *)
(*                                                                         *)
(* Frames arrive one at a time, identified by their 12-bit sequence        *)
(* numbers.  A frame is either dropped or kept; kept frames wait in the    *)
(* set held.  On an arrival the session may deliver any subset of what it *)
(* holds, provided that:                                                   *)
(*  - every delivered frame comes after everything delivered before, and  *)
(*    the subset is delivered in sequence order;                           *)
(*  - nothing it keeps holding is overtaken by a delivered frame, and a    *)
(*    frame is only kept if it can still be delivered in order.            *)
(* When the session is freed it delivers everything it holds, in order.   *)
(***************************************************************************)
EXTENDS Integers, Sequences, FiniteSets, TLC

LOCAL SX == INSTANCE SequencesExt

CONSTANTS SeqIn, MaxArrivals

VARIABLES held, open, out, dropped, arrivals

avars == <<held, open, out, dropped, arrivals>>

(* Wrap-aware order of 12-bit sequence numbers (IEEE 802.11 9.3.2.11).   *)
Before(a, b) == ((a - b) % 4096) > 2048

(* x may follow everything already in the sequence s.                     *)
After(s, x) == s = <<>> \/ Before(SX!Last(s), x)

(* Deliver the frames D out of the pool, in order, keeping the rest.     *)
Deliver(pool, D) ==
  /\ \A x \in D : After(out, x)
  /\ \A x \in D, h \in pool \ D : Before(x, h)
  /\ out' = out \o SortSeq(SX!SetToSeq(D), Before)
  /\ held' = pool \ D

Init ==
  /\ held = {}
  /\ open = TRUE
  /\ out = <<>>
  /\ dropped = <<>>
  /\ arrivals = 0

(* A frame arrives and is dropped; frames held may be delivered. *)
Drop(seq) ==
  /\ open /\ arrivals < MaxArrivals
  /\ arrivals' = arrivals + 1
  /\ dropped' = Append(dropped, seq)
  /\ \E D \in SUBSET held : Deliver(held, D)
  /\ UNCHANGED open

(* A frame arrives and is kept; it and frames held may be delivered. *)
Keep(seq) ==
  /\ open /\ arrivals < MaxArrivals
  /\ seq \notin held /\ After(out, seq)
  /\ arrivals' = arrivals + 1
  /\ \E D \in SUBSET (held \cup {seq}) : Deliver(held \cup {seq}, D)
  /\ UNCHANGED <<open, dropped>>

(* The session is freed: everything held is delivered. *)
Close ==
  /\ open
  /\ Deliver(held, held)
  /\ open' = FALSE
  /\ UNCHANGED <<dropped, arrivals>>

Next == (\E seq \in SeqIn : Drop(seq) \/ Keep(seq)) \/ Close

Spec == Init /\ [][Next]_avars

=============================================================================
