------------------------------ MODULE RxReorder ------------------------------
(***************************************************************************)
(* The Rx block-ack reorder buffer of one (CID, TID) session:              *)
(* struct wil_tid_ampdu_rx (wil6210.h) and the handlers of rx_reorder.c.   *)
(*                                                                         *)
(* The session is the record r, with the fields of the C struct that the   *)
(* handlers read or write.  reorder_buf is a function from slot index to   *)
(* the sequence number of the frame stored there (NoFrame for NULL); a     *)
(* frame is identified by its 12-bit sequence number.  The network stack   *)
(* behind wil_netif_rx_any is the history sequence out.  reorder_time      *)
(* (jiffies at arrival) is written but never read by the driver and is     *)
(* left out.                                                               *)
(*                                                                         *)
(* wil_rx_reorder runs with r->reorder_lock held from the stale check to   *)
(* the end, so one call is one atomic step here.                           *)
(***************************************************************************)
EXTENDS Integers, Sequences, FiniteSets

CONSTANTS
  BufSize,      \* r->buf_size, the window agreed by wil_back_handle
  Ssn,          \* r->ssn, the starting sequence number of the session
  HeadInit,     \* head_seq_num values a session with an empty buffer can have
  SeqIn,        \* sequence numbers the peer may send on this TID
  MaxArrivals,  \* bound on the frames handed to wil_rx_reorder
  NoFrame       \* an empty reorder_buf slot (NULL)

VARIABLES
  r,         \* the session (struct wil_tid_ampdu_rx)
  open,      \* sta->tid_rx[tid] still points to this session
  out,       \* sequence numbers passed to wil_netif_rx_any, in order
  dropped,   \* frames freed by dev_kfree_skb in wil_rx_reorder
  arrivals   \* number of frames handed to wil_rx_reorder so far

vars == <<r, open, out, dropped, arrivals>>

Slots == 0..(BufSize - 1)

SeqModulo == 4096   \* SEQ_MODULO (0x1000): sequence numbers are 12 bit

ASSUME BufSize \in 1..16
ASSUME HeadInit \subseteq 0..(SeqModulo - 1) /\ SeqIn \subseteq 0..(SeqModulo - 1)


(* seq_less, seq_inc, seq_sub: 12-bit wrap-aware arithmetic. The C code    *)
(* masks with SEQ_MASK, which on a negative int is the same as % here.     *)
SeqLess(sq1, sq2) == ((sq1 - sq2) % SeqModulo) > (SeqModulo \div 2)
(* Mutant: the increment forgets the SEQ_MASK wrap.                       *)
SeqIncNoWrap(sq) == sq + 1
SeqInc(sq) == (sq + 1) % SeqModulo
SeqSub(sq1, sq2) == (sq1 - sq2) % SeqModulo

(* reorder_index: slot of sequence number seq in session rr.               *)
ReorderIndex(rr, seq) == SeqSub(seq, rr.ssn) % rr.bufSize

(***************************************************************************)
(* The release routines work on a pair s = [r |-> session, out |-> sink],  *)
(* since releasing both changes the session and delivers frames.           *)
(***************************************************************************)

(* Mutant: the release forgets stored_mpdu_num--.                          *)
ReleaseFrameKeepsCount(s, index) ==
  IF s.r.buf[index] = NoFrame
  THEN [s EXCEPT !.r.head = SeqInc(@)]
  ELSE [r   |-> [s.r EXCEPT !.buf[index] = NoFrame, !.head = SeqInc(@)],
        out |-> Append(s.out, s.r.buf[index])]

(* wil_release_reorder_frame: deliver the frame at index, if any, and      *)
(* advance head_seq_num in either case (a hole is skipped).                *)
ReleaseFrame(s, index) ==
  IF s.r.buf[index] = NoFrame
  THEN [s EXCEPT !.r.head = SeqInc(@)]
  ELSE [r   |-> [s.r EXCEPT !.stored = @ - 1,
                            !.buf[index] = NoFrame,
                            !.head = SeqInc(@)],
        out |-> Append(s.out, s.r.buf[index])]

(* wil_release_reorder_frames: release slot by slot while head < hseq.     *)
RECURSIVE ReleaseFrames(_, _)
ReleaseFrames(s, hseq) ==
  IF SeqLess(s.r.head, hseq)
  THEN ReleaseFrames(ReleaseFrame(s, ReorderIndex(s.r, s.r.head)), hseq)
  ELSE s

(* wil_reorder_release: release the run of stored frames at the head.     *)
RECURSIVE ReorderRelease(_)
ReorderRelease(s) ==
  LET index == ReorderIndex(s.r, s.r.head) IN
  IF s.r.buf[index] # NoFrame
  THEN ReorderRelease(ReleaseFrame(s, index))
  ELSE s

(* Mutant: the in-order fast path delivers the frame but leaves           *)
(* head_seq_num where it was.                                              *)
ReorderFastPathNoAdvance(s, seq) ==
  IF SeqLess(seq, s.r.head)
  THEN [s |-> [s EXCEPT !.r.lastDrop = seq], drop |-> TRUE]
  ELSE
    LET s1 == IF ~SeqLess(seq, s.r.head + s.r.bufSize)
              THEN ReleaseFrames(s, SeqInc(SeqSub(seq, s.r.bufSize)))
              ELSE s
        index == ReorderIndex(s1.r, seq)
    IN CASE s1.r.buf[index] # NoFrame -> [s |-> s1, drop |-> TRUE]
         [] seq = s1.r.head /\ s1.r.stored = 0 ->
              [s |-> [s1 EXCEPT !.out = Append(@, seq)], drop |-> FALSE]
         [] OTHER ->
              [s |-> ReorderRelease([s1 EXCEPT !.r.buf[index] = seq,
                                               !.r.stored = @ + 1]),
               drop |-> FALSE]

(* The body of wil_rx_reorder under reorder_lock, for a frame seq. The    *)
(* result also says whether the frame was freed (dropped).                 *)
Reorder(s, seq) ==
  IF SeqLess(seq, s.r.head)
  THEN [s |-> [s EXCEPT !.r.lastDrop = seq], drop |-> TRUE]
  ELSE
    LET s1 == IF ~SeqLess(seq, s.r.head + s.r.bufSize)
              THEN ReleaseFrames(s, SeqInc(SeqSub(seq, s.r.bufSize)))
              ELSE s
        index == ReorderIndex(s1.r, seq)
    IN CASE s1.r.buf[index] # NoFrame ->
              [s |-> s1, drop |-> TRUE]
         [] seq = s1.r.head /\ s1.r.stored = 0 ->
              [s |-> [s1 EXCEPT !.r.head = SeqInc(@), !.out = Append(@, seq)],
               drop |-> FALSE]
         [] OTHER ->
              [s |-> ReorderRelease([s1 EXCEPT !.r.buf[index] = seq,
                                               !.r.stored = @ + 1]),
               drop |-> FALSE]

-----------------------------------------------------------------------------

(* wil_tid_ampdu_rx_alloc(size, ssn), seen after the session has already  *)
(* delivered frames in order up to some head with nothing buffered.       *)
Init ==
  /\ \E h \in HeadInit :
       r = [ssn |-> Ssn, head |-> h, bufSize |-> BufSize, stored |-> 0,
            lastDrop |-> 0, buf |-> [i \in Slots |-> NoFrame]]
  /\ open = TRUE
  /\ out = <<>>
  /\ dropped = <<>>
  /\ arrivals = 0

(* wil_rx_reorder for a frame with sequence number seq of this session.   *)
RxReorder(seq) ==
  LET res == Reorder([r |-> r, out |-> out], seq) IN
  /\ open
  /\ arrivals < MaxArrivals
  /\ r' = res.s.r
  /\ out' = res.s.out
  /\ dropped' = IF res.drop THEN Append(dropped, seq) ELSE dropped
  /\ arrivals' = arrivals + 1
  /\ UNCHANGED open

(* Mutant: the teardown flush stops one slot short of the window end.     *)
TidAmpduRxFreeShort ==
  LET res == ReleaseFrames([r |-> r, out |-> out], r.head + r.bufSize - 1) IN
  /\ open
  /\ r' = res.r
  /\ out' = res.out
  /\ open' = FALSE
  /\ UNCHANGED <<dropped, arrivals>>

(* wil_tid_ampdu_rx_free: flush every slot of the window in order, then   *)
(* kfree the session.                                                      *)
TidAmpduRxFree ==
  LET res == ReleaseFrames([r |-> r, out |-> out], r.head + r.bufSize) IN
  /\ open
  /\ r' = res.r
  /\ out' = res.out
  /\ open' = FALSE
  /\ UNCHANGED <<dropped, arrivals>>

Next ==
  \/ \E seq \in SeqIn : RxReorder(seq)
  \/ TidAmpduRxFree

Spec == Init /\ [][Next]_vars

-----------------------------------------------------------------------------

Occupied == {i \in Slots : r.buf[i] # NoFrame}

TypeOK ==
  /\ r.head \in 0..(SeqModulo - 1)
  /\ r.stored \in 0..BufSize
  /\ r.buf \in [Slots -> SeqIn \cup {NoFrame}]
  /\ open \in BOOLEAN
  /\ out \in Seq(SeqIn) /\ dropped \in Seq(SeqIn)
  /\ arrivals \in 0..MaxArrivals

(* In-order delivery: every frame the session passes to the stack comes   *)
(* after, in 12-bit wrap-aware order, every frame it passed before; so no *)
(* frame is delivered twice and none out of order (wil_rx_reorder,        *)
(* wil_reorder_release, wil_release_reorder_frames).                      *)
InOrderDelivery ==
  \A i, j \in 1..Len(out) : i < j => SeqLess(out[i], out[j])

(* The window: every stored frame lies in [head_seq_num, head_seq_num +   *)
(* buf_size) and sits at its reorder_index slot, and stored_mpdu_num      *)
(* counts the occupied slots.  This is what lets the release sweep take   *)
(* the frame at index(head) as the frame with sequence number head.       *)
WindowSlots ==
  /\ r.stored = Cardinality(Occupied)
  /\ \A i \in Occupied :
       /\ SeqSub(r.buf[i], r.head) < r.bufSize
       /\ ReorderIndex(r, r.buf[i]) = i

(* No frame is lost: each frame handed to wil_rx_reorder has been         *)
(* delivered, is still stored, or was freed as stale or duplicate; in     *)
(* particular the teardown flush leaves nothing behind.                   *)
NoFrameLost ==
  /\ Len(out) + Cardinality(Occupied) + Len(dropped) = arrivals
  /\ ~open => Occupied = {}

(* Refinement: the session implements ReorderWindow, with the frames held *)
(* being those in reorder_buf.  Every arrival (wil_rx_reorder) and the    *)
(* teardown flush (wil_tid_ampdu_rx_free) is a step of the abstract       *)
(* session: frames reach the stack in order, only frames received reach   *)
(* it, a frame is buffered only if it can still go out in order, and the  *)
(* teardown hands over everything buffered.                               *)
Window == INSTANCE ReorderWindow WITH held <- {r.buf[i] : i \in Occupied}

ImplementsWindow == Window!Spec

=============================================================================
