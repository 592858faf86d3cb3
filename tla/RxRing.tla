------------------------------- MODULE RxRing --------------------------------
(***************************************************************************)
(* The Rx vring (wil->vring_rx, txrx.c), shared by the driver and the      *)
(* device.  For Rx the driver posts buffers at swtail and reaps completed  *)
(* ones at swhead.                                                         *)
(*                                                                         *)
(*  - RxInit   : wil_rx_init (wil_vring_alloc, wmi_rx_chain_add,           *)
(*               wil_rx_refill, and wil_vring_free on failure);            *)
(*  - HwRx     : the device writes a received frame into the buffer at its *)
(*               pointer, sets DU and (DMA_IT) interrupts, which schedules *)
(*               the Rx NAPI poll;                                         *)
(*  - NapiPoll : the NAPI poll: wil_rx_handle with a quota, i.e. the loop  *)
(*               over wil_vring_reap_rx and the wil_rx_refill after it;    *)
(*  - RxFini   : wil_rx_fini, i.e. wil_vring_free(tx = 0).                 *)
(*                                                                         *)
(* A slot keeps what the driver reads back: whether ctx[] holds an skb,    *)
(* whether its descriptor's address is a live DMA mapping, the DU bit and  *)
(* the frame type the device reported.  The network interface is an       *)
(* Ethernet one (not the radiotap sniffer type), so reap applies its       *)
(* frame-type and length checks; a control (non-data) frame and a frame    *)
(* shorter than ETH_HLEN take the same path and are one kind "ctrl".       *)
(***************************************************************************)
EXTENDS Integers, FiniteSets

CONSTANTS
  RingSize,     \* WIL6210_RX_RING_SIZE
  NapiBudget,   \* the quota the NAPI poll gives wil_rx_handle
  Kinds,        \* frame types the device reports: "data", "ctrl"
  MaxRx,        \* bound on frames the device receives
  MaxInits      \* bound on wil_rx_init calls

ASSUME RingSize >= 2 /\ NapiBudget >= 1 /\ Kinds \subseteq {"data", "ctrl"}

Slots == 0..(RingSize - 1)

VARIABLES
  head,      \* vring->swhead: next slot to reap
  tail,      \* vring->swtail: next slot to post
  doorbell,  \* last swtail written to the hwtail register
  hwPtr,     \* the device's write pointer
  alive,     \* vring->va != NULL
  desc,      \* per slot: [du, kind, mapped]
  ctx,       \* per slot: vring->ctx[i] != NULL
  sched,     \* the Rx NAPI poll is scheduled
  inits,     \* wil_rx_init calls so far
  rxCount,   \* frames written by the device so far
  allocated, \* skbs allocated by wil_vring_alloc_skb
  delivered, \* skbs wil_rx_handle passed on (wil_rx_reorder)
  dropped,   \* skbs wil_vring_reap_rx freed as ctrl frames
  torn,      \* skbs freed by wil_vring_free
  dmaErr     \* a dma_unmap_single of a dead mapping, or a mapped skb freed

vars == <<head, tail, doorbell, hwPtr, alive, desc, ctx, sched, inits,
          rxCount, allocated, delivered, dropped, torn, dmaErr>>

(* Mutant: the next index without the wrap at vring->size.               *)
Next1NoWrap(i) == i + 1

(* wil_vring_next_tail / wil_vring_advance_head by one. *)
Next1(i) == (i + 1) % RingSize
Dist(a, b) == (b - a + RingSize) % RingSize

(* Slots posted to the device and not yet reaped. *)
Posted(i) == Dist(head, i) < Dist(head, tail)

(* The variables the driver's loops change, as one record. *)
St == [head |-> head, tail |-> tail, desc |-> desc, ctx |-> ctx,
       allocated |-> allocated, delivered |-> delivered,
       dropped |-> dropped, torn |-> torn, dmaErr |-> dmaErr,
       rc |-> 0, quota |-> 0]

(* wil_vring_alloc: empty ring, every status DU ("software owned"). *)
FreshRing ==
  [St EXCEPT !.head = 0, !.tail = 0,
             !.desc = [i \in Slots |-> [du |-> TRUE, kind |-> "data",
                                        mapped |-> FALSE]],
             !.ctx = [i \in Slots |-> FALSE]]

(* wil_vring_alloc_skb: a fresh skb mapped for the device, status 0.      *)
PostedDesc == [du |-> FALSE, kind |-> "data", mapped |-> TRUE]

(***************************************************************************)
(* wil_rx_refill(count): post buffers at swtail while the slot after it is *)
(* not swhead and count lasts; nOk allocations (dev_alloc_skb and          *)
(* dma_map_single) succeed and the next one fails, which ends the loop    *)
(* (nOk at least the free slots: none fails).                             *)
(* The result carries rc, 0 unless an allocation failed.                   *)
(***************************************************************************)
RECURSIVE RefillKeepsStatus(_, _, _)
RECURSIVE Refill(_, _, _)
(* Mutant: the posted descriptor's status is not cleared.                *)
RefillKeepsStatus(st, count, nOk) ==
  IF Next1(st.tail) = st.head \/ count = 0
  THEN [st EXCEPT !.rc = 0]
  ELSE IF nOk = 0
  THEN [st EXCEPT !.rc = -1]
  ELSE RefillKeepsStatus(
         [st EXCEPT !.desc[st.tail] = [@ EXCEPT !.kind = "data", !.mapped = TRUE],
                    !.ctx[st.tail] = TRUE,
                    !.allocated = @ + 1,
                    !.tail = Next1(st.tail)],
         count - 1, nOk - 1)

Refill(st, count, nOk) ==
  IF Next1(st.tail) = st.head \/ count = 0
  THEN [st EXCEPT !.rc = 0]
  ELSE IF nOk = 0
  THEN [st EXCEPT !.rc = -1]
  ELSE Refill([st EXCEPT !.desc[st.tail] = PostedDesc,
                         !.ctx[st.tail] = TRUE,
                         !.allocated = @ + 1,
                         !.tail = Next1(st.tail)],
              count - 1, nOk - 1)

(* Mutant: vring->ctx[swhead] is not cleared when the skb is taken.      *)
ReapKeepsCtx(st) ==
  IF st.head = st.tail \/ ~st.desc[st.head].du
  THEN [st |-> st, skb |-> FALSE]
  ELSE LET d == st.desc[st.head]
           st1 == [st EXCEPT !.dmaErr = @ \/ ~d.mapped,
                             !.desc[st.head].mapped = FALSE,
                             !.head = Next1(st.head)]
       IN IF d.kind = "data"
          THEN [st |-> st1, skb |-> TRUE]
          ELSE [st |-> [st1 EXCEPT !.dropped = @ + 1], skb |-> FALSE]

(* wil_vring_reap_rx: NULL on an empty ring or a descriptor without DU;    *)
(* otherwise take the skb, unmap it and advance swhead, then free a ctrl   *)
(* frame and return NULL for it too.                                       *)
Reap(st) ==
  IF st.head = st.tail \/ ~st.desc[st.head].du
  THEN [st |-> st, skb |-> FALSE]
  ELSE LET d == st.desc[st.head]
           st1 == [st EXCEPT !.ctx[st.head] = FALSE,
                             !.dmaErr = @ \/ ~d.mapped,
                             !.desc[st.head].mapped = FALSE,
                             !.head = Next1(st.head)]
       IN IF d.kind = "data"
          THEN [st |-> st1, skb |-> TRUE]
          ELSE [st |-> [st1 EXCEPT !.dropped = @ + 1], skb |-> FALSE]

(* The loop of wil_rx_handle: reap while quota lasts and reap returns an  *)
(* skb, passing each on; the result carries the quota left.               *)
RECURSIVE HandleLoop(_, _)
HandleLoop(st, quota) ==
  IF quota = 0
  THEN [st EXCEPT !.quota = 0]
  ELSE LET r == Reap(st) IN
       IF ~r.skb THEN [r.st EXCEPT !.quota = quota]
       ELSE HandleLoop([r.st EXCEPT !.delivered = @ + 1], quota - 1)

(* Mutant: the teardown loop stops one descriptor before the ring is    *)
(* empty, so the last skb is never freed.                                 *)
RECURSIVE FreeRxStopsShort(_)
FreeRxStopsShort(st) ==
  IF st.head = st.tail \/ Next1(st.head) = st.tail THEN st
  ELSE FreeRxStopsShort([st EXCEPT
                 !.dmaErr = @ \/ ~st.desc[st.tail].mapped
                              \/ st.desc[st.head].mapped,
                 !.desc[st.tail].mapped = FALSE,
                 !.ctx[st.head] = FALSE,
                 !.torn = @ + 1,
                 !.head = Next1(st.head)])

(* wil_vring_free(tx = 0): while the ring is not empty, unmap the address *)
(* of the descriptor at swtail, free the skb of ctx[swhead] and advance   *)
(* swhead.                                                                *)
RECURSIVE FreeRx(_)
FreeRx(st) ==
  IF st.head = st.tail THEN st
  ELSE FreeRx([st EXCEPT
                 !.dmaErr = @ \/ ~st.desc[st.tail].mapped
                              \/ st.desc[st.head].mapped,
                 !.desc[st.tail].mapped = FALSE,
                 !.ctx[st.head] = FALSE,
                 !.torn = @ + 1,
                 !.head = Next1(st.head)])

(* Write back the loop variables. *)
SetSt(st) ==
  /\ head' = st.head /\ tail' = st.tail /\ desc' = st.desc /\ ctx' = st.ctx
  /\ allocated' = st.allocated /\ delivered' = st.delivered
  /\ dropped' = st.dropped /\ torn' = st.torn /\ dmaErr' = st.dmaErr

-----------------------------------------------------------------------------

Init ==
  /\ head = 0 /\ tail = 0 /\ doorbell = 0 /\ hwPtr = 0
  /\ alive = FALSE
  /\ desc = [i \in Slots |-> [du |-> TRUE, kind |-> "data", mapped |-> FALSE]]
  /\ ctx = [i \in Slots |-> FALSE]
  /\ sched = FALSE /\ inits = 0 /\ rxCount = 0
  /\ allocated = 0 /\ delivered = 0 /\ dropped = 0 /\ torn = 0
  /\ dmaErr = FALSE

(* wil_rx_init: allocate the ring, add the Rx chain in the firmware and   *)
(* fill the ring; a failure of either frees the ring again.              *)
RxInit ==
  /\ ~alive /\ inits < MaxInits
  /\ inits' = inits + 1
  /\ \E fwOk \in BOOLEAN, nOk \in 0..RingSize :
       LET st0 == FreshRing
           st1 == IF fwOk THEN Refill(st0, RingSize, nOk) ELSE st0
           ok == fwOk /\ st1.rc = 0
       IN /\ SetSt(IF ok THEN st1 ELSE FreeRx(st1))
          /\ doorbell' = IF fwOk THEN st1.tail ELSE doorbell
          /\ hwPtr' = 0
          /\ alive' = ok
  /\ UNCHANGED <<sched, rxCount>>

(* The device fills the buffer at its pointer, up to the doorbell. *)
HwRx ==
  /\ alive /\ hwPtr # doorbell /\ rxCount < MaxRx
  /\ \E k \in Kinds :
       desc' = [desc EXCEPT ![hwPtr] = [@ EXCEPT !.du = TRUE, !.kind = k]]
  /\ hwPtr' = Next1(hwPtr)
  /\ sched' = TRUE
  /\ rxCount' = rxCount + 1
  /\ UNCHANGED <<head, tail, doorbell, alive, ctx, inits, allocated, delivered,
                 dropped, torn, dmaErr>>

(* The NAPI poll: wil_rx_handle(quota) returns at once without a ring;   *)
(* otherwise it reaps, then refills the whole ring and writes the        *)
(* doorbell.  The poll stays scheduled only if it used its whole quota.  *)
NapiPoll ==
  /\ sched
  /\ IF ~alive
     THEN /\ sched' = FALSE
          /\ UNCHANGED <<head, tail, doorbell, desc, ctx, allocated, delivered,
                         dropped, torn, dmaErr>>
     ELSE \E nOk \in 0..RingSize :
            LET st1 == HandleLoop(St, NapiBudget)
                st2 == Refill(st1, RingSize, nOk)
            IN /\ SetSt(st2)
               /\ doorbell' = st2.tail
               /\ sched' = (st1.quota = 0)
  /\ UNCHANGED <<hwPtr, alive, inits, rxCount>>

(* wil_rx_fini: free the ring if there is one. *)
RxFini ==
  /\ alive
  /\ SetSt(FreeRx(St))
  /\ alive' = FALSE
  /\ UNCHANGED <<doorbell, hwPtr, sched, inits, rxCount>>

Next ==
  \/ RxInit
  \/ HwRx
  \/ NapiPoll
  \/ RxFini

Spec == Init /\ [][Next]_vars

(* A scheduled NAPI poll runs. *)
FairSpec == Spec /\ WF_vars(NapiPoll)

-----------------------------------------------------------------------------

TypeOK ==
  /\ head \in Slots /\ tail \in Slots /\ doorbell \in Slots /\ hwPtr \in Slots
  /\ alive \in BOOLEAN /\ sched \in BOOLEAN /\ dmaErr \in BOOLEAN
  /\ desc \in [Slots -> [du : BOOLEAN, kind : Kinds \cup {"data"},
                         mapped : BOOLEAN]]
  /\ ctx \in [Slots -> BOOLEAN]
  /\ inits \in 0..MaxInits /\ rxCount \in 0..MaxRx
  /\ {allocated, delivered, dropped, torn} \subseteq Nat

(* A descriptor is ready: posted, and the device has set DU. *)
Ready(i) == alive /\ Posted(i) /\ desc[i].du

(* The device only writes buffers the driver posted and published, and    *)
(* the driver only reaps descriptors the device has written: swhead <=    *)
(* device pointer <= doorbell <= swtail around the ring (wil_rx_refill,   *)
(* wil_vring_reap_rx).                                                    *)
ReapBehindDevice ==
  alive => /\ Dist(head, hwPtr) <= Dist(head, doorbell)
           /\ Dist(head, doorbell) <= Dist(head, tail)

(* The posted slots [swhead, swtail) are exactly those whose ctx holds an *)
(* skb and whose descriptor holds a live mapping.                         *)
RxSlotOwnership ==
  alive => \A i \in Slots : /\ ctx[i] = Posted(i)
                            /\ desc[i].mapped = Posted(i)

(* Every skb allocated for the ring is in the ring, was passed on, was    *)
(* freed as a ctrl frame or was freed at teardown: none leaks or is freed *)
(* twice.                                                                 *)
SkbConservation ==
  allocated = Cardinality({i \in Slots : ctx[i]}) + delivered + dropped + torn

(* Every DMA unmap is of a live mapping, and no skb is freed while still  *)
(* mapped for the device (wil_vring_reap_rx, wil_vring_free).             *)
NoDmaMisuse == ~dmaErr

(* A descriptor the device completed is eventually reaped by NAPI: one    *)
(* bad frame does not stop the ring from processing the rest (spec 7).    *)
(* wil_vring_reap_rx returns NULL for a ctrl or short frame, which ends   *)
(* wil_rx_handle's loop with quota left, so the poll completes and the    *)
(* frames behind it wait for another interrupt: with Kinds including      *)
(* "ctrl" (RxCtrlStall.cfg) TLC finds this property violated.             *)
ReadyEventuallyReaped ==
  \A i \in Slots : Ready(i) ~> ~Ready(i)

=============================================================================
