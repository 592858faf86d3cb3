------------------------------- MODULE TxRing --------------------------------
(***************************************************************************)
(* One Tx vring (struct vring, txrx.c) shared by the driver's transmit     *)
(* path, the DMA engine and the Tx completion handler.                     *)
(*                                                                         *)
(*  - StartXmit* : wil_start_xmit for a unicast, non-TSO frame, i.e.       *)
(*                 wil_tx_vring and the switch on its result;              *)
(*  - StartXmitTso: wil_start_xmit for a GSO frame, i.e. wil_tx_vring_tso  *)
(*                 and the same switch;                                    *)
(*  - HwTxDone   : the device completes the descriptor at its read pointer *)
(*                 and raises the Tx interrupt after a descriptor with     *)
(*                 DMA_IT (the last of a chain);                           *)
(*  - TxComplete : wil_tx_complete, run by the Tx NAPI poll on interrupt;  *)
(*  - VringFiniTx: wil_vring_fini_tx / wil_vring_free(tx = 1).             *)
(*                                                                         *)
(* A descriptor keeps the fields the driver reads back: which frame's      *)
(* buffer its address points to, how that address was mapped               *)
(* (dma_map_single or skb_frag_dma_map) and whether it is still mapped,    *)
(* the EOP bit of d0 and the DU bit of status.  Frames are skbs with a     *)
(* reference count; the network stack holds one reference to the frame it *)
(* hands to wil_start_xmit.  wil_start_xmit and wil_tx_complete each run   *)
(* as one step: the slots one writes are never the slots the other reads  *)
(* (SlotOwnership checks this), and each publishes its ring index         *)
(* (swhead, swtail) as its last write.                                     *)
(***************************************************************************)
EXTENDS Integers, Sequences, FiniteSets

CONSTANTS
  RingSize,     \* vring->size (WIL6210_TX_RING_SIZE = 512 in the driver)
  NumFrames,    \* frames the network stack offers, in order
  FragChoices,  \* possible skb_shinfo(skb)->nr_frags
  NoSkb,        \* NULL skb pointer / descriptor address 0
  GsoChoices,   \* per frame: NoTso, or the shape [lin, frags] of a GSO skb
  NoTso,        \* skb_is_gso(skb) is false
  Mss,          \* skb_shinfo(skb)->gso_size
  TsoFailPoints \* descriptors mapped before a TSO mapping may fail

ASSUME RingSize >= 2 /\ NumFrames >= 1 /\ FragChoices \subseteq Nat

Frames == 1..NumFrames
Slots == 0..(RingSize - 1)
MaxFrags == CHOOSE m \in FragChoices : \A x \in FragChoices : x <= m

VARIABLES
  head,      \* vring->swhead, written by the transmit path
  tail,      \* vring->swtail, written by wil_tx_complete
  doorbell,  \* last swhead written to the hwtail register (iowrite32)
  alive,     \* vring->va != NULL
  desc,      \* vring->va[]: the descriptors
  ctx,       \* vring->ctx[]: skb referenced by each slot
  cb,        \* skb->cb (struct wil_skb_cb): sngl_mapped of each frame
  refs,      \* skb reference count of each frame
  nrFrags,   \* skb_shinfo(skb)->nr_frags of each frame
  gso,       \* NoTso, or the GSO shape of each frame
  next,      \* the next frame the stack hands to wil_start_xmit
  stopped,   \* netif Tx queues stopped
  hwHead,    \* the device's read pointer into the ring
  irq,       \* Tx interrupt raised and not yet handled by NAPI
  txPackets, \* ndev->stats.tx_packets
  unmapErr   \* a dma_unmap_* call did not match a live mapping of its kind

vars == <<head, tail, doorbell, alive, desc, ctx, cb, refs, nrFrags, gso,
          next, stopped, hwHead, irq, txPackets, unmapErr>>

Blank == [frame |-> NoSkb, kind |-> "single", mapped |-> FALSE,
          eop |-> FALSE, du |-> TRUE, nodma |-> FALSE]

(* Ring arithmetic: distance from a forward to b, and the slots from a     *)
(* up to, not including, b.                                                *)
Dist(a, b) == (b - a + RingSize) % RingSize
Walk(a, b) == [k \in 1..Dist(a, b) |-> (a + k - 1) % RingSize]
InUse(i) == Dist(tail, i) < Dist(tail, head)

(* Mutant: the free-space count forgets the slot kept empty.              *)
AvailTxNoReserve(h, t) == RingSize - ((RingSize + h - t) % RingSize)

(* wil_vring_avail_tx, from the indices it reads. *)
AvailTx(h, t) == RingSize - ((RingSize + h - t) % RingSize) - 1

(* The unmap type the driver derives for slot i of a frame whose head     *)
(* was single-mapped at slot sngl: `i <= skbcb->sngl_mapped`.              *)
UnmapKind(i, sngl) == IF i <= sngl THEN "single" ELSE "page"

(* Whether unmapping descriptor d as kind is an error: not mapped any      *)
(* more, or mapped with the other API.                                     *)
BadUnmap(d, kind) == ~d.mapped \/ d.kind # kind

-----------------------------------------------------------------------------
(* wil_vring_alloc: all descriptors software-owned (status DU), empty.     *)
Init ==
  /\ head = 0 /\ tail = 0 /\ doorbell = 0 /\ alive = TRUE
  /\ desc = [i \in Slots |-> Blank]
  /\ ctx = [i \in Slots |-> NoSkb]
  /\ cb = [f \in Frames |-> -1]
  /\ refs = [f \in Frames |-> 1]
  /\ gso \in [Frames -> GsoChoices]
  /\ \E g \in [Frames -> FragChoices] :
       nrFrags = [f \in Frames |-> IF gso[f] = NoTso THEN g[f]
                                   ELSE Len(gso[f].frags)]
  /\ next = 1
  /\ stopped = FALSE
  /\ hwHead = 0 /\ irq = FALSE
  /\ txPackets = 0 /\ unmapErr = FALSE

(* Descriptor j of the chain of frame f, as wil_tx_desc_map writes it:    *)
(* slot 0 holds the linear part (dma_map_single), the others the          *)
(* fragments (skb_frag_dma_map); the last gets EOP (wil_tx_last_desc).    *)
(* The offload bits (wil_tx_desc_offload_setup) and descriptor counts      *)
(* (wil_set_tx_desc_count) are for the device only and are left out.       *)
ChainDesc(f, j, last) ==
  [frame |-> f, kind |-> IF j = 0 THEN "single" ELSE "page", mapped |-> TRUE,
   eop |-> j = last, du |-> FALSE, nodma |-> FALSE]

(* Mutant: wil_start_xmit keeps the caller's reference after success.    *)
StartXmitOkLeak ==
  LET f == next
      n == nrFrags[f] + 1
      slot(j) == (head + j) % RingSize
      chain == {slot(j) : j \in 0..(n - 1)}
  IN /\ alive /\ ~stopped /\ next \in Frames /\ gso[f] = NoTso
     /\ AvailTx(head, tail) >= n
     /\ desc' = [i \in Slots |-> IF i \in chain
                                  THEN ChainDesc(f, Dist(head, i), n - 1)
                                  ELSE desc[i]]
     /\ ctx' = [i \in Slots |-> IF i \in chain THEN f ELSE ctx[i]]
     /\ cb' = [cb EXCEPT ![f] = head]
     /\ refs' = [refs EXCEPT ![f] = @ + n]
     /\ head' = (head + n) % RingSize
     /\ doorbell' = head'
     /\ stopped' = (AvailTx(head, tail) < RingSize \div 8)
     /\ next' = next + 1
     /\ UNCHANGED <<tail, alive, nrFrags, gso, hwHead, irq, txPackets, unmapErr>>

(* wil_tx_vring succeeds: 1 + nr_frags descriptors from swhead, one skb   *)
(* reference per descriptor, head advanced and the doorbell written;      *)
(* wil_start_xmit then drops the caller's reference (NETDEV_TX_OK).        *)
StartXmitOk ==
  LET f == next
      n == nrFrags[f] + 1
      slot(j) == (head + j) % RingSize
      chain == {slot(j) : j \in 0..(n - 1)}
  IN /\ alive /\ ~stopped /\ next \in Frames /\ gso[f] = NoTso
     /\ AvailTx(head, tail) >= n
     /\ desc' = [i \in Slots |-> IF i \in chain
                                  THEN ChainDesc(f, Dist(head, i), n - 1)
                                  ELSE desc[i]]
     /\ ctx' = [i \in Slots |-> IF i \in chain THEN f ELSE ctx[i]]
     /\ cb' = [cb EXCEPT ![f] = head]
     /\ refs' = [refs EXCEPT ![f] = @ + n - 1]
     /\ head' = (head + n) % RingSize
     /\ doorbell' = head'
     /\ stopped' = (AvailTx(head, tail) < RingSize \div 8)
     /\ next' = next + 1
     /\ UNCHANGED <<tail, alive, nrFrags, gso, hwHead, irq, txPackets, unmapErr>>

(* The descriptors wil_tx_vring (1 + nr_frags) or wil_tx_vring_tso        *)
(* (min_desc_required = 3 * nr_frags + 1) asks for before it starts.      *)
Need(f) == IF gso[f] = NoTso THEN nrFrags[f] + 1 ELSE 3 * nrFrags[f] + 1

(* wil_tx_vring or wil_tx_vring_tso returns -ENOMEM: not enough room.     *)
(* The stack keeps the frame and retries it (NETDEV_TX_BUSY).             *)
StartXmitBusy ==
  /\ alive /\ ~stopped /\ next \in Frames
  /\ AvailTx(head, tail) < Need(next)
  /\ stopped' = (AvailTx(head, tail) < RingSize \div 8)
  /\ UNCHANGED <<head, tail, doorbell, alive, desc, ctx, cb, refs, nrFrags, gso,
                 next, hwHead, irq, txPackets, unmapErr>>

(* Mutant: the dma_error unwind drops one skb reference too many.         *)
StartXmitMapFailOverRelease(k) ==
  LET f == next
      slot(j) == (head + j) % RingSize
      undone == {slot(j) : j \in 0..(k - 1)}
  IN /\ alive /\ ~stopped /\ next \in Frames /\ gso[f] = NoTso
     /\ AvailTx(head, tail) >= nrFrags[f] + 1
     /\ k <= nrFrags[f]
     /\ desc' = [i \in Slots |->
                  IF i \in undone
                  THEN [ChainDesc(f, Dist(head, i), nrFrags[f])
                          EXCEPT !.mapped = FALSE, !.du = TRUE]
                  ELSE desc[i]]
     /\ ctx' = [i \in Slots |-> IF i \in undone THEN f ELSE ctx[i]]
     /\ cb' = [cb EXCEPT ![f] = head]
     /\ unmapErr' = (unmapErr \/ \E i \in undone :
                       BadUnmap(ChainDesc(f, Dist(head, i), nrFrags[f]),
                                UnmapKind(i, head)))
     /\ refs' = [refs EXCEPT ![f] = @ - (IF k > 0 THEN 2 ELSE 1)]
     /\ stopped' = TRUE
     /\ next' = next + 1
     /\ UNCHANGED <<head, tail, doorbell, alive, nrFrags, gso, hwHead, irq,
                    txPackets>>

(* A DMA mapping fails after k descriptors were mapped (k = 0: the linear *)
(* part).  The dma_error path unmaps slots swhead + k - 1 down to swhead, *)
(* marks them DU and drops the k references; wil_start_xmit then takes    *)
(* the drop_err path: it stops all Tx queues and frees the frame.         *)
StartXmitMapFail(k) ==
  LET f == next
      slot(j) == (head + j) % RingSize
      undone == {slot(j) : j \in 0..(k - 1)}
  IN /\ alive /\ ~stopped /\ next \in Frames /\ gso[f] = NoTso
     /\ AvailTx(head, tail) >= nrFrags[f] + 1
     /\ k <= nrFrags[f]
     /\ desc' = [i \in Slots |->
                  IF i \in undone
                  THEN [ChainDesc(f, Dist(head, i), nrFrags[f])
                          EXCEPT !.mapped = FALSE, !.du = TRUE]
                  ELSE desc[i]]
     /\ ctx' = [i \in Slots |-> IF i \in undone THEN f ELSE ctx[i]]
     /\ cb' = [cb EXCEPT ![f] = head]
     /\ unmapErr' = (unmapErr \/ \E i \in undone :
                       BadUnmap(ChainDesc(f, Dist(head, i), nrFrags[f]),
                                UnmapKind(i, head)))
     /\ refs' = [refs EXCEPT ![f] = @ - 1]
     /\ stopped' = TRUE
     /\ next' = next + 1
     /\ UNCHANGED <<head, tail, doorbell, alive, nrFrags, gso, hwHead, irq,
                    txPackets>>

(***************************************************************************)
(* wil_tx_vring_tso.  A GSO frame is a shape [lin, frags]: lin is          *)
(* skb_headlen - hdrlen, the linear payload after the headers, and frags   *)
(* the fragment sizes.  Sizes are in units of one byte of a small Mss.     *)
(***************************************************************************)

(* wil_tx_last_desc on the newest data descriptor, if any (with none, d   *)
(* is still the header, which has EOP already).                           *)
CloseLast(ds) == IF ds = <<>> THEN ds ELSE [ds EXCEPT ![Len(ds)].eop = TRUE]

(* The inner loop over one fragment of len bytes with rem_data = rem: at  *)
(* rem_data = 0 close the segment, else map lenmss = min(len, rem_data)   *)
(* bytes as a page descriptor.  The result carries rem_data on.           *)
RECURSIVE TsoFrag(_, _, _)
TsoFrag(ds, len, rem) ==
  IF len <= 0 THEN [ds |-> ds, rem |-> rem]
  ELSE IF rem = 0 THEN TsoFrag(CloseLast(ds), len, Mss)
  ELSE LET lenmss == IF len > rem THEN rem ELSE len IN
       TsoFrag(Append(ds, [kind |-> "page", eop |-> FALSE, nodma |-> FALSE]),
               len - lenmss, rem - lenmss)

RECURSIVE TsoFrags(_, _, _)
TsoFrags(ds, frags, rem) ==
  IF frags = <<>> THEN ds
  ELSE LET r == TsoFrag(ds, Head(frags), rem) IN TsoFrags(r.ds, Tail(frags), r.rem)

(* The descriptors wil_tx_vring_tso fills from swhead: the header         *)
(* (dma_map_single of the headers, EOP, no DMA completion), the linear    *)
(* payload if any (dma_map_single, rem_data = mss - len), then the        *)
(* fragment chunks; the last gets EOP.                                     *)
TsoLayout(sh) ==
  LET hdr == [kind |-> "single", eop |-> TRUE, nodma |-> TRUE]
      lin == <<[kind |-> "single", eop |-> FALSE, nodma |-> FALSE]>>
      ds0 == IF sh.lin > 0 THEN lin ELSE <<>>
      rem0 == IF sh.lin > 0 THEN Mss - sh.lin ELSE Mss
  IN <<hdr>> \o CloseLast(TsoFrags(ds0, sh.frags, rem0))

(* Where a TSO send stops: the number of descriptors mapped.  Len(lay)    *)
(* is success; otherwise a mapping failed there (0: the header) or the    *)
(* "ring overflow TSO" check descs_used == avail fired before a fragment  *)
(* chunk, which it only does once descs_used has reached avail from       *)
(* below.                                                                  *)
TsoStops(sh, avail) ==
  LET lay == TsoLayout(sh)
      base == IF sh.lin > 0 THEN 2 ELSE 1
      stop == IF avail >= base /\ avail < Len(lay) THEN avail ELSE Len(lay)
  IN {stop} \cup {m \in TsoFailPoints : m < stop}

(* wil_start_xmit for GSO frame f whose wil_tx_vring_tso stops after m    *)
(* mapped descriptors, as the variables it leaves:                        *)
(*  - m = all: descriptors written, skb_get per descriptor, swhead and the *)
(*    doorbell advanced, then NETDEV_TX_OK drops the caller's reference;   *)
(*  - m = 0: -EINVAL, drop_err stops the queues and frees the frame;      *)
(*  - else dma_error: for descs_used = m down to 1 it marks DU and unmaps  *)
(*    slot swhead + descs_used (page if above sngl_mapped) and drops a     *)
(*    reference; then drop_err as above.                                   *)
TsoResult(f, m) ==
  LET lay == TsoLayout(gso[f])
      slot(j) == (head + j) % RingSize
      written == {slot(j) : j \in 0..(m - 1)}
      unwound == {slot(j) : j \in 1..m}
      sngl == IF gso[f].lin > 0 /\ m >= 2 THEN slot(1) ELSE head
      fill(i) == LET e == lay[Dist(head, i) + 1] IN
                 [frame |-> f, kind |-> e.kind, mapped |-> TRUE, eop |-> e.eop,
                  du |-> FALSE, nodma |-> e.nodma]
      filled == [i \in Slots |-> IF i \in written THEN fill(i) ELSE desc[i]]
  IN CASE m = Len(lay) ->
            [desc |-> filled, refs |-> refs[f] + m - 1,
             head |-> slot(m), stop |-> AvailTx(head, tail) < RingSize \div 8,
             err |-> unmapErr, sngl |-> sngl]
       [] m = 0 ->
            [desc |-> desc, refs |-> refs[f] - 1, head |-> head, stop |-> TRUE,
             err |-> unmapErr, sngl |-> sngl]
       [] OTHER ->
            [desc |-> [i \in Slots |-> IF i \in unwound
                                       THEN [filled[i] EXCEPT !.mapped = FALSE,
                                                              !.du = TRUE]
                                       ELSE filled[i]],
             refs |-> refs[f] - 1, head |-> head, stop |-> TRUE,
             err |-> unmapErr \/ \E i \in unwound :
                       BadUnmap(filled[i], UnmapKind(i, sngl)),
             sngl |-> sngl]

StartXmitTso ==
  LET f == next IN
  /\ alive /\ ~stopped /\ next \in Frames /\ gso[f] # NoTso
  /\ AvailTx(head, tail) >= Need(f)
  /\ \E m \in TsoStops(gso[f], AvailTx(head, tail)) :
       LET res == TsoResult(f, m) IN
       /\ desc' = res.desc
       /\ ctx' = [i \in Slots |-> IF Dist(head, i) < m THEN f ELSE ctx[i]]
       /\ cb' = [cb EXCEPT ![f] = res.sngl]
       /\ refs' = [refs EXCEPT ![f] = res.refs]
       /\ head' = res.head
       /\ doorbell' = IF m = Len(TsoLayout(gso[f])) THEN res.head ELSE doorbell
       /\ stopped' = res.stop
       /\ unmapErr' = res.err
       /\ next' = next + 1
  /\ UNCHANGED <<tail, alive, nrFrags, gso, hwHead, irq, txPackets>>

(* wil_find_tx_vring finds no initialised vring: the frame is dropped.    *)
StartXmitNoVring ==
  /\ ~alive /\ ~stopped /\ next \in Frames
  /\ refs' = [refs EXCEPT ![next] = @ - 1]
  /\ next' = next + 1
  /\ UNCHANGED <<head, tail, doorbell, alive, desc, ctx, cb, nrFrags, gso,
                 stopped, hwHead, irq, txPackets, unmapErr>>

(* The device processes the descriptor at its read pointer, up to the     *)
(* doorbell.  It writes DU back on the last descriptor of a chain and may *)
(* or may not on the others; the last one has DMA_IT and interrupts.  A    *)
(* TSO header descriptor (segment type 0) makes no DMA completion: no DU, *)
(* no interrupt ("TSO header desc makes no DMA complete").                 *)
HwTxDone ==
  /\ alive /\ hwHead # doorbell
  /\ \E du \in CASE desc[hwHead].nodma -> {desc[hwHead].du}
                  [] desc[hwHead].eop -> {TRUE}
                  [] OTHER -> BOOLEAN :
       desc' = [desc EXCEPT ![hwHead].du = du]
  /\ irq' = (irq \/ (desc[hwHead].eop /\ ~desc[hwHead].nodma))
  /\ hwHead' = (hwHead + 1) % RingSize
  /\ UNCHANGED <<head, tail, doorbell, alive, ctx, cb, refs, nrFrags, gso, next,
                 stopped, txPackets, unmapErr>>

(***************************************************************************)
(* wil_tx_complete.  The scan and release loops work on the record st of  *)
(* the variables they change.                                             *)
(***************************************************************************)

(* Mutant: the first loop ignores DU and releases up to swhead.           *)
SwtailToRelIgnoresDU(st) == st.head

(* First loop: swtail_to_rel is the last slot in [swtail, swhead) whose   *)
(* status has DU, or swtail if there is none.                             *)
SwtailToRel(st) ==
  LET w == Walk(st.tail, st.head)
      done == {k \in DOMAIN w : st.desc[w[k]].du}
  IN IF done = {} THEN st.tail
     ELSE w[CHOOSE k \in done : \A k2 \in done : k2 <= k]

(* Body of the second loop for slot i: count the packet, unmap the        *)
(* descriptor by the sngl_mapped rule, drop the slot's skb reference and  *)
(* blank the descriptor (d0, and with it EOP, is left as it was).         *)
ReleaseSlot(st, i) ==
  LET f == st.ctx[i]
      d == st.desc[i]
  IN IF f = NoSkb
     THEN [st EXCEPT !.desc[i] = [@ EXCEPT !.frame = NoSkb, !.du = FALSE]]
     ELSE [st EXCEPT
             !.txPackets = @ + 1,
             !.unmapErr = @ \/ BadUnmap(d, UnmapKind(i, st.cb[f])),
             !.refs[f] = @ - 1,
             !.ctx[i] = NoSkb,
             !.desc[i] = [@ EXCEPT !.frame = NoSkb, !.mapped = FALSE,
                                   !.du = FALSE]]

(* Second loop: release from swtail up to swtail_to_rel, stopping early   *)
(* at an EOP descriptor whose DU is not set; the stop slot is the new     *)
(* swtail.                                                                 *)
RECURSIVE ReleaseUpTo(_, _)
ReleaseUpTo(st, rel) ==
  IF st.tail = rel \/ (st.desc[st.tail].eop /\ ~st.desc[st.tail].du)
  THEN st
  ELSE ReleaseUpTo([ReleaseSlot(st, st.tail) EXCEPT
                      !.tail = (st.tail + 1) % RingSize], rel)

TxCompleteState ==
  [tail |-> tail, head |-> head, desc |-> desc, ctx |-> ctx, cb |-> cb,
   refs |-> refs, txPackets |-> txPackets, unmapErr |-> unmapErr]

(* The Tx NAPI poll calls wil_tx_complete for the ring; afterwards the    *)
(* queues are woken if more than a quarter of the ring is free.  With no  *)
(* vring it returns at once.                                              *)
TxComplete ==
  LET st0 == TxCompleteState
      st == ReleaseUpTo(st0, SwtailToRel(st0))
  IN /\ irq
     /\ irq' = FALSE
     /\ IF alive
        THEN /\ tail' = st.tail
             /\ desc' = st.desc /\ ctx' = st.ctx /\ refs' = st.refs
             /\ txPackets' = st.txPackets /\ unmapErr' = st.unmapErr
             /\ stopped' = (stopped /\ ~(AvailTx(head, st.tail) > RingSize \div 4))
        ELSE UNCHANGED <<tail, desc, ctx, refs, txPackets, unmapErr, stopped>>
     /\ UNCHANGED <<head, doorbell, alive, cb, nrFrags, gso, next, hwHead>>

(* wil_vring_free(tx = 1): from swtail to swhead, unmap each slot that    *)
(* has an skb (by the sngl_mapped rule) and free the skb; then free the   *)
(* descriptor memory.  The device has stopped using the ring.             *)
VringFiniTx ==
  LET w == Walk(tail, head)
      live == {w[k] : k \in DOMAIN w}
      held == {i \in live : ctx[i] # NoSkb}
  IN /\ alive
     /\ alive' = FALSE
     /\ unmapErr' = (unmapErr \/ \E i \in held :
                       BadUnmap(desc[i], UnmapKind(i, cb[ctx[i]])))
     /\ refs' = [f \in Frames |-> refs[f] - Cardinality({i \in held : ctx[i] = f})]
     /\ desc' = [i \in Slots |-> IF i \in held
                                  THEN [desc[i] EXCEPT !.mapped = FALSE]
                                  ELSE desc[i]]
     /\ ctx' = [i \in Slots |-> IF i \in held THEN NoSkb ELSE ctx[i]]
     /\ tail' = head
     /\ UNCHANGED <<head, doorbell, cb, nrFrags, gso, next, stopped, hwHead, irq,
                    txPackets>>

Next ==
  \/ StartXmitOk
  \/ StartXmitBusy
  \/ \E k \in 0..MaxFrags : StartXmitMapFail(k)
  \/ StartXmitTso
  \/ StartXmitNoVring
  \/ HwTxDone
  \/ TxComplete
  \/ VringFiniTx

Spec == Init /\ [][Next]_vars

(* The device works through what the doorbell published, and NAPI runs    *)
(* wil_tx_complete once the Tx interrupt is raised.                       *)
FairSpec == Spec /\ WF_vars(HwTxDone) /\ WF_vars(TxComplete)

-----------------------------------------------------------------------------

TypeOK ==
  /\ head \in Slots /\ tail \in Slots /\ doorbell \in Slots /\ hwHead \in Slots
  /\ alive \in BOOLEAN /\ stopped \in BOOLEAN /\ irq \in BOOLEAN
  /\ desc \in [Slots -> [frame : Frames \cup {NoSkb},
                         kind : {"single", "page"}, mapped : BOOLEAN,
                         eop : BOOLEAN, du : BOOLEAN, nodma : BOOLEAN]]
  /\ ctx \in [Slots -> Frames \cup {NoSkb}]
  /\ cb \in [Frames -> -1..(RingSize - 1)]
  /\ refs \in [Frames -> Nat]
  /\ next \in 1..(NumFrames + 1)
  /\ txPackets \in Nat /\ unmapErr \in BOOLEAN

(* Slot ownership: the slots in [swtail, swhead) are exactly the mapped   *)
(* descriptors, and each holds the skb its address belongs to.  A         *)
(* transmit that wrote into a slot the completion path had not yet        *)
(* vacated, or a completion that blanked a slot it did not own, breaks it *)
(* (wil_vring_avail_tx, wil_tx_vring, wil_tx_complete).                   *)
SlotOwnership ==
  \A i \in Slots :
    IF InUse(i) THEN desc[i].mapped /\ ctx[i] # NoSkb /\ ctx[i] = desc[i].frame
    ELSE ~desc[i].mapped

(* Reference counting: every frame the stack has not handed over holds    *)
(* its one reference; after that its count is the number of ring slots    *)
(* still pointing at it, so it is freed exactly when the last of its      *)
(* descriptors is reclaimed, never earlier and never twice (skb_get in    *)
(* wil_tx_vring, dev_kfree_skb_any in wil_start_xmit and wil_tx_complete).*)
FrameRefs ==
  \A f \in Frames :
    refs[f] = Cardinality({i \in Slots : InUse(i) /\ ctx[i] = f})
              + (IF f >= next THEN 1 ELSE 0)

(* While the ring is alive the driver never reclaims a descriptor the     *)
(* device has not processed: swtail stays between the device's read      *)
(* pointer and swhead going backwards (wil_tx_complete's two loops).      *)
TailBehindHardware ==
  alive => Dist(tail, hwHead) <= Dist(tail, head)

(* Every dma_unmap_single / dma_unmap_page call matches a live mapping    *)
(* made with the same API (the sngl_mapped rule of wil_tx_complete,       *)
(* wil_tx_vring's dma_error path and wil_vring_free).                     *)
UnmapMatchesMap == ~unmapErr

(* Reclaim keeps up with the device: once it has processed everything   *)
(* the doorbell published, wil_tx_complete (run on the interrupt)         *)
(* eventually reclaims every descriptor but the last completed one, which *)
(* swtail_to_rel holds back until later traffic.  A descriptor the device *)
(* never completes must not be left at swtail.                            *)
ReclaimCatchesUp ==
  (alive /\ hwHead = head /\ Dist(tail, head) > 1)
    ~> (~alive \/ Dist(tail, head) <= 1)

(* Stopped Tx queues are eventually woken (netif_tx_stop_all_queues in    *)
(* wil_start_xmit, netif_tx_wake_all_queues in wil_tx_complete).          *)
QueueEventuallyWoken == stopped ~> ~stopped

=============================================================================
