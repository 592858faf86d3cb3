------------------------------ MODULE TxVrings -------------------------------
(***************************************************************************)
(* The Tx vrings of one device and how wil_start_xmit chooses among them   *)
(* (txrx.c): wil_vring_init_tx / wil_vring_fini_tx, vring2cid_tid,         *)
(* wil_find_tx_vring, wil_find_first_tx_vring, wil_set_da_for_vring,       *)
(* wil_tx_bcast and the dispatch and result switch of wil_start_xmit.      *)
(*                                                                         *)
(* TxRing models one vring's descriptors; here a vring is the sequence q   *)
(* of skbs it holds a reference to, one descriptor per skb, and            *)
(* wil_tx_vring is reduced to its three results: 0 (queued, one skb_get),  *)
(* -ENOMEM (no room) and -EINVAL (dma_map_single of the head failed).      *)
(* The device and wil_tx_complete are one step that completes the oldest   *)
(* skb of a vring.  An skb is a number with a reference count and the      *)
(* destination address in its Ethernet header (da): a CID's MAC address,   *)
(* NoPeer (an address wil_find_cid does not know) or Bcast.               *)
(***************************************************************************)
EXTENDS Integers, Sequences, FiniteSets, FiniteSetsExt

CONSTANTS
  Vrings,      \* vring indices 0..n-1 (WIL6210_MAX_TX_RINGS = 24)
  Cids,        \* CIDs (WIL6210_MAX_CID = 8)
  Connected,   \* CIDs wil_find_cid maps an address to
  NumFrames,   \* skbs the network stack offers
  Dests,       \* destination addresses a frame from the stack may carry
  Protos,      \* skb->protocol: "data" or "eapol" (ETH_P_PAE)
  IfTypes,     \* wdev->iftype: "ap", "sta", "p2p_client", "monitor"
  RingSize,    \* vring->size
  MaxCopies,   \* bound on the skb_copy calls of wil_tx_bcast
  MaxInits,    \* bound on wil_vring_init_tx calls
  NoPeer, Bcast, NoVring

Frames == 1..NumFrames
Copies == (NumFrames + 1)..(NumFrames + MaxCopies)
Skbs == Frames \cup Copies

ASSUME Connected \subseteq Cids /\ Dests \subseteq Cids \cup {NoPeer, Bcast}

VARIABLES
  va,        \* vring_tx[i].va != NULL
  v2c,       \* vring2cid_tid[i][0]; the priv struct starts zeroed
  q,         \* the skbs vring_tx[i].ctx holds, oldest first
  refs,      \* skb reference counts
  da,        \* eth->h_dest of each skb
  proto,     \* skb->protocol of each frame from the stack
  iftype,    \* wdev->iftype
  atStack,   \* frames the network stack still holds and will (re)send
  stopped,   \* netif Tx queues stopped
  nextCopy,  \* the skb the next skb_copy returns
  inits      \* wil_vring_init_tx calls so far

vars == <<va, v2c, q, refs, da, proto, iftype, atStack, stopped, nextCopy,
          inits>>

(* Mutant: the free-slot count forgets the slot kept empty.              *)
AvailNoReserve(v) == RingSize - Len(q[v])

(* wil_vring_avail_tx, one descriptor per skb. *)
Avail(v) == RingSize - Len(q[v]) - 1

(* Mutant: the lookup returns the first vring naming the CID, live or not. *)
FindTxVringNoVa(d) ==
  LET hits == {i \in Vrings : v2c[i] = d} IN
  IF d \notin Connected \/ hits = {} THEN NoVring ELSE Min(hits)

(* wil_find_tx_vring: wil_find_cid, then the first vring whose             *)
(* vring2cid_tid entry names the CID; NULL if that vring is not live, even *)
(* when a later one is.                                                     *)
FindTxVring(d) ==
  LET hits == {i \in Vrings : v2c[i] = d} IN
  IF d \notin Connected \/ hits = {} THEN NoVring
  ELSE IF va[Min(hits)] THEN Min(hits) ELSE NoVring

(* wil_find_first_tx_vring: the live vring of lowest index. *)
FindFirstTxVring ==
  IF \A i \in Vrings : ~va[i] THEN NoVring ELSE Min({i \in Vrings : va[i]})

(* The h_dest wil_tx_bcast leaves in a broadcast skb sent on vring v:     *)
(* wil_set_da_for_vring copies the peer's address, except on a station.   *)
BcastDa(v) == IF iftype \in {"sta", "p2p_client"} THEN Bcast ELSE v2c[v]

(* Results wil_tx_vring can return for one skb on vring v: -ENOMEM when   *)
(* avail < 1 + nr_frags, else 0 or the head's mapping failure.            *)
TxVringResults(v) == IF Avail(v) < 1 THEN {"nomem"} ELSE {"ok", "einval"}

(* wil_tx_vring stops all queues on entry when avail < size/8. *)
StopsQueues(v) == Avail(v) < RingSize \div 8

(* Mutant: each copy keeps the address set for the first vring.         *)
CopyDaFirst(first, j) == BcastDa(first)

(* The address wil_set_da_for_vring gives the copy sent on vring j. *)
CopyDa(first, j) == BcastDa(j)

(* wil_tx_bcast from the first live vring on: rewrite the frame's address *)
(* for that vring, then for every later live vring make an skb_copy (the  *)
(* ones in ok succeed), address it to that vring's peer and pass it to    *)
(* wil_tx_vring, whose result res is ignored.  The copy's own reference   *)
(* from skb_copy is never dropped.                                         *)
TxBcast(f, first, ok, res) ==
  LET id(j) == nextCopy + Cardinality({k \in ok : k < j}) IN
  [q  |-> [v \in Vrings |->
             IF v \in ok /\ res[v] = "ok" THEN Append(q[v], id(v)) ELSE q[v]],
   refs |-> [s \in Skbs |->
               IF \E j \in ok : s = id(j)
               THEN 1 + (IF res[CHOOSE j \in ok : s = id(j)] = "ok" THEN 1 ELSE 0)
               ELSE refs[s]],
   da   |-> [s \in Skbs |->
               CASE s = f -> BcastDa(first)
                 [] \E j \in ok : s = id(j) ->
                      CopyDa(first, CHOOSE j \in ok : s = id(j))
                 [] OTHER -> da[s]],
   stop |-> \E j \in ok : StopsQueues(j)]

-----------------------------------------------------------------------------

Init ==
  /\ va = [i \in Vrings |-> FALSE]
  /\ v2c = [i \in Vrings |-> 0]
  /\ q = [i \in Vrings |-> <<>>]
  /\ refs = [s \in Skbs |-> IF s \in Frames THEN 1 ELSE 0]
  /\ \E d \in [Frames -> Dests] : da = [s \in Skbs |-> IF s \in Frames THEN d[s] ELSE Bcast]
  /\ proto \in [Frames -> Protos]
  /\ iftype \in IfTypes
  /\ atStack = Frames
  /\ stopped = FALSE
  /\ nextCopy = NumFrames + 1
  /\ inits = 0

(* wil_vring_init_tx(id, cid): -EINVAL if the vring is live; otherwise     *)
(* wil_vring_alloc may fail (-ENOMEM), vring2cid_tid is written, and the   *)
(* WMI_VRING_CFG command may fail or be refused, which frees the vring but *)
(* leaves the vring2cid_tid entry behind.                                  *)
VringInitTx(id, c) ==
  /\ inits < MaxInits
  /\ inits' = inits + 1
  /\ \/ va[id] /\ UNCHANGED <<va, v2c>>
     \/ ~va[id] /\ UNCHANGED <<va, v2c>>                            \* -ENOMEM
     \/ ~va[id] /\ v2c' = [v2c EXCEPT ![id] = c] /\ UNCHANGED va     \* WMI failed
     \/ ~va[id] /\ v2c' = [v2c EXCEPT ![id] = c] /\ va' = [va EXCEPT ![id] = TRUE]
  /\ UNCHANGED <<q, refs, da, proto, iftype, atStack, stopped, nextCopy>>

(* wil_vring_fini_tx: wil_vring_free(tx) drops every skb the vring holds. *)
VringFiniTx(id) ==
  /\ va[id]
  /\ va' = [va EXCEPT ![id] = FALSE]
  /\ q' = [q EXCEPT ![id] = <<>>]
  /\ refs' = [s \in Skbs |->
                refs[s] - Cardinality({k \in DOMAIN q[id] : q[id][k] = s})]
  /\ UNCHANGED <<v2c, da, proto, iftype, atStack, stopped, nextCopy, inits>>

(* Mutant: NETDEV_TX_BUSY also frees the frame the stack keeps.         *)
XmitResultBusyFrees(f, v, r, qq, rr, stop) ==
  /\ q' = IF r = "ok" THEN [qq EXCEPT ![v] = Append(@, f)] ELSE qq
  /\ refs' = [rr EXCEPT ![f] = IF r # "ok" THEN @ - 1 ELSE @]
  /\ atStack' = IF r = "nomem" THEN atStack ELSE atStack \ {f}
  /\ stopped' = (stopped \/ stop \/ StopsQueues(v) \/ r = "einval")

(* The switch of wil_start_xmit on the result r of wil_tx_vring for frame *)
(* f on vring v, given the queues qq and counts rr after any broadcast    *)
(* copies: 0 frees the stack's reference, -ENOMEM returns NETDEV_TX_BUSY  *)
(* and the stack keeps the frame, anything else is drop_err, which stops  *)
(* all queues and frees the frame.                                         *)
XmitResult(f, v, r, qq, rr, stop) ==
  /\ q' = IF r = "ok" THEN [qq EXCEPT ![v] = Append(@, f)] ELSE qq
  /\ refs' = [rr EXCEPT ![f] = IF r = "einval" THEN @ - 1 ELSE @]
  /\ atStack' = IF r = "nomem" THEN atStack ELSE atStack \ {f}
  /\ stopped' = (stopped \/ stop \/ StopsQueues(v) \/ r = "einval")

(* A frame freed before any vring is tried: `drop` (withStop FALSE) or    *)
(* `drop_err` (withStop TRUE).                                             *)
Drop(f, withStop) ==
  /\ refs' = [refs EXCEPT ![f] = @ - 1]
  /\ atStack' = atStack \ {f}
  /\ stopped' = (stopped \/ withStop)
  /\ UNCHANGED q

(* Monitor mode: wil_start_xmit drops the frame. *)
XmitMonitor(f) ==
  /\ iftype = "monitor"
  /\ Drop(f, FALSE)
  /\ UNCHANGED <<da, nextCopy>>

(* EAPOL goes to wmi_tx_eapol; a failure takes the drop_err path. *)
XmitEapol(f) ==
  /\ iftype # "monitor" /\ proto[f] = "eapol"
  /\ \E sent \in BOOLEAN :
       IF sent THEN /\ refs' = [refs EXCEPT ![f] = @ - 1]
                    /\ atStack' = atStack \ {f}
                    /\ UNCHANGED <<q, stopped>>
       ELSE Drop(f, TRUE)
  /\ UNCHANGED <<da, nextCopy>>

(* A unicast frame goes to the vring wil_find_tx_vring returns, or is     *)
(* dropped when there is none.                                             *)
XmitUnicast(f) ==
  LET v == FindTxVring(da[f]) IN
  /\ iftype # "monitor" /\ proto[f] = "data" /\ da[f] # Bcast
  /\ IF v = NoVring THEN Drop(f, FALSE)
     ELSE \E r \in TxVringResults(v) : XmitResult(f, v, r, q, refs, FALSE)
  /\ UNCHANGED <<da, nextCopy>>

(* A broadcast frame: wil_tx_bcast sends the copies, then the frame goes  *)
(* to the first live vring; with no live vring it is drop_err.            *)
XmitBcast(f) ==
  LET first == FindFirstTxVring
      later == {j \in Vrings : first # NoVring /\ j > first /\ va[j]}
  IN
  /\ iftype # "monitor" /\ proto[f] = "data" /\ da[f] = Bcast
  /\ IF first = NoVring
     THEN Drop(f, TRUE) /\ UNCHANGED <<da, nextCopy>>
     ELSE \E ok \in SUBSET later :
          \E res \in [ok -> {"ok", "nomem", "einval"}] :
          \E r \in TxVringResults(first) :
            LET b == TxBcast(f, first, ok, res) IN
            /\ nextCopy + Cardinality(ok) <= NumFrames + MaxCopies + 1
            /\ \A j \in ok : res[j] \in TxVringResults(j)
            /\ XmitResult(f, first, r, b.q, b.refs, b.stop)
            /\ da' = b.da
            /\ nextCopy' = nextCopy + Cardinality(ok)

(* wil_start_xmit, called by the stack for a frame it holds while the     *)
(* queues run.  The fw-ready and fw-connected status bits are taken as    *)
(* set.                                                                    *)
StartXmit(f) ==
  /\ f \in atStack /\ ~stopped
  /\ \/ XmitMonitor(f)
     \/ XmitEapol(f)
     \/ XmitUnicast(f)
     \/ XmitBcast(f)
  /\ UNCHANGED <<va, v2c, proto, iftype, inits>>

(* The device sends the oldest skb of vring v and wil_tx_complete frees   *)
(* it, then wakes all queues when more than size/4 slots are free.        *)
TxComplete(v) ==
  /\ va[v] /\ q[v] # <<>>
  /\ q' = [q EXCEPT ![v] = Tail(@)]
  /\ refs' = [refs EXCEPT ![Head(q[v])] = @ - 1]
  /\ stopped' = (stopped /\ ~(RingSize - Len(q'[v]) - 1 > RingSize \div 4))
  /\ UNCHANGED <<va, v2c, da, proto, iftype, atStack, nextCopy, inits>>

Next ==
  \/ \E id \in Vrings, c \in Connected : VringInitTx(id, c)
  \/ \E id \in Vrings : VringFiniTx(id)
  \/ \E f \in Frames : StartXmit(f)
  \/ \E v \in Vrings : TxComplete(v)

Spec == Init /\ [][Next]_vars

-----------------------------------------------------------------------------

(* How many references the vrings hold to skb s. *)
Held(s) == Cardinality({<<v, k>> \in Vrings \X (1..RingSize) :
                          k <= Len(q[v]) /\ q[v][k] = s})

TypeOK ==
  /\ va \in [Vrings -> BOOLEAN]
  /\ v2c \in [Vrings -> Cids]
  /\ \A v \in Vrings : q[v] \in Seq(Skbs) /\ Len(q[v]) < RingSize
  /\ refs \in [Skbs -> Nat]
  /\ da \in [Skbs -> Cids \cup {NoPeer, Bcast}]
  /\ atStack \subseteq Frames
  /\ stopped \in BOOLEAN
  /\ nextCopy \in (NumFrames + 1)..(NumFrames + MaxCopies + 1)

(* Routing: every skb a vring holds sits on a live vring and carries the  *)
(* address of that vring's peer, or the broadcast address on a station.   *)
(* wil_find_tx_vring trusts vring2cid_tid, which wil_vring_fini_tx and a  *)
(* failed WMI_VRING_CFG leave stale and which starts zeroed (CID 0 on     *)
(* every vring); wil_tx_bcast rewrites addresses per vring.               *)
RoutedToPeer ==
  \A v \in Vrings : \A k \in 1..Len(q[v]) :
    /\ va[v]
    /\ \/ da[q[v][k]] = v2c[v]
       \/ da[q[v][k]] = Bcast /\ iftype \in {"sta", "p2p_client"}

(* The references to a frame from the stack are the stack's own, while it *)
(* still holds the frame (including after NETDEV_TX_BUSY), and one per    *)
(* vring slot holding it: wil_start_xmit, wil_tx_complete and             *)
(* wil_vring_free balance skb_get and dev_kfree_skb for it.               *)
FrameRefs ==
  \A f \in Frames : refs[f] = Held(f) + (IF f \in atStack THEN 1 ELSE 0)

(* No skb leaks: every reference to any skb, the copies wil_tx_bcast      *)
(* makes with skb_copy included, is held by the stack or a vring slot.    *)
NoSkbLeak ==
  \A s \in Skbs : refs[s] = Held(s) + (IF s \in atStack THEN 1 ELSE 0)

====
