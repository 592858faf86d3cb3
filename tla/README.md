# TLA+ models of the wil6210 data path

This directory holds TLA+ specifications of the wil6210 60 GHz (WiGig) driver in
`src/Wigig_release_2.0.2/work/wil6210/`, with TLC configurations that check
them. `PROJECT.json` lists the components, every run, the mutants that show each
checked property can fail, the source lines each definition models, the
findings and the hazards.

## The system

The driver moves frames between the Linux network stack and the device through
DMA descriptor rings (`struct vring`, `txrx.c`):

- **Tx ring.** `wil_start_xmit` picks a vring and calls `wil_tx_vring` (or
  `wil_tx_vring_tso` for GSO frames). That writes one descriptor per skb part
  from `swhead` on, takes one skb reference per descriptor, advances `swhead`
  and rings the doorbell (`hwtail`). The device processes the descriptors and
  sets DU (descriptor used) in their status. On the Tx interrupt, NAPI calls
  `wil_tx_complete`, which reclaims descriptors from `swtail` on, unmaps them,
  drops the skb references and wakes the stopped queues. `wil_vring_free` tears
  a ring down.
- **Rx ring.** `wil_rx_refill` keeps the ring stocked with fresh skbs.
  `wil_rx_handle` (NAPI) reaps completed descriptors with `wil_vring_reap_rx`
  and passes each frame to `wil_rx_reorder`.
- **Rx reorder buffer** (`rx_reorder.c`). Each (CID, TID) block-ack session is a
  `struct wil_tid_ampdu_rx`. `wil_rx_reorder` buffers out-of-order frames in a
  window of `buf_size` slots indexed by `reorder_index`, and releases them to
  the stack in 12-bit sequence-number order.
- **Block-ack session management.** An ADDBA request event from the firmware
  calls `wil_rcp_addba_request`, which queues a request on `back_pending` under
  `back_mutex` and queues `back_worker`. The worker pops requests
  (`next_back`). For each one, `wil_back_handle` answers the firmware, frees the
  old session of the TID (flushing it to the stack) and allocates a new one.
  It does this with no exclusion against NAPI, which reads `sta->tid_rx[tid]`
  for every received frame.
- **Remain-on-channel** (`offchannel.c`). cfg80211 calls `wil_prepare_roc`
  under `wil->mutex`. It takes a cookie from `roc_counter` and calls
  `wil_start_roc`, which sends the discovery WMI commands and queues the
  delayed work `wil_roc_cancel_work` on `roc_wq` after the ROC's duration. That
  work, under the same mutex, stops discovery, reports
  `remain_on_channel_expired` and clears the cookie. `wil_cancel_roc` flushes
  the work, running it early. One ROC is in progress at a time; another
  request gets `-EBUSY`.
- **debugfs, logging and the firmware-trace tool** (`debugfs.c`, `debug.c`,
  `tools/trace.c`) print state. A few debugfs files also send WMI commands or
  reset the device for debugging.

The actors are:

| Actor | Runs | Lock it takes |
|---|---|---|
| the network stack, calling `wil_start_xmit` | process or softirq context | none |
| the Tx and Rx NAPI polls | softirq | `reorder_lock` (Rx) |
| the block-ack worker | workqueue | `back_mutex` |
| the WMI event handler, calling `wil_rcp_addba_request` | — | `back_mutex` |
| cfg80211, calling `wil_prepare_roc` and `wil_cancel_roc` | process context | `wil->mutex` (prepare) |
| the ROC timer and the `roc_wq` worker running `wil_roc_cancel_work` | timer softirq, workqueue | `wil->mutex` (work) |
| the device (DMA engine) | concurrently with all of them | — |

## Modules

| Module | Models | State | Actions |
|---|---|---|---|
| `ReorderWindow` | what a reorder session promises: frames reach the stack in sequence order, only frames received reach it, nothing buffered is overtaken, and teardown hands over everything buffered | `held` (set of buffered frames), `open`, `out`, `dropped`, `arrivals` | `Drop(seq)`, `Keep(seq)`, `Close` |
| `RxReorder` | one block-ack session: `wil_rx_reorder`, `wil_release_reorder_frame(s)`, `wil_reorder_release`, `wil_tid_ampdu_rx_alloc/free` | `r` (the struct: `ssn`, `head`, `bufSize`, `stored`, `lastDrop`, `buf`), `open`, `out` (frames given to `wil_netif_rx_any`), `dropped`, `arrivals` | `RxReorder(seq)`, `TidAmpduRxFree` |
| `RxBack` | ADDBA handling and its race with NAPI: `wil_rcp_addba_request`, `wil_back_worker`, `next_back`, `wil_back_handle`, `wil_back_flush`, the lookup in `wil_rx_reorder` | `reqs`, `pending`, `workQueued`, `workRunning`, `wpc`/`wreq` (where the worker is), `tidRx`, `sess`/`sessWin` (sessions), `handled`, `flushed`, `napi` | `AddbaRequest`, `WorkerStart`, `NextBack`, `WorkerExit`, `BackHandle`, `BackAlloc`, `BackFlush`, `RxLookup(k)`, `RxLocked` |
| `TxRing` | one Tx vring: `wil_vring_alloc`, `wil_tx_vring` and `wil_tx_vring_tso` with `wil_start_xmit`, the device, `wil_tx_complete`, `wil_vring_free(tx)` | `head`, `tail`, `doorbell`, `alive`, `desc` (frame, map kind, mapped, EOP, DU, no-DMA per slot), `ctx`, `cb` (`sngl_mapped`), `refs`, `nrFrags`, `gso`, `next`, `stopped`, `hwHead`, `irq`, `txPackets`, `unmapErr` | `StartXmitOk`, `StartXmitBusy`, `StartXmitMapFail(k)`, `StartXmitTso`, `StartXmitNoVring`, `HwTxDone`, `TxComplete`, `VringFiniTx` |
| `RxRing` | the Rx vring: `wil_vring_alloc_skb`, `wil_rx_refill`, `wil_vring_reap_rx`, `wil_rx_handle`, `wil_rx_init`, `wil_rx_fini`, `wil_vring_free(rx)`, the device and the NAPI scheduling | `head`, `tail`, `doorbell`, `hwPtr`, `alive`, `desc` (DU, frame kind, mapped), `ctx`, `sched`, `inits`, `rxCount`, skb counters (`allocated`, `delivered`, `dropped`, `torn`), `dmaErr` | `RxInit`, `HwRx`, `NapiPoll`, `RxFini` |
| `TxVrings` | the set of Tx vrings and how `wil_start_xmit` chooses among them: `wil_vring_init_tx`, `wil_vring_fini_tx`, `vring2cid_tid`, `wil_find_tx_vring`, `wil_find_first_tx_vring`, `wil_set_da_for_vring`, `wil_tx_bcast`, the dispatch and result switch of `wil_start_xmit`, `wil_tx_complete` per vring | `va` (live vrings), `v2c` (`vring2cid_tid`), `q` (skbs each vring holds), `refs`, `da` (each skb's `h_dest`), `proto`, `iftype`, `atStack`, `stopped`, `nextCopy`, `inits` | `VringInitTx(id, c)`, `VringFiniTx(id)`, `StartXmit(f)` (`XmitMonitor`, `XmitEapol`, `XmitUnicast`, `XmitBcast`), `TxComplete(v)` |
| `RocSession` | what remain-on-channel promises cfg80211: one period on channel at a time, a fresh cookie for each, ready before expired, each once, a frame's request answered by one Tx status, every period eventually expiring | `onChannel`, `told` | `Ready(c)`, `TxStatus(c)`, `Expire` |
| `RemainOnChannel` | remain-on-channel: `wil_prepare_roc`, `wil_start_roc`, `wil_roc_cancel_work`, `wil_cancel_roc`, the delayed work's timer and worker | `cookie`, `mgmt` (`mgmt_tx_cookie != 0`), `started`, `duration`, `counter` (`roc_counter`), `work` (idle, timer armed, pending, running), `note` (what cfg80211 was told per cookie), `flush`/`seen` (`wil_cancel_roc` waiting, and the ROC on channel when it was called) | `WilPrepareRoc(hasBuf, dur)`, `TimerFire`, `WorkRun`, `WilRocCancelWork`, `WilCancelRoc`, `WilCancelRocReturn` |

`MCRxReorder`, `MCRxBack`, `MCTxRing` and `MCRxRing` give the constants TLC
needs.

**RxReorder.** Each operation runs under `reorder_lock`, so one call of
`wil_rx_reorder` is one step. The C loops are `RECURSIVE` operators over a
pair `[r, out]`, because releasing a frame both changes the session and
delivers the frame. `RxReorder` instantiates `ReorderWindow` with
`held <- {r.buf[i] : i \in Occupied}` (the other variables map to themselves).
The run checks `ImplementsWindow == Window!Spec` as a property, so every step
of the driver is a step of the abstract session, or a stutter.

**RxBack.** The worker and NAPI share no lock, so the worker's handler is split
where another actor can see a difference:

1. after `next_back` pops the request;
2. after `wil_tid_ampdu_rx_free`;
3. after the new pointer is stored.

`wil_rx_reorder` is split where it reads `sta->tid_rx[tid]` and where it takes
the session's lock. A session is represented by its identity, its `buf_size`
and whether it is live or freed. Its buffer contents are `RxReorder`'s
subject.

Three outcomes the code does not control are nondeterministic:
- `wmi_rcp_addba_resp` succeeds or fails;
- `kzalloc`/`kcalloc` succeed or return NULL;
- the CID is valid and connected, or not.

**TxRing.** `wil_start_xmit` and `wil_tx_complete` each run as one step. That
is sound because each publishes its ring index as its last write, and they
touch disjoint slots. `SlotOwnership` checks the second point.

A GSO frame is a shape `[lin, frags]`: the linear payload after the headers and
the fragment sizes, in bytes of a small `Mss`. `TsoLayout` translates the
segmentation loop of `wil_tx_vring_tso` (`RECURSIVE` over fragments and
chunks). It yields the header descriptor, the linear descriptor and the chunks,
each with its map kind and EOP bit. `TsoStops` gives where the send can stop:
- success;
- a mapping failure after `m` descriptors (`TsoFailPoints`);
- the `descs_used == avail` overflow check.

`TsoResult` gives the state each outcome leaves, unwind included.

The device is modelled from the hardware contract (spec-modelled):
- it moves a read pointer `hwHead` up to the doorbell;
- it sets DU on the last (EOP) descriptor of a chain, and may or may not on
  the others;
- it raises the Tx interrupt after an EOP descriptor;
- the TSO header descriptor makes no DMA completion: no DU and no interrupt.
  This is the driver's own comment at `txrx.c:945`.

The `unmapErr` ghost flag records a `dma_unmap_*` call made with the wrong API
or on an unmapped descriptor. Frames are numbered `1..NumFrames`, each with a
reference count, a fragment count and a GSO shape chosen at Init.

**TxVrings.** `TxRing` models the descriptors of one vring; `TxVrings` models
which vring a frame goes to. A vring is the sequence of skbs it holds, one
descriptor per skb, and `wil_tx_vring` is reduced to its three results
(`TxVringResults`): 0 (one `skb_get`), `-ENOMEM` when no slot is free, and
`-EINVAL` when the head's mapping fails. `wil_start_xmit` is one step
(`StartXmit`) whose disjuncts are its dispatch: monitor mode, EAPOL (sent or
not through WMI), unicast through `wil_find_tx_vring`, and multicast through
`wil_tx_bcast`. The result switch (`XmitResult`) frees the stack's reference on
0, keeps the frame at the stack on `-ENOMEM` (`NETDEV_TX_BUSY`, the stack
resends it), and otherwise stops the queues and frees the frame (`drop_err`).
`wil_tx_bcast` (`TxBcast`) rewrites the frame's destination for the first live
vring, then sends an `skb_copy` (which may fail) on each later live vring,
addressed to that vring's peer, ignoring the result. `vring2cid_tid` starts
zeroed, so every vring names CID 0 until set up, and an entry stays behind when
`wil_vring_fini_tx` runs or `WMI_VRING_CFG` fails. The device and
`wil_tx_complete` are one step (`TxComplete`) that completes the oldest skb of
a vring and wakes the queues above `size/4` free slots. The firmware-ready and
connected status bits are taken as set.

**RemainOnChannel.** `wil_prepare_roc` holds `wil->mutex` from start to end,
and `wil_roc_cancel_work` does all its work under it, so each is one step
(`WilPrepareRoc`, `WilRocCancelWork`). `WilStartRoc` reduces the three WMI
commands to success or failure. On success the ROC is started, and the work is
queued at once for a zero delay or its timer is armed (`QueueCancelWork`). The
workqueue is modelled from the kernel's contract (spec-modelled): an armed
timer fires and queues the work (`TimerFire`), and a worker takes queued work
and calls it (`WorkRun`). `wil_cancel_roc`'s `flush_delayed_work` is two
steps: `WilCancelRoc` fires an armed timer at once and starts waiting for the
work, and `WilCancelRocReturn` returns once the work has run. `note` records
what cfg80211 was told about each cookie: `ready_on_channel`,
`remain_on_channel_expired` or `mgmt_tx_status`. `RocSession` is the abstract
specification. `RemainOnChannel` instantiates it with `note` as `told`, and
with the current cookie as the one on channel when the ROC carries no frame.
Two things are left out:
- the firmware's discovery state, because `wmi.c` is not in this repository;
- the moment between the work's `mutex_unlock` and its return, which touches
  no driver state.

**RxRing.** For Rx, the driver posts buffers at `swtail` and reaps at `swhead`.
A NAPI poll is one step. It runs `wil_rx_handle`'s loop over
`wil_vring_reap_rx` with the quota, then the `wil_rx_refill` after it, and it
stays scheduled only if it used its whole quota. Allocation failure in a refill
is modelled as `nOk` successful allocations, followed by a failure if `nOk` runs
out. A slot keeps what the driver reads back:
- whether `ctx[]` holds an skb;
- whether its address is a live DMA mapping;
- DU;
- the frame kind (data, or ctrl/short, which reap frees).

The `dmaErr` ghost flag records an unmap of a dead mapping or a free of a
still-mapped skb.

## Runs

| Run | Config | Expect | What it shows |
|---|---|---|---|
| rx_reorder | `RxReorder.cfg` | pass | A window of 4 (which divides 4096), with heads at the SSN and just below the 12-bit wrap, refines `ReorderWindow` (`ImplementsWindow`). Every stored frame stays in the window at its slot (`WindowSlots`). No frame is lost, including at teardown (`NoFrameLost`). |
| tx_ring | `TxRing.cfg` | pass | Plain and GSO frames, with mapping failures of plain frames: slots in `[swtail, swhead)` are exactly the mapped descriptors (`SlotOwnership`). skb reference counts equal the slots that point at the skb (`FrameRefs`). `swtail` never passes the device (`TailBehindHardware`). |
| tso_unwind | `TsoUnwind.cfg` | violation | A mapping failure in `wil_tx_vring_tso` unwinds slots `swhead+1..swhead+n` instead of `swhead..swhead+n-1`. It unmaps a never-mapped slot and leaves the header mapped. |
| tso_header_stall | `TsoHeaderStall.cfg` | violation | The TSO header has EOP but no DU, and `wil_tx_complete` stops there for good (`ReclaimCatchesUp`). |
| rx_back | `RxBack.cfg` | pass | Requests are handled once each, in arrival order (`HandledInOrder`), and none is stranded by a lost worker wakeup (`RequestEventuallyHandled`). `tid_rx` never dangles outside the worker's free/alloc window (`NoDanglingAtRest`), and every live session is reachable (`SessionsReachable`). |
| back_session_uaf | `BackSessionUaf.cfg` | violation | The worker frees the session NAPI has just looked up. |
| back_window_size | `BackWindowSize.cfg` | violation | A peer's buffer size of 0 yields a session with `buf_size` 0, and `reorder_index` then divides by it (`ReorderableWindow`). With sizes `{3, 64}` the same property shows a window of 3, which does not divide 4096 and which `RxReorder` with `BufSize = 3` shows delivering a frame twice across the wrap. |
| rx_ring | `RxRing.cfg` | pass | With data and ctrl frames, failed inits, partial refills and teardown, the driver reaps only what the device wrote (`ReapBehindDevice`). Posted slots are exactly the mapped ones with an skb (`RxSlotOwnership`), and every skb is accounted for, ctrl frames freed in the reap included (`SkbConservation`). No liveness is claimed here: see the control-frame stall below. |
| rx_teardown_unmap | `RxTeardownUnmap.cfg` | violation | `wil_vring_free` on the Rx ring unmaps the descriptor at `swtail` on every iteration and frees the skbs at `swhead` while they are still mapped. `wil_rx_init` reaches this when its refill fails partway. |
| tx_vrings | `TxVrings.cfg` | pass | Three vrings, two CIDs, vring setup (including WMI failure) and teardown, unicast, EAPOL, monitor and broadcast frames on AP, station and monitor interfaces: every queued frame is on a live vring whose CID is its destination, or is a broadcast on a station's one vring (`RoutedToPeer`). Every original frame's reference count equals the descriptors holding it plus the stack's reference, through `NETDEV_TX_BUSY` and `drop_err` (`FrameRefs`). |
| bcast_copy_leak | `BcastCopyLeak.cfg` | violation | With two live vrings, `wil_tx_bcast` sends an `skb_copy` on the second vring and never drops the copy's own reference: after completion the copy still has one (`NoSkbLeak`). |
| remain_on_channel | `RemainOnChannel.cfg` | pass | Three requests, with and without a frame and a delay, succeeding or failing, race their timers, the worker and `wil_cancel_roc`. The ROC cfg80211 believes is on channel is always the driver's current one, with its cancel work armed, queued or running (`ReadyRocScheduled`). The driver refines `RocSession` (`ImplementsRocSession`). That means one period is on channel at a time, and each cookie gets `ready_on_channel` before `remain_on_channel_expired`, each at most once. A frame's ROC gets only its Tx status, and every period eventually expires. When `wil_cancel_roc` returns, the ROC that was on channel has expired (`CancelCompletesRoc`). |

Each violation is recorded as a finding in `PROJECT.json`, with the source line
and what the code does. The project is held to twelve runs. The modules show
further disagreements that are listed as hazards in `PROJECT.json` rather than
runs:
- **Unmap kind across the wrap.** `TxRing` with `RingSize = 4`, one-fragment
  plain frames and `INVARIANT UnmapMatchesMap` finds a fragment chain that wraps
  the ring end being unmapped with `dma_unmap_single`.
- **Held-back completion.** `wil_tx_complete` holds back the last DU descriptor
  (`swtail_to_rel`), so the newest frame waits for later traffic.
  `ReclaimCatchesUp` tolerates exactly this one descriptor.
- **Control-frame stall.** `RxCtrlStall.cfg` on `MCRxRing` (`FairSpec`, data
  and ctrl frames) violates `ReadyEventuallyReaped`: a ctrl frame makes
  `wil_vring_reap_rx` return NULL, which ends the NAPI loop with quota left,
  and the data frame behind it waits for another interrupt. Spec section 7
  says a single bad frame must not stop the ring. The property is not in the
  `rx_ring` run, since it fails whenever ctrl frames are allowed. Whether a
  poll that used its quota runs again is NAPI core behaviour outside the
  repository, so `sched' = (quota = 0)` is an assumption of the model.
- **Queues never woken.** `TxRing`'s `QueueEventuallyWoken` under `FairSpec`
  is violated: a mapping failure goes to `drop_err`, which stops the queues,
  and `wil_tx_complete` wakes them only when it reclaims something. Code
  outside this repository may wake them, so this is a hazard, not a finding.
- **TSO ring overflow.** `min_desc_required` does not count the linear-payload
  descriptor. A GSO frame that is all linear payload, sent with one free slot,
  therefore takes two slots: `swhead` lands on `swtail` and the ring reads
  empty. `TsoRingOverflow.cfg` on `MCTxRing` violates `SlotOwnership`. The
  `tx_ring` run leaves that frame shape out so that its properties hold. This
  was a run of its own until its slot went to `remain_on_channel`.
- **Acknowledged but never sent.** For a ROC that carries a management frame,
  `wil_prepare_roc` reports `mgmt_tx_status` with ack set when
  `wil_start_roc` succeeds. But the Tx branch of `wil_start_roc` is an empty
  TODO, so the frame is never sent. `RemainOnChannel` records the status, but
  no run checks it.
- **Window of 3.** `RxReorder` with `BufSize = 3` violates `InOrderDelivery`:
  frame 0 is delivered twice across the 12-bit wrap. `back_window_size` shows
  how such a window is created.
- **Broadcast resent as unicast or duplicated.** When the first vring returns
  `-ENOMEM`, the stack resends a frame whose `h_dest` `wil_tx_bcast` already
  rewrote (on an AP it goes out unicast), after the copies were sent; on a
  station the copies are sent again. `FrameRefs` and `RoutedToPeer` still hold.
- **Stale lookup.** A `vring2cid_tid` entry left by `wil_vring_fini_tx` or a
  failed `WMI_VRING_CFG` shadows a later live vring of the same CID, and
  `wil_find_tx_vring` returns NULL: the frame is dropped.

## Bounds

**RxReorder.**
- The window is `BufSize = 4`. It is
  small enough to enumerate and large enough to hold two gaps.
- The initial head is the SSN, or two below 4096 (`MCHeadInit`). Every
  behaviour therefore crosses the 12-bit wrap.
- Input sequence numbers range from one below the head to two windows past
  it. This covers stale frames, duplicates, in-window frames and frames that
  slide the window.
- `MaxArrivals = 5` frames allows a full window plus a slide.

**RxBack.**
- There are three CIDs: 0 is connected, 1 is not, and 9 is out of range. This
  covers each early return of `wil_back_handle`.
- There are two TIDs and three requests. That is enough for one TID to be
  renegotiated twice and for requests to queue up behind a running worker.
- Window requests are 0 and 64. The second exercises the `min(16, ·)` clamp.

**TxRing.**
- A ring of 8 slots makes both backpressure thresholds (`size/8`, `size/4`)
  non-zero. Four frames of 0–2 fragments fill and wrap it.
- `Mss = 2`. The pass run's GSO shapes split one fragment into two segments,
  and put linear payload before a fragment.
- In the pass run, GSO mapping failures occur only at the header
  (`TsoFailPoints = {0}`), and no GSO frame is all linear payload. These are
  the two cases that break `UnmapMatchesMap` (the `tso_unwind` run) and
  `SlotOwnership` (`TsoRingOverflow.cfg`).
- The liveness runs use one frame, so their counterexamples show only the
  behaviour in question.

**RxRing.**
- There is a ring of 4 slots with a NAPI quota of 2, so one poll can use up its
  quota with more ready.
- Six received frames wrap the ring.
- Two `wil_rx_init` calls cover a failed init followed by a good one.

**TxVrings.**
- Three vrings and two CIDs, both connected: a CID can own two vrings, one of
  them shadowed by a stale entry, and a third vring carries a broadcast copy.
- `RingSize = 2` (one usable slot) with two frames, so `-ENOMEM`, the BUSY
  retry and the queue stop and wake are all reached.
- Destinations are CID 0, CID 1, an unknown address and broadcast; protocols
  data and EAPOL; interfaces AP, station and monitor. Each selects a different
  branch of `wil_start_xmit`.
- `MaxCopies = 2` `skb_copy` calls and `MaxInits = 3` `wil_vring_init_tx`
  calls: enough for one broadcast over three vrings and for a setup, a failed
  setup and a re-setup.

**RemainOnChannel.**
- `MaxRocs = 3` requests, each with or without a frame and with a duration of
  0 or 50. This covers every combination of queueing at once or arming the
  timer, and of `mgmt_tx_status` or `ready_on_channel`.
- A request can follow a failure, an expiry and a cancel.
- Cookies stop at 3; `roc_counter` is a u64 and never wraps in practice.

## Fairness

- **TxRing.** `FairSpec` assumes weak fairness of `HwTxDone` and
  `TxComplete`: the device works through what the doorbell published, and the
  NAPI poll runs once the interrupt is raised. Nothing else is assumed. In
  particular the stack is not obliged to send more frames, which is why an
  idle ring shows the liveness failures.
- **RxBack.** `FairSpec` assumes weak fairness of the worker's steps (the
  workqueue runs queued work to completion) and of `RxLocked` (a NAPI poll
  finishes). Firmware events are not assumed.
- **RxRing.** `FairSpec` assumes weak fairness of `NapiPoll`: a scheduled poll
  runs. The device is not obliged to receive anything. The `rx_ring` run
  checks only safety; the fairness matters to `RxCtrlStall.cfg`.
- **RemainOnChannel.** `FairSpec` assumes weak fairness of `TimerFire`,
  `WorkRun`, `WilRocCancelWork` and `WilCancelRocReturn`. Kernel timers fire,
  `roc_wq` runs queued work, `wil->mutex` is released by every holder, and a
  flush returns once its work has run. cfg80211's requests are not assumed.
  `CHECK_DEADLOCK` is off because the model stops when the cookies run out.
- **TxVrings.** Only safety is checked, under `Spec` with no fairness. Setup
  and teardown come from WMI events the driver does not schedule.

## Not modelled, and why

- **The non-TCP `-EINVAL` of `wil_tx_vring_tso`, and EAPOL frames sent through
  WMI.** The first takes the same `drop_err` path as a header mapping failure.
  The second leaves the rings alone.
- **Descriptor lengths.** `TsoLayout` follows the chunking arithmetic,
  including the negative chunk when the linear payload exceeds `mss`. No
  property reads a length.
- **The firmware's discovery state.** `wmi_p2p_cfg`, `wmi_start_listen` and
  `wmi_stop_discovery` act on firmware through `wmi.c`, which is not in this
  repository. `RemainOnChannel` keeps only whether `wil_start_roc`'s commands
  succeeded. The hazards listed on it are:
  - the ignored result of `wmi_stop_discovery`;
  - the debugfs `p2p` file sending discovery commands without `wil->mutex`.
- **The window between `wil_roc_cancel_work`'s unlock and its return.** A new
  `wil_prepare_roc` can re-run `INIT_DELAYED_WORK` on the still-executing
  work there. What that resets is workqueue bookkeeping, so this is listed as
  a hazard.
- **The firmware-ready and connected status bits** checked at the top of
  `wil_start_xmit`. They only add early drops.
- **Radiotap header construction, descriptor byte swapping and checksum-offload
  field setup.** These are byte layout with no state a property distinguishes.
- **debugfs, logging and the trace tool.** These are debug output, and
  debugfs files that send raw WMI commands, reset the device or poke
  registers. Their allocation leaks on `copy_from_user` failure are plain
  error paths.
- **Weak memory ordering between the CPU and the device.** There is no barrier
  between the descriptor writes and the doorbell. TLC checks interleavings of
  atomic steps, not store reordering.
- **`wil_back_flush` racing the worker at list-pointer level.** Its callers are
  outside this repository. The model flushes atomically.

## Plan

1. **Liveness for `TxVrings`.** The property would be that a frame at the
   stack is eventually sent or dropped. It fails while `drop_err` leaves the
   queues stopped (the "queues never woken" hazard). It needs the code that
   wakes the queues, which is outside this repository.
2. **The firmware's discovery state in `RemainOnChannel`.** This would make
   the `wmi_stop_discovery` hazard checkable. Any run of it would be a
   violation run, and the project is held to twelve runs.
