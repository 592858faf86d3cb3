------------------------------- MODULE RxBack --------------------------------
(***************************************************************************)
(* Rx block-ack session management (rx_reorder.c, ADDBA processing) and    *)
(* the NAPI receive path that looks the sessions up.                       *)
(*                                                                         *)
(*  - AddbaRequest : wil_rcp_addba_request, called for an ADDBA request    *)
(*                   event from the firmware: queue the request under      *)
(*                   back_mutex, then queue_work(back_worker);             *)
(*  - WorkerStart  : the workqueue starts wil_back_worker;                 *)
(*  - NextBack     : next_back, popping the list head under back_mutex or  *)
(*                   returning NULL when the list is empty;                *)
(*  - WorkerExit   : wil_back_worker returning after that NULL;            *)
(*  - BackHandle   : wil_back_handle up to and including                   *)
(*                   wil_tid_ampdu_rx_free of the old session;             *)
(*  - BackAlloc    : the rest of wil_back_handle (wil_tid_ampdu_rx_alloc    *)
(*                   and the store into sta->tid_rx[tid]) and kfree(evt);  *)
(*  - BackFlush    : wil_back_flush;                                       *)
(*  - RxLookup, RxLocked: wil_rx_reorder, split where it reads             *)
(*                   sta->tid_rx[tid] and where it takes r->reorder_lock.  *)
(*                                                                         *)
(* The worker and NAPI run on different CPUs: the worker only ever takes   *)
(* back_mutex, NAPI only r->reorder_lock, so they interleave freely.  The  *)
(* contents of a session's reorder buffer are the subject of RxReorder and *)
(* are left out: a session here is its identity, its buf_size and whether  *)
(* it is allocated or freed.  A session is named by the request that       *)
(* created it.                                                             *)
(***************************************************************************)
EXTENDS Integers, Sequences, FiniteSets

CONSTANTS
  MaxCid,       \* WIL6210_MAX_CID
  CidIn,        \* CID values the firmware puts in cidxtid (4 bits)
  Connected,    \* CIDs whose sta->status is wil_sta_connected
  TidIn,        \* TID values the firmware puts in cidxtid
  WinIn,        \* req_agg_wsize values (bits 6..15 of ba_param_set)
  SsnIn,        \* starting sequence numbers (ba_seq_ctrl >> 4)
  MaxRequests,  \* bound on ADDBA request events
  Null          \* NULL pointer

ASSUME CidIn \subseteq 0..15 /\ TidIn \subseteq 0..15 /\ Connected \subseteq CidIn
ASSUME WinIn \subseteq 0..1023 /\ MaxRequests \in Nat

Ids == 1..MaxRequests

(* The sta[cid].tid_rx[tid] pointers the driver has: cid < MAX_CID. *)
Keys == {c \in CidIn : c < MaxCid} \X TidIn

VARIABLES
  reqs,        \* parameters of the i-th request event (struct wil_pending_back)
  pending,     \* wil->back_pending, as a sequence of request ids
  workQueued,  \* back_worker queued (WORK_STRUCT_PENDING)
  workRunning, \* wil_back_worker executing
  wpc,         \* where the worker is: "next", "handle", "alloc", "exit"
  wreq,        \* the request the worker holds (0: none)
  tidRx,       \* sta[cid].tid_rx[tid]: a session id or Null
  sess,        \* state of each session: "none", "live" or "freed"
  sessWin,     \* r->buf_size of each session
  handled,     \* ids of the requests the worker has finished, in order
  flushed,     \* ids of the requests freed by wil_back_flush
  napi         \* wil_rx_reorder: [pc |-> "idle" or "got", key, r]

vars == <<reqs, pending, workQueued, workRunning, wpc, wreq, tidRx, sess,
          sessWin, handled, flushed, napi>>

(* Mutant: the window is taken from the request without the clamp.      *)
AggWsizeNoClamp(w) == w

(* min_t(u16, 16, req_agg_wsize), the window wil_back_handle agrees to. *)
AggWsize(w) == IF w < 16 THEN w ELSE 16

KeyOf(i) == <<reqs[i].cid, reqs[i].tid>>

Init ==
  /\ reqs = <<>>
  /\ pending = <<>>
  /\ workQueued = FALSE /\ workRunning = FALSE
  /\ wpc = "next" /\ wreq = 0
  /\ tidRx = [k \in Keys |-> Null]
  /\ sess = [i \in Ids |-> "none"]
  /\ sessWin = [i \in Ids |-> 0]
  /\ handled = <<>> /\ flushed = {}
  /\ napi = [pc |-> "idle", key |-> CHOOSE k \in Keys : TRUE, r |-> Null]

-----------------------------------------------------------------------------
(* Mutant: list_add instead of list_add_tail.                             *)
AddbaRequestAtHead ==
  /\ Len(reqs) < MaxRequests
  /\ \E c \in CidIn, t \in TidIn, w \in WinIn, s \in SsnIn :
       reqs' = Append(reqs, [cid |-> c, tid |-> t, wsize |-> w, ssn |-> s])
  /\ pending' = <<Len(reqs) + 1>> \o pending
  /\ workQueued' = TRUE
  /\ UNCHANGED <<workRunning, wpc, wreq, tidRx, sess, sessWin, handled,
                 flushed, napi>>

(* Mutant: the worker is queued only when it is not running.            *)
AddbaRequestNoRequeue ==
  /\ Len(reqs) < MaxRequests
  /\ \E c \in CidIn, t \in TidIn, w \in WinIn, s \in SsnIn :
       reqs' = Append(reqs, [cid |-> c, tid |-> t, wsize |-> w, ssn |-> s])
  /\ pending' = Append(pending, Len(reqs) + 1)
  /\ workQueued' = (workQueued \/ ~workRunning)
  /\ UNCHANGED <<workRunning, wpc, wreq, tidRx, sess, sessWin, handled,
                 flushed, napi>>

(* wil_rcp_addba_request: the request goes to the tail of back_pending,   *)
(* then the worker is queued (a no-op if it is already queued).           *)
AddbaRequest ==
  /\ Len(reqs) < MaxRequests
  /\ \E c \in CidIn, t \in TidIn, w \in WinIn, s \in SsnIn :
       reqs' = Append(reqs, [cid |-> c, tid |-> t, wsize |-> w, ssn |-> s])
  /\ pending' = Append(pending, Len(reqs) + 1)
  /\ workQueued' = TRUE
  /\ UNCHANGED <<workRunning, wpc, wreq, tidRx, sess, sessWin, handled,
                 flushed, napi>>

(* The workqueue runs a queued back_worker; the PENDING bit is cleared    *)
(* before the function runs, so a later queue_work queues it again.       *)
WorkerStart ==
  /\ workQueued /\ ~workRunning
  /\ workQueued' = FALSE
  /\ workRunning' = TRUE
  /\ wpc' = "next"
  /\ UNCHANGED <<reqs, pending, wreq, tidRx, sess, sessWin, handled, flushed,
                 napi>>

(* The loop of wil_back_worker calling next_back, which pops the list    *)
(* head under back_mutex or returns NULL when the list is empty.          *)
NextBack ==
  /\ workRunning /\ wpc = "next"
  /\ IF pending = <<>>
     THEN /\ wpc' = "exit"
          /\ UNCHANGED <<pending, wreq>>
     ELSE /\ wreq' = Head(pending)
          /\ pending' = Tail(pending)
          /\ wpc' = "handle"
  /\ UNCHANGED <<reqs, workQueued, workRunning, tidRx, sess, sessWin, handled,
                 flushed, napi>>

(* next_back returned NULL: wil_back_worker returns, after back_mutex was *)
(* released, and the workqueue marks the work idle.                       *)
WorkerExit ==
  /\ workRunning /\ wpc = "exit"
  /\ workRunning' = FALSE
  /\ wpc' = "next"
  /\ UNCHANGED <<reqs, pending, workQueued, wreq, tidRx, sess, sessWin,
                 handled, flushed, napi>>

(* Mutant: the old session is not freed before the new one is stored.   *)
BackHandleNoFree ==
  LET c == reqs[wreq].cid IN
  /\ workRunning /\ wpc = "handle"
  /\ \E respOk \in BOOLEAN :
       IF c >= MaxCid \/ c \notin Connected \/ ~respOk
       THEN /\ wpc' = "next" /\ wreq' = 0
            /\ handled' = Append(handled, wreq)
       ELSE /\ wpc' = "alloc"
            /\ UNCHANGED <<wreq, handled>>
  /\ UNCHANGED <<reqs, pending, workQueued, workRunning, tidRx, sess, sessWin,
                 flushed, napi>>

(* wil_back_handle: the CID sanity checks and the connected check return  *)
(* early, as does a failed wmi_rcp_addba_resp; otherwise the old session  *)
(* is flushed and freed with wil_tid_ampdu_rx_free, which takes no lock.  *)
(* Returning early ends in kfree(evt) in the worker loop.                 *)
BackHandle ==
  LET k == KeyOf(wreq)
      c == reqs[wreq].cid
  IN /\ workRunning /\ wpc = "handle"
     /\ \E respOk \in BOOLEAN :
          IF c >= MaxCid \/ c \notin Connected \/ ~respOk
          THEN /\ wpc' = "next" /\ wreq' = 0
               /\ handled' = Append(handled, wreq)
               /\ UNCHANGED sess
          ELSE /\ wpc' = "alloc"
               /\ sess' = IF tidRx[k] = Null THEN sess
                          ELSE [sess EXCEPT ![tidRx[k]] = "freed"]
               /\ UNCHANGED <<wreq, handled>>
     /\ UNCHANGED <<reqs, pending, workQueued, workRunning, tidRx, sessWin,
                    flushed, napi>>

(* Mutant: the pointer is only overwritten when the allocation succeeds. *)
BackAllocKeepsOld ==
  LET k == KeyOf(wreq) IN
  /\ workRunning /\ wpc = "alloc"
  /\ \E allocOk \in BOOLEAN :
       /\ tidRx' = IF allocOk THEN [tidRx EXCEPT ![k] = wreq] ELSE tidRx
       /\ sess' = IF allocOk THEN [sess EXCEPT ![wreq] = "live"] ELSE sess
       /\ sessWin' = IF allocOk
                     THEN [sessWin EXCEPT ![wreq] = AggWsize(reqs[wreq].wsize)]
                     ELSE sessWin
  /\ handled' = Append(handled, wreq)
  /\ wpc' = "next" /\ wreq' = 0
  /\ UNCHANGED <<reqs, pending, workQueued, workRunning, flushed, napi>>

(* sta->tid_rx[tid] = wil_tid_ampdu_rx_alloc(wil, agg_wsize, ssn): NULL   *)
(* when kzalloc/kcalloc fail; then kfree(evt).                            *)
BackAlloc ==
  LET k == KeyOf(wreq) IN
  /\ workRunning /\ wpc = "alloc"
  /\ \E allocOk \in BOOLEAN :
       /\ tidRx' = [tidRx EXCEPT ![k] = IF allocOk THEN wreq ELSE Null]
       /\ sess' = IF allocOk THEN [sess EXCEPT ![wreq] = "live"] ELSE sess
       /\ sessWin' = IF allocOk
                     THEN [sessWin EXCEPT ![wreq] = AggWsize(reqs[wreq].wsize)]
                     ELSE sessWin
  /\ handled' = Append(handled, wreq)
  /\ wpc' = "next" /\ wreq' = 0
  /\ UNCHANGED <<reqs, pending, workQueued, workRunning, flushed, napi>>

(* wil_back_flush: free every pending request. *)
BackFlush ==
  /\ pending # <<>>
  /\ flushed' = flushed \cup {pending[j] : j \in 1..Len(pending)}
  /\ pending' = <<>>
  /\ UNCHANGED <<reqs, workQueued, workRunning, wpc, wreq, tidRx, sess,
                 sessWin, handled, napi>>

(* wil_rx_reorder, first part: r = sta->tid_rx[tid] for the CID and TID  *)
(* of the received frame.  Without a session the frame goes straight to   *)
(* the stack.                                                             *)
RxLookup(k) ==
  /\ napi.pc = "idle"
  /\ tidRx[k] # Null
  /\ napi' = [pc |-> "got", key |-> k, r |-> tidRx[k]]
  /\ UNCHANGED <<reqs, pending, workQueued, workRunning, wpc, wreq, tidRx,
                 sess, sessWin, handled, flushed>>

(* wil_rx_reorder, second part: spin_lock(&r->reorder_lock) and the      *)
(* reorder step through r; the session itself is not changed here.        *)
RxLocked ==
  /\ napi.pc = "got"
  /\ napi' = [napi EXCEPT !.pc = "idle", !.r = Null]
  /\ UNCHANGED <<reqs, pending, workQueued, workRunning, wpc, wreq, tidRx,
                 sess, sessWin, handled, flushed>>

Next ==
  \/ AddbaRequest
  \/ WorkerStart
  \/ NextBack
  \/ WorkerExit
  \/ BackHandle
  \/ BackAlloc
  \/ BackFlush
  \/ \E k \in Keys : RxLookup(k)
  \/ RxLocked

Spec == Init /\ [][Next]_vars

(* The workqueue runs queued work and a running worker gets CPU time; a   *)
(* NAPI poll in progress finishes.                                        *)
FairSpec ==
  /\ Spec
  /\ WF_vars(WorkerStart) /\ WF_vars(NextBack) /\ WF_vars(WorkerExit)
  /\ WF_vars(BackHandle) /\ WF_vars(BackAlloc) /\ WF_vars(RxLocked)

-----------------------------------------------------------------------------

Done == {handled[j] : j \in 1..Len(handled)}

TypeOK ==
  /\ reqs \in Seq([cid : CidIn, tid : TidIn, wsize : WinIn, ssn : SsnIn])
  /\ Len(reqs) <= MaxRequests
  /\ pending \in Seq(Ids)
  /\ workQueued \in BOOLEAN /\ workRunning \in BOOLEAN
  /\ wpc \in {"next", "handle", "alloc", "exit"} /\ wreq \in Ids \cup {0}
  /\ tidRx \in [Keys -> Ids \cup {Null}]
  /\ sess \in [Ids -> {"none", "live", "freed"}]
  /\ sessWin \in [Ids -> 0..16]
  /\ handled \in Seq(Ids) /\ flushed \subseteq Ids
  /\ napi.pc \in {"idle", "got"} /\ napi.r \in Ids \cup {Null}

(* The worker handles ADDBA requests in the order the firmware sent them, *)
(* each at most once: a later request for a (CID, TID) must win over an   *)
(* earlier one (back_pending is a FIFO: list_add_tail / list head).       *)
HandledInOrder ==
  \A i, j \in 1..Len(handled) : i < j => handled[i] < handled[j]

(* Outside the window between wil_tid_ampdu_rx_free and the store of the  *)
(* new session, sta->tid_rx never points to freed memory.                 *)
NoDanglingAtRest ==
  \A k \in Keys :
    tidRx[k] # Null =>
      \/ sess[tidRx[k]] = "live"
      \/ wpc = "alloc" /\ k = KeyOf(wreq)

(* Every allocated session is reachable from sta->tid_rx, so none leaks   *)
(* and a (CID, TID) never has two: replacing a session frees the old one. *)
SessionsReachable ==
  \A i \in Ids : sess[i] = "live" => \E k \in Keys : tidRx[k] = i

(* The session wil_rx_reorder looked up is still allocated when it takes  *)
(* r->reorder_lock (the struct comment: lifetime managed by RCU).         *)
NapiSessionLive ==
  napi.pc = "got" => sess[napi.r] = "live"

(* Every allocated session has a window reorder_index can use: it takes  *)
(* seq_sub(seq, ssn) % buf_size over 12-bit sequence numbers, so buf_size *)
(* must be non-zero and divide SEQ_MODULO (4096), or sequence numbers one *)
(* window apart across the wrap share a slot (RxReorder shows the frame   *)
(* delivered twice with buf_size 3).                                       *)
ReorderableWindow ==
  \A i \in Ids : sess[i] = "live" => sessWin[i] > 0 /\ 4096 % sessWin[i] = 0

(* Every ADDBA request queued by wil_rcp_addba_request is eventually      *)
(* handled by back_worker or freed by wil_back_flush (no lost wakeup      *)
(* between next_back returning NULL and a new queue_work).                *)
RequestEventuallyHandled ==
  \A i \in Ids : (Len(reqs) >= i) ~> (i \in Done \cup flushed)

=============================================================================
