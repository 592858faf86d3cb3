--------------------------- MODULE RemainOnChannel ---------------------------
(***************************************************************************)
(* Remain-on-channel (offchannel.c): wil_prepare_roc, wil_start_roc, the   *)
(* delayed work wil_roc_cancel_work and wil_cancel_roc, with the one       *)
(* struct wil_roc of the device (wil6210.h) and the notifications          *)
(* cfg80211 receives for each cookie.                                       *)
(*                                                                         *)
(* wil_prepare_roc runs under wil->mutex from start to end and            *)
(* wil_roc_cancel_work does all its work under it, so each is one step.   *)
(* The delayed work is what the workqueue holds: idle, its timer armed,   *)
(* pending on the queue, or running and not yet holding the mutex.  The   *)
(* WMI commands wil_start_roc sends are reduced to whether they all       *)
(* succeed; the firmware's discovery state is not modelled.               *)
(***************************************************************************)
EXTENDS Naturals

CONSTANTS
  MaxRocs,    \* bound on the cookies wil_prepare_roc hands out (roc_counter)
  Durations   \* duration arguments of a request, in ms

Cookies == 1..MaxRocs

(* What cfg80211 has been told about a cookie: nothing, ready_on_channel, *)
(* remain_on_channel_expired after it, or mgmt_tx_status.                 *)
Notes == {"none", "ready", "expired", "txstatus"}

VARIABLES
  cookie,    \* roc->cookie, 0 when no ROC is in progress
  mgmt,      \* roc->mgmt_tx_cookie != 0: the ROC carries a frame to send
  started,   \* roc->started
  duration,  \* roc->duration
  counter,   \* wil->roc_counter
  work,      \* roc->work: "idle", "timer", "pending" or "running"
  note,      \* the notifications cfg80211 received, per cookie
  flush,     \* wil_cancel_roc: "idle", "waiting" on the work, or "done"
  seen       \* the ROC on channel when wil_cancel_roc was called, or 0

vars == <<cookie, mgmt, started, duration, counter, work, note, flush, seen>>

Scheduled == {"timer", "pending", "running"}

(* Mutant: the work is queued only when a delay is given, as the comment  *)
(* above wil_start_roc puts it.                                            *)
QueueCancelWorkNoZero(d) == IF d = 0 THEN "idle" ELSE "timer"

(* INIT_DELAYED_WORK and queue_delayed_work(roc_wq, work, duration): with *)
(* a delay of 0 the work is queued at once, otherwise its timer is armed. *)
QueueCancelWork(d) == IF d = 0 THEN "pending" ELSE "timer"

-----------------------------------------------------------------------------

(* The priv struct starts zeroed. *)
Init ==
  /\ cookie = 0
  /\ mgmt = FALSE
  /\ started = FALSE
  /\ duration = 0
  /\ counter = 0
  /\ work = "idle"
  /\ note = [c \in Cookies |-> "none"]
  /\ flush = "idle"
  /\ seen = 0

(* wil_start_roc: wmi_p2p_cfg, wmi_set_ssid and wmi_start_listen all     *)
(* succeed (ok: the ROC is started and its cancel work initialised and    *)
(* queued) or one fails, after which wmi_stop_discovery is sent and       *)
(* nothing is queued.  The Tx branch for a frame is an empty TODO.        *)
WilStartRoc(d, ok) ==
  IF ok THEN started' = TRUE /\ work' = QueueCancelWork(d)
        ELSE UNCHANGED <<started, work>>

(* wil_prepare_roc(buf, duration): -EBUSY while a ROC is in progress      *)
(* changes nothing.  A request with neither a frame nor a duration lasts  *)
(* 10 ms.  The cookie is ++roc_counter; roc_counter is a u64, so the      *)
(* WARN_ON(cookie == 0) branch is out of reach.  A request with a frame   *)
(* gets mgmt_tx_status whatever wil_start_roc returns, one without gets   *)
(* ready_on_channel when it succeeds; on failure both cookies are         *)
(* cleared.                                                                *)
WilPrepareRoc(hasBuf, dur) ==
  /\ cookie = 0
  /\ counter < MaxRocs
  /\ LET c == counter + 1
         d == IF dur = 0 /\ ~hasBuf THEN 10 ELSE dur
     IN \E ok \in BOOLEAN :
          /\ WilStartRoc(d, ok)
          /\ counter' = c
          /\ duration' = d
          /\ cookie' = IF ok THEN c ELSE 0
          /\ mgmt' = (ok /\ hasBuf)
          /\ note' = [note EXCEPT ![c] = CASE hasBuf -> "txstatus"
                                            [] ok     -> "ready"
                                            [] OTHER  -> "none"]
  /\ UNCHANGED <<flush, seen>>

(* The delayed work's timer fires and queues the work. *)
TimerFire ==
  /\ work = "timer"
  /\ work' = "pending"
  /\ UNCHANGED <<cookie, mgmt, started, duration, counter, note, flush, seen>>

(* A roc_wq worker takes the work off the queue and calls it. *)
WorkRun ==
  /\ work = "pending"
  /\ work' = "running"
  /\ UNCHANGED <<cookie, mgmt, started, duration, counter, note, flush, seen>>

(* wil_roc_cancel_work under wil->mutex: wmi_stop_discovery, then         *)
(* remain_on_channel_expired unless the ROC carried a frame, then both    *)
(* cookies cleared.  roc->started is left set.  Returning completes a     *)
(* flush that waits on this run.                                          *)
WilRocCancelWork ==
  /\ work = "running"
  /\ note' = IF ~mgmt THEN [note EXCEPT ![cookie] = "expired"] ELSE note
  /\ cookie' = 0
  /\ mgmt' = FALSE
  /\ work' = "idle"
  /\ flush' = IF flush = "waiting" THEN "done" ELSE flush
  /\ UNCHANGED <<started, duration, counter, seen>>

(* Mutant: cancel_delayed_work instead of flush_delayed_work; an armed   *)
(* timer is deleted and the work never runs.                               *)
WilCancelRocDelTimer ==
  /\ flush = "idle"
  /\ work' = IF work = "timer" THEN "idle" ELSE work
  /\ flush' = IF work \in {"pending", "running"} THEN "waiting" ELSE "done"
  /\ seen' = IF cookie # 0 /\ ~mgmt THEN cookie ELSE 0
  /\ UNCHANGED <<cookie, mgmt, started, duration, counter, note>>

(* Mutant: flush_work instead of flush_delayed_work; an armed timer is    *)
(* not waited for.                                                         *)
WilCancelRocNoTimer ==
  /\ flush = "idle"
  /\ flush' = IF work \in {"pending", "running"} THEN "waiting" ELSE "done"
  /\ seen' = IF cookie # 0 /\ ~mgmt THEN cookie ELSE 0
  /\ UNCHANGED <<cookie, mgmt, started, duration, counter, work, note>>

(* wil_cancel_roc: flush_delayed_work deletes an armed timer and queues   *)
(* the work at once, then waits for the queued or running work to finish; *)
(* with nothing queued or running it returns at once.                     *)
WilCancelRoc ==
  /\ flush = "idle"
  /\ work' = IF work = "timer" THEN "pending" ELSE work
  /\ flush' = IF work \in Scheduled THEN "waiting" ELSE "done"
  /\ seen' = IF cookie # 0 /\ ~mgmt THEN cookie ELSE 0
  /\ UNCHANGED <<cookie, mgmt, started, duration, counter, note>>

(* flush_delayed_work returns to wil_cancel_roc's caller. *)
WilCancelRocReturn ==
  /\ flush = "done"
  /\ flush' = "idle"
  /\ seen' = 0
  /\ UNCHANGED <<cookie, mgmt, started, duration, counter, work, note>>

Next ==
  \/ \E b \in BOOLEAN, d \in Durations : WilPrepareRoc(b, d)
  \/ TimerFire
  \/ WorkRun
  \/ WilRocCancelWork
  \/ WilCancelRoc
  \/ WilCancelRocReturn

Spec == Init /\ [][Next]_vars

(* The kernel's timers fire, roc_wq runs what is queued, and a flush      *)
(* returns once its work is done.  cfg80211's requests are not assumed.   *)
FairSpec ==
  /\ Spec
  /\ WF_vars(TimerFire)
  /\ WF_vars(WorkRun)
  /\ WF_vars(WilRocCancelWork)
  /\ WF_vars(WilCancelRocReturn)

-----------------------------------------------------------------------------

(* A ROC cfg80211 was told is on channel is exactly the driver's current  *)
(* ROC without a frame, and while any ROC is in progress its cancel work  *)
(* is armed, queued or running: wil_prepare_roc, the timer, the worker    *)
(* and wil_cancel_roc's flush together never strand a ROC, which would    *)
(* leave every later wil_prepare_roc failing with -EBUSY.                  *)
ReadyRocScheduled ==
  /\ \A c \in Cookies : note[c] = "ready" <=> (cookie = c /\ ~mgmt)
  /\ cookie # 0 <=> work \in Scheduled

(* Refinement: remain-on-channel implements RocSession, the ROC on       *)
(* channel being the current cookie when the ROC carries no frame.  This  *)
(* says that for every cookie cfg80211 receives ready_on_channel before   *)
(* remain_on_channel_expired, each at most once, that a ROC with a frame  *)
(* gets its mgmt_tx_status and nothing else (the mgmt_tx_cookie checks of *)
(* wil_prepare_roc and wil_roc_cancel_work), that no second period starts *)
(* before the first has expired, and that every period eventually expires *)
(* through the timer, the worker or a flush.                              *)
Session == INSTANCE RocSession
             WITH onChannel <- IF cookie # 0 /\ ~mgmt THEN cookie ELSE 0,
                  told <- note

ImplementsRocSession == Session!Spec

(* When wil_cancel_roc returns, the ROC that was on channel when it was   *)
(* called has expired: flush_delayed_work fires an armed timer and waits  *)
(* for the work to run.                                                    *)
CancelCompletesRoc ==
  [][flush = "done" /\ flush' = "idle" => seen = 0 \/ note[seen] = "expired"]_vars

=============================================================================
