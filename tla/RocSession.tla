------------------------------ MODULE RocSession ------------------------------
(***************************************************************************)
(* What the driver promises cfg80211 about remain-on-channel, without the  *)
(* delayed work, the cookies' counter or the flush.                        *)
(*                                                                         *)
(* At most one off-channel period is in progress.  A request without a     *)
(* frame either fails, telling cfg80211 nothing, or is reported ready on  *)
(* channel under a cookie never used before; it then expires, reported    *)
(* exactly once, and only then can another period start.  A request with  *)
(* a frame is answered with one Tx status under a fresh cookie and holds  *)
(* no channel period cfg80211 knows of.  A period on channel eventually   *)
(* expires.                                                                *)
(***************************************************************************)
CONSTANTS Cookies

VARIABLES
  onChannel,  \* the cookie cfg80211 was told is on channel, or 0
  told        \* per cookie: "none", "ready", "expired" or "txstatus"

svars == <<onChannel, told>>

Init ==
  /\ onChannel = 0
  /\ told = [c \in Cookies |-> "none"]

(* A request without a frame is granted: ready_on_channel(c). *)
Ready(c) ==
  /\ onChannel = 0 /\ told[c] = "none"
  /\ onChannel' = c
  /\ told' = [told EXCEPT ![c] = "ready"]

(* A request with a frame is answered: mgmt_tx_status(c). *)
TxStatus(c) ==
  /\ onChannel = 0 /\ told[c] = "none"
  /\ told' = [told EXCEPT ![c] = "txstatus"]
  /\ UNCHANGED onChannel

(* The period on channel ends: remain_on_channel_expired. *)
Expire ==
  /\ onChannel # 0
  /\ told' = [told EXCEPT ![onChannel] = "expired"]
  /\ onChannel' = 0

Next == \/ \E c \in Cookies : Ready(c) \/ TxStatus(c)
        \/ Expire

Spec == Init /\ [][Next]_svars /\ WF_svars(Expire)

=============================================================================
