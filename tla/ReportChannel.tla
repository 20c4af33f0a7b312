---------------------------- MODULE ReportChannel ----------------------------
(***************************************************************************)
(* What a wireless backend promises its callers: reports go to the one     *)
(* channel that is current, a channel that was given up is never used      *)
(* again, and between giving up and connecting there is no channel.        *)
(***************************************************************************)
CONSTANTS Channel, NoChannel

VARIABLES current,     \* the channel reports go to
          retired,     \* the channels given up
          receiver     \* the channel that just received a report

vars == <<current, retired, receiver>>

Init == current = NoChannel /\ retired = {} /\ receiver = NoChannel

(* Giving up any channels, the current one among them if it changes.       *)
Retire ==
  /\ retired \subseteq retired'
  /\ retired' \subseteq Channel
  /\ current # current' => current \in retired' \cup {NoChannel}
  /\ current' \notin retired'

Connect ==
  /\ current' \in Channel \ {current}
  /\ Retire
  /\ UNCHANGED receiver

Disconnect ==
  /\ current' \in {current, NoChannel}
  /\ Retire
  /\ receiver' \in {receiver, NoChannel}

Deliver ==
  /\ current # NoChannel
  /\ receiver' = current
  /\ UNCHANGED <<current, retired>>

Next == Connect \/ Disconnect \/ Deliver

Spec == Init /\ [][Next]_vars
=============================================================================
