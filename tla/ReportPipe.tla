----------------------------- MODULE ReportPipe -----------------------------
(***************************************************************************)
(* What a queueing backend promises its callers: reports reach the host in *)
(* the order they were written, each at most once and none that nobody     *)
(* wrote.  Reports may be lost, and a host that goes forgets what it held. *)
(***************************************************************************)
EXTENDS Sequences

CONSTANTS Char,        \* the kinds of report
          Payload,     \* for each kind, the payloads that hold something
          Zero         \* the payload that holds nothing

VARIABLES pipe,        \* the reports written and not yet arrived
          host         \* the payload the host got last, for each kind

vars == <<pipe, host>>

Nothing == [c \in Char |-> Zero]

Init == pipe = <<>> /\ host = Nothing

Write(c, p) ==
  /\ pipe' = Append(pipe, [char |-> c, payload |-> p])
  /\ UNCHANGED host

Deliver ==
  /\ pipe # <<>>
  /\ pipe' = Tail(pipe)
  /\ host' = [host EXCEPT ![Head(pipe).char] = Head(pipe).payload]

Lose == pipe # <<>> /\ pipe' = Tail(pipe) /\ UNCHANGED host

Forget == host' = Nothing /\ pipe' \in {pipe, <<>>}

Next ==
  \/ \E c \in Char : \E p \in Payload[c] \cup {Zero} : Write(c, p)
  \/ Deliver
  \/ Lose
  \/ Forget

Spec == Init /\ [][Next]_vars
=============================================================================
