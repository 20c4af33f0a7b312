----------------------------- MODULE BtHIDServer -----------------------------
(***************************************************************************)
(* bt_hid_server.py: the accept thread (_bt_accept_loop of main.py), the   *)
(* event-loop thread that sends reports and finally closes the server, the *)
(* lock between them, and Bluetooth hosts that open a control and an       *)
(* interrupt channel, drop them, and come back.                            *)
(*                                                                         *)
(* A section under self._lock is one step; what happens between two        *)
(* sections of a thread is open to the other thread.                       *)
(***************************************************************************)
EXTENDS Naturals, Sequences, SequencesExt

CONSTANTS Host,        \* the Bluetooth hosts
          MaxChannels, \* bound: channels opened per host
          Backlog,     \* listen(1): connections waiting per listening socket
          MaxFailures, \* bound: accept() calls that raise
          NoChannel    \* None

ASSUME BtAssumption ==
  /\ MaxChannels \in Nat \ {0}
  /\ Backlog \in Nat \ {0}
  /\ MaxFailures \in Nat

(* A connected socket: the n-th one its host opened on that PSM.           *)
CtrlChannel == [host : Host, psm : {"ctrl"}, n : 1..MaxChannels]
IntrChannel == [host : Host, psm : {"intr"}, n : 1..MaxChannels]
Channel == CtrlChannel \cup IntrChannel

ASSUME NoChannelAssumption == NoChannel \notin Channel

VARIABLES opened,      \* channels the hosts opened so far
          dropped,     \* channels whose host is gone
          closed,      \* channels this server closed
          ctrlQueue,   \* backlog of the listening socket on PSM 0x11
          intrQueue,   \* backlog of the listening socket on PSM 0x13
          acceptor,    \* where the accept thread is
          failures,    \* accept() calls that raised so far
          ctrlAccepted, intrAccepted, \* locals of accept()
          ctrlConn, intrConn,         \* self._ctrl_conn, self._intr_conn
          sender,      \* where the event-loop thread is in send_report()
          conn,        \* local of send_report()
          delivered,   \* history: the channel a report just went to
          server       \* "open", then "closed" by close(), then "gone"

hostVars == <<opened, dropped>>
acceptVars == <<acceptor, failures, ctrlAccepted, intrAccepted>>
queueVars == <<ctrlQueue, intrQueue>>
connVars == <<ctrlConn, intrConn, closed>>
sendVars == <<sender, conn, delivered>>
vars == <<hostVars, acceptVars, queueVars, connVars, sendVars, server>>

Present(c) == {c} \ {NoChannel}
Dead == closed \cup dropped

TypeOK ==
  /\ opened \subseteq Channel
  /\ dropped \subseteq Channel
  /\ closed \subseteq Channel
  /\ ctrlQueue \in Seq(CtrlChannel)
  /\ intrQueue \in Seq(IntrChannel)
  /\ acceptor \in {"callCtrl", "waitCtrl", "callIntr", "waitIntr", "install",
                   "returned", "raised"}
  /\ failures \in 0..MaxFailures
  /\ {ctrlAccepted, ctrlConn} \subseteq CtrlChannel \cup {NoChannel}
  /\ {intrAccepted, intrConn, conn, delivered} \subseteq IntrChannel \cup {NoChannel}
  /\ sender \in {"idle", "send", "clear"}
  /\ server \in {"open", "closed", "gone"}

Init ==
  /\ opened = {} /\ dropped = {} /\ closed = {}
  /\ ctrlQueue = <<>> /\ intrQueue = <<>>
  /\ acceptor = "callCtrl"
  /\ failures = 0
  /\ ctrlAccepted = NoChannel /\ intrAccepted = NoChannel
  /\ ctrlConn = NoChannel /\ intrConn = NoChannel
  /\ sender = "idle" /\ conn = NoChannel /\ delivered = NoChannel
  /\ server = "open"

-----------------------------------------------------------------------------
(* The hosts.  A host opens its control channel, then its interrupt        *)
(* channel; the kernel completes both without accept().  Losing the host   *)
(* takes its channels out of the backlogs.                                 *)

OpenCtrl(h, n) ==
  LET c == [host |-> h, psm |-> "ctrl", n |-> n]
  IN  /\ server = "open" \/ acceptor = "waitCtrl"
      /\ c \notin opened
      /\ \A m \in 1..(n - 1) : [c EXCEPT !.n = m] \in opened
      /\ \A d \in opened : d.host = h => d \in dropped
      /\ Len(ctrlQueue) < Backlog
      /\ ctrlQueue' = Append(ctrlQueue, c)
      /\ opened' = opened \cup {c}
      /\ UNCHANGED <<dropped, intrQueue, acceptVars, connVars, sendVars, server>>

OpenIntr(h, n) ==
  LET c == [host |-> h, psm |-> "intr", n |-> n]
  IN  /\ server = "open" \/ acceptor = "waitIntr"
      /\ c \notin opened
      /\ [c EXCEPT !.psm = "ctrl"] \in opened \ dropped
      /\ Len(intrQueue) < Backlog
      /\ intrQueue' = Append(intrQueue, c)
      /\ opened' = opened \cup {c}
      /\ UNCHANGED <<dropped, ctrlQueue, acceptVars, connVars, sendVars, server>>

(* A host has at most one live channel per PSM.                            *)
Withdraw(queue, h) ==
  IF \E i \in DOMAIN queue : queue[i].host = h
  THEN RemoveAt(queue, CHOOSE i \in DOMAIN queue : queue[i].host = h)
  ELSE queue

DropHost(h) ==
  /\ \E c \in opened \ dropped : c.host = h
  /\ dropped' = dropped \cup {c \in opened : c.host = h}
  /\ ctrlQueue' = Withdraw(ctrlQueue, h)
  /\ intrQueue' = Withdraw(intrQueue, h)
  /\ UNCHANGED <<opened, acceptVars, connVars, sendVars, server>>

(* Closing a listening socket resets its backlog, unless an accept() under *)
(* way still holds the socket.                                             *)
Reset ==
  IF server = "open" THEN {}
  ELSE UNION {IF acceptor = "waitCtrl" THEN {} ELSE ToSet(ctrlQueue),
              IF acceptor = "waitIntr" THEN {} ELSE ToSet(intrQueue)}

(* A host one of whose channels the server closed or reset gives up both.  *)
HostNotices(h) ==
  /\ \E c \in (closed \cup Reset) \ dropped : c.host = h
  /\ DropHost(h)

-----------------------------------------------------------------------------
(* The accept thread.  A socket closed by close() raises when accept() is  *)
(* called; a thread already blocked in accept() stays blocked.             *)

(* The last reference to the control channel in hand goes.                 *)
DropAccepted ==
  /\ ctrlAccepted' = NoChannel
  /\ closed' = closed \cup Present(ctrlAccepted)

CallAccept ==
  /\ acceptor \in {"callCtrl", "callIntr"}
  /\ IF server = "open"
     THEN /\ acceptor' = IF acceptor = "callCtrl" THEN "waitCtrl" ELSE "waitIntr"
          /\ UNCHANGED <<ctrlAccepted, closed>>
     ELSE acceptor' = "raised" /\ DropAccepted
  /\ UNCHANGED <<hostVars, queueVars, failures, intrAccepted, ctrlConn, intrConn,
                 sendVars, server>>

AcceptCtrl ==
  /\ acceptor = "waitCtrl"
  /\ ctrlQueue # <<>>
  /\ ctrlAccepted' = Head(ctrlQueue)
  /\ ctrlQueue' = Tail(ctrlQueue)
  /\ acceptor' = "callIntr"
  /\ UNCHANGED <<hostVars, intrQueue, failures, intrAccepted, connVars, sendVars, server>>

AcceptIntr ==
  /\ acceptor = "waitIntr"
  /\ intrQueue # <<>>
  /\ intrAccepted' = Head(intrQueue)
  /\ intrQueue' = Tail(intrQueue)
  /\ acceptor' = "install"
  /\ UNCHANGED <<hostVars, ctrlQueue, failures, ctrlAccepted, connVars, sendVars, server>>

Raise ==
  /\ acceptor \in {"waitCtrl", "waitIntr"}
  /\ failures < MaxFailures
  /\ failures' = failures + 1
  /\ acceptor' = "raised"
  /\ UNCHANGED <<hostVars, queueVars, intrAccepted, ctrlConn, intrConn, sendVars, server>>

(* Mutant: a raise on the interrupt channel keeps the control channel open *)
(* (its descriptor detached, or the socket kept where nobody looks).       *)
AcceptFailsLeaking == Raise /\ ctrlAccepted' = NoChannel /\ UNCHANGED closed

(* accept() raises.  The traceback of the exception keeps the control      *)
(* channel in hand while _bt_accept_loop sleeps in its except block; once  *)
(* the task is cancelled nobody takes the exception.                       *)
AcceptFails ==
  /\ Raise
  /\ IF server = "open" THEN UNCHANGED <<ctrlAccepted, closed>> ELSE DropAccepted

(* accept() has both channels and returns.                                 *)
HandOver ==
  /\ acceptor = "install"
  /\ acceptor' = "returned"
  /\ ctrlAccepted' = NoChannel
  /\ intrAccepted' = NoChannel
  /\ UNCHANGED <<hostVars, queueVars, failures, sendVars, server>>

(* Mutants: the previous connection is not closed, so that the socket      *)
(* send_report() still refers to stays open; the two sockets are mixed up; *)
(* the connections are closed after the new ones are in place.             *)
InstallKeepingOld ==
  /\ HandOver
  /\ ctrlConn' = ctrlAccepted /\ intrConn' = intrAccepted
  /\ closed' = closed \cup ((Present(ctrlConn) \cup Present(intrConn)) \ {conn})

InstallSwapped ==
  /\ HandOver
  /\ ctrlConn' = intrAccepted /\ intrConn' = ctrlAccepted
  /\ closed' = closed \cup Present(ctrlConn) \cup Present(intrConn)

InstallThenClose ==
  /\ HandOver
  /\ ctrlConn' = ctrlAccepted /\ intrConn' = intrAccepted
  /\ closed' = closed \cup Present(ctrlAccepted) \cup Present(intrAccepted)

(* The section under the lock: the previous connection is closed.          *)
Install ==
  /\ HandOver
  /\ ctrlConn' = ctrlAccepted /\ intrConn' = intrAccepted
  /\ closed' = closed \cup Present(ctrlConn) \cup Present(intrConn)

(* The event loop resumes _bt_accept_loop, at once or after sleep(1), when *)
(* the exception goes and with it the control channel.                     *)
Resume ==
  /\ acceptor \in {"returned", "raised"}
  /\ sender = "idle"
  /\ acceptor' = "callCtrl"
  /\ DropAccepted
  /\ UNCHANGED <<hostVars, queueVars, failures, intrAccepted, ctrlConn, intrConn,
                 sendVars, server>>

(* Mutant: the accept task is not cancelled before the server is closed.   *)
AcceptAgainUncancelled == Resume

(* main() cancels the task before it closes the server.                    *)
AcceptAgain == Resume /\ server = "open"

-----------------------------------------------------------------------------
(* send_report(): the connection is read under the lock, used outside it.  *)

BeginSend ==
  /\ sender = "idle"
  /\ server = "open"
  /\ intrConn # NoChannel
  /\ conn' = intrConn
  /\ sender' = "send"
  /\ delivered' = NoChannel
  /\ UNCHANGED <<hostVars, queueVars, acceptVars, connVars, server>>

SendReport ==
  /\ sender = "send"
  /\ conn \notin Dead
  /\ sender' = "idle"
  /\ conn' = NoChannel
  /\ delivered' = conn
  /\ UNCHANGED <<hostVars, queueVars, acceptVars, connVars, server>>

SendFails ==
  /\ sender = "send"
  /\ conn \in Dead
  /\ sender' = "clear"
  /\ UNCHANGED <<conn, delivered, hostVars, queueVars, acceptVars, connVars, server>>

(* self._intr_conn = None drops the last reference to that socket.         *)
ClearConnection ==
  /\ sender = "clear"
  /\ closed' = closed \cup Present(intrConn) \cup Present(conn)
  /\ intrConn' = NoChannel
  /\ sender' = "idle"
  /\ conn' = NoChannel
  /\ UNCHANGED <<delivered, hostVars, queueVars, acceptVars, ctrlConn, server>>

(* main(): bt_accept_task.cancel(), bt_server.close(), which leaves what   *)
(* waits in the backlogs to the kernel (Reset); later the process exits    *)
(* once its accept thread has ended.                                       *)
Close ==
  /\ server = "open"
  /\ sender = "idle"
  /\ closed' = closed \cup Present(ctrlConn) \cup Present(intrConn)
  /\ ctrlConn' = NoChannel
  /\ intrConn' = NoChannel
  /\ server' = "closed"
  /\ UNCHANGED <<hostVars, queueVars, acceptVars, sendVars>>

Exit ==
  /\ server = "closed"
  /\ acceptor \in {"returned", "raised"}
  /\ server' = "gone"
  /\ closed' = opened
  /\ ctrlAccepted' = NoChannel
  /\ ctrlConn' = NoChannel
  /\ intrConn' = NoChannel
  /\ UNCHANGED <<hostVars, queueVars, acceptor, failures, intrAccepted, sendVars>>

HostSteps ==
  \E h \in Host :
    \/ \E n \in 1..MaxChannels : OpenCtrl(h, n) \/ OpenIntr(h, n)
    \/ DropHost(h)
Acceptor == CallAccept \/ AcceptCtrl \/ AcceptIntr \/ Install
Sender == SendReport \/ SendFails \/ ClearConnection

Next ==
  \/ HostSteps
  \/ Acceptor
  \/ AcceptFails
  \/ AcceptAgain
  \/ BeginSend
  \/ Sender
  \/ Close
  \/ Exit

Spec == Init /\ [][Next]_vars

(* Threads run; the event loop takes turns between the accept task and the *)
(* senders; a host notices that its channel was closed; the interpreter    *)
(* exits when it can.  Nobody promises a host, a report or a shutdown.     *)
Fairness ==
  /\ WF_vars(Acceptor)
  /\ WF_vars(Sender)
  /\ SF_vars(AcceptAgain)
  /\ WF_vars(Exit)
  /\ \A h \in Host : WF_vars(HostNotices(h))

FairSpec == Spec /\ Fairness

-----------------------------------------------------------------------------
(* send_report() uses a connection it read under the lock earlier: whatever *)
(* happened since, that connection is still the installed one or closed,   *)
(* so a report never goes to a host that was replaced.                     *)
CapturedIsCurrent ==
  (sender = "send" /\ conn \notin closed) => conn = intrConn

(* The server never keeps a connection it already closed, in particular    *)
(* not one that accept() is about to install: every channel is accepted    *)
(* once and owned by one variable at a time.                               *)
InstalledIsOpen ==
  \A c \in {ctrlConn, intrConn, ctrlAccepted, intrAccepted} : c \notin closed

(* No socket leaks: a channel whose host is still there is closed, waits   *)
(* in a backlog, or is held by the server, whichever accept() raised and   *)
(* however installing, clearing and closing interleave.  A leaked one      *)
(* would keep its host connected to a server that does not know it.        *)
NoChannelLeaks ==
  opened \subseteq
    Dead \cup ToSet(ctrlQueue) \cup ToSet(intrQueue)
         \cup {ctrlAccepted, intrAccepted, ctrlConn, intrConn}

Abstract == INSTANCE ReportChannel
              WITH current <- intrConn, retired <- closed, receiver <- delivered

(* The server with its two threads behaves like one atomic report channel. *)
ImplementsReportChannel == Abstract!Spec

Waiting(h) == \E c \in ToSet(intrQueue) : c.host = h
Alone(h) == \A c \in opened : c.host = h

(* The control channel of the same visit.                                  *)
ControlOf(c) == [c EXCEPT !.psm = "ctrl"]

(* A lone host is not stranded: if its interrupt channel waits while the   *)
(* server waits for a control channel, the one of that visit was closed,   *)
(* which the host notices.  It is neither in use, paired with another      *)
(* visit's interrupt channel, nor forgotten.                               *)
LoneHostNotStranded ==
  (acceptor = "waitCtrl" /\ ctrlQueue = <<>> /\ \E h \in Host : Alone(h))
  => \A c \in ToSet(intrQueue) : ControlOf(c) \in closed

(* While only one host ever shows up it is never kept waiting on its       *)
(* interrupt channel, however often it came, half-connected and left, and  *)
(* whichever accept() raised.                                              *)
LoneHostServed ==
  \A h \in Host : (Waiting(h) /\ Alone(h)) ~> (server # "open" \/ ~Waiting(h) \/ ~Alone(h))

(* close() is followed by the exit unless the accept thread sits in        *)
(* accept(), which close() does not wake.                                  *)
ShutdownEnds ==
  (server = "closed") ~> \/ server = "gone"
                         \/ acceptor = "waitCtrl" /\ ctrlQueue = <<>>
                         \/ acceptor = "waitIntr" /\ intrQueue = <<>>

(* bt_hid_server.py:27, "All public methods are thread-safe.": a failure   *)
(* to send on one connection removes that connection and no other.         *)
FailureRemovesOwnConnection ==
  [][ClearConnection => intrConn \in {conn, NoChannel}]_vars

(* bt_hid_server.py:59, "Block until a HID host connects on both           *)
(* channels.": a host that connected on both is accepted.                  *)
(* The code pairs channels by their order and not by their host.           *)
HostOnBothChannelsServed ==
  \A h \in Host : Waiting(h) ~> (server # "open" \/ ~Waiting(h))
=============================================================================
