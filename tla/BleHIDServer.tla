---------------------------- MODULE BleHIDServer ----------------------------
(***************************************************************************)
(* ble_hid_server.py under the dispatcher and main().  The event loop      *)
(* writes reports and queues one GLib idle callback for each; a daemon     *)
(* thread runs the GLib loop, which answers BlueZ's D-Bus calls and runs   *)
(* the callbacks.  Each of its turns is a step, in any order between calls *)
(* and callbacks (a batch of callbacks is run without looking at D-Bus),   *)
(* but callbacks among themselves in the order they were queued.           *)
(*                                                                         *)
(* BlueZ keeps the subscriptions of the one host and forwards a            *)
(* notification at once.  Its StartNotify and StopNotify wait in the D-Bus *)
(* socket: the server's flags lag behind the subscriptions.  Calls to the  *)
(* two report characteristics touch nothing in common, hence a queue each. *)
(***************************************************************************)
EXTENDS Naturals, Sequences

CONSTANTS Payload,     \* for each characteristic, the payloads that hold something
          Zero,        \* the payload that holds nothing
          MaxQueue,    \* bound: idle callbacks waiting
          MaxCalls     \* bound: calls waiting for one characteristic

Char == {"keyboard", "mouse"}
Object == {"application", "advertisement"}

ASSUME BleAssumption ==
  /\ Payload["keyboard"] \cap Payload["mouse"] = {}
  /\ MaxQueue \in Nat \ {0}
  /\ MaxCalls \in Nat \ {0}

VARIABLES proc,        \* main(): in start(), serving, shutting down
          loop,        \* the daemon thread and its GLib loop
          reg,         \* the two asynchronous registrations with BlueZ
          powered,     \* did the adapter take the Powered setting
          queue,       \* idle callbacks: do_notify with its payload
          calls,       \* BlueZ's calls the loop has yet to read
          notifying,   \* ReportCharacteristic._notifying
          value,       \* ReportCharacteristic._value
          subscribed,  \* the characteristics the host is subscribed to
          host,        \* what the host holds, from each characteristic
          written,     \* history: the payload written last
          lost         \* history: a report was dropped behind one the host holds

serverVars == <<notifying, value>>
bluezVars == <<reg, powered>>
hostVars == <<subscribed, host, lost>>
vars == <<proc, loop, bluezVars, queue, calls, serverVars, hostVars, written>>

PayloadOf(c) == Payload[c] \cup {Zero}

AnyPayload == UNION {PayloadOf(c) : c \in Char}

Report == {r \in [char : Char, payload : AnyPayload] : r.payload \in PayloadOf(r.char)}

(* A payload for each characteristic.                                      *)
Held == {h \in [Char -> AnyPayload] : \A c \in Char : h[c] \in PayloadOf(c)}

TypeOK ==
  /\ proc \in {"new", "running", "releasing", "closing", "closed", "stopped"}
  /\ loop \in {"none", "starting", "running", "quitting", "ended"}
  /\ reg \in [Object -> {"none", "asked", "described", "accepted", "refused", "released"}]
  /\ powered \in BOOLEAN
  /\ queue \in Seq(Report)
  /\ calls \in [Char -> Seq({"StartNotify", "StopNotify"})]
  /\ notifying \in [Char -> BOOLEAN]
  /\ value \in Held /\ host \in Held /\ written \in Held
  /\ subscribed \subseteq Char
  /\ lost \in [Char -> BOOLEAN]

Nothing == [c \in Char |-> Zero]
Nowhere == [c \in Char |-> FALSE]

(* A fresh BleHIDServer and its two ReportCharacteristics.                 *)
Init ==
  /\ proc = "new"
  /\ loop = "none"
  /\ reg = [o \in Object |-> "none"]
  /\ powered = FALSE
  /\ queue = <<>>
  /\ calls = [c \in Char |-> <<>>]
  /\ notifying = Nowhere
  /\ value = Nothing
  /\ subscribed = {}
  /\ host = Nothing
  /\ written = Nothing
  /\ lost = Nowhere

Queued(c) == \E i \in DOMAIN queue : queue[i].char = c

LoopTurns == loop \in {"running", "quitting"}

-----------------------------------------------------------------------------
(* start(): no adapter is a RuntimeError that ends main(); an adapter      *)
(* setting that fails is only logged; the registrations are asked for and  *)
(* the thread is started, and start() returns.                             *)

NoAdapter ==
  /\ proc = "new"
  /\ proc' = "stopped"
  /\ UNCHANGED <<loop, bluezVars, queue, calls, serverVars, hostVars, written>>

ConfigureAdapter == powered' \in BOOLEAN

Register == reg' = [o \in Object |-> "asked"]

Start ==
  /\ proc = "new"
  /\ ConfigureAdapter
  /\ Register
  /\ loop' = "starting"
  /\ proc' = "running"
  /\ UNCHANGED <<queue, calls, serverVars, hostVars, written>>

(* The thread gets into mainloop.run().                                    *)
EnterLoop ==
  /\ loop = "starting"
  /\ loop' = "running"
  /\ UNCHANGED <<proc, bluezVars, queue, calls, serverVars, hostVars, written>>

(* BlueZ asks what it shall register: GetManagedObjects, GetAll.           *)
Describe(o) ==
  /\ LoopTurns
  /\ reg[o] = "asked"
  /\ reg' = [reg EXCEPT ![o] = "described"]
  /\ UNCHANGED <<proc, loop, powered, queue, calls, serverVars, hostVars, written>>

(* Its reply is logged and nothing else, also when it is an error.         *)
Reply(o) ==
  /\ reg[o] = "described"
  /\ \E r \in {"accepted", "refused"} : reg' = [reg EXCEPT ![o] = r]
  /\ UNCHANGED <<proc, loop, powered, queue, calls, serverVars, hostVars, written>>

(* BlueZ ends the advertisement; nobody asks for another one.              *)
Release ==
  /\ reg["advertisement"] = "accepted"
  /\ reg' = [reg EXCEPT !["advertisement"] = "released"]
  /\ UNCHANGED <<proc, loop, powered, queue, calls, serverVars, hostVars, written>>

-----------------------------------------------------------------------------
(* The host, through BlueZ.  Bound: MaxCalls.                              *)

Subscribe(c) ==
  /\ c \notin subscribed
  /\ reg["application"] = "accepted"
  /\ subscribed # {} \/ (powered /\ reg["advertisement"] = "accepted")
  /\ Len(calls[c]) < MaxCalls
  /\ subscribed' = subscribed \cup {c}
  /\ calls' = [calls EXCEPT ![c] = Append(@, "StartNotify")]
  /\ UNCHANGED <<proc, loop, bluezVars, queue, serverVars, host, lost, written>>

Disconnect ==
  /\ subscribed # {}
  /\ \A c \in subscribed : Len(calls[c]) < MaxCalls
  /\ subscribed' = {}
  /\ calls' = [c \in Char |-> IF c \in subscribed THEN Append(calls[c], "StopNotify")
                                                  ELSE calls[c]]
  /\ host' = Nothing
  /\ lost' = Nowhere
  /\ UNCHANGED <<proc, loop, bluezVars, queue, serverVars, written>>

(* Mutant: the two characteristics share one flag.                         *)
NotifyCallShared(c) ==
  /\ LoopTurns
  /\ calls[c] # <<>>
  /\ notifying' = [d \in Char |-> Head(calls[c]) = "StartNotify"]
  /\ calls' = [calls EXCEPT ![c] = Tail(@)]
  /\ UNCHANGED <<proc, loop, bluezVars, queue, value, hostVars, written>>

(* StartNotify() and StopNotify().                                         *)
NotifyCall(c) ==
  /\ LoopTurns
  /\ calls[c] # <<>>
  /\ notifying' = [notifying EXCEPT ![c] = Head(calls[c]) = "StartNotify"]
  /\ calls' = [calls EXCEPT ![c] = Tail(@)]
  /\ UNCHANGED <<proc, loop, bluezVars, queue, value, hostVars, written>>

-----------------------------------------------------------------------------
(* Reports.  A write queues a callback, a callback notifies or drops.      *)

(* Mutants: the other report ID; a report is skipped while one of its      *)
(* characteristic is still queued.                                         *)
EnqueueOtherId(c, p) ==
  /\ queue' = Append(queue, [char |-> CHOOSE d \in Char : d # c, payload |-> p])
  /\ written' = [written EXCEPT ![c] = p]

EnqueueUnlessQueued(c, p) ==
  /\ queue' = IF Queued(c) THEN queue ELSE Append(queue, [char |-> c, payload |-> p])
  /\ written' = [written EXCEPT ![c] = p]

(* write() or release() of BleKeyboardHID or BleMouseHID: send_report()    *)
(* with the report ID of characteristic c, which _started lets through.    *)
Enqueue(c, p) ==
  /\ queue' = Append(queue, [char |-> c, payload |-> p])
  /\ written' = [written EXCEPT ![c] = p]

(* Any report the dispatcher writes.  Bound: MaxQueue, with room for the   *)
(* two reports of the shutdown.                                            *)
Write(c, p) ==
  /\ proc = "running"
  /\ Len(queue) < MaxQueue
  /\ Enqueue(c, p)
  /\ UNCHANGED <<proc, loop, bluezVars, calls, serverVars, hostVars>>

(* Mutants: do_notify() leaves _value alone; it returns True, so that GLib *)
(* keeps the callback and runs it again after the others.                  *)
EmitWithoutValue ==
  LET r == Head(queue)
  IN  /\ LoopTurns
      /\ queue # <<>>
      /\ notifying[r.char]
      /\ queue' = Tail(queue)
      /\ IF r.char \in subscribed
         THEN /\ host' = [host EXCEPT ![r.char] = r.payload]
              /\ lost' = [lost EXCEPT ![r.char] = FALSE]
         ELSE UNCHANGED <<host, lost>>
      /\ UNCHANGED <<proc, loop, bluezVars, calls, serverVars, subscribed, written>>

EmitAgain ==
  LET r == Head(queue)
  IN  /\ LoopTurns
      /\ queue # <<>>
      /\ notifying[r.char]
      /\ queue' = Append(Tail(queue), r)
      /\ value' = [value EXCEPT ![r.char] = r.payload]
      /\ IF r.char \in subscribed
         THEN /\ host' = [host EXCEPT ![r.char] = r.payload]
              /\ lost' = [lost EXCEPT ![r.char] = FALSE]
         ELSE UNCHANGED <<host, lost>>
      /\ UNCHANGED <<proc, loop, bluezVars, calls, notifying, subscribed, written>>

(* do_notify() with _notifying set; BlueZ forwards it to a subscribed host. *)
Emit ==
  LET r == Head(queue)
  IN  /\ LoopTurns
      /\ queue # <<>>
      /\ notifying[r.char]
      /\ queue' = Tail(queue)
      /\ value' = [value EXCEPT ![r.char] = r.payload]
      /\ IF r.char \in subscribed
         THEN /\ host' = [host EXCEPT ![r.char] = r.payload]
              /\ lost' = [lost EXCEPT ![r.char] = FALSE]
         ELSE UNCHANGED <<host, lost>>
      /\ UNCHANGED <<proc, loop, bluezVars, calls, notifying, subscribed, written>>

(* do_notify() without it: the report is gone.                             *)
Drop ==
  LET r == Head(queue)
  IN  /\ LoopTurns
      /\ queue # <<>>
      /\ ~notifying[r.char]
      /\ queue' = Tail(queue)
      /\ lost' = [lost EXCEPT ![r.char] = @ \/ host[r.char] # Zero]
      /\ UNCHANGED <<proc, loop, bluezVars, calls, serverVars, subscribed, host, written>>

DoNotify == Emit \/ Drop

-----------------------------------------------------------------------------
(* Shutdown in main(): dispatcher.close() writes two releases, close()     *)
(* stops the loop if it is running.  None of it waits for the thread.      *)

CloseMouse ==
  /\ proc = "running"
  /\ Enqueue("mouse", Zero)
  /\ proc' = "releasing"
  /\ UNCHANGED <<loop, bluezVars, calls, serverVars, hostVars>>

(* Mutant: the server is closed before the dispatcher, so that the release *)
(* is not queued.                                                          *)
CloseKeyboardTooLate ==
  /\ proc = "releasing"
  /\ written' = [written EXCEPT !["keyboard"] = Zero]
  /\ proc' = "closing"
  /\ UNCHANGED <<loop, bluezVars, queue, calls, serverVars, hostVars>>

CloseKeyboard ==
  /\ proc = "releasing"
  /\ Enqueue("keyboard", Zero)
  /\ proc' = "closing"
  /\ UNCHANGED <<loop, bluezVars, calls, serverVars, hostVars>>

(* close(): a thread that has not entered run() yet is not stopped.        *)
Close ==
  /\ proc = "closing"
  /\ loop' = IF loop = "running" THEN "quitting" ELSE loop
  /\ proc' = "closed"
  /\ UNCHANGED <<bluezVars, queue, calls, serverVars, hostVars, written>>

(* The loop ends after the batch it is in, whatever is left in the queue.  *)
LeaveLoop ==
  /\ loop = "quitting"
  /\ loop' = "ended"
  /\ UNCHANGED <<proc, bluezVars, queue, calls, serverVars, hostVars, written>>

(* The process ends, after close() or killed.  BlueZ removes the           *)
(* application of a client that left the bus, and the host its device.     *)
ProcessEnds ==
  /\ proc # "stopped"
  /\ proc' = "stopped"
  /\ loop' = "none" /\ queue' = <<>> /\ calls' = [c \in Char |-> <<>>]
  /\ reg' = [o \in Object |-> "none"] /\ powered' = FALSE
  /\ notifying' = Nowhere /\ value' = Nothing
  /\ subscribed' = {} /\ host' = Nothing /\ lost' = Nowhere
  /\ written' = Nothing

Restart ==
  /\ proc = "stopped"
  /\ proc' = "new"
  /\ UNCHANGED <<loop, bluezVars, queue, calls, serverVars, hostVars, written>>

Next ==
  \/ NoAdapter \/ Start \/ EnterLoop
  \/ \E o \in Object : Describe(o) \/ Reply(o)
  \/ Release
  \/ \E c \in Char :
       \/ Subscribe(c)
       \/ NotifyCall(c)
       \/ \E p \in PayloadOf(c) : Write(c, p)
  \/ Disconnect
  \/ DoNotify
  \/ CloseMouse \/ CloseKeyboard \/ Close
  \/ LeaveLoop \/ ProcessEnds \/ Restart

(* The thread gets going, and its loop reaches every call and callback:    *)
(* GLib runs idle callbacks whenever the D-Bus socket is quiet.            *)
Fairness ==
  /\ WF_vars(EnterLoop)
  /\ WF_vars(DoNotify)
  /\ WF_vars(LeaveLoop)
  /\ \A c \in Char : WF_vars(NotifyCall(c))

Spec == Init /\ [][Next]_vars

FairSpec == Spec /\ Fairness

-----------------------------------------------------------------------------
(* Whatever the order of writes, callbacks, subscriptions and visits: what *)
(* the host holds is what ReadValue() returns, and it is the report        *)
(* written last, unless a later one is still queued or was dropped because *)
(* a StopNotify of an earlier visit was read after the host was back.      *)
HostInStep ==
  \A c \in Char : host[c] # Zero =>
    /\ host[c] = value[c]
    /\ host[c] = written[c] \/ Queued(c) \/ lost[c]

(* Once every call of BlueZ is read, the server notifies exactly for the   *)
(* subscriptions the host has, however often it came and went meanwhile.   *)
SubscriptionKnown ==
  \A c \in Char : calls[c] = <<>> => (notifying[c] <=> c \in subscribed)

(* A report is lost behind one the host holds only while a call of BlueZ   *)
(* waits to be read: do_notify() looking at _notifying in another thread's *)
(* time is harmless otherwise.                                             *)
LossNeedsLateCall ==
  [][\A c \in Char : lost'[c] /\ ~lost[c] => calls[c] # <<>>]_vars

(* After close(), a key or button the host still holds has its release in  *)
(* the queue: only the end of the loop can cut it off, and nothing else in *)
(* the queue comes after it.                                               *)
HeldAtCloseIsCutOff ==
  proc \in {"closing", "closed"} =>
    \A c \in Char : host[c] # Zero =>
      \/ lost[c]
      \/ \E i \in DOMAIN queue :
           /\ queue[i] = [char |-> c, payload |-> Zero]
           /\ \A j \in DOMAIN queue : queue[j].char = c => j <= i

Pipe == INSTANCE ReportPipe WITH pipe <- queue

(* Two threads, an idle queue and D-Bus are together one lossy pipe: no    *)
(* report overtakes another, none arrives twice.                           *)
ImplementsReportPipe == Pipe!Spec

(* A key or button that was released comes up on the host, however many    *)
(* other reports are written, unless close() stops the loop first.         *)
ReleaseReachesHost ==
  \A c \in Char :
    (host[c] # Zero /\ written[c] = Zero)
    ~> (host[c] = Zero \/ written[c] # Zero \/ lost[c] \/ loop \in {"quitting", "ended"})

(* A host that stays subscribed is notified in the end, however often it   *)
(* came and went before.                                                   *)
SubscriptionSeen ==
  \A c \in Char :
    (c \in subscribed)
    ~> (notifying[c] \/ c \notin subscribed \/ loop \in {"quitting", "ended"})
=============================================================================
