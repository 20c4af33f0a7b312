------------------------ MODULE BleHIDServer_proof --------------------------
(* Proofs for BleHIDServer, for every set of payloads and every bound.     *)
EXTENDS BleHIDServer, TLAPS

(* The last report of c in the queue is the one written last.              *)
Latest(c) ==
  \E i \in DOMAIN queue :
    /\ queue[i] = [char |-> c, payload |-> written[c]]
    /\ \A j \in DOMAIN queue : queue[j].char = c => j <= i

QueueEndsWithLatest == \A c \in Char : Queued(c) => Latest(c)

HostGotValue == \A c \in Char : host[c] # Zero => host[c] = value[c]

HostGotLatest ==
  \A c \in Char : ~Queued(c) /\ ~lost[c] /\ host[c] # Zero => host[c] = written[c]

(* A host that is not subscribed holds nothing.                            *)
UnsubscribedHoldsNothing == \A c \in Char : c \notin subscribed => host[c] = Zero

ReleasedWhenClosing ==
  /\ proc = "releasing" => written["mouse"] = Zero
  /\ proc \in {"closing", "closed"} => \A c \in Char : written[c] = Zero

BInv ==
  /\ TypeOK
  /\ QueueEndsWithLatest
  /\ HostGotValue
  /\ HostGotLatest
  /\ UnsubscribedHoldsNothing
  /\ ReleasedWhenClosing

-----------------------------------------------------------------------------
LEMMA HeldUpdate ==
  ASSUME NEW h \in Held, NEW c \in Char, NEW p \in PayloadOf(c)
  PROVE  /\ [h EXCEPT ![c] = p] \in Held
         /\ [h EXCEPT ![c] = p][c] = p
         /\ \A d \in Char : d # c => [h EXCEPT ![c] = p][d] = h[d]
  <1>1. p \in AnyPayload
    BY Zenon DEF AnyPayload
  <1> QED
    BY <1>1 DEF Held

LEMMA NothingHeld ==
  Nothing \in Held /\ (\A c \in Char : Zero \in PayloadOf(c) /\ Nothing[c] = Zero)
  <1>1. \A c \in Char : Zero \in PayloadOf(c)
    BY DEF PayloadOf
  <1>2. Zero \in AnyPayload
    <2>1. "mouse" \in Char /\ Zero \in PayloadOf("mouse")
      BY <1>1 DEF Char
    <2> QED
      BY <2>1, Zenon DEF AnyPayload
  <1> QED
    BY <1>1, <1>2 DEF Nothing, Held

LEMMA ReportOfPayload ==
  ASSUME NEW c \in Char, NEW p \in PayloadOf(c)
  PROVE  [char |-> c, payload |-> p] \in Report
  <1>1. p \in AnyPayload
    BY Zenon DEF AnyPayload
  <1> QED
    BY <1>1 DEF Report

(* What the handlers do to the queue.                                      *)
LEMMA EnqueueAppends ==
  ASSUME TypeOK, NEW c \in Char, NEW p \in PayloadOf(c), Enqueue(c, p)
  PROVE  /\ queue' \in Seq(Report)
         /\ Len(queue') = Len(queue) + 1
         /\ Len(queue') \in DOMAIN queue'
         /\ queue'[Len(queue')] = [char |-> c, payload |-> p]
         /\ \A i \in DOMAIN queue : i \in DOMAIN queue' /\ queue'[i] = queue[i]
         /\ \A i \in DOMAIN queue' : i = Len(queue') \/ i \in DOMAIN queue
         /\ \A i \in DOMAIN queue' : i <= Len(queue')
         /\ written' \in Held
         /\ written'[c] = p
         /\ \A d \in Char : d # c => written'[d] = written[d]
  <1>1. [char |-> c, payload |-> p] \in Report
    BY ReportOfPayload
  <1>2. /\ written' \in Held
        /\ written'[c] = p
        /\ \A d \in Char : d # c => written'[d] = written[d]
    <2>1. written \in Held /\ written' = [written EXCEPT ![c] = p]
      BY DEF TypeOK, Enqueue
    <2>2. PICK w \in Held : w = written
      BY <2>1
    <2>3. /\ [w EXCEPT ![c] = p] \in Held
          /\ [w EXCEPT ![c] = p][c] = p
          /\ \A d \in Char : d # c => [w EXCEPT ![c] = p][d] = w[d]
      BY HeldUpdate
    <2> QED
      BY <2>1, <2>2, <2>3
  <1> DEFINE r == [char |-> c, payload |-> p]
  <1>3. queue \in Seq(Report) /\ queue' = Append(queue, r) /\ r \in Report
    BY <1>1 DEF TypeOK, Enqueue
  <1> HIDE DEF r
  <1>4. /\ queue' \in Seq(Report)
        /\ Len(queue') = Len(queue) + 1
        /\ Len(queue') \in DOMAIN queue'
        /\ queue'[Len(queue')] = r
        /\ \A i \in DOMAIN queue : i \in DOMAIN queue' /\ queue'[i] = queue[i]
        /\ \A i \in DOMAIN queue' : i = Len(queue') \/ i \in DOMAIN queue
        /\ \A i \in DOMAIN queue' : i <= Len(queue')
    BY <1>3
  <1> QED
    BY <1>2, <1>4 DEF r

LEMMA DequeueTail ==
  ASSUME TypeOK, queue # <<>>, queue' = Tail(queue)
  PROVE  /\ queue' \in Seq(Report)
         /\ \A i \in DOMAIN queue' : i + 1 \in DOMAIN queue /\ queue'[i] = queue[i + 1]
         /\ \A j \in DOMAIN queue : j > 1 => j - 1 \in DOMAIN queue' /\ queue'[j - 1] = queue[j]
         /\ 1 \in DOMAIN queue /\ Head(queue) = queue[1]
         /\ Head(queue) \in Report
         /\ DOMAIN queue \subseteq Nat \ {0} /\ DOMAIN queue' \subseteq Nat \ {0}
  <1>1. queue \in Seq(Report)
    BY DEF TypeOK
  <1>2. /\ DOMAIN queue = 1..Len(queue) /\ Len(queue) \in Nat
        /\ queue' \in Seq(Report)
        /\ DOMAIN queue' = 1..Len(queue') /\ Len(queue') = Len(queue) - 1
    BY <1>1
  <1> QED
    BY <1>1, <1>2

-----------------------------------------------------------------------------
LEMMA TypeStep == TypeOK /\ [Next]_vars => TypeOK'
  <1> SUFFICES ASSUME TypeOK, [Next]_vars PROVE TypeOK'
    OBVIOUS
  <1> USE BleAssumption DEF TypeOK, Char, Object
  <1>1. CASE NoAdapter
    BY <1>1 DEF NoAdapter, bluezVars, serverVars, hostVars
  <1>2. CASE Start
    BY <1>2 DEF Start, ConfigureAdapter, Register, serverVars, hostVars
  <1>3. CASE EnterLoop
    BY <1>3 DEF EnterLoop, bluezVars, serverVars, hostVars
  <1>4. ASSUME NEW o \in Object, Describe(o) PROVE TypeOK'
    BY <1>4 DEF Describe, serverVars, hostVars
  <1>5. ASSUME NEW o \in Object, Reply(o) PROVE TypeOK'
    BY <1>5 DEF Reply, serverVars, hostVars
  <1>6. CASE Release
    BY <1>6 DEF Release, serverVars, hostVars
  <1>7. ASSUME NEW c \in Char, Subscribe(c) PROVE TypeOK'
    <2>1. calls' \in [Char -> Seq({"StartNotify", "StopNotify"})]
      BY <1>7 DEF Subscribe
    <2>2. subscribed' \subseteq Char
      BY <1>7 DEF Subscribe
    <2> QED
      BY <1>7, <2>1, <2>2 DEF Subscribe, bluezVars, serverVars
  <1>8. CASE Disconnect
    <2>1. calls' \in [Char -> Seq({"StartNotify", "StopNotify"})]
      BY <1>8 DEF Disconnect
    <2> QED
      BY <1>8, <2>1, NothingHeld DEF Disconnect, Nowhere, bluezVars, serverVars
  <1>9. ASSUME NEW c \in Char, NotifyCall(c) PROVE TypeOK'
    <2>1. calls[c] \in Seq({"StartNotify", "StopNotify"}) /\ calls[c] # <<>>
      BY <1>9 DEF NotifyCall
    <2>2. calls' \in [Char -> Seq({"StartNotify", "StopNotify"})]
      BY <1>9, <2>1 DEF NotifyCall
    <2>3. notifying' \in [Char -> BOOLEAN]
      BY <1>9 DEF NotifyCall
    <2> QED
      BY <1>9, <2>2, <2>3 DEF NotifyCall, bluezVars, hostVars
  <1>10. ASSUME NEW c \in Char, NEW p \in PayloadOf(c), Write(c, p) PROVE TypeOK'
    BY <1>10, EnqueueAppends DEF Write, bluezVars, serverVars, hostVars
  <1>11. CASE Emit
    <2>1. Head(queue) \in Report /\ queue' \in Seq(Report)
      BY <1>11, DequeueTail DEF Emit
    <2>2. PICK r \in Report : r = Head(queue)
      BY <2>1
    <2>3. r.char \in Char /\ r.payload \in PayloadOf(r.char)
      BY DEF Report
    <2>4. /\ value' = [value EXCEPT ![r.char] = r.payload]
          /\ host' \in {host, [host EXCEPT ![r.char] = r.payload]}
          /\ lost' \in {lost, [lost EXCEPT ![r.char] = FALSE]}
      BY <1>11, <2>2 DEF Emit
    <2>5. PICK v \in Held, h \in Held : v = value /\ h = host
      OBVIOUS
    <2>6. [v EXCEPT ![r.char] = r.payload] \in Held /\ [h EXCEPT ![r.char] = r.payload] \in Held
      BY <2>3, HeldUpdate
    <2>7. value' \in Held /\ host' \in Held /\ lost' \in [Char -> BOOLEAN]
      BY <2>3, <2>4, <2>5, <2>6
    <2> QED
      BY <1>11, <2>1, <2>7 DEF Emit, bluezVars
  <1>12. CASE Drop
    <2>1. Head(queue) \in Report /\ queue' \in Seq(Report)
      BY <1>12, DequeueTail DEF Drop
    <2>2. lost' \in [Char -> BOOLEAN]
      BY <1>12, <2>1 DEF Drop
    <2> QED
      BY <1>12, <2>1, <2>2 DEF Drop, bluezVars, serverVars
  <1>13. CASE CloseMouse
    BY <1>13, NothingHeld, EnqueueAppends DEF CloseMouse, bluezVars, serverVars, hostVars
  <1>14. CASE CloseKeyboard
    BY <1>14, NothingHeld, EnqueueAppends DEF CloseKeyboard, bluezVars, serverVars, hostVars
  <1>15. CASE Close
    BY <1>15 DEF Close, bluezVars, serverVars, hostVars
  <1>16. CASE LeaveLoop
    BY <1>16 DEF LeaveLoop, bluezVars, serverVars, hostVars
  <1>17. CASE ProcessEnds
    <2>1. value' \in Held /\ host' \in Held /\ written' \in Held
      BY <1>17, NothingHeld DEF ProcessEnds
    <2>2. queue' \in Seq(Report) /\ calls' \in [Char -> Seq({"StartNotify", "StopNotify"})]
      BY <1>17 DEF ProcessEnds
    <2> QED
      BY <1>17, <2>1, <2>2 DEF ProcessEnds, Nowhere
  <1>18. CASE Restart
    BY <1>18 DEF Restart, bluezVars, serverVars, hostVars
  <1>19. CASE UNCHANGED vars
    BY <1>19 DEF vars, bluezVars, serverVars, hostVars
  <1> QED
    BY <1>1, <1>2, <1>3, <1>4, <1>5, <1>6, <1>7, <1>8, <1>9, <1>10, <1>11, <1>12,
       <1>13, <1>14, <1>15, <1>16, <1>17, <1>18, <1>19 DEF Next, DoNotify

LEMMA InitType == Init => TypeOK
  <1> SUFFICES ASSUME Init PROVE TypeOK
    OBVIOUS
  <1>1. value \in Held /\ host \in Held /\ written \in Held
    BY NothingHeld DEF Init
  <1>2. queue \in Seq(Report) /\ calls \in [Char -> Seq({"StartNotify", "StopNotify"})]
    BY DEF Init
  <1> QED
    BY <1>1, <1>2 DEF Init, TypeOK, Nowhere, Char, Object

(* The thread, the characteristics and what the host holds stay what they  *)
(* are declared to be, with reports and calls of the right kind waiting.   *)
THEOREM TypeCorrect == Spec => []TypeOK
  BY InitType, TypeStep, PTL DEF Spec

-----------------------------------------------------------------------------
(* A write becomes the latest report of its characteristic.                *)
LEMMA EnqueueKeeps ==
  ASSUME TypeOK, QueueEndsWithLatest, HostGotLatest, UNCHANGED <<host, lost>>,
         NEW c \in Char, NEW p \in PayloadOf(c), Enqueue(c, p)
  PROVE  QueueEndsWithLatest' /\ HostGotLatest'
  <1>0. /\ Len(queue') \in DOMAIN queue'
        /\ queue'[Len(queue')] = [char |-> c, payload |-> p]
        /\ \A i \in DOMAIN queue : i \in DOMAIN queue' /\ queue'[i] = queue[i]
        /\ \A i \in DOMAIN queue' : i = Len(queue') \/ i \in DOMAIN queue
        /\ \A i \in DOMAIN queue' : i <= Len(queue')
        /\ written'[c] = p
        /\ \A d \in Char : d # c => written'[d] = written[d]
    BY EnqueueAppends
  <1>1. Queued(c)' /\ Latest(c)'
    BY <1>0 DEF Queued, Latest
  <1>2. ASSUME NEW d \in Char, d # c
        PROVE  (Queued(d)' <=> Queued(d)) /\ (Latest(d) => Latest(d)')
    <2>1. queue'[Len(queue')].char = c /\ written'[d] = written[d]
      BY <1>0, <1>2
    <2> QED
      BY <1>0, <1>2, <2>1 DEF Queued, Latest
  <1>3. QueueEndsWithLatest'
    BY <1>1, <1>2 DEF QueueEndsWithLatest
  <1>4. ASSUME NEW d \in Char, ~Queued(d)' /\ ~lost'[d] /\ host'[d] # Zero
        PROVE  host'[d] = written'[d]
    <2>1. d # c
      BY <1>1, <1>4
    <2>2. ~Queued(d) /\ ~lost[d] /\ host[d] # Zero /\ written'[d] = written[d]
      BY <1>0, <1>2, <1>4, <2>1
    <2> QED
      BY <2>2 DEF HostGotLatest
  <1> QED
    BY <1>3, <1>4 DEF HostGotLatest

(* The head of the queue is not the latest of its kind while one is behind *)
(* it, and it is when none is.                                             *)
LEMMA DequeueKeeps ==
  ASSUME TypeOK, QueueEndsWithLatest, queue # <<>>, queue' = Tail(queue),
         UNCHANGED written, NEW r \in Report, r = Head(queue)
  PROVE  /\ QueueEndsWithLatest'
         /\ ~Queued(r.char)' => r.payload = written[r.char]
         /\ \A d \in Char : d # r.char => (Queued(d)' <=> Queued(d))
  <1>1. ASSUME NEW d \in Char, Queued(d)' PROVE Queued(d) /\ Latest(d)'
    <2>1. PICK k \in DOMAIN queue' : queue'[k].char = d
      BY <1>1 DEF Queued
    <2>2. k + 1 \in DOMAIN queue /\ queue[k + 1].char = d
      BY <2>1, DequeueTail
    <2>3. Latest(d)
      BY <2>2 DEF Queued, QueueEndsWithLatest
    <2>4. PICK i \in DOMAIN queue :
            /\ queue[i] = [char |-> d, payload |-> written[d]]
            /\ \A j \in DOMAIN queue : queue[j].char = d => j <= i
      BY <2>3 DEF Latest
    <2>5. i \in Nat /\ k \in Nat /\ k + 1 <= i /\ k >= 1
      BY <2>2, <2>4, DequeueTail
    <2>6. i - 1 \in DOMAIN queue' /\ queue'[i - 1] = queue[i]
      BY <2>5, DequeueTail
    <2>7. ASSUME NEW j \in DOMAIN queue', queue'[j].char = d PROVE j <= i - 1
      BY <2>4, <2>5, <2>7, DequeueTail
    <2> QED
      BY <2>2, <2>4, <2>6, <2>7 DEF Queued, Latest
  <1>2. ASSUME ~Queued(r.char)'
        PROVE  r.payload = written[r.char]
    <2>1. r.char \in Char /\ 1 \in DOMAIN queue /\ r = queue[1]
      BY DequeueTail DEF Report
    <2>2. PICK i \in DOMAIN queue :
            queue[i] = [char |-> r.char, payload |-> written[r.char]]
      BY <2>1 DEF Queued, QueueEndsWithLatest, Latest
    <2>3. ~(i > 1)
      <3>1. ASSUME i > 1 PROVE queue'[i - 1].char = r.char /\ i - 1 \in DOMAIN queue'
        BY <2>2, <3>1, DequeueTail
      <3> QED
        BY <1>2, <3>1 DEF Queued
    <2>4. i = 1
      BY <2>3, DequeueTail
    <2> QED
      BY <2>1, <2>2, <2>4
  <1>3. ASSUME NEW d \in Char, d # r.char, Queued(d) PROVE Queued(d)'
    <2>1. PICK j \in DOMAIN queue : queue[j].char = d
      BY <1>3 DEF Queued
    <2>2. j > 1
      BY <1>3, <2>1, DequeueTail
    <2> QED
      BY <2>1, <2>2, DequeueTail DEF Queued
  <1> QED
    BY <1>1, <1>2, <1>3 DEF QueueEndsWithLatest

-----------------------------------------------------------------------------
(* The steps that leave reports, values, the host and the shutdown alone.  *)
Aside == UNCHANGED <<queue, value, subscribed, host, lost, written>>

LEMMA AsideKeeps ==
  ASSUME BInv, Aside,
         proc' = proc \/ proc' \in {"new", "running", "stopped"}
         \/ (proc = "closing" /\ proc' = "closed")
  PROVE  /\ QueueEndsWithLatest' /\ HostGotValue' /\ HostGotLatest'
         /\ UnsubscribedHoldsNothing' /\ ReleasedWhenClosing'
  BY DEF BInv, Aside, QueueEndsWithLatest, Queued, Latest, HostGotValue, HostGotLatest,
         UnsubscribedHoldsNothing, ReleasedWhenClosing

LEMMA BStep == BInv /\ [Next]_vars => BInv'
  <1> SUFFICES ASSUME BInv, [Next]_vars PROVE BInv'
    OBVIOUS
  <1>a. TypeOK /\ QueueEndsWithLatest /\ HostGotValue /\ HostGotLatest
        /\ UnsubscribedHoldsNothing /\ ReleasedWhenClosing
    BY DEF BInv
  <1>b. TypeOK'
    BY <1>a, TypeStep
  <1> DEFINE Rest == /\ QueueEndsWithLatest' /\ HostGotValue' /\ HostGotLatest'
                     /\ UnsubscribedHoldsNothing' /\ ReleasedWhenClosing'
  <1> SUFFICES Rest
    BY <1>b DEF BInv
  <1>1. CASE NoAdapter
    BY <1>1, AsideKeeps DEF NoAdapter, bluezVars, serverVars, hostVars, Aside
  <1>2. CASE Start
    BY <1>2, AsideKeeps DEF Start, ConfigureAdapter, Register, serverVars, hostVars, Aside
  <1>3. CASE EnterLoop
    BY <1>3, AsideKeeps DEF EnterLoop, serverVars, hostVars, Aside
  <1>4. ASSUME NEW o \in Object, Describe(o) \/ Reply(o) PROVE Rest
    BY <1>4, AsideKeeps DEF Describe, Reply, serverVars, hostVars, Aside
  <1>5. CASE Release
    BY <1>5, AsideKeeps DEF Release, serverVars, hostVars, Aside
  <1>6. ASSUME NEW c \in Char, Subscribe(c) PROVE Rest
    BY <1>6, <1>a DEF Subscribe, serverVars, QueueEndsWithLatest, Queued, Latest,
       HostGotValue, HostGotLatest, UnsubscribedHoldsNothing, ReleasedWhenClosing
  <1>7. CASE Disconnect
    <2>1. \A c \in Char : host'[c] = Zero
      BY <1>7, NothingHeld DEF Disconnect
    <2> QED
      BY <1>7, <2>1, <1>a DEF Disconnect, serverVars, QueueEndsWithLatest, Queued, Latest,
         HostGotValue, HostGotLatest, UnsubscribedHoldsNothing, ReleasedWhenClosing
  <1>8. ASSUME NEW c \in Char, NotifyCall(c) PROVE Rest
    BY <1>8, AsideKeeps DEF NotifyCall, hostVars, Aside
  <1>9. ASSUME NEW c \in Char, NEW p \in PayloadOf(c), Write(c, p) PROVE Rest
    <2>1. QueueEndsWithLatest' /\ HostGotLatest'
      BY <1>9, <1>a, EnqueueKeeps DEF Write, hostVars
    <2> QED
      BY <1>9, <1>a, <2>1 DEF Write, hostVars, serverVars, HostGotValue,
         UnsubscribedHoldsNothing, ReleasedWhenClosing
  <1>10. CASE DoNotify
    <2>1. queue # <<>> /\ queue' = Tail(queue) /\ UNCHANGED <<proc, subscribed, written>>
      BY <1>10 DEF DoNotify, Emit, Drop
    <2>2. PICK r \in Report : r = Head(queue)
      BY <1>a, <2>1, DequeueTail
    <2>3. r.char \in Char /\ r.payload \in PayloadOf(r.char)
      BY DEF Report
    <2>4. /\ QueueEndsWithLatest'
          /\ ~Queued(r.char)' => r.payload = written[r.char]
          /\ \A d \in Char : d # r.char => (Queued(d)' <=> Queued(d))
      BY <1>a, <2>1, <2>2, DequeueKeeps
    <2>5. CASE Emit /\ r.char \in subscribed
      <3>1. /\ value' = [value EXCEPT ![r.char] = r.payload]
            /\ host' = [host EXCEPT ![r.char] = r.payload]
            /\ lost' = [lost EXCEPT ![r.char] = FALSE]
        BY <2>2, <2>5 DEF Emit
      <3>2. /\ value'[r.char] = r.payload /\ host'[r.char] = r.payload
            /\ \A d \in Char : d # r.char => /\ value'[d] = value[d] /\ host'[d] = host[d]
                                             /\ lost'[d] = lost[d]
        BY <1>a, <2>3, <3>1 DEF TypeOK, Held
      <3> QED
        BY <1>a, <2>1, <2>4, <2>5, <3>2 DEF HostGotValue, HostGotLatest,
           UnsubscribedHoldsNothing, ReleasedWhenClosing
    <2>6. CASE Emit /\ r.char \notin subscribed
      <3>1. /\ value' = [value EXCEPT ![r.char] = r.payload]
            /\ UNCHANGED <<host, lost>>
        BY <2>2, <2>6 DEF Emit
      <3>2. \A d \in Char : d # r.char => value'[d] = value[d]
        BY <1>a, <2>3, <3>1 DEF TypeOK, Held
      <3>3. host[r.char] = Zero
        BY <1>a, <2>3, <2>6 DEF UnsubscribedHoldsNothing
      <3> QED
        BY <1>a, <2>1, <2>4, <3>1, <3>2, <3>3 DEF HostGotValue, HostGotLatest,
           UnsubscribedHoldsNothing, ReleasedWhenClosing
    <2>7. CASE Drop
      <3>1. /\ lost' = [lost EXCEPT ![r.char] = @ \/ host[r.char] # Zero]
            /\ UNCHANGED <<value, host>>
        BY <2>2, <2>7 DEF Drop, serverVars
      <3>2. /\ host[r.char] # Zero => lost'[r.char]
            /\ \A d \in Char : d # r.char => lost'[d] = lost[d]
        BY <1>a, <2>3, <3>1 DEF TypeOK
      <3> QED
        BY <1>a, <2>1, <2>4, <3>1, <3>2 DEF HostGotValue, HostGotLatest,
           UnsubscribedHoldsNothing, ReleasedWhenClosing
    <2> QED
      BY <1>10, <2>5, <2>6, <2>7 DEF DoNotify
  <1>11. CASE CloseMouse
    <2>1. "mouse" \in Char /\ Zero \in PayloadOf("mouse")
      BY NothingHeld DEF Char
    <2>2. QueueEndsWithLatest' /\ HostGotLatest' /\ written'["mouse"] = Zero
      BY <1>11, <1>a, <2>1, EnqueueKeeps, EnqueueAppends DEF CloseMouse, hostVars
    <2> QED
      BY <1>11, <1>a, <2>2 DEF CloseMouse, hostVars, serverVars, HostGotValue,
         UnsubscribedHoldsNothing, ReleasedWhenClosing
  <1>12. CASE CloseKeyboard
    <2>1. "keyboard" \in Char /\ Zero \in PayloadOf("keyboard")
      BY NothingHeld DEF Char
    <2>2. /\ QueueEndsWithLatest' /\ HostGotLatest'
          /\ written'["keyboard"] = Zero
          /\ \A d \in Char : d # "keyboard" => written'[d] = written[d]
      BY <1>12, <1>a, <2>1, EnqueueKeeps, EnqueueAppends DEF CloseKeyboard, hostVars
    <2>3. \A d \in Char : d # "keyboard" => d = "mouse"
      BY DEF Char
    <2> QED
      BY <1>12, <1>a, <2>2, <2>3 DEF CloseKeyboard, hostVars, serverVars, HostGotValue,
         UnsubscribedHoldsNothing, ReleasedWhenClosing
  <1>13. CASE Close
    BY <1>13, AsideKeeps DEF Close, serverVars, hostVars, Aside
  <1>14. CASE LeaveLoop
    BY <1>14, AsideKeeps DEF LeaveLoop, serverVars, hostVars, Aside
  <1>15. CASE ProcessEnds
    <2>1. \A c \in Char : host'[c] = Zero
      BY <1>15, NothingHeld DEF ProcessEnds
    <2> QED
      BY <1>15, <2>1 DEF ProcessEnds, QueueEndsWithLatest, Queued, HostGotValue,
         HostGotLatest, UnsubscribedHoldsNothing, ReleasedWhenClosing
  <1>16. CASE Restart
    BY <1>16, AsideKeeps DEF Restart, serverVars, hostVars, Aside
  <1>17. CASE UNCHANGED vars
    BY <1>17, AsideKeeps DEF vars, serverVars, hostVars, Aside
  <1> QED
    BY <1>1, <1>2, <1>3, <1>4, <1>5, <1>6, <1>7, <1>8, <1>9, <1>10, <1>11, <1>12,
       <1>13, <1>14, <1>15, <1>16, <1>17 DEF Next

LEMMA InitB == Init => BInv
  <1> SUFFICES ASSUME Init PROVE BInv
    OBVIOUS
  <1>1. TypeOK
    BY InitType
  <1>2. \A c \in Char : host[c] = Zero
    BY NothingHeld DEF Init
  <1> QED
    BY <1>1, <1>2 DEF Init, BInv, QueueEndsWithLatest, Queued, HostGotValue,
       HostGotLatest, UnsubscribedHoldsNothing, ReleasedWhenClosing

(* Reports are passed from thread to thread and to the host without ever   *)
(* putting the host out of step with the latest write, losses apart.       *)
THEOREM HostStaysInStep == Spec => []HostInStep
  <1>1. BInv => HostInStep
    BY DEF BInv, HostInStep, HostGotValue, HostGotLatest
  <1> QED
    BY <1>1, InitB, BStep, PTL DEF Spec

(* What close() leaves held on the host has its release last in the queue. *)
THEOREM HeldAtClose == Spec => []HeldAtCloseIsCutOff
  <1>1. BInv => HeldAtCloseIsCutOff
    <2> SUFFICES ASSUME BInv, proc \in {"closing", "closed"},
                        NEW c \in Char, host[c] # Zero, ~lost[c]
                 PROVE  \E i \in DOMAIN queue :
                          /\ queue[i] = [char |-> c, payload |-> Zero]
                          /\ \A j \in DOMAIN queue : queue[j].char = c => j <= i
      BY DEF HeldAtCloseIsCutOff
    <2>1. written[c] = Zero
      BY DEF BInv, ReleasedWhenClosing
    <2>2. Queued(c)
      BY <2>1 DEF BInv, HostGotLatest
    <2> QED
      BY <2>1, <2>2 DEF BInv, QueueEndsWithLatest, Latest
  <1> QED
    BY <1>1, InitB, BStep, PTL DEF Spec

-----------------------------------------------------------------------------
(* BlueZ's calls and the server's flags.                                   *)

Last(s) == s[Len(s)]

(* The last call that waits tells whether the host is subscribed now, and  *)
(* the flag does when none waits.                                          *)
CallsTell(c) ==
  /\ calls[c] = <<>> => (notifying[c] <=> c \in subscribed)
  /\ calls[c] # <<>> => (Last(calls[c]) = "StartNotify" <=> c \in subscribed)

CallInv == TypeOK /\ \A c \in Char : CallsTell(c)

Call == {"StartNotify", "StopNotify"}

LEMMA LastAppended ==
  ASSUME NEW s \in Seq(Call), NEW a \in Call
  PROVE  Append(s, a) # <<>> /\ Last(Append(s, a)) = a
  BY DEF Last

LEMMA LastOfTail ==
  ASSUME NEW s \in Seq(Call), s # <<>>
  PROVE  IF Tail(s) = <<>> THEN Head(s) = Last(s) ELSE Last(Tail(s)) = Last(s)
  <1>1. Len(s) \in Nat \ {0} /\ Len(Tail(s)) = Len(s) - 1 /\ Tail(s) \in Seq(Call)
    OBVIOUS
  <1>2. CASE Tail(s) = <<>>
    BY <1>1, <1>2 DEF Last
  <1>3. CASE Tail(s) # <<>>
    <2>1. Len(Tail(s)) \in 1..Len(Tail(s))
      BY <1>1, <1>3
    <2> QED BY <1>1, <1>3, <2>1 DEF Last
  <1> QED BY <1>2, <1>3

LEMMA CallInit == Init => CallInv
  BY InitType DEF Init, CallInv, CallsTell, Nowhere

LEMMA CallStep == CallInv /\ [Next]_vars => CallInv'
  <1> SUFFICES ASSUME CallInv, [Next]_vars PROVE CallInv'
    OBVIOUS
  <1>a. TypeOK /\ TypeOK'
    BY TypeStep DEF CallInv
  <1>b. /\ calls \in [Char -> Seq(Call)] /\ notifying \in [Char -> BOOLEAN]
        /\ \A c \in Char : CallsTell(c)
    BY DEF CallInv, TypeOK, Call
  <1> SUFFICES \A c \in Char : CallsTell(c)'
    BY <1>a DEF CallInv
  <1>1. ASSUME NEW c \in Char, Subscribe(c) PROVE \A d \in Char : CallsTell(d)'
    <2>1. /\ calls' = [calls EXCEPT ![c] = Append(@, "StartNotify")]
          /\ subscribed' = subscribed \cup {c} /\ notifying' = notifying
      BY <1>1 DEF Subscribe, serverVars
    <2>2. PICK s \in Seq(Call) : s = calls[c]
      BY <1>b
    <2>3. calls'[c] # <<>> /\ Last(calls'[c]) = "StartNotify"
      BY <1>b, <2>1, <2>2, LastAppended DEF Call
    <2>4. \A d \in Char : d # c => calls'[d] = calls[d]
      BY <1>b, <2>1
    <2> QED BY <1>b, <2>1, <2>3, <2>4 DEF CallsTell
  <1>2. CASE Disconnect
    <2>1. ASSUME NEW c \in Char PROVE CallsTell(c)'
      <3>1. /\ calls'[c] = IF c \in subscribed THEN Append(calls[c], "StopNotify") ELSE calls[c]
            /\ c \notin subscribed' /\ notifying' = notifying
        BY <1>2 DEF Disconnect, serverVars
      <3>2. CASE c \in subscribed
        <4>1. PICK s \in Seq(Call) : s = calls[c]
          BY <1>b
        <4>2. calls'[c] # <<>> /\ Last(calls'[c]) = "StopNotify"
          BY <3>1, <3>2, <4>1, LastAppended DEF Call
        <4> QED BY <3>1, <4>2 DEF CallsTell
      <3>3. CASE c \notin subscribed
        BY <1>b, <3>1, <3>3 DEF CallsTell
      <3> QED BY <3>2, <3>3
    <2> QED BY <2>1
  <1>3. ASSUME NEW c \in Char, NotifyCall(c) PROVE \A d \in Char : CallsTell(d)'
    <2>1. /\ calls[c] # <<>> /\ calls' = [calls EXCEPT ![c] = Tail(@)]
          /\ notifying' = [notifying EXCEPT ![c] = Head(calls[c]) = "StartNotify"]
          /\ subscribed' = subscribed
      BY <1>3 DEF NotifyCall, hostVars
    <2>2. PICK s \in Seq(Call) : s = calls[c]
      BY <1>b
    <2>3. /\ calls'[c] = Tail(s) /\ notifying'[c] = (Head(s) = "StartNotify")
          /\ \A d \in Char : d # c => calls'[d] = calls[d] /\ notifying'[d] = notifying[d]
      BY <1>b, <2>1, <2>2
    <2>4. /\ Last(s) = "StartNotify" <=> c \in subscribed
          /\ IF Tail(s) = <<>> THEN Head(s) = Last(s) ELSE Last(Tail(s)) = Last(s)
      BY <1>b, <2>1, <2>2, LastOfTail DEF CallsTell
    <2> QED BY <1>b, <2>1, <2>3, <2>4 DEF CallsTell
  <1>4. CASE ProcessEnds
    BY <1>4 DEF ProcessEnds, Nowhere, CallsTell
  <1>5. CASE UNCHANGED <<calls, notifying, subscribed>>
    BY <1>b, <1>5 DEF CallsTell
  <1>6. CASE NoAdapter \/ Start \/ EnterLoop \/ Release
    BY <1>5, <1>6 DEF NoAdapter, Start, EnterLoop, Release, serverVars, hostVars
  <1>7. ASSUME NEW o \in Object, Describe(o) \/ Reply(o) PROVE \A c \in Char : CallsTell(c)'
    BY <1>5, <1>7 DEF Describe, Reply, serverVars, hostVars
  <1>8. ASSUME NEW c \in Char, NEW p \in PayloadOf(c), Write(c, p)
        PROVE  \A d \in Char : CallsTell(d)'
    BY <1>5, <1>8 DEF Write, serverVars, hostVars
  <1>9. CASE DoNotify
    BY <1>5, <1>9 DEF DoNotify, Emit, Drop, serverVars
  <1>10. CASE CloseMouse \/ CloseKeyboard \/ Close \/ LeaveLoop \/ Restart \/ UNCHANGED vars
    BY <1>5, <1>10 DEF CloseMouse, CloseKeyboard, Close, LeaveLoop, Restart, vars, serverVars,
                       hostVars
  <1> QED
    BY <1>1, <1>2, <1>3, <1>4, <1>6, <1>7, <1>8, <1>9, <1>10 DEF Next

(* Once BlueZ's calls are read, the flags are the subscriptions, for every *)
(* number of visits and every bound on the calls that wait.                *)
THEOREM FlagsFollowSubscriptions == Spec => []SubscriptionKnown
  <1>1. CallInv => SubscriptionKnown
    BY DEF CallInv, CallsTell, SubscriptionKnown
  <1> QED BY <1>1, CallInit, CallStep, PTL DEF Spec

(* A report is dropped behind one the host holds only if StartNotify or    *)
(* StopNotify calls wait: a subscribed host whose calls were read loses    *)
(* nothing.                                                                *)
THEOREM OnlyLateCallsLose == Spec => LossNeedsLateCall
  <1>1. CallInv /\ BInv /\ [Next]_vars
          => [\A c \in Char : lost'[c] /\ ~lost[c] => calls[c] # <<>>]_vars
    <2> SUFFICES ASSUME CallInv, BInv, Next, NEW c \in Char, lost'[c], ~lost[c]
                 PROVE  calls[c] # <<>>
      OBVIOUS
    <2>a. /\ lost \in [Char -> BOOLEAN] /\ CallsTell(c)
          /\ c \notin subscribed => host[c] = Zero
      BY DEF CallInv, BInv, TypeOK, UnsubscribedHoldsNothing
    <2>1. Drop
      <3>1. lost' # lost /\ lost' # Nowhere
        BY DEF Nowhere
      <3>2. ~Emit
        <4>1. ASSUME Emit PROVE lost' = lost \/ lost' = [lost EXCEPT ![Head(queue).char] = FALSE]
          BY <4>1 DEF Emit
        <4> QED BY <2>a, <3>1, <4>1
      <3> QED BY <3>1, <3>2 DEF Next, NoAdapter, Start, EnterLoop, Describe, Reply, Release,
                 Subscribe, NotifyCall, Write, Disconnect, DoNotify, CloseMouse, CloseKeyboard,
                 Close, LeaveLoop, ProcessEnds, Restart, hostVars
    <2>2. PICK r : r = Head(queue)
      OBVIOUS
    <2>3. /\ lost' = [lost EXCEPT ![r.char] = lost[r.char] \/ host[r.char] # Zero]
          /\ ~notifying[r.char]
      BY <2>1, <2>2 DEF Drop
    <2>4. r.char = c /\ host[c] # Zero
      BY <2>a, <2>3
    <2> QED BY <2>a, <2>3, <2>4 DEF CallsTell
  <1> QED BY <1>1, InitB, BStep, CallInit, CallStep, PTL DEF Spec, LossNeedsLateCall

-----------------------------------------------------------------------------
LEMMA PipeStep == [Next]_vars => [Pipe!Next]_(Pipe!vars)
  <1> SUFFICES ASSUME [Next]_vars PROVE [Pipe!Next]_(Pipe!vars)
    OBVIOUS
  <1> USE DEF Pipe!vars
  <1>1. CASE NoAdapter \/ Start \/ EnterLoop \/ Release \/ Close \/ LeaveLoop \/ Restart
    BY <1>1 DEF NoAdapter, Start, ConfigureAdapter, Register, EnterLoop, Release, Close,
                LeaveLoop, Restart, hostVars
  <1>2. ASSUME NEW o \in Object, Describe(o) \/ Reply(o)
        PROVE  UNCHANGED Pipe!vars
    BY <1>2 DEF Describe, Reply, hostVars
  <1>3. ASSUME NEW c \in Char, Subscribe(c) \/ NotifyCall(c)
        PROVE  UNCHANGED Pipe!vars
    BY <1>3 DEF Subscribe, NotifyCall, hostVars
  <1>4. ASSUME NEW c \in Char, NEW p \in PayloadOf(c), Write(c, p)
        PROVE  Pipe!Next
    BY <1>4 DEF Write, Enqueue, PayloadOf, hostVars, Pipe!Next, Pipe!Write
  <1>5. CASE Disconnect \/ ProcessEnds
    BY <1>5 DEF Disconnect, ProcessEnds, Nothing, Pipe!Next, Pipe!Forget, Pipe!Nothing
  <1>6. CASE DoNotify
    BY <1>6 DEF DoNotify, Emit, Drop, Pipe!Next, Pipe!Deliver, Pipe!Lose
  <1>7. CASE CloseMouse
    BY <1>7 DEF CloseMouse, Enqueue, Char, hostVars, Pipe!Next, Pipe!Write
  <1>8. CASE CloseKeyboard
    BY <1>8 DEF CloseKeyboard, Enqueue, Char, hostVars, Pipe!Next, Pipe!Write
  <1>9. CASE UNCHANGED vars
    BY <1>9 DEF vars, hostVars
  <1> QED
    BY <1>1, <1>2, <1>3, <1>4, <1>5, <1>6, <1>7, <1>8, <1>9 DEF Next

(* BleHIDServer, with its threads and its subscriptions, is a ReportPipe:  *)
(* in order, at most once, nothing made up.                                *)
THEOREM ServerIsPipe == Spec => ImplementsReportPipe
  <1>1. Init => Pipe!Init
    BY DEF Init, Nothing, Pipe!Init, Pipe!Nothing
  <1> QED
    BY <1>1, PipeStep, PTL DEF Spec, ImplementsReportPipe, Pipe!Spec
=============================================================================
