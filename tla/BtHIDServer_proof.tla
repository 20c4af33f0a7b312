-------------------------- MODULE BtHIDServer_proof --------------------------
(***************************************************************************)
(* Proofs about BtHIDServer for any number of hosts, channels, failures    *)
(* and any backlog: a captured connection is current or closed, installed  *)
(* connections are open, and the server implements ReportChannel.          *)
(***************************************************************************)
EXTENDS BtHIDServer, Integers, SequenceTheorems, TLAPS

(* Removing one element keeps the others, in order.                        *)
LEMMA RemoveAtElements ==
  ASSUME NEW S, NEW s \in Seq(S), NEW i \in 1..Len(s)
  PROVE  /\ RemoveAt(s, i) \in Seq(S)
         /\ Len(RemoveAt(s, i)) = Len(s) - 1
         /\ \A j \in 1..(Len(s) - 1) :
              RemoveAt(s, i)[j] = IF j < i THEN s[j] ELSE s[j + 1]
  <1> DEFINE a == SubSeq(s, 1, i - 1)
             b == SubSeq(s, i + 1, Len(s))
  <1>0. Len(s) \in Nat /\ i \in Int
    BY LenProperties
  <1>1. a \in Seq(S) /\ Len(a) = i - 1 /\ \A j \in 1..(i - 1) : a[j] = s[j]
    BY SubSeqProperties
  <1>2. /\ b \in Seq(S) /\ Len(b) = Len(s) - i
        /\ \A j \in 1..(Len(s) - i) : b[j] = s[i + j]
    BY SubSeqProperties
  <1> HIDE DEF a, b
  <1>3. /\ a \o b \in Seq(S)
        /\ Len(a \o b) = Len(a) + Len(b)
        /\ \A j \in 1..(Len(a) + Len(b)) :
             (a \o b)[j] = IF j <= Len(a) THEN a[j] ELSE b[j - Len(a)]
    BY <1>1, <1>2, ConcatProperties
  <1>4. RemoveAt(s, i) = a \o b
    BY DEF RemoveAt, a, b
  <1>5. ASSUME NEW j \in 1..(Len(s) - 1)
        PROVE  (a \o b)[j] = IF j < i THEN s[j] ELSE s[j + 1]
    <2>0. j \in Int /\ Len(a) + Len(b) = Len(s) - 1
      BY <1>0, <1>1, <1>2
    <2>1. CASE j < i
      <3>1. j \in 1..(i - 1) /\ j \in 1..(Len(a) + Len(b)) /\ j <= Len(a)
        BY <2>1, <2>0, <1>0, <1>1
      <3> QED BY <3>1, <2>1, <1>1, <1>3
    <2>2. CASE j >= i
      <3>1. j - (i - 1) \in 1..(Len(s) - i) /\ ~(j <= i - 1)
        BY <2>0, <1>0, <2>2
      <3>2. b[j - (i - 1)] = s[i + (j - (i - 1))]
        BY <3>1, <1>2
      <3>3. i + (j - (i - 1)) = j + 1
        BY <2>0, <1>0
      <3> QED BY <3>1, <3>2, <3>3, <2>0, <2>2, <1>0, <1>1, <1>3
    <2> QED BY <2>0, <1>0, <2>1, <2>2
  <1>6. Len(a \o b) = Len(s) - 1
    BY <1>0, <1>1, <1>2, <1>3
  <1> QED BY <1>3, <1>4, <1>5, <1>6

(* Sequences without repetition over a set.                                *)
Clean(s, S) ==
  /\ \A i \in 1..Len(s) : s[i] \in S
  /\ \A i, j \in 1..Len(s) : i # j => s[i] # s[j]

LEMMA CleanTail ==
  ASSUME NEW X, NEW S, NEW s \in Seq(X), Clean(s, S), s # <<>>
  PROVE  /\ Head(s) \in S \cap X
         /\ Tail(s) \in Seq(X)
         /\ Clean(Tail(s), S \ {Head(s)})
  <1>1. /\ Len(s) \in Nat /\ Len(s) >= 1
        /\ Head(s) = s[1] /\ s[1] \in X
        /\ Tail(s) \in Seq(X)
        /\ Len(Tail(s)) = Len(s) - 1
        /\ \A i \in 1..(Len(s) - 1) : Tail(s)[i] = s[i + 1]
    BY HeadTailProperties, LenProperties, EmptySeq, ElementOfSeq
  <1>2. \A i \in 1..(Len(s) - 1) : i + 1 \in 1..Len(s) /\ i + 1 # 1
    BY <1>1
  <1>3. 1 \in 1..Len(s)
    BY <1>1
  <1>4. \A i, j \in 1..(Len(s) - 1) : i # j => i + 1 # j + 1
    OBVIOUS
  <1> QED BY <1>1, <1>2, <1>3, <1>4 DEF Clean

LEMMA CleanAppend ==
  ASSUME NEW X, NEW S, NEW s \in Seq(X), Clean(s, S), NEW c \in X, c \notin S
  PROVE  Append(s, c) \in Seq(X) /\ Clean(Append(s, c), S \cup {c})
  <1>1. /\ Len(s) \in Nat
        /\ Append(s, c) \in Seq(X)
        /\ Len(Append(s, c)) = Len(s) + 1
        /\ \A i \in 1..Len(s) : Append(s, c)[i] = s[i]
        /\ Append(s, c)[Len(s) + 1] = c
    BY AppendProperties, LenProperties
  <1>2. \A i \in 1..(Len(s) + 1) : i \in 1..Len(s) \/ i = Len(s) + 1
    BY <1>1
  <1> QED BY <1>1, <1>2 DEF Clean

LEMMA CleanWithdraw ==
  ASSUME NEW X, NEW S, NEW s \in Seq(X), Clean(s, S), NEW h
  PROVE  Withdraw(s, h) \in Seq(X) /\ Clean(Withdraw(s, h), S)
  <1>1. CASE ~ \E i \in DOMAIN s : s[i].host = h
    BY <1>1 DEF Withdraw
  <1>2. CASE \E i \in DOMAIN s : s[i].host = h
    <2>1. PICK k \in DOMAIN s : Withdraw(s, h) = RemoveAt(s, k)
      BY <1>2 DEF Withdraw
    <2>2. k \in 1..Len(s) /\ Len(s) \in Nat
      BY <2>1, LenProperties
    <2>3. /\ RemoveAt(s, k) \in Seq(X)
          /\ Len(RemoveAt(s, k)) = Len(s) - 1
          /\ \A j \in 1..(Len(s) - 1) :
               RemoveAt(s, k)[j] = IF j < k THEN s[j] ELSE s[j + 1]
      BY <2>2, RemoveAtElements
    <2> DEFINE place(j) == IF j < k THEN j ELSE j + 1
    <2>4. \A j \in 1..(Len(s) - 1) :
            place(j) \in 1..Len(s) /\ RemoveAt(s, k)[j] = s[place(j)]
      BY <2>2, <2>3
    <2>5. \A i, j \in 1..(Len(s) - 1) : i # j => place(i) # place(j)
      BY <2>2
    <2> HIDE DEF place
    <2> QED BY <2>1, <2>3, <2>4, <2>5 DEF Clean
  <1> QED BY <1>1, <1>2

LEMMA WithdrawType ==
  ASSUME NEW X, NEW s \in Seq(X), NEW h PROVE Withdraw(s, h) \in Seq(X)
  <1>1. CASE ~ \E i \in DOMAIN s : s[i].host = h
    BY <1>1 DEF Withdraw
  <1>2. CASE \E i \in DOMAIN s : s[i].host = h
    <2>1. PICK k \in DOMAIN s : Withdraw(s, h) = RemoveAt(s, k)
      BY <1>2 DEF Withdraw
    <2> QED BY <2>1, LenProperties, RemoveAtElements
  <1> QED BY <1>1, <1>2

LEMMA CleanMonotone ==
  ASSUME NEW S, NEW T, NEW s, Clean(s, S), S \subseteq T PROVE Clean(s, T)
  BY DEF Clean

-----------------------------------------------------------------------------
(* The inductive invariant.                                                *)

(* The channels out of the backlogs; each was opened by its host.          *)
Taken == closed \cup {ctrlAccepted, intrAccepted, ctrlConn, intrConn, conn}

(* A backlog: channels opened, each once, none of them taken out before.   *)
Backlogged(queue) == Clean(queue, opened \ Taken)

(* No channel is in two hands.                                             *)
OneOwner ==
  /\ Taken \subseteq opened \cup {NoChannel}
  /\ ctrlAccepted = ctrlConn => ctrlConn = NoChannel
  /\ intrAccepted \in {intrConn, conn} => intrAccepted = NoChannel

(* accept() holds channels only between its calls and its locked section;  *)
(* after a raise the exception may still hold the control channel.         *)
AcceptorHolds ==
  /\ acceptor \in {"callCtrl", "waitCtrl", "returned"} => ctrlAccepted = NoChannel
  /\ acceptor # "install" => intrAccepted = NoChannel
  /\ acceptor = "install" => intrAccepted # NoChannel
  /\ server = "gone" => acceptor \in {"returned", "raised"}

SenderHolds ==
  /\ sender = "idle" <=> conn = NoChannel
  /\ sender # "idle" /\ conn # intrConn => conn \in closed
  /\ server # "open" => sender = "idle"

BInv ==
  /\ TypeOK
  /\ server # "gone" => Backlogged(ctrlQueue) /\ Backlogged(intrQueue)
  /\ OneOwner
  /\ AcceptorHolds
  /\ SenderHolds
  /\ InstalledIsOpen

LEMMA NoChannelTypes ==
  NoChannel \notin CtrlChannel /\ NoChannel \notin IntrChannel
  BY NoChannelAssumption DEF Channel

LEMMA PsmsDiffer ==
  ASSUME NEW c \in CtrlChannel, NEW d \in IntrChannel PROVE c # d
  <1>1. c.psm = "ctrl" /\ d.psm = "intr"
    BY DEF CtrlChannel, IntrChannel
  <1> QED BY <1>1

LEMMA InvInit == Init => BInv
  <1> SUFFICES ASSUME Init PROVE BInv
    OBVIOUS
  <1>1. TypeOK
    BY BtAssumption DEF Init, TypeOK
  <1>2. Backlogged(ctrlQueue) /\ Backlogged(intrQueue)
    BY DEF Init, Backlogged, Clean
  <1> QED BY <1>1, <1>2 DEF Init, BInv, OneOwner, Taken, AcceptorHolds, SenderHolds,
                            InstalledIsOpen

(* Steps that take nothing out of the backlogs keep them.                  *)
LEMMA SameBacklogs ==
  ASSUME BInv, server # "gone", UNCHANGED queueVars, opened' = opened,
         Taken' \subseteq Taken \cup {NoChannel}
  PROVE  Backlogged(ctrlQueue)' /\ Backlogged(intrQueue)'
  <1>1. Backlogged(ctrlQueue) /\ Backlogged(intrQueue) /\ opened \subseteq Channel
    BY DEF BInv, TypeOK
  <1>2. opened \ Taken \subseteq opened' \ Taken'
    BY <1>1, NoChannelAssumption
  <1>3. Clean(ctrlQueue', opened' \ Taken') /\ Clean(intrQueue', opened' \ Taken')
    BY <1>1, <1>2, CleanMonotone DEF Backlogged, queueVars
  <1> QED BY <1>3 DEF Backlogged

LEMMA HostStepsKeep == ASSUME BInv, HostSteps PROVE BInv'
  <1>r. /\ UNCHANGED <<closed, acceptVars, ctrlConn, intrConn, sendVars, server>>
        /\ opened \subseteq opened' /\ Taken' = Taken
    BY DEF HostSteps, OpenCtrl, OpenIntr, DropHost, connVars, acceptVars, sendVars, Taken
  <1>t. /\ ctrlQueue \in Seq(CtrlChannel) /\ intrQueue \in Seq(IntrChannel)
        /\ opened \subseteq Channel /\ dropped \subseteq Channel
    BY DEF BInv, TypeOK
  <1>b. server # "gone" => /\ Clean(ctrlQueue, opened \ Taken)
                           /\ Clean(intrQueue, opened \ Taken)
    BY DEF BInv, Backlogged
  <1>m. opened \ Taken \subseteq opened' \ Taken'
    BY <1>r
  <1> DEFINE Kept ==
               /\ opened' \subseteq Channel /\ dropped' \subseteq Channel
               /\ ctrlQueue' \in Seq(CtrlChannel) /\ intrQueue' \in Seq(IntrChannel)
               /\ server # "gone" => /\ Clean(ctrlQueue', opened' \ Taken')
                                     /\ Clean(intrQueue', opened' \ Taken')
  <1>1. Kept
    <2>1. ASSUME NEW h \in Host, NEW n \in 1..MaxChannels, OpenCtrl(h, n) PROVE Kept
      <3> DEFINE c == [host |-> h, psm |-> "ctrl", n |-> n]
      <3>1. c \in CtrlChannel
        BY DEF CtrlChannel
      <3>2. /\ ctrlQueue' = Append(ctrlQueue, c) /\ opened' = opened \cup {c}
            /\ c \notin opened /\ dropped' = dropped /\ intrQueue' = intrQueue
            /\ server # "gone"
        BY <2>1 DEF OpenCtrl, BInv, AcceptorHolds
      <3> HIDE DEF c
      <3>3. c \notin Taken
        BY <3>1, <3>2, NoChannelTypes DEF BInv, OneOwner
      <3>4. Append(ctrlQueue, c) \in Seq(CtrlChannel)
            /\ Clean(Append(ctrlQueue, c), (opened \ Taken) \cup {c})
        BY <3>1, <3>2, <1>t, <1>b, CleanAppend
      <3>5. (opened \ Taken) \cup {c} \subseteq opened' \ Taken'
        BY <3>2, <3>3, <1>r
      <3>6. Clean(ctrlQueue', opened' \ Taken') /\ Clean(intrQueue', opened' \ Taken')
        BY <3>2, <3>4, <3>5, <1>b, <1>m, CleanMonotone
      <3> QED BY <3>1, <3>2, <3>4, <3>6, <1>t DEF Channel
    <2>2. ASSUME NEW h \in Host, NEW n \in 1..MaxChannels, OpenIntr(h, n) PROVE Kept
      <3> DEFINE c == [host |-> h, psm |-> "intr", n |-> n]
      <3>1. c \in IntrChannel
        BY DEF IntrChannel
      <3>2. /\ intrQueue' = Append(intrQueue, c) /\ opened' = opened \cup {c}
            /\ c \notin opened /\ dropped' = dropped /\ ctrlQueue' = ctrlQueue
            /\ server # "gone"
        BY <2>2 DEF OpenIntr, BInv, AcceptorHolds
      <3> HIDE DEF c
      <3>3. c \notin Taken
        BY <3>1, <3>2, NoChannelTypes DEF BInv, OneOwner
      <3>4. Append(intrQueue, c) \in Seq(IntrChannel)
            /\ Clean(Append(intrQueue, c), (opened \ Taken) \cup {c})
        BY <3>1, <3>2, <1>t, <1>b, CleanAppend
      <3>5. (opened \ Taken) \cup {c} \subseteq opened' \ Taken'
        BY <3>2, <3>3, <1>r
      <3>6. Clean(ctrlQueue', opened' \ Taken') /\ Clean(intrQueue', opened' \ Taken')
        BY <3>2, <3>4, <3>5, <1>b, <1>m, CleanMonotone
      <3> QED BY <3>1, <3>2, <3>4, <3>6, <1>t DEF Channel
    <2>3. ASSUME NEW h \in Host, DropHost(h) PROVE Kept
      <3>1. /\ ctrlQueue' = Withdraw(ctrlQueue, h) /\ intrQueue' = Withdraw(intrQueue, h)
            /\ opened' = opened /\ dropped' \subseteq Channel
        BY <2>3, <1>t DEF DropHost
      <3>2. CASE server # "gone"
        BY <3>1, <3>2, <1>t, <1>b, <1>r, CleanWithdraw
      <3>3. CASE server = "gone"
        BY <3>1, <3>3, <1>t, WithdrawType
      <3> QED BY <3>2, <3>3
    <2> HIDE DEF Kept
    <2> QED BY HostSteps, <2>1, <2>2, <2>3 DEF HostSteps
  <1>2. TypeOK'
    BY <1>1, <1>r DEF BInv, TypeOK, acceptVars, sendVars
  <1>3. (server # "gone" => Backlogged(ctrlQueue) /\ Backlogged(intrQueue))'
    BY <1>1, <1>r DEF Backlogged
  <1>4. OneOwner'
    BY <1>r DEF BInv, OneOwner, acceptVars, sendVars
  <1>5. AcceptorHolds' /\ SenderHolds' /\ InstalledIsOpen'
    BY <1>r DEF BInv, AcceptorHolds, SenderHolds, InstalledIsOpen, acceptVars, sendVars
  <1> QED BY <1>2, <1>3, <1>4, <1>5 DEF BInv

LEMMA CleanOther ==
  ASSUME NEW X, NEW S, NEW s \in Seq(X), Clean(s, S), NEW c, c \notin X
  PROVE  Clean(s, S \ {c})
  BY ElementOfSeq DEF Clean

LEMMA AcceptCtrlKeeps == ASSUME BInv, AcceptCtrl PROVE BInv'
  <1> DEFINE c == Head(ctrlQueue)
  <1>1. /\ acceptor = "waitCtrl" /\ ctrlQueue # <<>> /\ acceptor' = "callIntr"
        /\ ctrlAccepted' = c /\ ctrlQueue' = Tail(ctrlQueue)
        /\ UNCHANGED <<opened, dropped, intrQueue, failures, intrAccepted, closed, ctrlConn,
                       intrConn, sendVars, server>>
    BY DEF AcceptCtrl, connVars, hostVars
  <1>2. /\ server # "gone" /\ Clean(ctrlQueue, opened \ Taken) /\ Clean(intrQueue, opened \ Taken)
        /\ ctrlQueue \in Seq(CtrlChannel) /\ intrQueue \in Seq(IntrChannel)
    BY <1>1 DEF BInv, AcceptorHolds, Backlogged, TypeOK
  <1>3. /\ c \in (opened \ Taken) \cap CtrlChannel /\ Tail(ctrlQueue) \in Seq(CtrlChannel)
        /\ Clean(Tail(ctrlQueue), (opened \ Taken) \ {c})
    BY <1>1, <1>2, CleanTail
  <1> HIDE DEF c
  <1>4. c \notin IntrChannel
    BY <1>3, PsmsDiffer
  <1>5. Clean(intrQueue, (opened \ Taken) \ {c})
    BY <1>2, <1>4, CleanOther
  <1>7. Taken' \subseteq Taken \cup {c} /\ NoChannel \notin opened
    BY <1>1, NoChannelAssumption DEF Taken, sendVars, BInv, TypeOK
  <1>8. Backlogged(ctrlQueue)' /\ Backlogged(intrQueue)'
    <2>1. (opened \ Taken) \ {c} \subseteq opened' \ Taken'
      BY <1>1, <1>7
    <2> QED BY <2>1, <1>1, <1>3, <1>5, CleanMonotone DEF Backlogged
  <1>9. TypeOK'
    BY <1>1, <1>3, <1>2 DEF BInv, TypeOK, sendVars
  <1>10. OneOwner'
    BY <1>1, <1>3, <1>7 DEF BInv, OneOwner, Taken, sendVars
  <1>11. AcceptorHolds' /\ SenderHolds' /\ InstalledIsOpen'
    BY <1>1, <1>2, <1>3 DEF BInv, AcceptorHolds, SenderHolds, InstalledIsOpen, Taken, sendVars
  <1> QED BY <1>8, <1>9, <1>10, <1>11 DEF BInv

LEMMA AcceptIntrKeeps == ASSUME BInv, AcceptIntr PROVE BInv'
  <1> DEFINE c == Head(intrQueue)
  <1>1. /\ acceptor = "waitIntr" /\ intrQueue # <<>> /\ acceptor' = "install"
        /\ intrAccepted' = c /\ intrQueue' = Tail(intrQueue)
        /\ UNCHANGED <<opened, dropped, ctrlQueue, failures, ctrlAccepted, closed, ctrlConn,
                       intrConn, sendVars, server>>
    BY DEF AcceptIntr, connVars, hostVars
  <1>2. /\ server # "gone" /\ Clean(ctrlQueue, opened \ Taken) /\ Clean(intrQueue, opened \ Taken)
        /\ ctrlQueue \in Seq(CtrlChannel) /\ intrQueue \in Seq(IntrChannel)
    BY <1>1 DEF BInv, AcceptorHolds, Backlogged, TypeOK
  <1>3. /\ c \in (opened \ Taken) \cap IntrChannel /\ Tail(intrQueue) \in Seq(IntrChannel)
        /\ Clean(Tail(intrQueue), (opened \ Taken) \ {c})
    BY <1>1, <1>2, CleanTail
  <1> HIDE DEF c
  <1>4. c \notin CtrlChannel /\ c # NoChannel
    BY <1>3, PsmsDiffer, NoChannelTypes
  <1>5. Clean(ctrlQueue, (opened \ Taken) \ {c})
    BY <1>2, <1>4, CleanOther
  <1>7. Taken' \subseteq Taken \cup {c} /\ NoChannel \notin opened
    BY <1>1, NoChannelAssumption DEF Taken, sendVars, BInv, TypeOK
  <1>8. Backlogged(ctrlQueue)' /\ Backlogged(intrQueue)'
    <2>1. (opened \ Taken) \ {c} \subseteq opened' \ Taken'
      BY <1>1, <1>7
    <2> QED BY <2>1, <1>1, <1>3, <1>5, CleanMonotone DEF Backlogged
  <1>9. TypeOK'
    BY <1>1, <1>3, <1>2 DEF BInv, TypeOK, sendVars
  <1>10. OneOwner'
    BY <1>1, <1>3, <1>7 DEF BInv, OneOwner, Taken, sendVars
  <1>11. AcceptorHolds' /\ SenderHolds' /\ InstalledIsOpen'
    BY <1>1, <1>2, <1>3, <1>4 DEF BInv, AcceptorHolds, SenderHolds, InstalledIsOpen, Taken, sendVars
  <1> QED BY <1>8, <1>9, <1>10, <1>11 DEF BInv

-----------------------------------------------------------------------------
(* The steps that leave the backlogs alone.                                *)

LEMMA AcceptorStepsKeep ==
  ASSUME BInv, CallAccept \/ AcceptFails \/ Install \/ AcceptAgain PROVE BInv'
  <1>1. /\ UNCHANGED <<opened, dropped, queueVars, sendVars, server>>
        /\ server # "gone"
    BY DEF CallAccept, AcceptFails, Raise, Install, HandOver, AcceptAgain, Resume, hostVars,
           BInv, AcceptorHolds
  <1>2. Taken' \subseteq Taken \cup {NoChannel} /\ closed \subseteq closed'
    BY <1>1 DEF CallAccept, AcceptFails, Raise, Install, HandOver, AcceptAgain, Resume,
                DropAccepted, Taken, Present, sendVars
  <1>3. Backlogged(ctrlQueue)' /\ Backlogged(intrQueue)'
    BY <1>1, <1>2, SameBacklogs
  <1>4. OneOwner' /\ TypeOK'
    <2>1. CASE CallAccept \/ AcceptFails \/ AcceptAgain
      BY <2>1, <1>1, <1>2, BtAssumption
         DEF CallAccept, AcceptFails, Raise, AcceptAgain, Resume, DropAccepted, BInv, TypeOK,
             OneOwner, Present, queueVars, sendVars, Channel
    <2>2. CASE Install
      BY <2>2, <1>1, <1>2 DEF Install, HandOver, BInv, TypeOK, OneOwner, Present, queueVars,
                              sendVars, Channel
    <2> QED BY <2>1, <2>2
  <1>5. AcceptorHolds'
    BY <1>1 DEF CallAccept, AcceptFails, Raise, Install, HandOver, AcceptAgain, Resume,
                DropAccepted, BInv, AcceptorHolds
  <1>6. SenderHolds'
    <2>1. CASE Install
      BY <2>1, <1>1 DEF Install, HandOver, BInv, SenderHolds, Present, sendVars
    <2>2. CASE ~Install
      BY <2>2, <1>1, <1>2 DEF CallAccept, AcceptFails, Raise, AcceptAgain, Resume, BInv,
                              SenderHolds, sendVars
    <2> QED BY <2>1, <2>2
  <1>7. InstalledIsOpen'
    <2>1. /\ NoChannel \notin closed
          /\ ctrlAccepted \in CtrlChannel \cup {NoChannel}
          /\ ctrlConn \in CtrlChannel \cup {NoChannel}
          /\ intrAccepted \in IntrChannel \cup {NoChannel}
          /\ intrConn \in IntrChannel \cup {NoChannel}
      BY NoChannelAssumption DEF BInv, TypeOK
    <2>2. /\ ctrlAccepted \in {intrConn, intrAccepted} => ctrlAccepted = NoChannel
          /\ ctrlConn \in {intrConn, intrAccepted} => ctrlConn = NoChannel
      BY <2>1, PsmsDiffer
    <2>3. CASE CallAccept \/ AcceptFails \/ AcceptAgain
      BY <2>1, <2>2, <2>3, <1>1
         DEF CallAccept, AcceptFails, Raise, AcceptAgain, Resume, DropAccepted, BInv,
             InstalledIsOpen, OneOwner, Present
    <2>4. CASE Install
      BY <2>1, <2>2, <2>4, <1>1 DEF Install, HandOver, BInv, InstalledIsOpen, OneOwner, Present
    <2> QED BY <2>3, <2>4
  <1> QED BY <1>3, <1>4, <1>5, <1>6, <1>7 DEF BInv

LEMMA SenderStepsKeep ==
  ASSUME BInv, BeginSend \/ SendReport \/ SendFails \/ ClearConnection \/ Close PROVE BInv'
  <1>1. /\ UNCHANGED <<opened, dropped, queueVars, acceptVars>>
        /\ server # "gone" /\ server' # "gone"
    BY DEF BeginSend, SendReport, SendFails, ClearConnection, Close, hostVars, BInv, SenderHolds
  <1>2. Taken' \subseteq Taken \cup {NoChannel} /\ closed \subseteq closed'
    BY <1>1 DEF BeginSend, SendReport, SendFails, ClearConnection, Close, Taken, Present,
                connVars, acceptVars, sendVars
  <1>3. Backlogged(ctrlQueue)' /\ Backlogged(intrQueue)'
    BY <1>1, <1>2, SameBacklogs
  <1>4. OneOwner' /\ TypeOK'
    <2>1. CASE BeginSend
      BY <2>1, <1>1, <1>2 DEF BeginSend, BInv, TypeOK, OneOwner, queueVars, acceptVars, connVars
    <2>2. CASE SendReport \/ SendFails
      BY <2>2, <1>1, <1>2
         DEF SendReport, SendFails, BInv, TypeOK, OneOwner, queueVars, acceptVars, connVars
    <2>3. CASE ClearConnection \/ Close
      BY <2>3, <1>1, <1>2
         DEF ClearConnection, Close, BInv, TypeOK, OneOwner, Present, queueVars, acceptVars,
             sendVars, Channel
    <2> QED BY <2>1, <2>2, <2>3
  <1>5. AcceptorHolds'
    BY <1>1 DEF BInv, AcceptorHolds, acceptVars
  <1>6. SenderHolds'
    BY <1>1, <1>2 DEF BeginSend, SendReport, SendFails, ClearConnection, Close, BInv, SenderHolds,
                      Present, connVars, sendVars
  <1>7. InstalledIsOpen'
    <2>1. /\ NoChannel \notin closed
          /\ ctrlAccepted \in CtrlChannel \cup {NoChannel}
          /\ ctrlConn \in CtrlChannel \cup {NoChannel}
          /\ {intrAccepted, intrConn, conn} \subseteq IntrChannel \cup {NoChannel}
      BY NoChannelAssumption DEF BInv, TypeOK
    <2>2. /\ ctrlAccepted \in {intrConn, intrAccepted, conn} => ctrlAccepted = NoChannel
          /\ ctrlConn \in {intrConn, intrAccepted, conn} => ctrlConn = NoChannel
      BY <2>1, PsmsDiffer
    <2>3. CASE BeginSend \/ SendReport \/ SendFails
      BY <2>3, <1>1 DEF BeginSend, SendReport, SendFails, BInv, InstalledIsOpen, acceptVars,
                        connVars
    <2>4. CASE ClearConnection
      BY <2>1, <2>2, <2>4, <1>1
         DEF ClearConnection, BInv, InstalledIsOpen, OneOwner, Present, acceptVars
    <2>5. CASE Close
      BY <2>1, <2>2, <2>5, <1>1 DEF Close, BInv, InstalledIsOpen, OneOwner, Present, acceptVars
    <2> QED BY <2>3, <2>4, <2>5
  <1> QED BY <1>1, <1>3, <1>4, <1>5, <1>6, <1>7 DEF BInv

LEMMA ExitKeeps == ASSUME BInv, Exit PROVE BInv'
  <1>1. intrAccepted = NoChannel /\ conn = NoChannel
        /\ sender = "idle" /\ NoChannel \notin opened
    BY NoChannelAssumption DEF Exit, BInv, AcceptorHolds, SenderHolds, TypeOK
  <1> QED BY <1>1 DEF Exit, BInv, TypeOK, OneOwner, Taken, AcceptorHolds, SenderHolds,
                      InstalledIsOpen, hostVars, queueVars, sendVars

LEMMA StutterKeeps == ASSUME BInv, UNCHANGED vars PROVE BInv'
  <1>1. Taken' = Taken
    BY DEF vars, Taken, acceptVars, connVars, sendVars
  <1> QED BY <1>1 DEF vars, BInv, TypeOK, Backlogged, OneOwner, AcceptorHolds, SenderHolds,
                      InstalledIsOpen, hostVars, queueVars, acceptVars, connVars, sendVars

LEMMA InvStep == BInv /\ [Next]_vars => BInv'
  BY HostStepsKeep, AcceptCtrlKeeps, AcceptIntrKeeps, AcceptorStepsKeep, SenderStepsKeep,
     ExitKeeps, StutterKeeps DEF Next, Acceptor, Sender

LEMMA InvHolds == Spec => []BInv
  BY InvInit, InvStep, PTL DEF Spec

-----------------------------------------------------------------------------
(* The results.                                                            *)

(* Type correctness of the server's state and locals, for every number of  *)
(* hosts and channels.                                                     *)
THEOREM TypeCorrect == Spec => []TypeOK
  <1>1. BInv => TypeOK
    BY DEF BInv
  <1> QED BY <1>1, InvHolds, PTL

(* send_report() never uses a connection accept() has replaced without     *)
(* closing it.                                                             *)
THEOREM CapturedStaysCurrent == Spec => []CapturedIsCurrent
  <1>1. BInv => CapturedIsCurrent
    BY DEF BInv, SenderHolds, CapturedIsCurrent
  <1> QED BY <1>1, InvHolds, PTL

(* The connections in use and those accept() carries were never closed.    *)
THEOREM InstalledStaysOpen == Spec => []InstalledIsOpen
  <1>1. BInv => InstalledIsOpen
    BY DEF BInv
  <1> QED BY <1>1, InvHolds, PTL

-----------------------------------------------------------------------------
(* No channel leaks: what each step does to the set of a backlog.          *)

LEMMA AppendKeepsAll ==
  ASSUME NEW X, NEW s \in Seq(X), NEW c \in X
  PROVE  ToSet(Append(s, c)) = ToSet(s) \cup {c}
  <1>1. /\ Append(s, c) \in Seq(X) /\ Len(s) \in Nat
        /\ Len(Append(s, c)) = Len(s) + 1
        /\ \A i \in 1..Len(s) : Append(s, c)[i] = s[i]
        /\ Append(s, c)[Len(s) + 1] = c
    BY AppendProperties, LenProperties
  <1>2. DOMAIN s = 1..Len(s) /\ DOMAIN Append(s, c) = 1..(Len(s) + 1)
    BY <1>1, LenProperties
  <1>3. 1..(Len(s) + 1) = 1..Len(s) \cup {Len(s) + 1}
    BY <1>1
  <1> QED BY <1>1, <1>2, <1>3 DEF ToSet

LEMMA TailKeepsRest ==
  ASSUME NEW X, NEW s \in Seq(X), s # <<>>
  PROVE  ToSet(s) \subseteq ToSet(Tail(s)) \cup {Head(s)}
  <1>1. /\ Len(s) \in Nat /\ Head(s) = s[1]
        /\ Tail(s) \in Seq(X) /\ Len(Tail(s)) = Len(s) - 1
        /\ \A i \in 1..(Len(s) - 1) : Tail(s)[i] = s[i + 1]
    BY HeadTailProperties, LenProperties, EmptySeq
  <1>2. DOMAIN s = 1..Len(s) /\ DOMAIN Tail(s) = 1..(Len(s) - 1)
    BY <1>1, LenProperties
  <1>3. ASSUME NEW i \in 1..Len(s), i # 1
        PROVE  i - 1 \in 1..(Len(s) - 1) /\ s[i] = Tail(s)[i - 1]
    <2>1. i - 1 \in 1..(Len(s) - 1) /\ (i - 1) + 1 = i
      BY <1>1, <1>3
    <2> QED BY <1>1, <2>1
  <1>4. ASSUME NEW i \in 1..Len(s) PROVE s[i] \in ToSet(Tail(s)) \cup {Head(s)}
    <2>1. CASE i = 1
      BY <2>1, <1>1
    <2>2. CASE i # 1
      BY <2>2, <1>2, <1>3 DEF ToSet
    <2> QED BY <2>1, <2>2
  <1> QED BY <1>2, <1>4 DEF ToSet

(* Withdrawing a host takes out nobody else's channel.                     *)
LEMMA WithdrawKeepsOthers ==
  ASSUME NEW X, NEW s \in Seq(X), NEW h, NEW c \in ToSet(s), c.host # h
  PROVE  c \in ToSet(Withdraw(s, h))
  <1>1. CASE ~ \E i \in DOMAIN s : s[i].host = h
    BY <1>1 DEF Withdraw
  <1>2. CASE \E i \in DOMAIN s : s[i].host = h
    <2>1. PICK k \in DOMAIN s : s[k].host = h /\ Withdraw(s, h) = RemoveAt(s, k)
      BY <1>2 DEF Withdraw
    <2>2. k \in 1..Len(s) /\ Len(s) \in Nat /\ DOMAIN s = 1..Len(s)
      BY <2>1, LenProperties
    <2>3. PICK i \in 1..Len(s) : c = s[i]
      BY <2>2 DEF ToSet
    <2>4. i # k
      BY <2>1, <2>3
    <2> DEFINE r == RemoveAt(s, k)
    <2>5. /\ r \in Seq(X) /\ Len(r) = Len(s) - 1
          /\ \A j \in 1..(Len(s) - 1) : r[j] = IF j < k THEN s[j] ELSE s[j + 1]
      BY <2>2, RemoveAtElements
    <2> HIDE DEF r
    <2>6. DOMAIN r = 1..(Len(s) - 1)
      BY <2>5, LenProperties
    <2>7. \E j \in 1..(Len(s) - 1) : r[j] = c
      <3>1. CASE i < k
        <4>1. i \in 1..(Len(s) - 1)
          BY <2>2, <3>1
        <4> QED BY <4>1, <3>1, <2>3, <2>5
      <3>2. CASE i > k
        <4>1. i - 1 \in 1..(Len(s) - 1) /\ ~(i - 1 < k) /\ (i - 1) + 1 = i
          BY <2>2, <3>2
        <4> QED BY <4>1, <2>3, <2>5
      <3> QED BY <2>2, <2>4, <3>1, <3>2
    <2>8. c \in ToSet(r)
      BY <2>6, <2>7 DEF ToSet
    <2> QED BY <2>1, <2>8 DEF r
  <1> QED BY <1>1, <1>2

(* After the exit every channel is closed, the queued ones by the kernel.  *)
LeakInv == NoChannelLeaks /\ (server = "gone" => opened \subseteq closed)

LEMMA LeakHostSteps == ASSUME BInv, LeakInv, HostSteps PROVE LeakInv'
  <1>r. UNCHANGED <<closed, acceptVars, ctrlConn, intrConn, server>>
    BY DEF HostSteps, OpenCtrl, OpenIntr, DropHost, connVars
  <1>t. ctrlQueue \in Seq(CtrlChannel) /\ intrQueue \in Seq(IntrChannel)
    BY DEF BInv, TypeOK
  <1>1. ASSUME NEW h \in Host, NEW n \in 1..MaxChannels, OpenCtrl(h, n) PROVE LeakInv'
    <2> DEFINE c == [host |-> h, psm |-> "ctrl", n |-> n]
    <2>1. /\ c \in CtrlChannel /\ server # "gone" /\ opened' = opened \cup {c}
          /\ ctrlQueue' = Append(ctrlQueue, c) /\ intrQueue' = intrQueue /\ dropped' = dropped
      BY <1>1 DEF OpenCtrl, CtrlChannel, BInv, AcceptorHolds
    <2> HIDE DEF c
    <2>2. ToSet(ctrlQueue') = ToSet(ctrlQueue) \cup {c}
      BY <2>1, <1>t, AppendKeepsAll
    <2> QED BY <1>r, <2>1, <2>2 DEF LeakInv, NoChannelLeaks, Dead, acceptVars
  <1>2. ASSUME NEW h \in Host, NEW n \in 1..MaxChannels, OpenIntr(h, n) PROVE LeakInv'
    <2> DEFINE c == [host |-> h, psm |-> "intr", n |-> n]
    <2>1. /\ c \in IntrChannel /\ server # "gone" /\ opened' = opened \cup {c}
          /\ intrQueue' = Append(intrQueue, c) /\ ctrlQueue' = ctrlQueue /\ dropped' = dropped
      BY <1>2 DEF OpenIntr, IntrChannel, BInv, AcceptorHolds
    <2> HIDE DEF c
    <2>2. ToSet(intrQueue') = ToSet(intrQueue) \cup {c}
      BY <2>1, <1>t, AppendKeepsAll
    <2> QED BY <1>r, <2>1, <2>2 DEF LeakInv, NoChannelLeaks, Dead, acceptVars
  <1>3. ASSUME NEW h \in Host, DropHost(h) PROVE LeakInv'
    <2>1. /\ dropped' = dropped \cup {c \in opened : c.host = h} /\ opened' = opened
          /\ ctrlQueue' = Withdraw(ctrlQueue, h) /\ intrQueue' = Withdraw(intrQueue, h)
      BY <1>3 DEF DropHost
    <2>2. ASSUME NEW c \in opened, c \notin Dead'
          PROVE  c \in ToSet(ctrlQueue') \cup ToSet(intrQueue')
                      \cup {ctrlAccepted, intrAccepted, ctrlConn, intrConn}
      <3>1. c \notin Dead /\ c.host # h
        BY <2>1, <2>2, <1>r DEF Dead
      <3>2. c \in ToSet(ctrlQueue) => c \in ToSet(ctrlQueue')
        BY <3>1, <2>1, <1>t, WithdrawKeepsOthers
      <3>3. c \in ToSet(intrQueue) => c \in ToSet(intrQueue')
        BY <3>1, <2>1, <1>t, WithdrawKeepsOthers
      <3> QED BY <3>1, <3>2, <3>3 DEF LeakInv, NoChannelLeaks
    <2> QED BY <2>1, <2>2, <1>r DEF LeakInv, NoChannelLeaks, acceptVars
  <1> QED BY <1>1, <1>2, <1>3 DEF HostSteps

LEMMA LeakStep == LeakInv /\ BInv /\ [Next]_vars => LeakInv'
  <1> SUFFICES ASSUME LeakInv, BInv, [Next]_vars PROVE LeakInv'
    OBVIOUS
  <1>t. /\ ctrlQueue \in Seq(CtrlChannel) /\ intrQueue \in Seq(IntrChannel)
        /\ NoChannel \notin opened
    BY NoChannelAssumption DEF BInv, TypeOK
  <1>1. CASE HostSteps
    BY <1>1, LeakHostSteps
  <1>2. CASE AcceptCtrl
    <2>1. ToSet(ctrlQueue) \subseteq ToSet(ctrlQueue') \cup {ctrlAccepted'}
      BY <1>2, <1>t, TailKeepsRest DEF AcceptCtrl
    <2> QED BY <1>2, <1>t, <2>1 DEF AcceptCtrl, LeakInv, NoChannelLeaks, Dead, BInv, AcceptorHolds,
                               hostVars, connVars
  <1>3. CASE AcceptIntr
    <2>1. ToSet(intrQueue) \subseteq ToSet(intrQueue') \cup {intrAccepted'}
      BY <1>3, <1>t, TailKeepsRest DEF AcceptIntr
    <2> QED BY <1>3, <1>t, <2>1 DEF AcceptIntr, LeakInv, NoChannelLeaks, Dead, BInv, AcceptorHolds,
                               hostVars, connVars
  <1>4. CASE CallAccept \/ AcceptFails \/ AcceptAgain
    BY <1>4, <1>t DEF CallAccept, AcceptFails, Raise, AcceptAgain, Resume, DropAccepted, Present,
                      LeakInv, NoChannelLeaks, Dead, hostVars, queueVars
  <1>5. CASE Install
    BY <1>5, <1>t DEF Install, HandOver, Present, LeakInv, NoChannelLeaks, Dead, hostVars, queueVars
  <1>6. CASE ClearConnection
    BY <1>6, <1>t DEF ClearConnection, Present, LeakInv, NoChannelLeaks, Dead, hostVars, queueVars,
                      acceptVars
  <1>7. CASE Close
    BY <1>7, <1>t DEF Close, Present, LeakInv, NoChannelLeaks, Dead, hostVars, queueVars, acceptVars
  <1>8. CASE Exit
    BY <1>8 DEF Exit, LeakInv, NoChannelLeaks, Dead, hostVars
  <1>9. CASE BeginSend \/ SendReport \/ SendFails \/ UNCHANGED vars
    BY <1>9 DEF BeginSend, SendReport, SendFails, vars, LeakInv, NoChannelLeaks,
                Dead, hostVars, queueVars, acceptVars, connVars
  <1> QED BY <1>1, <1>2, <1>3, <1>4, <1>5, <1>6, <1>7, <1>8, <1>9 DEF Next, Acceptor, Sender

(* No socket leaks, for any number of hosts and channels: every channel    *)
(* whose host is still there is closed, queued or held by the server,      *)
(* whichever accept() raised and however the two threads interleave.       *)
THEOREM ChannelsAccountedFor == Spec => []NoChannelLeaks
  <1>1. Init => LeakInv
    BY DEF Init, LeakInv, NoChannelLeaks
  <1>2. LeakInv => NoChannelLeaks
    BY DEF LeakInv
  <1> QED BY <1>1, <1>2, LeakStep, InvHolds, PTL DEF Spec

-----------------------------------------------------------------------------
(* A lone host is not stranded: what is known of visits and of pairs.      *)

Live == opened \ dropped
InterruptOf(c) == [c EXCEPT !.psm = "intr"]

(* A host is there with at most one channel per PSM, and with its control  *)
(* channel as long as with its interrupt channel; only live ones wait.     *)
OneVisit == \A c, d \in Live : c.host = d.host /\ c.psm = d.psm => c = d

VisitInv ==
  /\ dropped \subseteq opened
  /\ server # "gone" => ToSet(intrQueue) \subseteq Live
  /\ OneVisit
  /\ \A c \in opened \cap IntrChannel :
       ControlOf(c) \in opened /\ (ControlOf(c) \in dropped => c \in dropped)

(* The interrupt channel that belongs to a live control channel was taken. *)
Paired(c) ==
  c \notin dropped \cup {NoChannel} => InterruptOf(c) \in opened \ ToSet(intrQueue)

LoneInv ==
  (server # "gone" /\ \E h \in Host : Alone(h))
  => Paired(ctrlConn) /\ (acceptor = "install" => Paired(ctrlAccepted))

LEMMA ControlChannel ==
  ASSUME NEW c \in IntrChannel
  PROVE  /\ ControlOf(c) \in CtrlChannel /\ ControlOf(c).host = c.host
         /\ ControlOf(c).psm = "ctrl" /\ c.psm = "intr" /\ InterruptOf(ControlOf(c)) = c
  BY DEF IntrChannel, CtrlChannel, ControlOf, InterruptOf

LEMMA InterruptChannel ==
  ASSUME NEW c \in CtrlChannel
  PROVE  /\ InterruptOf(c) \in IntrChannel /\ InterruptOf(c).host = c.host
         /\ c.psm = "ctrl" /\ ControlOf(InterruptOf(c)) = c
  BY DEF IntrChannel, CtrlChannel, ControlOf, InterruptOf

LEMMA CleanSet ==
  ASSUME NEW X, NEW S, NEW s \in Seq(X), Clean(s, S) PROVE ToSet(s) \subseteq S
  <1>1. DOMAIN s = 1..Len(s)
    BY LenProperties
  <1> QED BY <1>1 DEF Clean, ToSet

(* Withdrawing a host with one channel in the queue takes out that channel. *)
LEMMA WithdrawTakesHost ==
  ASSUME NEW X, NEW S, NEW s \in Seq(X), Clean(s, S), NEW h,
         \A c, d \in ToSet(s) : c.host = h /\ d.host = h => c = d
  PROVE  \A c \in ToSet(Withdraw(s, h)) : c \in ToSet(s) /\ c.host # h
  <1>0. DOMAIN s = 1..Len(s) /\ Len(s) \in Nat
    BY LenProperties
  <1>1. CASE ~ \E i \in DOMAIN s : s[i].host = h
    BY <1>1 DEF Withdraw, ToSet
  <1>2. CASE \E i \in DOMAIN s : s[i].host = h
    <2>1. PICK k \in DOMAIN s : s[k].host = h /\ Withdraw(s, h) = RemoveAt(s, k)
      BY <1>2 DEF Withdraw
    <2> DEFINE r == RemoveAt(s, k)
    <2>2. /\ r \in Seq(X) /\ Len(r) = Len(s) - 1
          /\ \A j \in 1..(Len(s) - 1) : r[j] = IF j < k THEN s[j] ELSE s[j + 1]
      BY <1>0, <2>1, RemoveAtElements
    <2> HIDE DEF r
    <2>3. DOMAIN r = 1..(Len(s) - 1)
      BY <2>2, LenProperties
    <2>4. ASSUME NEW c \in ToSet(r) PROVE c \in ToSet(s) /\ c.host # h
      <3>1. PICK j \in 1..(Len(s) - 1) : c = r[j]
        BY <2>3 DEF ToSet
      <3>2. PICK i \in 1..Len(s) : i # k /\ c = s[i]
        <4>1. CASE j < k
          <5>1. j \in 1..Len(s) /\ j # k
            BY <1>0, <2>1, <4>1
          <5> QED BY <5>1, <4>1, <3>1, <2>2
        <4>2. CASE ~(j < k)
          <5>1. j + 1 \in 1..Len(s) /\ j + 1 # k
            BY <1>0, <2>1, <4>2
          <5> QED BY <5>1, <4>2, <3>1, <2>2
        <4> QED BY <4>1, <4>2
      <3>3. s[i] # s[k] /\ s[i] \in ToSet(s) /\ s[k] \in ToSet(s)
        BY <1>0, <2>1, <3>2 DEF Clean, ToSet
      <3> QED BY <2>1, <3>2, <3>3
    <2> QED BY <2>1, <2>4 DEF r
  <1> QED BY <1>1, <1>2

(* What a drop leaves in the backlog of interrupt channels.                *)
LEMMA DropLeaves ==
  ASSUME BInv, VisitInv, NEW h \in Host, DropHost(h), server # "gone"
  PROVE  \A c \in ToSet(intrQueue') : c \in ToSet(intrQueue) /\ c.host # h
  <1>1. intrQueue \in Seq(IntrChannel) /\ Clean(intrQueue, opened \ Taken)
    BY DEF BInv, TypeOK, Backlogged
  <1>2. ToSet(intrQueue) \subseteq Live
    BY DEF VisitInv
  <1>3. ASSUME NEW c \in ToSet(intrQueue) PROVE c.psm = "intr"
    <2>1. c \in IntrChannel
      BY <1>1, LenProperties, ElementOfSeq DEF ToSet
    <2> QED BY <2>1 DEF IntrChannel
  <1>4. \A c, d \in ToSet(intrQueue) : c.host = h /\ d.host = h => c = d
    BY <1>2, <1>3 DEF VisitInv, OneVisit
  <1>5. intrQueue' = Withdraw(intrQueue, h)
    BY DEF DropHost
  <1> QED BY <1>1, <1>4, <1>5, WithdrawTakesHost

LEMMA VisitStep == VisitInv /\ BInv /\ [Next]_vars => VisitInv'
  <1> SUFFICES ASSUME VisitInv, BInv, [Next]_vars PROVE VisitInv'
    OBVIOUS
  <1>t. opened \subseteq Channel /\ intrQueue \in Seq(IntrChannel)
    BY DEF BInv, TypeOK
  <1>1. ASSUME NEW h \in Host, NEW n \in 1..MaxChannels, OpenCtrl(h, n) PROVE VisitInv'
    <2> DEFINE c == [host |-> h, psm |-> "ctrl", n |-> n]
    <2>1. /\ c \in CtrlChannel /\ c.host = h
          /\ opened' = opened \cup {c} /\ UNCHANGED <<dropped, intrQueue, server>>
          /\ \A d \in opened : d.host = h => d \in dropped
      BY <1>1 DEF OpenCtrl, CtrlChannel
    <2> HIDE DEF c
    <2>2. c \notin IntrChannel
      BY <2>1, PsmsDiffer
    <2>3. OneVisit'
      BY <2>1 DEF VisitInv, OneVisit, Live
    <2> QED BY <2>1, <2>2, <2>3 DEF VisitInv, Live
  <1>2. ASSUME NEW h \in Host, NEW n \in 1..MaxChannels, OpenIntr(h, n) PROVE VisitInv'
    <2> DEFINE c == [host |-> h, psm |-> "intr", n |-> n]
    <2>1. /\ c \in IntrChannel /\ c.host = h /\ c \notin opened /\ ControlOf(c) \in Live
          /\ opened' = opened \cup {c} /\ intrQueue' = Append(intrQueue, c)
          /\ UNCHANGED <<dropped, server>>
      BY <1>2 DEF OpenIntr, IntrChannel, ControlOf, Live
    <2> HIDE DEF c
    <2>2. ToSet(intrQueue') = ToSet(intrQueue) \cup {c}
      BY <2>1, <1>t, AppendKeepsAll
    <2>3. ASSUME NEW d \in Live, d.host = c.host, d.psm = c.psm PROVE FALSE
      <3>1. d \in IntrChannel
        <4>1. d \in Channel /\ d.psm = "intr"
          BY <1>t, <2>1, <2>3, ControlChannel DEF Live
        <4> QED BY <4>1 DEF Channel, CtrlChannel
      <3>2. ControlOf(d) \in Live
        BY <3>1, <2>3 DEF VisitInv, Live
      <3>3. ControlOf(d) = ControlOf(c)
        BY <2>1, <2>3, <3>1, <3>2, ControlChannel DEF VisitInv, OneVisit
      <3>4. d = c
        BY <2>1, <3>1, <3>3, ControlChannel
      <3> QED BY <2>1, <2>3, <3>4 DEF Live
    <2>4. OneVisit'
      BY <2>1, <2>3 DEF VisitInv, OneVisit, Live
    <2> QED BY <2>1, <2>2, <2>4 DEF VisitInv, Live
  <1>3. ASSUME NEW h \in Host, DropHost(h) PROVE VisitInv'
    <2>1. /\ dropped' = dropped \cup {c \in opened : c.host = h} /\ UNCHANGED <<opened, server>>
      BY <1>3 DEF DropHost
    <2>2. server # "gone" => ToSet(intrQueue') \subseteq Live'
      BY <1>3, <2>1, DropLeaves DEF VisitInv, Live
    <2>3. OneVisit'
      BY <2>1 DEF VisitInv, OneVisit, Live
    <2> QED BY <2>1, <2>2, <2>3, ControlChannel DEF VisitInv
  <1>4. CASE AcceptIntr
    <2>1. /\ intrQueue # <<>> /\ intrQueue' = Tail(intrQueue)
          /\ UNCHANGED <<opened, dropped, server>> /\ server # "gone"
      BY <1>4 DEF AcceptIntr, hostVars, BInv, AcceptorHolds
    <2>2. ToSet(intrQueue') \subseteq ToSet(intrQueue)
      <3>1. /\ Clean(Tail(intrQueue), ToSet(intrQueue) \ {Head(intrQueue)})
            /\ Tail(intrQueue) \in Seq(IntrChannel)
        <4>1. Clean(intrQueue, ToSet(intrQueue))
          BY <2>1, <1>t, LenProperties DEF BInv, Backlogged, Clean, ToSet
        <4> QED BY <2>1, <1>t, <4>1, CleanTail
      <3> QED BY <2>1, <3>1, CleanSet
    <2> QED BY <2>1, <2>2 DEF VisitInv, OneVisit, Live
  <1>5. CASE Exit
    BY <1>5 DEF Exit, hostVars, VisitInv, OneVisit, Live
  <1>6. CASE CallAccept \/ AcceptCtrl \/ Install \/ AcceptFails \/ AcceptAgain \/ BeginSend
             \/ Sender \/ Close \/ UNCHANGED vars
    <2>1. UNCHANGED <<opened, dropped, intrQueue>> /\ (server' # "gone" => server # "gone")
      BY <1>6 DEF CallAccept, AcceptCtrl, Install, HandOver, AcceptFails, Raise, AcceptAgain,
                  Resume,
                  BeginSend, Sender, SendReport, SendFails, ClearConnection, Close, vars, hostVars,
                  queueVars
    <2> QED BY <2>1 DEF VisitInv, OneVisit, Live
  <1> QED BY <1>1, <1>2, <1>3, <1>4, <1>5, <1>6 DEF Next, HostSteps, Acceptor

(* A host that is alone was alone before.                                  *)
LEMMA AloneBefore ==
  ASSUME [Next]_vars, BInv, NEW h \in Host, Alone(h)' PROVE Alone(h)
  <1>1. opened \subseteq opened'
    BY DEF Next, HostSteps, OpenCtrl, OpenIntr, DropHost, Acceptor, CallAccept, AcceptCtrl,
           AcceptIntr,
           Install, HandOver, AcceptFails, Raise, AcceptAgain, Resume, BeginSend, Sender,
           SendReport,
           SendFails, ClearConnection, Close, Exit, vars, hostVars
  <1> QED BY <1>1 DEF Alone

(* Steps that take no interrupt channel leave pairs alone.                 *)
LEMMA PairedKept ==
  ASSUME NEW c, Paired(c), opened \subseteq opened', dropped \subseteq dropped',
         \A d \in ToSet(intrQueue') : d \in ToSet(intrQueue) \/ d \notin opened
  PROVE  c \notin dropped' \cup {NoChannel} => InterruptOf(c) \in opened' \ ToSet(intrQueue')
  BY DEF Paired

(* The lone host's interrupt channel belongs to the control channel in     *)
(* hand, if that one is still alive.                                       *)
LEMMA AcceptIntrPairs ==
  ASSUME VisitInv, BInv, NEW h \in Host, Alone(h), AcceptIntr
  PROVE  Paired(ctrlAccepted)'
  <1> DEFINE m == Head(intrQueue)
  <1>1. /\ intrQueue # <<>> /\ intrQueue' = Tail(intrQueue) /\ ctrlAccepted' = ctrlAccepted
        /\ UNCHANGED <<opened, dropped>> /\ server # "gone"
    BY DEF AcceptIntr, hostVars, BInv, AcceptorHolds
  <1>2. /\ intrQueue \in Seq(IntrChannel) /\ Clean(intrQueue, opened \ Taken)
        /\ ToSet(intrQueue) \subseteq Live /\ opened \subseteq Channel
    BY <1>1 DEF BInv, TypeOK, Backlogged, VisitInv
  <1>3. /\ m \in (opened \ Taken) \cap IntrChannel /\ m \in ToSet(intrQueue)
        /\ Tail(intrQueue) \in Seq(IntrChannel)
        /\ ToSet(Tail(intrQueue)) \subseteq (opened \ Taken) \ {m}
    <2>1. /\ m \in (opened \ Taken) \cap IntrChannel /\ Tail(intrQueue) \in Seq(IntrChannel)
          /\ Clean(Tail(intrQueue), (opened \ Taken) \ {m})
      BY <1>1, <1>2, CleanTail
    <2>2. m \in ToSet(intrQueue)
      <3>1. /\ Len(intrQueue) \in Nat /\ Len(intrQueue) >= 1 /\ m = intrQueue[1]
            /\ DOMAIN intrQueue = 1..Len(intrQueue)
        BY <1>1, <1>2, HeadTailProperties, LenProperties, EmptySeq
      <3> QED BY <3>1 DEF ToSet
    <2> HIDE DEF m
    <2> QED BY <2>1, <2>2, CleanSet
  <1> HIDE DEF m
  <1>4. ASSUME ctrlAccepted \notin dropped \cup {NoChannel}
        PROVE  InterruptOf(ctrlAccepted) = m
    <2>1. ctrlAccepted \in Live \cap CtrlChannel
      BY <1>4 DEF BInv, OneOwner, Taken, TypeOK, Live
    <2>2. ControlOf(m) \in Live
      BY <1>2, <1>3 DEF VisitInv, Live
    <2>3. ctrlAccepted.host = m.host
      BY <1>2, <1>3, <2>1 DEF Alone, Live
    <2>4. ControlOf(m) = ctrlAccepted
      BY <1>3, <2>1, <2>2, <2>3, ControlChannel, InterruptChannel DEF VisitInv, OneVisit
    <2> QED BY <1>3, <2>4, ControlChannel
  <1>5. m \in opened \ ToSet(intrQueue')
    BY <1>1, <1>3
  <1> QED BY <1>1, <1>4, <1>5 DEF Paired

LEMMA LoneStep == LoneInv /\ VisitInv /\ BInv /\ [Next]_vars => LoneInv'
  <1> DEFINE Pairs == Paired(ctrlConn) /\ (acceptor = "install" => Paired(ctrlAccepted))
  <1> SUFFICES ASSUME LoneInv, VisitInv, BInv, [Next]_vars, NEW h \in Host, Alone(h)',
                      server' # "gone"
               PROVE  Pairs'
    BY DEF LoneInv
  <1>t. /\ intrQueue \in Seq(IntrChannel) /\ server # "gone"
        /\ Clean(intrQueue, opened \ Taken)
    <2>1. server # "gone"
      BY DEF Next, HostSteps, OpenCtrl, OpenIntr, DropHost, Acceptor, CallAccept, AcceptCtrl,
             AcceptIntr, Install, HandOver, AcceptFails, Raise, AcceptAgain, Resume, BeginSend,
             Sender, SendReport, SendFails, ClearConnection, Close, Exit, vars
    <2> QED BY <2>1 DEF BInv, TypeOK, Backlogged
  <1>p. Pairs /\ Alone(h)
    BY <1>t, AloneBefore DEF LoneInv
  <1> DEFINE Kept == /\ opened \subseteq opened' /\ dropped \subseteq dropped'
                     /\ \A d \in ToSet(intrQueue') : d \in ToSet(intrQueue) \/ d \notin opened
  <1>k. ASSUME Kept, NEW c, Paired(c) PROVE c \notin dropped' \cup {NoChannel}
                                            => InterruptOf(c) \in opened' \ ToSet(intrQueue')
    BY <1>k, PairedKept
  <1>s. ASSUME Kept, ctrlConn' \in {ctrlConn, NoChannel}, acceptor' # "install"
        PROVE  Pairs'
    BY <1>s, <1>p, <1>k DEF Paired
  <1>u. ASSUME Kept, UNCHANGED <<ctrlConn, ctrlAccepted, acceptor>> PROVE Pairs'
    BY <1>u, <1>p, <1>k DEF Paired
  <1>1. ASSUME NEW g \in Host, NEW n \in 1..MaxChannels, OpenCtrl(g, n) \/ OpenIntr(g, n)
        PROVE  Kept
    <2>1. CASE OpenCtrl(g, n)
      BY <2>1 DEF OpenCtrl
    <2>2. CASE OpenIntr(g, n)
      <3> DEFINE c == [host |-> g, psm |-> "intr", n |-> n]
      <3>1. c \in IntrChannel /\ c \notin opened /\ intrQueue' = Append(intrQueue, c)
            /\ opened \subseteq opened' /\ dropped' = dropped
        BY <2>2 DEF OpenIntr, IntrChannel
      <3> HIDE DEF c
      <3>2. ToSet(intrQueue') = ToSet(intrQueue) \cup {c}
        BY <3>1, <1>t, AppendKeepsAll
      <3> QED BY <3>1, <3>2
    <2> QED BY <1>1, <2>1, <2>2
  <1>2. ASSUME NEW g \in Host, DropHost(g) PROVE Kept
    BY <1>2, <1>t, DropLeaves DEF DropHost
  <1>3. CASE HostSteps
    <2>1. UNCHANGED <<ctrlConn, ctrlAccepted, acceptor>>
      BY <1>3 DEF HostSteps, OpenCtrl, OpenIntr, DropHost, acceptVars, connVars
    <2>2. Kept
      BY <1>1, <1>2, <1>3 DEF HostSteps
    <2> HIDE DEF Kept, Pairs
    <2> QED BY <2>1, <2>2, <1>u
  <1>4. CASE AcceptIntr
    <2>1. Paired(ctrlAccepted)'
      BY <1>4, <1>p, AcceptIntrPairs
    <2>2. Kept
      <3>1. /\ intrQueue # <<>> /\ intrQueue' = Tail(intrQueue)
            /\ UNCHANGED <<opened, dropped, ctrlConn>>
        BY <1>4 DEF AcceptIntr, hostVars, connVars
      <3>2. Clean(intrQueue, ToSet(intrQueue))
        BY <1>t, LenProperties DEF Clean, ToSet
      <3>3. /\ Clean(Tail(intrQueue), ToSet(intrQueue) \ {Head(intrQueue)})
            /\ Tail(intrQueue) \in Seq(IntrChannel)
        BY <3>1, <1>t, <3>2, CleanTail
      <3>4. ToSet(intrQueue') \subseteq ToSet(intrQueue)
        BY <3>1, <3>3, CleanSet
      <3> QED BY <3>1, <3>4
    <2>3. Paired(ctrlConn)'
      <3>1. ctrlConn' = ctrlConn
        BY <1>4 DEF AcceptIntr, connVars
      <3> QED BY <2>2, <3>1, <1>p, <1>k DEF Paired
    <2> QED BY <2>1, <2>3
  <1>5. CASE Install
    BY <1>5, <1>p DEF Install, HandOver, Paired, hostVars, queueVars
  <1>6. CASE CallAccept \/ AcceptCtrl \/ AcceptFails \/ AcceptAgain
    <2>1. Kept /\ ctrlConn' = ctrlConn /\ acceptor' # "install"
      BY <1>6 DEF CallAccept, AcceptCtrl, AcceptFails, Raise, AcceptAgain, Resume, hostVars,
                  queueVars, connVars
    <2> HIDE DEF Kept, Pairs
    <2> QED BY <2>1, <1>s
  <1>7. CASE BeginSend \/ Sender \/ UNCHANGED vars
    <2>1. Kept /\ UNCHANGED <<ctrlConn, ctrlAccepted, acceptor>>
      BY <1>7 DEF BeginSend, Sender, SendReport, SendFails, ClearConnection, vars, hostVars,
                  queueVars, acceptVars, connVars
    <2> HIDE DEF Kept, Pairs
    <2> QED BY <2>1, <1>u
  <1>8. CASE Close
    BY <1>8, <1>p DEF Close, Paired, hostVars, queueVars, acceptVars
  <1>9. CASE Exit
    BY <1>9 DEF Exit
  <1> HIDE DEF Kept, Pairs
  <1> QED BY <1>3, <1>4, <1>5, <1>6, <1>7, <1>8, <1>9 DEF Next, Acceptor

(* However often a lone host came, half-connected and left, and whichever  *)
(* accept() raised: if its interrupt channel waits while the server waits  *)
(* for a control channel, the server closed the control channel of that    *)
(* visit, so the host learns of it.                                        *)
THEOREM LoneHostGetsOn == Spec => []LoneHostNotStranded
  <1>1. Init => VisitInv /\ LoneInv
    BY DEF Init, VisitInv, OneVisit, Live, LoneInv, Paired, ToSet
  <1>2. VisitInv /\ LoneInv /\ LeakInv /\ BInv => LoneHostNotStranded
    <2> SUFFICES ASSUME VisitInv, LoneInv, LeakInv, BInv, acceptor = "waitCtrl", ctrlQueue = <<>>,
                        \E h \in Host : Alone(h), NEW c \in ToSet(intrQueue)
                 PROVE  ControlOf(c) \in closed
      BY DEF LoneHostNotStranded
    <2>1. server # "gone" /\ ctrlAccepted = NoChannel /\ intrAccepted = NoChannel
      BY DEF BInv, AcceptorHolds
    <2>2. c \in Live \cap IntrChannel /\ ToSet(intrQueue) \subseteq IntrChannel
      <3>1. intrQueue \in Seq(IntrChannel)
        BY DEF BInv, TypeOK
      <3>2. ToSet(intrQueue) \subseteq IntrChannel
        BY <3>1, LenProperties, ElementOfSeq DEF ToSet
      <3> QED BY <2>1, <3>2 DEF VisitInv
    <2>3. ControlOf(c) \in Live \cap CtrlChannel /\ InterruptOf(ControlOf(c)) = c
      BY <2>2, ControlChannel DEF VisitInv, Live
    <2>4. ControlOf(c) \notin IntrChannel /\ ControlOf(c) # NoChannel
      BY <2>3, PsmsDiffer, NoChannelTypes
    <2>5. ControlOf(c) # ctrlConn
      BY <2>1, <2>3, <2>4 DEF LoneInv, Paired, Live
    <2>6. ToSet(ctrlQueue) = {}
      BY DEF ToSet
    <2>7. intrConn \in IntrChannel \cup {NoChannel}
      BY DEF BInv, TypeOK
    <2> QED BY <2>1, <2>2, <2>3, <2>4, <2>5, <2>6, <2>7 DEF LeakInv, NoChannelLeaks, Dead, Live
  <1>3. Init => LeakInv
    BY DEF Init, LeakInv, NoChannelLeaks
  <1> QED BY <1>1, <1>2, <1>3, VisitStep, LoneStep, LeakStep, InvHolds, PTL DEF Spec

-----------------------------------------------------------------------------
(* The refinement.                                                         *)

LEMMA RefineInit == Init => Abstract!Init
  BY DEF Init, Abstract!Init

LEMMA RefineStep == BInv /\ BInv' /\ [Next]_vars => [Abstract!Next]_(Abstract!vars)
  <1> SUFFICES ASSUME BInv, BInv', [Next]_vars PROVE [Abstract!Next]_(Abstract!vars)
    OBVIOUS
  <1>0. /\ closed' \subseteq Channel
        /\ intrConn' \notin closed'
        /\ intrConn \in IntrChannel \cup {NoChannel}
    BY DEF BInv, TypeOK, InstalledIsOpen
  <1>1. CASE HostSteps \/ AcceptCtrl \/ AcceptIntr \/ SendFails \/ UNCHANGED vars
    BY <1>1 DEF HostSteps, OpenCtrl, OpenIntr, DropHost, AcceptCtrl, AcceptIntr, SendFails,
                vars, connVars, sendVars, Abstract!vars
  <1>2. CASE CallAccept \/ AcceptFails \/ AcceptAgain
    BY <1>2, <1>0 DEF CallAccept, AcceptFails, Raise, AcceptAgain, Resume, DropAccepted, sendVars,
                      Abstract!Next, Abstract!Disconnect, Abstract!Retire
  <1>3. CASE Install
    <2>1. intrAccepted \in IntrChannel /\ intrAccepted # intrConn
      BY <1>3 DEF Install, HandOver, BInv, TypeOK, AcceptorHolds, OneOwner
    <2> QED BY <1>3, <1>0, <2>1 DEF Install, HandOver, Present, sendVars, Channel, Abstract!Next,
                                    Abstract!Connect, Abstract!Retire
  <1>4. CASE BeginSend
    BY <1>4, <1>0 DEF BeginSend, connVars, Abstract!Next, Abstract!Disconnect, Abstract!Retire
  <1>5. CASE SendReport
    <2>1. conn = intrConn /\ conn # NoChannel
      BY <1>5 DEF SendReport, Dead, BInv, SenderHolds
    <2> QED BY <1>5, <2>1 DEF SendReport, connVars, Abstract!Next, Abstract!Deliver
  <1>6. CASE ClearConnection \/ Close
    BY <1>6, <1>0 DEF ClearConnection, Close, Present, sendVars, Abstract!Next,
                      Abstract!Disconnect, Abstract!Retire
  <1>7. CASE Exit
    <2>1. closed \subseteq opened /\ intrConn \in opened \cup {NoChannel}
      BY NoChannelAssumption DEF BInv, OneOwner, Taken, TypeOK
    <2> QED BY <1>7, <1>0, <2>1 DEF Exit, sendVars, Abstract!Next, Abstract!Disconnect,
                                    Abstract!Retire
  <1> QED BY <1>1, <1>2, <1>3, <1>4, <1>5, <1>6, <1>7 DEF Next, Acceptor, Sender

(* Two threads, the lock and the hosts together behave like the single     *)
(* atomic report channel: every step is a step of ReportChannel or leaves  *)
(* its state alone.                                                        *)
THEOREM Refinement == Spec => ImplementsReportChannel
  BY InvHolds, RefineInit, RefineStep, PTL DEF Spec, ImplementsReportChannel, Abstract!Spec

=============================================================================
