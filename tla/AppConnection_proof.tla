------------------------ MODULE AppConnection_proof -------------------------
(* Proofs for AppConnection, for every number of upsets and of blocks.     *)
EXTENDS AppConnection, TLAPS

Ends == {"failed", "cancelled"}

(* Something still to come will take the status down.                      *)
EndAfter(i) == \E j \in DOMAIN main : j > i /\ main[j] \in Ends

(* A "ready" on its way speaks of the connection there is, or of one whose *)
(* end is on its way behind it.                                            *)
ReadyIsTrue ==
  \A i \in DOMAIN main :
    main[i] = "ready" => conn = "ready" \/ cancelling > 0 \/ EndAfter(i)

Unconnected ==
  conn = "none" => /\ status # "connected"
                   /\ \A i \in DOMAIN main : main[i] # "ready"

AInv == TypeOK /\ ReadyIsTrue /\ Unconnected /\ ConnectedIsTrue

LEMMA HandleTail ==
  ASSUME TypeOK, NEW e, Handle(e)
  PROVE  /\ main' \in Seq(Event)
         /\ Len(main') = Len(main) - 1
         /\ \A i \in DOMAIN main' : i + 1 \in DOMAIN main /\ main'[i] = main[i + 1]
         /\ \A j \in DOMAIN main : j > 1 => j - 1 \in DOMAIN main' /\ main'[j - 1] = main[j]
         /\ 1 \in DOMAIN main /\ main[1] = e
  BY DEF TypeOK, Handle

LEMMA ForwardAppend ==
  ASSUME TypeOK, NEW e \in Event, Forward(e)
  PROVE  /\ main' \in Seq(Event)
         /\ main' # <<>>
         /\ Len(main') = Len(main) + 1
         /\ Len(main') \in DOMAIN main' /\ main'[Len(main')] = e
         /\ \A i \in DOMAIN main : i \in DOMAIN main' /\ main'[i] = main[i]
         /\ \A i \in DOMAIN main' : i = Len(main') \/ i \in DOMAIN main
  BY DEF TypeOK, Forward

LEMMA TypeStep == TypeOK /\ [Next]_vars => TypeOK'
  <1> SUFFICES ASSUME TypeOK, [Next]_vars PROVE TypeOK'
    OBVIOUS
  <1> USE AppAssumption DEF TypeOK, Event
  <1>1. CASE Discover
    BY <1>1, ForwardAppend DEF Discover
  <1>2. CASE FirstResults \/ Announce
    BY <1>2 DEF FirstResults, Announce, Report, Upset
  <1>12. CASE ConnectionWaits \/ ConnectionRetries
    BY <1>12 DEF ConnectionWaits, ConnectionRetries, Upset
  <1>3. CASE ConnectionReady
    BY <1>3, ForwardAppend DEF ConnectionReady
  <1>4. CASE ConnectionFails
    BY <1>4, ForwardAppend DEF ConnectionFails, Upset
  <1>5. CASE Cancelled
    BY <1>5, ForwardAppend DEF Cancelled
  <1>6. CASE ConnectTo
    BY <1>6 DEF ConnectTo, Upset, Connect
  <1>7. CASE OnDiscovered
    BY <1>7, HandleTail DEF OnDiscovered, Connect
  <1>8. CASE OnReady
    BY <1>8, HandleTail DEF OnReady
  <1>9. CASE OnEnd
    BY <1>9, HandleTail DEF OnEnd
  <1>10. CASE SearchAgain
    BY <1>10 DEF SearchAgain
  <1>11. CASE UNCHANGED vars
    BY <1>11 DEF vars
  <1> QED
    BY <1>1, <1>2, <1>3, <1>4, <1>5, <1>6, <1>7, <1>8, <1>9, <1>10, <1>11, <1>12 DEF Next

(* The app's status, connection, browser, queue, timers stay what they are *)
(* declared to be, whatever callbacks come late.                           *)
THEOREM TypeCorrect == Spec => []TypeOK
  <1>1. Init => TypeOK
    BY AppAssumption DEF Init, TypeOK
  <1> QED
    BY <1>1, TypeStep, PTL DEF Spec

-----------------------------------------------------------------------------
(* Handling a block shifts what is behind it to the front.                 *)
LEMMA EndShift ==
  ASSUME TypeOK, NEW e, Handle(e)
  PROVE  /\ \A i \in DOMAIN main' : EndAfter(i + 1) => EndAfter(i)'
         /\ EndAfter(1) => \E j \in DOMAIN main' : main'[j] \in Ends
         /\ e \notin Ends /\ (\E j \in DOMAIN main : main[j] \in Ends) => EndAfter(1)
  <1>0. DOMAIN main = 1..Len(main) /\ DOMAIN main' = 1..Len(main')
    BY HandleTail DEF TypeOK
  <1>1. ASSUME NEW i \in DOMAIN main', EndAfter(i + 1) PROVE EndAfter(i)'
    <2>1. PICK j \in DOMAIN main : j > i + 1 /\ main[j] \in Ends
      BY <1>1 DEF EndAfter
    <2>2. j - 1 \in DOMAIN main' /\ main'[j - 1] \in Ends /\ j - 1 > i
      <3>1. Len(main) \in Nat /\ main' \in Seq(Event)
        BY HandleTail DEF TypeOK
      <3>2. Len(main') \in Nat
        BY <3>1
      <3>3. j \in 1..Len(main) /\ i \in 1..Len(main')
        BY <1>0
      <3>4. j \in Nat /\ i \in Nat /\ i >= 1
        BY <3>1, <3>2, <3>3
      <3> QED
        BY <2>1, <3>4, HandleTail
    <2> QED
      BY <2>2 DEF EndAfter
  <1>2. EndAfter(1) => \E j \in DOMAIN main' : main'[j] \in Ends
    BY <1>0, HandleTail DEF EndAfter
  <1>3. e \notin Ends /\ (\E j \in DOMAIN main : main[j] \in Ends) => EndAfter(1)
    <2>1. ASSUME e \notin Ends, NEW j \in DOMAIN main, main[j] \in Ends
          PROVE  EndAfter(1)
      <3>1. j # 1
        BY <2>1, HandleTail
      <3>2. j \in Nat /\ j >= 1
        BY <1>0 DEF TypeOK
      <3>3. j > 1
        BY <3>1, <3>2
      <3> QED
        BY <2>1, <3>3 DEF EndAfter
    <2> QED
      BY <2>1
  <1> QED
    BY <1>1, <1>2, <1>3

LEMMA EndStep == AInv /\ [Next]_vars => (ReadyIsTrue /\ Unconnected /\ ConnectedIsTrue)'
  <1> SUFFICES ASSUME AInv, [Next]_vars
               PROVE  (ReadyIsTrue /\ Unconnected /\ ConnectedIsTrue)'
    OBVIOUS
  <1>0. TypeOK
    BY DEF AInv
  <1>a. ReadyIsTrue /\ Unconnected /\ ConnectedIsTrue
    BY DEF AInv
  <1> USE <1>0, <1>a
  <1>1. CASE Discover
    BY <1>1, ForwardAppend
       DEF Discover, ReadyIsTrue, Unconnected, ConnectedIsTrue, EndAfter, Ends,
           TypeOK, Event
  <1>2. CASE FirstResults \/ Announce
    BY <1>2 DEF FirstResults, Announce, ReadyIsTrue, Unconnected, ConnectedIsTrue, EndAfter
  <1>12. CASE ConnectionWaits \/ ConnectionRetries
    BY <1>12 DEF ConnectionWaits, ConnectionRetries, ReadyIsTrue, Unconnected,
                 ConnectedIsTrue, EndAfter
  <1>3. CASE ConnectionReady
    BY <1>3, ForwardAppend
       DEF ConnectionReady, ReadyIsTrue, Unconnected, ConnectedIsTrue, EndAfter, Ends,
           TypeOK, Event
  <1>4. CASE ConnectionFails
    BY <1>4, ForwardAppend
       DEF ConnectionFails, ReadyIsTrue, Unconnected, ConnectedIsTrue, EndAfter, Ends,
           TypeOK, Event
  <1>5. CASE Cancelled
    BY <1>5, ForwardAppend
       DEF Cancelled, ReadyIsTrue, Unconnected, ConnectedIsTrue, EndAfter, Ends,
           TypeOK, Event
  <1>6. CASE ConnectTo
    BY <1>6 DEF ConnectTo, Connect, ReadyIsTrue, Unconnected, ConnectedIsTrue, EndAfter, Ends,
            TypeOK, Event
  <1>7. CASE OnDiscovered
    <2>1. Handle("discovered")
      BY <1>7 DEF OnDiscovered
    <2>2. CASE status = "connected"
      <3>1. UNCHANGED <<status, conn, cancelling>>
        BY <1>7, <2>2 DEF OnDiscovered
      <3>2. ReadyIsTrue'
        BY <2>1, <3>1, HandleTail, EndShift DEF ReadyIsTrue
      <3>3. Unconnected' /\ ConnectedIsTrue'
        BY <2>1, <3>1, HandleTail, EndShift DEF Unconnected, ConnectedIsTrue, Ends
      <3> QED
        BY <3>2, <3>3
    <2>3. CASE status # "connected"
      <3>1. conn' = "preparing" /\ status' = "connecting"
        BY <1>7, <2>3 DEF OnDiscovered, Connect
      <3>2. CASE conn = "none"
        <4>1. \A i \in DOMAIN main' : main'[i] # "ready"
          BY <2>1, <3>2, HandleTail DEF Unconnected
        <4> QED
          BY <3>1, <4>1 DEF ReadyIsTrue, Unconnected, ConnectedIsTrue
      <3>3. CASE conn # "none"
        <4>1. cancelling' > 0
          BY <1>7, <2>3, <3>3 DEF OnDiscovered, Connect, TypeOK
        <4> QED
          BY <3>1, <4>1 DEF ReadyIsTrue, Unconnected, ConnectedIsTrue
      <3> QED
        BY <3>2, <3>3
    <2> QED
      BY <2>2, <2>3
  <1>8. CASE OnReady
    <2>1. Handle("ready") /\ UNCHANGED <<conn, cancelling>>
      BY <1>8 DEF OnReady
    <2>2. ReadyIsTrue'
      BY <2>1, HandleTail, EndShift DEF ReadyIsTrue
    <2>3. ConnectedIsTrue' /\ Unconnected'
      BY <2>1, HandleTail, EndShift DEF ReadyIsTrue, Unconnected, ConnectedIsTrue, Ends
    <2> QED
      BY <2>2, <2>3
  <1>9. CASE OnEnd
    <2>1. status' = "disconnected" /\ UNCHANGED <<conn, cancelling>>
      BY <1>9 DEF OnEnd
    <2>2. PICK e \in Ends : Handle(e)
      BY <1>9 DEF OnEnd, Ends
    <2>3. ReadyIsTrue'
      BY <2>1, <2>2, HandleTail, EndShift DEF ReadyIsTrue
    <2>4. ConnectedIsTrue' /\ Unconnected'
      BY <2>1, <2>2, HandleTail DEF Unconnected, ConnectedIsTrue
    <2> QED
      BY <2>3, <2>4
  <1>10. CASE SearchAgain
    BY <1>10 DEF SearchAgain, ReadyIsTrue, Unconnected, ConnectedIsTrue, EndAfter, Ends,
            TypeOK, Event
  <1>11. CASE UNCHANGED vars
    BY <1>11 DEF vars, ReadyIsTrue, Unconnected, ConnectedIsTrue, EndAfter, Ends,
            TypeOK, Event
  <1> QED
    BY <1>1, <1>2, <1>3, <1>4, <1>5, <1>6, <1>7, <1>8, <1>9, <1>10, <1>11, <1>12 DEF Next

(* "Connected" is only shown over a connection that is ready, or while the *)
(* callback that takes it down is on its way.                              *)
THEOREM ConnectedStaysTrue == Spec => []ConnectedIsTrue
  <1>1. Init => AInv
    BY AppAssumption DEF Init, AInv, TypeOK, ReadyIsTrue, Unconnected, ConnectedIsTrue
  <1>2. AInv /\ [Next]_vars => AInv'
    BY TypeStep, EndStep DEF AInv
  <1>3. AInv => ConnectedIsTrue
    BY DEF AInv
  <1> QED
    BY <1>1, <1>2, <1>3, PTL DEF Spec

(* Without a connection the app always has something going that answers.   *)
THEOREM NeverAtRest == Spec => []NeverAtRestUnconnected
  <1> DEFINE Inv == TypeOK /\ NeverAtRestUnconnected
  <1>1. Init => Inv
    BY AppAssumption DEF Init, TypeOK, NeverAtRestUnconnected
  <1>2. Inv /\ [Next]_vars => Inv'
    <2> SUFFICES ASSUME Inv, [Next]_vars PROVE NeverAtRestUnconnected'
      BY TypeStep
    <2> USE DEF TypeOK, NeverAtRestUnconnected, Event
    <2>1. CASE Discover \/ ConnectionReady \/ ConnectionFails \/ Cancelled
      BY <2>1, ForwardAppend
         DEF Discover, ConnectionReady, ConnectionFails, Cancelled
    <2>7. CASE FirstResults \/ Announce
      BY <2>7, AppAssumption DEF FirstResults, Announce, Report
    <2>8. CASE ConnectionWaits \/ ConnectionRetries
      BY <2>8 DEF ConnectionWaits, ConnectionRetries
    <2>2. CASE ConnectTo
      BY <2>2 DEF ConnectTo, Connect
    <2>3. CASE OnDiscovered
      BY <2>3 DEF OnDiscovered, Connect
    <2>4. CASE OnReady \/ OnEnd
      BY <2>4 DEF OnReady, OnEnd
    <2>5. CASE SearchAgain
      BY <2>5 DEF SearchAgain
    <2>6. CASE UNCHANGED vars
      BY <2>6 DEF vars
    <2> QED
      BY <2>1, <2>2, <2>3, <2>4, <2>5, <2>6, <2>7, <2>8 DEF Next
  <1>3. Inv => NeverAtRestUnconnected
    OBVIOUS
  <1> QED
    BY <1>1, <1>2, <1>3, PTL DEF Spec

-----------------------------------------------------------------------------
(* A connection that settled.                                              *)

LEMMA SettledStep ==
  ASSUME TypeOK, Settled, Next PROVE Settled' \/ ConnectionFails \/ ConnectTo
  <1> USE DEF Settled
  <1>1. CASE FirstResults \/ Announce \/ Discover
    BY <1>1, ForwardAppend DEF FirstResults, Announce, Discover, Event
  <1>2. CASE \/ ConnectionWaits \/ ConnectionRetries \/ ConnectionReady
             \/ Cancelled \/ OnEnd \/ SearchAgain
    <2>1. /\ ~ConnectionWaits /\ ~ConnectionRetries /\ ~ConnectionReady
          /\ ~Cancelled /\ ~SearchAgain
      BY DEF ConnectionWaits, ConnectionRetries, ConnectionReady, Cancelled, SearchAgain
    <2>2. ~OnEnd
      BY HandleTail DEF OnEnd
    <2> QED BY <1>2, <2>1, <2>2
  <1>3. CASE OnDiscovered
    BY <1>3, HandleTail DEF OnDiscovered
  <1>4. CASE OnReady
    BY <1>4, HandleTail DEF OnReady
  <1> QED
    BY <1>1, <1>2, <1>3, <1>4 DEF Next

(* A settled connection ends by its failure or by the user, and by nothing *)
(* the app still has to hear of earlier ones.                              *)
THEOREM SettledConnectionStays == Spec => SettledStays
  <1>1. TypeOK /\ [Next]_vars => [Settled => Settled' \/ ConnectionFails \/ ConnectTo]_vars
    BY SettledStep
  <1> QED
    BY <1>1, TypeCorrect, PTL DEF Spec, SettledStays

(* Before anything interferes, and where one server answers: one browser,  *)
(* one result, one connection.                                             *)
FirstConnection ==
  upsets = 0 =>
    /\ cancelling = 0 /\ timers = 0
    /\ status # "disconnected"
    /\ browser # "off"
    /\ conn \in {"none", "preparing", "ready"}
    /\ conn = "none" =>
         /\ status = "searching"
         /\ \A i \in DOMAIN main : main[i] = "discovered"
         /\ browser = "started" => results + Len(main) = 0
         /\ browser = "reported" => results + Len(main) = 1
    /\ conn # "none" =>
         /\ browser = "reported" /\ results = 0
         /\ \A i \in DOMAIN main : main[i] = "ready"
         /\ (status = "connected" \/ main # <<>>) => conn = "ready"

(* Where the browser finds one server, and nothing fails or waits, nobody  *)
(* announces and the user does not connect, the first connection settles   *)
(* as it is shown.  One server is needed: the second result of a callback  *)
(* replaces the connection of the first, whose end starts the circle of    *)
(* reconnecting with no upset at all.                                      *)
THEOREM UndisturbedSettles ==
  ASSUME MaxServers = 1
  PROVE  Spec => [](upsets = 0 /\ status = "connected" => Settled)
  <1> DEFINE Inv == TypeOK /\ FirstConnection
  <1>1. Init => Inv
    BY AppAssumption DEF Init, TypeOK, FirstConnection
  <1>2. Inv /\ [Next]_vars => Inv'
    <2> SUFFICES ASSUME Inv, [Next]_vars, upsets' = 0 PROVE FirstConnection'
      BY TypeStep DEF FirstConnection
    <2> USE DEF FirstConnection
    <2>0. /\ upsets = 0 /\ upsets \in Nat /\ main \in Seq(Event) /\ Len(main) \in Nat
          /\ results \in 0..1
      BY DEF TypeOK, Next, FirstResults, Announce, Discover, Upset, ConnectionWaits,
             ConnectionRetries, ConnectionReady, ConnectionFails, Cancelled,
             ConnectTo, OnDiscovered, OnReady, OnEnd, SearchAgain, vars
    <2>1. CASE Discover
      <3>1. conn = "none" /\ browser = "reported" /\ results = 1 /\ Len(main) = 0
        BY <2>0, <2>1 DEF Discover, TypeOK
      <3>2. results' = 0 /\ Len(main') = 1 /\ \A i \in DOMAIN main' : main'[i] = "discovered"
        BY <2>0, <2>1, <3>1 DEF Discover, Forward
      <3> QED BY <2>0, <2>1, <3>1, <3>2 DEF Discover
    <2>2. CASE ConnectionReady
      BY <2>0, <2>2, ForwardAppend DEF ConnectionReady, Event
    <2>3. CASE OnDiscovered
      <3>1. Handle("discovered") /\ UNCHANGED <<browser, results, timers, upsets>>
        BY <2>3 DEF OnDiscovered
      <3>2. conn = "none" /\ status = "searching"
        BY <2>0, <3>1, HandleTail DEF TypeOK
      <3>3. browser = "reported" /\ Len(main) = 1 /\ results = 0
        <4>1. Len(main) >= 1
          BY <2>0, <3>1 DEF Handle
        <4>2. browser \in {"started", "reported"}
          BY <2>0 DEF TypeOK
        <4>3. /\ browser = "started" => results + Len(main) = 0
              /\ browser = "reported" => results + Len(main) = 1
          BY <2>0, <3>2
        <4> HIDE DEF FirstConnection, Inv
        <4>4. results \in {0, 1} /\ results + Len(main) >= 1
          BY <2>0, <4>1
        <4>5. browser = "reported"
          BY <4>2, <4>3, <4>4
        <4>6. ASSUME NEW r \in {0, 1}, NEW n \in Nat, n >= 1, r + n = 1
              PROVE  n = 1 /\ r = 0
          BY <4>6
        <4>7. Len(main) \in Nat /\ results + Len(main) = 1
          BY <2>0, <4>3, <4>5
        <4> QED BY <4>1, <4>4, <4>5, <4>6, <4>7
      <3>4. conn' = "preparing" /\ cancelling' = 0 /\ status' = "connecting"
        BY <2>0, <2>3, <3>2 DEF OnDiscovered, Connect
      <3>5. main' = <<>>
        BY <2>0, <3>1, <3>3 DEF Handle
      <3> QED BY <2>0, <3>1, <3>3, <3>4, <3>5
    <2>4. CASE OnReady
      BY <2>0, <2>4, HandleTail DEF OnReady
    <2>5. CASE OnEnd
      BY <2>0, <2>5, HandleTail DEF OnEnd
    <2>6. CASE \/ Announce \/ ConnectionWaits \/ ConnectionRetries \/ ConnectionFails
               \/ ConnectTo \/ Cancelled \/ SearchAgain
      BY <2>0, <2>6
         DEF Announce, ConnectionWaits, ConnectionRetries, ConnectionFails, ConnectTo,
             Cancelled, SearchAgain, Upset, TypeOK
    <2>7. CASE FirstResults
      BY <2>0, <2>7 DEF FirstResults, Report
    <2>8. CASE UNCHANGED vars
      BY <2>0, <2>8 DEF vars
    <2> QED
      BY <2>1, <2>2, <2>3, <2>4, <2>5, <2>6, <2>7, <2>8 DEF Next
  <1>3. Inv => (upsets = 0 /\ status = "connected" => Settled)
    BY DEF TypeOK, FirstConnection, Settled
  <1> QED
    BY <1>1, <1>2, <1>3, PTL DEF Spec
=============================================================================
