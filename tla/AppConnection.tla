--------------------------- MODULE AppConnection ----------------------------
(***************************************************************************)
(* How the app finds and keeps its server: ContentView.swift with          *)
(* UDPClient.swift and BonjourBrowser.swift.  Network callbacks run on     *)
(* background queues and are forwarded to the main queue, so they act on a *)
(* status and a connection that may have changed since.  UDPClient keeps   *)
(* one NWConnection; connecting cancels the one before, whose handler      *)
(* still reports .cancelled some time later.                               *)
(*                                                                         *)
(* A server is there to be found.  What goes wrong from outside is bounded *)
(* by MaxUpsets: connections that fail, or wait for a route or a name, new *)
(* announcements, addresses the user enters.                               *)
(***************************************************************************)
EXTENDS Naturals, Sequences

CONSTANTS MaxUpsets,   \* bound: failures, waits, announcements, user's connects
          MaxServers,  \* bound: the results of one callback of the browser
          MaxPending   \* bound: blocks when a result is forwarded, cancels, timers

ASSUME AppAssumption ==
  /\ MaxUpsets \in Nat
  /\ MaxServers \in Nat \ {0}
  /\ MaxPending \in Nat \ {0}

VARIABLES status,      \* AppState.connectionState
          conn,        \* the state of UDPClient.connection
          cancelling,  \* connections whose .cancelled is still to come
          browser,     \* BonjourBrowser.browser: started, and has it reported
          results,     \* what its callback's loop has yet to forward
          main,        \* blocks on the main queue: the callbacks forwarded
          timers,      \* asyncAfter(1 s) blocks that wait
          upsets       \* how often the outside interfered

vars == <<status, conn, cancelling, browser, results, main, timers, upsets>>

Event == {"discovered", "ready", "failed", "cancelled"}

TypeOK ==
  /\ status \in {"searching", "connecting", "connected", "disconnected"}
  /\ conn \in {"none", "preparing", "waiting", "ready", "failed"}
  /\ cancelling \in Nat
  /\ browser \in {"off", "started", "reported"}
  /\ results \in 0..MaxServers
  /\ main \in Seq(Event)
  /\ timers \in Nat
  /\ upsets \in 0..MaxUpsets

(* onAppear.                                                               *)
Init ==
  /\ status = "searching"
  /\ conn = "none"
  /\ cancelling = 0
  /\ browser = "started"
  /\ results = 0
  /\ main = <<>>
  /\ timers = 0
  /\ upsets = 0

Forward(e) == main' = Append(main, e)

Upset == upsets < MaxUpsets /\ upsets' = upsets + 1

-----------------------------------------------------------------------------
(* The network, on the queues of the browser and of the connection.        *)

(* A callback of the browser: one result for each server it knows of.      *)
Report == results = 0 /\ results' \in 1..MaxServers

(* The first callback of a browser.                                        *)
FirstResults ==
  /\ browser = "started"
  /\ Report
  /\ browser' = "reported"
  /\ UNCHANGED <<status, conn, cancelling, main, timers, upsets>>

(* The results change: a server announces itself again.                    *)
Announce ==
  /\ browser = "reported"
  /\ Upset
  /\ Report
  /\ UNCHANGED <<status, conn, cancelling, browser, main, timers>>

(* The callback's loop, also when its browser has been replaced meanwhile. *)
(* Bound: MaxPending.                                                      *)
Discover ==
  /\ results > 0
  /\ Len(main) < MaxPending
  /\ results' = results - 1
  /\ Forward("discovered")
  /\ UNCHANGED <<status, conn, cancelling, browser, timers, upsets>>

(* No route, or a name that does not resolve: .waiting, which the handler  *)
(* forwards to the main queue and ignores there.                           *)
ConnectionWaits ==
  /\ conn = "preparing"
  /\ Upset
  /\ conn' = "waiting"
  /\ UNCHANGED <<status, cancelling, browser, results, main, timers>>

(* The network has changed: the connection tries again.                    *)
ConnectionRetries ==
  /\ conn = "waiting"
  /\ conn' = "preparing"
  /\ UNCHANGED <<status, cancelling, browser, results, main, timers, upsets>>

ConnectionReady ==
  /\ conn = "preparing"
  /\ conn' = "ready"
  /\ Forward("ready")
  /\ UNCHANGED <<status, cancelling, browser, results, timers, upsets>>

ConnectionFails ==
  /\ conn \in {"preparing", "waiting", "ready"}
  /\ Upset
  /\ conn' = "failed"
  /\ Forward("failed")
  /\ UNCHANGED <<status, cancelling, browser, results, timers>>

Cancelled ==
  /\ cancelling > 0
  /\ cancelling' = cancelling - 1
  /\ Forward("cancelled")
  /\ UNCHANGED <<status, conn, browser, results, timers, upsets>>

-----------------------------------------------------------------------------
(* The main queue.  Bound: MaxPending.                                     *)

(* Mutant: the connection before is not cancelled but reused.              *)
ConnectKeepingFailed ==
  /\ conn' = IF conn = "none" THEN "preparing" ELSE conn
  /\ UNCHANGED cancelling

(* UDPClient.connect: cancel the connection there is, start another one.   *)
Connect ==
  /\ cancelling < MaxPending
  /\ conn' = "preparing"
  /\ cancelling' = IF conn = "none" THEN cancelling ELSE cancelling + 1

(* The user enters an address: connectTo.                                  *)
ConnectTo ==
  /\ Upset
  /\ browser' = "off"
  /\ status' = "connecting"
  /\ Connect
  /\ UNCHANGED <<results, main, timers>>

Handle(e) == main # <<>> /\ Head(main) = e /\ main' = Tail(main)

(* Mutant: also when connected.                                            *)
OnDiscoveredAlways ==
  /\ Handle("discovered")
  /\ status' = "connecting"
  /\ Connect
  /\ UNCHANGED <<browser, results, timers, upsets>>

OnDiscovered ==
  /\ Handle("discovered")
  /\ IF status = "connected"
     THEN UNCHANGED <<status, conn, cancelling>>
     ELSE status' = "connecting" /\ Connect
  /\ UNCHANGED <<browser, results, timers, upsets>>

(* Mutant: the second's wait is called off, whether there is one or not.   *)
OnReadyStoppingTimer ==
  /\ Handle("ready")
  /\ status' = "connected"
  /\ timers' = timers - 1
  /\ UNCHANGED <<conn, cancelling, browser, results, upsets>>

OnReady ==
  /\ Handle("ready")
  /\ status' = "connected"
  /\ UNCHANGED <<conn, cancelling, browser, results, timers, upsets>>

(* Mutant: .failed is ignored like .waiting.                               *)
OnEndOnlyCancelled ==
  /\ Handle("cancelled") \/ Handle("failed")
  /\ timers < MaxPending
  /\ IF Head(main) = "failed"
     THEN UNCHANGED <<status, timers>>
     ELSE status' = "disconnected" /\ timers' = timers + 1
  /\ UNCHANGED <<conn, cancelling, browser, results, upsets>>

(* Of whichever connection: the handler does not say which one ended.      *)
OnEnd ==
  /\ Handle("failed") \/ Handle("cancelled")
  /\ timers < MaxPending
  /\ status' = "disconnected"
  /\ timers' = timers + 1
  /\ UNCHANGED <<conn, cancelling, browser, results, upsets>>

(* Mutant: the browser is still there and is not started again.            *)
SearchAgainUnstarted ==
  /\ timers > 0
  /\ timers' = timers - 1
  /\ status' = "searching"
  /\ browser' = IF browser = "off" THEN "started" ELSE browser
  /\ UNCHANGED <<conn, cancelling, results, main, upsets>>

(* The second is over: whatever the status is by now, search.              *)
SearchAgain ==
  /\ timers > 0
  /\ timers' = timers - 1
  /\ status' = "searching"
  /\ browser' = "started"
  /\ UNCHANGED <<conn, cancelling, results, main, upsets>>

Next ==
  \/ FirstResults \/ Announce \/ Discover
  \/ ConnectionWaits \/ ConnectionRetries
  \/ ConnectionReady \/ ConnectionFails \/ Cancelled
  \/ ConnectTo
  \/ OnDiscovered \/ OnReady \/ OnEnd
  \/ SearchAgain

(* Browsers find a server, a connection that neither fails nor waits gets  *)
(* ready, queues and timers run.  Nobody promises that anything fails, nor *)
(* that a connection that waits is ever let go on, nor what the user does. *)
Fairness ==
  /\ WF_vars(FirstResults) /\ WF_vars(Discover)
  /\ SF_vars(ConnectionReady) /\ WF_vars(Cancelled)
  /\ WF_vars(OnDiscovered \/ OnReady \/ OnEnd)
  /\ WF_vars(SearchAgain)

Spec == Init /\ [][Next]_vars

FairSpec == Spec /\ Fairness

-----------------------------------------------------------------------------
(* "Connected" is not shown over a dead connection for longer than a       *)
(* callback takes: callbacks of earlier connections may come late and in   *)
(* between, but none of them makes the status right for the wrong reason.  *)
ConnectedIsTrue ==
  status = "connected" =>
    \/ conn = "ready"
    \/ cancelling > 0
    \/ \E i \in DOMAIN main : main[i] \in {"failed", "cancelled"}

(* The app is never at rest without a connection: something it started     *)
(* still has to answer, a connection that waits for the network included,  *)
(* and no late callback makes it give that up.                             *)
NeverAtRestUnconnected ==
  status # "connected" =>
    \/ conn \in {"preparing", "waiting"} \/ results > 0 \/ main # <<>> \/ timers > 0
    \/ status = "searching" /\ browser = "started"

(* Connected, and nothing of an earlier connection is still to come.       *)
Settled ==
  /\ status = "connected" /\ conn = "ready"
  /\ cancelling = 0 /\ timers = 0
  /\ \A i \in DOMAIN main : main[i] \notin {"failed", "cancelled"}

(* Only its own failure or the user ends a connection that has settled: no *)
(* announcement does, and no result a browser of before still forwards.    *)
SettledStays ==
  [][Settled => Settled' \/ ConnectionFails \/ ConnectTo]_vars

(* Shown as connecting for ever, with nothing searching any more: .waiting *)
(* is neither an end nor a start to the handler (ContentView.swift:84).    *)
StuckConnecting == status = "connecting" /\ conn = "waiting" /\ browser # "started"

(* However it was thrown out, the app comes to be connected again, unless  *)
(* its connection is left waiting for ever: nothing else stops it.         *)
ConnectsAgain == []<>(status = "connected") \/ <>[]StuckConnecting

(* ContentView.swift:79, "Auto-reconnect: restart browsing": once the      *)
(* outside leaves it alone, the app gets connected and stays so (or is     *)
(* left waiting).                                                          *)
ReconnectSettles == <>[](status = "connected" \/ conn = "waiting")
=============================================================================
