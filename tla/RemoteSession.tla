---------------------------- MODULE RemoteSession ----------------------------
(***************************************************************************)
(* Clients and a running server together.  A gesture is a press packet and *)
(* the release packet 50 ms later.  The app sends both over UDP            *)
(* (TrackpadView, ArrowKeyView and ShortcutBar with UDPClient), where      *)
(* packets are lost, duplicated and reordered; a browser's WebSocket       *)
(* handler (web_server.py) dispatches the press, sleeps, and dispatches    *)
(* the release, unless the press raised.  Nobody acknowledges or repeats   *)
(* anything: what keeps a key from staying down is that a release follows. *)
(***************************************************************************)
EXTENDS HIDDispatcher, Naturals

CONSTANTS Gesture,     \* the gestures made, each at most once
          Kind,        \* what a gesture can be
          PressOf(_),  \* the packet each kind of gesture presses with
          Socket,      \* the open WebSocket connections
          NoGesture,   \* no gesture
          MaxCopies    \* bound: copies of one packet in the network

VARIABLES kind,        \* the kind of each gesture, "none" until it is made
          timer,       \* gestures whose asyncAfter(50 ms) has yet to fire
          net,         \* copies of each packet in flight
          web,         \* the gesture each socket's handler is busy with
          current,     \* where the packet comes from while dispatch() is half-way
          keyOrphan,   \* history: a key is down and its release will not come
          buttonOrphan \* history: the same for a mouse button

clientVars == <<kind, timer, net, web>>
sessionVars == <<vars, clientVars, current, keyOrphan, buttonOrphan>>

Half == {"press", "release"}
KeyKind == {"arrow", "shortcut"}

(* Mutants: a release in another mode, a release that keeps its flags.     *)
ReleaseInScrollMode(k) == [mode |-> "scroll", flags |-> {}, keycode |-> NoKey]
ReleaseKeepingFlags(k) == [PressOf(k) EXCEPT !.keycode = NoKey]

(* The release is sent in the mode of the press, with no flag and no key.  *)
ReleaseOf(k) == [mode |-> PressOf(k).mode, flags |-> {}, keycode |-> NoKey]

PacketOf(g, half) ==
  IF half = "press" THEN PressOf(kind[g]) ELSE ReleaseOf(kind[g])

Motion == {[mode |-> m, flags |-> {}, keycode |-> NoKey] : m \in {"trackpad", "scroll"}}

(* A click has no key; a key is pressed with no button's bit, be it by an   *)
(* arrow or by the GUI shortcuts, which are trackpad packets.              *)
ASSUME SessionAssumption ==
  /\ Kind = {"click", "arrow", "shortcut"}
  /\ \A k \in Kind : {PressOf(k), ReleaseOf(k)} \subseteq Packets
  /\ Motion \subseteq Packets
  /\ PressOf("click").mode = "trackpad" /\ PressOf("click").keycode = NoKey
  /\ \A k \in KeyKind : /\ PressOf(k).mode \in {"trackpad", "arrow"}
                        /\ PressOf(k).flags \cap ButtonBit = {}
  /\ NoGesture \notin Gesture
  /\ MaxCopies \in Nat \ {0}

FromNet(g, half) == [gesture |-> g, half |-> half, from |-> "net"]
FromWeb(g, half) == [gesture |-> g, half |-> half, from |-> "web"]
FromMotion == [gesture |-> NoGesture, half |-> "release", from |-> "net"]

SessionTypeOK ==
  /\ TypeOK
  /\ kind \in [Gesture -> Kind \cup {"none"}]
  /\ timer \subseteq Gesture
  /\ net \in [Gesture \X Half -> 0..MaxCopies]
  /\ web \in [Socket -> Gesture \cup {NoGesture}]
  /\ current \in [gesture : Gesture \cup {NoGesture}, half : Half, from : {"net", "web"}]
  /\ keyOrphan \in BOOLEAN
  /\ buttonOrphan \in BOOLEAN

SessionInit ==
  /\ Init
  /\ kind = [g \in Gesture |-> "none"]
  /\ timer = {}
  /\ net = [m \in Gesture \X Half |-> 0]
  /\ web = [s \in Socket |-> NoGesture]
  /\ current = FromMotion
  /\ keyOrphan = FALSE
  /\ buttonOrphan = FALSE

KeyHeld == \E b \in Sinks : host[b].key # NoKey
ButtonHeld == \E b \in Sinks : host[b].buttons # {}

(* The release of g is on its way: waited for, in flight or in dispatch(). *)
ReleasePending(g) ==
  \/ g \in timer
  \/ net[<<g, "release">>] > 0
  \/ \E s \in Socket : web[s] = g
  \/ stage = "keyboard" /\ current.gesture = g /\ current.half = "release"

-----------------------------------------------------------------------------
(* History: what one step of dispatch() means for the orphans.  Nothing    *)
(* follows a release whose dispatch raised, a click whose WebSocket handler *)
(* died of the exception, and a press its own release has overtaken.  (A   *)
(* press of a key that raised has pressed nothing.)  An orphan is one only *)
(* while something is held.                                                *)

Failed(c, kinds, half) ==
  /\ stage' = "raised"
  /\ c.half = half
  /\ c.gesture # NoGesture /\ kind'[c.gesture] \in kinds

TooLate(c) == c.half = "press" /\ c.from = "net" /\ ~ReleasePending(c.gesture)

Account(c) ==
  /\ current' = IF stage' = "keyboard" THEN c ELSE FromMotion
  /\ keyOrphan' =
       (KeyHeld' /\ \/ keyOrphan
                    \/ Failed(c, KeyKind, "release")
                    \/ TooLate(c) /\ stage' = "returned" /\ packet'.keycode # NoKey)
  /\ buttonOrphan' =
       (ButtonHeld' /\ \/ buttonOrphan
                       \/ Failed(c, {"click"}, "release")
                       \/ Failed(c, {"click"}, "press") /\ c.from = "web"
                       \/ TooLate(c) /\ stage' = "keyboard" /\ packet'.flags \cap ButtonBit # {})

-----------------------------------------------------------------------------
(* The app.  Gestures on its main queue; timers fire in any order.         *)

MakeGesture(g, k) ==
  /\ kind[g] = "none"
  /\ kind' = [kind EXCEPT ![g] = k]
  /\ net' = [net EXCEPT ![<<g, "press">>] = 1]
  /\ timer' = timer \cup {g}
  /\ UNCHANGED <<vars, web, current, keyOrphan, buttonOrphan>>

ReleaseTimer(g) ==
  /\ g \in timer
  /\ timer' = timer \ {g}
  /\ net' = [net EXCEPT ![<<g, "release">>] = 1]
  /\ UNCHANGED <<vars, kind, web, current, keyOrphan, buttonOrphan>>

(* The app is gone for good between a press and its timer: killed, or      *)
(* suspended and never resumed.                                            *)
AppGone ==
  /\ timer # {}
  /\ timer' = {}
  /\ keyOrphan' = (KeyHeld /\ (keyOrphan \/ \E g \in timer : kind[g] \in KeyKind))
  /\ buttonOrphan' = (ButtonHeld /\ (buttonOrphan \/ \E g \in timer : kind[g] = "click"))
  /\ UNCHANGED <<vars, kind, net, web, current>>

(* The network: UDP, no retransmission.  Bound: MaxCopies of a packet, and *)
(* one packet in several copies at a time.                                 *)
Lose(g, half) ==
  /\ net[<<g, half>>] > 0
  /\ net' = [net EXCEPT ![<<g, half>>] = @ - 1]
  /\ LET last == half = "release" /\ net[<<g, half>>] = 1
     IN  /\ keyOrphan' = (KeyHeld /\ (keyOrphan \/ (last /\ kind[g] \in KeyKind)))
         /\ buttonOrphan' = (ButtonHeld /\ (buttonOrphan \/ (last /\ kind[g] = "click")))
  /\ UNCHANGED <<vars, kind, timer, web, current>>

Duplicate(g, half) ==
  /\ net[<<g, half>>] \in 1..(MaxCopies - 1)
  /\ \A m \in Gesture \X Half : m # <<g, half>> => net[m] <= 1
  /\ net' = [net EXCEPT ![<<g, half>>] = @ + 1]
  /\ UNCHANGED <<vars, kind, timer, web, current, keyOrphan, buttonOrphan>>

-----------------------------------------------------------------------------
(* The server: datagram_received, and the WebSocket handlers.              *)

Deliver(g, half) ==
  /\ net[<<g, half>>] > 0
  /\ Dispatch(PacketOf(g, half))
  /\ net' = [net EXCEPT ![<<g, half>>] = @ - 1]
  /\ UNCHANGED <<kind, timer, web>>
  /\ Account(FromNet(g, half))

(* Moves and scrolls, from either client, at any time.                     *)
DeliverMotion(p) ==
  /\ Dispatch(p)
  /\ UNCHANGED clientVars
  /\ Account(FromMotion)

(* Mutant: the handler returns after the press.                            *)
WebPressOnly(s, g, k) ==
  /\ web[s] = NoGesture
  /\ kind[g] = "none"
  /\ Dispatch(PressOf(k))
  /\ kind' = [kind EXCEPT ![g] = k]
  /\ UNCHANGED <<timer, net, web>>
  /\ Account(FromWeb(g, "press"))

WebPress(s, g, k) ==
  /\ web[s] = NoGesture
  /\ kind[g] = "none"
  /\ Dispatch(PressOf(k))
  /\ kind' = [kind EXCEPT ![g] = k]
  /\ web' = [web EXCEPT ![s] = IF stage' = "raised" THEN NoGesture ELSE g]
  /\ UNCHANGED <<timer, net>>
  /\ Account(FromWeb(g, "press"))

(* The sleep is over.                                                      *)
WebRelease(s) ==
  /\ web[s] # NoGesture
  /\ Dispatch(ReleaseOf(kind[web[s]]))
  /\ web' = [web EXCEPT ![s] = NoGesture]
  /\ UNCHANGED <<kind, timer, net>>
  /\ Account(FromWeb(web[s], "release"))

(* The second half of a trackpad packet; a handler it raises in is over.   *)
FinishDispatch ==
  /\ TrackpadKeys
  /\ web' = [s \in Socket |->
               IF stage' = "raised" /\ current.from = "web" /\ web[s] = current.gesture
               THEN NoGesture ELSE web[s]]
  /\ UNCHANGED <<kind, timer, net>>
  /\ Account(current)

SessionLinks ==
  /\ Links
  /\ keyOrphan' = (KeyHeld' /\ keyOrphan)
  /\ buttonOrphan' = (ButtonHeld' /\ buttonOrphan)
  /\ UNCHANGED <<clientVars, current>>

SessionNext ==
  \/ \E g \in Gesture :
       \/ \E k \in Kind :
            \/ MakeGesture(g, k)
            \/ \E s \in Socket : WebPress(s, g, k)
       \/ ReleaseTimer(g)
       \/ \E half \in Half : Lose(g, half) \/ Duplicate(g, half) \/ Deliver(g, half)
  \/ \E p \in Motion : DeliverMotion(p)
  \/ \E s \in Socket : WebRelease(s)
  \/ AppGone
  \/ FinishDispatch
  \/ SessionLinks

(* Timers fire and sleeps end; the event loop finishes what it dispatches; *)
(* a packet the network keeps is delivered.  Nobody promises a gesture, a  *)
(* move, a link change or a loss.                                          *)
SessionFairness ==
  /\ WF_sessionVars(FinishDispatch)
  /\ \A g \in Gesture :
       /\ WF_sessionVars(ReleaseTimer(g))
       /\ SF_sessionVars(Deliver(g, "release"))
  /\ \A s \in Socket : SF_sessionVars(WebRelease(s))

SessionSpec == SessionInit /\ [][SessionNext]_sessionVars

FairSessionSpec == SessionSpec /\ SessionFairness

-----------------------------------------------------------------------------
(* No key stays down by itself: as long as any host holds a key, the       *)
(* release of some key gesture is still to come, unless the last one was   *)
(* lost, overtook its press, or could not be written.  In particular no    *)
(* mixture of two clients, of modes and of links coming and going makes    *)
(* the dispatcher swallow a release.                                       *)
KeyHeldUntilReleased ==
  KeyHeld => \/ keyOrphan
             \/ \E g \in Gesture : kind[g] \in KeyKind /\ ReleasePending(g)

(* The same for mouse buttons, which any packet but an arrow clears.       *)
ButtonHeldUntilReleased ==
  ButtonHeld => \/ buttonOrphan
                \/ \E g \in Gesture : kind[g] = "click" /\ ReleasePending(g)

(* What is down comes up: timers fire, sleeps end, and every release that  *)
(* is not lost reaches the hosts.                                          *)
KeyComesUp == (KeyHeld /\ ~keyOrphan) ~> (~KeyHeld \/ keyOrphan)

ButtonComesUp == (ButtonHeld /\ ~buttonOrphan) ~> (~ButtonHeld \/ buttonOrphan)
=============================================================================
