------------------------- MODULE RemoteSession_proof -------------------------
(***************************************************************************)
(* Proofs about RemoteSession for every set of gestures and sockets, every *)
(* packet a gesture may press with and any number of copies in flight.     *)
(* A session only dispatches what may arrive, so all that HIDDispatcher's  *)
(* proofs say of the server holds here too.                                *)
(***************************************************************************)
EXTENDS RemoteSession, HIDDispatcher_proof

Origin == [gesture : Gesture \cup {NoGesture}, half : Half, from : {"net", "web"}]

(* A release is still to be dispatched.                                    *)
Waiting(g) == g \in timer \/ net[<<g, "release">>] > 0 \/ \E s \in Socket : web[s] = g

(* Whatever is waited for, in flight or half-way belongs to a gesture made. *)
GesturesKnown ==
  \A g \in Gesture : Waiting(g) \/ net[<<g, "press">>] > 0 => kind[g] \in Kind

(* What is known of the packet between its mouse and its keyboard report.  *)
HalfWay ==
  stage = "keyboard" =>
    /\ packet.mode = "trackpad"
    /\ packet.flags \cap ButtonBit = {} => ~ButtonHeld
    /\ \/ current = FromMotion /\ packet.keycode = NoKey /\ packet.flags = {}
       \/ /\ current.gesture \in Gesture /\ kind[current.gesture] \in Kind
          /\ packet = PacketOf(current.gesture, current.half)
          /\ current.half = "press" /\ current.from = "web" =>
               \E s \in Socket : web[s] = current.gesture

(* The browser's press of g has moved the mouse and not yet pressed a key.  *)
Pressing(g) ==
  /\ stage = "keyboard"
  /\ current.gesture = g /\ current.half = "press" /\ current.from = "web"

(* A held key or button is in the care of a gesture.  For a key it is one  *)
(* whose press is not half-way: the WebSocket handler of such a press may  *)
(* still die of its keyboard report and take its release with it.          *)
Held ==
  /\ KeyHeld /\ ~keyOrphan =>
       \E g \in Gesture : kind[g] \in KeyKind /\ ReleasePending(g) /\ ~Pressing(g)
  /\ ButtonHeld /\ ~buttonOrphan =>
       \E g \in Gesture : kind[g] = "click" /\ ReleasePending(g)

SInv ==
  /\ SessionTypeOK
  /\ IInv
  /\ GesturesKnown
  /\ HalfWay
  /\ Held

(* What makes an orphan of what is held when dispatch() of c raised.       *)
KeyFailed(c) == Failed(c, KeyKind, "release")
ButtonFailed(c) ==
  Failed(c, {"click"}, "release") \/ (Failed(c, {"click"}, "press") /\ c.from = "web")

-----------------------------------------------------------------------------
(* Packets of gestures and of motion.                                      *)

LEMMA GesturePackets ==
  ASSUME NEW g \in Gesture, NEW half \in Half, kind[g] \in Kind
  PROVE  /\ PacketOf(g, half) \in Packets /\ PacketOf(g, half) \in Packet
         /\ PacketOf(g, half).mode \in {"trackpad", "arrow"}
         /\ kind[g] = "click" => PacketOf(g, half).mode = "trackpad"
         /\ half = "release" => /\ PacketOf(g, half).keycode = NoKey
                                /\ PacketOf(g, half).flags = {}
         /\ PacketOf(g, half).keycode # NoKey => kind[g] \in KeyKind
         /\ PacketOf(g, half).flags \cap ButtonBit # {} => kind[g] = "click"
  <1>1. PICK k \in Kind : k = kind[g]
    OBVIOUS
  <1>2. PressOf(k) \in Packets /\ ReleaseOf(k) \in Packets
    BY SessionAssumption
  <1>3. PressOf(k) \in Packet /\ ReleaseOf(k) \in Packet
    BY <1>2, DispatcherAssumption
  <1>4. /\ PressOf(k).mode \in {"trackpad", "arrow"}
        /\ k = "click" => PressOf(k).mode = "trackpad" /\ PressOf(k).keycode = NoKey
        /\ k # "click" => k \in KeyKind /\ PressOf(k).flags \cap ButtonBit = {}
    BY SessionAssumption DEF KeyKind
  <1>5. /\ ReleaseOf(k).mode = PressOf(k).mode /\ ReleaseOf(k).keycode = NoKey
        /\ ReleaseOf(k).flags = {}
    BY DEF ReleaseOf
  <1>6. PacketOf(g, half) = IF half = "press" THEN PressOf(k) ELSE ReleaseOf(k)
    BY <1>1 DEF PacketOf
  <1>7. CASE half = "press"
    BY <1>1, <1>2, <1>3, <1>4, <1>6, <1>7
  <1>8. CASE half = "release"
    BY <1>1, <1>2, <1>3, <1>4, <1>5, <1>6, <1>8
  <1> QED
    BY <1>7, <1>8 DEF Half

LEMMA MotionPackets ==
  ASSUME NEW p \in Motion
  PROVE  /\ p \in Packets /\ p \in Packet
         /\ p.keycode = NoKey /\ p.flags = {} /\ p.mode \in {"trackpad", "scroll"}
  BY SessionAssumption, DispatcherAssumption DEF Motion

LEMMA Origins ==
  /\ FromMotion \in Origin /\ FromMotion.half = "release" /\ FromMotion.gesture = NoGesture
  /\ \A g \in Gesture, half \in Half :
       /\ FromNet(g, half) \in Origin /\ FromWeb(g, half) \in Origin
       /\ FromNet(g, half).gesture = g /\ FromWeb(g, half).gesture = g
       /\ FromNet(g, half).half = half /\ FromWeb(g, half).half = half
       /\ FromNet(g, half).from = "net" /\ FromWeb(g, half).from = "web"
  BY DEF FromMotion, FromNet, FromWeb, Origin, Half

LEMMA NetUpdate ==
  ASSUME NEW n \in [Gesture \X Half -> 0..MaxCopies], NEW g \in Gesture, NEW half \in Half,
         NEW v \in 0..MaxCopies
  PROVE  /\ [n EXCEPT ![<<g, half>>] = v] \in [Gesture \X Half -> 0..MaxCopies]
         /\ [n EXCEPT ![<<g, half>>] = v][<<g, half>>] = v
         /\ \A h \in Gesture, k \in Half :
              h # g \/ k # half => [n EXCEPT ![<<g, half>>] = v][<<h, k>>] = n[<<h, k>>]
  OBVIOUS

-----------------------------------------------------------------------------
(* A session's steps are steps of the server.                              *)

LEMMA DeliveredKnown ==
  ASSUME SessionTypeOK, GesturesKnown, NEW g \in Gesture, NEW half \in Half,
         net[<<g, half>>] > 0
  PROVE  kind[g] \in Kind
  BY DEF GesturesKnown, Waiting, Half

LEMMA AwaitedKnown ==
  ASSUME SessionTypeOK, GesturesKnown, NEW s \in Socket, web[s] # NoGesture
  PROVE  web[s] \in Gesture /\ kind[web[s]] \in Kind
         /\ ReleaseOf(kind[web[s]]) = PacketOf(web[s], "release")
  <1>1. web[s] \in Gesture
    BY DEF SessionTypeOK
  <1> QED
    BY <1>1 DEF GesturesKnown, Waiting, PacketOf

LEMMA PressPackets ==
  ASSUME NEW k \in Kind
  PROVE  /\ PressOf(k) \in Packets /\ PressOf(k) \in Packet
         /\ PressOf(k).mode \in {"trackpad", "arrow"}
         /\ PressOf(k).keycode # NoKey => k \in KeyKind
         /\ PressOf(k).flags \cap ButtonBit # {} => k = "click"
  BY SessionAssumption, DispatcherAssumption DEF KeyKind

LEMMA SessionInNext ==
  SessionTypeOK /\ GesturesKnown /\ [SessionNext]_sessionVars => [Next]_vars
  <1> SUFFICES ASSUME SessionTypeOK, GesturesKnown, SessionNext PROVE [Next]_vars
    BY DEF sessionVars
  <1>1. ASSUME NEW p \in Packets, Dispatch(p) PROVE Next
    BY <1>1 DEF Next
  <1>2. ASSUME NEW g \in Gesture
        PROVE  /\ \A k \in Kind : MakeGesture(g, k) => UNCHANGED vars
               /\ \A k \in Kind, s \in Socket : WebPress(s, g, k) => Next
               /\ ReleaseTimer(g) => UNCHANGED vars
               /\ \A half \in Half : /\ Lose(g, half) \/ Duplicate(g, half) => UNCHANGED vars
                                     /\ Deliver(g, half) => Next
    <2>1. \A k \in Kind, s \in Socket : WebPress(s, g, k) => Next
      BY <1>1, PressPackets DEF WebPress
    <2>2. \A half \in Half : Deliver(g, half) => Next
      BY <1>1, <1>2, DeliveredKnown, GesturePackets DEF Deliver
    <2> QED
      BY <2>1, <2>2 DEF MakeGesture, ReleaseTimer, Lose, Duplicate
  <1>3. \A p \in Motion : DeliverMotion(p) => Next
    BY <1>1, MotionPackets DEF DeliverMotion
  <1>4. ASSUME NEW s \in Socket, WebRelease(s) PROVE Next
    <2>1. ReleaseOf(kind[web[s]]) \in Packets
      BY <1>4, AwaitedKnown, GesturePackets DEF WebRelease, Half
    <2> QED
      BY <1>1, <1>4, <2>1 DEF WebRelease
  <1>5. /\ AppGone => UNCHANGED vars
        /\ FinishDispatch => Next
        /\ SessionLinks => Next
    BY DEF AppGone, FinishDispatch, SessionLinks, Next
  <1> QED
    BY <1>2, <1>3, <1>4, <1>5 DEF SessionNext

-----------------------------------------------------------------------------
(* Type correctness.                                                       *)

LEMMA AccountTypes ==
  ASSUME SessionTypeOK, NEW c \in Origin, Account(c)
  PROVE  current' \in Origin /\ keyOrphan' \in BOOLEAN /\ buttonOrphan' \in BOOLEAN
  <1>1. current' \in Origin
    BY Origins DEF Account
  <1>3. keyOrphan' \in BOOLEAN
    BY Zenon DEF Account, KeyHeld
  <1>4. buttonOrphan' \in BOOLEAN
    BY Zenon DEF Account, ButtonHeld
  <1> QED
    BY <1>1, <1>3, <1>4

ClientTypes ==
  /\ kind \in [Gesture -> Kind \cup {"none"}]
  /\ timer \subseteq Gesture
  /\ net \in [Gesture \X Half -> 0..MaxCopies]
  /\ web \in [Socket -> Gesture \cup {NoGesture}]

HistoryTypes ==
  current \in Origin /\ keyOrphan \in BOOLEAN /\ buttonOrphan \in BOOLEAN

LEMMA SessionTypes == SessionTypeOK <=> TypeOK /\ ClientTypes /\ HistoryTypes
  BY DEF SessionTypeOK, ClientTypes, HistoryTypes, Origin

LEMMA SessionTypesNext == (SessionTypeOK <=> TypeOK /\ ClientTypes /\ HistoryTypes)'
  BY SessionTypes, PTL

LEMMA SessionTypeStep ==
  SessionTypeOK /\ GesturesKnown /\ [SessionNext]_sessionVars => SessionTypeOK'
  <1> SUFFICES ASSUME SessionTypeOK, GesturesKnown, [SessionNext]_sessionVars
               PROVE  SessionTypeOK'
    OBVIOUS
  <1>t. TypeOK /\ ClientTypes /\ HistoryTypes
    BY SessionTypes
  <1>n. TypeOK'
    BY <1>t, SessionInNext, TypeStep DEF CrashNext
  <1>s. SUFFICES ClientTypes' /\ HistoryTypes'
    BY <1>n, SessionTypesNext
  <1>m. 1 \in 0..MaxCopies
    BY SessionAssumption
  <1>1. ASSUME NEW g \in Gesture, NEW k \in Kind, MakeGesture(g, k)
        PROVE  ClientTypes' /\ HistoryTypes'
    <2>1. net' \in [Gesture \X Half -> 0..MaxCopies]
      BY <1>1, <1>t, <1>m DEF MakeGesture, ClientTypes, Half
    <2> QED
      BY <1>1, <1>t, <2>1 DEF MakeGesture, ClientTypes, HistoryTypes
  <1>2. ASSUME NEW g \in Gesture, ReleaseTimer(g) PROVE ClientTypes' /\ HistoryTypes'
    <2>1. net' \in [Gesture \X Half -> 0..MaxCopies]
      BY <1>2, <1>t, <1>m DEF ReleaseTimer, ClientTypes, Half
    <2> QED
      BY <1>2, <1>t, <2>1 DEF ReleaseTimer, ClientTypes, HistoryTypes
  <1>3. ASSUME NEW g \in Gesture, NEW half \in Half, Lose(g, half)
        PROVE  ClientTypes' /\ HistoryTypes'
    <2>1. net[<<g, half>>] - 1 \in 0..MaxCopies
      BY <1>3, <1>t, SessionAssumption DEF Lose, ClientTypes
    <2>2. net' \in [Gesture \X Half -> 0..MaxCopies]
      BY <1>3, <1>t, <2>1 DEF Lose, ClientTypes
    <2>3. keyOrphan' \in BOOLEAN /\ buttonOrphan' \in BOOLEAN
      BY <1>3, <1>t, Zenon DEF Lose, HistoryTypes, KeyHeld, ButtonHeld
    <2> QED
      BY <1>3, <1>t, <2>2, <2>3 DEF Lose, ClientTypes, HistoryTypes
  <1>4. ASSUME NEW g \in Gesture, NEW half \in Half, Duplicate(g, half)
        PROVE  ClientTypes' /\ HistoryTypes'
    <2>1. net[<<g, half>>] + 1 \in 0..MaxCopies
      BY <1>4, <1>t, SessionAssumption DEF Duplicate, ClientTypes
    <2>2. net' \in [Gesture \X Half -> 0..MaxCopies]
      BY <1>4, <1>t, <2>1 DEF Duplicate, ClientTypes
    <2> QED
      BY <1>4, <1>t, <2>2 DEF Duplicate, ClientTypes, HistoryTypes
  <1>5. ASSUME NEW g \in Gesture, NEW half \in Half, Deliver(g, half)
        PROVE  ClientTypes' /\ HistoryTypes'
    <2>1. net[<<g, half>>] - 1 \in 0..MaxCopies
      BY <1>5, <1>t, SessionAssumption DEF Deliver, ClientTypes
    <2>2. net' \in [Gesture \X Half -> 0..MaxCopies]
      BY <1>5, <1>t, <2>1 DEF Deliver, ClientTypes
    <2>3. HistoryTypes'
      BY <1>5, Origins, AccountTypes DEF Deliver, HistoryTypes
    <2> QED
      BY <1>5, <1>t, <2>2, <2>3 DEF Deliver, ClientTypes
  <1>6. ASSUME NEW p \in Motion, DeliverMotion(p) PROVE ClientTypes' /\ HistoryTypes'
    BY <1>6, <1>t, Origins, AccountTypes
       DEF DeliverMotion, clientVars, ClientTypes, HistoryTypes
  <1>7. ASSUME NEW s \in Socket, NEW g \in Gesture, NEW k \in Kind, WebPress(s, g, k)
        PROVE  ClientTypes' /\ HistoryTypes'
    <2>1. HistoryTypes'
      BY <1>7, Origins, AccountTypes DEF WebPress, HistoryTypes, Half
    <2> QED
      BY <1>7, <1>t, <2>1 DEF WebPress, ClientTypes
  <1>8. ASSUME NEW s \in Socket, WebRelease(s) PROVE ClientTypes' /\ HistoryTypes'
    <2>1. PICK g \in Gesture : g = web[s]
      BY <1>8, AwaitedKnown DEF WebRelease
    <2>2. HistoryTypes'
      BY <1>8, <2>1, Origins, AccountTypes DEF WebRelease, HistoryTypes, Half
    <2> QED
      BY <1>8, <1>t, <2>2 DEF WebRelease, ClientTypes
  <1>9. CASE AppGone
    <2>1. keyOrphan' \in BOOLEAN /\ buttonOrphan' \in BOOLEAN
      BY <1>9, <1>t, Zenon DEF AppGone, HistoryTypes, KeyHeld, ButtonHeld
    <2> QED
      BY <1>9, <1>t, <2>1 DEF AppGone, ClientTypes, HistoryTypes
  <1>10. CASE FinishDispatch
    <2>1. PICK c \in Origin : c = current
      BY <1>t DEF HistoryTypes
    <2>2. HistoryTypes'
      BY <1>10, <2>1, AccountTypes DEF FinishDispatch, HistoryTypes
    <2> QED
      BY <1>10, <1>t, <2>2 DEF FinishDispatch, ClientTypes
  <1>11. CASE SessionLinks
    <2>1. keyOrphan' \in BOOLEAN /\ buttonOrphan' \in BOOLEAN
      BY <1>11, Zenon DEF SessionLinks, KeyHeld, ButtonHeld
    <2> QED
      BY <1>11, <1>t, <2>1 DEF SessionLinks, clientVars, ClientTypes, HistoryTypes
  <1>12. CASE UNCHANGED sessionVars
    BY <1>12, <1>t DEF sessionVars, clientVars, ClientTypes, HistoryTypes
  <1> QED
    BY <1>1, <1>2, <1>3, <1>4, <1>5, <1>6, <1>7, <1>8, <1>9, <1>10, <1>11, <1>12
       DEF SessionNext

-----------------------------------------------------------------------------
(* What a step of dispatch() does to what the hosts hold.                  *)

LEMMA DispatchEffects ==
  ASSUME IInv, IInv', NEW p \in Packet, Dispatch(p)
  PROVE  /\ Idle /\ packet' = p
         /\ stage' \in {"returned", "raised", "keyboard"}
         /\ stage' = "keyboard" => p.mode = "trackpad"
         /\ p.mode = "trackpad" => stage' # "returned"
         /\ stage' # "returned" \/ p.mode = "scroll" => (KeyHeld' <=> KeyHeld)
         /\ stage' = "returned" /\ p.mode # "scroll" /\ p.keycode = NoKey => ~KeyHeld'
         /\ stage' = "raised" \/ p.mode = "arrow" => (ButtonHeld' <=> ButtonHeld)
         /\ stage' # "raised" /\ p.mode = "scroll" => ~ButtonHeld'
         /\ stage' # "raised" /\ p.mode = "trackpad" /\ p.flags \cap ButtonBit = {}
              => ~ButtonHeld'
  <1>0. /\ TypeOK /\ DownReleased /\ Idle /\ proc' = "running" /\ packet' = p
        /\ link' = link
        /\ p.flags \in SUBSET FlagBit /\ p.keycode \in Keycode \cup {NoKey}
    BY DEF IInv, Dispatch, Packet
  <1>1. ASSUME NEW flags \in SUBSET FlagBit, FanoutMouse(flags)
        PROVE  /\ KeyHeld' <=> KeyHeld
               /\ FanoutRaises => (ButtonHeld' <=> ButtonHeld)
               /\ ~FanoutRaises /\ flags \cap ButtonBit = {} => ~ButtonHeld'
    <2>1. \A b \in Sinks :
            /\ host'[b].key = host[b].key
            /\ (~FanoutRaises /\ link[b]) => host'[b].buttons = flags \cap ButtonBit
            /\ (FanoutRaises \/ ~link[b]) => host'[b] = host[b]
      BY <1>0, <1>1, MouseFanout
    <2>2. \A b \in Sinks : ~link[b] => host[b].buttons = {}
      BY <1>0, ReleasedType DEF DownReleased
    <2> QED
      BY <2>1, <2>2 DEF KeyHeld, ButtonHeld
  <1>2. CASE HandleScroll(p)
    BY <1>0, <1>1, <1>2 DEF HandleScroll, Outcome
  <1>3. CASE HandleTrackpad(p)
    BY <1>0, <1>1, <1>3 DEF HandleTrackpad
  <1>4. CASE HandleArrow(p)
    <2>1. p.mode = "arrow" /\ stage' \in {"returned", "raised"}
      BY <1>0, <1>4, KeyboardPartTypes DEF HandleArrow
    <2>2. ASSUME NEW flags \in SUBSET FlagBit, NEW key \in Keycode \cup {NoKey},
                 FanoutKeyboard(flags, key)
          PROVE  /\ ButtonHeld' <=> ButtonHeld
                 /\ FanoutRaises => (KeyHeld' <=> KeyHeld)
      <3>1. \A b \in Sinks :
              /\ (~FanoutRaises /\ link[b]) => host'[b].buttons = host[b].buttons
              /\ (FanoutRaises \/ ~link[b]) => host'[b] = host[b]
        BY <1>0, <2>2, KeyboardFanout
      <3> QED
        BY <3>1 DEF KeyHeld, ButtonHeld
    <2>3. ButtonHeld' <=> ButtonHeld
      BY <1>0, <1>4, <2>2
         DEF HandleArrow, KeyboardPart, PressKey, ReleaseKey, NoKeyToRelease, ButtonHeld
    <2>4. stage' = "raised" => (KeyHeld' <=> KeyHeld)
      BY <1>0, <1>4, <2>2
         DEF HandleArrow, KeyboardPart, PressKey, ReleaseKey, NoKeyToRelease, Outcome
    <2>5. stage' = "returned" /\ p.keycode = NoKey => ~KeyHeld'
      BY <1>0, <2>1 DEF IInv, ReleaseClearsHosts, KeyHeld, Keyless
    <2> QED
      BY <1>0, <2>1, <2>3, <2>4, <2>5
  <1> QED
    BY <1>2, <1>3, <1>4 DEF Dispatch

LEMMA FinishEffects ==
  ASSUME IInv, IInv', TrackpadKeys, packet.mode = "trackpad"
  PROVE  /\ packet' = packet
         /\ stage' \in {"returned", "raised"}
         /\ stage' = "raised" => (KeyHeld' <=> KeyHeld)
         /\ stage' = "returned" /\ packet.keycode = NoKey => ~KeyHeld'
         /\ ButtonHeld' <=> ButtonHeld
  <1>0. /\ TypeOK /\ DownReleased /\ proc' = "running" /\ packet' = packet
        /\ packet \in Packet /\ KeyboardPart(packet)
        /\ packet.flags \in SUBSET FlagBit /\ packet.keycode \in Keycode \cup {NoKey}
    BY DEF IInv, TrackpadKeys, TypeOK, Packet
  <1>1. stage' \in {"returned", "raised"}
    BY <1>0, KeyboardPartTypes
  <1>2. ASSUME NEW flags \in SUBSET FlagBit, NEW key \in Keycode \cup {NoKey},
               FanoutKeyboard(flags, key)
        PROVE  /\ ButtonHeld' <=> ButtonHeld
               /\ FanoutRaises => (KeyHeld' <=> KeyHeld)
    <2>1. \A b \in Sinks :
            /\ (~FanoutRaises /\ link[b]) => host'[b].buttons = host[b].buttons
            /\ (FanoutRaises \/ ~link[b]) => host'[b] = host[b]
      BY <1>0, <1>2, KeyboardFanout
    <2> QED
      BY <2>1 DEF KeyHeld, ButtonHeld
  <1>3. ButtonHeld' <=> ButtonHeld
    BY <1>0, <1>2 DEF KeyboardPart, PressKey, ReleaseKey, NoKeyToRelease, ButtonHeld
  <1>4. stage' = "raised" => (KeyHeld' <=> KeyHeld)
    BY <1>0, <1>2 DEF KeyboardPart, PressKey, ReleaseKey, NoKeyToRelease, Outcome
  <1>5. stage' = "returned" /\ packet.keycode = NoKey => ~KeyHeld'
    BY <1>0 DEF IInv, ReleaseClearsHosts, KeyHeld, Keyless
  <1> QED
    BY <1>0, <1>1, <1>3, <1>4, <1>5

(* A key or a button that is held, and no orphan, after dispatch(p): this  *)
(* packet pressed it in time, or it was held before and stays in the care  *)
(* of whom it was.                                                         *)
LEMMA HeldAfterDispatch ==
  ASSUME IInv, IInv', NEW p \in Packet, Dispatch(p), NEW c \in Origin, Account(c)
  PROVE  /\ KeyHeld' /\ ~keyOrphan' =>
              \/ p.keycode # NoKey /\ ~TooLate(c) /\ stage' = "returned"
              \/ /\ KeyHeld /\ ~keyOrphan /\ ~KeyFailed(c)
                 /\ stage' # "returned" \/ p.mode = "scroll"
         /\ ButtonHeld' /\ ~buttonOrphan' =>
              \/ p.flags \cap ButtonBit # {} /\ ~TooLate(c) /\ stage' = "keyboard"
              \/ /\ ButtonHeld /\ ~buttonOrphan /\ ~ButtonFailed(c)
                 /\ stage' = "raised" \/ p.mode = "arrow"
  <1>1. ASSUME KeyHeld', ~keyOrphan'
        PROVE  \/ p.keycode # NoKey /\ ~TooLate(c) /\ stage' = "returned"
               \/ /\ KeyHeld /\ ~keyOrphan /\ ~KeyFailed(c)
                  /\ stage' # "returned" \/ p.mode = "scroll"
    BY <1>1, DispatchEffects DEF Account, KeyFailed
  <1>2. ASSUME ButtonHeld', ~buttonOrphan'
        PROVE  \/ p.flags \cap ButtonBit # {} /\ ~TooLate(c) /\ stage' = "keyboard"
               \/ /\ ButtonHeld /\ ~buttonOrphan /\ ~ButtonFailed(c)
                  /\ stage' = "raised" \/ p.mode = "arrow"
    <2>1. p.mode \in {"trackpad", "scroll", "arrow"}
      BY DEF Packet, Mode
    <2> QED
      BY <1>2, <2>1, DispatchEffects DEF Account, ButtonFailed
  <1> QED
    BY <1>1, <1>2

-----------------------------------------------------------------------------
(* The inductive step.                                                     *)

LEMMA HeldSuffices == Held => KeyHeldUntilReleased /\ ButtonHeldUntilReleased
  BY DEF Held, KeyHeldUntilReleased, ButtonHeldUntilReleased

LEMMA PendingWhenIdle ==
  ASSUME Idle, NEW g PROVE ReleasePending(g) <=> Waiting(g)
  BY DEF Idle, ReleasePending, Waiting

LEMMA WaitingPends ==
  ASSUME NEW g PROVE (Waiting(g) => ReleasePending(g)) /\ (Waiting(g) => ReleasePending(g))'
  BY DEF Waiting, ReleasePending

Inductive == GesturesKnown /\ HalfWay /\ Held

LEMMA DeliverStep ==
  ASSUME SInv, IInv', NEW g \in Gesture, NEW half \in Half, Deliver(g, half)
  PROVE  Inductive'
  <1>0. SessionTypeOK /\ ClientTypes /\ IInv /\ GesturesKnown /\ Held
    BY SessionTypes DEF SInv
  <1>1. kind[g] \in Kind
    BY <1>0, DeliveredKnown DEF Deliver
  <1>5. PICK p \in Packet : p = PacketOf(g, half)
    BY <1>1, GesturePackets
  <1>6. PICK c \in Origin : c = FromNet(g, half)
    BY Origins
  <1>2. /\ Dispatch(p) /\ Account(c) /\ UNCHANGED <<kind, timer, web>>
        /\ \A h \in Gesture, k \in Half : h # g \/ k # half => net'[<<h, k>>] = net[<<h, k>>]
        /\ \A h \in Gesture, k \in Half : net'[<<h, k>>] > 0 => net[<<h, k>>] > 0
    <2>1. \A h \in Gesture, k \in Half : net[<<h, k>>] \in Nat
      BY <1>0, SessionAssumption DEF ClientTypes
    <2> QED
      BY <1>0, <1>5, <1>6, <2>1 DEF Deliver, ClientTypes
  <1>3. /\ p.mode \in {"trackpad", "arrow"}
        /\ kind[g] = "click" => p.mode = "trackpad"
        /\ half = "release" => p.keycode = NoKey /\ p.flags = {}
        /\ p.keycode # NoKey => kind[g] \in KeyKind
        /\ p.flags \cap ButtonBit # {} => kind[g] = "click"
    BY <1>1, <1>5, GesturePackets
  <1>4. /\ c.gesture = g /\ c.half = half /\ c.from = "net"
    BY <1>6, Origins
  <1>7. /\ Idle /\ packet' = p
        /\ stage' \in {"returned", "raised", "keyboard"}
        /\ stage' = "keyboard" => p.mode = "trackpad"
        /\ stage' # "raised" /\ p.mode = "trackpad" /\ p.flags \cap ButtonBit = {}
             => ~ButtonHeld'
    BY <1>0, <1>2, DispatchEffects
  <1>8. GesturesKnown'
    BY <1>0, <1>2 DEF GesturesKnown, Waiting, Half
  <1>9. stage' = "keyboard" => current' = c
    BY <1>2 DEF Account
  <1>10. HalfWay'
    <2>1. PacketOf(g, half)' = p /\ kind'[g] \in Kind
      BY <1>1, <1>2, <1>5 DEF PacketOf
    <2>2. stage' = "keyboard" => packet' = PacketOf(current.gesture, current.half)'
      BY <2>1, <1>4, <1>7, <1>9 DEF PacketOf
    <2> QED
      BY <1>4, <1>7, <1>9, <2>1, <2>2 DEF HalfWay
  <1>11. \A h \in Gesture : h # g \/ half = "press" => (Waiting(h) => Waiting(h)')
    BY <1>2 DEF Waiting, Half
  <1>12. \A h \in Gesture : ReleasePending(h) <=> Waiting(h)
    BY <1>7, PendingWhenIdle
  <1>13. half = "release" /\ stage' = "keyboard" => ReleasePending(g)'
    BY <1>4, <1>9 DEF ReleasePending
  <1>14. TooLate(c) <=> half = "press" /\ ~Waiting(g)
    BY <1>4, <1>12 DEF TooLate
  <1>15. /\ KeyFailed(c) <=> stage' = "raised" /\ half = "release" /\ kind[g] \in KeyKind
         /\ ButtonFailed(c) <=> stage' = "raised" /\ half = "release" /\ kind[g] = "click"
    BY <1>2, <1>4, SessionAssumption DEF KeyFailed, ButtonFailed, Failed
  <1>p. \A h \in Gesture : ~Pressing(h)'
    BY <1>4, <1>9 DEF Pressing
  <1>16. /\ KeyHeld' /\ ~keyOrphan' =>
              \/ p.keycode # NoKey /\ ~TooLate(c) /\ stage' = "returned"
              \/ /\ KeyHeld /\ ~keyOrphan /\ ~KeyFailed(c)
                 /\ stage' # "returned" \/ p.mode = "scroll"
         /\ ButtonHeld' /\ ~buttonOrphan' =>
              \/ p.flags \cap ButtonBit # {} /\ ~TooLate(c) /\ stage' = "keyboard"
              \/ /\ ButtonHeld /\ ~buttonOrphan /\ ~ButtonFailed(c)
                 /\ stage' = "raised" \/ p.mode = "arrow"
    BY <1>0, <1>2, HeldAfterDispatch
  <1>17. ASSUME KeyHeld', ~keyOrphan'
         PROVE  \E h \in Gesture : kind'[h] \in KeyKind /\ ReleasePending(h)' /\ ~Pressing(h)'
    <2>1. CASE p.keycode # NoKey /\ ~TooLate(c)
      <3>1. half = "press" /\ kind[g] \in KeyKind /\ Waiting(g)
        BY <2>1, <1>3, <1>14 DEF Half
      <3> QED
        BY <3>1, <1>2, <1>11, <1>p, WaitingPends
    <2>2. CASE KeyHeld /\ ~keyOrphan /\ ~KeyFailed(c) /\ stage' # "returned"
      <3>1. PICK h \in Gesture : kind[h] \in KeyKind /\ Waiting(h)
        BY <1>0, <1>12, <2>2 DEF Held
      <3>2. CASE h # g \/ half = "press"
        BY <3>1, <3>2, <1>2, <1>11, <1>p, WaitingPends
      <3>3. CASE h = g /\ half = "release"
        BY <3>1, <3>3, <2>2, <1>2, <1>7, <1>13, <1>15, <1>p
      <3> QED
        BY <3>2, <3>3 DEF Half
    <2> QED
      BY <1>3, <1>16, <1>17, <2>1, <2>2
  <1>18. ASSUME ButtonHeld', ~buttonOrphan'
         PROVE  \E h \in Gesture : kind'[h] = "click" /\ ReleasePending(h)'
    <2>1. CASE p.flags \cap ButtonBit # {} /\ ~TooLate(c)
      <3>1. half = "press" /\ kind[g] = "click" /\ Waiting(g)
        BY <2>1, <1>3, <1>14 DEF Half
      <3> QED
        BY <3>1, <1>2, <1>11, WaitingPends
    <2>2. CASE /\ ButtonHeld /\ ~buttonOrphan /\ ~ButtonFailed(c)
               /\ stage' = "raised" \/ p.mode = "arrow"
      <3>1. PICK h \in Gesture : kind[h] = "click" /\ Waiting(h)
        BY <1>0, <1>12, <2>2 DEF Held
      <3>2. h # g \/ half = "press"
        BY <3>1, <2>2, <1>3, <1>15 DEF Half
      <3> QED
        BY <3>1, <3>2, <1>2, <1>11, WaitingPends
    <2> QED
      BY <1>16, <1>18, <2>1, <2>2
  <1> QED
    BY <1>8, <1>10, <1>17, <1>18 DEF Inductive, Held

LEMMA MotionStep ==
  ASSUME SInv, IInv', NEW p \in Motion, DeliverMotion(p)
  PROVE  Inductive'
  <1>0. SessionTypeOK /\ IInv /\ GesturesKnown /\ Held
    BY DEF SInv
  <1>1. /\ p \in Packet /\ Dispatch(p) /\ Account(FromMotion) /\ UNCHANGED <<kind, timer, net, web>>
        /\ p.keycode = NoKey /\ p.flags = {} /\ p.mode # "arrow"
        /\ FromMotion \in Origin /\ FromMotion.half = "release"
    BY MotionPackets, Origins DEF DeliverMotion, clientVars
  <1>2. /\ Idle /\ packet' = p
        /\ stage' = "keyboard" => p.mode = "trackpad"
        /\ stage' # "raised" /\ p.mode = "trackpad" /\ p.flags \cap ButtonBit = {}
             => ~ButtonHeld'
    BY <1>0, <1>1, DispatchEffects
  <1>3. GesturesKnown'
    BY <1>0, <1>1 DEF GesturesKnown, Waiting
  <1>4. HalfWay'
    BY <1>1, <1>2 DEF HalfWay, Account
  <1>5. \A h \in Gesture : (ReleasePending(h) <=> Waiting(h)) /\ (Waiting(h) => Waiting(h)')
    BY <1>1, <1>2, PendingWhenIdle DEF Waiting
  <1>6. /\ KeyHeld' /\ ~keyOrphan' => KeyHeld /\ ~keyOrphan
        /\ ButtonHeld' /\ ~buttonOrphan' => ButtonHeld /\ ~buttonOrphan
    BY <1>0, <1>1, HeldAfterDispatch
  <1>7. \A h \in Gesture : ReleasePending(h) => ReleasePending(h)'
    BY <1>5, WaitingPends
  <1>p. \A h \in Gesture : ~Pressing(h)'
    BY <1>1 DEF Pressing, Account
  <1>8. Held'
    BY <1>0, <1>1, <1>6, <1>7, <1>p DEF Held
  <1> QED
    BY <1>3, <1>4, <1>8 DEF Inductive

LEMMA WebPressStep ==
  ASSUME SInv, IInv', NEW s \in Socket, NEW g \in Gesture, NEW k \in Kind, WebPress(s, g, k)
  PROVE  Inductive'
  <1>0. SessionTypeOK /\ ClientTypes /\ IInv /\ GesturesKnown /\ Held
    BY SessionTypes DEF SInv
  <1>1. PICK c \in Origin : c = FromWeb(g, "press")
    BY Origins DEF Half
  <1>2. /\ c.gesture = g /\ c.half = "press" /\ c.from = "web"
    BY <1>1, Origins DEF Half
  <1>3. PICK p \in Packet : p = PressOf(k)
    BY PressPackets
  <1>4. /\ p.mode \in {"trackpad", "arrow"}
        /\ p.keycode # NoKey => k \in KeyKind
        /\ p.flags \cap ButtonBit # {} => k = "click"
    BY <1>3, PressPackets
  <1>5. /\ Dispatch(p) /\ Account(c) /\ UNCHANGED <<timer, net>>
        /\ web[s] = NoGesture /\ kind[g] = "none"
        /\ kind' = [kind EXCEPT ![g] = k]
        /\ web' = [web EXCEPT ![s] = IF stage' = "raised" THEN NoGesture ELSE g]
    BY <1>1, <1>3 DEF WebPress
  <1>6. /\ kind'[g] = k /\ \A h \in Gesture : h # g => kind'[h] = kind[h]
        /\ web'[s] = IF stage' = "raised" THEN NoGesture ELSE g
        /\ \A r \in Socket : r # s => web'[r] = web[r]
    BY <1>0, <1>5 DEF ClientTypes
  <1>7. "none" \notin Kind /\ NoGesture \notin Gesture
    BY SessionAssumption
  <1>8. /\ Idle /\ packet' = p
        /\ stage' \in {"returned", "raised", "keyboard"}
        /\ stage' = "keyboard" => p.mode = "trackpad"
        /\ stage' # "raised" /\ p.mode = "trackpad" /\ p.flags \cap ButtonBit = {}
             => ~ButtonHeld'
    BY <1>0, <1>5, DispatchEffects
  <1>9. ~Waiting(g) /\ ~(net[<<g, "press">>] > 0)
    BY <1>0, <1>5, <1>7 DEF GesturesKnown
  <1>10. \A h \in Gesture : h # g => (Waiting(h) <=> Waiting(h)')
    BY <1>5, <1>6, <1>7 DEF Waiting
  <1>11. stage' # "raised" => Waiting(g)'
    BY <1>6 DEF Waiting
  <1>12. GesturesKnown'
    <2>1. ASSUME NEW h \in Gesture, Waiting(h)' \/ net'[<<h, "press">>] > 0 PROVE kind'[h] \in Kind
      BY <1>0, <1>5, <1>6, <1>10, <2>1 DEF GesturesKnown
    <2> QED
      BY <2>1 DEF GesturesKnown
  <1>13. HalfWay'
    <2>1. stage' = "keyboard" => current' = c
      BY <1>5 DEF Account
    <2>2. stage' = "keyboard" => packet' = PacketOf(current.gesture, current.half)'
      BY <2>1, <1>2, <1>3, <1>6, <1>8 DEF PacketOf
    <2> QED
      BY <1>2, <1>6, <1>8, <2>1, <2>2 DEF HalfWay
  <1>14. \A h \in Gesture : ReleasePending(h) <=> Waiting(h)
    BY <1>8, PendingWhenIdle
  <1>15. \A h \in Gesture : h # g \/ stage' = "returned" => ~Pressing(h)'
    BY <1>2, <1>5 DEF Pressing, Account
  <1>16. /\ KeyHeld' /\ ~keyOrphan' =>
              \/ p.keycode # NoKey /\ ~TooLate(c) /\ stage' = "returned"
              \/ /\ KeyHeld /\ ~keyOrphan /\ ~KeyFailed(c)
                 /\ stage' # "returned" \/ p.mode = "scroll"
         /\ ButtonHeld' /\ ~buttonOrphan' =>
              \/ p.flags \cap ButtonBit # {} /\ ~TooLate(c) /\ stage' = "keyboard"
              \/ /\ ButtonHeld /\ ~buttonOrphan /\ ~ButtonFailed(c)
                 /\ stage' = "raised" \/ p.mode = "arrow"
    BY <1>0, <1>5, HeldAfterDispatch
  <1>17. ASSUME KeyHeld', ~keyOrphan'
         PROVE  \E h \in Gesture : kind'[h] \in KeyKind /\ ReleasePending(h)' /\ ~Pressing(h)'
    <2>1. CASE p.keycode # NoKey /\ stage' = "returned"
      BY <2>1, <1>4, <1>6, <1>11, <1>15, WaitingPends
    <2>2. CASE KeyHeld /\ ~keyOrphan
      <3>1. PICK h \in Gesture : kind[h] \in KeyKind /\ Waiting(h)
        BY <1>0, <1>14, <2>2 DEF Held
      <3> QED
        BY <3>1, <1>6, <1>9, <1>10, <1>15, WaitingPends
    <2> QED
      BY <1>16, <1>17, <2>1, <2>2
  <1>18. ASSUME ButtonHeld', ~buttonOrphan'
         PROVE  \E h \in Gesture : kind'[h] = "click" /\ ReleasePending(h)'
    <2>1. CASE p.flags \cap ButtonBit # {} /\ stage' = "keyboard"
      BY <2>1, <1>4, <1>6, <1>11, WaitingPends
    <2>2. CASE ButtonHeld /\ ~buttonOrphan
      <3>1. PICK h \in Gesture : kind[h] = "click" /\ Waiting(h)
        BY <1>0, <1>14, <2>2 DEF Held
      <3> QED
        BY <3>1, <1>6, <1>9, <1>10, WaitingPends
    <2> QED
      BY <1>16, <1>18, <2>1, <2>2
  <1> QED
    BY <1>12, <1>13, <1>17, <1>18 DEF Inductive, Held

LEMMA WebReleaseStep ==
  ASSUME SInv, IInv', NEW s \in Socket, WebRelease(s)
  PROVE  Inductive'
  <1>0. SessionTypeOK /\ ClientTypes /\ IInv /\ GesturesKnown /\ Held
    BY SessionTypes DEF SInv
  <1>1. PICK g \in Gesture : g = web[s] /\ kind[g] \in Kind
    BY <1>0, AwaitedKnown DEF WebRelease
  <1>2. PICK c \in Origin : c = FromWeb(g, "release")
    BY Origins DEF Half
  <1>3. c.gesture = g /\ c.half = "release" /\ c.from = "web"
    BY <1>2, Origins DEF Half
  <1>4. PICK p \in Packet : p = PacketOf(g, "release")
    BY <1>1, GesturePackets DEF Half
  <1>5. /\ p.mode \in {"trackpad", "arrow"} /\ p.keycode = NoKey /\ p.flags = {}
        /\ kind[g] = "click" => p.mode = "trackpad"
    BY <1>1, <1>4, GesturePackets DEF Half
  <1>6. /\ Dispatch(p) /\ Account(c) /\ UNCHANGED <<kind, timer, net>>
        /\ web' = [web EXCEPT ![s] = NoGesture]
    BY <1>1, <1>2, <1>4 DEF WebRelease, PacketOf
  <1>7. \A r \in Socket : web'[r] # NoGesture => web'[r] = web[r]
    BY <1>0, <1>6 DEF ClientTypes
  <1>8. \A r \in Socket : r # s => web'[r] = web[r]
    BY <1>0, <1>6 DEF ClientTypes
  <1>9. /\ Idle /\ packet' = p
        /\ stage' \in {"returned", "raised", "keyboard"}
        /\ stage' = "keyboard" => p.mode = "trackpad"
        /\ stage' # "raised" /\ p.mode = "trackpad" /\ p.flags \cap ButtonBit = {}
             => ~ButtonHeld'
    BY <1>0, <1>6, DispatchEffects
  <1>10. GesturesKnown'
    <2>1. \A h \in Gesture : Waiting(h)' => Waiting(h)
      BY <1>6, <1>7, SessionAssumption DEF Waiting
    <2> QED
      BY <1>0, <1>6, <2>1 DEF GesturesKnown
  <1>11. stage' = "keyboard" => current' = c
    BY <1>6 DEF Account
  <1>12. HalfWay'
    <2>1. stage' = "keyboard" => packet' = PacketOf(current.gesture, current.half)'
      BY <1>3, <1>4, <1>6, <1>9, <1>11 DEF PacketOf
    <2> QED
      BY <1>1, <1>3, <1>6, <1>9, <1>11, <2>1 DEF HalfWay
  <1>13. \A h \in Gesture : h # g => (Waiting(h) => Waiting(h)')
    BY <1>1, <1>6, <1>8 DEF Waiting
  <1>14. \A h \in Gesture : ReleasePending(h) <=> Waiting(h)
    BY <1>9, PendingWhenIdle
  <1>15. stage' = "keyboard" => ReleasePending(g)'
    BY <1>3, <1>11 DEF ReleasePending
  <1>16. /\ KeyFailed(c) <=> stage' = "raised" /\ kind[g] \in KeyKind
         /\ ButtonFailed(c) <=> stage' = "raised" /\ kind[g] = "click"
    BY <1>3, <1>6, SessionAssumption DEF KeyFailed, ButtonFailed, Failed
  <1>p. \A h \in Gesture : ~Pressing(h)'
    BY <1>3, <1>11 DEF Pressing
  <1>17. /\ KeyHeld' /\ ~keyOrphan' =>
              KeyHeld /\ ~keyOrphan /\ ~KeyFailed(c) /\ stage' # "returned"
         /\ ButtonHeld' /\ ~buttonOrphan' =>
              /\ ButtonHeld /\ ~buttonOrphan /\ ~ButtonFailed(c)
              /\ stage' = "raised" \/ p.mode = "arrow"
    BY <1>0, <1>5, <1>6, HeldAfterDispatch
  <1>18. ASSUME KeyHeld', ~keyOrphan'
         PROVE  \E h \in Gesture : kind'[h] \in KeyKind /\ ReleasePending(h)' /\ ~Pressing(h)'
    <2>1. PICK h \in Gesture : kind[h] \in KeyKind /\ Waiting(h)
      BY <1>0, <1>14, <1>17, <1>18 DEF Held
    <2>2. h = g => stage' = "keyboard"
      BY <1>9, <1>16, <1>17, <1>18, <2>1
    <2> QED
      BY <1>6, <1>13, <1>15, <1>p, <2>1, <2>2, WaitingPends
  <1>19. ASSUME ButtonHeld', ~buttonOrphan'
         PROVE  \E h \in Gesture : kind'[h] = "click" /\ ReleasePending(h)'
    <2>1. PICK h \in Gesture : kind[h] = "click" /\ Waiting(h)
      BY <1>0, <1>14, <1>17, <1>19 DEF Held
    <2>2. h # g
      BY <1>5, <1>16, <1>17, <1>19, <2>1
    <2> QED
      BY <1>6, <1>13, <2>1, <2>2, WaitingPends
  <1> QED
    BY <1>10, <1>12, <1>18, <1>19 DEF Inductive, Held

LEMMA FinishStep ==
  ASSUME SInv, IInv', FinishDispatch
  PROVE  Inductive'
  <1>0. SessionTypeOK /\ ClientTypes /\ IInv /\ GesturesKnown /\ Held
    BY SessionTypes DEF SInv
  <1>1. /\ TrackpadKeys /\ stage = "keyboard" /\ Account(current)
        /\ UNCHANGED <<kind, timer, net>>
    BY DEF FinishDispatch, TrackpadKeys
  <1>2. PICK c \in Origin : c = current
    BY <1>0 DEF SessionTypeOK, Origin
  <1>3. /\ packet.mode = "trackpad"
        /\ packet.flags \cap ButtonBit = {} => ~ButtonHeld
        /\ \/ /\ c.gesture = NoGesture /\ c.half = "release"
              /\ packet.keycode = NoKey /\ packet.flags = {}
           \/ /\ c.gesture \in Gesture /\ kind[c.gesture] \in Kind
              /\ packet = PacketOf(c.gesture, c.half)
              /\ c.half = "press" /\ c.from = "web" => \E s \in Socket : web[s] = c.gesture
    BY <1>1, <1>2, Origins DEF SInv, HalfWay
  <1>4. c.half \in Half
    BY DEF Origin
  <1>5. c.half = "release" => packet.keycode = NoKey /\ packet.flags = {}
    BY <1>3, <1>4, GesturePackets
  <1>6. /\ packet.keycode # NoKey => c.gesture \in Gesture /\ kind[c.gesture] \in KeyKind
    BY <1>3, <1>4, GesturePackets
  <1>7. /\ packet' = packet
        /\ stage' \in {"returned", "raised"}
        /\ stage' = "raised" => (KeyHeld' <=> KeyHeld)
        /\ stage' = "returned" /\ packet.keycode = NoKey => ~KeyHeld'
        /\ ButtonHeld' <=> ButtonHeld
    BY <1>0, <1>1, <1>3, FinishEffects
  <1>8. web' = [s \in Socket |->
                  IF stage' = "raised" /\ c.from = "web" /\ web[s] = c.gesture
                  THEN NoGesture ELSE web[s]]
    BY <1>2 DEF FinishDispatch
  <1>9. web \in [Socket -> Gesture \cup {NoGesture}]
    BY <1>0 DEF ClientTypes
  <1>10. \A s \in Socket : web'[s] # NoGesture => web'[s] = web[s]
    BY <1>8
  <1>11. stage' = "returned" \/ c.from # "web" => web' = web
    BY <1>8, <1>9
  <1>12. GesturesKnown'
    <2>1. \A h \in Gesture : Waiting(h)' => Waiting(h)
      BY <1>1, <1>10, SessionAssumption DEF Waiting
    <2> QED
      BY <1>0, <1>1, <2>1 DEF GesturesKnown
  <1>13. HalfWay'
    BY <1>7 DEF HalfWay
  <1>14. web' = web => \A h \in Gesture : Waiting(h) => Waiting(h)'
    BY <1>1 DEF Waiting
  <1>15. c.half = "press" => \A h \in Gesture : ReleasePending(h) <=> Waiting(h)
    BY <1>2 DEF ReleasePending, Waiting
  <1>16. /\ KeyFailed(c) <=> /\ stage' = "raised" /\ c.half = "release"
                              /\ c.gesture # NoGesture /\ kind[c.gesture] \in KeyKind
         /\ ButtonFailed(c) <=> /\ stage' = "raised" /\ (c.half = "release" \/ c.from = "web")
                                 /\ c.gesture # NoGesture /\ kind[c.gesture] = "click"
    BY <1>1, <1>4 DEF KeyFailed, ButtonFailed, Failed, Half
  <1>p. \A h \in Gesture : ~Pressing(h)'
    BY <1>7 DEF Pressing
  <1>w. \A h \in Gesture : h # c.gesture /\ Waiting(h) => Waiting(h)'
    BY <1>1, <1>8 DEF Waiting
  <1>17. Account(c)
    BY <1>1, <1>2
  <1>18. ASSUME KeyHeld', ~keyOrphan'
         PROVE  \E h \in Gesture : kind'[h] \in KeyKind /\ ReleasePending(h)' /\ ~Pressing(h)'
    <2>1. CASE stage' = "returned"
      <3>1. packet.keycode # NoKey /\ c.half = "press"
        BY <1>4, <1>5, <1>7, <1>18, <2>1 DEF Half
      <3>2. ~TooLate(c)
        BY <1>7, <1>17, <1>18, <2>1, <3>1 DEF Account
      <3>3. c.gesture \in Gesture /\ kind[c.gesture] \in KeyKind
        BY <1>6, <3>1
      <3>4. c.from \in {"net", "web"}
        BY DEF Origin
      <3>5. Waiting(c.gesture)
        <4>1. CASE c.from = "net"
          BY <1>15, <3>1, <3>2, <3>3, <4>1 DEF TooLate
        <4>2. CASE c.from = "web"
          BY <1>3, <3>1, <4>2 DEF Waiting
        <4> QED
          BY <3>4, <4>1, <4>2
      <3>6. PICK h \in Gesture : h = c.gesture
        BY <3>3
      <3> QED
        BY <1>1, <1>11, <1>14, <1>p, <2>1, <3>3, <3>5, <3>6, WaitingPends
    <2>2. CASE stage' = "raised"
      <3>1. KeyHeld /\ ~keyOrphan /\ ~KeyFailed(c)
        BY <1>7, <1>17, <1>18, <2>2 DEF Account, KeyFailed
      <3>2. PICK h \in Gesture : kind[h] \in KeyKind /\ ReleasePending(h) /\ ~Pressing(h)
        BY <1>0, <3>1 DEF Held
      <3>3. Waiting(h)'
        <4>1. CASE h = c.gesture
          <5>1. c.half = "press" /\ c.from # "web"
            BY <1>1, <1>2, <1>4, <1>16, <2>2, <3>1, <3>2, <4>1, SessionAssumption
               DEF Pressing, Half
          <5> QED
            BY <1>11, <1>14, <1>15, <3>2, <5>1
        <4>2. CASE h # c.gesture
          <5>1. Waiting(h)
            BY <1>2, <3>2, <4>2 DEF ReleasePending, Waiting
          <5> QED
            BY <1>w, <4>2, <5>1
        <4> QED
          BY <4>1, <4>2
      <3> QED
        BY <1>1, <1>p, <3>2, <3>3, WaitingPends
    <2> QED
      BY <1>7, <2>1, <2>2
  <1>19. ASSUME ButtonHeld', ~buttonOrphan'
         PROVE  \E h \in Gesture : kind'[h] = "click" /\ ReleasePending(h)'
    <2>1. ButtonHeld /\ packet.flags \cap ButtonBit # {}
      BY <1>3, <1>7, <1>19
    <2>2. c.half = "press"
      BY <1>4, <1>5, <2>1 DEF Half
    <2>3. ~buttonOrphan /\ ~ButtonFailed(c)
      BY <1>17, <1>19 DEF Account, ButtonFailed
    <2>c. c.gesture # NoGesture /\ kind[c.gesture] = "click"
      BY <1>3, <1>4, <2>1, GesturePackets, SessionAssumption
    <2>4. web' = web
      BY <1>7, <1>11, <1>16, <2>3, <2>c
    <2>5. PICK h \in Gesture : kind[h] = "click" /\ Waiting(h)
      BY <1>0, <1>15, <2>1, <2>2, <2>3 DEF Held
    <2> QED
      BY <1>1, <1>14, <2>4, <2>5, WaitingPends
  <1> QED
    BY <1>12, <1>13, <1>18, <1>19 DEF Inductive, Held

(* Steps of the app and the network: what hosts hold does not change, and  *)
(* a release that stops pending while its key is down leaves an orphan.    *)
LEMMA AsideStep ==
  ASSUME SInv, UNCHANGED <<vars, current>>,
         \A g \in Gesture : kind[g] \in Kind => kind'[g] = kind[g],
         \A g \in Gesture : ReleasePending(g) /\ kind[g] \in KeyKind /\ KeyHeld
                            => ReleasePending(g)' \/ keyOrphan',
         \A g \in Gesture : ReleasePending(g) /\ kind[g] = "click" /\ ButtonHeld
                            => ReleasePending(g)' \/ buttonOrphan',
         KeyHeld /\ keyOrphan => keyOrphan', ButtonHeld /\ buttonOrphan => buttonOrphan',
         UNCHANGED web
  PROVE  HalfWay' /\ Held'
  <1>0. HalfWay /\ Held /\ KeyKind \subseteq Kind /\ "click" \in Kind
    BY SessionAssumption DEF SInv, KeyKind
  <1>1. (KeyHeld' <=> KeyHeld) /\ (ButtonHeld' <=> ButtonHeld)
    BY DEF vars, KeyHeld, ButtonHeld
  <1>2. HalfWay'
    BY <1>0, <1>1 DEF HalfWay, vars, PacketOf
  <1>3. \A g : Pressing(g)' <=> Pressing(g)
    BY DEF Pressing, vars
  <1>4. Held'
    BY <1>0, <1>1, <1>3 DEF Held
  <1> QED
    BY <1>2, <1>4

LEMMA ClientStep ==
  ASSUME SInv,
         \/ \E g \in Gesture : \/ \E k \in Kind : MakeGesture(g, k)
                               \/ ReleaseTimer(g)
                               \/ \E half \in Half : Lose(g, half) \/ Duplicate(g, half)
         \/ AppGone
  PROVE  Inductive'
  <1>0. SessionTypeOK /\ ClientTypes /\ GesturesKnown
    BY SessionTypes DEF SInv
  <1>n. \A h \in Gesture, k \in Half : net[<<h, k>>] \in Nat
    BY <1>0, SessionAssumption DEF ClientTypes
  <1>k. "none" \notin Kind
    BY SessionAssumption
  <1>1. ASSUME NEW g \in Gesture, NEW k \in Kind, MakeGesture(g, k) PROVE Inductive'
    <2>1. /\ kind[g] = "none" /\ UNCHANGED <<vars, web, current, keyOrphan, buttonOrphan>>
          /\ kind'[g] = k /\ \A h \in Gesture : h # g => kind'[h] = kind[h]
          /\ timer' = timer \cup {g}
          /\ \A h \in Gesture : net'[<<h, "release">>] = net[<<h, "release">>]
          /\ \A h \in Gesture : h # g => net'[<<h, "press">>] = net[<<h, "press">>]
      BY <1>0, <1>1 DEF MakeGesture, ClientTypes, Half
    <2>2. \A h \in Gesture : ReleasePending(h) => ReleasePending(h)'
      BY <2>1 DEF ReleasePending, vars
    <2>3. HalfWay' /\ Held'
      BY <1>k, <2>1, <2>2, AsideStep
    <2>4. GesturesKnown'
      BY <1>0, <2>1 DEF GesturesKnown, Waiting
    <2> QED
      BY <2>3, <2>4 DEF Inductive
  <1>2. ASSUME NEW g \in Gesture, ReleaseTimer(g) PROVE Inductive'
    <2>1. /\ g \in timer /\ UNCHANGED <<vars, kind, web, current, keyOrphan, buttonOrphan>>
          /\ timer' = timer \ {g}
          /\ net'[<<g, "release">>] = 1
          /\ \A h \in Gesture : h # g => net'[<<h, "release">>] = net[<<h, "release">>]
          /\ \A h \in Gesture : net'[<<h, "press">>] = net[<<h, "press">>]
      BY <1>0, <1>2 DEF ReleaseTimer, ClientTypes, Half
    <2>2. \A h \in Gesture : ReleasePending(h) => ReleasePending(h)'
      BY <2>1 DEF ReleasePending, vars
    <2>3. HalfWay' /\ Held'
      BY <2>1, <2>2, AsideStep
    <2>4. GesturesKnown'
      BY <1>0, <2>1 DEF GesturesKnown, Waiting
    <2> QED
      BY <2>3, <2>4 DEF Inductive
  <1>3. ASSUME NEW g \in Gesture, NEW half \in Half, Lose(g, half) PROVE Inductive'
    <2>1. /\ UNCHANGED <<vars, kind, timer, web, current>>
          /\ \A h \in Gesture, k \in Half :
               net'[<<h, k>>] = IF h = g /\ k = half THEN net[<<h, k>>] - 1 ELSE net[<<h, k>>]
          /\ keyOrphan' = (KeyHeld /\ \/ keyOrphan
                                      \/ /\ half = "release" /\ net[<<g, half>>] = 1
                                         /\ kind[g] \in KeyKind)
          /\ buttonOrphan' = (ButtonHeld /\ \/ buttonOrphan
                                            \/ /\ half = "release" /\ net[<<g, half>>] = 1
                                               /\ kind[g] = "click")
      BY <1>0, <1>3 DEF Lose, ClientTypes
    <2>2. \A h \in Gesture : ReleasePending(h) =>
            \/ ReleasePending(h)'
            \/ h = g /\ half = "release" /\ net[<<g, half>>] = 1
      <3>1. ASSUME NEW h \in Gesture, net[<<h, "release">>] > 0
            PROVE  \/ net'[<<h, "release">>] > 0
                   \/ h = g /\ half = "release" /\ net[<<g, half>>] = 1
        <4>1. /\ net[<<h, "release">>] \in Nat
              /\ net'[<<h, "release">>] = IF h = g /\ "release" = half
                                           THEN net[<<h, "release">>] - 1
                                           ELSE net[<<h, "release">>]
          BY <1>n, <2>1 DEF Half
        <4> QED
          BY <3>1, <4>1
      <3> QED
        BY <2>1, <3>1 DEF ReleasePending, vars
    <2>3. HalfWay' /\ Held'
      <3>1. ASSUME NEW h \in Gesture, ReleasePending(h), kind[h] \in KeyKind, KeyHeld,
                   ~ReleasePending(h)'
            PROVE  keyOrphan'
        BY <2>1, <2>2, <3>1
      <3>2. ASSUME NEW h \in Gesture, ReleasePending(h), kind[h] = "click", ButtonHeld,
                   ~ReleasePending(h)'
            PROVE  buttonOrphan'
        <4>1. h = g /\ half = "release" /\ net[<<g, half>>] = 1
          BY <2>2, <3>2
        <4>2. kind[g] = "click"
          BY <3>2, <4>1
        <4> QED
          BY <2>1, <3>2, <4>1, <4>2, Zenon
      <3> QED
        BY <2>1, <3>1, <3>2, AsideStep
    <2>4. GesturesKnown'
      BY <1>0, <1>n, <2>1 DEF GesturesKnown, Waiting, Half
    <2> QED
      BY <2>3, <2>4 DEF Inductive
  <1>4. ASSUME NEW g \in Gesture, NEW half \in Half, Duplicate(g, half) PROVE Inductive'
    <2>1. /\ UNCHANGED <<vars, kind, timer, web, current, keyOrphan, buttonOrphan>>
          /\ net[<<g, half>>] > 0
          /\ \A h \in Gesture, k \in Half :
               net'[<<h, k>>] = IF h = g /\ k = half THEN net[<<h, k>>] + 1 ELSE net[<<h, k>>]
      BY <1>0, <1>4, SessionAssumption DEF Duplicate, ClientTypes
    <2>2. \A h \in Gesture : ReleasePending(h) => ReleasePending(h)'
      <3>1. ASSUME NEW h \in Gesture, net[<<h, "release">>] > 0
            PROVE  net'[<<h, "release">>] > 0
        <4>1. /\ net[<<h, "release">>] \in Nat
              /\ net'[<<h, "release">>] = IF h = g /\ "release" = half
                                           THEN net[<<h, "release">>] + 1
                                           ELSE net[<<h, "release">>]
          BY <1>n, <2>1 DEF Half
        <4> QED
          BY <3>1, <4>1
      <3> QED
        BY <2>1, <3>1 DEF ReleasePending, vars
    <2>3. HalfWay' /\ Held'
      BY <2>1, <2>2, AsideStep
    <2>4. GesturesKnown'
      BY <1>0, <1>n, <2>1 DEF GesturesKnown, Waiting, Half
    <2> QED
      BY <2>3, <2>4 DEF Inductive
  <1>5. CASE AppGone
    <2>1. /\ UNCHANGED <<vars, kind, net, web, current>> /\ timer' = {}
          /\ keyOrphan' = (KeyHeld /\ (keyOrphan \/ \E g \in timer : kind[g] \in KeyKind))
          /\ buttonOrphan' = (ButtonHeld /\ (buttonOrphan \/ \E g \in timer : kind[g] = "click"))
      BY <1>5 DEF AppGone
    <2>2. \A h \in Gesture : ReleasePending(h) => ReleasePending(h)' \/ h \in timer
      BY <2>1 DEF ReleasePending, vars
    <2>3. HalfWay' /\ Held'
      BY <2>1, <2>2, AsideStep
    <2>4. GesturesKnown'
      BY <1>0, <2>1 DEF GesturesKnown, Waiting
    <2> QED
      BY <2>3, <2>4 DEF Inductive
  <1> QED
    BY <1>1, <1>2, <1>3, <1>4, <1>5

LEMMA LinksStep ==
  ASSUME SInv, SessionLinks
  PROVE  Inductive'
  <1>0. TypeOK /\ GesturesKnown /\ HalfWay /\ Held
    BY DEF SInv, SessionTypeOK
  <1>1. /\ UNCHANGED <<clientVars, current, packet, stage>>
        /\ KeyHeld' => (keyOrphan' <=> keyOrphan)
        /\ ButtonHeld' => (buttonOrphan' <=> buttonOrphan)
        /\ \A b \in Sinks : host'[b] = host[b] \/ host'[b] = Released
    BY <1>0 DEF SessionLinks, Links, LinkDown, LinkUp, TypeOK
  <1>2. (KeyHeld' => KeyHeld) /\ (ButtonHeld' => ButtonHeld)
    BY <1>1, ReleasedType DEF KeyHeld, ButtonHeld
  <1>3. \A g \in Gesture : (ReleasePending(g)' <=> ReleasePending(g))
                            /\ (Pressing(g)' <=> Pressing(g))
    BY <1>1 DEF ReleasePending, Pressing, clientVars
  <1>4. GesturesKnown' /\ HalfWay'
    BY <1>0, <1>1, <1>2 DEF clientVars, GesturesKnown, Waiting, HalfWay, PacketOf
  <1>5. Held'
    BY <1>0, <1>1, <1>2, <1>3 DEF Held, clientVars
  <1> QED
    BY <1>4, <1>5 DEF Inductive

LEMMA SessionStep == SInv /\ [SessionNext]_sessionVars => SInv'
  <1> SUFFICES ASSUME SInv, [SessionNext]_sessionVars PROVE SInv'
    OBVIOUS
  <1>1. SessionTypeOK'
    BY SessionTypeStep DEF SInv
  <1>2. IInv'
    BY SessionInNext, InvStep DEF SInv
  <1>3. CASE SessionNext
    <2>1. Inductive'
      BY <1>2, <1>3, DeliverStep, MotionStep, WebPressStep, WebReleaseStep, FinishStep,
         ClientStep, LinksStep
         DEF SessionNext
    <2> QED
      BY <1>1, <1>2, <2>1  DEF Inductive, SInv
  <1>4. CASE UNCHANGED sessionVars
    <2>1. UNCHANGED <<vars, kind, timer, net, web, current, keyOrphan, buttonOrphan>>
      BY <1>4 DEF sessionVars, clientVars
    <2>2. ASSUME NEW g \in Gesture
          PROVE  /\ Waiting(g)' <=> Waiting(g)
                 /\ ReleasePending(g)' <=> ReleasePending(g)
      BY <2>1 DEF Waiting, ReleasePending, vars
    <2>3. GesturesKnown'
      BY <2>1, <2>2 DEF SInv, GesturesKnown
    <2>4. HalfWay' /\ Held'
      BY <2>1, <2>2, AsideStep
    <2> QED
      BY <1>1, <1>2, <2>3, <2>4  DEF SInv
  <1> QED
    BY <1>3, <1>4

LEMMA SessionInvInit == SessionInit => SInv
  <1> SUFFICES ASSUME SessionInit PROVE SInv
    OBVIOUS
  <1>1. IInv /\ TypeOK /\ stage = "idle"
    BY InvInit DEF SessionInit, IInv, Init
  <1>2. ClientTypes /\ HistoryTypes
    <2>1. 0 \in 0..MaxCopies
      BY SessionAssumption
    <2>2. net \in [Gesture \X Half -> 0..MaxCopies]
      BY <2>1 DEF SessionInit
    <2> QED
      BY <2>2, Origins DEF SessionInit, ClientTypes, HistoryTypes
  <1>3. ~KeyHeld /\ ~ButtonHeld
    BY ReleasedType DEF SessionInit, Init, KeyHeld, ButtonHeld
  <1>4. GesturesKnown
    BY SessionAssumption DEF SessionInit, GesturesKnown, Waiting, Half
  <1> QED
    BY <1>1, <1>2, <1>3, <1>4, SessionTypes
       DEF SInv, HalfWay, Held

LEMMA SessionHolds == SessionSpec => []SInv
  BY SessionInvInit, SessionStep, PTL DEF SessionSpec

(* Packets in flight, timers, handlers and history stay what they are      *)
(* declared to be.                                                         *)
THEOREM SessionTypeCorrect == SessionSpec => []SessionTypeOK
  <1>1. SInv => SessionTypeOK
    BY DEF SInv
  <1> QED
    BY <1>1, SessionHolds, PTL

(* Clients do nothing to the server but dispatch packets that may arrive:  *)
(* every theorem of HIDDispatcher_proof about Spec holds in a session.     *)
THEOREM SessionIsServer == SessionSpec => Spec
  <1>1. SInv /\ [SessionNext]_sessionVars => [Next]_vars
    BY SessionInNext DEF SInv
  <1>2. SessionInit => Init
    BY DEF SessionInit
  <1> QED
    BY <1>1, <1>2, SessionHolds, PTL DEF SessionSpec, Spec

(* For any number of gestures and sockets: a key is only down while its    *)
(* release is to come, or after a release was lost or failed.              *)
THEOREM KeysAreReleased == SessionSpec => []KeyHeldUntilReleased
  <1>1. SInv => KeyHeldUntilReleased
    BY HeldSuffices DEF SInv
  <1> QED
    BY <1>1, SessionHolds, PTL

(* The same for mouse buttons.                                             *)
THEOREM ButtonsAreReleased == SessionSpec => []ButtonHeldUntilReleased
  <1>1. SInv => ButtonHeldUntilReleased
    BY HeldSuffices DEF SInv
  <1> QED
    BY <1>1, SessionHolds, PTL

(* All gestures of all clients together play on one keyboard that every    *)
(* host shares.                                                            *)
THEOREM SessionSharesKeyboard == SessionSpec => ImplementsSharedKeyboard
  BY SessionIsServer, SharesKeyboard, PTL

(* Nothing is waited for, in flight or half-way.                           *)
Quiet ==
  /\ timer = {}
  /\ \A m \in Gesture \X Half : net[m] = 0
  /\ \A s \in Socket : web[s] = NoGesture
  /\ Idle

(* When the clients have fallen silent and no release was lost or failed   *)
(* while something was held, no host holds a key, a modifier or a button.  *)
THEOREM QuietIsReleased ==
  SessionSpec => [](Quiet /\ ~keyOrphan /\ ~buttonOrphan => \A b \in Sinks : host[b] = Released)
  <1>1. SInv => (Quiet /\ ~keyOrphan /\ ~buttonOrphan => \A b \in Sinks : host[b] = Released)
    <2> SUFFICES ASSUME SInv, Quiet, ~keyOrphan, ~buttonOrphan, NEW b \in Sinks
                 PROVE  host[b] = Released
      OBVIOUS
    <2>1. \A g \in Gesture : ~Waiting(g)
      BY SessionAssumption DEF Quiet, Waiting, Half
    <2>2. ~KeyHeld /\ ~ButtonHeld
      BY <2>1, PendingWhenIdle DEF SInv, Held, Quiet
    <2>3. host[b].key = NoKey /\ host[b].buttons = {}
      BY <2>2 DEF KeyHeld, ButtonHeld
    <2>4. host[b] \in HostState /\ host[b].mods = {}
      BY <2>3 DEF SInv, IInv, TypeOK, HeldKeyTracked, Keyless
    <2> QED
      BY <2>3, <2>4 DEF HostState, Released
  <1> QED
    BY <1>1, SessionHolds, PTL
=============================================================================
