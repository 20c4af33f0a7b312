------------------------- MODULE HIDDispatcher_proof -------------------------
(***************************************************************************)
(* Proofs about HIDDispatcher for every set of keycodes, flag bits,        *)
(* backends and arriving packets.                                          *)
(***************************************************************************)
EXTENDS HIDDispatcher, TLAPS

(* A report keeps a host state a host state.                               *)
LEMMA ReportTypes ==
  ASSUME NEW h \in HostState, NEW mods \in SUBSET FlagBit,
         NEW key \in Keycode \cup {NoKey}
  PROVE  /\ MouseReport(h, mods) \in HostState
         /\ KeyboardReport(h, mods, key) \in HostState
         /\ MouseReport(h, mods).key = h.key
         /\ MouseReport(h, mods).mods = h.mods
         /\ MouseReport(h, mods).buttons = mods \cap ButtonBit
         /\ KeyboardReport(h, mods, key).key = key
         /\ KeyboardReport(h, mods, key).mods = mods
         /\ KeyboardReport(h, mods, key).buttons = h.buttons
  BY DEF HostState, MouseReport, KeyboardReport

LEMMA ReleasedType == /\ Released \in HostState
                      /\ Released.key = NoKey
                      /\ Released.mods = {}
                      /\ Released.buttons = {}
  BY DEF Released, HostState

-----------------------------------------------------------------------------
(* Type correctness, also across crashes.                                  *)

LEMMA FanoutTypes ==
  ASSUME TypeOK, NEW flags \in SUBSET FlagBit, NEW key \in Keycode \cup {NoKey}
  PROVE  /\ FanoutMouse(flags) => host' \in [Sinks -> HostState]
         /\ FanoutKeyboard(flags, key) => host' \in [Sinks -> HostState]
  <1>1. ASSUME NEW b \in Sinks
        PROVE  /\ host[b] \in HostState
               /\ MouseReport(host[b], flags) \in HostState
               /\ KeyboardReport(host[b], flags, key) \in HostState
    BY ReportTypes DEF TypeOK
  <1> QED BY <1>1 DEF FanoutMouse, FanoutKeyboard

LEMMA KeyboardPartTypes ==
  ASSUME TypeOK, NEW p \in Packet, KeyboardPart(p)
  PROVE  /\ host' \in [Sinks -> HostState]
         /\ lastKeycode' \in Keycode \cup {NoKey}
         /\ stage' \in {"returned", "raised"}
  <1>1. p.flags \in SUBSET FlagBit /\ p.keycode \in Keycode \cup {NoKey}
    BY DEF Packet
  <1>2. CASE PressKey(p)
    BY <1>1, <1>2, FanoutTypes DEF PressKey, Outcome, TypeOK
  <1>3. CASE ReleaseKey(p)
    BY <1>3, FanoutTypes DEF ReleaseKey, Outcome, TypeOK
  <1>4. CASE NoKeyToRelease(p)
    BY <1>4 DEF NoKeyToRelease, TypeOK
  <1> QED BY <1>2, <1>3, <1>4 DEF KeyboardPart

LEMMA TypeInit == Init => TypeOK
  BY DispatcherAssumption, ReleasedType DEF Init, TypeOK, NoPacket, Packet, Mode

LEMMA TypeStep == TypeOK /\ [CrashNext]_vars => TypeOK'
  <1> SUFFICES ASSUME TypeOK, [CrashNext]_vars PROVE TypeOK'
    OBVIOUS
  <1>1. ASSUME NEW p \in Packets, Dispatch(p) PROVE TypeOK'
    <2>1. p \in Packet /\ p.flags \in SUBSET FlagBit
      BY DispatcherAssumption DEF Packet
    <2>2. CASE HandleScroll(p)
      BY <1>1, <2>1, <2>2, FanoutTypes DEF Dispatch, HandleScroll, Outcome, TypeOK
    <2>3. CASE HandleArrow(p)
      BY <1>1, <2>1, <2>3, KeyboardPartTypes DEF Dispatch, HandleArrow, TypeOK
    <2>4. CASE HandleTrackpad(p)
      BY <1>1, <2>1, <2>4, FanoutTypes DEF Dispatch, HandleTrackpad, TypeOK
    <2> QED BY <1>1, <2>2, <2>3, <2>4 DEF Dispatch
  <1>2. CASE TrackpadKeys
    <2>1. packet \in Packet
      BY DEF TypeOK
    <2> QED BY <1>2, <2>1, KeyboardPartTypes DEF TrackpadKeys, TypeOK
  <1>3. CASE CloseMouse
    BY <1>3, FanoutTypes DEF CloseMouse, TypeOK
  <1>4. CASE CloseKeyboard
    BY <1>4, FanoutTypes DEF CloseKeyboard, TypeOK
  <1>5. CASE CloseServer \/ Exit
    BY <1>5, ReleasedType DEF CloseServer, Exit, BluetoothGone, TypeOK
  <1>10. CASE AcceptFails
    BY <1>10 DEF AcceptFails, TypeOK
  <1>6. CASE Restart
    BY <1>6 DEF Restart, TypeOK
  <1>7. CASE Links
    BY <1>7, ReleasedType DEF Links, LinkDown, LinkUp, TypeOK
  <1>8. CASE Kill
    BY <1>8, ReleasedType DEF Kill, BluetoothGone, TypeOK
  <1>9. CASE UNCHANGED vars
    BY <1>9 DEF vars, TypeOK
  <1> QED BY <1>1, <1>2, <1>3, <1>4, <1>5, <1>6, <1>7, <1>8, <1>9, <1>10
          DEF CrashNext, Next

(* Every variable keeps its type in every behaviour, crashes included.     *)
THEOREM TypeCorrect == CrashSpec => []TypeOK
  BY TypeInit, TypeStep, PTL DEF CrashSpec

-----------------------------------------------------------------------------
(* A fan-out is all or nothing: without an exception every attached host   *)
(* gets the report, with one no host does.  This rests on the insertion    *)
(* order, USB first, and on USB being the only backend that raises.        *)
LEMMA FanoutAllOrNothing ==
  ASSUME TypeOK, NEW b \in Sinks
  PROVE  /\ ~FanoutRaises => (Receives(b) <=> link[b])
         /\ FanoutRaises => ~Receives(b)
         /\ FanoutRaises => ("usb" \in Sinks /\ ~link["usb"])
  <1>1. ~FanoutRaises => (Receives(b) <=> link[b])
    BY DEF FanoutRaises, Receives, Reached, Raises, Ahead
  <1>2. FanoutRaises => ("usb" \in Sinks /\ ~link["usb"])
    BY DEF FanoutRaises, Raises
  <1>3. FanoutRaises => ~Receives(b)
    BY <1>2, DispatcherAssumption DEF Receives, Reached, Raises, Ahead
  <1> QED BY <1>1, <1>2, <1>3

LEMMA KeyboardFanout ==
  ASSUME TypeOK, NEW flags \in SUBSET FlagBit, NEW key \in Keycode \cup {NoKey},
         FanoutKeyboard(flags, key), NEW b \in Sinks
  PROVE  /\ (~FanoutRaises /\ link[b]) => /\ host'[b].key = key
                                          /\ host'[b].mods = flags
                                          /\ host'[b].buttons = host[b].buttons
         /\ (FanoutRaises \/ ~link[b]) => host'[b] = host[b]
  <1>1. host[b] \in HostState
    BY DEF TypeOK
  <1>2. host'[b] = IF Receives(b) THEN KeyboardReport(host[b], flags, key) ELSE host[b]
    BY DEF FanoutKeyboard
  <1>3. /\ KeyboardReport(host[b], flags, key).key = key
        /\ KeyboardReport(host[b], flags, key).mods = flags
        /\ KeyboardReport(host[b], flags, key).buttons = host[b].buttons
    BY <1>1 DEF KeyboardReport, HostState
  <1>4. Receives(b) <=> (~FanoutRaises /\ link[b])
    BY FanoutAllOrNothing DEF Receives
  <1> QED BY <1>2, <1>3, <1>4

LEMMA MouseFanout ==
  ASSUME TypeOK, NEW flags \in SUBSET FlagBit, FanoutMouse(flags), NEW b \in Sinks
  PROVE  /\ host'[b].key = host[b].key
         /\ host'[b].mods = host[b].mods
         /\ (~FanoutRaises /\ link[b]) => host'[b].buttons = flags \cap ButtonBit
         /\ (FanoutRaises \/ ~link[b]) => host'[b] = host[b]
  <1>1. host[b] \in HostState
    BY DEF TypeOK
  <1>2. host'[b] = IF Receives(b) THEN MouseReport(host[b], flags) ELSE host[b]
    BY DEF FanoutMouse
  <1>3. /\ MouseReport(host[b], flags).key = host[b].key
        /\ MouseReport(host[b], flags).mods = host[b].mods
        /\ MouseReport(host[b], flags).buttons = flags \cap ButtonBit
    BY <1>1 DEF MouseReport, HostState
  <1>4. Receives(b) <=> (~FanoutRaises /\ link[b])
    BY FanoutAllOrNothing DEF Receives
  <1> QED BY <1>2, <1>3, <1>4

-----------------------------------------------------------------------------
(* The inductive invariant of the crash-free server.                       *)

(* A host without its device holds nothing.                                *)
DownReleased == \A b \in Sinks : ~link[b] => host[b] = Released

(* Half-way through release_all() the mouse half has already been done.    *)
ClosingButtonless ==
  proc = "closing" => \A b \in Sinks : host[b].buttons = {}

IInv ==
  /\ TypeOK
  /\ DownReleased
  /\ HeldKeyTracked
  /\ ClosingButtonless
  /\ ShutdownReleases
  /\ ReleaseClearsHosts
  /\ proc # "killed"

LEMMA InvInit == Init => IInv
  BY TypeInit, ReleasedType
  DEF Init, IInv, DownReleased, HeldKeyTracked, ClosingButtonless,
      ShutdownReleases, ReleaseClearsHosts, Keyless

(* The keyboard part of a dispatch, shared by arrow and trackpad packets.  *)
LEMMA KeyboardPartSafe ==
  ASSUME TypeOK, DownReleased, HeldKeyTracked, link' = link,
         NEW p \in Packet, KeyboardPart(p)
  PROVE  /\ DownReleased'
         /\ HeldKeyTracked'
         /\ (stage' = "returned" /\ p.keycode = NoKey)
            => \A b \in Sinks : Keyless(host'[b])
  <1>p. p.flags \in SUBSET FlagBit /\ p.keycode \in Keycode \cup {NoKey}
    BY DEF Packet
  <1>1. CASE PressKey(p)
    <2>1. FanoutKeyboard(p.flags, p.keycode) /\ p.keycode # NoKey
      BY <1>1 DEF PressKey
    <2>2. lastKeycode' = IF FanoutRaises THEN lastKeycode ELSE p.keycode
      BY <1>1 DEF PressKey
    <2>3. DownReleased'
      BY <1>p, <2>1, KeyboardFanout DEF DownReleased
    <2>4. ASSUME NEW b \in Sinks
          PROVE  /\ host'[b].key \in {NoKey, lastKeycode'}
                 /\ host'[b].key = NoKey => host'[b].mods = {}
      <3>1. CASE FanoutRaises
        BY <3>1, <1>p, <2>1, <2>2, KeyboardFanout DEF HeldKeyTracked, Keyless
      <3>2. CASE ~FanoutRaises /\ link[b]
        BY <3>2, <1>p, <2>1, <2>2, KeyboardFanout
      <3>3. CASE ~link[b]
        BY <3>3, <2>3, ReleasedType DEF DownReleased
      <3> QED BY <3>1, <3>2, <3>3
    <2> QED BY <2>1, <2>3, <2>4 DEF HeldKeyTracked, Keyless
  <1>2. CASE ReleaseKey(p)
    <2>1. FanoutKeyboard({}, NoKey) /\ p.keycode = NoKey
      BY <1>2 DEF ReleaseKey
    <2>2. lastKeycode' = IF FanoutRaises THEN lastKeycode ELSE NoKey
      BY <1>2 DEF ReleaseKey
    <2>3. DownReleased'
      BY <2>1, KeyboardFanout DEF DownReleased
    <2>4. stage' = "returned" => ~FanoutRaises
      BY <1>2 DEF ReleaseKey, Outcome
    <2>5. ASSUME NEW b \in Sinks
          PROVE  /\ host'[b].key \in {NoKey, lastKeycode'}
                 /\ host'[b].key = NoKey => host'[b].mods = {}
                 /\ ~FanoutRaises => host'[b].key = NoKey
      <3>1. CASE FanoutRaises
        BY <3>1, <2>1, <2>2, KeyboardFanout DEF HeldKeyTracked, Keyless
      <3>2. CASE ~FanoutRaises /\ link[b]
        BY <3>2, <2>1, <2>2, KeyboardFanout
      <3>3. CASE ~link[b]
        BY <3>3, <2>3, ReleasedType DEF DownReleased
      <3> QED BY <3>1, <3>2, <3>3
    <2> QED BY <2>3, <2>4, <2>5 DEF HeldKeyTracked, Keyless
  <1>3. CASE NoKeyToRelease(p)
    BY <1>3 DEF NoKeyToRelease, DownReleased, HeldKeyTracked, Keyless
  <1> QED BY <1>1, <1>2, <1>3 DEF KeyboardPart

(* A mouse report never touches what keys a host holds.                    *)
LEMMA MouseSafe ==
  ASSUME TypeOK, DownReleased, HeldKeyTracked, link' = link,
         lastKeycode' = lastKeycode, NEW flags \in SUBSET FlagBit,
         FanoutMouse(flags)
  PROVE  DownReleased' /\ HeldKeyTracked'
  BY MouseFanout DEF DownReleased, HeldKeyTracked, Keyless

LEMMA InvStep == IInv /\ [Next]_vars => IInv'
  <1> SUFFICES ASSUME IInv, [Next]_vars PROVE IInv'
    OBVIOUS
  <1> USE DEF IInv
  <1>t. TypeOK'
    BY TypeStep DEF CrashNext, vars
  <1>1. ASSUME NEW p \in Packets, Dispatch(p) PROVE IInv'
    <2>p. p \in Packet /\ p.flags \in SUBSET FlagBit
      BY DispatcherAssumption DEF Packet
    <2>r. proc = "running" /\ proc' = "running" /\ link' = link /\ packet' = p
      BY <1>1 DEF Dispatch
    <2>c. ClosingButtonless' /\ ShutdownReleases'
      BY <2>r DEF ClosingButtonless, ShutdownReleases
    <2>1. CASE HandleScroll(p)
      <3>1. DownReleased' /\ HeldKeyTracked'
        BY <2>1, <2>r, MouseSafe DEF HandleScroll
      <3>2. ReleaseClearsHosts'
        BY <2>1, <2>r DEF HandleScroll, ReleaseClearsHosts
      <3> QED BY <1>t, <2>r, <2>c, <3>1, <3>2
    <2>2. CASE HandleArrow(p)
      <3>1. /\ DownReleased' /\ HeldKeyTracked'
            /\ (stage' = "returned" /\ p.keycode = NoKey)
               => \A b \in Sinks : Keyless(host'[b])
        BY <2>p, <2>2, <2>r, KeyboardPartSafe DEF HandleArrow
      <3>2. ReleaseClearsHosts'
        BY <3>1, <2>r DEF ReleaseClearsHosts, Keyless
      <3> QED BY <1>t, <2>r, <2>c, <3>1, <3>2
    <2>3. CASE HandleTrackpad(p)
      <3>1. DownReleased' /\ HeldKeyTracked'
        BY <2>p, <2>3, <2>r, MouseSafe DEF HandleTrackpad
      <3>2. ReleaseClearsHosts'
        BY <2>3 DEF HandleTrackpad, ReleaseClearsHosts
      <3> QED BY <1>t, <2>r, <2>c, <3>1, <3>2
    <2> QED BY <1>1, <2>1, <2>2, <2>3 DEF Dispatch
  <1>2. CASE TrackpadKeys
    <2>p. packet \in Packet
      BY DEF TypeOK
    <2>r. proc = "running" /\ proc' = "running" /\ link' = link /\ packet' = packet
      BY <1>2 DEF TrackpadKeys
    <2>c. ClosingButtonless' /\ ShutdownReleases'
      BY <2>r DEF ClosingButtonless, ShutdownReleases
    <2>1. /\ DownReleased' /\ HeldKeyTracked'
          /\ (stage' = "returned" /\ packet.keycode = NoKey)
             => \A b \in Sinks : Keyless(host'[b])
      BY <2>p, <1>2, <2>r, KeyboardPartSafe DEF TrackpadKeys
    <2>2. ReleaseClearsHosts'
      BY <2>1, <2>r DEF ReleaseClearsHosts, Keyless
    <2> QED BY <1>t, <2>r, <2>c, <2>1, <2>2
  <1>3. CASE CloseMouse
    <2>1. FanoutMouse({}) /\ link' = link /\ lastKeycode' = lastKeycode
          /\ proc' = IF FanoutRaises THEN "unwinding" ELSE "closing"
      BY <1>3 DEF CloseMouse
    <2>2. DownReleased' /\ HeldKeyTracked'
      BY <2>1, MouseSafe
    <2>3. ClosingButtonless'
      <3>1. ASSUME NEW b \in Sinks, ~FanoutRaises PROVE host'[b].buttons = {}
        <4>1. CASE link[b]
          BY <4>1, <3>1, <2>1, MouseFanout
        <4>2. CASE ~link[b]
          BY <4>2, <2>1, <2>2, ReleasedType DEF DownReleased
        <4> QED BY <4>1, <4>2
      <3> QED BY <2>1, <3>1 DEF ClosingButtonless
    <2>4. ShutdownReleases'
      BY <2>1, <2>2, DispatcherAssumption DEF ShutdownReleases, DownReleased, FanoutRaises, Raises
    <2>5. ReleaseClearsHosts' /\ proc' # "killed"
      BY <2>1 DEF ReleaseClearsHosts
    <2> QED BY <1>t, <2>2, <2>3, <2>4, <2>5
  <1>4. CASE CloseKeyboard
    <2>1. /\ FanoutKeyboard({}, NoKey) /\ link' = link /\ proc = "closing"
          /\ proc' = IF FanoutRaises THEN "unwinding" ELSE "closed"
          /\ lastKeycode' = IF FanoutRaises THEN lastKeycode ELSE NoKey
      BY <1>4 DEF CloseKeyboard
    <2>2. ASSUME NEW b \in Sinks
          PROVE  /\ ~link'[b] => host'[b] = Released
                 /\ FanoutRaises => host'[b] = host[b]
                 /\ ~FanoutRaises => host'[b] = Released
      <3>1. CASE FanoutRaises \/ ~link[b]
        BY <3>1, <2>1, KeyboardFanout DEF DownReleased
      <3>2. CASE ~FanoutRaises /\ link[b]
        <4>1. /\ host'[b].key = NoKey
              /\ host'[b].mods = {}
              /\ host'[b].buttons = host[b].buttons
          BY <3>2, <2>1, KeyboardFanout
        <4>2. host[b].buttons = {}
          BY <2>1 DEF ClosingButtonless
        <4>3. host'[b] \in HostState
          BY <1>t DEF TypeOK
        <4> QED BY <4>1, <4>2, <4>3, <3>2, <2>1 DEF HostState, Released
      <3> QED BY <3>1, <3>2
    <2>3. DownReleased'
      BY <2>2 DEF DownReleased
    <2>4. HeldKeyTracked'
      BY <2>1, <2>2, ReleasedType DEF HeldKeyTracked, Keyless
    <2>5. ShutdownReleases'
      BY <2>1, <2>2, <2>3, DispatcherAssumption
      DEF ShutdownReleases, DownReleased, FanoutRaises, Raises
    <2>6. ClosingButtonless' /\ ReleaseClearsHosts' /\ proc' # "killed"
      BY <2>1 DEF ClosingButtonless, ReleaseClearsHosts
    <2> QED BY <1>t, <2>3, <2>4, <2>5, <2>6
  <1>5. CASE CloseServer \/ Exit
    <2>1. /\ proc \in {"closed", "leaving", "unwinding"} /\ proc' \in {"leaving", "stopped"}
          /\ lastKeycode' = lastKeycode
          /\ link' = [b \in Sinks |-> link[b] /\ b # "bt"]
          /\ host' = [b \in Sinks |-> IF b = "bt" THEN Released ELSE host[b]]
      BY <1>5 DEF CloseServer, Exit, BluetoothGone
    <2>2. \A b \in Sinks : host'[b] = Released
      BY <2>1 DEF ShutdownReleases
    <2> QED BY <1>t, <2>1, <2>2, ReleasedType
            DEF DownReleased, HeldKeyTracked, ClosingButtonless, Keyless,
                ShutdownReleases, ReleaseClearsHosts
  <1>6. CASE Restart
    <2>1. \A b \in Sinks : host[b] = Released
      BY <1>6 DEF Restart, ShutdownReleases
    <2> QED BY <1>t, <1>6, <2>1, ReleasedType
            DEF Restart, DownReleased, HeldKeyTracked, ClosingButtonless, Keyless,
                ShutdownReleases, ReleaseClearsHosts
  <1>7. CASE Links
    <2>1. PICK b \in Sinks : LinkDown(b) \/ LinkUp(b)
      BY <1>7 DEF Links
    <2>2. /\ lastKeycode' = lastKeycode /\ packet' = packet
          /\ stage' = stage /\ proc' = proc
      BY <2>1 DEF LinkDown, LinkUp
    <2>3. ASSUME NEW c \in Sinks
          PROVE  /\ host'[c] = host[c] \/ host'[c] = Released
                 /\ ~link'[c] => host'[c] = Released
      BY <2>1, ReleasedType DEF LinkDown, LinkUp, TypeOK, DownReleased
    <2>4. \A c \in Sinks : host[c] = Released => host'[c] = Released
      BY <2>3
    <2> QED BY <1>t, <2>2, <2>3, <2>4, ReleasedType
            DEF DownReleased, HeldKeyTracked, ClosingButtonless, Keyless,
                ShutdownReleases, ReleaseClearsHosts
  <1>8. CASE AcceptFails \/ UNCHANGED vars
    BY <1>8, <1>t DEF AcceptFails, vars, DownReleased, HeldKeyTracked, ClosingButtonless,
                      Keyless, ShutdownReleases, ReleaseClearsHosts
  <1> QED BY <1>1, <1>2, <1>3, <1>4, <1>5, <1>6, <1>7, <1>8 DEF Next

(* _last_keycode never loses track of a key held on a host.                *)
THEOREM HeldKeyIsTracked == Spec => []HeldKeyTracked
  <1>1. IInv => HeldKeyTracked
    BY DEF IInv
  <1> QED BY <1>1, InvInit, InvStep, PTL DEF Spec

(* A release packet dispatched without an exception releases every host.   *)
THEOREM ReleaseReachesHosts == Spec => []ReleaseClearsHosts
  <1>1. IInv => ReleaseClearsHosts
    BY DEF IInv
  <1> QED BY <1>1, InvInit, InvStep, PTL DEF Spec

(* A release_all() that returned leaves nothing held anywhere for the rest *)
(* of the shutdown; an interrupted one, on the Bluetooth host at most, and *)
(* nothing once the process ends.                                          *)
THEOREM ShutdownIsClean == Spec => []ShutdownReleases
  <1>1. IInv => ShutdownReleases
    BY DEF IInv
  <1> QED BY <1>1, InvInit, InvStep, PTL DEF Spec

-----------------------------------------------------------------------------
(* The refinement of the shared keyboard.                                  *)

(* The chord a host shows, the value of Keyboard's variable for one host.  *)
ChordOf(b) == Keyboard!Chord(host[b].key, host[b].mods)

LEMMA ReleasedShowsUp ==
  ASSUME NEW b \in Sinks, host[b] = Released
  PROVE  ChordOf(b) = Keyboard!Up
  BY ReleasedType DEF ChordOf, Keyboard!Chord, Keyboard!Up

LEMMA ReleasedShowsUpNext ==
  ASSUME NEW b \in Sinks, host'[b] = Released
  PROVE  Keyboard!Chord(host'[b].key, host'[b].mods) = Keyboard!Up
  BY ReleasedType DEF Keyboard!Chord, Keyboard!Up

(* A keyboard report that does not raise shows one chord to every attached *)
(* host; one that raises shows nothing to anybody.                         *)
LEMMA KeyboardFanoutShows ==
  ASSUME TypeOK, DownReleased, link' = link,
         NEW flags \in SUBSET FlagBit, NEW key \in Keycode \cup {NoKey},
         FanoutKeyboard(flags, key)
  PROVE  /\ ~FanoutRaises => Keyboard!Show(Keyboard!Chord(key, flags))
         /\ FanoutRaises => host' = host
  <1>1. ASSUME ~FanoutRaises, NEW b \in Sinks
        PROVE  Keyboard!Chord(host'[b].key, host'[b].mods)
               = IF link[b] THEN Keyboard!Chord(key, flags) ELSE Keyboard!Up
    <2>1. CASE link[b]
      BY <2>1, <1>1, KeyboardFanout
    <2>2. CASE ~link[b]
      <3>1. host'[b] = Released
        BY <2>2, KeyboardFanout DEF DownReleased
      <3> QED BY <3>1, <2>2, ReleasedShowsUpNext
    <2> QED BY <2>1, <2>2
  <1>2. ASSUME FanoutRaises PROVE host' = host
    <2>1. \A b \in Sinks : host'[b] = host[b]
      BY <1>2, KeyboardFanout
    <2>2. host = [b \in Sinks |-> host[b]] /\ host' = [b \in Sinks |-> host'[b]]
      BY DEF TypeOK, FanoutKeyboard
    <2> QED BY <2>1, <2>2
  <1> QED BY <1>1, <1>2 DEF Keyboard!Show, Keyboard!Chord

LEMMA ReleaseShows ==
  ASSUME TypeOK, DownReleased, link' = link, lastKeycode' = NoKey,
         FanoutKeyboard({}, NoKey), ~FanoutRaises
  PROVE  Keyboard!Release
  <1>1. Keyboard!Show(Keyboard!Up)
    BY KeyboardFanoutShows DEF Keyboard!Up
  <1>2. [b \in Sinks |-> IF link[b] THEN Keyboard!Up ELSE Keyboard!Up]
        = [b \in Sinks |-> Keyboard!Up]
    OBVIOUS
  <1> QED BY <1>1, <1>2 DEF Keyboard!Release, Keyboard!Show

LEMMA MouseFanoutShows ==
  ASSUME TypeOK, NEW flags \in SUBSET FlagBit, FanoutMouse(flags),
         link' = link, lastKeycode' = lastKeycode
  PROVE  UNCHANGED Keyboard!vars
  <1>1. \A b \in Sinks : host'[b].key = host[b].key /\ host'[b].mods = host[b].mods
    BY MouseFanout
  <1> QED BY <1>1 DEF Keyboard!vars

LEMMA KeyboardPartShows ==
  ASSUME TypeOK, DownReleased, HeldKeyTracked, link' = link,
         NEW p \in Packet, KeyboardPart(p)
  PROVE  [Keyboard!Next]_(Keyboard!vars)
  <1>p. p.flags \in SUBSET FlagBit /\ p.keycode \in Keycode \cup {NoKey}
    BY DEF Packet
  <1>1. CASE PressKey(p)
    <2>1. /\ FanoutKeyboard(p.flags, p.keycode)
          /\ p.keycode \in Keycode
          /\ lastKeycode' = IF FanoutRaises THEN lastKeycode ELSE p.keycode
      BY <1>p, <1>1 DEF PressKey
    <2>2. CASE FanoutRaises
      BY <1>p, <2>1, <2>2, KeyboardFanoutShows DEF Keyboard!vars
    <2>3. CASE ~FanoutRaises
      <3>1. Keyboard!Press(p.keycode, p.flags)
        BY <1>p, <2>1, <2>3, KeyboardFanoutShows DEF Keyboard!Press
      <3> QED BY <1>p, <2>1, <3>1 DEF Keyboard!Next
    <2> QED BY <2>2, <2>3
  <1>2. CASE ReleaseKey(p)
    <2>1. /\ FanoutKeyboard({}, NoKey)
          /\ lastKeycode' = IF FanoutRaises THEN lastKeycode ELSE NoKey
      BY <1>2 DEF ReleaseKey
    <2>2. CASE FanoutRaises
      BY <2>1, <2>2, KeyboardFanoutShows DEF Keyboard!vars
    <2>3. CASE ~FanoutRaises
      <3>1. Keyboard!Release
        BY <2>1, <2>3, ReleaseShows
      <3> QED BY <3>1 DEF Keyboard!Next
    <2> QED BY <2>2, <2>3
  <1>3. CASE NoKeyToRelease(p)
    BY <1>3 DEF NoKeyToRelease, Keyboard!vars
  <1> QED BY <1>1, <1>2, <1>3 DEF KeyboardPart

LEMMA KeyboardInit == Init => Keyboard!Init
  <1> SUFFICES ASSUME Init PROVE Keyboard!Init
    OBVIOUS
  <1>1. \A b \in Sinks : host[b] = Released
    BY DEF Init
  <1>2. \A b \in Sinks : host[b].key = NoKey /\ host[b].mods = {}
    BY <1>1, ReleasedType
  <1> QED BY <1>2 DEF Init, Keyboard!Init, Keyboard!Up, Keyboard!Chord

LEMMA KeyboardStep == IInv /\ IInv' /\ [Next]_vars => [Keyboard!Next]_(Keyboard!vars)
  <1> SUFFICES ASSUME IInv, IInv', [Next]_vars PROVE [Keyboard!Next]_(Keyboard!vars)
    OBVIOUS
  <1> USE DEF IInv
  <1>1. ASSUME NEW p \in Packets, Dispatch(p) PROVE [Keyboard!Next]_(Keyboard!vars)
    <2>p. p \in Packet /\ p.flags \in SUBSET FlagBit /\ link' = link
      BY <1>1, DispatcherAssumption DEF Packet, Dispatch
    <2>1. CASE HandleScroll(p)
      BY <2>p, <2>1, MouseFanoutShows DEF HandleScroll
    <2>2. CASE HandleArrow(p)
      BY <2>p, <2>2, KeyboardPartShows DEF HandleArrow
    <2>3. CASE HandleTrackpad(p)
      BY <2>p, <2>3, MouseFanoutShows DEF HandleTrackpad
    <2> QED BY <1>1, <2>1, <2>2, <2>3 DEF Dispatch
  <1>2. CASE TrackpadKeys
    BY <1>2, KeyboardPartShows DEF TrackpadKeys, TypeOK
  <1>3. CASE CloseMouse
    BY <1>3, MouseFanoutShows DEF CloseMouse
  <1>4. CASE CloseKeyboard
    <2>1. /\ FanoutKeyboard({}, NoKey) /\ link' = link
          /\ lastKeycode' = IF FanoutRaises THEN lastKeycode ELSE NoKey
      BY <1>4 DEF CloseKeyboard
    <2>2. CASE FanoutRaises
      BY <2>1, <2>2, KeyboardFanoutShows DEF Keyboard!vars
    <2>3. CASE ~FanoutRaises
      <3>1. Keyboard!Release
        BY <2>1, <2>3, ReleaseShows
      <3> QED BY <3>1 DEF Keyboard!Next
    <2> QED BY <2>2, <2>3
  <1>5. CASE CloseServer \/ Exit \/ Links
    <2>1. /\ lastKeycode' = lastKeycode
          /\ link' \in [Sinks -> BOOLEAN]
          /\ \A b \in Sinks : host'[b] = IF link'[b] THEN host[b] ELSE Released
      <3>1. CASE CloseServer \/ Exit
        <4>1. /\ lastKeycode' = lastKeycode
              /\ link' = [b \in Sinks |-> link[b] /\ b # "bt"]
              /\ host' = [b \in Sinks |-> IF b = "bt" THEN Released ELSE host[b]]
          BY <3>1 DEF CloseServer, Exit, BluetoothGone
        <4>2. ASSUME NEW b \in Sinks
              PROVE  host'[b] = IF link'[b] THEN host[b] ELSE Released
          <5>1. CASE b = "bt"
            BY <4>1, <5>1
          <5>2. CASE b # "bt"
            BY <4>1, <5>2 DEF DownReleased
          <5> QED BY <5>1, <5>2
        <4>3. link' \in [Sinks -> BOOLEAN]
          BY <4>1
        <4> QED BY <4>1, <4>2, <4>3
      <3>2. CASE Links
        <4>1. PICK b \in Sinks : LinkDown(b) \/ LinkUp(b)
          BY <3>2 DEF Links
        <4> QED BY <4>1 DEF LinkDown, LinkUp, TypeOK, DownReleased
      <3> QED BY <1>5, <3>1, <3>2
    <2>2. ASSUME NEW b \in Sinks
          PROVE  Keyboard!Chord(host'[b].key, host'[b].mods)
                 = IF link'[b] THEN Keyboard!Chord(host[b].key, host[b].mods) ELSE Keyboard!Up
      BY <2>1, ReleasedShowsUpNext
    <2>3. Keyboard!Replug
      BY <2>1, <2>2 DEF Keyboard!Replug, Keyboard!Chord
    <2> QED BY <2>3 DEF Keyboard!Next
  <1>6. CASE Restart
    <2>1. /\ lastKeycode' = NoKey /\ link' = link
          /\ \A b \in Sinks : host'[b] = Released
      BY <1>6 DEF Restart, ShutdownReleases
    <2>2. \A b \in Sinks : Keyboard!Chord(host'[b].key, host'[b].mods) = Keyboard!Up
      BY <2>1, ReleasedShowsUpNext
    <2>3. Keyboard!Release
      BY <2>1, <2>2 DEF Keyboard!Release, Keyboard!Chord
    <2> QED BY <2>3 DEF Keyboard!Next
  <1>7. CASE AcceptFails \/ UNCHANGED vars
    BY <1>7 DEF AcceptFails, vars, Keyboard!vars
  <1> QED BY <1>1, <1>2, <1>3, <1>4, <1>5, <1>6, <1>7 DEF Next

(* The dispatcher with its fan-out implements one keyboard that all hosts  *)
(* share: a press or release is one step for all attached hosts.           *)
THEOREM SharesKeyboard == Spec => ImplementsSharedKeyboard
  BY InvInit, InvStep, KeyboardInit, KeyboardStep, PTL
  DEF Spec, Keyboard!Spec, ImplementsSharedKeyboard

LEMMA OneChordInit == Keyboard!Init => Keyboard!OneChord
  BY DEF Keyboard!Init, Keyboard!OneChord

LEMMA OneChordStep ==
  Keyboard!OneChord /\ [Keyboard!Next]_(Keyboard!vars) => Keyboard!OneChord'
  <1> DEFINE Shown == [b \in Sinks |-> [key |-> host[b].key, mods |-> host[b].mods]]
  <1> SUFFICES ASSUME Keyboard!OneChord, [Keyboard!Next]_(Keyboard!vars)
               PROVE  Keyboard!OneChord'
    OBVIOUS
  <1>1. PICK mods \in SUBSET FlagBit :
          \A b \in Sinks : Shown[b] \in {Keyboard!Up, Keyboard!Chord(lastKeycode, mods)}
    BY DEF Keyboard!OneChord
  <1>2. SUFFICES \E m \in SUBSET FlagBit :
          \A b \in Sinks : Shown'[b] \in {Keyboard!Up, Keyboard!Chord(lastKeycode', m)}
    BY DEF Keyboard!OneChord, Keyboard!Up, Keyboard!Chord
  <1> HIDE DEF Shown
  <1>3. ASSUME NEW key \in Keycode, NEW m \in SUBSET FlagBit, lastKeycode' = key,
               Shown' = [b \in Sinks |-> IF link[b] THEN Keyboard!Chord(key, m)
                                         ELSE Keyboard!Up]
        PROVE  \E n \in SUBSET FlagBit :
          \A b \in Sinks : Shown'[b] \in {Keyboard!Up, Keyboard!Chord(lastKeycode', n)}
    BY <1>3
  <1>4. CASE \E key \in Keycode, m \in SUBSET FlagBit : Keyboard!Press(key, m)
    BY <1>3, <1>4 DEF Keyboard!Press, Keyboard!Show, Shown
  <1>5. CASE Keyboard!Release
    BY <1>5 DEF Keyboard!Release, Shown
  <1>6. CASE Keyboard!Replug
    <2>1. /\ lastKeycode' = lastKeycode
          /\ Shown' = [b \in Sinks |-> IF link'[b] THEN Shown[b] ELSE Keyboard!Up]
      BY <1>6 DEF Keyboard!Replug, Shown
    <2> QED BY <1>1, <2>1
  <1>7. CASE UNCHANGED Keyboard!vars
    <2>1. lastKeycode' = lastKeycode /\ Shown' = Shown
      BY <1>7 DEF Keyboard!vars, Shown
    <2> QED BY <1>1, <2>1
  <1> QED BY <1>4, <1>5, <1>6, <1>7 DEF Keyboard!Next

(* USB and Bluetooth hosts never disagree about the chord that is held:    *)
(* what a host shows is the held key with the modifiers of the press that  *)
(* every other host shows, or nothing.                                     *)
THEOREM HostsAgree == Spec => []Keyboard!OneChord
  BY SharesKeyboard, OneChordInit, OneChordStep, PTL
  DEF Keyboard!Spec, ImplementsSharedKeyboard

-----------------------------------------------------------------------------
(* Crashes.  Between a crash and the restart the Bluetooth host is gone.   *)

DeadBluetoothReleased ==
  ~Alive => \A b \in Sinks : b = "bt" => host[b] = Released

CrashInv ==
  /\ TypeOK
  /\ DownReleased
  /\ KeyTrackedAfterCrash
  /\ DeadBluetoothReleased
  /\ ~Alive => ~accepting /\ \A b \in Sinks : b = "bt" => ~link[b]

LEMMA CrashInvInit == Init => CrashInv
  BY TypeInit, ReleasedType
  DEF Init, CrashInv, DownReleased, KeyTrackedAfterCrash, DeadBluetoothReleased, Alive

LEMMA KeyboardPartCrashSafe ==
  ASSUME TypeOK, DownReleased, KeyTrackedAfterCrash, link' = link,
         NEW p \in Packet, KeyboardPart(p)
  PROVE  DownReleased' /\ KeyTrackedAfterCrash'
  <1>p. p.flags \in SUBSET FlagBit /\ p.keycode \in Keycode \cup {NoKey}
    BY DEF Packet
  <1>1. CASE \E flags \in SUBSET FlagBit, key \in Keycode \cup {NoKey} :
               /\ FanoutKeyboard(flags, key)
               /\ lastKeycode' = IF FanoutRaises THEN lastKeycode ELSE key
    <2>1. PICK flags \in SUBSET FlagBit, key \in Keycode \cup {NoKey} :
            /\ FanoutKeyboard(flags, key)
            /\ lastKeycode' = IF FanoutRaises THEN lastKeycode ELSE key
      BY <1>1
    <2>2. DownReleased'
      BY <2>1, KeyboardFanout DEF DownReleased
    <2>3. ASSUME NEW b \in Sinks, b = "bt" \/ lastKeycode' # NoKey
          PROVE  host'[b].key \in {NoKey, lastKeycode'}
      <3>1. CASE FanoutRaises
        BY <3>1, <2>1, <2>3, KeyboardFanout DEF KeyTrackedAfterCrash
      <3>2. CASE ~FanoutRaises /\ link[b]
        BY <3>2, <2>1, KeyboardFanout
      <3>3. CASE ~link[b]
        BY <3>3, <2>2, ReleasedType DEF DownReleased
      <3> QED BY <3>1, <3>2, <3>3
    <2> QED BY <2>2, <2>3 DEF KeyTrackedAfterCrash
  <1>2. CASE NoKeyToRelease(p)
    BY <1>2 DEF NoKeyToRelease, DownReleased, KeyTrackedAfterCrash
  <1> QED BY <1>p, <1>1, <1>2 DEF KeyboardPart, PressKey, ReleaseKey

LEMMA CrashInvStep == CrashInv /\ [CrashNext]_vars => CrashInv'
  <1> SUFFICES ASSUME CrashInv, [CrashNext]_vars PROVE CrashInv'
    OBVIOUS
  <1> USE DEF CrashInv
  <1>t. TypeOK'
    BY TypeStep
  <1>1. ASSUME NEW p \in Packets, Dispatch(p) PROVE CrashInv'
    <2>p. p \in Packet /\ p.flags \in SUBSET FlagBit
      BY DispatcherAssumption DEF Packet
    <2>r. proc = "running" /\ proc' = "running" /\ link' = link
      BY <1>1 DEF Dispatch
    <2>m. ASSUME NEW flags \in SUBSET FlagBit, FanoutMouse(flags), lastKeycode' = lastKeycode
          PROVE  DownReleased' /\ KeyTrackedAfterCrash'
      BY <2>r, <2>m, MouseFanout DEF DownReleased, KeyTrackedAfterCrash
    <2>1. DownReleased' /\ KeyTrackedAfterCrash'
      BY <1>1, <2>p, <2>r, <2>m, KeyboardPartCrashSafe
      DEF Dispatch, HandleScroll, HandleArrow, HandleTrackpad
    <2> QED BY <1>t, <2>r, <2>1 DEF DeadBluetoothReleased, Alive
  <1>2. CASE TrackpadKeys
    <2>r. proc = "running" /\ proc' = "running" /\ link' = link /\ packet \in Packet
      BY <1>2 DEF TrackpadKeys, TypeOK
    <2>1. DownReleased' /\ KeyTrackedAfterCrash'
      BY <1>2, <2>r, KeyboardPartCrashSafe DEF TrackpadKeys
    <2> QED BY <1>t, <2>r, <2>1 DEF DeadBluetoothReleased, Alive
  <1>3. CASE CloseMouse
    <2>1. FanoutMouse({}) /\ link' = link /\ lastKeycode' = lastKeycode /\ Alive'
      BY <1>3 DEF CloseMouse, Alive
    <2>2. DownReleased' /\ KeyTrackedAfterCrash'
      BY <2>1, MouseFanout DEF DownReleased, KeyTrackedAfterCrash
    <2> QED BY <1>t, <2>1, <2>2 DEF DeadBluetoothReleased
  <1>4. CASE CloseKeyboard
    <2>1. /\ FanoutKeyboard({}, NoKey) /\ link' = link /\ Alive'
          /\ lastKeycode' = IF FanoutRaises THEN lastKeycode ELSE NoKey
      BY <1>4 DEF CloseKeyboard, Alive
    <2>2. DownReleased'
      BY <2>1, KeyboardFanout DEF DownReleased
    <2>3. ASSUME NEW b \in Sinks, b = "bt" \/ lastKeycode' # NoKey
          PROVE  host'[b].key \in {NoKey, lastKeycode'}
      <3>1. CASE FanoutRaises
        BY <3>1, <2>1, <2>3, KeyboardFanout DEF KeyTrackedAfterCrash
      <3>2. CASE ~FanoutRaises /\ link[b]
        BY <3>2, <2>1, KeyboardFanout
      <3>3. CASE ~link[b]
        BY <3>3, <2>1, <2>2, ReleasedType DEF DownReleased
      <3> QED BY <3>1, <3>2, <3>3
    <2> QED BY <1>t, <2>1, <2>2, <2>3 DEF KeyTrackedAfterCrash, DeadBluetoothReleased
  <1>5. CASE CloseServer \/ Exit \/ Kill
    <2>1. BluetoothGone /\ lastKeycode' = lastKeycode /\ (~Alive' => ~accepting')
      BY <1>5 DEF CloseServer, Exit, Kill, Alive
    <2> QED BY <1>t, <2>1, ReleasedType
            DEF BluetoothGone, DownReleased, KeyTrackedAfterCrash, DeadBluetoothReleased
  <1>6. CASE Restart
    <2>1. /\ ~Alive /\ Alive' /\ host' = host /\ link' = link /\ lastKeycode' = NoKey
      BY <1>6 DEF Restart, Alive
    <2> QED BY <1>t, <2>1, ReleasedType
            DEF DownReleased, KeyTrackedAfterCrash, DeadBluetoothReleased
  <1>7. CASE Links
    <2>1. PICK b \in Sinks : LinkDown(b) \/ LinkUp(b)
      BY <1>7 DEF Links
    <2>2. lastKeycode' = lastKeycode /\ proc' = proc
      BY <2>1 DEF LinkDown, LinkUp
    <2>5. ~accepting => ~accepting'
      BY <2>1, Zenon DEF LinkDown, LinkUp
    <2>3. ASSUME NEW c \in Sinks
          PROVE  /\ host'[c] = host[c] \/ host'[c] = Released
                 /\ ~link'[c] => host'[c] = Released
      BY <2>1, ReleasedType DEF LinkDown, LinkUp, TypeOK, DownReleased
    <2>4. ASSUME NEW c \in Sinks, c = "bt", ~Alive PROVE ~link'[c]
      <3>1. ~link[c] /\ ~accepting
        BY <2>4
      <3>2. CASE LinkDown(b)
        BY <3>1, <3>2 DEF LinkDown, TypeOK
      <3>3. CASE LinkUp(b)
        <4>1. b # c
          BY <3>1, <3>3, <2>4 DEF LinkUp
        <4> QED BY <3>1, <3>3, <4>1 DEF LinkUp, TypeOK
      <3> QED BY <2>1, <3>2, <3>3
    <2> QED BY <1>t, <2>2, <2>3, <2>4, <2>5, ReleasedType
            DEF DownReleased, KeyTrackedAfterCrash, DeadBluetoothReleased, Alive
  <1>8. CASE AcceptFails \/ UNCHANGED vars
    BY <1>8, <1>t DEF AcceptFails, vars, DownReleased, KeyTrackedAfterCrash,
                      DeadBluetoothReleased, Alive
  <1> QED BY <1>1, <1>2, <1>3, <1>4, <1>5, <1>6, <1>7, <1>8 DEF CrashNext, Next

(* Killed at any moment, the server is out of step with a USB host only    *)
(* until it next holds a key itself, and with a Bluetooth host never.      *)
THEOREM CrashTracking == CrashSpec => []KeyTrackedAfterCrash
  <1>1. CrashInv => KeyTrackedAfterCrash
    BY DEF CrashInv
  <1> QED BY <1>1, CrashInvInit, CrashInvStep, PTL DEF CrashSpec
=============================================================================
