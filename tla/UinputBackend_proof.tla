------------------------- MODULE UinputBackend_proof -------------------------
(***************************************************************************)
(* Proofs about UinputBackend for every set of keycodes and flag bits and  *)
(* every choice of mapped ones: the newest key stays down until its        *)
(* release, and while presses do not overlap the backend implements the    *)
(* USB gadget of HIDDispatcher.                                            *)
(***************************************************************************)
EXTENDS UinputBackend, TLAPS

(* The backend's lists describe the newest press, all of the device as     *)
(* long as presses did not overlap, and the dispatcher's key as long as    *)
(* the presses also used mapped codes.                                     *)
Remembered ==
  /\ device.buttons = buttons
  /\ activeKeys \subseteq device.keys
  /\ activeMods \subseteq device.mods
  /\ activeKeys = {lastKeycode} \cap MappedKey
  /\ lastKeycode = NoKey => activeMods = {}

InStep ==
  /\ ~overlapped => device.keys = activeKeys /\ device.mods = activeMods
  /\ ~diverged => ~overlapped /\ lastKeycode \in MappedKey \cup {NoKey}

AtRest == proc \in {"closed", "stopped"} => lastKeycode = NoKey
EndedFresh == proc = "stopped" => buttons = {} /\ ~diverged
MouseDone == proc # "running" => buttons = {} /\ stage # "keyboard"

UInv == TypeOK /\ Remembered /\ InStep /\ AtRest /\ EndedFresh /\ MouseDone

DeviceType == [buttons : SUBSET ButtonBit, mods : SUBSET MappedFlag, keys : SUBSET MappedKey]

LEMMA UInit == Init => UInv
  <1> SUFFICES ASSUME Init PROVE UInv
    OBVIOUS
  <1>1. {NoKey} \cap MappedKey = {}
    BY ReportsAssumption, UinputAssumption
  <1>2. TypeOK
    BY DEF Init, TypeOK, NothingHeld, Packet, Mode
  <1>3. Remembered /\ InStep
    BY <1>1 DEF Init, Remembered, InStep, NothingHeld
  <1> QED BY <1>2, <1>3 DEF Init, UInv, AtRest, EndedFresh, MouseDone

(* What each operation of the two devices does to a device in step.        *)
LEMMA MouseWriteEffect ==
  ASSUME UInv, NEW flags \in SUBSET FlagBit, MouseWrite(flags)
  PROVE  /\ buttons' = flags \cap ButtonBit
         /\ device' = [device EXCEPT !.buttons = flags \cap ButtonBit]
         /\ UNCHANGED <<activeKeys, activeMods>>
  <1> DEFINE new == flags \cap ButtonBit
             changed == (new \ buttons) \cup (buttons \ new)
  <1>1. (buttons \ changed) \cup (changed \cap new) = new
    OBVIOUS
  <1>2. device.buttons = buttons /\ device \in DeviceType
    BY DEF UInv, TypeOK, Remembered, DeviceType
  <1>3. device' = [device EXCEPT !.buttons = (@ \ changed) \cup (changed \cap new)]
    BY DEF MouseWrite
  <1> QED BY <1>1, <1>2, <1>3 DEF MouseWrite, DeviceType

LEMMA MouseReleaseEffect ==
  ASSUME UInv, MouseRelease
  PROVE  /\ buttons' = {}
         /\ device' = [device EXCEPT !.buttons = {}]
         /\ UNCHANGED <<activeKeys, activeMods>>
  <1>1. CASE buttons # {}
    BY <1>1, MouseWriteEffect DEF MouseRelease
  <1>2. CASE buttons = {}
    <2>1. device.buttons = {} /\ device \in DeviceType
      BY <1>2 DEF UInv, TypeOK, Remembered, DeviceType
    <2>2. [device EXCEPT !.buttons = {}] = device
      BY <2>1 DEF DeviceType
    <2> QED BY <1>2, <2>2 DEF MouseRelease, trackVars
  <1> QED BY <1>1, <1>2

(* A step that only moves buttons keeps the invariant.                     *)
LEMMA MouseKeeps ==
  ASSUME UInv, NEW new \in SUBSET ButtonBit, buttons' = new,
         device' = [device EXCEPT !.buttons = new],
         UNCHANGED <<activeKeys, activeMods, lastKeycode, history>>
  PROVE  /\ Remembered' /\ InStep'
         /\ device' \in DeviceType
  <1>1. device \in DeviceType
    BY DEF UInv, TypeOK, DeviceType
  <1>2. /\ device'.buttons = new /\ device'.mods = device.mods /\ device'.keys = device.keys
        /\ device' \in DeviceType
    BY <1>1 DEF DeviceType
  <1> QED BY <1>2 DEF UInv, history, Remembered, InStep

LEMMA KeyboardPartKeeps ==
  ASSUME UInv, NEW p \in Packet, KeyboardPart(p), proc = "running", UNCHANGED proc,
         packet' \in Packet
  PROVE  UInv'
  <1>1. device \in DeviceType /\ p.keycode \in Keycode \cup {NoKey} /\ p.flags \subseteq FlagBit
    BY DEF UInv, TypeOK, DeviceType, Packet
  <1>2. CASE PressKey(p)
    <2>1. /\ device'.buttons = device.buttons
          /\ device'.mods = device.mods \cup (p.flags \cap MappedFlag)
          /\ device'.keys = device.keys \cup ({p.keycode} \cap MappedKey)
          /\ device' \in DeviceType
      BY <1>1, <1>2 DEF PressKey, KeyboardWrite, Press, DeviceType
    <2>2. /\ buttons' = buttons /\ lastKeycode' = p.keycode /\ p.keycode # NoKey
          /\ activeKeys' = {p.keycode} \cap MappedKey /\ activeMods' = p.flags \cap MappedFlag
      BY <1>2 DEF PressKey, KeyboardWrite
    <2>3. Remembered'
      BY <2>1, <2>2 DEF UInv, Remembered
    <2>4. InStep'
      <3>1. ~overlapped' => device.keys = {} /\ device.mods = {}
        BY <1>2, ReportsAssumption, UinputAssumption DEF PressKey, UInv, InStep, Remembered
      <3>2. ~diverged' => ~overlapped' /\ p.keycode \in MappedKey
        BY <1>2 DEF PressKey, UInv, InStep
      <3> QED BY <3>1, <3>2, <2>1, <2>2 DEF InStep
    <2>5. overlapped' \in BOOLEAN /\ diverged' \in BOOLEAN
      BY <1>2 DEF PressKey
    <2> QED BY <1>1, <1>2, <2>1, <2>2, <2>3, <2>4, <2>5
            DEF PressKey, KeyboardPart, UInv, history, TypeOK, AtRest, EndedFresh, MouseDone,
                DeviceType
  <1>3. CASE ReleaseKey(p)
    <2>1. /\ device'.buttons = device.buttons
          /\ device'.mods = device.mods \ activeMods
          /\ device'.keys = device.keys \ activeKeys
          /\ device' \in DeviceType
      BY <1>1, <1>3 DEF ReleaseKey, KeyboardRelease, ReleaseActive, DeviceType
    <2>2. /\ buttons' = buttons /\ lastKeycode' = NoKey
          /\ activeKeys' = {} /\ activeMods' = {} /\ UNCHANGED history
      BY <1>3 DEF ReleaseKey, KeyboardRelease
    <2>3. NoKey \notin MappedKey
      BY ReportsAssumption, UinputAssumption
    <2>4. Remembered' /\ InStep'
      BY <2>1, <2>2, <2>3 DEF UInv, history, Remembered, InStep
    <2> QED BY <1>1, <2>1, <2>2, <2>4
            DEF KeyboardPart, UInv, history, TypeOK, AtRest, EndedFresh, MouseDone, DeviceType
  <1>4. CASE NoKeyToRelease(p)
    BY <1>4 DEF NoKeyToRelease, trackVars, KeyboardPart, UInv, history, TypeOK, Remembered,
                InStep, AtRest,
                EndedFresh, MouseDone
  <1> QED BY <1>2, <1>3, <1>4 DEF KeyboardPart

LEMMA UStep == UInv /\ [Next]_vars => UInv'
  <1> SUFFICES ASSUME UInv, [Next]_vars PROVE UInv'
    OBVIOUS
  <1>0. TypeOK /\ packet \in Packet
    BY DEF UInv, TypeOK
  <1>1. ASSUME NEW p \in Packets, Dispatch(p) PROVE UInv'
    <2>1. p \in Packet /\ p.flags \in SUBSET FlagBit
      BY UinputAssumption DEF Packet
    <2>2. CASE HandleArrow(p)
      BY <1>1, <2>1, <2>2, KeyboardPartKeeps DEF Dispatch, HandleArrow
    <2>3. CASE HandleScroll(p)
      <3>1. /\ buttons' = {} /\ device' = [device EXCEPT !.buttons = {}]
            /\ UNCHANGED <<activeKeys, activeMods>>
        <4>1. {} \cap ButtonBit = {} /\ {} \in SUBSET FlagBit
          OBVIOUS
        <4> QED BY <2>3, <4>1, MouseWriteEffect DEF HandleScroll
      <3>2. Remembered' /\ InStep' /\ device' \in DeviceType
        BY <2>3, <3>1, MouseKeeps DEF HandleScroll
      <3> QED BY <1>1, <1>0, <2>1, <2>3, <3>1, <3>2
              DEF Dispatch, HandleScroll, UInv, history, TypeOK, AtRest, EndedFresh, MouseDone,
                  DeviceType
    <2>4. CASE HandleTrackpad(p)
      <3>1. /\ buttons' = p.flags \cap ButtonBit
            /\ device' = [device EXCEPT !.buttons = p.flags \cap ButtonBit]
            /\ UNCHANGED <<activeKeys, activeMods>>
        BY <2>1, <2>4, MouseWriteEffect DEF HandleTrackpad
      <3>2. Remembered' /\ InStep' /\ device' \in DeviceType
        BY <2>4, <3>1, MouseKeeps DEF HandleTrackpad
      <3> QED BY <1>1, <1>0, <2>1, <2>4, <3>1, <3>2
              DEF Dispatch, HandleTrackpad, UInv, history, TypeOK, AtRest, EndedFresh, MouseDone,
                  DeviceType
    <2> QED BY <1>1, <2>2, <2>3, <2>4 DEF Dispatch
  <1>2. CASE TrackpadKeys
    BY <1>0, <1>2, KeyboardPartKeeps DEF TrackpadKeys
  <1>3. CASE CloseMouse
    <2>1. /\ buttons' = {} /\ device' = [device EXCEPT !.buttons = {}]
          /\ UNCHANGED <<activeKeys, activeMods>>
      BY <1>3, MouseReleaseEffect DEF CloseMouse
    <2>2. Remembered' /\ InStep' /\ device' \in DeviceType
      BY <1>3, <2>1, MouseKeeps DEF CloseMouse
    <2> QED BY <1>3, <2>1, <2>2 DEF CloseMouse, UInv, history, TypeOK, AtRest, EndedFresh,
                                    MouseDone,
                                    DeviceType
  <1>4. CASE CloseKeyboard
    <2>1. /\ device'.buttons = device.buttons
          /\ device'.mods = device.mods \ activeMods
          /\ device'.keys = device.keys \ activeKeys
          /\ device' \in DeviceType
      BY <1>0, <1>4 DEF CloseKeyboard, KeyboardRelease, ReleaseActive, DeviceType, TypeOK
    <2>2. NoKey \notin MappedKey
      BY ReportsAssumption, UinputAssumption
    <2>3. Remembered' /\ InStep'
      BY <1>4, <2>1, <2>2 DEF CloseKeyboard, KeyboardRelease, UInv, history, Remembered, InStep
    <2> QED BY <1>4, <2>1, <2>3 DEF CloseKeyboard, KeyboardRelease, UInv, history, TypeOK, AtRest,
                                    EndedFresh, MouseDone, DeviceType
  <1>5. CASE Exit
    <2>1. /\ lastKeycode = NoKey /\ buttons = {} /\ activeMods = {} /\ activeKeys = {}
      BY <1>5, ReportsAssumption, UinputAssumption DEF Exit, UInv, AtRest, MouseDone, Remembered
    <2> QED BY <1>5, <2>1 DEF Exit, UInv, history, TypeOK, Remembered, InStep, AtRest,
                              EndedFresh, MouseDone,
                              NothingHeld
  <1>6. CASE Restart
    BY <1>6 DEF Restart, UInv, history, TypeOK, Remembered, InStep, AtRest, EndedFresh,
                MouseDone, trackVars
  <1>7. CASE UNCHANGED vars
    BY <1>7 DEF vars, UInv, history, TypeOK, Remembered, InStep, AtRest, EndedFresh, MouseDone,
                trackVars
  <1> QED BY <1>1, <1>2, <1>3, <1>4, <1>5, <1>6, <1>7 DEF Next

LEMMA UHolds == Spec => []UInv
  BY UInit, UStep, PTL DEF Spec

(* What the backend remembers, and what the desktop holds, is of its kind: *)
(* only mapped keys and modifiers are ever remembered.                     *)
THEOREM TypeCorrect == Spec => []TypeOK
  <1>1. UInv => TypeOK
    BY DEF UInv
  <1> QED BY <1>1, UHolds, PTL

(* The key pressed last is down until its release, however presses overlap. *)
THEOREM NewestStaysHeld == Spec => []NewestKeyHeld
  <1>1. UInv => NewestKeyHeld
    BY DEF UInv, Remembered, NewestKeyHeld
  <1> QED BY <1>1, UHolds, PTL

(* A key or a modifier that stays down while the dispatcher knows of none  *)
(* was pressed while another was: whatever the tables map, and also after  *)
(* release_all().                                                          *)
THEOREM StuckKeysOverlapped == Spec => []OnlyOverlapSticks
  <1>1. {NoKey} \cap MappedKey = {}
    BY ReportsAssumption, UinputAssumption
  <1>2. UInv => OnlyOverlapSticks
    BY <1>1 DEF UInv, Remembered, InStep, MouseDone, OnlyOverlapSticks
  <1> QED BY <1>2, UHolds, PTL

-----------------------------------------------------------------------------
(* The refinement.                                                         *)

(* While in step, the desktop seen as a USB host holds what the last       *)
(* reports would have said.                                                *)
Seen == [b \in {"usb"} |-> [buttons |-> device.buttons, mods |-> device.mods,
                            key |-> KeyOf(device.keys)]]
Mirror == [buttons |-> buttons, mods |-> activeMods, key |-> lastKeycode]

LEMMA SeenIsMirror == UInv /\ ~diverged => Seen = [b \in {"usb"} |-> Mirror]
  <1> SUFFICES ASSUME UInv, ~diverged PROVE Seen = [b \in {"usb"} |-> Mirror]
    OBVIOUS
  <1>1. device.buttons = buttons /\ device.mods = activeMods
        /\ device.keys = {lastKeycode} \cap MappedKey
        /\ lastKeycode \in MappedKey \cup {NoKey}
    BY DEF UInv, Remembered, InStep
  <1>2. KeyOf(device.keys) = lastKeycode
    <2>1. CASE lastKeycode \in MappedKey
      <3>1. device.keys = {lastKeycode}
        BY <1>1, <2>1
      <3> QED BY <3>1 DEF KeyOf
    <2>2. CASE lastKeycode \notin MappedKey
      BY <1>1, <2>2 DEF KeyOf
    <2> QED BY <2>1, <2>2
  <1> QED BY <1>1, <1>2 DEF Seen, Mirror

LEMMA SeenIsMirrorNext == (UInv /\ ~diverged => Seen = [b \in {"usb"} |-> Mirror])'
  BY SeenIsMirror, PTL

(* The gadget's only backend is always attached: a fan-out reaches it.     *)
LEMMA GadgetReached ==
  /\ Gadget!FanoutRaises = FALSE
  /\ Gadget!Outcome = "returned"
  /\ \A b \in {"usb"} : Gadget!Receives(b)
  <1>1. ~Gadget!FanoutRaises /\ \A b \in {"usb"} : Gadget!Receives(b)
    BY DEF Gadget!FanoutRaises, Gadget!Receives, Gadget!Reached, Gadget!Raises, Gadget!Ahead
  <1> QED BY <1>1 DEF Gadget!Outcome

LEMMA GadgetMouse ==
  ASSUME NEW flags, Seen' = [b \in {"usb"} |-> MouseReport(Seen[b], flags)]
  PROVE  Gadget!FanoutMouse(flags)
  BY GadgetReached DEF Gadget!FanoutMouse, Seen, Gadget!MouseReport, MouseReport

LEMMA GadgetKeyboard ==
  ASSUME NEW mods, NEW key, Seen' = [b \in {"usb"} |-> KeyboardReport(Seen[b], mods, key)]
  PROVE  Gadget!FanoutKeyboard(mods, key)
  BY GadgetReached DEF Gadget!FanoutKeyboard, Seen, Gadget!KeyboardReport, KeyboardReport

(* The mirror moves like a USB host's state.                               *)
LEMMA MirrorMouse ==
  ASSUME NEW flags, Seen = [b \in {"usb"} |-> Mirror], Seen' = [b \in {"usb"} |-> Mirror'],
         buttons' = flags \cap ButtonBit, UNCHANGED <<activeMods, lastKeycode>>
  PROVE  Gadget!FanoutMouse(flags)
  <1>1. Mirror' = MouseReport(Mirror, flags)
    BY DEF Mirror, MouseReport
  <1> QED BY <1>1, GadgetMouse

LEMMA MirrorKeyboard ==
  ASSUME NEW mods, NEW key, Seen = [b \in {"usb"} |-> Mirror],
         Seen' = [b \in {"usb"} |-> Mirror'],
         activeMods' = mods, lastKeycode' = key, UNCHANGED buttons
  PROVE  Gadget!FanoutKeyboard(mods, key)
  <1>1. KeyboardReport(Mirror, mods, key) = [buttons |-> buttons, mods |-> mods, key |-> key]
    <2>1. KeyboardReport(Mirror, mods, key) = [[Mirror EXCEPT !.mods = mods] EXCEPT !.key = key]
      BY DEF KeyboardReport
    <2>2. [Mirror EXCEPT !.mods = mods] = [buttons |-> buttons, mods |-> mods, key |-> lastKeycode]
      BY DEF Mirror
    <2> QED BY <2>1, <2>2
  <1>2. Mirror' = KeyboardReport(Mirror, mods, key)
    BY <1>1 DEF Mirror
  <1> QED BY <1>2, GadgetKeyboard

LEMMA KeyboardPartRefines ==
  ASSUME NEW p \in Packet, KeyboardPart(p), UInv, UInv', ~diverged, ~diverged'
  PROVE  Gadget!KeyboardPart(p)
  <1>0. Seen = [b \in {"usb"} |-> Mirror] /\ Seen' = [b \in {"usb"} |-> Mirror']
    BY SeenIsMirror, SeenIsMirrorNext
  <1>1. CASE PressKey(p)
    <2>1. activeMods' = p.flags /\ lastKeycode' = p.keycode /\ UNCHANGED buttons
      BY <1>1 DEF PressKey, KeyboardWrite
    <2>2. Gadget!FanoutKeyboard(p.flags, p.keycode)
      BY <1>0, <2>1, MirrorKeyboard
    <2> QED BY <1>1, <2>2, GadgetReached
            DEF PressKey, KeyboardPart, Gadget!KeyboardPart, Gadget!PressKey
  <1>2. CASE ReleaseKey(p)
    <2>1. activeMods' = {} /\ lastKeycode' = NoKey /\ UNCHANGED buttons
      BY <1>2 DEF ReleaseKey, KeyboardRelease
    <2>2. Gadget!FanoutKeyboard({}, NoKey)
      BY <1>0, <2>1, MirrorKeyboard
    <2> QED BY <1>2, <2>2, GadgetReached
            DEF ReleaseKey, KeyboardPart, Gadget!KeyboardPart, Gadget!ReleaseKey
  <1>3. CASE NoKeyToRelease(p)
    BY <1>3 DEF NoKeyToRelease, KeyboardPart, trackVars, Gadget!KeyboardPart,
                Gadget!NoKeyToRelease
  <1> QED BY <1>1, <1>2, <1>3 DEF KeyboardPart

LEMMA GadgetInit == Init => Gadget!Init
  <1> SUFFICES ASSUME Init PROVE Gadget!Init
    OBVIOUS
  <1>1. Seen = [b \in {"usb"} |-> Gadget!Released]
    BY DEF Init, Seen, NothingHeld, KeyOf, Gadget!Released
  <1>2. [b \in {"usb"} |-> TRUE]
          \in {up \in [{"usb"} -> BOOLEAN] : \A b \in {"usb"} : up[b] => b = "usb"}
    OBVIOUS
  <1> QED BY <1>1, <1>2 DEF Init, Seen, Gadget!Init, Gadget!NoPacket

LEMMA GadgetStep ==
  UInv /\ UInv' /\ [Next]_vars => [diverged \/ diverged' \/ Gadget!Next]_(Gadget!vars)
  <1> SUFFICES ASSUME UInv, UInv', [Next]_vars, ~diverged, ~diverged'
               PROVE  Gadget!Next \/ UNCHANGED Gadget!vars
    OBVIOUS
  <1>0. Seen = [b \in {"usb"} |-> Mirror] /\ Seen' = [b \in {"usb"} |-> Mirror']
    BY SeenIsMirror, SeenIsMirrorNext
  <1>1. ASSUME NEW p \in Packets, Dispatch(p) PROVE Gadget!Next
    <2>1. p \in Packet /\ p.flags \in SUBSET FlagBit
      BY UinputAssumption DEF Packet
    <2>2. Gadget!Idle
      BY <1>1 DEF Dispatch, Gadget!Idle, UInv, TypeOK
    <2>3. CASE HandleArrow(p)
      <3>1. Gadget!HandleArrow(p)
        BY <2>1, <2>3, KeyboardPartRefines DEF HandleArrow, Gadget!HandleArrow
      <3> QED BY <1>1, <2>2, <3>1 DEF Dispatch, Gadget!Next, Gadget!Dispatch
    <2>4. CASE HandleScroll(p)
      <3>1. buttons' = {} \cap ButtonBit /\ UNCHANGED <<activeMods, lastKeycode>>
        BY <2>4 DEF HandleScroll, MouseWrite
      <3>2. Gadget!FanoutMouse({})
        BY <1>0, <3>1, MirrorMouse
      <3>3. Gadget!HandleScroll(p)
        BY <2>4, <3>2, GadgetReached DEF HandleScroll, Gadget!HandleScroll
      <3> QED BY <1>1, <2>2, <3>3 DEF Dispatch, Gadget!Next, Gadget!Dispatch
    <2>5. CASE HandleTrackpad(p)
      <3>1. buttons' = p.flags \cap ButtonBit /\ UNCHANGED <<activeMods, lastKeycode>>
        BY <2>5 DEF HandleTrackpad, MouseWrite
      <3>2. Gadget!FanoutMouse(p.flags)
        BY <1>0, <3>1, MirrorMouse
      <3>3. Gadget!HandleTrackpad(p)
        BY <2>5, <3>2, GadgetReached DEF HandleTrackpad, Gadget!HandleTrackpad
      <3> QED BY <1>1, <2>2, <3>3 DEF Dispatch, Gadget!Next, Gadget!Dispatch
    <2> QED BY <1>1, <2>3, <2>4, <2>5 DEF Dispatch
  <1>2. CASE TrackpadKeys
    <2>1. PICK p \in Packet : p = packet
      BY DEF UInv, TypeOK
    <2>2. Gadget!KeyboardPart(p)
      BY <1>2, <2>1, KeyboardPartRefines DEF TrackpadKeys
    <2> QED BY <1>2, <2>1, <2>2 DEF TrackpadKeys, Gadget!Next, Gadget!TrackpadKeys
  <1>3. CASE CloseMouse
    <2>1. buttons' = {} \cap ButtonBit /\ UNCHANGED <<activeMods, lastKeycode>>
      BY <1>3, MouseReleaseEffect DEF CloseMouse
    <2>2. Gadget!FanoutMouse({}) /\ Gadget!Idle
      BY <1>0, <1>3, <2>1, MirrorMouse DEF CloseMouse, Gadget!Idle, UInv, TypeOK
    <2> QED BY <1>3, <2>2, GadgetReached DEF CloseMouse, Gadget!Next, Gadget!CloseMouse
  <1>4. CASE CloseKeyboard
    <2>1. activeMods' = {} /\ lastKeycode' = NoKey /\ UNCHANGED buttons
      BY <1>4 DEF CloseKeyboard, KeyboardRelease
    <2>2. Gadget!FanoutKeyboard({}, NoKey)
      BY <1>0, <2>1, MirrorKeyboard
    <2> QED BY <1>4, <2>2, GadgetReached DEF CloseKeyboard, Gadget!Next, Gadget!CloseKeyboard
  <1>5. CASE Exit
    <2>1. Seen' = Seen
      BY <1>0, <1>5 DEF Exit, Mirror
    <2> QED BY <1>5, <2>1 DEF Exit, Seen, Gadget!Next, Gadget!Exit, Gadget!BluetoothGone
  <1>6. CASE Restart
    <2>1. lastKeycode = NoKey
      BY <1>6 DEF Restart, UInv, AtRest
    <2> QED BY <1>6, <2>1 DEF Restart, trackVars, Gadget!Next, Gadget!Restart
  <1>7. CASE UNCHANGED vars
    BY <1>7 DEF vars, trackVars, Gadget!vars
  <1> QED BY <1>1, <1>2, <1>3, <1>4, <1>5, <1>6, <1>7 DEF Next

(* While presses do not overlap, uinput's events add up to the reports of  *)
(* a USB gadget: every step is a step of HIDDispatcher with that backend.  *)
THEOREM RefinesGadget == Spec => ImplementsGadget
  BY UHolds, GadgetInit, GadgetStep, PTL DEF Spec, ImplementsGadget
=============================================================================
