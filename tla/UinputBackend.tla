---------------------------- MODULE UinputBackend ----------------------------
(***************************************************************************)
(* uinput_backend.py under the dispatcher.  A HID report carries the whole *)
(* state of a device; uinput takes key events, so this backend remembers   *)
(* what it pressed (_buttons, _active_keys, _active_mods) and turns        *)
(* reports into differences.  The desktop keeps every key an event pressed *)
(* until an event releases it or the virtual device is destroyed.          *)
(*                                                                         *)
(* Events of one write() become visible together at its SYN_REPORT, so a   *)
(* write is one step.  write(2) on a created uinput device does not fail.  *)
(***************************************************************************)
EXTENDS HIDReports

CONSTANTS MappedKey,   \* the keycodes in _HID_TO_LINUX
          MappedFlag,  \* the modifier bits in _MODIFIER_MAP
          Packets      \* the packets that may arrive

ASSUME UinputAssumption ==
  /\ MappedKey \subseteq Keycode
  /\ MappedFlag \subseteq FlagBit
  /\ Packets \subseteq Packet

VARIABLES lastKeycode, \* HIDDispatcher._last_keycode
          buttons,     \* UinputMouseHID._buttons
          activeKeys,  \* UinputKeyboardHID._active_keys
          activeMods,  \* UinputKeyboardHID._active_mods
          device,      \* what the desktop believes is held on both devices
          packet, stage, proc, \* as in HIDDispatcher
          overlapped,  \* history: a key was pressed while another was down
          diverged     \* history: a press no HID report could be told from

trackVars == <<buttons, activeKeys, activeMods, device>>
history == <<overlapped, diverged>>
vars == <<lastKeycode, trackVars, packet, stage, proc, history>>

NothingHeld == [buttons |-> {}, mods |-> {}, keys |-> {}]

TypeOK ==
  /\ lastKeycode \in Keycode \cup {NoKey}
  /\ buttons \subseteq ButtonBit
  /\ activeKeys \subseteq MappedKey
  /\ activeMods \subseteq MappedFlag
  /\ device \in [buttons : SUBSET ButtonBit, mods : SUBSET MappedFlag,
                 keys : SUBSET MappedKey]
  /\ packet \in Packet
  /\ stage \in {"idle", "keyboard", "returned", "raised"}
  /\ proc \in {"running", "closing", "closed", "stopped"}
  /\ overlapped \in BOOLEAN /\ diverged \in BOOLEAN

Init ==
  /\ lastKeycode = NoKey
  /\ buttons = {} /\ activeKeys = {} /\ activeMods = {}
  /\ device = NothingHeld
  /\ packet = [mode |-> "scroll", flags |-> {}, keycode |-> NoKey]
  /\ stage = "idle"
  /\ proc = "running"
  /\ overlapped = FALSE /\ diverged = FALSE

-----------------------------------------------------------------------------
(* The two virtual devices.                                                *)

(* Mutant: only presses are written.                                       *)
MouseWritePressesOnly(flags) ==
  LET new == flags \cap ButtonBit
  IN  /\ buttons' = new
      /\ device' = [device EXCEPT !.buttons = @ \cup new]
      /\ UNCHANGED <<activeKeys, activeMods>>

(* An event for each button that differs from _buttons.                    *)
MouseWrite(flags) ==
  LET new == flags \cap ButtonBit
      changed == (new \ buttons) \cup (buttons \ new)
  IN  /\ buttons' = new
      /\ device' = [device EXCEPT !.buttons = (@ \ changed) \cup (changed \cap new)]
      /\ UNCHANGED <<activeKeys, activeMods>>

MouseRelease ==
  IF buttons # {} THEN MouseWrite({}) ELSE UNCHANGED trackVars

(* The key events of a write and of a release, on a device d.              *)
Press(d, mods, key) ==
  [d EXCEPT !.mods = @ \cup (mods \cap MappedFlag), !.keys = @ \cup ({key} \cap MappedKey)]
ReleaseActive(d) ==
  [d EXCEPT !.mods = @ \ activeMods, !.keys = @ \ activeKeys]

(* Mutants: _active_keys keeps the HID keycode whether it is mapped or     *)
(* not; the keys of the last write are released after the new are pressed. *)
KeyboardWriteUnmapped(mods, key) ==
  /\ device' = Press(device, mods, key)
  /\ activeKeys' = {key}
  /\ activeMods' = mods \cap MappedFlag
  /\ UNCHANGED buttons

KeyboardWriteReleasing(mods, key) ==
  /\ device' = ReleaseActive(Press(device, mods, key))
  /\ activeKeys' = {key} \cap MappedKey
  /\ activeMods' = mods \cap MappedFlag
  /\ UNCHANGED buttons

(* Presses what it knows; what the last write pressed is not looked at.    *)
KeyboardWrite(mods, key) ==
  /\ device' = Press(device, mods, key)
  /\ activeKeys' = {key} \cap MappedKey
  /\ activeMods' = mods \cap MappedFlag
  /\ UNCHANGED buttons

(* Mutant: the modifiers are forgotten, not released.                      *)
KeyboardReleaseKeysOnly ==
  /\ device' = [device EXCEPT !.keys = @ \ activeKeys]
  /\ activeKeys' = {}
  /\ activeMods' = {}
  /\ UNCHANGED buttons

KeyboardRelease ==
  /\ device' = ReleaseActive(device)
  /\ activeKeys' = {}
  /\ activeMods' = {}
  /\ UNCHANGED buttons

-----------------------------------------------------------------------------
(* The dispatcher's handlers with this backend, which never raises.        *)

PressKey(p) ==
  /\ p.keycode # NoKey
  /\ KeyboardWrite(p.flags, p.keycode)
  /\ lastKeycode' = p.keycode
  /\ overlapped' = (overlapped \/ lastKeycode # NoKey)
  /\ diverged' = \/ diverged
                 \/ lastKeycode # NoKey
                 \/ p.keycode \notin MappedKey
                 \/ ~(p.flags \subseteq MappedFlag)

ReleaseKey(p) ==
  /\ p.keycode = NoKey
  /\ lastKeycode # NoKey
  /\ KeyboardRelease
  /\ lastKeycode' = NoKey
  /\ UNCHANGED history

NoKeyToRelease(p) ==
  /\ p.keycode = NoKey
  /\ lastKeycode = NoKey
  /\ UNCHANGED <<lastKeycode, trackVars, history>>

KeyboardPart(p) ==
  /\ PressKey(p) \/ ReleaseKey(p) \/ NoKeyToRelease(p)
  /\ stage' = "returned"

HandleScroll(p) ==
  /\ p.mode = "scroll"
  /\ MouseWrite({})
  /\ stage' = "returned"
  /\ UNCHANGED <<lastKeycode, history>>

HandleArrow(p) ==
  /\ p.mode = "arrow"
  /\ KeyboardPart(p)

HandleTrackpad(p) ==
  /\ p.mode = "trackpad"
  /\ MouseWrite(p.flags)
  /\ stage' = "keyboard"
  /\ UNCHANGED <<lastKeycode, history>>

Dispatch(p) ==
  /\ proc = "running"
  /\ stage # "keyboard"
  /\ HandleScroll(p) \/ HandleArrow(p) \/ HandleTrackpad(p)
  /\ packet' = p
  /\ UNCHANGED proc

TrackpadKeys ==
  /\ proc = "running"
  /\ stage = "keyboard"
  /\ KeyboardPart(packet)
  /\ UNCHANGED <<packet, proc>>

(* dispatcher.close(): release_all() in two steps, then both devices are   *)
(* destroyed, which releases on the desktop whatever they still hold.      *)
CloseMouse ==
  /\ proc = "running"
  /\ stage # "keyboard"
  /\ MouseRelease
  /\ proc' = "closing"
  /\ UNCHANGED <<lastKeycode, packet, stage, history>>

CloseKeyboard ==
  /\ proc = "closing"
  /\ KeyboardRelease
  /\ lastKeycode' = NoKey
  /\ proc' = "closed"
  /\ UNCHANGED <<packet, stage, history>>

Exit ==
  /\ proc = "closed"
  /\ device' = NothingHeld
  /\ overlapped' = FALSE /\ diverged' = FALSE
  /\ proc' = "stopped"
  /\ UNCHANGED <<lastKeycode, buttons, activeKeys, activeMods, packet, stage>>

Restart ==
  /\ proc = "stopped"
  /\ proc' = "running"
  /\ stage' = "idle"
  /\ UNCHANGED <<lastKeycode, trackVars, packet, history>>

Next ==
  \/ \E p \in Packets : Dispatch(p)
  \/ TrackpadKeys
  \/ CloseMouse
  \/ CloseKeyboard
  \/ Exit
  \/ Restart

Spec == Init /\ [][Next]_vars

-----------------------------------------------------------------------------
(* What the desktop sees, read as the state of a USB HID host.             *)
KeyOf(keys) == IF keys = {} THEN NoKey ELSE CHOOSE k \in keys : TRUE

Gadget == INSTANCE HIDDispatcher
            WITH Sinks <- {"usb"},
                 host <- [b \in {"usb"} |-> [buttons |-> device.buttons,
                                             mods |-> device.mods,
                                             key |-> KeyOf(device.keys)]],
                 link <- [b \in {"usb"} |-> TRUE],
                 accepting <- FALSE

(* As long as every key press has its release before the next one, and     *)
(* uses keys of the tables, the desktop cannot tell this backend from a    *)
(* USB gadget whose host stays attached: the differences add up to the     *)
(* reports.                                                                *)
ImplementsGadget ==
  Gadget!Init /\ [][diverged \/ diverged' \/ Gadget!Next]_(Gadget!vars)

(* Whatever presses overlap, the key pressed last is down until its        *)
(* release, and the backend never forgets a button or releases a key the   *)
(* desktop does not hold.                                                  *)
NewestKeyHeld ==
  /\ lastKeycode \in MappedKey => lastKeycode \in device.keys
  /\ activeKeys \subseteq device.keys
  /\ activeMods \subseteq device.mods
  /\ device.buttons = buttons

(* Only overlapping presses leave a key or a modifier stuck: while every   *)
(* press found no key down, the desktop holds none whenever the dispatcher *)
(* knows of none, after release_all() in particular, whether the presses   *)
(* used mapped codes or not.  Buttons never stay behind.                   *)
OnlyOverlapSticks ==
  /\ proc \in {"closing", "closed"} => device.buttons = {}
  /\ ~overlapped /\ lastKeycode = NoKey => device.mods = {} /\ device.keys = {}

(* hid_dispatcher.py:51, "Release all keys and buttons.": after            *)
(* release_all() nothing is held.                                          *)
ReleaseAllReleases == proc = "closed" => device = NothingHeld
=============================================================================
