----------------------------- MODULE HIDReports -----------------------------
(***************************************************************************)
(* The data every backend of the remote exchanges: the packets clients     *)
(* send (protocol.py) and what a HID host believes is held down after the  *)
(* reports it received (hid_mouse.py, hid_keyboard.py and their Bluetooth  *)
(* twins).  Motion and wheel fields are left out: a report's deltas leave  *)
(* no state behind, its buttons, modifiers and keycode do.                 *)
(***************************************************************************)
CONSTANTS Keycode,     \* the non-zero USB HID keycodes in use
          NoKey,       \* keycode 0x00
          FlagBit,     \* the bits of the flags byte
          ButtonBit    \* the flag bits a mouse report keeps (buttons & 0x07)

ASSUME ReportsAssumption ==
  /\ NoKey \notin Keycode
  /\ ButtonBit \subseteq FlagBit

Mode == {"trackpad", "scroll", "arrow"}

Packet == [mode    : Mode,
           flags   : SUBSET FlagBit,
           keycode : Keycode \cup {NoKey}]

HostState == [buttons : SUBSET ButtonBit,
              mods    : SUBSET FlagBit,
              key     : Keycode \cup {NoKey}]

Released == [buttons |-> {}, mods |-> {}, key |-> NoKey]

(* Mutant: the button byte is not masked.                                  *)
MouseReportUnmasked(h, flags) == [h EXCEPT !.buttons = flags]

(* The host after a mouse report: the report carries the whole button byte. *)
MouseReport(h, flags) == [h EXCEPT !.buttons = flags \cap ButtonBit]

(* The host after a keyboard report: one modifier byte, one keycode slot.  *)
KeyboardReport(h, mods, key) == [h EXCEPT !.mods = mods, !.key = key]
=============================================================================
