--------------------------- MODULE MCHIDDispatcher ---------------------------
(* Instances of HIDDispatcher for TLC.                                     *)
EXTENDS HIDDispatcher

CONSTANTS k1, k2, none, left, gui

MCKeycode == {k1, k2}
MCFlagBit == {left, gui}
MCButtonBit == {left}

(* Everything the wire format allows over these keys and flags.            *)
AnyPackets == Packet

(* What the clients of this repository send: moves and clicks, shortcuts,  *)
(* arrow keys, their releases, scrolls.                                    *)
ClientPackets ==
  [mode : {"trackpad"}, flags : {{}, {left}}, keycode : {none}]
  \cup [mode : {"trackpad"}, flags : {{gui}}, keycode : {k2}]
  \cup [mode : {"arrow"}, flags : {{}}, keycode : {k1, none}]
  \cup [mode : {"scroll"}, flags : {{}}, keycode : {none}]
=============================================================================
