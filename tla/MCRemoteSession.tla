--------------------------- MODULE MCRemoteSession ---------------------------
(* Instances of RemoteSession for TLC.                                     *)
EXTENDS RemoteSession

CONSTANTS k1, k2, none, left, gui, g1, g2, s1

MCKeycode == {k1, k2}
MCFlagBit == {left, gui}
MCButtonBit == {left}

MCPressOf(k) ==
  CASE k = "click"    -> [mode |-> "trackpad", flags |-> {left}, keycode |-> none]
    [] k = "arrow"    -> [mode |-> "arrow", flags |-> {}, keycode |-> k1]
    [] k = "shortcut" -> [mode |-> "trackpad", flags |-> {gui}, keycode |-> k2]

MCKind == {"click", "arrow", "shortcut"}
=============================================================================
