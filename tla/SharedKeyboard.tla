--------------------------- MODULE SharedKeyboard ---------------------------
(***************************************************************************)
(* What the remote promises the people in front of several hosts: one      *)
(* keyboard, at most one chord held on it, and every press and release     *)
(* reaches all attached hosts in one step or none of them.  A host that is *)
(* not attached shows nothing, and one that attaches later shows nothing   *)
(* until the next press.                                                   *)
(***************************************************************************)
CONSTANTS Host,        \* the hosts that share the keyboard
          Key, NoKey,  \* the keys
          Modifier     \* the modifiers of a chord

VARIABLES held,        \* the key that is held on the keyboard
          attached,    \* for each host, is it attached
          shows        \* for each host, the chord it believes is held

vars == <<held, attached, shows>>

Chord(key, mods) == [key |-> key, mods |-> mods]

Up == Chord(NoKey, {})

Init ==
  /\ held = NoKey
  /\ attached \in [Host -> BOOLEAN]
  /\ shows = [h \in Host |-> Up]

Show(chord) == shows' = [h \in Host |-> IF attached[h] THEN chord ELSE Up]

Press(key, mods) ==
  /\ held' = key
  /\ Show(Chord(key, mods))
  /\ UNCHANGED attached

Release ==
  /\ held' = NoKey
  /\ shows' = [h \in Host |-> Up]
  /\ UNCHANGED attached

(* Hosts attach and detach; the one that detaches forgets the chord.       *)
Replug ==
  /\ attached' \in [Host -> BOOLEAN]
  /\ shows' = [h \in Host |-> IF attached'[h] THEN shows[h] ELSE Up]
  /\ UNCHANGED held

Next ==
  \/ \E key \in Key, mods \in SUBSET Modifier : Press(key, mods)
  \/ Release
  \/ Replug

Spec == Init /\ [][Next]_vars

(* No two hosts disagree about the chord: hosts that show a key at all     *)
(* show the held one, with the same modifiers.                             *)
OneChord ==
  \E mods \in SUBSET Modifier :
    \A h \in Host : shows[h] \in {Up, Chord(held, mods)}
=============================================================================
