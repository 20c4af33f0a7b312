---------------------------- MODULE HIDDispatcher ----------------------------
(***************************************************************************)
(* hid_dispatcher.py with the fan-out of hid_fanout.py below it and the    *)
(* life of the server process (main.py) around it.  One HID host sits      *)
(* behind each backend of Sinks; its link goes down and up at any moment.  *)
(*                                                                         *)
(* A write to a USB gadget whose host is gone raises OSError; a write to a *)
(* Bluetooth host that is gone is silently dropped.  dispatch() runs on    *)
(* the event loop and is not interrupted by other packets, but links move  *)
(* between its mouse report and its keyboard report, so a trackpad packet  *)
(* takes two steps.  Within one fan-out the backends do not influence each *)
(* other except by raising, so a fan-out is one step.                      *)
(***************************************************************************)
EXTENDS HIDReports

CONSTANTS Sinks,       \* backends of the dispatcher: "usb", "bt" or both
          Packets      \* the packets that may arrive

ASSUME DispatcherAssumption ==
  /\ Sinks \subseteq {"usb", "bt"}
  /\ Packets \subseteq Packet

VARIABLES lastKeycode, \* HIDDispatcher._last_keycode
          host,        \* what the host behind each backend believes is held
          link,        \* is the host behind each backend attached
          packet,      \* the packet dispatched last
          stage,       \* how far dispatch(packet) is, and how it ended
          proc,        \* the life of the server process
          accepting    \* is the accept thread there to take a Bluetooth host

vars == <<lastKeycode, host, link, packet, stage, proc, accepting>>

Idle == stage \in {"idle", "returned", "raised"}
Alive == proc \in {"running", "closing", "closed", "leaving", "unwinding"}

TypeOK ==
  /\ lastKeycode \in Keycode \cup {NoKey}
  /\ host \in [Sinks -> HostState]
  /\ link \in [Sinks -> BOOLEAN]
  /\ packet \in Packet
  /\ stage \in {"idle", "keyboard", "returned", "raised"}
  /\ proc \in {"running", "closing", "closed", "leaving", "unwinding", "stopped",
               "killed"}
  /\ accepting \in BOOLEAN

NoPacket == [mode |-> "scroll", flags |-> {}, keycode |-> NoKey]

Init ==
  /\ lastKeycode = NoKey
  /\ host = [b \in Sinks |-> Released]
  /\ link \in {up \in [Sinks -> BOOLEAN] : \A b \in Sinks : up[b] => b = "usb"}
  /\ packet = NoPacket
  /\ stage = "idle"
  /\ proc = "running"
  /\ accepting = ("bt" \in Sinks)

-----------------------------------------------------------------------------
(* The fan-out: insertion order is USB first; an exception of one backend  *)
(* ends the loop before the backends behind it.                            *)

Raises(b) == b = "usb" /\ ~link[b]

(* Mutant: Bluetooth inserted first.                                       *)
AheadBluetoothFirst(b) == {c \in Sinks : c = "bt" /\ b # "bt"}

Ahead(b) == {c \in Sinks : c = "usb" /\ b # "usb"}

Reached(b) == \A c \in Ahead(b) : ~Raises(c)

Receives(b) == Reached(b) /\ link[b]

FanoutRaises == \E b \in Sinks : Reached(b) /\ Raises(b)

FanoutMouse(flags) ==
  host' = [b \in Sinks |->
             IF Receives(b) THEN MouseReport(host[b], flags) ELSE host[b]]

FanoutKeyboard(mods, key) ==
  host' = [b \in Sinks |->
             IF Receives(b) THEN KeyboardReport(host[b], mods, key) ELSE host[b]]

Outcome == IF FanoutRaises THEN "raised" ELSE "returned"

-----------------------------------------------------------------------------
(* dispatch(p), one handler per mode.                                      *)

HandleScroll(p) ==
  /\ p.mode = "scroll"
  /\ FanoutMouse({})
  /\ stage' = Outcome
  /\ UNCHANGED lastKeycode

(* Mutants: _last_keycode is set before the write that may raise; it is    *)
(* not set at all.                                                         *)
PressKeyBeforeWrite(p) ==
  /\ p.keycode # NoKey
  /\ FanoutKeyboard(p.flags, p.keycode)
  /\ lastKeycode' = p.keycode
  /\ stage' = Outcome

PressKeyForgotten(p) ==
  /\ p.keycode # NoKey
  /\ FanoutKeyboard(p.flags, p.keycode)
  /\ UNCHANGED lastKeycode
  /\ stage' = Outcome

PressKey(p) ==
  /\ p.keycode # NoKey
  /\ FanoutKeyboard(p.flags, p.keycode)
  /\ lastKeycode' = IF FanoutRaises THEN lastKeycode ELSE p.keycode
  /\ stage' = Outcome

ReleaseKey(p) ==
  /\ p.keycode = NoKey
  /\ lastKeycode # NoKey
  /\ FanoutKeyboard({}, NoKey)
  /\ lastKeycode' = IF FanoutRaises THEN lastKeycode ELSE NoKey
  /\ stage' = Outcome

NoKeyToRelease(p) ==
  /\ p.keycode = NoKey
  /\ lastKeycode = NoKey
  /\ stage' = "returned"
  /\ UNCHANGED <<lastKeycode, host>>

KeyboardPart(p) == PressKey(p) \/ ReleaseKey(p) \/ NoKeyToRelease(p)

HandleArrow(p) ==
  /\ p.mode = "arrow"
  /\ KeyboardPart(p)

(* The mouse report of a trackpad packet; its keyboard part follows.       *)
HandleTrackpad(p) ==
  /\ p.mode = "trackpad"
  /\ FanoutMouse(p.flags)
  /\ stage' = IF FanoutRaises THEN "raised" ELSE "keyboard"
  /\ UNCHANGED lastKeycode

Dispatch(p) ==
  /\ proc = "running"
  /\ Idle
  /\ HandleScroll(p) \/ HandleArrow(p) \/ HandleTrackpad(p)
  /\ packet' = p
  /\ UNCHANGED <<link, proc, accepting>>

TrackpadKeys ==
  /\ proc = "running"
  /\ stage = "keyboard"
  /\ KeyboardPart(packet)
  /\ UNCHANGED <<link, packet, proc, accepting>>

-----------------------------------------------------------------------------
(* Shutdown: dispatcher.close(), which releases and may raise, and only    *)
(* after a clean one bt_server.close().  Either way asyncio.run() then     *)
(* waits for the accept thread, which nothing wakes while it is blocked in *)
(* accept(); an exception leaves the Bluetooth connection open meanwhile.  *)

BluetoothGone ==
  /\ link' = [b \in Sinks |-> link[b] /\ b # "bt"]
  /\ host' = [b \in Sinks |-> IF b = "bt" THEN Released ELSE host[b]]

(* From here on the accept loop calls accept() no more: its thread is in   *)
(* one now, or it is pausing after a failure and is cancelled there.       *)
CloseMouse ==
  /\ proc = "running"
  /\ Idle
  /\ FanoutMouse({})
  /\ proc' = IF FanoutRaises THEN "unwinding" ELSE "closing"
  /\ accepting' \in {FALSE, accepting}
  /\ UNCHANGED <<lastKeycode, link, packet, stage>>

(* Mutant: release_all() releases the mouse only.                          *)
CloseMouseOnly ==
  /\ proc = "closing"
  /\ proc' = "closed"
  /\ lastKeycode' = NoKey
  /\ UNCHANGED <<host, link, packet, stage, accepting>>

CloseKeyboard ==
  /\ proc = "closing"
  /\ FanoutKeyboard({}, NoKey)
  /\ proc' = IF FanoutRaises THEN "unwinding" ELSE "closed"
  /\ lastKeycode' = IF FanoutRaises THEN lastKeycode ELSE NoKey
  /\ UNCHANGED <<link, packet, stage, accepting>>

(* bt_server.close(), where there is one.                                  *)
CloseServer ==
  /\ proc = "closed"
  /\ "bt" \in Sinks
  /\ BluetoothGone
  /\ proc' = "leaving"
  /\ UNCHANGED <<lastKeycode, packet, stage, accepting>>

(* The accept() under way fails; nobody calls it again.                    *)
AcceptFails ==
  /\ proc # "running"
  /\ accepting
  /\ accepting' = FALSE
  /\ UNCHANGED <<lastKeycode, host, link, packet, stage, proc>>

(* The process ends when the accept thread has; the kernel then closes     *)
(* what is still open.  Left out: after a raise the web listener stays     *)
(* open too, and a browser that connects to it meanwhile is still served.  *)
Exit ==
  /\ \/ proc \in {"leaving", "unwinding"}
     \/ proc = "closed" /\ "bt" \notin Sinks
  /\ ~accepting
  /\ BluetoothGone
  /\ proc' = "stopped"
  /\ UNCHANGED <<lastKeycode, packet, stage, accepting>>

Restart ==
  /\ proc \in {"stopped", "killed"}
  /\ proc' = "running"
  /\ lastKeycode' = NoKey
  /\ stage' = "idle"
  /\ accepting' = ("bt" \in Sinks)
  /\ UNCHANGED <<host, link, packet>>

(* SIGKILL, a crash, a power cut of the process: no release is sent.  The  *)
(* gadget stays bound, so the USB host keeps the last report.              *)
Kill ==
  /\ Alive
  /\ proc' = "killed"
  /\ stage' = "idle"
  /\ accepting' = FALSE
  /\ BluetoothGone
  /\ UNCHANGED <<lastKeycode, packet>>

-----------------------------------------------------------------------------
(* The links.  A host that loses its device forgets what was held.  USB    *)
(* hosts come and go whatever the process does; a Bluetooth host needs the *)
(* accept thread, which takes one more at most once the shutdown began.    *)

LinkDown(b) ==
  /\ link[b]
  /\ link' = [link EXCEPT ![b] = FALSE]
  /\ host' = [host EXCEPT ![b] = Released]
  /\ UNCHANGED <<lastKeycode, packet, stage, proc, accepting>>

LinkUp(b) ==
  /\ ~link[b]
  /\ b = "bt" => accepting
  /\ link' = [link EXCEPT ![b] = TRUE]
  /\ accepting' = (accepting /\ (b = "bt" => proc = "running"))
  /\ UNCHANGED <<lastKeycode, host, packet, stage, proc>>

Links == \E b \in Sinks : LinkDown(b) \/ LinkUp(b)

Next ==
  \/ \E p \in Packets : Dispatch(p)
  \/ TrackpadKeys
  \/ CloseMouse
  \/ CloseKeyboard
  \/ CloseServer
  \/ AcceptFails
  \/ Exit
  \/ Restart
  \/ Links

CrashNext == Next \/ Kill

Spec == Init /\ [][Next]_vars

CrashSpec == Init /\ [][CrashNext]_vars

(* A shutdown that began goes on by itself; hosts do as they please.       *)
ShutdownSpec ==
  /\ Spec
  /\ WF_vars(CloseKeyboard)
  /\ WF_vars(CloseServer)
  /\ WF_vars(Exit)

-----------------------------------------------------------------------------
Keyless(h) == h.key = NoKey

(* What a host holds is what the dispatcher thinks is held, or nothing:    *)
(* _last_keycode, updated only after a write that did not raise, never     *)
(* loses track of a key, whichever backend raised, dropped the report or   *)
(* came back in between.                                                   *)
HeldKeyTracked ==
  \A b \in Sinks : host[b].key \in {NoKey, lastKeycode}
                   /\ (Keyless(host[b]) => host[b].mods = {})

(* After dispatch(p) of a release packet returned without an exception no  *)
(* host holds a key, until the next packet: the elif on _last_keycode      *)
(* never skips a release that some host needs.                             *)
ReleaseClearsHosts ==
  ( /\ proc = "running"
    /\ stage = "returned"
    /\ packet.mode \in {"trackpad", "arrow"}
    /\ packet.keycode = NoKey )
  => \A b \in Sinks : Keyless(host[b])

(* Once release_all() has returned nothing is held on any host for the     *)
(* rest of the shutdown, whatever the links did between its two reports    *)
(* and do afterwards.  Interrupted by an unplugged USB host it may leave   *)
(* something held on the Bluetooth host only, and nothing once the process *)
(* has ended.                                                              *)
ShutdownReleases ==
  /\ proc \in {"closed", "leaving", "stopped"} => \A b \in Sinks : host[b] = Released
  /\ proc = "unwinding" => \A b \in Sinks \ {"bt"} : host[b] = Released

(* hid_dispatcher.py:51, "Release all keys and buttons.": a shutdown, once *)
(* begun, comes to leave nothing held on any host.                         *)
ShutdownLetsGo ==
  (proc \in {"closing", "unwinding"}) ~> (\A b \in Sinks : host[b] = Released)

(* With the process killed between any two steps: only a USB host can hold *)
(* a key the restarted dispatcher does not know of, and only until the     *)
(* dispatcher knows of any key: the first key packet that is dispatched    *)
(* without an exception brings every host back in step.                    *)
KeyTrackedAfterCrash ==
  \A b \in Sinks :
    (b = "bt" \/ lastKeycode # NoKey) => host[b].key \in {NoKey, lastKeycode}

(* The dispatcher with its fan-out is one keyboard shared by the hosts:    *)
(* with backends that raise, drop reports, lose and regain their hosts,    *)
(* also between the halves of a trackpad packet and during the shutdown,   *)
(* each press and release is one step for all attached hosts.              *)
Keyboard == INSTANCE SharedKeyboard WITH
  Host <- Sinks, Key <- Keycode, Modifier <- FlagBit,
  held <- lastKeycode, attached <- link,
  shows <- [b \in Sinks |-> [key |-> host[b].key, mods |-> host[b].mods]]

ImplementsSharedKeyboard == Keyboard!Spec
=============================================================================
