# A TLA+ model of ipad-remote

ipad-remote turns an iPad (or a browser) into a trackpad and keyboard of a PC:
an app sends 6-byte packets over UDP to a small Python server on a Raspberry Pi,
which writes HID reports to a USB gadget, to a Bluetooth host, or to
`/dev/uinput`. These modules model the parts of that path where the order of
events matters, check them with TLC, and prove the central properties with
TLAPS. All paths below are relative to `src/`.

## 1. Inventory

| Component | State | Operations | Talks to |
|---|---|---|---|
| HID dispatcher (`rpi/src/hid_dispatcher.py`) | `_last_keycode` | `dispatch` (trackpad, scroll, arrow), `release_all`, `close` | calls a mouse and a keyboard backend |
| Fan-out (`rpi/src/hid_fanout.py`) | the list of backends | `write`, `release`, `close` of each, in order | USB first, then Bluetooth (`main.py:133-135`) |
| USB backends (`hid_keyboard.py`, `hid_mouse.py`) | an open `/dev/hidgN` | `write`, `release`, `close` | a write raises when the host is gone, blocks when it does not read |
| Bluetooth backends (`bt_keyboard.py`, `bt_mouse.py`) | none | the same | `BtHIDServer.send_report`, silent without a host |
| Classic Bluetooth server (`bt_hid_server.py`) | two listening sockets, `_ctrl_conn`, `_intr_conn`, a lock | `accept` (a thread), `send_report`, `close` (event loop) | L2CAP hosts; `_bt_accept_loop` of `main.py` calls `accept` again |
| uinput backend (`uinput_backend.py`) | `_buttons`, `_active_keys`, `_active_mods` | `write`, `release`, `close` | key events to the local desktop |
| BLE server (`ble_hid_server.py`, `ble_*.py`) | registrations, notify flags, last values, GLib's idle queue | `start`, `send_report`, `close` (event loop); `do_notify`, `StartNotify`, `StopNotify` and the queries (GLib thread) | BlueZ over D-Bus, through it one host |
| UDP server (`udp_server.py`) | `_client_addr` | `datagram_received` | `parse_packet`, `dispatch` |
| Browser server (`web_server.py`) | the set of sockets | `on_message` (press, sleep, release), `_broadcast` | `dispatch` on the same event loop |
| Process (`main.py`) | the backends, the stop event | start, shutdown | everything above |
| App, gestures (`ios/iPadRemote/iPadRemote/Views`) | timers, gesture state | press, release after 50 ms, motion | UDP packets, no answer |
| App, connection (`ContentView`, `UDPClient`, `BonjourBrowser`) | shown status, one `NWConnection`, one `NWBrowser` | discover, connect, react to callbacks, search again | Network.framework, whose callbacks are forwarded to the main queue |
| Bluetooth profile, agent, service scripts, gadget scripts (`bt_profile.py`, `bt_agent.py`, `rpi/setup`) | BlueZ, systemd and configfs | set-up, pairing policy, teardown | run before or beside the server |

What is hard here:

* **Failure half-way.** A trackpad packet is two writes; a fan-out is one write
  per backend; any of them raises when a USB host is unplugged. The dispatcher's
  memory of the held key must survive every combination.
* **Two threads around one connection.** `accept` replaces the connection while
  `send_report` uses it outside the lock.
* **No acknowledgements.** A press and its release are separate datagrams, 50 ms
  apart; the release can be lost, overtaken or never sent.
* **Callbacks that come late.** BLE reports cross threads as idle callbacks, and
  BlueZ's calls are read after the host has gone or come back; the app handles
  callbacks of connections it has already replaced.
* **Several clients on one dispatcher.** UDP packets and WebSocket handlers
  interleave between a press and its release.
* **Crashes.** A USB gadget outlives the process that fed it.
* **Differences instead of states.** uinput needs key events, so its backend
  must remember what it pressed.

What makes each part correct:

* dispatcher: it never believes less is held than really is; a release reaches
  every host; a shutdown leaves nothing held (which one that raises does not
  keep to, see `shutdown` below);
* Bluetooth server: reports only go to the current host, no socket is used after
  it was closed or leaked, a waiting host is served, shutdown ends;
* uinput: its events add up to the reports of a real HID device;
* sessions: what is held comes up, unless its release was lost;
* BLE server: reports reach the host in order and at most once, a release gets
  there unless the loop is stopped first, a new subscription is noticed;
* app connection: it never shows `connected` over a dead connection for longer
  than a callback takes, and never stops trying.

## 2. Modules

| Module | What it is |
|---|---|
| `HIDReports` | packets, and what a HID host holds after a report |
| `SharedKeyboard` | abstract specification: one keyboard that several hosts share |
| `HIDDispatcher` | dispatcher, fan-out, hosts' links, life of the process; implements `SharedKeyboard` |
| `RemoteSession` | extends `HIDDispatcher` with the app, UDP and browser handlers |
| `ReportChannel` | abstract specification: one atomic connection reports go to |
| `BtHIDServer` | both threads of the classic Bluetooth server and its hosts; implements `ReportChannel` |
| `ReportPipe` | abstract specification: a lossy pipe that keeps the order |
| `BleHIDServer` | event loop, GLib thread, BlueZ and a host around the BLE server; implements `ReportPipe` |
| `AppConnection` | the app's status, connection, browser and pending callbacks |
| `UinputBackend` | the uinput backend under the dispatcher; implements `HIDDispatcher` with a USB backend |
| `MC...` | constants for TLC |
| `..._proof` | theorems and proofs |

### HIDReports and HIDDispatcher

A host's state is `[buttons, mods, key]`: a report carries all of it, so a mouse
report replaces the buttons and a keyboard report the modifiers and the key.
Deltas and wheel leave no state behind and are left out. `flags` is a set of
bits, of which `ButtonBit` (`& 0x07`) reach a mouse report.

`dispatch(p)` is `Dispatch(p)`: `HandleScroll` and `HandleArrow` take one step,
`HandleTrackpad` writes the mouse report and `TrackpadKeys` does the rest
(`hid_dispatcher.py:30-35`), because a link may change in between. `PressKey`,
`ReleaseKey` and `NoKeyToRelease` are the branches on `keycode` and
`_last_keycode`. `Raises(b)` is a USB write without a host; `Ahead`, `Reached`
and `Receives` say which backends a fan-out gets to, and `Outcome` whether
`dispatch` raised, in which case `_last_keycode` keeps its value.

`CloseMouse`, `CloseKeyboard`, `CloseServer` and `Exit` are the shutdown. An
exception in the first two leads to `unwinding`, where `bt_server.close()`
(`CloseServer`) is skipped, so that the Bluetooth connection stays. `accepting`
says that the accept thread is in `accept()` and so can take another host;
`asyncio.run` waits for that thread, hence `Exit` needs `~accepting`, and only
the end of the process then closes what is still open. Once the shutdown began
the thread takes one more host at most (`LinkUp`), or its `accept` fails
(`AcceptFails`), or it waits for ever. `BtHIDServer` models the thread itself.
Left out: the web listener, which a raise leaves open too; while `asyncio.run`
waits, its loop would serve a browser that connects anew.

`Kill` is the process ending at any step without a release: the USB
host keeps what the last report said, because the gadget stays bound.
`CrashSpec` adds it to `Spec`.

`SharedKeyboard` is what the fan-out promises: one chord at most is held, a
press or release is one step for all attached hosts, a host that detaches holds
nothing and one that attaches holds nothing until the next press. The mapping is
`held <- lastKeycode`, `attached <- link`, and `shows` is each host's key and
modifiers; the mouse buttons, which have no such promise, are left out of it. A
keyboard write that returns is a `Press` or `Release`, one that raises must be a
stutter, and links coming and going are `Replug`: no step may show a chord to
one attached host and not to another. It is not claimed under `CrashSpec`, where
the gadget outlives the process.

### RemoteSession

A gesture is a press packet and the release 50 ms later. `MakeGesture` and
`ReleaseTimer` are `sendKeyPress`, `handleTap`, `handleLongPress` and
`sendShortcut`; the packets then sit in `net`, which loses (`Lose`), duplicates
(`Duplicate`) and, being a bag, reorders them. `WebPress` and `WebRelease` are
the two halves of `on_message` around `asyncio.sleep`; a press that raises ends
the handler, so `web[s]` is freed and no release follows. `DeliverMotion` is any
packet with no flags and no key.

Two history variables, `keyOrphan` and `buttonOrphan`, record that something is
held whose release is known not to come: the release was lost, its dispatch
raised (`Failed`), it came before its press (`TooLate`), the app was gone before
its timer fired, or the handler of a click died of an exception between the two
halves. Only gestures of the kind in question count, and an orphan ends as soon
as nothing of its kind is held (`Account`).

### BtHIDServer

`acceptor` is the accept thread: `CallAccept` and `AcceptCtrl`, `AcceptIntr` are
the two blocking calls, `Install` the section under the lock, `AcceptFails` an
exception, `AcceptAgain` the loop in `main.py`. `sender` is the event loop in
`send_report`: `BeginSend` reads the connection under the lock, `SendReport` or
`SendFails` use it, `ClearConnection` is the second locked section. `Close` is
`bt_server.close()` after the accept task was cancelled, `Exit` the end of
`asyncio.run`, which waits for the accept thread. A thread blocked in `accept()`
when the listening socket is closed stays blocked and still accepts the next
channel, so an `Install` after `Close` is possible. A socket whose last Python
reference goes away is closed (`closed`), which is what removes a half-accepted
control channel and the connection cleared after a failure. The exception of a
failed `accept` keeps that control channel until `_bt_accept_loop` has slept its
second (`DropAccepted` in `AcceptAgain`); once the task is cancelled nobody takes
the exception. Closing the listening sockets resets what waits in their backlogs
(`Reset`), except at a socket that an `accept()` under way still holds.

Hosts open a control channel, then an interrupt channel, and leave; the kernel
completes both into the backlogs (`ctrlQueue`, `intrQueue`) without `accept`.

`ReportChannel` says what callers may rely on: reports go to the current
channel, a retired channel never becomes current again. The mapping is
`current <- intrConn`, `retired <- closed`, `receiver <- delivered`.

### ReportPipe and BleHIDServer

`proc` is the main thread: `Start` is `start()` (`NoAdapter` its
`RuntimeError`), `CloseMouse` and `CloseKeyboard` are `dispatcher.close()`,
`Close` is `ble_server.close()`. `loop` is the GLib thread: `starting` until it
is inside `run()` (`EnterLoop`), `quitting` from `quit()` until `run()` returns
(`LeaveLoop`); in between it still runs what it had begun to dispatch, and how
much of the queue that is, is left open. A thread still `starting` when
`close()` asks `is_running()` is not stopped.

`Write` is what the dispatcher does through `BleKeyboardHID` and `BleMouseHID`:
`send_report()` queues an idle callback (`Enqueue`). `DoNotify` runs the first
one: `Emit` if `_notifying` is set, `Drop` otherwise. BlueZ's `StartNotify` and
`StopNotify` wait in `calls`, separately for each characteristic, and
`NotifyCall` is the loop reading one: the flags lag behind `subscribed`. The two
registrations go through `Register`, `Describe` (BlueZ asks for the objects) and
`Reply`, whose error is only logged; a refused one stays refused. `Subscribe`
needs an accepted application and, for the first characteristic, an
advertisement on a powered adapter. `ProcessEnds` is the end or death of the
process: BlueZ drops the application and the host lets go.

`written` and `lost` are history: the newest report written, and whether a
report was dropped behind one the host still holds. That happens when a host
comes back before the `StopNotify` of its earlier visit was read; the properties
exclude it by name instead of leaving it out of the model.

`ReportPipe` is the promise to the callers: order kept, nothing delivered twice,
nothing invented; losses are allowed, and a host that goes forgets what it held.
The mapping is `pipe <- queue`.

### AppConnection

`main` is the queue of blocks the network's callbacks forward with
`DispatchQueue.main.async`; `cancelling` counts replaced connections whose
`.cancelled` is still to come; `timers` counts `asyncAfter` blocks.
`FirstResults` and `Announce` are calls of `browseResultsChangedHandler`, with
one result for each server it knows of, and `Discover` one turn of its loop
(`results` counts what is left of it). `ConnectionReady`, `ConnectionFails` and
`Cancelled` are the state handler; `ConnectionWaits` is `.waiting` (no route, a
name that does not resolve), which `ContentView.swift:84` ignores, and
`ConnectionRetries` the network letting such a connection try again. `OnDiscovered`, `OnReady` and
`OnEnd` are the blocks on the main queue, `SearchAgain` the block after a second,
`ConnectTo` the address typed by the user. As in the code, no block knows which
connection it is about. Taken from Network.framework: a browser that was
replaced reports no more, and a connection that was cancelled reports
`.cancelled` once and nothing else new, also if it had failed before.
`UDPClient.disconnect` has no caller and no action.

### UinputBackend

`MouseWrite` computes the changed buttons against `_buttons` as the code does;
`KeyboardWrite` presses and remembers, `KeyboardRelease` releases what is
remembered. `device` is what the desktop holds: it only changes by events and by
the destruction of the device. Two history variables: `overlapped`, a key was
pressed while the dispatcher held another one; `diverged`, that or the use of a
key or modifier outside the tables. Until `diverged` the desktop, read as a USB host, is a behaviour of `HIDDispatcher`
with one USB backend whose link stays up (`ImplementsGadget`).

The process being killed is left out here: the kernel destroys the virtual
device together with its file descriptor and releases its keys.

## 3. Runs

| Run | Checks | Bounds |
|---|---|---|
| `dispatcher` | `TypeOK`, `HeldKeyTracked`, `ReleaseClearsHosts`, `ShutdownReleases`, `ImplementsSharedKeyboard` | two keys, two flag bits of which one is a button, both backends, every packet over them |
| `dispatcher_crash` | `KeyTrackedAfterCrash` under `CrashSpec` | the same |
| `shutdown` (violated) | `ShutdownLetsGo` | the packets the clients send |
| `session` | `KeyHeldUntilReleased`, `ButtonHeldUntilReleased`, `KeyComesUp`, `ButtonComesUp` | two gestures of three kinds, one browser, two copies of a packet |
| `bt` | `CapturedIsCurrent`, `InstalledIsOpen`, `NoChannelLeaks`, `LoneHostNotStranded`, `ImplementsReportChannel`, `LoneHostServed`, `ShutdownEnds` | two hosts with two visits each, two waiting connections per socket, one failing `accept` |
| `ble` | `HostInStep`, `SubscriptionKnown`, `HeldAtCloseIsCutOff`, `LossNeedsLateCall`, `ImplementsReportPipe`, `ReleaseReachesHost`, `SubscriptionSeen` | one payload per characteristic besides zero, two waiting callbacks and the two of the shutdown, two waiting calls per characteristic |
| `app` | `ConnectedIsTrue`, `NeverAtRestUnconnected`, `SettledStays`, `ConnectsAgain` | three upsets (failures, waits, announcements, manual connects), two servers, two cancels and timers, two blocks on the main queue when a result is forwarded |
| `app_reconnect` (violated) | `ReconnectSettles` | one upset, one server, three of each of the others |
| `bt_stale`, `bt_served` (violated) | `FailureRemovesOwnConnection`, `HostOnBothChannelsServed` | as `bt` |
| `uinput` | `NewestKeyHeld`, `OnlyOverlapSticks`, `ImplementsGadget` | two mapped keys and one that is not, two mapped flag bits and one that is not |
| `uinput_release` (violated) | `ReleaseAllReleases` | as `uinput` |

Why the bounds are enough: the dispatcher remembers one key, so two keys show
every confusion of an old key with a new one, and a bit that is a button and one
that is not separate mouse from keyboard effects. Two gestures are the smallest
number that interleaves; a third repeats a pair. In `bt` a stale connection
needs one replacement, a split pair needs a host that left and one that came,
both within two hosts with two visits. In `ble` two queued reports are one that
another could overtake, and two waiting calls are the `StopNotify` of one visit
and the `StartNotify` of the next. In `app` one upset, or the second
result of one callback, starts the reconnect cycle; three let a failure, a
manual connect and a late discovery fall into one. The safety results of these runs are proved for every value of the
constants (section 5).

`listen(1)` lets Linux keep two completed connections per socket, hence
`Backlog = 2`. `CHECK_DEADLOCK FALSE` is set only for `BtHIDServer`, where the process
ends and hosts run out of visits, and for `AppConnection`, which comes to rest
connected when the upsets are used up.

### What the passing runs show beyond the results of section 5

The liveness half of some safety results: a key or button that is held does come
up (`KeyComesUp`, `ButtonComesUp`) where the invariants say its release is on
the way; a lone host is served (`LoneHostServed`) where `LoneHostNotStranded`
says that nothing it needs was forgotten or paired with another visit; a
subscription is noticed (`SubscriptionSeen`) where `SubscriptionKnown` says what
the flags are once BlueZ's calls are read; the app connects again
(`ConnectsAgain`), unless its connection waits for the network for ever with
nothing searching (`StuckConnecting`, the one way to stop short of it), where
`NeverAtRestUnconnected` says that something is under way and `SettledStays`
that it keeps what it reached.

### What the violated runs show

* `shutdown`: a key is down on the Bluetooth host in 'both' mode, the USB host is
  unplugged and the process is told to stop. `release_all` raises at the USB
  backend, the fan-out never gets to Bluetooth, `main` never gets to
  `bt_server.close()`, and `asyncio.run` waits for a thread that sits in
  `accept()`: nothing releases the key until another host connects or somebody
  kills the process.
* `bt_stale`: a send failing on a connection that `accept` has replaced sets
  `_intr_conn = None` and so drops the *new* host.
* `bt_served`: `accept` pairs channels by order, not by address. h2's control
  channel comes first, h1's second, but h1's interrupt channel comes before
  h2's. h1 leaves, which takes its control channel out of the backlog, while
  `accept` already holds h1's interrupt channel: it installs it with h2's control
  channel. h2's interrupt channel now waits for a control channel that nobody
  has left to open, so h2, connected on both, is never served.
* `uinput_release`: `_active_keys` is overwritten by the next press, so the key
  before it is never released by `release_all` or any release packet.
* `app_reconnect`: `connect` cancels the connection there was; its `.cancelled`
  arrives after the new one is started, is taken for the end of *that* one, and
  a second later the app searches, finds the server and connects again, which
  cancels the working connection. After one failure this can go on for ever (and
  with two servers in one callback without any: there the second result replaces
  the connection of the first), so
  "Auto-reconnect" need not settle; `ConnectsAgain` shows the app is connected
  again and again in between, and `SettledStays` that only connections with a
  `.cancelled` or a timer of an earlier one still to come are thrown away.

### Fairness

* `session`: timers fire (`asyncAfter`, `asyncio.sleep`), the event loop
  finishes what it dispatches (it assumes writes return), and a datagram that is
  not lost is delivered. `Deliver` and `WebRelease` need strong fairness because
  they wait for the event loop to be free again and again. Gestures, motion,
  links and losses have none.
* `bt`: both threads take their enabled steps; a host whose channel was closed
  by the server notices; the interpreter exits when nothing holds it.
  `AcceptAgain` is strongly fair: the accept task shares the event loop with
  senders. Nobody promises that a host connects, that a report is sent or that a
  shutdown starts.
* `ble`: the GLib thread gets into `run()`, runs the first callback, reads the
  next call of each characteristic and leaves after `quit()`. GLib gives D-Bus
  and idle sources their turns; idle callbacks wait while D-Bus is busy, which
  `calls` and a single host cannot make last for ever. Nothing obliges the host,
  BlueZ, the writer or the shutdown.
* `app`: the browser reports, its loop, the main queue and the timers run, a
  cancelled connection says so. `ConnectionReady` is strongly fair, as a
  connection is replaced again and again, but only promised to connections that
  neither fail nor wait: UDP makes one ready at once when there is a route and
  an address. Failures, waits, announcements and the user have none, and are
  bounded; nothing obliges a connection that waits to be let go on.
* `shutdown`: the steps of the shutdown are taken and the process exits when it
  can. Hosts, links and failures of `accept` have none.

`LoneHostServed` is restricted to a single host because `bt_served` shows that
two hosts can starve one another. `ShutdownEnds` excludes the accept thread
waiting for a host: `close()` does not wake it, and then the process does wait.

## 4. Hazards

`PROJECT.json` lists the hazards with their lines and the properties that cover
them. Described by the models but excluded by no property, because the code has them:
the release lost by the network or by an app that is gone, the call of
`release_all` on a mode switch that nobody makes, the releases that the end of
the GLib loop cuts off, a GLib thread that is not stopped, a refused
registration. Not covered, and why: early release by a motion or shortcut packet
(absolute button state is the protocol's design), event-loop stalls (time is not
modelled), a browser that stops reading the broadcast, and the hazards of the
scripts and of the report descriptor, which lie in data or in programs outside
the repository.

## 5. Proofs

TLAPS checks these for every value of the constants; the assumptions are the
named ASSUMEs of the modules (`NoKey` is not a key, button bits are flag bits,
packets are packets, the backends are USB and Bluetooth; channels per host and
backlog are positive; mapped keys are keys; the packets of gestures are packets,
a click has no key and a key no button bit; BLE payloads of keyboard and mouse
differ; bounds are positive).

* `HIDDispatcher_proof`: `TypeCorrect` and `CrashTracking` hold across crashes;
  `HeldKeyIsTracked`, `ReleaseReachesHosts`, `ShutdownIsClean` hold without
  them. The argument: a fan-out that does not raise reaches every attached host
  and a detached host holds nothing (`FanoutAllOrNothing`), so after a write
  that returned all hosts agree with `_last_keycode`; after one that raised, USB
  is detached and holds nothing, and Bluetooth, being behind it, saw no report.
  `SharesKeyboard` turns this into a refinement: every step, also between the
  two reports of a trackpad packet and in the shutdown, is a step of
  `SharedKeyboard` or leaves its state alone. `HostsAgree` follows: no two hosts
  ever hold different chords. That USB comes before Bluetooth in the fan-out is
  essential; in the other order (a mutant of `Ahead`) Bluetooth would have seen
  a press whose write raised. `ShutdownIsClean` says what a shutdown achieves:
  everything released once `release_all` has returned, on Bluetooth only at the
  exit when it raised; that this exit may never come is the `shutdown` run.
* `BtHIDServer_proof`: `TypeCorrect`, `CapturedStaysCurrent`,
  `InstalledStaysOpen` and the refinement `Refinement`. None of these is
  inductive. `BInv` adds that a channel is in one hand only: the backlogs hold
  channels opened but not taken, each once (`Backlogged`), what `accept` carries
  is not what is installed (`OneOwner`), and the locals are empty outside the
  steps that use them (`AcceptorHolds`, `SenderHolds`). The sequence lemmas
  (`CleanTail`, `CleanAppend`, `CleanWithdraw`) say how the backlogs keep this.
  `ChannelsAccountedFor` is the converse of `OneOwner`: every channel of a host
  that is there is in some hand (`LeakInv`), for which `AppendKeepsAll`,
  `TailKeepsRest` and `WithdrawKeepsOthers` say what queue operations leave in
  place. `LoneHostGetsOn` puts both together with two more invariants.
  `VisitInv`: a host has one live channel per PSM, and its control channel as
  long as its interrupt channel. `LoneInv`: with one host, the interrupt channel
  that belongs to the control channel in use was taken from the backlog
  (`Paired`), so one that still waits belongs to a control channel that, all
  channels being accounted for, the server closed.
* `UinputBackend_proof`: `TypeCorrect`, `NewestStaysHeld`, `StuckKeysOverlapped`
  and the refinement `RefinesGadget`. The invariant relates the backend's lists
  to the device (`Remembered`) and makes them equal until presses overlap
  (`InStep`), whether or not the tables map the keys; `SeenIsMirror` turns that,
  while not diverged, into the state of a USB host, after which each action maps
  to the dispatcher's. `StuckKeysOverlapped` says that `uinput_release` shows
  the only way a key sticks.
* `RemoteSession_proof`: `KeysAreReleased` and `ButtonsAreReleased`, for any
  number of gestures, sockets and copies. `SInv` adds to them the dispatcher's
  own `IInv`, that packets, timers and handlers belong to gestures that were
  made (`GesturesKnown`), and what is known of a packet between its mouse and
  its keyboard report (`HalfWay`): which gesture it belongs to, and that one
  without a button bit has already lifted every button. `SessionIsServer` is the
  composition: every session step is a step of the dispatcher or leaves it
  alone, so the theorems of `HIDDispatcher_proof` hold in a session too, among
  them the shared keyboard (`SessionSharesKeyboard`). `QuietIsReleased` is what
  the invariants mean at the end: with nothing waiting, in flight or half done
  and no orphan, every host holds nothing.
* `BleHIDServer_proof`: `HostStaysInStep`, `HeldAtClose` and the refinement
  `ServerIsPipe`. `BInv` adds that the last queued report of a kind is the
  newest written (`QueueEndsWithLatest`), that what the host holds is the
  characteristic's value (`HostGotValue`) and, with nothing queued or lost, the
  newest report (`HostGotLatest`), that an unsubscribed host holds nothing, and
  that the shutdown has written its releases (`ReleasedWhenClosing`).
  `FlagsFollowSubscriptions` and `OnlyLateCallsLose` rest on `CallInv`: the last
  call waiting tells whether the host is subscribed, and with none waiting the
  flag does.
* `AppConnection_proof`: `ConnectedStaysTrue` and `NeverAtRest`, the latter by
  following each event to the next one it starts. `SettledConnectionStays`: once
  no `.cancelled`, no timer and no failure of an earlier connection is to come,
  a late discovery no longer replaces the connection, only its own failure or
  the user ends it. `UndisturbedSettles`: with one server to be found and without
  failures, waits, announcements and manual connects the first connection has
  settled when it is shown (`FirstConnection`), so the reconnect cycle of
  `app_reconnect` needs one of them, or a second server, to start. The theorem
  has `MaxServers = 1` as its assumption and is false without it.

Only model-checked: every liveness property (fairness and ENABLED are outside
the prover), that is `KeyComesUp`, `ButtonComesUp`, `LoneHostServed`,
`ShutdownEnds`, `ReleaseReachesHost`, `SubscriptionSeen` and `ConnectsAgain`.
Every invariant, every action property and every refinement a passing run checks
is proved. The invariants `LeakInv`, `VisitInv`, `LoneInv`, `CallInv` and
`FirstConnection` were model-checked on the runs' instances before they were
proved.

## 6. Not modelled

* `_broadcast` and the web pages: nothing depends on them, and the set of
  sockets is copied before the first await. A browser that stops reading delays
  the others; that is Tornado's flow control.
* `bt_profile.py` and `bt_agent.py`: an SDP record, registrations made once at
  start, and an agent whose every answer follows from a fixed policy. They keep
  no state that changes.
* The BLE server's static characteristics and object tree: data BlueZ reads
  once.
* `rpi/setup`: shell scripts whose state is systemd's, BlueZ's and configfs's. A
  model would have to describe those programs, which the repository does not.
* Numeric code (clamping, acceleration, inertia, byte layout): motion leaves
  nothing behind in any modelled state.
* The dry-run backend, which only logs, and the user interface.

Within the modelled parts: deltas and wheel, byte layout, logging, time beyond
the order of events, the blocking of writes; the web listener after a shutdown
that raised; which of several servers an app is
connected to; several hosts subscribed to the BLE server at once.

## 7. Order of work

Modules were written in the order of how much of the system rests on them:
`HIDReports`, `HIDDispatcher`, `RemoteSession`, `ReportChannel` and
`BtHIDServer`, `UinputBackend`, `ReportPipe` and `BleHIDServer`,
`AppConnection`; each proof followed its runs. Left for a reader who wants to go
on: the broadcast's order of messages, and the policy the agent of a running
service follows after `bt_backend_ctl.sh` has changed it.
