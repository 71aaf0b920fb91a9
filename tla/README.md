# TLA+ models of xpra's subprocess wrapper, websocket framing, mDNS publisher, tk client and smaller components

This directory holds TLA+ models of parts of the xpra sources under `src/`. It
also holds the TLC configurations that check them. `PROJECT.json` is the
machine-readable index of this material:

- the components;
- the runs and what each one checks;
- the mutants that show each property can fail;
- the map from every definition to the source lines it models;
- the findings and the hazards.

## 1. The system and its parts

`src/` is a sample of xpra files. The one with concurrency, failures and a
protocol is `xpra/net/subprocess_wrapper.py`, and it is the core of this project.

### The subprocess wrapper

- **Parent side.** A `SubprocessCaller` spawns a child process (`exec_subprocess`)
  and registers it with the child reaper. It wraps the child's stdin/stdout in a
  `SocketProtocol` engine (`make_protocol`). Its `abort_test` and its `close_cb`
  (`subprocess_exit`) are attached to the connection.
- **Child side.** The child runs a `SubprocessCallee`. The callee wraps stdin and
  stdout in a second engine, registers SIGINT/SIGTERM handlers and runs a GLib
  main loop.

The two sides interact as follows.

- **Commands, parent to child.** `Caller.send` puts a packet on `send_queue` and
  calls `source_has_more()`. The engine's writer thread drains the queue through
  `get_packet` (`item`, `more`). The child's reader thread hands each packet to
  `Callee.process_packet`. That function does one of three things:
  - it stops the child on `connection-lost`, `gibberish` or `stop`;
  - it calls `sys.exit(0)` on `exit`;
  - it checks the method whitelist and then schedules the wrapped object's
    method with `GLib.idle_add`.
- **Signals, child to parent.** The wrapped object's signals come back through
  `connect_export`, `export` and `Callee.send`. The parent's
  `process_packet`/`_fire_callback` schedules every callback registered with
  `connect()` using `idle_add`. The two built-in callbacks (`connection_lost`,
  `gibberish`) call `stop()`.
- **Shutdown.** `Caller.stop` runs `stop_process` (`poll`, then `terminate`)
  followed by `stop_protocol` (close). Closing fires `subprocess_exit`, and so
  does the reaper.
  - The child's first SIGTERM runs `handle_signal`. It installs `signal_stop`,
    sends a `"signal"` packet, adds `cleanup` as a timeout and adds a 150ms
    `stop` timeout.
  - A second SIGTERM stops the child at once. `stop()` closes the protocol
    without flushing, and `do_stop` quits the main loop. The `finally` of
    `start()` then closes what is left and the process exits.
- **Fault injection.** With `XPRA_WRAPPER_FAULT_INJECTION_RATE` set, every call
  of `INJECT_FAULT` advances a per-process counter, and every Nth call
  `raw_write`s junk. The callers are `send`, and `process_packet` on both sides.

The `SocketProtocol` engine (`xpra.net.protocol`) is not in `src/`. It is
modelled from the specification only as far as the wrapper observes it.

### The other files

The other files are modelled as follows.

| file | what it is | status |
|---|---|---|
| `net/websockets/header.py` | hybi frame header encode/decode | modelled: `FrameCodec`, `WebsocketStream` |
| `net/mdns/avahi_publisher.py` | callback-driven publisher state machine | partly: `AvahiPublisher` (the aggregator and one publisher per address; `main()` is a test harness) |
| `gtk/dialogs/qrcode_client.py` | client that asks the server for its websocket addresses | partly: `QRCodeClient` (`do_command`; the window is GTK drawing) |
| `notifications/notifier_base.py` | temp-file bookkeeping of notification icons | modelled: `NotifierBase` |
| `x11/desktop/desktop_model.py` | size-hint arithmetic over RandR answers | partly: `DesktopModel` (operators, including `do_resize`; the X server and GObject signals are arguments) |
| `client/tk/client.py` | a packet source fed by the Tk loop and drained by the engine's writer | partly: `TkClient` |
| `server/window/filters.py` | window property filters | modelled: `WindowFilters` |
| `gtk/dialogs/u2f_tool.py` | U2F registration tool, run repeatedly against config files | modelled: `U2fTool` |
| GUI files, `win32/common.py`, `features.py`, tests | widgets, ctypes, constants | not modelled (see PROJECT.json) |

## 2. Modules

### `SocketProtocol.tla`: the engine, written from the specification

State:

- `pstate`: none, open or closed;
- `wake`: the `source_has_more` event;
- the writer thread: `wpc`, the item `witem` it holds, and the `more` flag `wmore`;
- `wire`: the pipe contents per direction;
- `fdOpen` and `reading` (whether the reader thread is alive).

It provides the updates the composed steps use:

- `Start` and `Close` (close drops whatever the writer holds);
- `SourceHasMore`;
- `WriterWake`, where the event is cleared before `get_packet`;
- `NextInput`, which gives a packet, junk, EOF or nothing;
- `Consumed`;
- `CanWrite` (EPIPE);
- `WithJunk` (`raw_write`).

### `SubprocessWrapper.tla`: the composition

This module extends `SocketProtocol` and adds both owners and both processes.

State:

- `ePhase`: the child is none, spawned, init, running, stopped or exited;
- `eExit`;
- `eHandler`: the installed signal handler;
- `eTimers`: pending `timeout_add` callbacks;
- `eSigPending`: SIGTERMs not yet delivered;
- `rProc`: `Caller.process` is set;
- `reaped`;
- `hasProto`: `self.protocol` is set;
- `queue`: the `send_queue`s;
- `loop`: each main loop's idle queue, a FIFO of callbacks;
- `fcount`: the fault counters;
- `cStop`: the parent's main thread is inside `Caller.stop()`, between
  `stop_process()` and `stop_protocol()`;
- history variables (`sent`, `invoked`, `fired`, `exitSeen`) that the
  properties read.

Every operation is one action, or one value-level helper shared by several
actions. The trailing calls of a handler are part of its action: `stop()`
includes closing the protocol, scheduling `net_stop` and quitting the loop.

| action | code |
|---|---|
| `CallerStart` | `Caller.start`, `exec_subprocess`, `make_protocol`, `protocol.start` |
| `CallerSend(t)` | `Caller.send` (put, `source_has_more`, `INJECT_FAULT`) |
| `CallerStop` | `Caller.stop`: its first step, `stop_process` (`CallerStopProcess`: drop the process, terminate it if `poll()` is None) |
| `CallerStopProtocol` | the rest of `stop`: `stop_protocol`, which drops and closes the protocol, with `close_cb` |
| `CallerLoop` | one idle callback of the parent, while its main thread is not in `stop()`: the built-in `connection_lost`/`gibberish` (→ `stop_process`) or a user callback |
| `Reap` | the child reaper calling `subprocess_exit` |
| `CalleeInit` | `Callee.__init__` (signal handlers registered) |
| `CalleeStart` | `Callee.start` up to `run()` |
| `CalleeLoop` | one idle callback of the child: `stop`/`signal_stop`, `handle_signal` (`CalleeHandleSignal`), or a wrapped method, which may emit a signal that `export` sends back |
| `CalleeTimer(t)` | the `cleanup`/`stop` timeouts of `handle_signal` |
| `CalleeExit` | the `finally` of `Callee.start`, then process exit |
| `SignalArrives` | SIGTERM delivery: kills the child before the handlers exist, otherwise schedules the installed handler |
| `WriterGet(e)`, `WriterWrite(e)` | the writer thread calling `get_packet` (its `get(False)` and `qsize()` in one step), then writing as section 4.3 describes the engine; `abort_test` and EPIPE take the failure path (`Failure`: close, `close_cb`, connection-lost) |
| `Reader(e)` | the reader thread calling `process_packet`; junk is gibberish, EOF is connection-lost, and the child's `exit` command is `ExitCommand` |
| `ExternalSignal` | environment: a SIGTERM from outside |

`Caller.stop()` is two actions because the engine's threads run between
its two calls: once `stop_process()` has set `self.process = None`,
`abort_test` raises, so the reader or the writer may close the engine and
fire `subprocess_exit` and `connection_lost` before `stop_protocol()` runs.
A consequence the model makes visible: after `stop_process()` the parent
reads nothing more, so the child's `"signal"` packet reaches the parent's
callbacks only when the SIGTERM comes from outside, as in the signals run.

`get_packet`'s `get(False)` and `qsize()` are one step. A `put()` between
them only makes `more` true, which costs the writer one extra `get`.

Data is abstracted to packet tags.

- Packet arguments, signal names, file names and encoders are left out.
- The 150ms delay is not measured: a pending timer may fire at any time.

### `FrameCodec.tla`: `xpra/net/websockets/header.py`

The three functions of `header.py` are operators over byte sequences, where
each byte is a natural number below 256.

| operator | code |
|---|---|
| `EncodeHybiHeader` | `encode_hybi_header`: opcode check, fin and mask bits, the three length classes |
| `Pack` / `Unpack` | `struct.pack(">H"/">Q")` and `struct.unpack`, big-endian; a value too wide for its field raises |
| `DecodeHybi` | `decode_hybi`: each "buffer too small" return is `None`, then the payload (unmasked or sliced) and the total length |
| `Slice` | Python's `buf[a:b]`, which stops at the end of the buffer |
| `Utf8`, `EncodeUtf8` | `str.encode("utf-8")` of code points |
| `ClosePacket` | `close_packet` |

The following are not under `src/` and are written from section 4.1 of the
specification: `HybiUnmask` (`xpra.net.websockets.mask`), and the framing of a
data frame (`PayloadOf`, `Masked`, `EncodeFrame`).

TLC's integers are 32-bit, so the upper four bytes of a 64-bit length are
always 0. The specification's largest test length (200000) fits.

### `WebsocketStream.tla`: a stream of frames read in chunks

State:

- `out`: bytes sent and not yet read;
- `buf`: the reader's buffer;
- `reads`: short reads so far;
- `sent` and `got`: the frames sent and decoded, as history.

Actions:

- `SendFrame` and `SendClose`: a writer appends frames.
- `Receive(k)`: a read moves up to `k` bytes into the buffer.
- `Parse`: the reader calls `decode_hybi` and keeps the bytes after the frame.

The reader loop is not under `src/`, so these actions are written from the
specification.

The module is shown to implement `FrameChannel` (below). The refinement
mapping is:

- `delivered` is `got`, the frames decoded so far;
- `queue` is the frames sent and not yet decoded,
  `SubSeq(sent, Len(got) + 1, Len(sent))`.

Every `SendFrame` or `SendClose` step is a `Send` of the channel, every
`Parse` that decodes a frame is a `Deliver`, and a `Receive` or a `Parse` that
gets `None` is a stuttering step. The channel's fairness, "a frame in the
channel is eventually delivered", is checked too.

### `FrameChannel.tla`: what a websocket connection promises

This is an abstract specification with no counterpart in `src/`, written from
section 4.1: a reliable FIFO channel of whole frames.

- `queue` holds the frames sent and not yet delivered.
- `delivered` holds the frames handed to the reader, in order.

`Send` appends any frame, and `Deliver` moves the head of `queue` to
`delivered`. `Deliver` is weakly fair.

### `NotifierBase.tla`: `xpra/notifications/notifier_base.py`

State:

- `temp_files`: the dict from notification id to icon file;
- `disk`: the icon files that exist;
- `created`: the files `NamedTemporaryFile` created so far. This is bounded by
  `MaxIcons`, and the files are named by their number.

| action | code |
|---|---|
| `ShowNotify(d, n, a, e)` | a backend's `show_notify`: `dbus_check`, then `get_icon_string`. A relative `app_icon`, no icon, or a format other than png/webp/jpeg writes nothing. |
| `CloseNotification(n)` | `clean_notification`: pop the entry and unlink its file |
| `Cleanup` | `cleanup()` as written: it swaps in an empty dict, then iterates the new dict |

The backends are not in `src/`. Any backend may show any id again: a
notification may replace an earlier one with the same id. In that case
`get_icon_string` overwrites `temp_files[nid]` without unlinking the file
recorded there before.

### `DesktopModel.tla`: size hints of `xpra/x11/desktop/desktop_model.py`

Two operators model the hint computation:

- `GetLegacySizeHints(screen_sizes)` models `get_legacy_size_hints`. The
  `max_size` dict keeps the last size of each area, so the maximum is the
  last-listed size of the largest area. The increment hits come from
  `SelectSeq`, and the fixed legacy hints are added above 16 hits.
- `UpdateSizeHints(has_randr, resize_exact, screen_sizes, w, h)` models
  `update_size_hints`. Its four branches are: no RandR, `resize_exact`,
  `XError` or no sizes, and the legacy hints.
- `DoResize(req, cur, modes, resize_exact, is_dummy16, set_ok)` models
  `do_resize` together with the `_screen_size_changed` it leads to. On a
  dummy16 server, a requested size that is not listed is added as a new mode.
  `set_screen_size` succeeds (`set_ok`) only for a listed size. On success the
  result is the new size, the hints `update_size_hints` computes for it, and
  whether "resized" is emitted once or twice. On failure the size is unchanged,
  nothing is published and nothing is emitted.

The RandR queries are the operators' arguments.

### `WindowFilters.tla`: `xpra/server/window/filters.py`

A window is a function from its property names to values. A value is a
record `[type |-> "int" or "str", v |-> ...]`, because Python compares an int
with a str as unequal and `evaluate` coerces with `str()`. `Str` uses TLC's
`ToString` for an integer's decimal digits.

The operators model the code as follows:

- `GetWindowFilter` models `get_window_filter`, with the `lower()` of the
  object name and the two `ValueError`s.
- `Evaluate` models `WindowPropertyIn.evaluate` and `WindowPropertyNotIn.evaluate`.
- `Matches` models `matches`: a window without the property does not match.

### `U2fTool.tla`: `xpra/gtk/dialogs/u2f_tool.py`

`main()` is a sequential program, so the model has a control point `pc`. The
user runs it again and again, and deletes files between runs.

State:

- `files`: `<<dir, name>>` pairs in the configuration directories;
- `made`: the directories that exist;
- the loop variables `k` and `i`;
- `status`: the last exit code.

| action | code |
|---|---|
| `Run` | the user starts `main()` |
| `CheckKeyHandle` | the loop over `key_handle_filenames`: an existing key handle returns 1 |
| `MakeConfDir` | `os.mkdir(conf_dir)` when it is missing; the glob of public keys is only reported |
| `OpenDevice` | `GetLocalU2FInterface()`, which may fail and return 1 |
| `Register` | `dev.Register`, which may raise; nothing catches it |
| `SaveKeyHandle` | writing `u2f-keyhandle.hex` in the first directory, and `i = 1` |
| `PickName` | one turn of the `while True` loop, with `PubName` for `"u2f%s-pub.hex" % c`; a free name is written and the run returns 0 |
| `DeleteFile` | environment: the user deletes a file, as the tool tells them to |

### `AvahiPublisher.tla`: `xpra/net/mdns/avahi_publisher.py`

The module composes the `AvahiPublishers` aggregator with one `AvahiPublisher`
per address of `listen_on` (the constant `Addrs`; `Wildcard` holds those
whose host is `0.0.0.0`, `*`, `::` or empty). Everything runs on the GLib main
loop, and the avahi daemon is a separate process. The daemon is modelled as the
environment, at its D-Bus interface:

- `srv`: its server state;
- `sigq`: the `StateChanged` signals queued on the one bus connection the
  publishers share. dbus-python dispatches a signal, in one go, to the handler
  of every publisher subscribed at that time;
- one entry group per publisher (`gstate`, `gadded`, `gtxt` in `pub[p]`).

The model assumes that avahi accepts `AddService`/`Commit` on a new or reset
group, and refuses them on a committed one. The refusal reaches the publisher
as a `DBusException`.

`Init` is the constructor. With the system bus out of reach there is no
publisher. Otherwise a turn of its loop may raise: with `SHOW_INTERFACE`,
`if_indextoname(IF_UNSPEC)` raises `OverflowError` (not an `OSError`), and
`text_dict=None` fails at `.copy()` (`Raises`). Which hosts get `IF_UNSPEC`
is `InterfaceIndexes`. A constructor that raises leaves `built` false and no
action enabled.

| action | code |
|---|---|
| `Start` | `AvahiPublishers.start()`: start each publisher in turn |
| `StartConnect(p)` | a publisher's `start()` up to `connect_to_signal`; D-Bus may raise before or after `self.server` is set, and the loop moves on |
| `StartState` | `server_state_changed(self.server.GetState())`, the end of its `start()` |
| `Deliver` | the main loop dispatching a queued `StateChanged` to every subscribed publisher |
| `UpdateTxt(t)` | `AvahiPublishers.update_txt` and each publisher's `update_txt` |
| `UserStop` | `AvahiPublishers.stop()`: every publisher stops |
| `DaemonChange(s)` | environment: the daemon changes state and signals the connection |

A publisher's `start()` is split in two because the daemon may change state
between the subscription and `GetState()`. The main loop does not run in
between, nor during the whole of `AvahiPublishers.start()`: no other action of
the server or the main loop is enabled while `phase = "starting"`.

### `TkClient.tla`: `xpra/client/tk/client.py`

Three threads share the client. The Tk main loop runs everything `app.after()`
schedules; the engine's reader thread calls `process_packet`; the engine's
writer thread calls `next_packet`. The writer loop is not in the sources and is
written from section 4.3, as in `SocketProtocol`: wait for the event, clear
it, call `next_packet()` while it answers "more". An exception from
`next_packet()` ends the loop (`wpc = "dead"`).

| action | code |
|---|---|
| `MakeProtocol` | `make_protocol`: `have_more` becomes `source_has_more`, `send_hello` in 1 s |
| `TimerFire(t)` | `send_hello`, or `recheck_focus`, which sends only if the focus is unchanged |
| `UpdateFocus(w)` | `update_focus` |
| `ServerSend(ty, w)` | environment: the server sends a packet |
| `ProcessPacket` | `process_packet`: schedule the handler with `app.after(0)`, or drop an unknown type |
| `RunHandler` | the `_process_*` handlers: windows added and removed, `draw` answered with `damage-sequence` |
| `WriterWake`, `NextPacket`, `WriterWrite` | the writer loop; `NextPacket` is `next_packet`, `pop(0)` included |

Packets are a type and a window id. Timers are a set, so two identical pending
`recheck_focus` timers count as one. Only one focus change is bounded in, so this
does not matter here.

### `QRCodeClient.tla`: `xpra/gtk/dialogs/qrcode_client.py`

`DoCommand(sockets, ipv6)` models `QRCodeClient.do_command`. `sockets` is the
`network`/`sockets` part of the server's info, `NoSockets` when it is missing;
otherwise a sequence of addresses for `ws` and for `wss`. An address is a
(host, port) record, or `NotPair` when it does not unpack. A host records
what the code asks of its string: starts with `127.0.0.` or `::1`, holds a
`:`, and whether `[%s]` was put around it.

- `Kept` is the filter: unpackable, not loopback, IPv6 only with `IPV6`.
- `AddrTypes` is the loop over `ws` then `wss`, with `SetDefaultAppend` for
  `addr_types.setdefault(...).append(...)`; a sequence keeps the dict's
  insertion order.
- `Uri` is the URI of one entry: `http` when a `ws` socket listens on the
  address, else `https`, and no port when it is the scheme's default.

The result is `PACKET_FAILURE`, `OK` with no address left, or the window and
its URIs.

### `MCOperators.tla`: the pure operators as functions

The state is one probe of one operator. `kind` says which operator, the
probe's inputs are set, and the other operators' inputs keep fixed defaults.
Every probe starts from and returns to a neutral state (`kind = "none"`), so
the number of states and transitions is the sum of the probe sets, not their
product. The invariants compare each operator with a reference definition:

- **Frames.** The probe is an opcode, a payload length, a mask key, a fin flag
  and the bytes that follow. `decode_hybi` of the encoded frame gives back what
  was encoded, and every truncation gives `None`.
- **Size hints.** The probe is RandR present or not, `resize_exact`, a screen
  size list and the screen dimensions. The reference counts hits with
  `Cardinality` over indices, and bounds areas over the set of listed sizes.
- **Filters.** The probe is an object name, an operator, a value and a window.
  The reference is equality, with the str coercion spelled out.
- **Resize.** The probe is a requested size (1920x1200, 656x496, or 800x600,
  which is not listed), a current size, a mode list, `resize_exact`, a dummy16
  server or not, and whether `set_screen_size` succeeds. The resize_hints run
  checks the published hints against the new size; the resize_answered run
  checks that "resized" is emitted.
- **QR code.** The probe is a `ws` and a `wss` address list of up to two
  addresses each, from: a LAN host on ports 80, 443 and 14500, a loopback
  IPv4 and IPv6 host, an IPv6 link-local host, and a value that is not a
  pair; with or without `IPV6`, or no sockets at all.

### `MCSubprocessWrapper.tla`

It gives the model's sets their values:

- commands `echo` and `ping` (whitelisted, and the wrapped object has the
  methods), `bogus` (a method, but not whitelisted), `stop` and `exit`; the
  signals and exit_command runs whitelist `echo` only;
- user callbacks on `replied` (the signal `echo` emits), `signal` and `exit`.

## 3. Runs

| run | cfg | bounds | checks |
|---|---|---|---|
| wrapper | `MCSubprocessWrapper.cfg` | tags {echo, ping, bogus, stop, exit}, 2 sends, no external signals | TypeOK, MethodCallsFollowSends, CallerStopEndsChild, ChildExitStopsCaller, QueueDrains, NoCommandAfterExit: pass |
| signals | `MCSubprocessSignals.cfg` | tag {echo}, 1 send, 2 external SIGTERMs, fault every 3rd call | CallbacksFollowSends, CallerStopEndsChild, ChildExitStopsCaller, QueueDrains: pass |
| exit_command | `MCSubprocessExitCommand.cfg` | tags {echo, exit}, 2 sends | ExitCommandEndsCallee: violated |
| avahi | `MCAvahiPublisher.cfg` | 2 addresses (one wildcard), 4 server states, 3 daemon changes, 2 updates | PublishOnlyWhileHeld, CollisionStops: pass |
| avahi_publish | `MCAvahiPublish.cfg` | 2 addresses, registering/running, 1 change, 1 update | PublishesLatest: violated |
| tk_writer | `MCTkClient.cfg` | window {1}, 1 server packet (draw, new-window or unknown), 1 focus change | PacketsWritten: violated |
| operators | `MCOperators.cfg` | frames: opcodes {1,2,15}, lengths {0,1,125,126,65535,65536,200000}, masked up to 126, with or without a following frame; hints: a 5-mode monitor list, steps of 16 pixels with 16 and 17 hits, none, XError; filters: 3 object names, 3 operators, int/str values, 4 windows; QR: 7 addresses, lists of up to 2 | RoundTrip, PrefixIsNone, LegacyHintsFromModes, FilterMatchesAsReference, QRUrisAsReference: pass |
| ws_stream | `MCWebsocketStream.cfg` | 2 unmasked data frames of lengths {0,1,125,126} or close frames with reasons of 0 or 1 character; chunks {1,3,130}, 3 short reads | ImplementsFrameChannel: pass |
| notifier_leak | `MCNotifierBase.cfg` | ids {1,2}; app icons "", themed, absolute; formats none/png/svg; 3 files | NoOrphanIcon: violated |
| u2f_register | `MCU2fTool.cfg` | 2 configuration directories | RegistrationEnds: violated |
| resize_hints | `MCResizeHints.cfg` | the probes of operators, with the resize probe | ScreenFitsHints: violated |
| resize_answered | `MCResizeAnswered.cfg` | the probes of operators | ResizeAnswered: violated |

### What the properties say

- **MethodCallsFollowSends.** The wrapped object's methods run in the order the
  parent sent them, each at most once, and only for whitelisted commands. This
  holds through the queue, the writer, the pipe, the reader and `idle_add`, with
  stop and failures interleaved. The wrapper run sends two of `echo`, `ping`
  and `bogus`, so both orders are sent. The reference `Callable` is the
  whitelist of section 4.4, not the model's dispatch.
- **CallbacksFollowSends.** The parent's user callbacks follow the child's sends
  in order. What a close loses is a suffix, never a gap. It is checked in the
  signals run, where both the reply and the `"signal"` packet can reach the
  parent.
- **CallerStopEndsChild.** After `Caller.stop` (called directly or through
  connection-lost/gibberish), the child eventually exits.
- **ChildExitStopsCaller.** After the child exits, for whatever reason, the
  parent eventually drops and closes its protocol.
- **QueueDrains.** A queued packet is eventually written while the protocol
  stays open. This is the lost-wakeup question about clearing the wake-up event
  against `get_packet`'s `more`.
- **NoCommandAfterExit.** No command sent after `exit` ever runs.
- **PublishOnlyWhileHeld.** The daemon publishes the service only while the
  publisher holds its group and the server has not stopped it. Signals queued
  before a `stop()` are still dispatched afterwards.
- **CollisionStops.** A name collision signalled to the publisher always stops
  it, even when the signal is dispatched after the daemon has left the collision
  state. A collision that ends before the subscription, and before `GetState`
  reads it, is never seen, and the property does not ask for it. Every
  publisher stops, also one that subscribed after the signal was queued.
- **PublishesLatest** (violated). Once the daemon stays running and the
  server has not stopped, every publisher that subscribed ends up published,
  with the TXT record of the last `update_txt`.
- **RoundTrip.** `decode_hybi` of an encoded frame gives back its opcode, fin
  flag and payload, and consumes exactly the frame. This holds even when more
  bytes follow. The length classes, the 16/64-bit fields and the mask-key offset
  agree between encoder and decoder.
- **PrefixIsNone.** A frame cut anywhere decodes to `None`. The cut may fall
  inside the header, the mask key, the extended length, or one byte short of the
  end.
- **ImplementsFrameChannel.** The chunked stream implements `FrameChannel`.
  The frames decoded are the frames sent, in order, each once, whatever the
  sizes of the reads. Every frame sent is eventually decoded.
- **LegacyHintsFromModes.** When RandR lists screen sizes, the maximum-size
  hint is a listed size with no listed size larger in area. The 640x640
  legacy hints come exactly when some increment has more than 16 hits.
- **FilterMatchesAsReference.** An `=` filter matches the windows that have
  the property with that value; an int property matches a str value by its
  digits. A `!=` filter matches the other windows that have the property.
  Other object names and operators are refused.
- **QRUrisAsReference.** The URIs `do_command` shows are, as a set, those of
  the reachable addresses, each once, with `http` exactly when a plain `ws`
  socket listens on it, and a port exactly when it is not the scheme's
  default; it quits with `OK` when none is left and `PACKET_FAILURE` without
  sockets.
- **PacketsWritten** (violated). Every packet `send()` queues is eventually
  written by the engine's writer.
- **NoOrphanIcon** (violated). Every icon file on disk is still recorded in
  `temp_files`, so `clean_notification()` or `cleanup()` can remove it.
- **RegistrationEnds** (violated). Every run of the u2f tool returns.
- **ScreenFitsHints** (violated). After a `do_resize` that the X server
  accepted, the new screen size lies within the minimum and maximum size hints
  published for it.
- **ResizeAnswered** (violated). Every `do_resize` ends with "resized"
  emitted, as its comment says the client must be told even when the screen
  does not change.

### Why the bounds are enough

Two sends are enough to put two packets in one queue: the drain/more/wake-up
race, and a command racing a stop. With two whitelisted methods among the
commands, two sends also give two method calls in either order. Two external signals reach every handler
state:

- before registration;
- in `handle_signal`'s grace period;
- after `signal_stop`.

In the signals run, a fault rate of 3 makes both the parent's and the child's
counters fire: on the child's third call (`process_packet`, the reply, the
`"signal"` packet), and on the parent's receipt of that packet. A rate of 2 would
make the child's junk close the pipe before the reply reaches the parent,
leaving callback ordering unchecked.

For the websocket runs:

- The stream lengths 125 and 126 straddle the first class boundary.
- A read of 1 or 3 bytes cuts every header field.
- Stream frames are unmasked. With XOR-masked payloads, TLC's fairness
  checking slows to a few states a minute. Masked frames are checked one at a
  time by the codec run, where the mask key's offset depends on the length
  class.
- The 16/64-bit boundary needs payloads of 64K bytes. It is checked on single
  frames in the codec run: a stream of such frames gives TLC traces it cannot
  print in reasonable time.
- Masked probes stop at 126 bytes, because XOR masking through `Bitwise` costs
  minutes per 64K payload. The mask offset of the 64-bit class is the same
  `hlen - 4` that the 16-bit class exercises.

For the avahi runs, two addresses give two publishers on one connection, so
a signal reaches both, or only the one subscribed by then; one of them is a
wildcard host, which the constructor gives `IF_UNSPEC`. Three daemon changes
allow each of the following:

- a change during `start()`;
- a collision followed by recovery;
- a RUNNING, REGISTERING, RUNNING cycle after publication.

Two updates put a `update_txt` call both before and after publication.

For the size hints:

- `Steps(17)` has 16 increment hits, `Steps(18)` has 17. This is the
  threshold on both sides.
- The monitor list has two modes of equal area (1920x1080 and 1080x1920), so
  "last stored wins" matters. One mode (1920x1200) is taller than the mode
  of largest area.

The resize requests are a listed mode taller than the mode of largest area
(1920x1200), a listed mode under the 640 legacy minimum (656x496 among the
16-pixel steps), and an unlisted size that only a dummy16 server adds.

The QR addresses include one that appears on both a `ws` and a `wss` socket,
each scheme's default port and a port that is neither, and each host kind the
filter drops; two addresses per list are enough for a repeated key.

The filter values include an int and the str of the same number, so the
coercion is exercised in both directions.

For the notifier, two ids and three files are enough to show a notification,
replace it, and clean up. The u2f tool needs two directories for the key
handle loop to run more than once; its state space is finite without a bound.

Each mutant listed in PROJECT.json breaks its property under its run's bounds.

### Findings

The violation runs are the findings:

1. **`"exit"` need not end the child.** `sys.exit(0)` runs on the reader thread,
   line 263.
The avahi_publish run states one property, PublishesLatest, that findings 2
and 3 both violate. TLC reports finding 2, the shorter trace; finding 3 shows
when the daemon does not change during `start()`.

2. **A daemon state change during `start()` unpublishes the service for good.**
   `start()` subscribes (line 163) before it reads `GetState()` (line 164), so
   RUNNING is handled twice. The second `add_service` fails on the committed
   group, and its error path calls `stop()`. A RUNNING, REGISTERING, RUNNING
   cycle does the same.
3. **`update_txt` before publication is lost.** `self.text` is never updated,
   so `add_service` publishes the constructor's TXT record.
4. **The tk client's writer can die on a stale wake-up.** `next_packet`
   (`client.py:108`) pops without checking that the list is non-empty, while
   section 4.3 lets `get_next_packet()` answer "no packet". The sequence is:
   `send_hello` queues hello and wakes the writer, and the writer clears the
   event. A `damage-sequence` is queued and sets the event again. The writer
   drains both packets through "more". It then wakes once more on the empty
   list, and `IndexError` ends it. The focus packet queued next is never
   written.
5. **The notifier orphans icon files.** The notifier_leak run finds two ways:
   - `get_icon_string` overwrites `temp_files[nid]` (line 59) when an id is
     shown again, and the earlier file is never unlinked. This is TLC's
     shortest counterexample.
   - `cleanup()` assigns `self.temp_files = {}` (line 28), then iterates the
     new empty dict (line 29) instead of the saved `tf`. Every icon file stays
     in the xpra temp directory. With ids never reused, TLC finds this one.
6. **A second U2F registration hangs.** The file-name loop (line 105) never
   increments `i`. If it did, `"-%i"` would still not be formatted. Once
   `u2f-pub.hex` exists, `main()` loops forever, and by then it has already
   written the new key handle. The tool's own message tells the user to delete
   the key handle file to register again. That leaves `u2f-pub.hex` behind, so
   the next run hangs.
7. **The size hints can exclude the size just set.** `get_legacy_size_hints`
   takes as maximum-size the mode with the most pixels (line 35). With 1920x1200
   and 2560x1080 listed, a resize to 1920x1200 is accepted, and the hints
   published for it cap the height at 1080. The fixed legacy minimum of 640x640
   (line 56) likewise excludes listed modes such as 656x496.
8. **A refused resize is never answered.** `do_resize`'s comment says the
   client must be told "we ain't budging" (line 118). When `set_screen_size`
   fails, it returns at line 108 without emitting "resized", so the client
   keeps waiting for the size it asked for.

Some issues met while modelling are listed as hazards in PROJECT.json rather
than as runs, for lack of run slots:

- Fault injection also counts `process_packet` calls (section 4.4 says sends).
- `close_packet` does not bound the CLOSE reason to 125 bytes, as its own
  comment admits.
- `Caller.send` after the child exited queues silently. It does not raise
  ConnectionClosed (line 428).
- The avahi constructor raises on a wildcard host with `SHOW_INTERFACE`, or
  with no TXT record (line 73). `Init` models the outcome, but no run checks
  it.
- A `!=` filter never matches a window without the property.

The model also shows that the child does not rely on the 150ms grace timer to
end after `Caller.stop`. The parent's close gives the child EOF, and EOF stops it
anyway: a variant without the timer still satisfies CallerStopEndsChild.

## 4. Fairness

Weak fairness is assumed for the following, because each one keeps running by
itself while it is enabled:

- the two main loops (GLib dispatches idle callbacks);
- the timers;
- signal delivery;
- the child reaper;
- the child's start-up and exit;
- each end's reader and writer thread.

In `WebsocketStream`, reads (`Receive`) and decoding (`Parse`) are weakly
fair: a connection's read loop keeps reading while bytes are in flight, and keeps
parsing while a whole frame is buffered. Sending is not fair. Sends are bounded
by `MaxFrames`, so the stream runs also set `CHECK_DEADLOCK FALSE`: once
everything sent has been decoded, nothing is enabled.

In `FrameChannel`, `Deliver` is weakly fair: the refinement checks that the
stream's own read and parse fairness give it.

In `U2fTool`, the tool's steps are weakly fair: once started, `main()` runs
without waiting on anything but the device. The user's runs and deletions
owe nothing. `NotifierBase` has no liveness property and no fairness.

In `TkClient`, the Tk loop's timers and handlers, the reader and the writer
are weakly fair. The server and the user are not.

In `AvahiPublisher`, each publisher's steps of `start()` (`StartConnect`,
`StartState`) and the dispatch of queued signals (`Deliver`) are weakly fair:
`start()` runs without waiting, and the main loop dispatches while it is idle. The server and the daemon are not. `CHECK_DEADLOCK FALSE` is
set because the publisher's life ends once it is stopped and the daemon's
changes are used up.

The environment owes nothing: it starts, sends, stops and sends external
signals only if it wants to. `CHECK_DEADLOCK FALSE` is set because the
lifecycle really ends: after stop and exit, nothing is enabled.

## 5. Not modelled

- **`Callee.start()`'s `RuntimeError` path.** A main loop that raises makes
  the child exit with 1. The model's child always exits with 0 after `run()`;
  a non-zero code is the case `abort_test` already catches.
- **Wrapped methods that return a true value.** `idle_add` would call them
  again; the model's methods run once.
- **Packet contents.** Encoders, compression, `large_packets`, `HEXLIFY` and
  `FLUSH` are left out.
- **`exec_kwargs`/`exec_env`/`get_env`.** They only build arguments.
- **A `None` wrapped object.** This path is not modelled.
- **Exceptions from `INJECT_FAULT(None)`.** They are not modelled either.
- **Pipe capacity.** The wire is unbounded.
- **The engine's internals.** Only what the wrapper observes is modelled.

- **The X server behind `do_resize`.** RandR calls and GObject signals are
  the arguments of `DoResize`: whether `set_screen_size` succeeds, and the
  modes listed.
- **Names in the avahi constructor.** Host names, fully qualified names and
  TXT strings are model values; only whether the constructor raises is kept.
- **`avahi_publisher.main()`.** It is a test harness that builds a publisher
  and runs a main loop.
- **`QRCodeWindow`.** It draws the QR code with GTK. Its `handle_signal`
  computes the exit code `128 - signum`, which never reaches `do_command`'s
  return value.
- **`world_window.py`.** Its focus handling calls GTK and X internals that
  are not under `src/`.
- **The u2f tool's dialogs and key bytes.** They are output, not state.

## 6. Plan for later work

1. **A passing run for `TkClient`.** It would check that damage-sequence
   answers follow draws in order, with a writer that tolerates an empty list.
   This needs a free run slot.
2. **The avahi constructor.** A run could check that a server with
   `SHOW_INTERFACE` still publishes on a wildcard address; it needs a run
   slot.
