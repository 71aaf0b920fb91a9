------------------------------ MODULE TkClient ------------------------------
(***************************************************************************)
(* xpra.client.tk.client.XpraTkClient as a packet source for the protocol *)
(* engine.  Three threads share the client:                                *)
(*  - the Tk main loop runs the callbacks of app.after(): send_hello, the  *)
(*    packet handlers process_packet schedules, and recheck_focus; each of *)
(*    them may send(), which appends to _ordinary_packets and calls        *)
(*    have_more() (the engine's source_has_more);                          *)
(*  - the engine's reader thread calls process_packet for each packet the  *)
(*    server sends;                                                        *)
(*  - the engine's writer thread waits for the wake-up event, clears it,   *)
(*    and calls next_packet() for as long as it answers "more".            *)
(* The engine is not among the sources: its writer loop is written from    *)
(* section 4.3 of the specification, as in SocketProtocol.  An exception   *)
(* raised by next_packet() ends the writer loop.                           *)
(***************************************************************************)
EXTENDS Naturals, Sequences

CONSTANTS
  Wids,          \* window ids the server uses
  ServerTypes,   \* packet types the server sends
  MaxIn,         \* bound: packets the server sends
  MaxFocus       \* bound: focus changes

\* Packet types with a _process_ handler; any other is dropped with a warning.
Handled == {"hello", "setting-change", "startup-complete", "encodings",
            "new-window", "new-override-redirect", "lost-window",
            "raise-window", "draw", "window-metadata"}

\* What the writer holds between packets.
NoPacket == [t |-> "none", wid |-> 0]

VARIABLES
  proto,     \* make_protocol() has run: have_more is source_has_more
  pkts,      \* _ordinary_packets
  timers,    \* pending app.after() timers: [cb |-> "hello" or "focus", wid]
  tkq,       \* handlers scheduled with app.after(0, call_handler), in order
  inq,       \* packets the server has sent and the reader has not read
  windows,   \* the keys of self.windows
  focused,   \* self.focused
  wake,      \* the engine's source_has_more event
  wpc,       \* the writer: "idle", "get", "write" or "dead" (loop ended)
  witem,     \* the packet the writer holds
  wmore,     \* the "more" flag next_packet() returned with it
  sentH,     \* history: the packets send() queued, in order
  written,   \* history: the packets the writer wrote, in order
  nin,       \* packets the server has sent so far
  nfocus     \* focus changes so far

vars == <<proto, pkts, timers, tkq, inq, windows, focused, wake, wpc, witem,
          wmore, sentH, written, nin, nfocus>>

Init ==
  /\ proto = FALSE /\ pkts = <<>> /\ timers = {} /\ tkq = <<>> /\ inq = <<>>
  /\ windows = {} /\ focused = 0
  /\ wake = FALSE /\ wpc = "idle" /\ witem = NoPacket /\ wmore = FALSE
  /\ sentH = <<>> /\ written = <<>> /\ nin = 0 /\ nfocus = 0

\* send(packet_type, *args): queue the packet and call have_more(), a noop
\* before make_protocol().
Send(p) ==
  /\ pkts' = Append(pkts, p)
  /\ sentH' = Append(sentH, p)
  /\ wake' = (proto \/ wake)

-----------------------------------------------------------------------------
\* make_protocol(): have_more becomes source_has_more, and send_hello is
\* scheduled in a second.
MakeProtocol ==
  /\ ~proto
  /\ proto' = TRUE
  /\ timers' = timers \cup {[cb |-> "hello", wid |-> 0]}
  /\ UNCHANGED <<pkts, tkq, inq, windows, focused, wake, wpc, witem, wmore,
                 sentH, written, nin, nfocus>>

\* A timer fires on the Tk loop: send_hello(), or recheck_focus(), which
\* sends "focus" only if the focus is still on its window.
TimerFire(t) ==
  /\ t \in timers
  /\ timers' = timers \ {t}
  /\ IF t.cb = "hello" THEN Send([t |-> "hello", wid |-> 0])
     ELSE IF focused = t.wid THEN Send([t |-> "focus", wid |-> t.wid])
     ELSE UNCHANGED <<pkts, sentH, wake>>
  /\ UNCHANGED <<proto, tkq, inq, windows, focused, wpc, witem, wmore, written,
                 nin, nfocus>>

\* update_focus(wid) on the Tk loop: nothing if unchanged, otherwise record
\* it and check again in 10ms.
UpdateFocus(w) ==
  /\ nfocus < MaxFocus
  /\ focused # w
  /\ nfocus' = nfocus + 1
  /\ focused' = w
  /\ timers' = timers \cup {[cb |-> "focus", wid |-> w]}
  /\ UNCHANGED <<proto, pkts, tkq, inq, windows, wake, wpc, witem, wmore,
                 sentH, written, nin>>

\* The server sends a packet.
ServerSend(ty, w) ==
  /\ proto /\ nin < MaxIn
  /\ nin' = nin + 1
  /\ inq' = Append(inq, [t |-> ty, wid |-> w])
  /\ UNCHANGED <<proto, pkts, timers, tkq, windows, focused, wake, wpc, witem,
                 wmore, sentH, written, nfocus>>

\* The reader thread calls process_packet(): a packet with a handler is
\* scheduled on the Tk loop, any other is dropped.
ProcessPacket ==
  /\ inq # <<>>
  /\ inq' = Tail(inq)
  /\ tkq' = IF Head(inq).t \in Handled THEN Append(tkq, Head(inq)) ELSE tkq
  /\ UNCHANGED <<proto, pkts, timers, windows, focused, wake, wpc, witem, wmore,
                 sentH, written, nin, nfocus>>

\* The Tk loop runs the next handler: new_window() for new-window and
\* new-override-redirect, _process_lost_window, _process_draw, which answers
\* every draw with a damage-sequence, for a known window or not; the other
\* handlers change nothing the model keeps.
RunHandler ==
  /\ tkq # <<>>
  /\ LET p == Head(tkq)
     IN /\ windows' = CASE p.t \in {"new-window", "new-override-redirect"} -> windows \cup {p.wid}
                        [] p.t = "lost-window" -> windows \ {p.wid}
                        [] OTHER -> windows
        /\ IF p.t = "draw" THEN Send([t |-> "damage-sequence", wid |-> p.wid])
           ELSE UNCHANGED <<pkts, sentH, wake>>
  /\ tkq' = Tail(tkq)
  /\ UNCHANGED <<proto, timers, inq, focused, wpc, witem, wmore, written, nin,
                 nfocus>>

-----------------------------------------------------------------------------
\* The writer thread wakes on the event and clears it.
WriterWake ==
  /\ proto /\ wpc = "idle" /\ wake
  /\ wake' = FALSE /\ wpc' = "get"
  /\ UNCHANGED <<proto, pkts, timers, tkq, inq, windows, focused, witem, wmore,
                 sentH, written, nin, nfocus>>

\* The writer calls next_packet(): pop(0), which raises IndexError on an
\* empty list and ends the writer loop, and "more" if packets are left.
NextPacket ==
  /\ wpc = "get"
  /\ IF pkts = <<>>
     THEN /\ wpc' = "dead" /\ UNCHANGED <<pkts, witem, wmore>>
     ELSE /\ witem' = Head(pkts) /\ pkts' = Tail(pkts)
          /\ wmore' = (Len(pkts) > 1) /\ wpc' = "write"
  /\ UNCHANGED <<proto, timers, tkq, inq, windows, focused, wake, sentH,
                 written, nin, nfocus>>

\* The writer writes the packet and asks again if there was more.
WriterWrite ==
  /\ wpc = "write"
  /\ written' = Append(written, witem)
  /\ wpc' = IF wmore THEN "get" ELSE "idle"
  /\ witem' = NoPacket /\ wmore' = FALSE
  /\ UNCHANGED <<proto, pkts, timers, tkq, inq, windows, focused, wake, sentH,
                 nin, nfocus>>

Next ==
  \/ MakeProtocol
  \/ \E t \in timers : TimerFire(t)
  \/ \E w \in Wids \cup {0} : UpdateFocus(w)
  \/ \E ty \in ServerTypes, w \in Wids : ServerSend(ty, w)
  \/ ProcessPacket
  \/ RunHandler
  \/ WriterWake
  \/ NextPacket
  \/ WriterWrite

\* The Tk loop runs its timers and handlers, and the engine's threads run;
\* the server and the user act only if they do.
Spec ==
  /\ Init /\ [][Next]_vars
  /\ WF_vars(MakeProtocol) /\ WF_vars(\E t \in timers : TimerFire(t))
  /\ WF_vars(ProcessPacket) /\ WF_vars(RunHandler)
  /\ WF_vars(WriterWake) /\ WF_vars(NextPacket) /\ WF_vars(WriterWrite)

-----------------------------------------------------------------------------
(* Section 4.3: the writer drains the SendQueue through get_next_packet(), *)
(* which answers "no packet" when there is none: every packet send()      *)
(* queues is eventually written, whatever order the Tk loop's senders and *)
(* the writer's wake-ups take.                                             *)
PacketsWritten == []<>(written = sentH)

=============================================================================
