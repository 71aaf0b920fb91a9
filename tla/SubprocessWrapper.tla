-------------------------- MODULE SubprocessWrapper --------------------------
(***************************************************************************)
(* xpra.net.subprocess_wrapper: a SubprocessCaller in the parent process  *)
(* spawns a child that runs a SubprocessCallee; the two talk through the   *)
(* child's stdin/stdout with one SocketProtocol engine at each end.        *)
(*                                                                         *)
(*  - Caller.send() queues a packet for the child; the child's engine      *)
(*    reads it and Callee.process_packet() turns it into a call of the     *)
(*    wrapped object's method, scheduled on the child's GLib main loop.    *)
(*  - The wrapped object's signals go back through Callee.send() and fire  *)
(*    the callbacks registered with Caller.connect(), scheduled on the     *)
(*    parent's main loop.                                                  *)
(*  - Shutdown: Caller.stop() terminates the child (SIGTERM) and closes    *)
(*    its engine; the child's first SIGTERM sends a "signal" packet and    *)
(*    stops after a 150ms grace timer, a second one stops at once; either *)
(*    side stops on connection-lost or gibberish.                          *)
(*                                                                         *)
(* Data is abstracted to packet tags.  Each main loop is a FIFO of         *)
(* scheduled callbacks (GLib.idle_add) plus, in the child, the pending     *)
(* timeout_add timers, which may fire at any time (the 150ms grace delay   *)
(* is not measured).  Each end's engine has one reader and one writer      *)
(* thread (module SocketProtocol).                                         *)
(***************************************************************************)
EXTENDS SocketProtocol, Naturals, Sequences, SequencesExt

CONSTANTS
  CallerTags,    \* the commands the parent's code sends to the child
  Whitelist,     \* method_whitelist of the Callee
  Methods,       \* the methods the wrapped object has
  EchoMethod,    \* the method whose call makes the wrapped object emit ...
  ReplySignal,   \* ... this signal, exported with connect_export()
  UserSubs,      \* the tags the parent's code connect()s a callback to
  MaxSends,      \* bound: number of Caller.send() calls
  MaxExtSignals, \* bound: SIGTERMs sent to the child from outside
  FaultRate,     \* XPRA_WRAPPER_FAULT_INJECTION_RATE (0 disables)
  NoCode         \* model value: no exit code yet (poll() returns None)

ASSUME /\ Whitelist \subseteq CallerTags
       /\ EchoMethod \in Methods
       /\ MaxSends \in Nat /\ MaxExtSignals \in Nat /\ FaultRate \in Nat

\* The tag of the packet the Callee sends from handle_signal().
SignalTag == "signal"

\* Every packet tag either end sends.
Packets == CallerTags \cup {SignalTag, ReplySignal}

VARIABLES
  ePhase,      \* the child: "none" (not spawned), "spawned" (no signal
               \* handlers yet), "init" (Callee constructed), "running"
               \* (main loop running), "stopped" (main loop quit), "exited"
  eExit,       \* the child's exit code once it has exited, else NoCode
  eHandler,    \* the handler register_os_signals() last installed
  eTimers,     \* the Callee's pending GLib.timeout_add callbacks
  eSigPending, \* SIGTERMs sent to the child and not yet delivered
  extSigs,     \* SIGTERMs sent to the child from outside so far
  rProc,       \* Caller.process is not None
  reaped,      \* the child reaper has reported the child's exit
  hasProto,    \* hasProto[e]: end e's owner holds its protocol (not None)
  queue,       \* queue[e]: the owner's send_queue
  loop,        \* loop[e]: callbacks scheduled on end e's main loop
  fcount,      \* fcount[e]: the fault injection _counter of e's process
  sent,        \* history: sent[e] is every tag end e's send() queued
  invoked,     \* history: the wrapped object's methods, as they ran
  fired,       \* history: the tags whose user callbacks ran in the parent
  exitSeen,    \* history: the child's reader has read an "exit" command
  cStop        \* the parent's main thread is in Caller.stop(), between
               \* stop_process() and stop_protocol()

wrapVars == <<ePhase, eExit, eHandler, eTimers, eSigPending, extSigs, rProc,
              reaped, hasProto, queue, loop, fcount, sent, invoked,
              fired, exitSeen, cStop>>
vars == <<wrapVars, protoVars>>

Entry == [fn : {"stop", "handle_signal", "signal_stop", "method",
                "connection_lost", "gibberish", "user"}, tag : STRING]

-----------------------------------------------------------------------------
(* Fault injection: every send() and every process_packet() calls         *)
(* INJECT_FAULT(p); every FaultRate-th call of a process raw_writes junk.  *)
FaultDue(e) == FaultRate > 0 /\ (fcount[e] + 1) % FaultRate = 0

\* The counter step of one INJECT_FAULT(p) call.
FaultTick(e) ==
  fcount' = [fcount EXCEPT ![e] = IF FaultRate > 0 THEN (@ + 1) % FaultRate
                                  ELSE @]

\* The pipes after INJECT_FAULT(p) on end e when p's engine is still open.
Injected(w, e, pOpen) == IF FaultDue(e) /\ pOpen THEN WithJunk(w, e) ELSE w

\* Variant of Send that does not call p.source_has_more().
SendNoWake(e, t, w) ==
  /\ queue' = [queue EXCEPT ![e] = Append(@, t)]
  /\ sent' = [sent EXCEPT ![e] = Append(@, t)]
  /\ UNCHANGED wake
  /\ FaultTick(e)
  /\ wire' = Injected(w, e, hasProto[e])

(* send(): queue the packet, wake the writer when there is a protocol,    *)
(* inject a fault.  The wire is left to the caller of Send, which passes  *)
(* the pipes it has computed.                                              *)
Send(e, t, w) ==
  /\ queue' = [queue EXCEPT ![e] = Append(@, t)]
  /\ sent' = [sent EXCEPT ![e] = Append(@, t)]
  /\ IF hasProto[e] THEN SourceHasMore(e) ELSE UNCHANGED wake
  /\ FaultTick(e)
  /\ wire' = Injected(w, e, hasProto[e])

-----------------------------------------------------------------------------
(* The callbacks each end schedules for a packet or notification.         *)

\* Variant of CalleeDispatch without the method_whitelist test.
CalleeDispatchNoWhitelist(t) ==
  IF t \in {CONNECTION_LOST, GIBBERISH, "stop"}
  THEN <<[fn |-> "stop", tag |-> t]>>
  ELSE IF t \in Methods
  THEN <<[fn |-> "method", tag |-> t]>>
  ELSE <<>>

\* Callee.process_packet(): control tags stop the Callee through net_stop()
\* (an idle_add of stop); a whitelisted tag the wrapped object has a method
\* for schedules that method; every other tag is logged and dropped.  The
\* "exit" tag is handled by the reader step itself.
CalleeDispatch(t) ==
  IF t \in {CONNECTION_LOST, GIBBERISH, "stop"}
  THEN <<[fn |-> "stop", tag |-> t]>>
  ELSE IF t \in Whitelist /\ t \in Methods
  THEN <<[fn |-> "method", tag |-> t]>>
  ELSE <<>>

\* Only the method path of Callee.process_packet() reaches INJECT_FAULT.
CalleeInjects(t) == t \in Whitelist /\ t \in Methods

\* Variant of Subs where __init__ does not connect the built-in handlers.
SubsNoBuiltins(t) == IF t \in UserSubs THEN <<"user">> ELSE <<>>

\* signal_callbacks after __init__ and the parent's connect() calls: the two
\* built-in handlers, then one user callback per subscribed tag.
Subs(t) ==
  IF t = CONNECTION_LOST THEN <<"connection_lost">>
  ELSE IF t = GIBBERISH THEN <<"gibberish">>
  ELSE IF t \in UserSubs THEN <<"user">>
  ELSE <<>>

\* Caller._fire_callback(): one idle_add per registered callback, in order.
CallerDispatch(t) == [i \in 1..Len(Subs(t)) |-> [fn |-> Subs(t)[i], tag |-> t]]

Dispatch(e, t) == IF e = "callee" THEN CalleeDispatch(t) ELSE CallerDispatch(t)

\* Callee.net_stop(), called from the network thread: idle_add(self.stop).
NetStop == <<[fn |-> "stop", tag |-> "close"]>>

\* The connection's close_cb: Callee.net_stop() or Caller.subprocess_exit().
CloseCb(e) == IF e = "callee" THEN NetStop ELSE CallerDispatch("exit")

\* Caller.abort_test(): raises ConnectionClosedException when the process
\* is None or poll() returns a true value; an exit code of 0 is false.
AbortTest(e) ==
  e = "caller" /\ (~rProc \/ (ePhase = "exited" /\ eExit # 0))

(* The engine's failure path: close the engine (which fires close_cb) and *)
(* report tag to process_packet; w is the pipes after the failing read.   *)
(* The Caller's process_packet also calls INJECT_FAULT, on a closed       *)
(* engine, so no junk is written.                                         *)
Failure(e, t, w) ==
  /\ pstate[e] = "open"
  /\ Close(e)
  /\ wire' = w
  /\ loop' = [loop EXCEPT ![e] = @ \o Dispatch(e, t) \o CloseCb(e)]
  /\ IF e = "caller" THEN FaultTick(e) ELSE UNCHANGED fcount

-----------------------------------------------------------------------------
(* Engine threads, with the owner callbacks they call.                    *)

\* Variant of WriterGet that does not test for Empty and hands the engine
\* the None item.
WriterGetNoEmptyCheck(e) ==
  /\ pstate[e] = "open"
  /\ wpc[e] = "get"
  /\ witem' = [witem EXCEPT ![e] = IF queue[e] # <<>> THEN Head(queue[e])
                                   ELSE "none"]
  /\ wmore' = [wmore EXCEPT ![e] = Len(queue[e]) > 1]
  /\ queue' = [queue EXCEPT ![e] = IF @ # <<>> THEN Tail(@) ELSE @]
  /\ wpc' = [wpc EXCEPT ![e] = "write"]
  /\ UNCHANGED <<pstate, wake, wire, fdOpen, reading>>
  /\ UNCHANGED <<ePhase, eExit, eHandler, eTimers, eSigPending, extSigs, rProc,
                 reaped, hasProto, loop, fcount, sent, invoked, fired,
                 exitSeen, cStop>>

\* Variant of WriterGet that peeks at the head (queue[0]) instead of get().
WriterGetNoPop(e) ==
  /\ pstate[e] = "open"
  /\ wpc[e] = "get"
  /\ IF queue[e] # <<>>
     THEN /\ witem' = [witem EXCEPT ![e] = Head(queue[e])]
          /\ wmore' = [wmore EXCEPT ![e] = Len(queue[e]) > 1]
          /\ wpc' = [wpc EXCEPT ![e] = "write"]
     ELSE /\ wpc' = [wpc EXCEPT ![e] = "idle"]
          /\ UNCHANGED <<witem, wmore>>
  /\ UNCHANGED <<pstate, wake, wire, fdOpen, reading, queue>>
  /\ UNCHANGED <<ePhase, eExit, eHandler, eTimers, eSigPending, extSigs, rProc,
                 reaped, hasProto, loop, fcount, sent, invoked, fired,
                 exitSeen, cStop>>

\* get_packet(): item = send_queue.get(False), then more = qsize() > 0, in
\* one step (a put() between the two only makes more true, which is
\* harmless); Empty gives (None, .., False) and the writer waits again.
WriterGet(e) ==
  /\ pstate[e] = "open"
  /\ wpc[e] = "get"
  /\ IF queue[e] # <<>>
     THEN /\ witem' = [witem EXCEPT ![e] = Head(queue[e])]
          /\ wmore' = [wmore EXCEPT ![e] = Len(queue[e]) > 1]
          /\ queue' = [queue EXCEPT ![e] = Tail(@)]
          /\ wpc' = [wpc EXCEPT ![e] = "write"]
     ELSE /\ wpc' = [wpc EXCEPT ![e] = "idle"]
          /\ UNCHANGED <<witem, wmore, queue>>
  /\ UNCHANGED <<pstate, wake, wire, fdOpen, reading>>
  /\ UNCHANGED <<ePhase, eExit, eHandler, eTimers, eSigPending, extSigs, rProc,
                 reaped, hasProto, loop, fcount, sent, invoked, fired,
                 exitSeen, cStop>>

\* Variant of WriterWrite that clears the wake-up event once it has drained
\* (more false) instead of before get_packet().
WriterWriteLateClear(e) ==
  /\ pstate[e] = "open"
  /\ wpc[e] = "write"
  /\ IF ~AbortTest(e) /\ CanWrite(e)
     THEN /\ wire' = [wire EXCEPT ![e] = Append(@, witem[e])]
          /\ wpc' = [wpc EXCEPT ![e] = IF wmore[e] THEN "get" ELSE "idle"]
          /\ witem' = [witem EXCEPT ![e] = "none"]
          /\ wake' = [wake EXCEPT ![e] = IF wmore[e] THEN @ ELSE FALSE]
          /\ UNCHANGED <<pstate, wmore, fdOpen, reading, loop, fcount>>
     ELSE Failure(e, CONNECTION_LOST, wire)
  /\ UNCHANGED <<ePhase, eExit, eHandler, eTimers, eSigPending, extSigs, rProc,
                 reaped, hasProto, queue, sent, invoked, fired, exitSeen, cStop>>

\* The engine writes the packet and goes on draining while get_packet()'s
\* more was true.  A write the transport refuses (abort_test, EPIPE) is a
\* connection loss.
WriterWrite(e) ==
  /\ pstate[e] = "open"
  /\ wpc[e] = "write"
  /\ IF ~AbortTest(e) /\ CanWrite(e)
     THEN /\ wire' = [wire EXCEPT ![e] = Append(@, witem[e])]
          /\ wpc' = [wpc EXCEPT ![e] = IF wmore[e] THEN "get" ELSE "idle"]
          /\ witem' = [witem EXCEPT ![e] = "none"]
          /\ UNCHANGED <<pstate, wake, wmore, fdOpen, reading, loop, fcount>>
     ELSE Failure(e, CONNECTION_LOST, wire)
  /\ UNCHANGED <<ePhase, eExit, eHandler, eTimers, eSigPending, extSigs, rProc,
                 reaped, hasProto, queue, sent, invoked, fired, exitSeen, cStop>>

\* Variant of ExitCommand whose reader thread catches the SystemExit (an
\* except BaseException) and goes on reading.
ExitCommandSwallowed ==
  /\ exitSeen' = TRUE
  /\ wire' = Consumed(wire, "callee")
  /\ UNCHANGED <<ePhase, eExit, pstate, wake, wpc, witem, wmore, fdOpen, reading>>

\* Callee.process_packet("exit") calls sys.exit(0) on the reader thread: the
\* SystemExit either ends the process with code 0 or only unwinds the reader
\* thread, depending on what the engine does with it.
ExitCommand ==
  /\ exitSeen' = TRUE
  /\ wire' = Consumed(wire, "callee")
  /\ \/ /\ ePhase' = "exited"
        /\ eExit' = 0
        /\ Close("callee")
     \/ /\ reading' = [reading EXCEPT !["callee"] = FALSE]
        /\ UNCHANGED <<ePhase, eExit, pstate, wake, wpc, witem, wmore, fdOpen>>

\* The reader thread: each packet read is passed to process_packet() on the
\* reader thread itself; junk is gibberish and the end of file is a lost
\* connection.
Reader(e) ==
  LET in == NextInput(e) IN
  /\ pstate[e] = "open"
  /\ reading[e]
  /\ in # "nothing"
  /\ CASE AbortTest(e) ->
            /\ Failure(e, CONNECTION_LOST, wire)
            /\ UNCHANGED <<ePhase, eExit, exitSeen>>
       [] in = Junk ->
            /\ Failure(e, GIBBERISH, Consumed(wire, e))
            /\ UNCHANGED <<ePhase, eExit, exitSeen>>
       [] in = "EOF" ->
            /\ Failure(e, CONNECTION_LOST, wire)
            /\ UNCHANGED <<ePhase, eExit, exitSeen>>
       [] e = "callee" /\ in = "exit" ->
            /\ ExitCommand
            /\ UNCHANGED <<loop, fcount>>
       [] OTHER ->
            /\ loop' = [loop EXCEPT ![e] = @ \o Dispatch(e, in)]
            /\ IF e = "caller" \/ CalleeInjects(in)
               THEN /\ FaultTick(e)
                    /\ wire' = Injected(Consumed(wire, e), e, TRUE)
               ELSE /\ wire' = Consumed(wire, e)
                    /\ UNCHANGED fcount
            /\ UNCHANGED <<pstate, wake, wpc, witem, wmore, fdOpen, reading,
                           ePhase, eExit, exitSeen>>
  /\ UNCHANGED <<eHandler, eTimers, eSigPending, extSigs, rProc, reaped,
                 hasProto, queue, sent, invoked, fired, cStop>>

-----------------------------------------------------------------------------
(* The child process.                                                     *)

\* Callee.__init__(): register_os_signals(self.handle_signal), main loop.
CalleeInit ==
  /\ ePhase = "spawned"
  /\ ePhase' = "init"
  /\ eHandler' = "handle_signal"
  /\ UNCHANGED <<eExit, eTimers, eSigPending, extSigs, rProc, reaped, hasProto,
                 queue, loop, fcount, sent, invoked, fired, exitSeen, cStop,
                 protoVars>>

\* Callee.start(): make_protocol() wraps stdin/stdout, the protocol starts,
\* then run() enters the main loop.
CalleeStart ==
  /\ ePhase = "init"
  /\ ePhase' = "running"
  /\ hasProto' = [hasProto EXCEPT !["callee"] = TRUE]
  /\ Start("callee")
  /\ UNCHANGED <<wire, fdOpen>>
  /\ UNCHANGED <<eExit, eHandler, eTimers, eSigPending, extSigs, rProc, reaped,
                 queue, loop, fcount, sent, invoked, fired, exitSeen, cStop>>

\* Variant of CalleeStopped whose do_stop() does not quit the main loop.
CalleeStoppedNoQuit(rest) ==
  /\ ePhase' = ePhase
  /\ hasProto' = [hasProto EXCEPT !["callee"] = FALSE]
  /\ IF hasProto["callee"] /\ pstate["callee"] = "open"
     THEN /\ Close("callee")
          /\ loop' = [loop EXCEPT !["callee"] = rest \o CloseCb("callee")]
     ELSE /\ loop' = [loop EXCEPT !["callee"] = rest]
          /\ UNCHANGED <<pstate, wake, wpc, witem, wmore, fdOpen, reading>>

\* Callee.stop(): cleanup(); drop and close the protocol (its close_cb,
\* net_stop, schedules stop() again); do_stop() quits the main loop.  The
\* loop is then "stopped": nothing scheduled on it runs any more.
CalleeStopped(rest) ==
  /\ ePhase' = "stopped"
  /\ hasProto' = [hasProto EXCEPT !["callee"] = FALSE]
  /\ IF hasProto["callee"] /\ pstate["callee"] = "open"
     THEN /\ Close("callee")
          /\ loop' = [loop EXCEPT !["callee"] = rest \o CloseCb("callee")]
     ELSE /\ loop' = [loop EXCEPT !["callee"] = rest]
          /\ UNCHANGED <<pstate, wake, wpc, witem, wmore, fdOpen, reading>>

\* Callee.handle_signal(): install signal_stop for the next signal, send the
\* "signal" packet, schedule cleanup() now and stop() in 150ms.
CalleeHandleSignal(rest) ==
  /\ eHandler' = "signal_stop"
  /\ Send("callee", SignalTag, wire)
  /\ eTimers' = eTimers \cup {"cleanup", "stop"}
  /\ loop' = [loop EXCEPT !["callee"] = rest]

\* Variant of CalleeLoop for a wrapped method that returns a true value:
\* GLib.idle_add keeps it scheduled and calls it again.
CalleeLoopRepeat ==
  LET h == Head(loop["callee"])
      rest == Tail(loop["callee"])
  IN
  /\ ePhase = "running"
  /\ loop["callee"] # <<>>
  /\ CASE h.fn \in {"stop", "signal_stop"} ->
            /\ CalleeStopped(rest)
            /\ UNCHANGED <<eHandler, eTimers, queue, sent, invoked, fcount, wire>>
       [] h.fn = "handle_signal" ->
            /\ CalleeHandleSignal(rest)
            /\ UNCHANGED <<ePhase, hasProto, invoked, pstate, wpc, witem, wmore,
                           fdOpen, reading>>
       [] OTHER ->
            /\ invoked' = Append(invoked, h.tag)
            /\ IF h.tag = EchoMethod
               THEN Send("callee", ReplySignal, wire)
               ELSE UNCHANGED <<queue, sent, wake, fcount, wire>>
            /\ UNCHANGED <<loop, ePhase, hasProto, eHandler, eTimers, pstate,
                           wpc, witem, wmore, fdOpen, reading>>
  /\ UNCHANGED <<eExit, eSigPending, extSigs, rProc, reaped, fired, exitSeen, cStop>>

\* One callback of the child's main loop.
CalleeLoop ==
  LET h == Head(loop["callee"])
      rest == Tail(loop["callee"])
  IN
  /\ ePhase = "running"
  /\ loop["callee"] # <<>>
  /\ CASE h.fn \in {"stop", "signal_stop"} ->
            /\ CalleeStopped(rest)
            /\ UNCHANGED <<eHandler, eTimers, queue, sent, invoked, fcount, wire>>
       [] h.fn = "handle_signal" ->
            /\ CalleeHandleSignal(rest)
            /\ UNCHANGED <<ePhase, hasProto, invoked, pstate, wpc, witem, wmore,
                           fdOpen, reading>>
       [] OTHER ->
            \* the wrapped object's method; EchoMethod emits ReplySignal,
            \* which connect_export() forwards with export() -> send()
            /\ invoked' = Append(invoked, h.tag)
            /\ IF h.tag = EchoMethod
               THEN Send("callee", ReplySignal, wire)
               ELSE UNCHANGED <<queue, sent, wake, fcount, wire>>
            /\ loop' = [loop EXCEPT !["callee"] = rest]
            /\ UNCHANGED <<ePhase, hasProto, eHandler, eTimers, pstate, wpc,
                           witem, wmore, fdOpen, reading>>
  /\ UNCHANGED <<eExit, eSigPending, extSigs, rProc, reaped, fired, exitSeen, cStop>>

\* A pending timeout_add callback fires: cleanup() (a no-op in the base
\* class) or the deferred stop().
CalleeTimer(t) ==
  /\ ePhase = "running"
  /\ t \in eTimers
  /\ eTimers' = eTimers \ {t}
  /\ IF t = "stop"
     THEN CalleeStopped(loop["callee"])
     ELSE UNCHANGED <<ePhase, hasProto, loop, pstate, wake, wpc, witem, wmore, fdOpen,
                      reading>>
  /\ UNCHANGED <<eExit, eHandler, eSigPending, extSigs, rProc, reaped, queue,
                 fcount, sent, invoked, fired, exitSeen, cStop, wire>>

\* run() has returned: the finally block of Callee.start() calls cleanup(),
\* closes the protocol if still set and the files; the process exits with
\* start()'s return value 0.
CalleeExit ==
  /\ ePhase = "stopped"
  /\ ePhase' = "exited"
  /\ eExit' = 0
  /\ hasProto' = [hasProto EXCEPT !["callee"] = FALSE]
  /\ Close("callee")
  /\ UNCHANGED <<eHandler, eTimers, eSigPending, extSigs, rProc, reaped, queue,
                 loop, fcount, sent, invoked, fired, exitSeen, cStop, wire>>

\* A SIGTERM reaches the child.  Before register_os_signals() it kills the
\* process (exit code -SIGTERM); afterwards the handler installed at that
\* moment is scheduled on the main loop.
SignalArrives ==
  /\ eSigPending > 0
  /\ eSigPending' = eSigPending - 1
  /\ CASE ePhase = "spawned" ->
            /\ ePhase' = "exited"
            /\ eExit' = -15
            /\ Close("callee")
            /\ UNCHANGED loop
       [] ePhase = "exited" ->
            UNCHANGED <<ePhase, eExit, loop, pstate, wake, wpc, witem, wmore, fdOpen,
                        reading>>
       [] OTHER ->
            /\ loop' = [loop EXCEPT !["callee"] =
                          Append(@, [fn |-> eHandler, tag |-> "SIGTERM"])]
            /\ UNCHANGED <<ePhase, eExit, pstate, wake, wpc, witem, wmore, fdOpen,
                           reading>>
  /\ UNCHANGED <<eHandler, eTimers, extSigs, rProc, reaped, hasProto, queue,
                 fcount, sent, invoked, fired, exitSeen, cStop, wire>>

\* Something outside the wrapper sends the child a SIGTERM.
ExternalSignal ==
  /\ extSigs < MaxExtSignals
  /\ ePhase \notin {"none", "exited"}
  /\ extSigs' = extSigs + 1
  /\ eSigPending' = eSigPending + 1
  /\ UNCHANGED <<ePhase, eExit, eHandler, eTimers, rProc, reaped, hasProto,
                 queue, loop, fcount, sent, invoked, fired, exitSeen, cStop,
                 protoVars>>

-----------------------------------------------------------------------------
(* The parent process.                                                    *)

\* Caller.start(): exec_subprocess() spawns the child with a pipe on its
\* stdin and stdout and registers it with the child reaper; make_protocol()
\* wraps the pipes and the protocol starts.
CallerStart ==
  /\ ePhase = "none"
  /\ ePhase' = "spawned"
  /\ rProc' = TRUE
  /\ fdOpen' = [e \in Ends |-> TRUE]
  /\ hasProto' = [hasProto EXCEPT !["caller"] = TRUE]
  /\ Start("caller")
  /\ UNCHANGED wire
  /\ UNCHANGED <<eExit, eHandler, eTimers, eSigPending, extSigs, reaped, queue,
                 loop, fcount, sent, invoked, fired, exitSeen, cStop>>

\* Caller.send(tag) by the parent's code, once the child is started.
CallerSend(t) ==
  /\ ePhase # "none"
  /\ Len(sent["caller"]) < MaxSends
  /\ Send("caller", t, wire)
  /\ UNCHANGED <<pstate, wpc, witem, wmore, fdOpen, reading>>
  /\ UNCHANGED <<ePhase, eExit, eHandler, eTimers, eSigPending, extSigs, rProc,
                 reaped, hasProto, loop, invoked, fired, exitSeen, cStop>>

\* Caller.stop() calls stop_process(): drop the process and terminate it
\* if poll() is None.  rest is the parent's main loop without the callback
\* that called stop(), if any.
CallerStopProcess(rest) ==
  /\ rProc' = FALSE
  /\ eSigPending' = IF rProc /\ ePhase # "exited" THEN eSigPending + 1
                    ELSE eSigPending
  /\ cStop' = TRUE
  /\ loop' = [loop EXCEPT !["caller"] = rest]

\* The parent's code calls Caller.stop() (or cleanup()).
CallerStop ==
  /\ ~cStop
  /\ rProc \/ hasProto["caller"]
  /\ CallerStopProcess(loop["caller"])
  /\ UNCHANGED <<ePhase, eExit, eHandler, eTimers, extSigs, reaped, hasProto,
                 queue, fcount, sent, invoked, fired, exitSeen, protoVars>>

\* The rest of Caller.stop(): stop_protocol() drops and closes the
\* protocol, whose close_cb (subprocess_exit) fires the "exit" callbacks.
\* The engine's reader thread may have read packets in between.
CallerStopProtocol ==
  /\ cStop
  /\ cStop' = FALSE
  /\ hasProto' = [hasProto EXCEPT !["caller"] = FALSE]
  /\ IF hasProto["caller"] /\ pstate["caller"] = "open"
     THEN /\ Close("caller")
          /\ loop' = [loop EXCEPT !["caller"] = @ \o CloseCb("caller")]
     ELSE UNCHANGED <<loop, pstate, wake, wpc, witem, wmore, fdOpen, reading>>
  /\ UNCHANGED <<ePhase, eExit, eHandler, eTimers, eSigPending, extSigs, rProc,
                 reaped, queue, fcount, sent, invoked, fired, exitSeen, wire>>

\* One callback of the parent's main loop, while its main thread is not in
\* stop(): the built-in connection_lost() and gibberish() call stop(); a
\* user callback records its tag.
CallerLoop ==
  LET h == Head(loop["caller"])
      rest == Tail(loop["caller"])
  IN
  /\ ~cStop
  /\ loop["caller"] # <<>>
  /\ IF h.fn \in {"connection_lost", "gibberish"}
     THEN /\ CallerStopProcess(rest)
          /\ UNCHANGED fired
     ELSE /\ fired' = Append(fired, h.tag)
          /\ loop' = [loop EXCEPT !["caller"] = rest]
          /\ UNCHANGED <<rProc, eSigPending, cStop>>
  /\ UNCHANGED <<ePhase, eExit, eHandler, eTimers, extSigs, reaped, hasProto,
                 queue, fcount, sent, invoked, exitSeen, protoVars>>

\* The child reaper sees the child exit and calls subprocess_exit(), which
\* fires the "exit" callbacks (a second time if close_cb already did).
Reap ==
  /\ ePhase = "exited"
  /\ ~reaped
  /\ reaped' = TRUE
  /\ loop' = [loop EXCEPT !["caller"] = @ \o CallerDispatch("exit")]
  /\ UNCHANGED <<ePhase, eExit, eHandler, eTimers, eSigPending, extSigs, rProc,
                 hasProto, queue, fcount, sent, invoked, fired, exitSeen, cStop,
                 protoVars>>

-----------------------------------------------------------------------------
Init ==
  /\ ProtoInit
  /\ ePhase = "none"
  /\ eExit = NoCode
  /\ eHandler = "none"
  /\ eTimers = {}
  /\ eSigPending = 0
  /\ extSigs = 0
  /\ rProc = FALSE
  /\ reaped = FALSE
  /\ hasProto = [e \in Ends |-> FALSE]
  /\ queue = [e \in Ends |-> <<>>]
  /\ loop = [e \in Ends |-> <<>>]
  /\ fcount = [e \in Ends |-> 0]
  /\ sent = [e \in Ends |-> <<>>]
  /\ invoked = <<>>
  /\ fired = <<>>
  /\ exitSeen = FALSE
  /\ cStop = FALSE

\* The writer thread of end e.
WriterStep(e) ==
  \/ WriterWake(e) /\ UNCHANGED wrapVars
  \/ WriterGet(e)
  \/ WriterWrite(e)

\* Steps the processes take on their own: main loops, timers, signal
\* delivery, process exit and the child reaper.
SystemStep ==
  \/ CalleeInit \/ CalleeStart \/ CalleeLoop \/ CalleeExit
  \/ \E t \in {"cleanup", "stop"} : CalleeTimer(t)
  \/ SignalArrives \/ CallerLoop \/ CallerStopProtocol \/ Reap
  \/ \E e \in Ends : WriterStep(e) \/ Reader(e)

\* What the code around the wrapper does: start, send, stop, kill.
Environment ==
  \/ CallerStart
  \/ \E t \in CallerTags : CallerSend(t)
  \/ CallerStop
  \/ ExternalSignal

Next == SystemStep \/ Environment

\* Main loops keep dispatching, threads keep running, timers fire, signals
\* are delivered and the reaper polls; the environment owes nothing.
Fairness ==
  /\ WF_vars(CalleeInit) /\ WF_vars(CalleeStart) /\ WF_vars(CalleeLoop)
  /\ WF_vars(CalleeExit) /\ WF_vars(SignalArrives) /\ WF_vars(CallerLoop)
  /\ WF_vars(CallerStopProtocol)
  /\ WF_vars(Reap)
  /\ \A t \in {"cleanup", "stop"} : WF_vars(CalleeTimer(t))
  /\ \A e \in Ends : WF_vars(WriterStep(e)) /\ WF_vars(Reader(e))

Spec == Init /\ [][Next]_vars /\ Fairness

-----------------------------------------------------------------------------
(* Properties.                                                            *)

TypeOK ==
  /\ ePhase \in {"none", "spawned", "init", "running", "stopped", "exited"}
  /\ eExit \in {NoCode, 0, -15}
  /\ eHandler \in {"none", "handle_signal", "signal_stop"}
  /\ eTimers \subseteq {"cleanup", "stop"}
  /\ eSigPending \in Nat /\ extSigs \in 0..MaxExtSignals
  /\ rProc \in BOOLEAN /\ reaped \in BOOLEAN /\ exitSeen \in BOOLEAN
  /\ cStop \in BOOLEAN
  /\ hasProto \in [Ends -> BOOLEAN]
  /\ queue \in [Ends -> Seq(Packets)]
  /\ loop \in [Ends -> Seq(Entry)]
  /\ fcount \in [Ends -> Nat]
  /\ sent \in [Ends -> Seq(Packets)]
  /\ invoked \in Seq(Methods) /\ fired \in Seq(STRING)
  /\ pstate \in [Ends -> {"none", "open", "closed"}]
  /\ wake \in [Ends -> BOOLEAN] /\ reading \in [Ends -> BOOLEAN]
  /\ wpc \in [Ends -> {"idle", "get", "write"}]
  /\ witem \in [Ends -> Packets \cup {"none"}]
  /\ wmore \in [Ends -> BOOLEAN]
  /\ wire \in [Ends -> Seq(Packets \cup {Junk})]
  /\ fdOpen \in [Ends -> BOOLEAN]

\* Section 4.4: the commands a Callee runs are the methods of the wrapped
\* object named in its method_whitelist.
Callable(t) == t \in Whitelist \cap Methods

(* The wrapped object's methods run in the order the parent sent the      *)
(* commands, each at most once, and only for whitelisted commands it has  *)
(* a method for: Caller.send -> queue -> writer -> pipe -> reader ->       *)
(* Callee.process_packet -> idle_add -> method, with stop, exit, signals  *)
(* and failures interleaved anywhere.  What a close loses is a suffix.    *)
MethodCallsFollowSends ==
  IsPrefix(invoked, SelectSeq(sent["caller"], Callable))

(* The parent's user callbacks run in the order the child sent the        *)
(* signals (exported signals and the "signal" notification), each at most *)
(* once: whatever is lost at close is a suffix, never a gap.              *)
CallbacksFollowSends ==
  LET fromChild(t) == t \in UserSubs /\ t # "exit"
  IN IsPrefix(SelectSeq(fired, fromChild), SelectSeq(sent["callee"], fromChild))

(* Once the parent has run Caller.stop() (on its own or on connection-lost *)
(* or gibberish), the child process eventually exits: the SIGTERM from    *)
(* stop_process() goes through handle_signal()'s grace timer or kills it. *)
CallerStopEndsChild ==
  (ePhase # "none" /\ ~rProc) ~> (ePhase = "exited")

(* Once the child has exited, for whatever reason, the parent eventually  *)
(* notices (end of file on the pipe) and stops: its protocol is dropped   *)
(* and closed.                                                            *)
ChildExitStopsCaller ==
  (ePhase = "exited") ~> (~hasProto["caller"] /\ pstate["caller"] = "closed")

(* A packet queued with send() while the owner holds an open protocol is  *)
(* eventually written, unless the protocol closes first: the writer's     *)
(* wake-up and get_packet()'s "more" never strand a packet in the queue.  *)
QueueDrains ==
  \A e \in Ends :
    (queue[e] # <<>> /\ hasProto[e] /\ pstate[e] = "open")
      ~> (queue[e] = <<>> \/ pstate[e] = "closed")

(* Callee.process_packet() handles "exit" before any method, on the      *)
(* reader thread: no command the parent sent after "exit" is ever run by  *)
(* the wrapped object, whether the process ends or only its reader does.  *)
NoCommandAfterExit ==
  LET k == SelectInSeq(sent["caller"], LAMBDA t : t = "exit")
  IN k > 0 =>
       IsPrefix(invoked, SelectSeq(SubSeq(sent["caller"], 1, k - 1), Callable))

(* Section 4.4: the reserved "exit" command ends the child process.       *)
ExitCommandEndsCallee ==
  exitSeen ~> (ePhase = "exited")

=============================================================================
