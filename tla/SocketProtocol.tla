--------------------------- MODULE SocketProtocol ---------------------------
(***************************************************************************)
(* The protocol engine (xpra.net.protocol.socket_handler.SocketProtocol)  *)
(* of the two ends of a subprocess wrapper, with the pipe pair that joins  *)
(* them.  The engine is not part of the sources modelled here: it is       *)
(* written from the specification (sections 4.3 and 5) and only as far as *)
(* the subprocess wrapper observes it: a start/close lifecycle, a writer   *)
(* thread woken by source_has_more() that drains the owner's queue through *)
(* get_packet(), a reader thread that dispatches every packet read, and    *)
(* the two failure notifications connection-lost and gibberish.            *)
(*                                                                         *)
(* The callbacks into the owner (get_packet, process_packet, close_cb) are *)
(* owner code, so the steps that call them are written in the module that *)
(* composes the engine with its owners (SubprocessWrapper); this module    *)
(* holds the engine's own state and the updates of it those steps use.     *)
(***************************************************************************)
EXTENDS Naturals, Sequences

CONSTANT Junk      \* the out-of-band bytes written by fault injection

\* The two ends: the parent (SubprocessCaller) and the child (SubprocessCallee).
Ends == {"caller", "callee"}
Peer(e) == IF e = "caller" THEN "callee" ELSE "caller"

\* Reserved tags the engine reports to process_packet (net.protocol.constants).
CONNECTION_LOST == "connection-lost"
GIBBERISH == "gibberish"

VARIABLES
  pstate,   \* engine lifecycle: "none" (not created), "open", "closed"
  wake,     \* the source_has_more event the writer thread waits on
  wpc,      \* writer thread: "idle" (waiting), "get" (calling get_packet),
            \* "write" (holding the packet get_packet returned)
  witem,    \* the packet the writer holds
  wmore,    \* the "more" flag get_packet() returned with it
  wire,     \* wire[e]: what end e has written and its peer has not read
  fdOpen,   \* fdOpen[e]: end e's file descriptors are open
  reading   \* reading[e]: the reader thread of end e is alive

protoVars == <<pstate, wake, wpc, witem, wmore, wire, fdOpen, reading>>

ProtoInit ==
  /\ pstate = [e \in Ends |-> "none"]
  /\ wake = [e \in Ends |-> FALSE]
  /\ wpc = [e \in Ends |-> "idle"]
  /\ witem = [e \in Ends |-> "none"]
  /\ wmore = [e \in Ends |-> FALSE]
  /\ wire = [e \in Ends |-> <<>>]
  /\ fdOpen = [e \in Ends |-> FALSE]
  /\ reading = [e \in Ends |-> FALSE]

-----------------------------------------------------------------------------
(* start(): the engine of end e begins its reader and writer threads.     *)
Start(e) ==
  /\ pstate' = [pstate EXCEPT ![e] = "open"]
  /\ reading' = [reading EXCEPT ![e] = TRUE]
  /\ UNCHANGED <<wake, wpc, witem, wmore>>

(* source_has_more(): wake the writer; ignored once the engine is closed. *)
SourceHasMore(e) ==
  wake' = [wake EXCEPT ![e] = pstate[e] = "open" \/ @]

(* close(): stop both threads, drop what the writer holds (nothing queued *)
(* is flushed) and close the connection's file descriptors.              *)
Close(e) ==
  /\ pstate' = [pstate EXCEPT ![e] = "closed"]
  /\ wake' = [wake EXCEPT ![e] = FALSE]
  /\ wpc' = [wpc EXCEPT ![e] = "idle"]
  /\ witem' = [witem EXCEPT ![e] = "none"]
  /\ wmore' = [wmore EXCEPT ![e] = FALSE]
  /\ fdOpen' = [fdOpen EXCEPT ![e] = FALSE]
  /\ reading' = [reading EXCEPT ![e] = FALSE]

(* The writer thread wakes on the event and clears it before it calls    *)
(* get_packet(), so a source_has_more() made while it drains is not lost.*)
WriterWake(e) ==
  /\ pstate[e] = "open"
  /\ wpc[e] = "idle"
  /\ wake[e]
  /\ wake' = [wake EXCEPT ![e] = FALSE]
  /\ wpc' = [wpc EXCEPT ![e] = "get"]
  /\ UNCHANGED <<pstate, witem, wmore, wire, fdOpen, reading>>

-----------------------------------------------------------------------------
(* Value-level views of the transport, used by the composed steps.        *)

\* What the reader of end e will see next: a packet, the junk bytes, the end
\* of file once the peer's descriptors are closed and the pipe is drained,
\* or nothing yet.
NextInput(e) ==
  IF wire[Peer(e)] # <<>> THEN Head(wire[Peer(e)])
  ELSE IF ~fdOpen[Peer(e)] THEN "EOF"
  ELSE "nothing"

\* The pipe after the reader of end e has consumed its next input.
Consumed(w, e) == [w EXCEPT ![Peer(e)] = IF @ = <<>> THEN @ ELSE Tail(@)]

\* A write by end e succeeds only while the reading end is open (EPIPE).
CanWrite(e) == fdOpen[Peer(e)]

\* raw_write(): the junk goes straight onto the transport (section 4.4).
WithJunk(w, e) == IF pstate[e] = "open" /\ CanWrite(e)
                  THEN [w EXCEPT ![e] = Append(@, Junk)] ELSE w

=============================================================================
