--------------------------- MODULE AvahiPublisher ---------------------------
(***************************************************************************)
(* xpra.net.mdns.avahi_publisher: the AvahiPublishers aggregator and the   *)
(* AvahiPublisher it builds for each (host, port) the server listens on,  *)
(* against the avahi daemon they talk to over one D-Bus connection.       *)
(*                                                                         *)
(* Everything runs on the GLib main loop: the server constructs the       *)
(* aggregator and calls start(), update_txt() and stop(), which call the  *)
(* same method of every publisher in turn.  The daemon's StateChanged     *)
(* signals are queued on the shared bus connection and dispatched by the  *)
(* main loop when it is idle; dbus-python calls, in one dispatch, the     *)
(* handler of every publisher subscribed by then.  start() runs from the  *)
(* first publisher's connect_to_signal() to the last one's GetState()     *)
(* without returning to the main loop, but the daemon is another process  *)
(* and may change state in between, so each publisher's start() is two    *)
(* steps.                                                                  *)
(*                                                                         *)
(* The daemon is the environment, modelled at its D-Bus interface: a      *)
(* server state that changes by itself, and one entry group per publisher *)
(* (EntryGroupNew).  AddService and Commit succeed on a new or reset      *)
(* group; on a committed group avahi refuses them (AVAHI_ERR_BAD_STATE or *)
(* a local collision), which reaches the publisher as a DBusException.    *)
(* Reset empties the group and makes it uncommitted.  Host names, ports,  *)
(* interface names and TXT strings are data the properties do not tell   *)
(* apart: a TXT record is a model value.                                  *)
(***************************************************************************)
EXTENDS Naturals, Sequences

CONSTANTS
  Addrs,          \* the (host, port) pairs of listen_on
  Wildcard,       \* those whose host is "0.0.0.0", "", "*" or "::"
  ServerStates,   \* avahi.SERVER_* values the daemon can be in
  RUNNING,        \* avahi.SERVER_RUNNING
  COLLISION,      \* avahi.SERVER_COLLISION
  Txts,           \* TXT records: the one given to the constructor and updates
  Text0,          \* the TXT record given to the constructor (self.text)
  MaxChanges,     \* bound: daemon state changes
  MaxUpdates,     \* bound: calls of update_txt
  NoPub           \* no publisher: a model value

ASSUME RUNNING \in ServerStates /\ Text0 \in Txts /\ Wildcard \subseteq Addrs
       /\ NoPub \notin Addrs

VARIABLES
  srv,        \* the daemon's server state
  changes,    \* daemon state changes so far
  sigq,       \* StateChanged signals queued on the bus connection
  built,      \* the AvahiPublishers constructor returned
  pubs,       \* the addresses self.publishers holds a publisher for
  pub,        \* each publisher, and the daemon's entry group it created
  phase,      \* "init", "starting" (inside start()), "idle" (main loop)
  todo,       \* the publishers start() has not started yet
  inside,     \* the publisher between connect_to_signal and GetState
  stopped,    \* history: the server has called stop()
  lastTxt,    \* history: the TXT of the last update_txt call, or Text0
  updates     \* calls of update_txt so far

vars == <<srv, changes, sigq, built, pubs, pub, phase, todo, inside, stopped,
          lastTxt, updates>>

(* A publisher: self.server and self.group are set, connect_to_signal has *)
(* registered its handler, and its entry group at the daemon ("none",     *)
(* "uncommitted" or "committed"), whether it holds the service entry and  *)
(* the entry's TXT record.                                                 *)
NewPublisher == [server |-> FALSE, group |-> FALSE, subscribed |-> FALSE,
                 gstate |-> "none", gadded |-> FALSE, gtxt |-> Text0]

\* The daemon publishes the service of publisher p.
Published(p) == srv = RUNNING /\ pub[p].gstate = "committed" /\ pub[p].gadded

\* get_interface_index(host): IF_UNSPEC for a wildcard host, and when
\* if_nametoindex is missing or get_iface finds no interface; otherwise the
\* index of the interface get_iface finds.
InterfaceIndexes(a) == IF a \in Wildcard THEN {"unspec"} ELSE {"unspec", "index"}

\* A turn of the constructor's loop raises with SHOW_INTERFACE: text_dict is
\* None (None.copy()), or if_indextoname(IF_UNSPEC), -1, raises
\* OverflowError, which "except OSError" does not catch.
Raises(show, hasText, index) == show /\ (~hasText \/ index = "unspec")

\* AvahiPublishers(listen_on, ...): no publisher when the system bus is out
\* of reach; otherwise one per address, unless a turn of the loop raises.
Init ==
  /\ srv \in ServerStates
  /\ changes = 0
  /\ sigq = <<>>
  /\ \E busOk, show, hasText \in BOOLEAN :
     \E index \in [Addrs -> {"unspec", "index"}] :
       /\ \A a \in Addrs : index[a] \in InterfaceIndexes(a)
       /\ built = ~(busOk /\ \E a \in Addrs : Raises(show, hasText, index[a]))
       /\ pubs = IF busOk /\ built THEN Addrs ELSE {}
  /\ pub = [a \in Addrs |-> NewPublisher]
  /\ phase = "init"
  /\ todo = {}
  /\ inside = NoPub
  /\ stopped = FALSE
  /\ lastTxt = Text0
  /\ updates = 0

-----------------------------------------------------------------------------
(* A publisher's methods, as functions from its record to its record.     *)

\* stop() that drops the group without calling group.Reset().
StopNoReset(r) == [r EXCEPT !.group = FALSE, !.server = FALSE]

\* stop(): forget the group after resetting it, and forget the server.
Stop(r) ==
  [r EXCEPT !.group = FALSE, !.server = FALSE,
            !.gstate = IF r.group THEN "uncommitted" ELSE @,
            !.gadded = IF r.group THEN FALSE ELSE @]

\* add_service(): AddService and Commit, or stop() when the daemon raises.
AddService(r) ==
  IF ~r.group THEN r
  ELSE IF r.gstate = "uncommitted" /\ ~r.gadded
       THEN [r EXCEPT !.gstate = "committed", !.gadded = TRUE, !.gtxt = Text0]
       ELSE Stop(r)

\* server_state_changed() that only logs a collision.
ServerStateChangedNoStop(r, state) ==
  IF state = RUNNING THEN AddService(r) ELSE r

\* server_state_changed(state): stop on a collision, add the service when
\* the server runs, otherwise only warn.
ServerStateChanged(r, state) ==
  CASE state = COLLISION -> Stop(r)
    [] state = RUNNING -> AddService(r)
    [] OTHER -> r

-----------------------------------------------------------------------------
\* The server calls AvahiPublishers.start(); with no publishers it returns.
Start ==
  /\ built /\ phase = "init"
  /\ todo' = pubs
  /\ phase' = IF pubs = {} THEN "idle" ELSE "starting"
  /\ UNCHANGED <<srv, changes, sigq, built, pubs, pub, inside, stopped,
                 lastTxt, updates>>

\* start()'s loop moves on to the next publisher, or back to the main loop.
NextPublisher(p) ==
  /\ todo' = todo \ {p}
  /\ inside' = NoPub
  /\ phase' = IF todo' = {} THEN "idle" ELSE "starting"

\* AvahiPublisher.start(): get the server and a new entry group and
\* subscribe, or return False when D-Bus raises (before or after
\* self.server is assigned); all_err only decides a warning.
StartConnect(p) ==
  /\ phase = "starting" /\ inside = NoPub /\ p \in todo
  /\ \/ /\ pub' = [pub EXCEPT ![p] = [@ EXCEPT !.server = TRUE, !.group = TRUE,
                                         !.gstate = "uncommitted", !.subscribed = TRUE]]
        /\ inside' = p
        /\ UNCHANGED <<todo, phase>>
     \/ /\ \E s \in BOOLEAN : pub' = [pub EXCEPT ![p].server = s]
        /\ NextPublisher(p)
  /\ UNCHANGED <<srv, changes, sigq, built, pubs, stopped, lastTxt, updates>>

\* The rest of start(): server_state_changed(self.server.GetState()).
StartState ==
  /\ inside # NoPub
  /\ pub' = [pub EXCEPT ![inside] = ServerStateChanged(@, srv)]
  /\ NextPublisher(inside)
  /\ UNCHANGED <<srv, changes, sigq, built, pubs, stopped, lastTxt, updates>>

\* The main loop dispatches the next StateChanged signal to the handler of
\* every publisher subscribed by now.
Deliver ==
  /\ phase = "idle"
  /\ sigq # <<>>
  /\ pub' = [p \in Addrs |-> IF pub[p].subscribed
                               THEN ServerStateChanged(pub[p], Head(sigq))
                               ELSE pub[p]]
  /\ sigq' = Tail(sigq)
  /\ UNCHANGED <<srv, changes, built, pubs, phase, todo, inside, stopped,
                 lastTxt, updates>>

\* The server calls update_txt(txt) and each publisher's update_txt() sends
\* UpdateServiceTxt, unless it has no server or no group.  The call is
\* asynchronous, but the daemon handles a connection's calls in order, so it
\* acts on the group as it is now; for a group without the entry it fails
\* and error_handler only warns.
UpdateTxt(t) ==
  /\ phase = "idle"
  /\ updates < MaxUpdates
  /\ updates' = updates + 1
  /\ lastTxt' = t
  /\ pub' = [p \in Addrs |-> IF pub[p].server /\ pub[p].group /\ pub[p].gadded
                               THEN [pub[p] EXCEPT !.gtxt = t]
                               ELSE pub[p]]
  /\ UNCHANGED <<srv, changes, sigq, built, pubs, phase, todo, inside, stopped>>

\* The server calls stop() when it shuts down: every publisher stops.
UserStop ==
  /\ phase = "idle"
  /\ ~stopped
  /\ stopped' = TRUE
  /\ pub' = [p \in Addrs |-> Stop(pub[p])]
  /\ UNCHANGED <<srv, changes, sigq, built, pubs, phase, todo, inside,
                 lastTxt, updates>>

\* The daemon changes state and signals it on the connection, which gets it
\* once some publisher has subscribed.
DaemonChange(s) ==
  /\ changes < MaxChanges
  /\ s # srv
  /\ srv' = s
  /\ changes' = changes + 1
  /\ sigq' = IF \E p \in Addrs : pub[p].subscribed THEN Append(sigq, s) ELSE sigq
  /\ UNCHANGED <<built, pubs, pub, phase, todo, inside, stopped, lastTxt, updates>>

Next ==
  \/ Start
  \/ \E p \in Addrs : StartConnect(p)
  \/ StartState
  \/ Deliver
  \/ \E t \in Txts : UpdateTxt(t)
  \/ UserStop
  \/ \E s \in ServerStates : DaemonChange(s)

\* start() runs to its end and the main loop dispatches queued signals; the
\* server and the daemon act only if they do.
Spec == Init /\ [][Next]_vars
          /\ WF_vars(\E p \in Addrs : StartConnect(p)) /\ WF_vars(StartState)
          /\ WF_vars(Deliver)

-----------------------------------------------------------------------------
(* stop() and the StateChanged handler: the daemon publishes a service    *)
(* only while its publisher holds the group and the server has not called *)
(* stop(), whatever signals are still queued when it does: no entry is    *)
(* left behind, nor added again after stop.                                *)
PublishOnlyWhileHeld == \A p \in Addrs : Published(p) => pub[p].group /\ ~stopped

(* server_state_changed(): a name collision signalled on the connection   *)
(* always ends with every publisher stopped, those that subscribed after  *)
(* the signal was queued included, even when the daemon has left the      *)
(* collision state by the time the main loop dispatches it.               *)
CollisionStops ==
  (\E i \in 1..Len(sigq) : sigq[i] = COLLISION) ~> \A p \in Addrs : ~pub[p].group

(* start(), server_state_changed(), add_service() and update_txt(): once *)
(* the daemon stays running and the server has not stopped it, a          *)
(* publisher that has subscribed ends up published, with the last TXT     *)
(* record the server gave.                                                 *)
PublishesLatest ==
  \A p \in Addrs :
    <>[](srv = RUNNING /\ pub[p].subscribed /\ ~stopped)
      => <>[](Published(p) /\ pub[p].gtxt = lastTxt)

=============================================================================
