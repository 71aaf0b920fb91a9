----------------------------- MODULE QRCodeClient -----------------------------
(***************************************************************************)
(* xpra.gtk.dialogs.qrcode_client.QRCodeClient.do_command(): from the     *)
(* "network"/"sockets" part of the server's info response to the exit    *)
(* code it quits with, or the URIs of the QR code window it shows.        *)
(*                                                                         *)
(* A host is a record of what the code asks of its string: its text (a    *)
(* model value), whether it starts with "127.0.0." or with "::1", whether *)
(* it holds a ":", and whether "[%s]" has been put around it.  An address  *)
(* is a (host, port) pair, or a value that is not a pair, which           *)
(* "host, port = address" cannot unpack.  A URI is the record of its       *)
(* scheme, host and port: <<>> when "%s://%s/" leaves the port out.        *)
(***************************************************************************)
EXTENDS Naturals, Sequences, SequencesExt

\* dpath(caps, "network", "sockets") is None or empty; otherwise sockets are
\* [ws |-> addresses, wss |-> addresses], <<>> for a type not listed.
NoSockets == [none |-> TRUE]

\* An address "host, port = address" fails to unpack.
NotPair == [pair |-> FALSE]

\* The addresses of a socket type are kept unless the tuple does not
\* unpack, the host is a loopback one, or it is an IPv6 one without IPV6.
Kept(a, ipv6) ==
  /\ a.pair
  /\ ~a.host.p127 /\ ~a.host.p1
  /\ a.host.colon => ipv6

\* "[%s]" % host for an IPv6 host (reached only with IPV6).
HostOf(h) == IF h.colon THEN [h EXCEPT !.bracketed = TRUE] ELSE h

\* addr_types.setdefault((host, port), []).append(socktype): addr_types is
\* a sequence of [addr, types] entries, in the order the keys were added.
SetDefaultAppend(at, k, t) ==
  IF \E i \in 1..Len(at) : at[i].addr = k
    THEN LET i == CHOOSE j \in 1..Len(at) : at[j].addr = k
         IN [at EXCEPT ![i].types = Append(@, t)]
    ELSE Append(at, [addr |-> k, types |-> <<t>>])

\* The loop over ("ws", "wss") and over each type's addresses.
AddrTypes(sockets, ipv6) ==
  LET entries == [i \in 1..Len(sockets["ws"]) |-> <<"ws", sockets["ws"][i]>>]
                 \o [i \in 1..Len(sockets["wss"]) |-> <<"wss", sockets["wss"][i]>>]
      add(at, e) == IF Kept(e[2], ipv6)
                      THEN SetDefaultAppend(at, <<HostOf(e[2].host), e[2].port>>, e[1])
                      ELSE at
  IN FoldLeft(add, <<>>, entries)

\* A URI that prefers https when a wss socket also listens on the address.
UriPreferWss(e) ==
  LET proto == IF "wss" \in Range(e.types) THEN "https" ELSE "http"
      port == e.addr[2]
  IN [proto |-> proto, host |-> e.addr[1],
      port |-> IF (proto = "http" /\ port = 80) \/ (proto = "https" /\ port = 443)
                 THEN <<>> ELSE <<port>>]

\* The URI of an entry: http when a plain ws socket listens on the address,
\* https otherwise, and no port when it is the scheme's own.
Uri(e) ==
  LET proto == IF "ws" \in Range(e.types) THEN "http" ELSE "https"
      port == e.addr[2]
  IN [proto |-> proto, host |-> e.addr[1],
      port |-> IF (proto = "http" /\ port = 80) \/ (proto = "https" /\ port = 443)
                 THEN <<>> ELSE <<port>>]

\* do_command(caps): quit with PACKET_FAILURE without sockets; otherwise
\* close the protocol and either quit with OK, when no address is left, or
\* show the window of the URIs (exit code 0, the window's main loop).
DoCommand(sockets, ipv6) ==
  IF sockets = NoSockets THEN [exit |-> "PACKET_FAILURE", uris |-> <<>>]
  ELSE LET at == AddrTypes(sockets, ipv6)
       IN IF at = <<>> THEN [exit |-> "OK", uris |-> <<>>]
          ELSE [exit |-> "window", uris |-> [i \in 1..Len(at) |-> Uri(at[i])]]

==============================================================================
