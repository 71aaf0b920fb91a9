---------------------------- MODULE MCOperators ----------------------------
(***************************************************************************)
(* The project's pure operators checked as functions: the websocket      *)
(* header codec (FrameCodec), the desktop size hints and do_resize        *)
(* (DesktopModel), the window filters (WindowFilters) and the QR code     *)
(* client's URIs (QRCodeClient).  A state is one probe, an input of one   *)
(* of them ("kind"; the other inputs keep their defaults), or the state   *)
(* of defaults that every probe starts from and returns to.  The          *)
(* invariants compare each operator at the probe with a reference.        *)
(***************************************************************************)
EXTENDS FrameCodec, DesktopModel, WindowFilters, QRCodeClient

\* Frames: the lengths of section 8 of the specification, on both sides of
\* the 125/126 and 65535/65536 class boundaries.
MCOpcodes == {1, 2, 15}
MCLens == {0, 1, 125, 126, 65535, 65536, 200000}
MCKeys == {<<>>, <<1, 2, 3, 255>>}
\* Masked probes stop at the 16-bit class: unmasking is a byte-by-byte XOR,
\* and a 64K-byte masked payload costs TLC minutes per probe.
MCMaskedLens == {n \in MCLens : n <= 126}
\* What follows the frame in the buffer: nothing, or the next frame's header.
MCTails == {<<>>, <<130, 0>>}

\* Screen sizes: none, XError, a monitor's modes (two of equal area), and
\* modes in steps of 16 pixels, with 16 and with 17 increment hits.
Steps(n) == [k \in 1..n |-> <<640 + 16 * k, 480 + 16 * k>>]
MCScreenSizes ==
  {<<>>, XError,
   <<<<1920, 1200>>, <<2560, 1080>>, <<1920, 1080>>, <<1080, 1920>>, <<1280, 1024>>>>,
   Steps(17), Steps(18)}
MCDims == {<<1920, 1080>>, <<656, 496>>}

\* Resizes: modes of the monitor, of the two step lists, or none listed;
\* requests for a listed mode taller than the largest-area one, for the
\* smallest step, and for a mode no list has.
MCModeLists == MCScreenSizes \ {XError}
MCRequests == {<<1920, 1200>>, <<656, 496>>, <<800, 600>>}

\* Filters: object names and operators valid or not, int and str values.
IntV(n) == [type |-> "int", v |-> n]
StrV(s) == [type |-> "str", v |-> s]
MCObjectNames == {"Window", "window-parent", "screen"}
MCOperatorNames == {"=", "!=", "<"}
MCValues == {IntV(5), StrV("5"), StrV("xterm")}
MCWindows == {[pid |-> IntV(5)], [pid |-> StrV("5")], [pid |-> IntV(7)],
              [title |-> StrV("xterm")]}

\* QR codes: a LAN, a loopback, an IPv6 and the IPv6 loopback host; the
\* default ports of http and https and another; an address that does not
\* unpack; up to two addresses per socket type, repeats included.
Host(t, l4, l6, c) == [text |-> t, p127 |-> l4, p1 |-> l6, colon |-> c, bracketed |-> FALSE]
LAN == Host("192.168.0.2", FALSE, FALSE, FALSE)
Addr(h, p) == [pair |-> TRUE, host |-> h, port |-> p]
MCAddresses ==
  {NotPair, Addr(LAN, 80), Addr(LAN, 443), Addr(LAN, 14500),
   Addr(Host("127.0.0.1", TRUE, FALSE, FALSE), 14500),
   Addr(Host("fe80::2", FALSE, FALSE, TRUE), 443),
   Addr(Host("::1", FALSE, TRUE, TRUE), 80)}
MCAddressLists == {<<>>} \cup {<<a>> : a \in MCAddresses}
                    \cup {<<a, b>> : a, b \in MCAddresses}

VARIABLES kind, op, len, key, fin, tail, randr, exact, sizes, dims,
          req, dummy, setok, oname, fop, fval, win, socks, ipv6

vars == <<kind, op, len, key, fin, tail, randr, exact, sizes, dims, req,
          dummy, setok, oname, fop, fval, win, socks, ipv6>>

\* The next probe's inputs of each operator.
FrameAt(o, n, k, f, t) == op' = o /\ len' = n /\ key' = k /\ fin' = f /\ tail' = t
HintsAt(r, x, s, d) == randr' = r /\ exact' = x /\ sizes' = s /\ dims' = d
ResizeAt(q, d, ok) == req' = q /\ dummy' = d /\ setok' = ok
FilterAt(n, o, v, w) == oname' = n /\ fop' = o /\ fval' = v /\ win' = w
QRAt(s, v6) == socks' = s /\ ipv6' = v6

\* The inputs a probe of another operator leaves at their defaults.
FrameDefault == FrameAt(2, 0, <<>>, TRUE, <<>>)
HintsDefault == HintsAt(TRUE, FALSE, <<>>, <<1920, 1080>>)
ResizeDefault == ResizeAt(<<1920, 1080>>, FALSE, TRUE)
FilterDefault == FilterAt("Window", "=", IntV(5), [pid |-> IntV(5)])
QRDefault == QRAt(NoSockets, FALSE)

Init ==
  /\ kind = "none"
  /\ op = 2 /\ len = 0 /\ key = <<>> /\ fin = TRUE /\ tail = <<>>
  /\ randr = TRUE /\ exact = FALSE /\ sizes = <<>> /\ dims = <<1920, 1080>>
  /\ req = <<1920, 1080>> /\ dummy = FALSE /\ setok = TRUE
  /\ oname = "Window" /\ fop = "=" /\ fval = IntV(5) /\ win = [pid |-> IntV(5)]
  /\ socks = NoSockets /\ ipv6 = FALSE

FrameProbe ==
  \E o \in MCOpcodes, n \in MCLens, k \in MCKeys, f \in BOOLEAN, t \in MCTails :
    /\ k # <<>> => n \in MCMaskedLens
    /\ kind' = "frame" /\ FrameAt(o, n, k, f, t) /\ HintsDefault
    /\ ResizeDefault /\ FilterDefault /\ QRDefault

HintsProbe ==
  \E r, x \in BOOLEAN, s \in MCScreenSizes, d \in MCDims :
    /\ kind' = "hints" /\ HintsAt(r, x, s, d) /\ FrameDefault
    /\ ResizeDefault /\ FilterDefault /\ QRDefault

\* A resize probe: the hints inputs give the current size and the modes.
ResizeProbe ==
  \E q \in MCRequests, c \in MCDims, s \in MCModeLists, x, d, ok \in BOOLEAN :
    /\ kind' = "resize" /\ ResizeAt(q, d, ok) /\ HintsAt(TRUE, x, s, c)
    /\ FrameDefault /\ FilterDefault /\ QRDefault

FilterProbe ==
  \E n \in MCObjectNames, o \in MCOperatorNames, v \in MCValues, w \in MCWindows :
    /\ kind' = "filter" /\ FilterAt(n, o, v, w) /\ FrameDefault
    /\ HintsDefault /\ ResizeDefault /\ QRDefault

QRProbe ==
  \E s \in {NoSockets} \cup [ws : MCAddressLists, wss : MCAddressLists], v6 \in BOOLEAN :
    /\ kind' = "qr" /\ QRAt(s, v6) /\ FrameDefault /\ HintsDefault
    /\ ResizeDefault /\ FilterDefault

\* From the state of defaults, take any probe of any operator.
Probe ==
  /\ kind = "none"
  /\ FrameProbe \/ HintsProbe \/ ResizeProbe \/ FilterProbe \/ QRProbe

\* From a probe, back to the state of defaults.
Back ==
  /\ kind # "none"
  /\ kind' = "none" /\ FrameDefault /\ HintsDefault /\ ResizeDefault
  /\ FilterDefault /\ QRDefault

Spec == Init /\ [][Probe \/ Back]_vars

Frame == EncodeFrame(op, len, key, fin)

(* Section 8: decode_hybi() of an encoded frame, with or without the next *)
(* frame's bytes after it, gives back the opcode, fin flag and unmasked    *)
(* payload, and consumes exactly the frame: encode_hybi_header's length    *)
(* class, its 16/64-bit field and decode_hybi's offsets all agree.        *)
RoundTrip ==
  kind = "frame" =>
    LET f == Frame
    IN DecodeHybi(f \o tail)
         = [opcode |-> op, payload |-> PayloadOf(len), length |-> Len(f), fin |-> fin]

\* Truncation points of a frame of n bytes: inside the two header bytes,
\* the mask key and the extended length, and one byte short of the frame.
Cuts(n) == {1, 2, 3, 4, 5, 7, 9, 11, 13, n - 1}

(* Section 8: a buffer holding only part of a frame (cut inside the       *)
(* header, the extended length, the mask key or the payload) decodes to   *)
(* None, never to a frame, so the reader waits for more bytes.            *)
PrefixIsNone ==
  kind = "frame" =>
    LET f == Frame
    IN \A c \in Cuts(Len(f)) : c < Len(f) => DecodeHybi(SubSeq(f, 1, c)) = None

(* update_size_hints() and get_legacy_size_hints(): when RandR lists the  *)
(* screen sizes, the maximum-size hint is one of them and no listed size  *)
(* has more pixels; the fixed 640x640 legacy hints come only with more    *)
(* than 16 sizes whose size plus one increment is also listed.            *)
LegacyHintsFromModes ==
  LET h == UpdateSizeHints(randr, exact, sizes, dims[1], dims[2])
      listed == Range(sizes)
      hits(inc) == Cardinality({i \in DOMAIN sizes :
                                  <<sizes[i][1] + inc, sizes[i][2] + inc>> \in listed})
  IN (kind = "hints" /\ randr /\ ~exact /\ sizes \notin {<<>>, XError}) =>
       /\ h["maximum-size"] \in listed
       /\ \A s \in listed : Area(s) <= Area(h["maximum-size"])
       /\ ("minimum-size" \in DOMAIN h) = (\E inc \in Range(INC_VALUES) : hits(inc) > 16)

\* The size s lies within the minimum-size and maximum-size hints of h.
WithinHints(h, s) ==
  /\ "maximum-size" \in DOMAIN h =>
       s[1] <= h["maximum-size"][1] /\ s[2] <= h["maximum-size"][2]
  /\ "minimum-size" \in DOMAIN h =>
       h["minimum-size"][1] <= s[1] /\ h["minimum-size"][2] <= s[2]

(* get_legacy_size_hints() sets "the maximum size supported": after a     *)
(* do_resize() that the X server accepted, the screen's new size lies     *)
(* within the size hints _screen_size_changed() publishes for it, so the  *)
(* client can show the whole desktop.                                     *)
ScreenFitsHints ==
  LET r == DoResize(req, dims, sizes, exact, dummy, setok)
  IN (kind = "resize" /\ r.published) => WithinHints(r.hints, r.size)

(* do_resize(): "tell the client we ain't budging" when its request left  *)
(* the screen as it was: every resize request is answered with at least   *)
(* one "resized" signal, whether the size changed, stayed the same, or    *)
(* set_screen_size() refused it.                                           *)
ResizeAnswered ==
  kind = "resize" => DoResize(req, dims, sizes, exact, dummy, setok).resized > 0

(* get_window_filter() and matches(): a "property = value" filter matches *)
(* exactly the windows that have the property with that value, an int     *)
(* property matching a str value by its decimal digits; "!=" matches the  *)
(* other windows that have the property; any other object name or         *)
(* operator is refused.                                                    *)
FilterMatchesAsReference ==
  LET f == GetWindowFilter(oname, "pid", fop, fval)
      equal == \/ win["pid"] = fval
               \/ fval.type = "str" /\ win["pid"].type = "int"
                  /\ ToString(win["pid"].v) = fval.v
  IN kind = "filter" =>
       IF oname = "screen" \/ fop = "<" THEN f = Invalid
       ELSE Matches(f, win) = ("pid" \in DOMAIN win /\ equal # (fop = "!="))

(* QRCodeClient.do_command(): the window shows one URI for each address  *)
(* of a ws or wss socket that another machine can reach (not loopback,    *)
(* IPv6 only with IPV6, bracketed), each address once even when both      *)
(* socket types listen on it, as http when a plain ws socket does and     *)
(* https otherwise, the port left out when it is the scheme's default;    *)
(* with no such address the client quits with OK, without sockets with    *)
(* PACKET_FAILURE.                                                          *)
QRUrisAsReference ==
  kind = "qr" =>
    LET r == DoCommand(socks, ipv6)
        reachable(a) == a.pair /\ ~(a.host.p127 \/ a.host.p1) /\ (ipv6 \/ ~a.host.colon)
        on(t) == {a \in Range(socks[t]) : reachable(a)}
        addrKey(a) == <<IF a.host.colon THEN [a.host EXCEPT !.bracketed = TRUE] ELSE a.host,
                    a.port>>
        keys == {addrKey(a) : a \in on("ws") \cup on("wss")}
        uri(k) == LET http == \E a \in on("ws") : addrKey(a) = k
                  IN [proto |-> IF http THEN "http" ELSE "https", host |-> k[1],
                      port |-> IF k[2] = (IF http THEN 80 ELSE 443) THEN <<>> ELSE <<k[2]>>]
    IN IF socks = NoSockets THEN r.exit = "PACKET_FAILURE"
       ELSE /\ r.exit = (IF keys = {} THEN "OK" ELSE "window")
            /\ Len(r.uris) = Cardinality(keys)
            /\ Range(r.uris) = {uri(k) : k \in keys}

=============================================================================
