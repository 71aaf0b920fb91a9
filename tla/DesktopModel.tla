---------------------------- MODULE DesktopModel ----------------------------
(***************************************************************************)
(* The size hints of xpra.x11.desktop.desktop_model.ScreenDesktopModel, as *)
(* operators.  A size is a pair <<width, height>>; a hints dict is a       *)
(* function from the hint names it holds to pairs.  The RandR queries are *)
(* the operators' arguments: whether RandR is present, the list of screen *)
(* sizes get_xrr_screen_sizes() returns (in its order) or XError, and the *)
(* screen's current dimensions.                                            *)
(***************************************************************************)
EXTENDS Naturals, Sequences, SequencesExt, TLC

\* INC_VALUES: the increments get_legacy_size_hints tries.
INC_VALUES == <<16, 32, 64, 128, 256>>

\* get_xrr_screen_sizes() raising XError.
XError == <<"XError">>

NoHints == [h \in {} |-> <<0, 0>>]

Area(s) == s[1] * s[2]

\* get_legacy_size_hints with "max_hits >= 16" for the threshold.
GetLegacySizeHintsAtLeast16(screen_sizes) ==
  LET sizes == Range(screen_sizes)
      max_pixels == Max({Area(s) : s \in sizes})
      stored(a) == screen_sizes[Max({i \in DOMAIN screen_sizes : Area(screen_sizes[i]) = a})]
      hits(inc) == Len(SelectSeq(screen_sizes,
                        LAMBDA s : <<s[1] + inc, s[2] + inc>> \in sizes))
      max_hits == Max({hits(inc) : inc \in Range(INC_VALUES)})
      legacy == ("base-size" :> <<640, 640>>) @@ ("minimum-size" :> <<640, 640>>)
  IN ("maximum-size" :> stored(max_pixels)) @@ (IF max_hits >= 16 THEN legacy ELSE NoHints)

\* get_legacy_size_hints(screen_sizes): maximum-size is the size stored last
\* under the largest area in max_size (later sizes overwrite earlier ones of
\* the same area); when some increment has more than 16 hits, the fixed
\* legacy hints are added.  The loop that picks the best increment only
\* breaks, and its result is not used.
GetLegacySizeHints(screen_sizes) ==
  LET sizes == Range(screen_sizes)
      max_pixels == Max({Area(s) : s \in sizes})
      stored(a) == screen_sizes[Max({i \in DOMAIN screen_sizes : Area(screen_sizes[i]) = a})]
      hits(inc) == Len(SelectSeq(screen_sizes,
                        LAMBDA s : <<s[1] + inc, s[2] + inc>> \in sizes))
      max_hits == Max({hits(inc) : inc \in Range(INC_VALUES)})
      legacy == ("base-size" :> <<640, 640>>) @@ ("minimum-size" :> <<640, 640>>)
                @@ ("increment" :> <<128, 128>>)
                @@ ("minimum-aspect-ratio" :> <<1, 3>>)
                @@ ("maximum-aspect-ratio" :> <<3, 1>>)
  IN ("maximum-size" :> stored(max_pixels)) @@ (IF max_hits > 16 THEN legacy ELSE NoHints)

\* update_size_hints(): no restriction with resize_exact or when the query
\* raises XError; the screen's own size as maximum, minimum and base size
\* without RandR or without screen sizes; otherwise the legacy hints.
UpdateSizeHints(has_randr, resize_exact, screen_sizes, w, h) ==
  LET fixed == [hint \in {"maximum-size", "minimum-size", "base-size"} |-> <<w, h>>]
  IN CASE ~has_randr -> fixed
       [] resize_exact \/ screen_sizes = XError -> NoHints
       [] screen_sizes = <<>> -> fixed
       [] OTHER -> GetLegacySizeHints(screen_sizes)

\* do_resize() to the requested size req from the current size cur, on a
\* server with RandR whose get_xrr_screen_sizes() lists modes.  A dummy
\* driver without the mode gets it added (listed last); set_screen_size()
\* succeeds only for a listed mode, and set_ok says whether the X server
\* accepts it (a refusal, or an X error from any call, only logs).  On
\* success _screen_size_changed() publishes update_size_hints() for the new
\* size and emits "resized", and do_resize emits it again when the size is
\* the one it started from.
DoResize(req, cur, modes, resize_exact, is_dummy16, set_ok) ==
  LET added == IF is_dummy16 /\ req \notin Range(modes) THEN Append(modes, req)
                                                      ELSE modes
  IN IF set_ok /\ req \in Range(added)
     THEN [size |-> req, modes |-> added, published |-> TRUE,
           hints |-> UpdateSizeHints(TRUE, resize_exact, added, req[1], req[2]),
           resized |-> IF cur = req THEN 2 ELSE 1]
     ELSE [size |-> cur, modes |-> added, published |-> FALSE,
           hints |-> NoHints, resized |-> 0]

=============================================================================
