---------------------------- MODULE WindowFilters ----------------------------
(***************************************************************************)
(* xpra.server.window.filters: a window filter compares one property of a *)
(* window with a value.  A window is a function from the names of the     *)
(* properties it has to their values; a value is a Python int or str,    *)
(* [type |-> "int" or "str", v |-> ...].  A filter is a record built by    *)
(* get_window_filter().                                                    *)
(***************************************************************************)
EXTENDS Naturals, TLC

\* get_window_filter() raising ValueError.
Invalid == [invalid |-> TRUE]

\* str.lower() of the object names used.
Lower(s) == CASE s \in {"window", "Window", "WINDOW"} -> "window"
              [] s \in {"window-parent", "Window-Parent"} -> "window-parent"
              [] OTHER -> s

\* str(v) of a property value: the decimal digits of an integer.
Str(x) == [type |-> "str", v |-> IF x.type = "str" THEN x.v ELSE ToString(x.v)]

\* get_window_filter(object_name, property_name, operator, value): "=" is a
\* WindowPropertyIn and "!=" a WindowPropertyNotIn of the list [value];
\* recurse is set for "window-parent".  Other names or operators raise.
GetWindowFilter(object_name, property_name, operator, value) ==
  IF Lower(object_name) \notin {"window", "window-parent"} \/ operator \notin {"=", "!="}
  THEN Invalid
  ELSE [property_name |-> property_name, value |-> <<value>>,
        recurse |-> Lower(object_name) = "window-parent", negate |-> operator = "!="]

\* evaluate() without the str() coercion of the window's value.
EvaluateNoCoerce(f, window_value) ==
  LET found == \E i \in DOMAIN f.value : f.value[i] = window_value
  IN IF f.negate THEN ~found ELSE found

\* WindowPropertyIn.evaluate(): when every value of the list is a string,
\* the window's value is compared as str(); NotIn negates it.
Evaluate(f, window_value) ==
  LET v == IF f.value[1].type = "str" THEN Str(window_value) ELSE window_value
      found == \E i \in DOMAIN f.value : f.value[i] = v
  IN IF f.negate THEN ~found ELSE found

\* matches(window): get_window() is the window itself (recurse is not
\* used); a window without the property makes get_property raise, and the
\* filter does not match.
Matches(f, window) ==
  /\ f.property_name \in DOMAIN window
  /\ Evaluate(f, window[f.property_name])

=============================================================================
