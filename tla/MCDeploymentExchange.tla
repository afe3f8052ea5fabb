------------------------ MODULE MCDeploymentExchange ------------------------
(* Small instances of DeploymentExchange for TLC.                          *)
EXTENDS DeploymentExchange

\* "x" is another host's; "d" and "e" are derived, "b" and "c" box keys.
MCKind(i) ==
    CASE i \in {"g", "x"} -> "generatable" [] i \in {"d", "e"} -> "derived"
      [] i = "p" -> "public" [] i = "q" -> "declared" [] i = "h" -> "host default"
      [] i \in {"b", "c"} -> "box key" [] i = "k" -> "local key" [] OTHER -> "entered"
MCSource(i) ==
    CASE i = "d" -> "g" [] i = "e" -> "x" [] i = "b" -> "p" [] i = "c" -> "q" [] OTHER -> i

\* A framed value inside a table, and public information of several hosts.
MCMinimum(i) == CASE i = "d" -> 3 [] i = "p" -> 4 [] OTHER -> 1

\* Requests that pair a value with its source, or values of two sources.
MCRequested == {{"g", "d"}, {"e", "n"}, {"p", "b"}, {"q", "c", "h"}, {"e", "k"}}
\* A value the target generates, one derived from it, and one of neither.
MCMismatch == {{"g", "d", "k"}}
=============================================================================
