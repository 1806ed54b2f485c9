------------------------- MODULE MCWorkloadRegistry -------------------------
(* Deployments for the runs: opted in for one file, opted in by one of two    *)
(* containers, opted out, and two that cannot be parsed.                      *)
EXTENDS WorkloadRegistry

CONSTANTS app, audit

Asks(enabled, paths, parses) == [enabled |-> enabled, paths |-> paths, parses |-> parses]

OptedIn == {Asks("true", {app}, TRUE)}
OptedInBySidecar == {Asks("true", {app}, TRUE), Asks("absent", {audit}, TRUE)}
Refusing == {Asks("false", {app}, TRUE)}
Malformed == {Asks("true", {app}, FALSE)}

Several == {OptedIn, OptedInBySidecar, Refusing, Malformed, Garbled}
InOrOut == {OptedIn, Refusing}
=============================================================================
