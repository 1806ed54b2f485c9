----------------------------- MODULE MCExporter -----------------------------
(* One problem and one submitting thread, a spool with room for one record,   *)
(* and one sink at a time: one that confirms what it receives, or an issue    *)
(* tracker's lifecycle, whose return says nothing of the kind. There is one   *)
(* trouble in a behaviour: a restart, a disk that refuses, or a stop.         *)
EXTENDS Exporter

CONSTANTS collector, github

KindInUse == [k \in Sinks |-> IF k = collector THEN "http" ELSE "tracker"]

OneSink == Cardinality(configured) <= 1

Stops == IF stopping THEN 1 ELSE 0
OneTrouble == faults + restarts + Stops <= 1

MCInit == Init /\ OneSink
MCNext == Next /\ OneSink' /\ OneTrouble'
MCSpec == MCInit /\ [][MCNext]_vars
MCFairSpec == MCSpec /\ WF_vars(ExportStep) /\ WF_vars(Tick)
=============================================================================
