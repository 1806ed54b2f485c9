----------------------------- MODULE MCService ------------------------------
(* One document of the workload and one of the node. The first fits the       *)
(* budget if its characters are wide, and else is cut at its own limit and    *)
(* exceeds it with the notice that says so. stop() waits two ticks for the    *)
(* worker and one for each other thread.                                      *)
(*                                                                            *)
(* Two scenarios in one run. "guidance": documents are edited while worker    *)
(* and health endpoint read them, the service runs on and the model answers.  *)
(* "lifecycle": there are no documents, the model answers anything, and the   *)
(* service may be stopped at any point.                                       *)
EXTENDS Service

CONSTANTS runbook, overview

Declared == <<runbook>>
OnNode == <<overview>>

Patience == [c \in Components |-> IF c = "analyzer" THEN 2 ELSE 1]

Object(severity, confidence) ==
    [kind |-> "object", complete |-> TRUE, severity |-> severity, steps |-> "some",
     confidence |-> confidence]

Routine == Object("low", 12)

SomeReplies ==
    {[kind |-> "timeout"], [kind |-> "prose"], [kind |-> "nested"], Routine,
     Object("low", NotANumber), Object("low", Yes), Object("low", Beyond), Object("critical", 9)}

VARIABLE scenario

MCInit ==
    /\ Init
    /\ scenario \in {"guidance", "lifecycle"}
    /\ \A d \in Documents : disk[d].there <=> scenario = "guidance"
    /\ disk[overview].size = 2 /\ disk[overview].width = 1
    /\ disk[runbook].size = 4
    /\ scenario = "lifecycle" => disk[runbook].width = 1

InScenario ==
    CASE scenario = "guidance" ->
            /\ ~shutdown' /\ mainPc' # "exited" /\ elapsed' = 0
            /\ inPass \subseteq inPass' /\ inPass' \subseteq {"log_monitor"}
            /\ reply' \in {NoPayload, Routine}
            /\ disk'[runbook] = disk[runbook] /\ disk'[overview].size \in {0, 2} /\ disk'[overview].width = 1
            /\ edits' > 0 => mainPc' = "serve" /\ thread["health"] = "on"
      [] scenario = "lifecycle" ->
            /\ edits' = 0 /\ readPc'[health] = "idle"
            /\ inPass' \subseteq {"log_monitor", "exporter"}

MCNext == Next /\ InScenario /\ UNCHANGED scenario

MCSpec ==
    /\ MCInit /\ [][MCNext]_<<vars, scenario>>
    /\ WF_vars(MainStep) /\ WF_vars(WorkerStep) /\ WF_vars(Tick)
    /\ WF_vars(ThreadEnds("health"))
=============================================================================
