---------------------------- MODULE MCPipeline -----------------------------
(* Two scenarios in one run. "one": one signature, which arrives three times. *)
(* "three": three signatures of different priorities compete for a queue of   *)
(* two, the least urgent one arrives twice, nobody stops the service, and a   *)
(* result on its way into its file is not overtaken by other steps.           *)
EXTENDS Pipeline

CONSTANTS oom, refused, disk

Urgency == [s \in {oom, refused, disk} |->
              CASE s = oom -> 4 [] s = refused -> 3 [] s = disk -> 2]
UrgencyInUse == [s \in Sigs |-> Urgency[s]]

Arrivals == [s \in Sigs |-> CASE s = oom -> 3 [] s = refused -> 1 [] s = disk -> 2]

VARIABLE scenario

MCInit == PipelineInit /\ scenario \in {"one", "three"}

InScenario ==
    CASE scenario = "one" -> arrivals'[refused] = 0 /\ arrivals'[disk] = 0
      [] scenario = "three" -> /\ arrivals'[oom] <= 1 /\ clock' <= 1 /\ ~stopRequested'
                               /\ Quiet \/ \E t \in {worker, monitor} : Emission(t)

MCNext == PipelineNext /\ InScenario /\ UNCHANGED scenario

MCFairSpec ==
    /\ MCInit /\ [][MCNext]_<<allVars, scenario>>
    /\ WF_allVars(Emission(worker))
    /\ WF_allVars(Emission(monitor))
    /\ WF_allVars(WorkerOwnStep /\ UNCHANGED genVars)
    /\ WF_allVars(Signal /\ UNCHANGED genVars)
=============================================================================
