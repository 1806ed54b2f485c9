-------------------------- MODULE WorkloadRegistry --------------------------
(* workload_registry.py and the part of main.py and log_monitor.py that hang  *)
(* on it: the discovery loop reads three documents from the anax agent, one   *)
(* after the other, merges them, and for each workload that changes state     *)
(* attaches or detaches the tailing of its logs. All of that happens under    *)
(* the registry's lock, after the last of the three answers.                  *)
EXTENDS Integers, FiniteSets

CONSTANTS
    Workloads, Paths,
    Deployments,    \* deployment strings in use: sets of containers, or Garbled
    Garbled,        \* a deployment string that is no JSON
    NoDeployment,   \* the source lists the workload without a deployment
    NotListed,      \* the workload does not appear in this source
    MaxChanges,     \* bound: changes of the node's workloads, files and consent
    MaxFailures     \* bound: polls that find the agent unreachable

(* What one container's environment says: MONITORING_ENABLED, the log paths,  *)
(* and whether its lists can be parsed.                                       *)
Container == [enabled: {"absent", "true", "false"}, paths: SUBSET Paths, parses: BOOLEAN]

ASSUME RegistryAssumption ==
    /\ {MaxChanges, MaxFailures} \subseteq Nat
    /\ Deployments \subseteq (SUBSET Container) \cup {Garbled}
    /\ NotListed # NoDeployment
    /\ {NotListed, NoDeployment} \cap (Deployments \cup {Garbled}) = {}

VARIABLES
    agreement,      \* the node: which workloads have an active agreement
    definition,     \* the node: deployment in GET /service, or NotListed
    config,         \* the node: deployment in GET /service/config 
    present,        \* the node: log files that exist and can be read
    pollPc,         \* where the discovery loop stands
    got,            \* the documents read so far in this poll
    registry,       \* _workloads
    watched,        \* LogMonitor._files: workload -> paths
    consented,      \* history: the paths a workload ever opted in for
    changes, failures

node == <<agreement, definition, config, present, changes, consented>>
vars == <<node, pollPc, got, registry, watched, failures>>

Listings == Deployments \cup {NoDeployment, NotListed}
States == {"unknown", "registered", "running", "stopped", "removed"}

-----------------------------------------------------------------------------
(* MonitoringConfig.from_deployment: one container opts the workload in; the  *)
(* paths of all are joined; one list that cannot be parsed opts it out again. *)
OptedOut == [enabled |-> FALSE, paths |-> {}]

(* Mutant of FromDeployment: any value of MONITORING_ENABLED opts in.         *)
FromDeploymentTruthy(d) ==
    IF /\ d \notin {Garbled, NoDeployment}
       /\ \E c \in d : c.enabled # "absent"
       /\ \A c \in d : c.parses
      THEN [enabled |-> TRUE, paths |-> UNION {c.paths : c \in d}]
      ELSE OptedOut

FromDeployment(d) ==
    IF /\ d \notin {Garbled, NoDeployment}
       /\ \E c \in d : c.enabled = "true"
       /\ \A c \in d : c.parses
      THEN [enabled |-> TRUE, paths |-> UNION {c.paths : c \in d}]
      ELSE OptedOut

(* _merge_sources: a config that brings a deployment of its own wins over the *)
(* service definition's, even a garbled one; an agreement brings none.        *)
Deployment(cfg, def) == IF cfg \notin {NotListed, NoDeployment} THEN cfg
                        ELSE IF def # NotListed THEN def ELSE NoDeployment

Listed(docs) == {w \in Workloads : \/ docs.agreement[w]
                                   \/ docs.definition[w] # NotListed
                                   \/ docs.config[w] # NotListed}

Monitorable(entry) == /\ entry.monitoring.enabled
                      /\ entry.state = "running"
                      /\ entry.monitoring.paths # {}

(* Mutant of Upserted: a workload that has stopped stays stopped.             *)
UpsertedStopped(docs, w) ==
    LET old == registry[w]
        read == FromDeployment(Deployment(docs.config[w], docs.definition[w]))
        state == IF docs.agreement[w] THEN "running"
                 ELSE IF old.state \in {"running", "stopped"} THEN "stopped" ELSE "registered"
    IN  IF w \in Listed(docs) THEN [state |-> state, monitoring |-> read]
        ELSE IF old.state = "unknown" THEN old
        ELSE [old EXCEPT !.state = "removed"]

(* _upsert, and the removal of what anax no longer reports.                   *)
Upserted(docs, w) ==
    LET old == registry[w]
        read == FromDeployment(Deployment(docs.config[w], docs.definition[w]))
        state == IF docs.agreement[w] THEN "running"
                 ELSE IF old.state = "running" THEN "stopped" ELSE "registered"
    IN  IF w \in Listed(docs) THEN [state |-> state, monitoring |-> read]
        ELSE IF old.state = "unknown" THEN old
        ELSE [old EXCEPT !.state = "removed"]

(* Mutants of Callback: only stopping detaches the logs, or only removal.     *)
CallbackOnStop(w, new) ==
    IF new.state = registry[w].state THEN watched[w]
    ELSE IF Monitorable(new) THEN watched[w] \cup (new.monitoring.paths \cap present)
    ELSE IF new.state = "stopped" THEN {}
    ELSE watched[w]

CallbackOnRemoval(w, new) ==
    IF new.state = registry[w].state THEN watched[w]
    ELSE IF Monitorable(new) THEN watched[w] \cup (new.monitoring.paths \cap present)
    ELSE IF new.state = "removed" THEN {}
    ELSE watched[w]

(* main._on_workload_change, called for a new workload and for every change   *)
(* of state: watch_workload adds the paths it can open, unwatch_workload      *)
(* drops them all.                                                            *)
Callback(w, new) ==
    IF new.state = registry[w].state THEN watched[w]
    ELSE IF Monitorable(new) THEN watched[w] \cup (new.monitoring.paths \cap present)
    ELSE IF registry[w].state = "running" THEN {}
    ELSE watched[w]

NoDocs == [agreement |-> [w \in Workloads |-> FALSE],
           definition |-> [w \in Workloads |-> NotListed],
           config |-> [w \in Workloads |-> NotListed]]

Init ==
    /\ agreement = NoDocs.agreement /\ definition = NoDocs.definition
    /\ config = NoDocs.config /\ present = {}
    /\ pollPc = "configs" /\ got = NoDocs
    /\ registry = [w \in Workloads |-> [state |-> "unknown", monitoring |-> OptedOut]]
    /\ watched = [w \in Workloads |-> {}]
    /\ consented = [w \in Workloads |-> {}]
    /\ changes = 0 /\ failures = 0

-----------------------------------------------------------------------------
(* poll_once()                                                                *)

ReadConfigs ==
    /\ pollPc = "configs"
    /\ got' = [got EXCEPT !.config = config]
    /\ pollPc' = "agreements"
    /\ UNCHANGED <<node, registry, watched, failures>>

ReadAgreements ==
    /\ pollPc = "agreements"
    /\ got' = [got EXCEPT !.agreement = agreement]
    /\ pollPc' = "definitions"
    /\ UNCHANGED <<node, registry, watched, failures>>

ReadDefinitions ==
    /\ pollPc = "definitions"
    /\ got' = [got EXCEPT !.definition = definition]
    /\ pollPc' = "apply"
    /\ UNCHANGED <<node, registry, watched, failures>>

(* AnaxError, after the client's own retries: the registry stays as it is.    *)
Unreachable ==
    /\ pollPc \in {"configs", "agreements", "definitions"}
    /\ failures < MaxFailures
    /\ failures' = failures + 1
    /\ got' = NoDocs
    /\ pollPc' = "wait"
    /\ UNCHANGED <<node, registry, watched>>

Apply ==
    /\ pollPc = "apply"
    /\ registry' = [w \in Workloads |-> Upserted(got, w)]
    /\ watched' = [w \in Workloads |-> Callback(w, Upserted(got, w))]
    /\ got' = NoDocs
    /\ pollPc' = "wait"
    /\ UNCHANGED <<node, failures>>

NextInterval ==
    /\ pollPc = "wait"
    /\ pollPc' = "configs"
    /\ UNCHANGED <<node, got, registry, watched, failures>>

PollStep == ReadConfigs \/ ReadAgreements \/ ReadDefinitions \/ Apply \/ NextInterval

-----------------------------------------------------------------------------
(* The node: agreements come and go, services are (re)published with or       *)
(* without consent, log files appear and vanish.                              *)

Change == changes < MaxChanges /\ changes' = changes + 1

(* What w has opted in for, by either source, as the node has it now.         *)
OptsInFor(d) == IF d \in {Garbled, NoDeployment, NotListed} THEN {}
                ELSE UNION {c.paths : c \in {k \in d : \E j \in d : j.enabled = "true"}}

Published(w, d) == consented' = [consented EXCEPT ![w] = @ \cup OptsInFor(d)]

AgreementChanges(w) ==
    /\ Change
    /\ agreement' = [agreement EXCEPT ![w] = ~@]
    /\ UNCHANGED <<definition, config, present, consented, pollPc, got, registry,
                   watched, failures>>

DefinitionChanges(w, d) ==
    /\ Change /\ definition[w] # d
    /\ definition' = [definition EXCEPT ![w] = d]
    /\ Published(w, d)
    /\ UNCHANGED <<agreement, config, present, pollPc, got, registry, watched, failures>>

ConfigChanges(w, d) ==
    /\ Change /\ config[w] # d
    /\ config' = [config EXCEPT ![w] = d]
    /\ Published(w, d)
    /\ UNCHANGED <<agreement, definition, present, pollPc, got, registry, watched, failures>>

FilesChange(p) ==
    /\ Change
    /\ present' = IF p \in present THEN present \ {p} ELSE present \cup {p}
    /\ UNCHANGED <<agreement, definition, config, consented, pollPc, got, registry,
                   watched, failures>>

Next ==
    \/ PollStep
    \/ Unreachable
    \/ \E w \in Workloads :
          \/ AgreementChanges(w)
          \/ \E d \in Listings :
                DefinitionChanges(w, d) \/ ConfigChanges(w, d)
    \/ \E p \in Paths : FilesChange(p)

Spec == Init /\ [][Next]_vars

(* The discovery thread runs, one poll after the other.                       *)
FairSpec == Spec /\ WF_vars(PollStep)

-----------------------------------------------------------------------------
(* Properties                                                                 *)

TypeOK ==
    /\ agreement \in [Workloads -> BOOLEAN]
    /\ definition \in [Workloads -> Listings]
    /\ config \in [Workloads -> Listings]
    /\ present \subseteq Paths
    /\ pollPc \in {"configs", "agreements", "definitions", "apply", "wait"}
    /\ registry \in [Workloads -> [state: States,
                                   monitoring: [enabled: BOOLEAN, paths: SUBSET Paths]]]
    /\ watched \in [Workloads -> SUBSET Paths]
    /\ consented \in [Workloads -> SUBSET Paths]

(* Logs are tailed only for a workload the registry has as running, through   *)
(* every order of stopping, vanishing, reappearing and losing consent,        *)
(* although stopping and vanishing must each remember to detach them.         *)
WatchedOnlyRunning ==
    \A w \in Workloads : watched[w] # {} => registry[w].state = "running"

(* No path is ever tailed that its workload did not at some time opt in for,  *)
(* whatever the three documents said and however they changed in between.     *)
WatchedWasConsented == \A w \in Workloads : watched[w] \subseteq consented[w]

(* The registry catches up: once the node stops changing, every workload ends *)
(* up in the state the node says, although STOPPED is only passed through     *)
(* and the documents of one poll may belong to different moments.             *)
Truth(w) == IF agreement[w] THEN {"running"}
            ELSE IF definition[w] # NotListed \/ config[w] # NotListed THEN {"registered"}
            ELSE {"unknown", "removed"}

RegistryCatchesUp == <>[](\A w \in Workloads : registry[w].state \in Truth(w))

(* A workload without an agreement is let go of, or gets one again.           *)
StoppedIsUnwatched ==
    \A w \in Workloads : ~agreement[w] ~> (watched[w] = {} \/ agreement[w])

(* Stated by openspec/specs/log-monitoring/spec.md:14: only workloads that    *)
(* have enabled monitoring are monitored.                                     *)
WatchedOnlyWithConsent ==
    \A w \in Workloads : watched[w] # {} => registry[w].monitoring.enabled
=============================================================================
