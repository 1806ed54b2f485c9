----------------------- MODULE WorkloadRegistryProofs -----------------------
(* Theorems about WorkloadRegistry, for every set of workloads and paths and  *)
(* every deployment they may be published with.                               *)
EXTENDS WorkloadRegistry, TLAPS

Docs == [agreement: [Workloads -> BOOLEAN], definition: [Workloads -> Listings],
         config: [Workloads -> Listings]]

(* Whatever document is read, now or earlier in the poll, its opt-ins have    *)
(* entered the record of consent.                                             *)
OptInsRecorded ==
    \A w \in Workloads :
        /\ OptsInFor(definition[w]) \cup OptsInFor(config[w]) \subseteq consented[w]
        /\ OptsInFor(got.definition[w]) \cup OptsInFor(got.config[w]) \subseteq consented[w]

TypeInv == TypeOK /\ got \in Docs
RunningInv == TypeInv /\ WatchedOnlyRunning
ConsentInv == TypeInv /\ OptInsRecorded /\ WatchedWasConsented

-----------------------------------------------------------------------------
(* What a deployment string is read as.                                       *)

LEMMA DeploymentListed ==
    ASSUME NEW cfg \in Listings, NEW def \in Listings
    PROVE  Deployment(cfg, def) \in Deployments \cup {NoDeployment}
BY DEF Deployment, Listings

(* A workload is read as one that opts in only for paths its own deployment   *)
(* opts in for.                                                               *)
LEMMA ReadMonitoring ==
    ASSUME NEW d \in Deployments \cup {NoDeployment}
    PROVE  /\ FromDeployment(d) \in [enabled: BOOLEAN, paths: SUBSET Paths]
           /\ FromDeployment(d).paths \subseteq OptsInFor(d)
<1>1. CASE d \in {Garbled, NoDeployment}
  BY <1>1 DEF FromDeployment, OptedOut
<1>2. CASE d \notin {Garbled, NoDeployment}
  <2>1. d \in SUBSET Container /\ d # NotListed
    BY <1>2, RegistryAssumption
  <2>2. UNION {c.paths : c \in d} \subseteq Paths
    BY <2>1 DEF Container
  <2>3. (\E c \in d : c.enabled = "true") => OptsInFor(d) = UNION {c.paths : c \in d}
    BY <1>2, <2>1 DEF OptsInFor
  <2> QED
    BY <2>2, <2>3 DEF FromDeployment, OptedOut
<1> QED
  BY <1>1, <1>2

LEMMA DeploymentConsent ==
    ASSUME NEW cfg \in Listings, NEW def \in Listings
    PROVE  FromDeployment(Deployment(cfg, def)).paths
               \subseteq OptsInFor(cfg) \cup OptsInFor(def)
<1>1. FromDeployment(Deployment(cfg, def)).paths \subseteq OptsInFor(Deployment(cfg, def))
  BY DeploymentListed, ReadMonitoring
<1>2. OptsInFor(Deployment(cfg, def)) \subseteq OptsInFor(cfg) \cup OptsInFor(def)
  BY DEF Deployment, OptsInFor
<1> QED
  BY <1>1, <1>2

(* What _upsert makes of the workloads.                                       *)
LEMMA UpsertedEntry ==
    ASSUME TypeInv, NEW w \in Workloads
    PROVE  /\ Upserted(got, w) \in [state: States,
                                    monitoring: [enabled: BOOLEAN, paths: SUBSET Paths]]
           /\ Upserted(got, w).state = "running" =>
                 Upserted(got, w).monitoring.paths
                     \subseteq OptsInFor(got.config[w]) \cup OptsInFor(got.definition[w])
<1> DEFINE old == registry[w]
           read == FromDeployment(Deployment(got.config[w], got.definition[w]))
<1>1. old \in [state: States, monitoring: [enabled: BOOLEAN, paths: SUBSET Paths]]
  BY DEF TypeInv, TypeOK
<1>2. got.config[w] \in Listings /\ got.definition[w] \in Listings
  BY DEF TypeInv, Docs
<1>3. read \in [enabled: BOOLEAN, paths: SUBSET Paths]
  BY <1>2, DeploymentListed, ReadMonitoring
<1>4. read.paths \subseteq OptsInFor(got.config[w]) \cup OptsInFor(got.definition[w])
  BY <1>2, DeploymentConsent
<1> HIDE DEF read
<1>5. CASE w \in Listed(got)
  <2> DEFINE state == IF got.agreement[w] THEN "running"
                      ELSE IF old.state = "running" THEN "stopped" ELSE "registered"
  <2>1. Upserted(got, w) = [state |-> state, monitoring |-> read]
    BY <1>5 DEF Upserted, read
  <2>2. state \in States
    BY DEF States
  <2> QED
    BY <1>3, <1>4, <2>1, <2>2
<1>6. CASE w \notin Listed(got)
  <2>1. \/ old.state = "unknown" /\ Upserted(got, w) = old
        \/ Upserted(got, w) = [old EXCEPT !.state = "removed"]
    BY <1>6 DEF Upserted
  <2> QED
    BY <1>1, <2>1 DEF States
<1> QED
  BY <1>5, <1>6

-----------------------------------------------------------------------------
(* Types                                                                      *)

LEMMA InitTypeInv == ASSUME Init PROVE TypeInv
<1>1. NoDocs \in Docs
  BY DEF NoDocs, Docs, Listings
<1>2. TypeOK
  BY <1>1 DEF Init, TypeOK, Docs, States, OptedOut
<1> QED
  BY <1>1, <1>2 DEF TypeInv, Init

LEMMA NextTypeInv == ASSUME TypeInv, [Next]_vars PROVE TypeInv'
<1> USE DEF TypeInv
<1>1. NoDocs \in Docs
  BY DEF NoDocs, Docs, Listings
<1>2. CASE ReadConfigs
  BY <1>2 DEF ReadConfigs, TypeOK, Docs, node
<1>3. CASE ReadAgreements
  BY <1>3 DEF ReadAgreements, TypeOK, Docs, node
<1>4. CASE ReadDefinitions
  BY <1>4 DEF ReadDefinitions, TypeOK, Docs, node
<1>5. CASE Unreachable
  BY <1>1, <1>5 DEF Unreachable, TypeOK, node
<1>6. CASE Apply
  <2>1. registry' \in [Workloads -> [state: States,
                                     monitoring: [enabled: BOOLEAN, paths: SUBSET Paths]]]
    BY <1>6, UpsertedEntry DEF Apply
  <2>2. \A w \in Workloads : Callback(w, Upserted(got, w)) \subseteq Paths
    BY UpsertedEntry DEF Callback, TypeOK
  <2>3. watched' \in [Workloads -> SUBSET Paths]
    BY <1>6, <2>2 DEF Apply
  <2> QED
    BY <1>1, <1>6, <2>1, <2>3 DEF Apply, TypeOK, node
<1>7. CASE NextInterval
  BY <1>7 DEF NextInterval, TypeOK, node
<1>8. ASSUME NEW w \in Workloads, AgreementChanges(w) PROVE TypeInv'
  BY <1>8 DEF AgreementChanges, TypeOK
<1>9. \A d \in Listings : OptsInFor(d) \subseteq Paths
  BY RegistryAssumption DEF Listings, OptsInFor, Container
<1>10. ASSUME NEW w \in Workloads, NEW d \in Listings, DefinitionChanges(w, d) PROVE TypeInv'
  <2>1. consented' \in [Workloads -> SUBSET Paths]
    BY <1>9, <1>10 DEF DefinitionChanges, Published, TypeOK
  <2> QED
    BY <1>10, <2>1 DEF DefinitionChanges, TypeOK
<1>11. ASSUME NEW w \in Workloads, NEW d \in Listings, ConfigChanges(w, d) PROVE TypeInv'
  <2>1. consented' \in [Workloads -> SUBSET Paths]
    BY <1>9, <1>11 DEF ConfigChanges, Published, TypeOK
  <2> QED
    BY <1>11, <2>1 DEF ConfigChanges, TypeOK
<1>12. ASSUME NEW p \in Paths, FilesChange(p) PROVE TypeInv'
  BY <1>12 DEF FilesChange, TypeOK
<1>13. CASE UNCHANGED vars
  BY <1>13 DEF vars, node, TypeOK
<1> QED
  BY <1>2, <1>3, <1>4, <1>5, <1>6, <1>7, <1>8, <1>10, <1>11, <1>12, <1>13 DEF Next, PollStep

(* The types of the registry's variables hold, whatever the agent answers and *)
(* however the node changes between the three answers of a poll.              *)
THEOREM TypeCorrect == Spec => []TypeOK
<1>1. Spec => []TypeInv
  BY InitTypeInv, NextTypeInv, PTL DEF Spec
<1>2. TypeInv => TypeOK
  BY DEF TypeInv
<1> QED
  BY <1>1, <1>2, PTL

-----------------------------------------------------------------------------
(* Only running workloads                                                     *)

(* A poll that leaves a workload in another state than running leaves none of *)
(* its logs attached: either it was running and is let go of, or nothing was  *)
(* attached before.                                                           *)
LEMMA CallbackDetaches ==
    ASSUME RunningInv, NEW w \in Workloads, NEW new, new.state # "running"
    PROVE  Callback(w, new) = {}
BY DEF RunningInv, WatchedOnlyRunning, Callback, Monitorable

(* No other step touches what the registry has or what is tailed.             *)
LEMMA OthersLeaveTailing ==
    ASSUME [Next]_vars, ~Apply
    PROVE  UNCHANGED <<registry, watched>>
BY DEF Next, PollStep, vars, node, ReadConfigs, ReadAgreements, ReadDefinitions, Unreachable,
       NextInterval, AgreementChanges, DefinitionChanges, ConfigChanges, FilesChange

LEMMA NextRunningInv == ASSUME RunningInv, [Next]_vars PROVE RunningInv'
<1>1. TypeInv'
  BY NextTypeInv DEF RunningInv
<1>2. CASE Apply
  <2>1. \A w \in Workloads : /\ registry'[w] = Upserted(got, w)
                             /\ watched'[w] = Callback(w, Upserted(got, w))
    BY <1>2 DEF Apply
  <2> QED
    BY <1>1, <2>1, CallbackDetaches DEF RunningInv, WatchedOnlyRunning
<1>3. CASE ~Apply
  BY <1>1, <1>3, OthersLeaveTailing DEF RunningInv, WatchedOnlyRunning
<1> QED
  BY <1>2, <1>3

(* Logs are tailed only of workloads the registry has as running, in whatever *)
(* order a workload stops, vanishes, comes back or loses its consent.         *)
THEOREM OnlyRunningTailed == Spec => []WatchedOnlyRunning
<1>1. ASSUME Init PROVE RunningInv
  BY <1>1, InitTypeInv DEF Init, RunningInv, WatchedOnlyRunning
<1>2. Spec => []RunningInv
  BY <1>1, NextRunningInv, PTL DEF Spec
<1>3. RunningInv => WatchedOnlyRunning
  BY DEF RunningInv
<1> QED
  BY <1>2, <1>3, PTL

-----------------------------------------------------------------------------
(* Only with consent                                                          *)

LEMMA InitConsentInv == ASSUME Init PROVE ConsentInv
<1>1. OptsInFor(NotListed) = {}
  BY DEF OptsInFor
<1> QED
  BY <1>1, InitTypeInv DEF Init, NoDocs, ConsentInv, OptInsRecorded, WatchedWasConsented

(* Consent is never struck from the record, and a step that changes what a    *)
(* workload is published with records what it opts in for.                    *)
LEMMA ConsentGrows ==
    ASSUME TypeInv, [Next]_vars
    PROVE  /\ \A w \in Workloads : consented[w] \subseteq consented'[w]
           /\ \A w \in Workloads :
                 /\ definition'[w] = definition[w] \/ OptsInFor(definition'[w]) \subseteq consented'[w]
                 /\ config'[w] = config[w] \/ OptsInFor(config'[w]) \subseteq consented'[w]
<1> USE DEF TypeInv, TypeOK
<1>1. CASE PollStep \/ Unreachable \/ UNCHANGED vars
  BY <1>1 DEF PollStep, Unreachable, vars, node, ReadConfigs, ReadAgreements,
              ReadDefinitions, Apply, NextInterval
<1>2. ASSUME NEW w \in Workloads, AgreementChanges(w) PROVE UNCHANGED <<consented, definition, config>>
  BY <1>2 DEF AgreementChanges
<1>3. ASSUME NEW w \in Workloads, NEW d \in Listings, DefinitionChanges(w, d)
      PROVE  /\ definition' = [definition EXCEPT ![w] = d] /\ config' = config
             /\ consented' = [consented EXCEPT ![w] = @ \cup OptsInFor(d)]
  BY <1>3 DEF DefinitionChanges, Published
<1>4. ASSUME NEW w \in Workloads, NEW d \in Listings, ConfigChanges(w, d)
      PROVE  /\ config' = [config EXCEPT ![w] = d] /\ definition' = definition
             /\ consented' = [consented EXCEPT ![w] = @ \cup OptsInFor(d)]
  BY <1>4 DEF ConfigChanges, Published
<1>5. ASSUME NEW p \in Paths, FilesChange(p) PROVE UNCHANGED <<consented, definition, config>>
  BY <1>5 DEF FilesChange
<1> HIDE DEF TypeInv
<1> QED
  BY <1>1, <1>2, <1>3, <1>4, <1>5, SMTT(30) DEF Next, TypeInv

(* A document in hand was read from the node, in this step or before.         *)
LEMMA GotWasRead ==
    ASSUME TypeInv, [Next]_vars, NEW w \in Workloads
    PROVE  /\ got'.definition[w] \in {got.definition[w], definition[w], NotListed}
           /\ got'.config[w] \in {got.config[w], config[w], NotListed}
<1> USE DEF TypeInv, Docs
<1>1. CASE ReadConfigs
  BY <1>1 DEF ReadConfigs
<1>2. CASE ReadAgreements
  BY <1>2 DEF ReadAgreements
<1>3. CASE ReadDefinitions
  BY <1>3 DEF ReadDefinitions
<1>4. CASE Apply \/ Unreachable
  BY <1>4 DEF Apply, Unreachable, NoDocs
<1>5. CASE UNCHANGED got
  BY <1>5
<1> QED
  BY <1>1, <1>2, <1>3, <1>4, <1>5 DEF Next, PollStep, vars, NextInterval, AgreementChanges,
     DefinitionChanges, ConfigChanges, FilesChange

LEMMA NextConsentInv == ASSUME ConsentInv, [Next]_vars PROVE ConsentInv'
<1>1. TypeInv /\ TypeInv'
  BY NextTypeInv DEF ConsentInv
<1>2. OptsInFor(NotListed) = {}
  BY DEF OptsInFor
<1>3. OptInsRecorded'
  BY <1>1, <1>2, ConsentGrows, GotWasRead DEF ConsentInv, OptInsRecorded
<1>4. CASE Apply
  <2> SUFFICES ASSUME NEW w \in Workloads PROVE watched'[w] \subseteq consented'[w]
    BY <1>1, <1>3 DEF ConsentInv, WatchedWasConsented
  <2>1. watched'[w] = Callback(w, Upserted(got, w)) /\ consented' = consented
    BY <1>4 DEF Apply, node
  <2>2. \/ watched'[w] \subseteq watched[w]
        \/ /\ Upserted(got, w).state = "running"
           /\ watched'[w] \subseteq watched[w] \cup Upserted(got, w).monitoring.paths
    BY <2>1 DEF Callback, Monitorable
  <2> QED
    BY <1>1, <2>1, <2>2, UpsertedEntry DEF ConsentInv, OptInsRecorded, WatchedWasConsented
<1>5. CASE ~Apply
  BY <1>1, <1>3, <1>5, OthersLeaveTailing, ConsentGrows DEF ConsentInv, WatchedWasConsented
<1> QED
  BY <1>4, <1>5

(* No path is ever tailed that its workload did not at some time opt in for,  *)
(* although the three documents of a poll may be of different moments.        *)
THEOREM OnlyConsentedTailed == Spec => []WatchedWasConsented
<1>1. Spec => []ConsentInv
  BY InitConsentInv, NextConsentInv, PTL DEF Spec
<1>2. ConsentInv => WatchedWasConsented
  BY DEF ConsentInv
<1> QED
  BY <1>1, <1>2, PTL
=============================================================================
