------------------------ MODULE ErrorAnalyzerProofs ------------------------
(* Theorems about ErrorAnalyzer, for every set of signatures, every priority  *)
(* and every queue size, window and TTL.                                      *)
EXTENDS ErrorAnalyzer, FiniteSetTheorems, TLAPS

(* The recurrence window of a signature is a finite set, so that its size,    *)
(* which becomes an occurrence count, is a number.                            *)
SeenFinite == \A s \in Sigs : IsFiniteSet(seen[s])

TypeInv == TypeOK /\ SeenFinite

-----------------------------------------------------------------------------
(* What _RecurrenceTracker.record leaves is a finite set that holds at least  *)
(* the new arrival: the count it returns is never 0.                          *)
LEMMA RecordedCounts ==
    ASSUME TypeInv, NEW s \in Sigs, NEW id \in Nat
    PROVE  /\ Recorded(s, id) \in SUBSET [id: Nat, at: Nat]
           /\ IsFiniteSet(Recorded(s, id))
           /\ Cardinality(Recorded(s, id)) \in Nat \ {0}
<1> DEFINE old == {r \in seen[s] : clock - r.at <= RecurrenceWindow}
           new == [id |-> id, at |-> clock]
<1>1. /\ seen[s] \in SUBSET [id: Nat, at: Nat] /\ clock \in Nat
      /\ IsFiniteSet(seen[s])
  BY DEF TypeInv, TypeOK, SeenFinite
<1>2. IsFiniteSet(old)
  BY <1>1, FS_Subset
<1>3. IsFiniteSet(old \cup {new})
  BY <1>2, FS_AddElement
<1>4. Cardinality(old \cup {new}) \in Nat
  BY <1>3, FS_CardinalityType
<1>5. Cardinality(old \cup {new}) # 0
  BY <1>3, FS_EmptySet
<1>6. Recorded(s, id) = old \cup {new}
  BY DEF Recorded
<1>7. old \cup {new} \in SUBSET [id: Nat, at: Nat]
  BY <1>1
<1> QED
  BY <1>3, <1>4, <1>5, <1>6, <1>7

(* What every call of submit() does to the window keeps its type.             *)
LEMMA ArriveType ==
    ASSUME TypeInv, NEW s \in Sigs, Arrive(s)
    PROVE  /\ arrivals[s] + 1 \in Nat
           /\ arrivals' \in [Sigs -> Nat]
           /\ seen' \in [Sigs -> SUBSET [id: Nat, at: Nat]]
           /\ \A t \in Sigs : IsFiniteSet(seen'[t])
           /\ Cardinality(Recorded(s, arrivals[s] + 1)) \in Nat \ {0}
<1>1. arrivals \in [Sigs -> Nat] /\ arrivals[s] + 1 \in Nat
  BY DEF TypeInv, TypeOK
<1>2. /\ Recorded(s, arrivals[s] + 1) \in SUBSET [id: Nat, at: Nat]
      /\ IsFiniteSet(Recorded(s, arrivals[s] + 1))
      /\ Cardinality(Recorded(s, arrivals[s] + 1)) \in Nat \ {0}
  BY <1>1, RecordedCounts
<1>3. seen' = [seen EXCEPT ![s] = Recorded(s, arrivals[s] + 1)]
      /\ arrivals' = [arrivals EXCEPT ![s] = @ + 1]
  BY DEF Arrive
<1>4. seen \in [Sigs -> SUBSET [id: Nat, at: Nat]] /\ \A t \in Sigs : IsFiniteSet(seen[t])
  BY DEF TypeInv, TypeOK, SeenFinite
<1>5. seen' \in [Sigs -> SUBSET [id: Nat, at: Nat]]
  BY <1>2, <1>3, <1>4
<1>6. \A t \in Sigs : IsFiniteSet(seen'[t])
  BY <1>2, <1>3, <1>4
<1> QED
  BY <1>1, <1>2, <1>3, <1>5, <1>6

(* The item submit() queues is a well-formed item.                            *)
LEMMA NewItemType ==
    ASSUME TypeInv, NEW s \in Sigs, Arrive(s)
    PROVE  NewItem(s) \in Item
<1>1. arrivals[s] + 1 \in Nat /\ Cardinality(Recorded(s, arrivals[s] + 1)) \in Nat \ {0}
  BY ArriveType
<1>2. clock \in Nat /\ nextTicket \in Nat
  BY DEF TypeInv, TypeOK
<1> QED
  BY <1>1, <1>2 DEF NewItem, Item

-----------------------------------------------------------------------------
(* Type correctness                                                           *)

LEMMA InitTypeInv == ASSUME Init PROVE TypeInv
<1>1. IsFiniteSet({})
  BY FS_EmptySet
<1> QED
  BY <1>1 DEF Init, TypeInv, TypeOK, SeenFinite, NoTicket, NoEntry

LEMMA SubmitTypeInv ==
    ASSUME TypeInv, NEW s \in Sigs, Submit(s)
    PROVE  TypeInv'
<1> DEFINE id == arrivals[s] + 1
<1>a. Arrive(s)
  BY DEF Submit, SubmitAggregated, SubmitCached, SubmitQueued, SubmitShedding,
         SubmitDropped, SubmitNew
<1>b. /\ id \in Nat
      /\ arrivals' \in [Sigs -> Nat]
      /\ seen' \in [Sigs -> SUBSET [id: Nat, at: Nat]]
      /\ \A t \in Sigs : IsFiniteSet(seen'[t])
      /\ Cardinality(Recorded(s, id)) \in Nat \ {0}
  BY <1>a, ArriveType
<1>c. NewItem(s) \in Item
  BY <1>a, NewItemType
<1>d. SeenFinite'
  BY <1>b DEF SeenFinite
<1>1. CASE SubmitAggregated(s)
  <2> DEFINE grown(i) == [i EXCEPT !.occurrences = Cardinality(Recorded(s, id)),
                                   !.ids = @ \cup {id}]
  <2>1. \A i \in Item : grown(i) \in Item
    BY <1>b DEF Item
  <2>2. heap' = {IF i.ticket = pending[s] THEN grown(i) ELSE i : i \in heap}
    BY <1>1 DEF SubmitAggregated
  <2>3. heap' \in SUBSET Item
    BY <2>1, <2>2 DEF TypeInv, TypeOK
  <2> QED
    BY <1>1, <1>b, <1>d, <2>3
       DEF TypeInv, TypeOK, SubmitAggregated, monitorVars, workerVars, counterVars
<1>2. CASE SubmitCached(s)
  <2>1. hit' \in SUBSET Event
    BY <1>2, <1>b DEF SubmitCached, TypeInv, TypeOK, Event
  <2> QED
    BY <1>2, <1>b, <1>d, <2>1
       DEF TypeInv, TypeOK, SubmitCached, queueVars, workerVars, counterVars
<1>3. CASE SubmitQueued(s)
  <2>1. heap' \in SUBSET Item /\ pending' \in [Sigs -> Nat \cup {NoTicket}]
    BY <1>3, <1>c DEF TypeInv, TypeOK, SubmitQueued
  <2> QED
    BY <1>3, <1>b, <1>d, <2>1 DEF TypeInv, TypeOK, SubmitQueued, SubmitNew, workerVars, NoEntry
<1>4. CASE \E victim \in heap : SubmitShedding(s, victim)
  <2> PICK victim \in heap : SubmitShedding(s, victim)
    BY <1>4
  <2>1. victim \in Item
    BY DEF TypeInv, TypeOK
  <2>2. heap' \in SUBSET Item /\ pending' \in [Sigs -> Nat \cup {NoTicket}]
    BY <1>c, <2>1 DEF TypeInv, TypeOK, SubmitShedding, Item
  <2>3. lost' \in [Sigs -> SUBSET Nat]
    BY <2>1 DEF TypeInv, TypeOK, SubmitShedding, Item
  <2> QED
    BY <1>b, <1>d, <2>2, <2>3 DEF TypeInv, TypeOK, SubmitShedding, SubmitNew, workerVars, NoEntry
<1>5. CASE SubmitDropped(s)
  <2>1. lost' \in [Sigs -> SUBSET Nat]
    BY <1>5, <1>b DEF TypeInv, TypeOK, SubmitDropped
  <2> QED
    BY <1>5, <1>b, <1>d, <2>1 DEF TypeInv, TypeOK, SubmitDropped, SubmitNew, workerVars, NoEntry
<1> QED
  BY <1>1, <1>2, <1>3, <1>4, <1>5 DEF Submit

LEMMA MonitorTypeInv == ASSUME TypeInv, MonitorStep PROVE TypeInv'
<1>1. CASE EmitCached
  <2>1. reported' \in [Sigs -> SUBSET Nat]
    BY <1>1 DEF EmitCached, TypeInv, TypeOK, Event
  <2>2. tally' \in [Sigs -> Nat]
    BY <1>1 DEF EmitCached, TypeInv, TypeOK
  <2> QED
    BY <1>1, <2>1, <2>2
       DEF EmitCached, TypeInv, TypeOK, SeenFinite, queueVars, workerVars, counterVars
<1>2. CASE Signal
  BY <1>2 DEF Signal, TypeInv, TypeOK, SeenFinite, queueVars, workerVars, counterVars, historyVars
<1> QED
  BY <1>1, <1>2 DEF MonitorStep

LEMMA WorkerTypeInv == ASSUME TypeInv, WorkerStep PROVE TypeInv'
<1> USE DEF TypeInv, TypeOK, SeenFinite, queueVars, monitorVars, counterVars, historyVars
<1>1. CASE \E item \in heap : Take(item)
  <2> PICK item \in heap : Take(item)
    BY <1>1
  <2>1. item \in Item
    OBVIOUS
  <2>2. pending' \in [Sigs -> Nat \cup {NoTicket}]
    BY <2>1 DEF Take, Item
  <2> QED
    BY <2>1, <2>2 DEF Take
<1>2. CASE FindNothing
  BY <1>2 DEF FindNothing
<1>3. CASE InferenceSucceeds
  BY <1>3 DEF InferenceSucceeds
<1>4. CASE InferenceFails \/ InferenceRaises
  <2>1. \A i \in inHand : i.ids \in SUBSET Nat
    BY DEF Item
  <2>2. lost' \in [Sigs -> SUBSET Nat]
    BY <1>4, <2>1 DEF InferenceFails, InferenceRaises, Abandon
  <2> QED
    BY <1>4, <2>2 DEF InferenceFails, InferenceRaises, Abandon
<1>5. CASE StoreInCache
  <2>1. clock + CacheTTL \in Nat
    BY ConstantsAssumption
  <2>2. cache' \in [Sigs -> Nat \cup {NoEntry}]
    BY <1>5, <2>1 DEF StoreInCache
  <2> QED
    BY <1>5, <2>2 DEF StoreInCache
<1>6. CASE WakeUp
  BY <1>6 DEF WakeUp
<1>7. CASE WaitTimesOut
  BY <1>7 DEF WaitTimesOut
<1>8. CASE ClearEvent
  BY <1>8 DEF ClearEvent
<1>9. CASE LeaveLoop
  BY <1>9 DEF LeaveLoop
<1>10. CASE \E item \in inHand : EmitAnalysis(item)
  <2> PICK item \in inHand : EmitAnalysis(item)
    BY <1>10
  <2>1. item.sig \in Sigs /\ item.ids \in SUBSET Nat /\ item.occurrences \in Nat
    BY DEF Item
  <2>2. reported' \in [Sigs -> SUBSET Nat] /\ tally' \in [Sigs -> Nat]
    BY <2>1 DEF EmitAnalysis
  <2> QED
    BY <2>2 DEF EmitAnalysis
<1> QED
  BY <1>1, <1>2, <1>3, <1>4, <1>5, <1>6, <1>7, <1>8, <1>9, <1>10 DEF WorkerStep, WorkerOwnStep

LEMMA NextTypeInv == ASSUME TypeInv, [Next]_vars PROVE TypeInv'
<1>1. CASE \E s \in Sigs : Submit(s)
  BY <1>1, SubmitTypeInv
<1>2. CASE MonitorStep
  BY <1>2, MonitorTypeInv
<1>3. CASE WorkerStep
  BY <1>3, WorkerTypeInv
<1>4. CASE Stop
  BY <1>4 DEF Stop, TypeInv, TypeOK, SeenFinite, queueVars, monitorVars, workerVars,
              counterVars, historyVars
<1>5. CASE Tick
  BY <1>5 DEF Tick, TypeInv, TypeOK, SeenFinite, queueVars, monitorVars, workerVars,
              counterVars, historyVars
<1>6. CASE UNCHANGED vars
  BY <1>6 DEF vars, TypeInv, TypeOK, SeenFinite, queueVars, monitorVars, workerVars,
              counterVars, historyVars
<1> QED
  BY <1>1, <1>2, <1>3, <1>4, <1>5, <1>6 DEF Next

(* Every variable keeps its type. The part that is not evident: an item never *)
(* carries an occurrence count of 0.                                          *)
THEOREM TypeCorrect == Spec => []TypeOK
<1>1. Init => TypeInv
  BY InitTypeInv
<1>2. TypeInv /\ [Next]_vars => TypeInv'
  BY NextTypeInv
<1>3. TypeInv => TypeOK
  BY DEF TypeInv
<1> QED
  BY <1>1, <1>2, <1>3, PTL DEF Spec

-----------------------------------------------------------------------------
(* The queue and its table                                                    *)

(* Tickets are drawn in order, so that a new one is nobody's.                 *)
TicketsDrawn == \A i \in heap : i.ticket < nextTicket

HeapFinite == IsFiniteSet(heap)

QueueInv == TypeInv /\ QueueMirrorsPending /\ TicketsDrawn /\ HeapFinite /\ QueueBounded

(* Aggregation rewrites the items and keeps their tickets, so their number.   *)
LEMMA AggregationKeepsSize ==
    ASSUME HeapFinite, QueueMirrorsPending, heap \in SUBSET Item,
           NEW s \in Sigs, SubmitAggregated(s)
    PROVE  IsFiniteSet(heap') /\ Cardinality(heap') = Cardinality(heap)
<1> DEFINE grown(i) == IF i.ticket = pending[s]
                         THEN [i EXCEPT !.occurrences = Cardinality(Recorded(s, arrivals[s] + 1)),
                                        !.ids = @ \cup {arrivals[s] + 1}]
                         ELSE i
           f == [i \in heap |-> grown(i)]
<1>1. heap' = {grown(i) : i \in heap}
  BY DEF SubmitAggregated
<1>2. \A i \in heap : grown(i).ticket = i.ticket
  BY DEF Item
<1> HIDE DEF grown
<1>3. f \in Surjection(heap, heap')
  BY <1>1 DEF Surjection
<1>4. f \in Injection(heap, heap')
  <2>1. \A i, j \in heap : f[i] = f[j] => i = j
    BY <1>2 DEF QueueMirrorsPending
  <2> QED
    BY <1>3, <2>1 DEF Surjection, Injection, IsInjective
<1>5. IsFiniteSet(heap')
  BY <1>3, FS_Surjection DEF HeapFinite
<1> QED
  BY <1>3, <1>4, <1>5, FS_Injection

LEMMA SubmitQueueInv ==
    ASSUME QueueInv, NEW s \in Sigs, Submit(s)
    PROVE  QueueInv'
<1>a. TypeInv' /\ TypeInv
  BY SubmitTypeInv DEF QueueInv
<1>b. /\ heap \in SUBSET Item /\ nextTicket \in Nat /\ MaxQueueSize \in Nat
      /\ pending \in [Sigs -> Nat \cup {NoTicket}] /\ NoTicket \notin Nat
      /\ HeapFinite /\ Cardinality(heap) \in Nat
  BY <1>a, ConstantsAssumption, FS_CardinalityType, SMTT(30) DEF QueueInv, TypeInv, TypeOK, NoTicket, HeapFinite
<1>c. /\ \A t \in Sigs : pending[t] # NoTicket =>
             \E i \in heap : i.sig = t /\ i.ticket = pending[t]
      /\ \A i \in heap : pending[i.sig] = i.ticket
      /\ \A i, j \in heap : i.ticket = j.ticket => i = j
      /\ \A i \in heap : i.ticket < nextTicket
      /\ Cardinality(heap) <= MaxQueueSize
  BY DEF QueueInv, QueueMirrorsPending, TicketsDrawn, QueueBounded
<1>d. \A i \in heap : i.ticket \in Nat /\ i.sig \in Sigs
  BY <1>b DEF Item
<1> DEFINE new == NewItem(s)
<1>e. new.sig = s /\ new.ticket = nextTicket
  BY DEF NewItem
<1>1. CASE SubmitAggregated(s)
  <2> DEFINE grown(i) == IF i.ticket = pending[s]
                           THEN [i EXCEPT !.occurrences = Cardinality(Recorded(s, arrivals[s] + 1)),
                                          !.ids = @ \cup {arrivals[s] + 1}]
                           ELSE i
  <2>1. heap' = {grown(i) : i \in heap} /\ pending' = pending /\ nextTicket' = nextTicket
    BY <1>1 DEF SubmitAggregated
  <2>2. \A i \in heap : grown(i).sig = i.sig /\ grown(i).ticket = i.ticket
    BY <1>b DEF Item
  <2>3. IsFiniteSet(heap') /\ Cardinality(heap') = Cardinality(heap)
    BY <1>1, <1>b, AggregationKeepsSize DEF QueueInv
  <2>4. Cardinality(heap') \in Nat
    BY <2>3, FS_CardinalityType
  <2> HIDE DEF grown
  <2>5. QueueMirrorsPending' /\ TicketsDrawn'
    BY <1>c, <2>1, <2>2 DEF QueueMirrorsPending, TicketsDrawn
  <2> QED
    BY <1>a, <1>b, <1>c, <2>3, <2>4, <2>5 DEF QueueInv, HeapFinite, QueueBounded
<1>2. CASE SubmitCached(s) \/ SubmitDropped(s)
  <2>1. heap' = heap /\ pending' = pending /\ nextTicket' \in {nextTicket, nextTicket + 1}
    BY <1>2 DEF SubmitCached, SubmitDropped, SubmitNew, queueVars
  <2> QED
    BY <1>a, <1>b, <1>c, <1>d, <2>1
       DEF QueueInv, QueueMirrorsPending, TicketsDrawn, HeapFinite, QueueBounded
<1>3. CASE SubmitQueued(s)
  <2>1. /\ heap' = heap \cup {new} /\ pending' = [pending EXCEPT ![s] = nextTicket]
        /\ nextTicket' = nextTicket + 1 /\ pending[s] = NoTicket
        /\ Cardinality(heap) < MaxQueueSize
    BY <1>3 DEF SubmitQueued, SubmitNew
  <2>2. \A i \in heap : i.sig # s
    BY <1>b, <1>c, <1>d, <2>1
  <2> HIDE DEF new
  <2>3. QueueMirrorsPending'
    BY <1>b, <1>c, <1>d, <1>e, <2>1, <2>2 DEF QueueMirrorsPending
  <2>4. TicketsDrawn'
    BY <1>b, <1>c, <1>d, <1>e, <2>1 DEF TicketsDrawn
  <2>5. IsFiniteSet(heap') /\ Cardinality(heap') <= Cardinality(heap) + 1
    BY <1>b, <2>1, FS_AddElement DEF HeapFinite
  <2>6. Cardinality(heap') \in Nat
    BY <2>5, FS_CardinalityType
  <2>7. QueueBounded'
    BY <1>b, <2>1, <2>5, <2>6 DEF QueueBounded
  <2> QED
    BY <1>a, <2>3, <2>4, <2>5, <2>7 DEF QueueInv, HeapFinite
<1>4. CASE \E victim \in heap : SubmitShedding(s, victim)
  <2> PICK victim \in heap : SubmitShedding(s, victim)
    BY <1>4
  <2>1. /\ heap' = (heap \ {victim}) \cup {new}
        /\ pending' = [pending EXCEPT ![victim.sig] = NoTicket, ![s] = nextTicket]
        /\ nextTicket' = nextTicket + 1 /\ pending[s] = NoTicket
    BY DEF SubmitShedding, SubmitNew
  <2>2. \A i \in heap : i.sig # s
    BY <1>b, <1>c, <1>d, <2>1
  <2> HIDE DEF new
  <2>3. \A i \in heap \ {victim} : i.sig # victim.sig
    BY <1>c
  <2>4. QueueMirrorsPending'
    <3>1. \A t \in Sigs : pending'[t] = IF t = s THEN nextTicket
                                        ELSE IF t = victim.sig THEN NoTicket ELSE pending[t]
      BY <1>b, <1>d, <2>1, <2>2
    <3>2. \A t \in Sigs : pending'[t] # NoTicket =>
              \E i \in heap' : i.sig = t /\ i.ticket = pending'[t]
      BY <1>b, <1>c, <1>e, <2>1, <2>3, <3>1
    <3>3. \A i \in heap' : pending'[i.sig] = i.ticket
      BY <1>c, <1>d, <1>e, <2>1, <2>2, <2>3, <3>1
    <3>4. \A i, j \in heap' : i.ticket = j.ticket => i = j
      BY <1>b, <1>c, <1>d, <1>e, <2>1
    <3> QED
      BY <3>2, <3>3, <3>4 DEF QueueMirrorsPending
  <2>5. TicketsDrawn'
    BY <1>b, <1>c, <1>d, <1>e, <2>1 DEF TicketsDrawn
  <2>6. /\ IsFiniteSet(heap \ {victim})
        /\ Cardinality(heap \ {victim}) = Cardinality(heap) - 1
    BY <1>b, FS_RemoveElement DEF HeapFinite
  <2>7. /\ IsFiniteSet(heap')
        /\ Cardinality(heap') = IF new \in heap \ {victim} THEN Cardinality(heap) - 1
                                                           ELSE (Cardinality(heap) - 1) + 1
    BY <2>1, <2>6, FS_AddElement
  <2>8. QueueBounded'
    BY <1>b, <1>c, <2>7 DEF QueueBounded
  <2> QED
    BY <1>a, <2>4, <2>5, <2>7, <2>8 DEF QueueInv, HeapFinite
<1> QED
  BY <1>1, <1>2, <1>3, <1>4 DEF Submit

LEMMA TakeQueueInv ==
    ASSUME QueueInv, NEW item \in heap, Take(item)
    PROVE  QueueInv'
<1>a. TypeInv /\ TypeInv'
  BY WorkerTypeInv DEF QueueInv, WorkerStep, WorkerOwnStep
<1>b. /\ heap \in SUBSET Item /\ MaxQueueSize \in Nat
      /\ pending \in [Sigs -> Nat \cup {NoTicket}]
      /\ HeapFinite /\ Cardinality(heap) \in Nat
  BY <1>a, ConstantsAssumption, FS_CardinalityType DEF QueueInv, TypeInv, TypeOK, HeapFinite
<1>c. \A i \in heap : i.sig \in Sigs
  BY <1>b DEF Item
<1>1. /\ heap' = heap \ {item} /\ nextTicket' = nextTicket
      /\ pending' = [pending EXCEPT ![item.sig] = NoTicket]
  BY DEF Take
<1>2. /\ IsFiniteSet(heap') /\ Cardinality(heap') = Cardinality(heap) - 1
  BY <1>b, <1>1, FS_RemoveElement DEF HeapFinite
<1>3. \A i \in heap' : i.sig # item.sig
  BY <1>1 DEF QueueInv, QueueMirrorsPending
<1>4. QueueMirrorsPending'
  BY <1>b, <1>c, <1>1, <1>3 DEF QueueInv, QueueMirrorsPending
<1>5. TicketsDrawn'
  BY <1>1 DEF QueueInv, TicketsDrawn
<1>6. QueueBounded'
  BY <1>b, <1>2 DEF QueueInv, QueueBounded
<1> QED
  BY <1>a, <1>2, <1>4, <1>5, <1>6 DEF QueueInv, HeapFinite

LEMMA NextQueueInv == ASSUME QueueInv, [Next]_vars PROVE QueueInv'
<1>a. TypeInv'
  BY NextTypeInv DEF QueueInv
<1>1. CASE \E s \in Sigs : Submit(s)
  BY <1>1, SubmitQueueInv
<1>2. CASE \E item \in heap : Take(item)
  BY <1>2, TakeQueueInv
<1>3. CASE UNCHANGED queueVars
  BY <1>a, <1>3 DEF QueueInv, QueueMirrorsPending, TicketsDrawn, HeapFinite, QueueBounded, queueVars
<1>4. ASSUME ~(\E s \in Sigs : Submit(s)), ~(\E item \in heap : Take(item))
      PROVE  UNCHANGED queueVars
  BY <1>4 DEF Next, MonitorStep, EmitCached, Signal, WorkerStep, WorkerOwnStep, FindNothing,
          InferenceSucceeds, InferenceFails, InferenceRaises, Abandon, StoreInCache, EmitAnalysis, WakeUp,
          WaitTimesOut, ClearEvent, LeaveLoop, Stop, Tick, vars
<1> QED
  BY <1>1, <1>2, <1>3, <1>4

LEMMA InitQueueInv == ASSUME Init PROVE QueueInv
<1>1. IsFiniteSet({}) /\ Cardinality({}) = 0
  BY FS_EmptySet
<1>2. TypeInv
  BY InitTypeInv
<1> QED
  BY <1>1, <1>2, ConstantsAssumption
     DEF Init, QueueInv, QueueMirrorsPending, TicketsDrawn, HeapFinite, QueueBounded

LEMMA QueueInvHolds == Spec => []QueueInv
<1>1. Init => QueueInv
  BY InitQueueInv
<1>2. QueueInv /\ [Next]_vars => QueueInv'
  BY NextQueueInv
<1> QED
  BY <1>1, <1>2, PTL DEF Spec

(* The queue and _pending_signatures never disagree, whatever is aggregated,  *)
(* shed, dropped or taken: no occurrence is aggregated into an item that has  *)
(* left the queue.                                                            *)
THEOREM QueueAndTableAgree == Spec => []QueueMirrorsPending
<1>1. QueueInv => QueueMirrorsPending
  BY DEF QueueInv
<1> QED
  BY <1>1, QueueInvHolds, PTL

(* The queue never outgrows max_queue_size, for any positive size.            *)
THEOREM QueueNeverOverfull == Spec => []QueueBounded
<1>1. QueueInv => QueueBounded
  BY DEF QueueInv
<1> QED
  BY <1>1, QueueInvHolds, PTL

-----------------------------------------------------------------------------
(* Nothing disappears                                                         *)

(* Occurrence k of signature t is somewhere.                                  *)
Somewhere(t, k) == k \in Held(t) \cup reported[t] \cup lost[t]

LEMMA HeldMembers ==
    \A t, k : k \in Held(t) <=> \/ \E i \in heap \cup inHand : i.sig = t /\ k \in i.ids
                                \/ \E e \in hit : e.sig = t /\ k = e.id
<1> TAKE t, k
<1> DEFINE queued == UNION {i.ids : i \in {j \in heap \cup inHand : j.sig = t}}
           mine == {h \in hit : h.sig = t}
           cached == {e.id : e \in mine}
<1>1. k \in queued <=>
          \E i \in heap \cup inHand : i.sig = t /\ k \in i.ids
  OBVIOUS
<1>2. k \in cached <=> \E e \in hit : e.sig = t /\ k = e.id
  <2>1. \A e : e \in mine <=> e \in hit /\ e.sig = t
    OBVIOUS
  <2> HIDE DEF mine
  <2>2. k \in {e.id : e \in mine} <=> \E e \in mine : k = e.id
    OBVIOUS
  <2> QED
    BY <2>1, <2>2
<1>3. Held(t) = queued \cup cached
  BY DEF Held
<1> HIDE DEF queued, cached
<1> QED
  BY <1>1, <1>2, <1>3

LEMMA HeldMembersNext ==
    \A t, k : k \in Held(t)' <=> \/ \E i \in heap' \cup inHand' : i.sig = t /\ k \in i.ids
                                 \/ \E e \in hit' : e.sig = t /\ k = e.id
<1> TAKE t, k
<1> DEFINE queued == UNION {i.ids : i \in {j \in heap' \cup inHand' : j.sig = t}}
           mine == {h \in hit' : h.sig = t}
           cached == {e.id : e \in mine}
<1>1. k \in queued <=>
          \E i \in heap' \cup inHand' : i.sig = t /\ k \in i.ids
  OBVIOUS
<1>2. k \in cached <=> \E e \in hit' : e.sig = t /\ k = e.id
  <2>1. \A e : e \in mine <=> e \in hit' /\ e.sig = t
    OBVIOUS
  <2> HIDE DEF mine
  <2>2. k \in {e.id : e \in mine} <=> \E e \in mine : k = e.id
    OBVIOUS
  <2> QED
    BY <2>1, <2>2
<1>3. Held(t)' = queued \cup cached
  BY DEF Held
<1> HIDE DEF queued, cached
<1> QED
  BY <1>1, <1>2, <1>3

(* The worker holds one item, and only while it works on it; the monitor one  *)
(* event, and only while it is being emitted.                                 *)
OneAtATime ==
    /\ \A i, j \in inHand : i = j
    /\ inHand # {} => workerPc \in {"infer", "store", "emit"}
    /\ hit # {} => monitorPc = "emit"

AccountInv == QueueInv /\ OneAtATime /\ NoErrorSwallowed

(* The two lemmas below say what a step does to the occurrences: submit()     *)
(* adds the one that arrived, every other step only moves some.               *)
LEMMA SubmitPlaces ==
    ASSUME AccountInv, NEW s \in Sigs, Submit(s)
    PROVE  \A t \in Sigs : \A k : Somewhere(t, k)' <=>
              Somewhere(t, k) \/ (t = s /\ k = arrivals[s] + 1)
<1> DEFINE id == arrivals[s] + 1
<1>a. /\ heap \in SUBSET Item /\ inHand \in SUBSET Item
      /\ reported \in [Sigs -> SUBSET Nat] /\ lost \in [Sigs -> SUBSET Nat]
      /\ OneAtATime /\ QueueMirrorsPending
  BY DEF AccountInv, QueueInv, TypeInv, TypeOK
<1> HIDE DEF id
<1>1. CASE SubmitAggregated(s)
  <2> DEFINE count == Cardinality(Recorded(s, id))
             grown(i) == IF i.ticket = pending[s]
                           THEN [i EXCEPT !.occurrences = count, !.ids = @ \cup {id}]
                           ELSE i
  <2>1. /\ heap' = {grown(i) : i \in heap} /\ pending[s] # NoTicket
        /\ UNCHANGED <<inHand, hit, reported, lost>>
    BY <1>1 DEF SubmitAggregated, workerVars, monitorVars, id
  <2> HIDE DEF count
  <2>2. PICK w \in heap : w.sig = s /\ w.ticket = pending[s]
    BY <1>a, <2>1 DEF QueueMirrorsPending
  <2>3. \A i \in heap : /\ grown(i).sig = i.sig
                        /\ grown(i).ids = IF i = w THEN i.ids \cup {id} ELSE i.ids
    BY <1>a, <2>2 DEF Item, QueueMirrorsPending
  <2> HIDE DEF grown
  <2>4. \A t \in Sigs : \A k : (\E i \in heap' : i.sig = t /\ k \in i.ids) <=>
            (\E i \in heap : i.sig = t /\ k \in i.ids) \/ (t = s /\ k = id)
    BY <2>1, <2>2, <2>3
  <2>5. \A t \in Sigs : \A k : k \in Held(t)' <=> k \in Held(t) \/ (t = s /\ k = id)
    <3>1. \A t \in Sigs : \A k : (\E i \in heap' \cup inHand' : i.sig = t /\ k \in i.ids) <=>
              (\E i \in heap \cup inHand : i.sig = t /\ k \in i.ids) \/ (t = s /\ k = id)
      BY <2>1, <2>4
    <3>2. hit' = hit
      BY <2>1
    <3> QED
      BY <3>1, <3>2, HeldMembers, HeldMembersNext
  <2> QED
    BY <2>1, <2>5 DEF Somewhere, id
<1>2. CASE SubmitCached(s)
  <2>1. UNCHANGED <<heap, inHand, reported, lost>> /\ monitorPc = "idle"
    BY <1>2 DEF SubmitCached, Arrive, queueVars, workerVars
  <2> DEFINE event == [sig |-> s, id |-> id, at |-> clock]
  <2>2. hit = {} /\ hit' = {event} /\ event.sig = s /\ event.id = id
    BY <1>2, <1>a, <2>1 DEF SubmitCached, OneAtATime, id
  <2> HIDE DEF event
  <2>3. \A t \in Sigs : \A k : k \in Held(t)' <=> k \in Held(t) \/ (t = s /\ k = id)
    BY <2>1, <2>2, HeldMembers, HeldMembersNext
  <2> QED
    BY <2>1, <2>3 DEF Somewhere, id
<1>n. NewItem(s).sig = s /\ NewItem(s).ids = {id}
  BY DEF NewItem, id
<1>3. CASE SubmitQueued(s)
  <2>1. heap' = heap \cup {NewItem(s)} /\ UNCHANGED <<inHand, hit, reported, lost>>
    BY <1>3 DEF SubmitQueued, SubmitNew, workerVars
  <2>2. \A t \in Sigs : \A k : k \in Held(t)' <=> k \in Held(t) \/ (t = s /\ k = id)
    BY <1>n, <2>1, HeldMembers, HeldMembersNext
  <2> QED
    BY <2>1, <2>2 DEF Somewhere, id
<1>4. CASE \E victim \in heap : SubmitShedding(s, victim)
  <2> PICK victim \in heap : SubmitShedding(s, victim)
    BY <1>4
  <2>1. /\ heap' = (heap \ {victim}) \cup {NewItem(s)}
        /\ lost' = [lost EXCEPT ![victim.sig] = @ \cup victim.ids]
        /\ UNCHANGED <<inHand, hit, reported>>
    BY DEF SubmitShedding, SubmitNew, workerVars
  <2>2. victim.sig \in Sigs
    BY <1>a DEF Item
  <2>3. \A t \in Sigs : \A k : k \in lost'[t] <=>
            k \in lost[t] \/ (t = victim.sig /\ k \in victim.ids)
    BY <1>a, <2>1, <2>2
  <2>4. \A t \in Sigs : \A k :
            k \in Held(t)' \/ (t = victim.sig /\ k \in victim.ids) <=>
            k \in Held(t) \/ (t = s /\ k = id)
    <3>1. \A t \in Sigs : \A k : k \in Held(t) \/ (t = s /\ k = id) =>
              k \in Held(t)' \/ (t = victim.sig /\ k \in victim.ids)
      BY <1>n, <2>1, HeldMembers, HeldMembersNext
    <3>2. \A t \in Sigs : \A k : k \in Held(t)' \/ (t = victim.sig /\ k \in victim.ids) =>
              k \in Held(t) \/ (t = s /\ k = id)
      BY <1>n, <2>1, HeldMembers, HeldMembersNext
    <3> QED
      BY <3>1, <3>2
  <2>5. \A t \in Sigs : reported'[t] = reported[t]
    BY <2>1
  <2> QED
    BY <2>3, <2>4, <2>5 DEF Somewhere, id
<1>5. CASE SubmitDropped(s)
  <2>1. /\ lost' = [lost EXCEPT ![s] = @ \cup {id}]
        /\ UNCHANGED <<heap, inHand, hit, reported>>
    BY <1>5 DEF SubmitDropped, SubmitNew, workerVars, id
  <2>2. \A t \in Sigs : \A k : k \in Held(t)' <=> k \in Held(t)
    BY <2>1, HeldMembers, HeldMembersNext
  <2> QED
    BY <1>a, <2>1, <2>2 DEF Somewhere, id
<1> QED
  BY <1>1, <1>2, <1>3, <1>4, <1>5 DEF Submit

LEMMA OtherStepsMove ==
    ASSUME AccountInv, MonitorStep \/ WorkerStep \/ Stop \/ Tick \/ UNCHANGED vars
    PROVE  \A t \in Sigs : \A k : Somewhere(t, k)' <=> Somewhere(t, k)
<1>a. /\ heap \in SUBSET Item /\ inHand \in SUBSET Item
      /\ reported \in [Sigs -> SUBSET Nat] /\ lost \in [Sigs -> SUBSET Nat]
      /\ OneAtATime
  BY DEF AccountInv, QueueInv, TypeInv, TypeOK
<1>1. CASE EmitCached
  <2>1. UNCHANGED <<heap, inHand, lost>> /\ hit' = {}
    BY <1>1 DEF EmitCached, queueVars, workerVars
  <2>2. \A t \in Sigs : \A k : k \in reported'[t] <=>
            k \in reported[t] \/ \E e \in hit : e.sig = t /\ k = e.id
    BY <1>1 DEF EmitCached
  <2> QED
    BY <2>1, <2>2, HeldMembers, HeldMembersNext DEF Somewhere
<1>2. CASE \E item \in heap : Take(item)
  <2> PICK item \in heap : Take(item)
    BY <1>2
  <2>1. /\ heap' = heap \ {item} /\ inHand' = {item}
        /\ UNCHANGED <<hit, reported, lost>> /\ inHand = {}
    BY <1>a DEF Take, monitorVars, historyVars, OneAtATime
  <2>2. \A t \in Sigs : \A k : k \in Held(t)' <=> k \in Held(t)
    BY <2>1, HeldMembers, HeldMembersNext
  <2> QED
    BY <2>1, <2>2 DEF Somewhere
<1>3. CASE InferenceFails \/ InferenceRaises
  <2>1. UNCHANGED <<heap, hit, reported>> /\ inHand' = {}
    BY <1>3 DEF InferenceFails, InferenceRaises, Abandon, queueVars, monitorVars
  <2>2. \A t \in Sigs : \A k : k \in lost'[t] <=>
            k \in lost[t] \/ \E i \in inHand : i.sig = t /\ k \in i.ids
    BY <1>3 DEF InferenceFails, InferenceRaises, Abandon
  <2> QED
    BY <2>1, <2>2, HeldMembers, HeldMembersNext DEF Somewhere
<1>4. CASE \E item \in inHand : EmitAnalysis(item)
  <2> PICK item \in inHand : EmitAnalysis(item)
    BY <1>4
  <2>1. UNCHANGED <<heap, hit, lost>> /\ inHand' = {} /\ inHand = {item}
    BY <1>a DEF EmitAnalysis, queueVars, monitorVars, OneAtATime
  <2>2. \A t \in Sigs : \A k : k \in reported'[t] <=>
            k \in reported[t] \/ (item.sig = t /\ k \in item.ids)
    BY <1>a DEF EmitAnalysis, Item
  <2> QED
    BY <2>1, <2>2, HeldMembers, HeldMembersNext DEF Somewhere
<1>5. CASE UNCHANGED <<heap, inHand, hit, reported, lost>>
  BY <1>5 DEF Somewhere, Held
<1>6. ASSUME ~EmitCached, ~(\E item \in heap : Take(item)), ~InferenceFails, ~InferenceRaises,
             ~(\E item \in inHand : EmitAnalysis(item))
      PROVE  UNCHANGED <<heap, inHand, hit, reported, lost>>
  BY <1>6 DEF MonitorStep, Signal, WorkerStep, WorkerOwnStep, FindNothing,
          InferenceSucceeds, StoreInCache, WakeUp, WaitTimesOut, ClearEvent, LeaveLoop,
          Stop, Tick, vars, queueVars, monitorVars, workerVars, counterVars, historyVars
<1> QED
  BY <1>1, <1>2, <1>3, <1>4, <1>5, <1>6

LEMMA NextOneAtATime == ASSUME OneAtATime, [Next]_vars PROVE OneAtATime'
<1> USE DEF OneAtATime
<1>1. CASE \E s \in Sigs : Submit(s)
  BY <1>1 DEF Submit, SubmitAggregated, SubmitCached, SubmitQueued, SubmitShedding,
         SubmitDropped, SubmitNew, Arrive, workerVars, monitorVars
<1>2. CASE MonitorStep
  BY <1>2 DEF MonitorStep, EmitCached, Signal, workerVars
<1>3. CASE WorkerStep
  BY <1>3 DEF WorkerStep, WorkerOwnStep, Take, FindNothing, InferenceSucceeds, InferenceFails, InferenceRaises, Abandon,
         StoreInCache, EmitAnalysis, WakeUp, WaitTimesOut, ClearEvent, LeaveLoop, monitorVars
<1>4. CASE Stop \/ Tick \/ UNCHANGED vars
  BY <1>4 DEF Stop, Tick, vars, workerVars, monitorVars
<1> QED
  BY <1>1, <1>2, <1>3, <1>4 DEF Next

LEMMA NextAccountInv == ASSUME AccountInv, [Next]_vars PROVE AccountInv'
<1>a. QueueInv' /\ OneAtATime'
  BY NextQueueInv, NextOneAtATime DEF AccountInv
<1>b. arrivals \in [Sigs -> Nat]
  BY DEF AccountInv, QueueInv, TypeInv, TypeOK
<1>c. \A t \in Sigs : \A k : Somewhere(t, k) <=> k \in 1 .. arrivals[t]
  BY DEF AccountInv, NoErrorSwallowed, Somewhere
<1>1. \A t \in Sigs : \A k : Somewhere(t, k)' <=> k \in 1 .. arrivals'[t]
  <2>1. CASE \E s \in Sigs : Submit(s)
    <3> PICK s \in Sigs : Submit(s)
      BY <2>1
    <3>1. arrivals' = [arrivals EXCEPT ![s] = @ + 1]
      BY DEF Submit, SubmitAggregated, SubmitCached, SubmitQueued, SubmitShedding,
             SubmitDropped, SubmitNew, Arrive
    <3>2. \A t \in Sigs : \A k : Somewhere(t, k)' <=>
              Somewhere(t, k) \/ (t = s /\ k = arrivals[s] + 1)
      BY SubmitPlaces
    <3>3. \A n \in Nat : \A k : k \in 1 .. (n + 1) <=> k \in 1 .. n \/ k = n + 1
      OBVIOUS
    <3> QED
      BY <1>b, <1>c, <3>1, <3>2, <3>3
  <2>2. CASE MonitorStep \/ WorkerStep \/ Stop \/ Tick \/ UNCHANGED vars
    <3>1. arrivals' = arrivals
      BY <2>2 DEF MonitorStep, EmitCached, Signal, WorkerStep, WorkerOwnStep, Take, FindNothing,
             InferenceSucceeds, InferenceFails, InferenceRaises, Abandon, StoreInCache, EmitAnalysis, WakeUp,
             WaitTimesOut, ClearEvent, LeaveLoop, Stop, Tick, vars, historyVars
    <3> QED
      BY <1>c, <2>2, <3>1, OtherStepsMove
  <2> QED
    BY <2>1, <2>2 DEF Next
<1>2. NoErrorSwallowed'
  BY <1>1 DEF NoErrorSwallowed, Somewhere
<1> QED
  BY <1>a, <1>2 DEF AccountInv

LEMMA InitAccountInv == ASSUME Init PROVE AccountInv
<1>1. QueueInv
  BY InitQueueInv
<1>2. OneAtATime /\ NoErrorSwallowed
  BY DEF Init, OneAtATime, NoErrorSwallowed, Held
<1> QED
  BY <1>1, <1>2 DEF AccountInv

(* No occurrence handed to submit() is swallowed: after any number of steps   *)
(* each is queued, in the worker's hands, being emitted from the cache,       *)
(* reported, or gone with an item one of the public counters counted.         *)
THEOREM NothingSwallowed == Spec => []NoErrorSwallowed
<1>1. Init => AccountInv
  BY InitAccountInv
<1>2. AccountInv /\ [Next]_vars => AccountInv'
  BY NextAccountInv
<1>3. AccountInv => NoErrorSwallowed
  BY DEF AccountInv
<1> QED
  BY <1>1, <1>2, <1>3, PTL DEF Spec

-----------------------------------------------------------------------------
(* The counters                                                               *)

CountInv == QueueInv /\ TicketsAccounted

LEMMA SubmitTickets ==
    ASSUME CountInv, NEW s \in Sigs, Submit(s)
    PROVE  TicketsAccounted'
<1>a. /\ heap \in SUBSET Item /\ nextTicket \in Nat /\ HeapFinite
      /\ Cardinality(heap) \in Nat
      /\ dropped \in Nat /\ analyzed \in Nat /\ failed \in Nat
      /\ QueueMirrorsPending /\ TicketsDrawn
  BY FS_CardinalityType DEF CountInv, QueueInv, TypeInv, TypeOK, HeapFinite
<1>b. Uncounted' = Uncounted /\ Uncounted \in Nat
  BY DEF Submit, SubmitAggregated, SubmitCached, SubmitQueued, SubmitShedding,
         SubmitDropped, SubmitNew, workerVars, Uncounted
<1>c. nextTicket = Cardinality(heap) + Uncounted + dropped + analyzed + failed
  BY DEF CountInv, TicketsAccounted
<1>d. NewItem(s) \notin heap
  BY <1>a DEF TicketsDrawn, NewItem, Item
<1> DEFINE new == NewItem(s)
<1>1. CASE SubmitAggregated(s)
  <2>1. Cardinality(heap') = Cardinality(heap)
    BY <1>1, <1>a, AggregationKeepsSize
  <2> QED
    BY <1>1, <1>b, <1>c, <2>1 DEF SubmitAggregated, counterVars, TicketsAccounted
<1>2. CASE SubmitCached(s)
  BY <1>2, <1>b, <1>c DEF SubmitCached, queueVars, counterVars, TicketsAccounted
<1>3. CASE SubmitQueued(s)
  <2>1. heap' = heap \cup {new}
    BY <1>3 DEF SubmitQueued
  <2> HIDE DEF new
  <2>2. Cardinality(heap') = Cardinality(heap) + 1
    BY <1>a, <1>d, <2>1, FS_AddElement DEF HeapFinite, new
  <2>3. nextTicket' = nextTicket + 1 /\ UNCHANGED <<dropped, analyzed, failed>>
    BY <1>3 DEF SubmitQueued, SubmitNew
  <2> QED
    BY <1>a, <1>b, <1>c, <2>2, <2>3 DEF TicketsAccounted
<1>4. CASE \E victim \in heap : SubmitShedding(s, victim)
  <2> PICK victim \in heap : SubmitShedding(s, victim)
    BY <1>4
  <2>1. heap' = (heap \ {victim}) \cup {new}
    BY DEF SubmitShedding
  <2> HIDE DEF new
  <2>2. /\ IsFiniteSet(heap \ {victim})
        /\ Cardinality(heap \ {victim}) = Cardinality(heap) - 1
    BY <1>a, FS_RemoveElement DEF HeapFinite
  <2>3. Cardinality(heap') = (Cardinality(heap) - 1) + 1
    BY <1>d, <2>1, <2>2, FS_AddElement DEF new
  <2>4. nextTicket' = nextTicket + 1 /\ dropped' = dropped + 1 /\ UNCHANGED <<analyzed, failed>>
    BY DEF SubmitShedding, SubmitNew
  <2> QED
    BY <1>a, <1>b, <1>c, <2>3, <2>4 DEF TicketsAccounted
<1>5. CASE SubmitDropped(s)
  <2>1. /\ nextTicket' = nextTicket + 1 /\ dropped' = dropped + 1
        /\ UNCHANGED <<heap, analyzed, failed>>
    BY <1>5 DEF SubmitDropped, SubmitNew
  <2> QED
    BY <1>a, <1>b, <1>c, <2>1 DEF TicketsAccounted
<1> QED
  BY <1>1, <1>2, <1>3, <1>4, <1>5 DEF Submit

LEMMA WorkerTickets ==
    ASSUME CountInv, WorkerStep
    PROVE  TicketsAccounted'
<1>a. /\ nextTicket \in Nat /\ HeapFinite /\ Cardinality(heap) \in Nat
      /\ dropped \in Nat /\ analyzed \in Nat /\ failed \in Nat
  BY FS_CardinalityType DEF CountInv, QueueInv, TypeInv, TypeOK, HeapFinite
<1>b. nextTicket = Cardinality(heap) + Uncounted + dropped + analyzed + failed
  BY DEF CountInv, TicketsAccounted
<1>1. CASE \E item \in heap : Take(item)
  <2> PICK item \in heap : Take(item)
    BY <1>1
  <2>1. Cardinality(heap') = Cardinality(heap) - 1
    BY <1>a, FS_RemoveElement DEF Take, HeapFinite
  <2>2. /\ Uncounted = 0 /\ Uncounted' = 1
        /\ UNCHANGED <<nextTicket, dropped, analyzed, failed>>
    BY DEF Take, Uncounted, counterVars
  <2> QED
    BY <1>a, <1>b, <2>1, <2>2 DEF TicketsAccounted
<1>2. CASE InferenceSucceeds \/ InferenceFails
  <2>1. /\ Uncounted = 1 /\ Uncounted' = 0 /\ UNCHANGED <<heap, nextTicket, dropped>>
        /\ \/ analyzed' = analyzed + 1 /\ failed' = failed
           \/ failed' = failed + 1 /\ analyzed' = analyzed
    BY <1>2 DEF InferenceSucceeds, InferenceFails, Abandon, Uncounted, queueVars
  <2> QED
    BY <1>a, <1>b, <2>1 DEF TicketsAccounted
<1>2a. CASE InferenceRaises
  BY <1>2a, <1>b DEF InferenceRaises, Abandon, Uncounted, queueVars, TicketsAccounted
<1>3. ASSUME ~(\E item \in heap : Take(item)), ~InferenceSucceeds, ~InferenceFails, ~InferenceRaises
      PROVE  UNCHANGED <<heap, nextTicket, dropped, analyzed, failed, Uncounted>>
  BY <1>3 DEF WorkerStep, WorkerOwnStep, FindNothing, StoreInCache, EmitAnalysis, WakeUp,
          WaitTimesOut, ClearEvent, LeaveLoop, Uncounted, queueVars, counterVars
<1> QED
  BY <1>1, <1>2, <1>2a, <1>3, <1>b DEF TicketsAccounted

(* The public counters never lose an item: every ticket ever drawn is queued, *)
(* in inference, or was counted once as dropped, analysed or failed.          *)
THEOREM CountersAddUp == Spec => []TicketsAccounted
<1>1. Init => TicketsAccounted
  <2>1. Cardinality({}) = 0
    BY FS_EmptySet
  <2> QED
    BY <2>1 DEF Init, TicketsAccounted, Uncounted
<1>2. QueueInv /\ TicketsAccounted /\ [Next]_vars => TicketsAccounted'
  <2> SUFFICES ASSUME CountInv, [Next]_vars PROVE TicketsAccounted'
    BY DEF CountInv
  <2>1. CASE \E s \in Sigs : Submit(s)
    BY <2>1, SubmitTickets
  <2>2. CASE WorkerStep
    BY <2>2, WorkerTickets
  <2>3. CASE MonitorStep \/ Stop \/ Tick \/ UNCHANGED vars
    <3>1. UNCHANGED <<heap, nextTicket, dropped, analyzed, failed, Uncounted>>
      BY <2>3 DEF MonitorStep, EmitCached, Signal, Stop, Tick, vars, queueVars, workerVars,
              counterVars, Uncounted
    <3> QED
      BY <3>1 DEF CountInv, TicketsAccounted
  <2> QED
    BY <2>1, <2>2, <2>3 DEF Next
<1> QED
  BY <1>1, <1>2, QueueInvHolds, PTL DEF Spec

-----------------------------------------------------------------------------
(* Nothing is in two places                                                   *)

(* What is held is held once: no occurrence belongs to a queued item and to   *)
(* the one in hand, or to an item and to a cache hit.                         *)
HeldApart ==
    /\ \A i \in heap, j \in inHand : i.sig = j.sig => i.ids \cap j.ids = {}
    /\ \A e \in hit, i \in heap \cup inHand : i.sig = e.sig => e.id \notin i.ids

(* What is settled is settled once, and held no longer.                       *)
SettledOnce ==
    \A s \in Sigs : \A k : /\ k \in Held(s) => k \notin reported[s] /\ k \notin lost[s]
                           /\ k \in reported[s] => k \notin lost[s]

OnceInv == AccountInv /\ HeldApart /\ SettledOnce

(* The occurrence that arrives is not in any place yet.                       *)
LEMMA NewcomerIsNowhere ==
    ASSUME OnceInv, NEW s \in Sigs
    PROVE  /\ ~Somewhere(s, arrivals[s] + 1)
           /\ \A i \in heap \cup inHand : i.sig = s => arrivals[s] + 1 \notin i.ids
           /\ \A e \in hit : e.sig = s => arrivals[s] + 1 # e.id
<1>1. arrivals[s] \in Nat
  BY DEF OnceInv, AccountInv, QueueInv, TypeInv, TypeOK
<1>2. \A n \in Nat : n + 1 \notin 1 .. n
  OBVIOUS
<1>3. \A k : Somewhere(s, k) <=> k \in 1 .. arrivals[s]
  BY DEF OnceInv, AccountInv, NoErrorSwallowed, Somewhere
<1>4. ~Somewhere(s, arrivals[s] + 1)
  BY <1>1, <1>2, <1>3
<1> QED
  BY <1>4, HeldMembers DEF Somewhere

LEMMA SubmitOnce ==
    ASSUME OnceInv, NEW s \in Sigs, Submit(s)
    PROVE  HeldApart' /\ SettledOnce'
<1> DEFINE id == arrivals[s] + 1
<1>a. /\ heap \in SUBSET Item /\ inHand \in SUBSET Item
      /\ reported \in [Sigs -> SUBSET Nat] /\ lost \in [Sigs -> SUBSET Nat]
      /\ OneAtATime /\ QueueMirrorsPending
  BY DEF OnceInv, AccountInv, QueueInv, TypeInv, TypeOK
<1>b. /\ id \notin Held(s) /\ id \notin reported[s] /\ id \notin lost[s]
      /\ \A i \in heap \cup inHand : i.sig = s => id \notin i.ids
      /\ \A e \in hit : e.sig = s => id # e.id
  BY NewcomerIsNowhere DEF Somewhere
<1> HIDE DEF id
<1>c. /\ \A i \in heap, j \in inHand : i.sig = j.sig => \A k : k \notin i.ids \/ k \notin j.ids
      /\ \A e \in hit, i \in heap \cup inHand : i.sig = e.sig => e.id \notin i.ids
  BY DEF OnceInv, HeldApart
<1>d. \A t \in Sigs : \A k : /\ k \in Held(t) => k \notin reported[t] /\ k \notin lost[t]
                             /\ k \in reported[t] => k \notin lost[t]
  BY DEF OnceInv, SettledOnce
<1>n. NewItem(s).sig = s /\ NewItem(s).ids = {id}
  BY DEF NewItem, id
<1>1. CASE SubmitAggregated(s)
  <2> DEFINE count == Cardinality(Recorded(s, id))
             grown(i) == IF i.ticket = pending[s]
                           THEN [i EXCEPT !.occurrences = count, !.ids = @ \cup {id}]
                           ELSE i
  <2>1. /\ heap' = {grown(i) : i \in heap} /\ pending[s] # NoTicket
        /\ UNCHANGED <<inHand, hit, reported, lost>>
    BY <1>1 DEF SubmitAggregated, workerVars, monitorVars, id
  <2> HIDE DEF count
  <2>2. PICK w \in heap : w.sig = s /\ w.ticket = pending[s]
    BY <1>a, <2>1 DEF QueueMirrorsPending
  <2>3. \A i \in heap : /\ grown(i).sig = i.sig
                        /\ grown(i).ids = IF i = w THEN i.ids \cup {id} ELSE i.ids
    BY <1>a, <2>2 DEF Item, QueueMirrorsPending
  <2> HIDE DEF grown
  <2>4. \A i \in heap' : \E j \in heap : /\ i.sig = j.sig
                                         /\ \A k : k \in i.ids => k \in j.ids \/ (j.sig = s /\ k = id)
    BY <2>1, <2>2, <2>3
  <2>5. HeldApart'
    BY <1>b, <1>c, <2>1, <2>4 DEF HeldApart
  <2>6. \A t \in Sigs : \A k : k \in Held(t)' => k \in Held(t) \/ (t = s /\ k = id)
    BY <2>1, <2>4, HeldMembers, HeldMembersNext
  <2>7. SettledOnce'
    BY <1>b, <1>d, <2>1, <2>6 DEF SettledOnce
  <2> QED
    BY <2>5, <2>7
<1>2. CASE SubmitCached(s)
  <2>1. UNCHANGED <<heap, inHand, reported, lost>> /\ monitorPc = "idle"
    BY <1>2 DEF SubmitCached, Arrive, queueVars, workerVars
  <2> DEFINE event == [sig |-> s, id |-> id, at |-> clock]
  <2>2. hit = {} /\ hit' = {event} /\ event.sig = s /\ event.id = id
    BY <1>2, <1>a, <2>1 DEF SubmitCached, OneAtATime, id
  <2> HIDE DEF event
  <2>3. HeldApart'
    BY <1>b, <1>c, <2>1, <2>2 DEF HeldApart
  <2>4. \A t \in Sigs : \A k : k \in Held(t)' => k \in Held(t) \/ (t = s /\ k = id)
    BY <2>1, <2>2, HeldMembers, HeldMembersNext
  <2>5. SettledOnce'
    BY <1>b, <1>d, <2>1, <2>4 DEF SettledOnce
  <2> QED
    BY <2>3, <2>5
<1>3. CASE SubmitQueued(s)
  <2>1. heap' = heap \cup {NewItem(s)} /\ UNCHANGED <<inHand, hit, reported, lost>>
    BY <1>3 DEF SubmitQueued, SubmitNew, workerVars
  <2>2. HeldApart'
    BY <1>b, <1>c, <1>n, <2>1 DEF HeldApart
  <2>3. \A t \in Sigs : \A k : k \in Held(t)' => k \in Held(t) \/ (t = s /\ k = id)
    BY <1>n, <2>1, HeldMembers, HeldMembersNext
  <2>4. SettledOnce'
    BY <1>b, <1>d, <2>1, <2>3 DEF SettledOnce
  <2> QED
    BY <2>2, <2>4
<1>4. CASE \E victim \in heap : SubmitShedding(s, victim)
  <2> PICK victim \in heap : SubmitShedding(s, victim)
    BY <1>4
  <2>1. /\ heap' = (heap \ {victim}) \cup {NewItem(s)}
        /\ lost' = [lost EXCEPT ![victim.sig] = @ \cup victim.ids]
        /\ UNCHANGED <<inHand, hit, reported>> /\ pending[s] = NoTicket
    BY DEF SubmitShedding, SubmitNew, workerVars
  <2>2. HeldApart'
    BY <1>b, <1>c, <1>n, <2>1 DEF HeldApart
  <2>3. victim.sig \in Sigs /\ victim.sig # s
    BY <1>a, <2>1 DEF Item, QueueMirrorsPending, NoTicket
  <2>4. \A i \in heap \ {victim} : i.sig # victim.sig
    BY <1>a DEF QueueMirrorsPending
  <2>5. \A t \in Sigs : \A k : k \in lost'[t] <=>
            k \in lost[t] \/ (t = victim.sig /\ k \in victim.ids)
    BY <1>a, <2>1, <2>3
  <2>6. \A t \in Sigs : \A k : k \in Held(t)' => k \in Held(t) \/ (t = s /\ k = id)
    BY <1>n, <2>1, HeldMembers, HeldMembersNext
  <2>7. \A k \in victim.ids : k \in Held(victim.sig) /\ k \notin Held(victim.sig)'
    <3>1. \A k \in victim.ids : k \in Held(victim.sig)
      BY HeldMembers
    <3>2. \A k \in victim.ids : \A i \in heap' \cup inHand' : i.sig = victim.sig => k \notin i.ids
      BY <1>c, <1>n, <2>1, <2>3, <2>4
    <3>3. \A k \in victim.ids : \A e \in hit' : e.sig = victim.sig => k # e.id
      BY <1>c, <2>1
    <3> QED
      BY <3>1, <3>2, <3>3, HeldMembersNext
  <2>8. SettledOnce'
    BY <1>b, <1>d, <2>1, <2>3, <2>5, <2>6, <2>7 DEF SettledOnce
  <2> QED
    BY <2>2, <2>8
<1>5. CASE SubmitDropped(s)
  <2>1. /\ lost' = [lost EXCEPT ![s] = @ \cup {id}]
        /\ UNCHANGED <<heap, inHand, hit, reported>>
    BY <1>5 DEF SubmitDropped, SubmitNew, workerVars, id
  <2>2. \A t \in Sigs : \A k : k \in Held(t)' <=> k \in Held(t)
    BY <2>1, HeldMembers, HeldMembersNext
  <2>3. \A t \in Sigs : \A k : k \in lost'[t] <=> k \in lost[t] \/ (t = s /\ k = id)
    BY <1>a, <2>1
  <2>4. HeldApart'
    BY <1>c, <2>1 DEF HeldApart
  <2>5. SettledOnce'
    BY <1>b, <1>d, <2>1, <2>2, <2>3 DEF SettledOnce
  <2> QED
    BY <2>4, <2>5
<1> QED
  BY <1>1, <1>2, <1>3, <1>4, <1>5 DEF Submit

LEMMA OtherStepsOnce ==
    ASSUME OnceInv, MonitorStep \/ WorkerStep \/ Stop \/ Tick \/ UNCHANGED vars
    PROVE  HeldApart' /\ SettledOnce'
<1>a. /\ heap \in SUBSET Item /\ inHand \in SUBSET Item
      /\ reported \in [Sigs -> SUBSET Nat] /\ lost \in [Sigs -> SUBSET Nat]
      /\ OneAtATime /\ QueueMirrorsPending
  BY DEF OnceInv, AccountInv, QueueInv, TypeInv, TypeOK
<1>c. /\ \A i \in heap, j \in inHand : i.sig = j.sig => \A k : k \notin i.ids \/ k \notin j.ids
      /\ \A e \in hit, i \in heap \cup inHand : i.sig = e.sig => e.id \notin i.ids
  BY DEF OnceInv, HeldApart
<1>d. \A t \in Sigs : \A k : /\ k \in Held(t) => k \notin reported[t] /\ k \notin lost[t]
                             /\ k \in reported[t] => k \notin lost[t]
  BY DEF OnceInv, SettledOnce
<1>1. CASE EmitCached
  <2>1. UNCHANGED <<heap, inHand, lost>> /\ hit' = {}
    BY <1>1 DEF EmitCached, queueVars, workerVars
  <2>2. \A t \in Sigs : \A k : k \in reported'[t] <=>
            k \in reported[t] \/ \E e \in hit : e.sig = t /\ k = e.id
    BY <1>1 DEF EmitCached
  <2>3. HeldApart'
    BY <1>c, <2>1 DEF HeldApart
  <2>4. \A t \in Sigs : \A k : k \in Held(t)' =>
            k \in Held(t) /\ ~(\E e \in hit : e.sig = t /\ k = e.id)
    BY <1>c, <2>1, HeldMembers, HeldMembersNext
  <2>5. \A t \in Sigs : \A k : (\E e \in hit : e.sig = t /\ k = e.id) => k \in Held(t)
    BY HeldMembers
  <2>6. SettledOnce'
    BY <1>d, <2>1, <2>2, <2>4, <2>5 DEF SettledOnce
  <2> QED
    BY <2>3, <2>6
<1>2. CASE \E item \in heap : Take(item)
  <2> PICK item \in heap : Take(item)
    BY <1>2
  <2>1. /\ heap' = heap \ {item} /\ inHand' = {item}
        /\ UNCHANGED <<hit, reported, lost>>
    BY DEF Take, monitorVars, historyVars
  <2>2. \A i \in heap \ {item} : i.sig # item.sig
    BY <1>a DEF QueueMirrorsPending
  <2>3. HeldApart'
    BY <1>c, <2>1, <2>2 DEF HeldApart
  <2>4. \A t \in Sigs : \A k : k \in Held(t)' => k \in Held(t)
    BY <2>1, HeldMembers, HeldMembersNext
  <2>5. SettledOnce'
    BY <1>d, <2>1, <2>4 DEF SettledOnce
  <2> QED
    BY <2>3, <2>5
<1>3. CASE InferenceFails \/ InferenceRaises \/ \E item \in inHand : EmitAnalysis(item)
  <2> DEFINE Carried(t, k) == \E i \in inHand : i.sig = t /\ k \in i.ids
  <2>1. UNCHANGED <<heap, hit>> /\ inHand' = {}
    BY <1>3 DEF InferenceFails, InferenceRaises, Abandon, EmitAnalysis, queueVars, monitorVars
  <2>2. HeldApart'
    BY <1>c, <2>1 DEF HeldApart
  <2>3. \A t \in Sigs : \A k : k \in Held(t)' => k \in Held(t) /\ ~Carried(t, k)
    BY <1>c, <2>1, HeldMembers, HeldMembersNext
  <2>4. \A t \in Sigs : \A k : Carried(t, k) => k \in Held(t)
    BY HeldMembers
  <2>5. \/ /\ \A t \in Sigs : \A k : k \in lost'[t] <=> k \in lost[t] \/ Carried(t, k)
           /\ reported' = reported
        \/ /\ \A t \in Sigs : \A k : k \in reported'[t] <=> k \in reported[t] \/ Carried(t, k)
           /\ lost' = lost
    <3>1. CASE InferenceFails \/ InferenceRaises
      BY <3>1 DEF InferenceFails, InferenceRaises, Abandon
    <3>2. CASE \E item \in inHand : EmitAnalysis(item)
      <4> PICK item \in inHand : EmitAnalysis(item)
        BY <3>2
      <4>1. inHand = {item} /\ item.sig \in Sigs
        BY <1>a DEF OneAtATime, Item
      <4>2. reported' = [reported EXCEPT ![item.sig] = @ \cup item.ids] /\ lost' = lost
        BY DEF EmitAnalysis
      <4> QED
        BY <1>a, <4>1, <4>2
    <3> QED
      BY <1>3, <3>1, <3>2
  <2> HIDE DEF Carried
  <2>6. SettledOnce'
    BY <1>d, <2>3, <2>4, <2>5 DEF SettledOnce
  <2> QED
    BY <2>2, <2>6
<1>4. CASE UNCHANGED <<heap, inHand, hit, reported, lost>>
  <2>1. \A t \in Sigs : \A k : k \in Held(t)' <=> k \in Held(t)
    BY <1>4, HeldMembers, HeldMembersNext
  <2> QED
    BY <1>4, <1>c, <1>d, <2>1 DEF HeldApart, SettledOnce
<1>5. ASSUME ~EmitCached, ~(\E item \in heap : Take(item)), ~InferenceFails, ~InferenceRaises,
             ~(\E item \in inHand : EmitAnalysis(item))
      PROVE  UNCHANGED <<heap, inHand, hit, reported, lost>>
  BY <1>5 DEF MonitorStep, Signal, WorkerStep, WorkerOwnStep, FindNothing,
          InferenceSucceeds, StoreInCache, WakeUp, WaitTimesOut, ClearEvent, LeaveLoop,
          Stop, Tick, vars, queueVars, monitorVars, workerVars, counterVars, historyVars
<1> QED
  BY <1>1, <1>2, <1>3, <1>4, <1>5

LEMMA OnceInvHolds == Spec => []OnceInv
<1>1. Init => OnceInv
  <2>1. Init => AccountInv
    BY InitAccountInv
  <2>2. Init => HeldApart /\ SettledOnce
    BY DEF Init, HeldApart, SettledOnce
  <2> QED
    BY <2>1, <2>2 DEF OnceInv
<1>2. OnceInv /\ [Next]_vars => OnceInv'
  <2> SUFFICES ASSUME OnceInv, [Next]_vars PROVE OnceInv'
    OBVIOUS
  <2>1. AccountInv'
    BY NextAccountInv DEF OnceInv
  <2>2. HeldApart' /\ SettledOnce'
    BY SubmitOnce, OtherStepsOnce DEF Next
  <2> QED
    BY <2>1, <2>2 DEF OnceInv
<1> QED
  BY <1>1, <1>2, PTL DEF Spec

(* No occurrence is reported twice, or reported after it was given up, or     *)
(* waits in two items: however often the lock is given up in between.         *)
THEOREM NothingReportedTwice == Spec => []ReportedOnce
<1>1. OnceInv => ReportedOnce
  <2> SUFFICES ASSUME OnceInv, NEW s \in Sigs
               PROVE  /\ Held(s) \cap (reported[s] \cup lost[s]) = {}
                      /\ reported[s] \cap lost[s] = {}
                      /\ \A i, j \in heap \cup inHand : i.sig = s /\ j.sig = s /\ i # j =>
                             i.ids \cap j.ids = {}
    BY DEF ReportedOnce
  <2>1. /\ Held(s) \cap (reported[s] \cup lost[s]) = {}
        /\ reported[s] \cap lost[s] = {}
    BY DEF OnceInv, SettledOnce
  <2>2. /\ \A i, j \in heap : i.sig = j.sig => i = j
        /\ \A i, j \in inHand : i = j
    BY DEF OnceInv, AccountInv, QueueInv, QueueMirrorsPending, OneAtATime
  <2>3. \A i, j \in heap \cup inHand : i.sig = s /\ j.sig = s /\ i # j => i.ids \cap j.ids = {}
    BY <2>2 DEF OnceInv, HeldApart
  <2> QED
    BY <2>1, <2>3
<1> QED
  BY <1>1, OnceInvHolds, PTL

-----------------------------------------------------------------------------
(* Who is shed                                                                *)

LEMMA TicketMembers ==
    \A S, n : n \in Tickets(S) <=> \E i \in S : i.ticket = n
BY DEF Tickets

LEMMA ShedStep ==
    ASSUME QueueInv, NEW s \in Sigs, Submit(s), NEW i \in heap, i.ticket \notin Tickets(heap')
    PROVE  LeavesFairly(i)
<1>a. /\ heap \in SUBSET Item /\ nextTicket \in Nat
      /\ Priority \in [Sigs -> Nat]
      /\ \A j \in heap : j.sig \in Sigs /\ j.ticket < nextTicket
  BY ConstantsAssumption DEF QueueInv, TypeInv, TypeOK, TicketsDrawn, Item
<1>b. \A j \in heap' : j.ticket # i.ticket
  BY TicketMembers
<1>1. ~SubmitAggregated(s)
  <2> SUFFICES ASSUME SubmitAggregated(s) PROVE FALSE
    OBVIOUS
  <2> DEFINE grown(j) == IF j.ticket = pending[s]
                           THEN [j EXCEPT !.occurrences = Cardinality(Recorded(s, arrivals[s] + 1)),
                                          !.ids = @ \cup {arrivals[s] + 1}]
                           ELSE j
  <2>1. heap' = {grown(j) : j \in heap}
    BY DEF SubmitAggregated
  <2>2. grown(i).ticket = i.ticket
    BY <1>a DEF Item
  <2> HIDE DEF grown
  <2> QED
    BY <1>b, <2>1, <2>2
<1>2. ~SubmitCached(s) /\ ~SubmitQueued(s) /\ ~SubmitDropped(s)
  BY <1>b DEF SubmitCached, SubmitQueued, SubmitDropped, queueVars
<1>3. PICK victim \in heap : SubmitShedding(s, victim)
  BY <1>1, <1>2 DEF Submit
<1>4. heap' = (heap \ {victim}) \cup {NewItem(s)}
  BY <1>3 DEF SubmitShedding
<1>5. victim = i
  BY <1>b, <1>4
<1>6. /\ NewItem(s) \in heap' /\ NewItem(s).sig = s
      /\ NewItem(s).ticket \notin Tickets(heap)
  BY <1>a, <1>4, TicketMembers DEF NewItem
<1>7. Priority[s] > Priority[i.sig]
  BY <1>a, <1>3, <1>5 DEF SubmitShedding
<1>8. \A j \in heap : Priority[j.sig] >= Priority[i.sig]
  BY <1>a, <1>3, <1>5 DEF SubmitShedding, ShedBefore
<1> QED
  BY <1>6, <1>7, <1>8 DEF LeavesFairly

(* An item that leaves the queue goes to the worker, or makes room for        *)
(* something strictly more urgent and was the least urgent there was.         *)
THEOREM OnlyLessUrgentShed == Spec => ShedsOnlyLessUrgent
<1>1. QueueInv /\ [Next]_vars => [LeaversFair]_vars
  <2> SUFFICES ASSUME QueueInv, Next, NEW i \in heap, i.ticket \notin Tickets(heap')
               PROVE  LeavesFairly(i)
    BY DEF LeaversFair
  <2>1. CASE \E s \in Sigs : Submit(s)
    BY <2>1, ShedStep
  <2>2. CASE \E item \in heap : Take(item)
    BY <2>2, TicketMembers DEF Take, LeavesFairly
  <2>3. ASSUME ~(\E s \in Sigs : Submit(s)), ~(\E item \in heap : Take(item))
        PROVE  heap' = heap
    BY <2>3 DEF Next, MonitorStep, EmitCached, Signal, WorkerStep, WorkerOwnStep, FindNothing,
            InferenceSucceeds, InferenceFails, InferenceRaises, Abandon, StoreInCache, EmitAnalysis, WakeUp,
            WaitTimesOut, ClearEvent, LeaveLoop, Stop, Tick, queueVars
  <2> QED
    BY <2>1, <2>2, <2>3, TicketMembers
<1> QED
  BY <1>1, QueueInvHolds, PTL DEF Spec, ShedsOnlyLessUrgent

-----------------------------------------------------------------------------
(* What a waiting item is said to stand for                                   *)

(* The occurrences of item i that are still inside the window.                *)
StillRecent(i) == {r \in seen[i.sig] : r.id \in i.ids /\ clock - r.at <= RecurrenceWindow}

(* Every call of submit() that leaves an item of its signature in the queue   *)
(* leaves it with the count of that signature's window, the arrival included. *)
LEMMA SubmitCounts ==
    ASSUME QueueInv, NEW s \in Sigs, Submit(s), NEW i \in heap'
    PROVE  \/ i \in heap /\ i.sig \in Sigs /\ i.sig # s
           \/ i.sig = s /\ i.occurrences = Cardinality(Recorded(s, arrivals[s] + 1))
<1>b. /\ heap \in SUBSET Item /\ pending \in [Sigs -> Nat \cup {NoTicket}] /\ NoTicket \notin Nat
  BY DEF QueueInv, TypeInv, TypeOK, NoTicket
<1>c. \A j \in heap : pending[j.sig] = j.ticket /\ j.ticket \in Nat /\ j.sig \in Sigs
  BY <1>b DEF QueueInv, QueueMirrorsPending, Item
<1>d. NewItem(s).sig = s /\ NewItem(s).occurrences = Cardinality(Recorded(s, arrivals[s] + 1))
  BY DEF NewItem
<1>1. CASE SubmitAggregated(s)
  <2>1. PICK j \in heap :
            i = IF j.ticket = pending[s]
                  THEN [j EXCEPT !.occurrences = Cardinality(Recorded(s, arrivals[s] + 1)),
                                 !.ids = @ \cup {arrivals[s] + 1}]
                  ELSE j
    BY <1>1 DEF SubmitAggregated
  <2>2. j \in Item
    BY <1>b
  <2>3. CASE j.ticket = pending[s]
    <3>1. PICK k \in heap : k.sig = s /\ k.ticket = pending[s]
      BY <1>1 DEF SubmitAggregated, QueueInv, QueueMirrorsPending
    <3>2. j = k
      BY <2>3, <3>1 DEF QueueInv, QueueMirrorsPending
    <3> QED
      BY <2>1, <2>2, <2>3, <3>1, <3>2 DEF Item
  <2>4. CASE j.ticket # pending[s]
    BY <1>c, <2>1, <2>4
  <2> QED
    BY <2>3, <2>4
<1>2. ASSUME pending[s] = NoTicket
      PROVE  \A j \in heap : j.sig \in Sigs /\ j.sig # s
  BY <1>b, <1>c, <1>2
<1>3. CASE SubmitCached(s) \/ SubmitDropped(s)
  <2>1. heap' = heap /\ pending[s] = NoTicket
    BY <1>3 DEF SubmitCached, SubmitDropped, SubmitNew, queueVars
  <2> QED
    BY <1>2, <2>1
<1>4. CASE SubmitQueued(s) \/ \E victim \in heap : SubmitShedding(s, victim)
  <2>1. heap' \subseteq heap \cup {NewItem(s)} /\ pending[s] = NoTicket
    BY <1>4 DEF SubmitQueued, SubmitShedding, SubmitNew
  <2> QED
    BY <1>2, <1>d, <2>1
<1> QED
  BY <1>1, <1>3, <1>4 DEF Submit

(* Outside submit() no item and no window changes; time only moves on.        *)
LEMMA WindowsOnlyShrink ==
    ASSUME TypeInv, [Next]_vars, ~(\E s \in Sigs : Submit(s))
    PROVE  heap' \subseteq heap /\ seen' = seen /\ clock' \in Nat /\ clock' >= clock
<1>a. clock \in Nat
  BY DEF TypeInv, TypeOK
<1>1. CASE Tick
  BY <1>a, <1>1 DEF Tick, queueVars
<1>2. CASE MonitorStep \/ Stop \/ UNCHANGED vars
  BY <1>a, <1>2 DEF MonitorStep, EmitCached, Signal, Stop, vars, queueVars
<1>3. CASE WorkerStep
  BY <1>a, <1>3
     DEF WorkerStep, WorkerOwnStep, Take, FindNothing, InferenceSucceeds, InferenceFails, InferenceRaises, Abandon,
         StoreInCache, WakeUp, WaitTimesOut, ClearEvent, LeaveLoop, EmitAnalysis, queueVars
<1> QED
  BY <1>1, <1>2, <1>3 DEF Next

LEMMA NextRecentCounted ==
    ASSUME QueueInv, RecentOccurrencesCounted, [Next]_vars
    PROVE  RecentOccurrencesCounted'
<1>a. TypeInv /\ TypeInv'
  BY NextTypeInv DEF QueueInv
<1>b. /\ seen \in [Sigs -> SUBSET [id: Nat, at: Nat]] /\ SeenFinite
      /\ clock \in Nat /\ RecurrenceWindow \in Nat
      /\ heap \in SUBSET Item /\ heap' \in SUBSET Item
  BY <1>a, ConstantsAssumption DEF TypeInv, TypeOK
<1> SUFFICES ASSUME NEW i \in heap'
             PROVE  i.occurrences >= Cardinality(StillRecent(i)')
  BY DEF RecentOccurrencesCounted, StillRecent
<1>c. i.sig \in Sigs /\ i.occurrences \in Nat
  BY <1>b DEF Item
<1>d. ASSUME i \in heap, seen'[i.sig] = seen[i.sig], clock' \in Nat, clock' >= clock
      PROVE  i.occurrences >= Cardinality(StillRecent(i)')
  <2>1. StillRecent(i)' \subseteq StillRecent(i)
    BY <1>b, <1>c, <1>d DEF StillRecent
  <2>2. IsFiniteSet(StillRecent(i))
    BY <1>b, <1>c, FS_Subset DEF StillRecent, SeenFinite
  <2>3. Cardinality(StillRecent(i)') <= Cardinality(StillRecent(i))
    BY <2>1, <2>2, FS_Subset
  <2>4. IsFiniteSet(StillRecent(i)') /\ Cardinality(StillRecent(i)') \in Nat
        /\ Cardinality(StillRecent(i)) \in Nat
    BY <2>1, <2>2, FS_Subset, FS_CardinalityType
  <2>5. i.occurrences >= Cardinality(StillRecent(i))
    BY <1>d DEF RecentOccurrencesCounted, StillRecent
  <2> QED
    BY <1>c, <2>3, <2>4, <2>5
<1>1. CASE \E s \in Sigs : Submit(s)
  <2> PICK s \in Sigs : Submit(s)
    BY <1>1
  <2>1. Arrive(s) /\ clock' = clock
    BY DEF Submit, SubmitAggregated, SubmitCached, SubmitQueued, SubmitShedding,
           SubmitDropped, SubmitNew
  <2>2. seen' = [seen EXCEPT ![s] = Recorded(s, arrivals[s] + 1)] /\ arrivals[s] + 1 \in Nat
    BY <1>a, <2>1, ArriveType DEF Arrive
  <2>3. CASE i \in heap /\ i.sig \in Sigs /\ i.sig # s
    BY <1>b, <1>d, <2>1, <2>2, <2>3
  <2>4. CASE i.sig = s /\ i.occurrences = Cardinality(Recorded(s, arrivals[s] + 1))
    <3>1. StillRecent(i)' \subseteq Recorded(s, arrivals[s] + 1)
      BY <1>b, <2>2, <2>4 DEF StillRecent
    <3>2. IsFiniteSet(Recorded(s, arrivals[s] + 1))
      BY <1>a, <2>2, RecordedCounts
    <3>3. Cardinality(StillRecent(i)') <= Cardinality(Recorded(s, arrivals[s] + 1))
      BY <3>1, <3>2, FS_Subset
    <3>4. IsFiniteSet(StillRecent(i)') /\ Cardinality(StillRecent(i)') \in Nat
      BY <3>1, <3>2, FS_Subset, FS_CardinalityType
    <3> QED
      BY <1>c, <2>4, <3>3, <3>4
  <2> QED
    BY <2>3, <2>4, SubmitCounts
<1>2. CASE ~(\E s \in Sigs : Submit(s))
  BY <1>a, <1>d, <1>2, WindowsOnlyShrink
<1> QED
  BY <1>1, <1>2

(* The count the prompt and the proposal are given never understates what of  *)
(* a waiting error is still recent, although occurrences keep arriving and    *)
(* expiring while it waits: whatever aggregates also recounts.                *)
THEOREM RecentNeverUnderstated == Spec => []RecentOccurrencesCounted
<1>1. Init => RecentOccurrencesCounted
  BY DEF Init, RecentOccurrencesCounted
<1>2. QueueInv /\ RecentOccurrencesCounted /\ [Next]_vars => RecentOccurrencesCounted'
  BY NextRecentCounted
<1> QED
  BY <1>1, <1>2, QueueInvHolds, PTL DEF Spec

-----------------------------------------------------------------------------
(* The queue implements ErrorFates                                            *)

(* What is held is what arrived and is not settled: the accounting above      *)
(* leaves no other possibility.                                               *)
Unsettled(t) == (1 .. arrivals[t]) \ (reported[t] \cup lost[t])

OpenIsUnsettled == \A t \in Sigs : Held(t) = Unsettled(t)

LEMMA HeldIsUnsettled == OnceInv => OpenIsUnsettled
<1> SUFFICES ASSUME OnceInv, NEW t \in Sigs PROVE Held(t) = Unsettled(t)
  BY DEF OpenIsUnsettled
<1>1. Held(t) \cup reported[t] \cup lost[t] = 1 .. arrivals[t]
  BY DEF OnceInv, AccountInv, NoErrorSwallowed
<1>2. \A k : k \in Held(t) => k \notin reported[t] /\ k \notin lost[t]
  BY DEF OnceInv, SettledOnce
<1> QED
  BY <1>1, <1>2 DEF Unsettled

LEMMA HeldIsUnsettledNext == OnceInv' => OpenIsUnsettled'
BY HeldIsUnsettled, PTL

(* Nobody carries nothing, and one cache hit is emitted at a time.            *)
GroupsInv ==
    /\ \A i \in heap \cup inHand : i.ids # {}
    /\ \A e, f \in hit : e = f

FatesInv == OnceInv /\ GroupsInv

LEMMA NextGroupsInv == ASSUME QueueInv, GroupsInv, [Next]_vars PROVE GroupsInv'
<1>a. heap \in SUBSET Item
  BY DEF QueueInv, TypeInv, TypeOK
<1>1. ASSUME NEW s \in Sigs, Submit(s) PROVE GroupsInv'
  <2>1. inHand' = inHand
    BY <1>1 DEF Submit, SubmitAggregated, SubmitCached, SubmitQueued, SubmitShedding,
           SubmitDropped, SubmitNew, workerVars
  <2>2. CASE SubmitAggregated(s)
    <3> DEFINE grown(i) == IF i.ticket = pending[s]
                             THEN [i EXCEPT !.occurrences = Cardinality(Recorded(s, arrivals[s] + 1)),
                                            !.ids = @ \cup {arrivals[s] + 1}]
                             ELSE i
    <3>1. heap' = {grown(i) : i \in heap} /\ hit' = hit
      BY <2>2 DEF SubmitAggregated, monitorVars
    <3>2. \A i \in heap : grown(i).ids # {}
      BY <1>a DEF GroupsInv, Item
    <3> HIDE DEF grown
    <3> QED
      BY <2>1, <3>1, <3>2 DEF GroupsInv
  <2>3. CASE SubmitCached(s)
    BY <2>1, <2>3 DEF SubmitCached, queueVars, GroupsInv
  <2>4. CASE SubmitQueued(s) \/ SubmitDropped(s) \/ \E victim \in heap : SubmitShedding(s, victim)
    BY <2>1, <2>4 DEF SubmitQueued, SubmitDropped, SubmitShedding, SubmitNew, NewItem, GroupsInv
  <2> QED
    BY <1>1, <2>2, <2>3, <2>4 DEF Submit
<1>2. CASE MonitorStep
  BY <1>2 DEF MonitorStep, EmitCached, Signal, queueVars, workerVars, GroupsInv
<1>3. CASE WorkerStep
  BY <1>3 DEF WorkerStep, WorkerOwnStep, Take, FindNothing, InferenceSucceeds, InferenceFails, InferenceRaises, Abandon,
         StoreInCache, EmitAnalysis, WakeUp, WaitTimesOut, ClearEvent, LeaveLoop,
         queueVars, monitorVars, GroupsInv
<1>4. CASE Stop \/ Tick \/ UNCHANGED vars
  BY <1>4 DEF Stop, Tick, vars, queueVars, workerVars, monitorVars, GroupsInv
<1> QED
  BY <1>1, <1>2, <1>3, <1>4 DEF Next

(* An arrival stays open, is refused, or takes the place of a less urgent     *)
(* group.                                                                     *)
LEMMA SubmitFate ==
    ASSUME FatesInv, OnceInv', NEW s \in Sigs, Submit(s)
    PROVE  Fates!Next
<1> DEFINE id == arrivals[s] + 1
           now == [t \in Sigs |-> Held(t)]
           next == [t \in Sigs |-> Held(t)']
<1>a. /\ heap \in SUBSET Item /\ arrivals \in [Sigs -> Nat]
      /\ reported \in [Sigs -> SUBSET Nat] /\ lost \in [Sigs -> SUBSET Nat]
      /\ Priority \in [Sigs -> Nat]
  BY ConstantsAssumption DEF FatesInv, OnceInv, AccountInv, QueueInv, TypeInv, TypeOK
<1>b. arrivals' = [arrivals EXCEPT ![s] = @ + 1]
  BY DEF Submit, SubmitAggregated, SubmitCached, SubmitQueued, SubmitShedding,
         SubmitDropped, SubmitNew, Arrive
<1> DEFINE before(t) == 1 .. arrivals[t]
           after(t) == 1 .. arrivals'[t]
<1>c. /\ \A t \in Sigs : \A k : k \in Held(t) <=>
             k \in before(t) /\ k \notin reported[t] /\ k \notin lost[t]
      /\ \A t \in Sigs : \A k : k \in Held(t)' <=>
             k \in after(t) /\ k \notin reported'[t] /\ k \notin lost'[t]
  BY HeldIsUnsettled, HeldIsUnsettledNext DEF FatesInv, OpenIsUnsettled, Unsettled
<1>d. id \notin reported[s] /\ id \notin lost[s]
  BY NewcomerIsNowhere DEF Somewhere, FatesInv
<1>e. \A n \in Nat : \A k : k \in 1 .. (n + 1) <=> k \in 1 .. n \/ k = n + 1
  OBVIOUS
<1>f. \A t \in Sigs : \A k : k \in after(t) <=> k \in before(t) \/ (t = s /\ k = id)
  BY <1>a, <1>b, <1>e
<1>g. id \notin before(s)
  BY <1>a
<1> HIDE DEF before, after, id
<1>1. CASE SubmitAggregated(s) \/ SubmitCached(s) \/ SubmitQueued(s)
  <2>1. UNCHANGED <<reported, lost>>
    BY <1>1 DEF SubmitAggregated, SubmitCached, SubmitQueued, SubmitNew
  <2>a. \A t \in Sigs : \A k : k \in Held(t)' <=> k \in Held(t) \/ (t = s /\ k = id)
    BY <1>c, <1>d, <1>f, <2>1
  <2>2. \A t \in Sigs : Held(t)' = IF t = s THEN Held(t) \cup {id} ELSE Held(t)
    BY <2>a
  <2>3. next = [now EXCEPT ![s] = @ \cup {id}]
    BY <2>2
  <2> QED
    BY <1>b, <2>1, <2>3 DEF Fates!Next, Fates!Arrive, Fates!Newest, id
<1>2. CASE SubmitDropped(s)
  <2>1. reported' = reported /\ lost' = [lost EXCEPT ![s] = @ \cup {id}]
    BY <1>2 DEF SubmitDropped, SubmitNew, id
  <2>2. \A t \in Sigs : lost'[t] = IF t = s THEN lost[t] \cup {id} ELSE lost[t]
    BY <1>a, <2>1
  <2>a. \A t \in Sigs : \A k : k \in Held(t)' <=> k \in Held(t)
    BY <1>c, <1>d, <1>f, <1>g, <2>1, <2>2
  <2>3. \A t \in Sigs : Held(t)' = Held(t)
    BY <2>a
  <2>4. next = now
    BY <2>3
  <2> QED
    BY <1>b, <2>1, <2>4 DEF Fates!Next, Fates!Refuse, Fates!Newest, id
<1>3. CASE \E victim \in heap : SubmitShedding(s, victim)
  <2> PICK victim \in heap : SubmitShedding(s, victim)
    BY <1>3
  <2> DEFINE v == victim.sig
             group == victim.ids
  <2>1. /\ reported' = reported /\ lost' = [lost EXCEPT ![v] = @ \cup group]
        /\ Priority[v] < Priority[s]
    BY DEF SubmitShedding, SubmitNew
  <2>2. v \in Sigs /\ v # s
    BY <1>a, <2>1 DEF Item
  <2>3. group \in SUBSET Held(v) /\ group # {}
    BY HeldMembers DEF FatesInv, GroupsInv
  <2> HIDE DEF v, group
  <2>4. \A t \in Sigs : lost'[t] = IF t = v THEN lost[t] \cup group ELSE lost[t]
    BY <1>a, <2>1, <2>2
  <2>b. \A t \in Sigs : \A k : k \in Held(t)' <=>
            (k \in Held(t) /\ ~(t = v /\ k \in group)) \/ (t = s /\ k = id)
    BY <1>c, <1>d, <1>f, <2>1, <2>2, <2>3, <2>4
  <2>5. \A t \in Sigs : Held(t)' = IF t = s THEN Held(t) \cup {id}
                                   ELSE IF t = v THEN Held(t) \ group ELSE Held(t)
    BY <2>2, <2>b
  <2>6. next = [now EXCEPT ![v] = @ \ group, ![s] = @ \cup {id}]
    BY <2>2, <2>5
  <2>7. group \in SUBSET now[v]
    BY <2>2, <2>3
  <2>8. Fates!Evict(s, v)
    BY <1>b, <2>1, <2>3, <2>6, <2>7 DEF Fates!Evict, Fates!Newest, id
  <2> QED
    BY <2>2, <2>8 DEF Fates!Next
<1> QED
  BY <1>1, <1>2, <1>3 DEF Submit

(* Every other step settles one group or leaves the fates alone.              *)
LEMMA OtherFates ==
    ASSUME FatesInv, OnceInv', MonitorStep \/ WorkerStep \/ Stop \/ Tick \/ UNCHANGED vars
    PROVE  Fates!Next \/ UNCHANGED Fates!fates
<1> DEFINE now == [t \in Sigs |-> Held(t)]
           next == [t \in Sigs |-> Held(t)']
<1>a. /\ inHand \in SUBSET Item /\ hit \in SUBSET Event
      /\ reported \in [Sigs -> SUBSET Nat] /\ lost \in [Sigs -> SUBSET Nat]
      /\ OneAtATime
  BY DEF FatesInv, OnceInv, AccountInv, QueueInv, TypeInv, TypeOK
<1>b. arrivals' = arrivals
  BY DEF MonitorStep, EmitCached, Signal, WorkerStep, WorkerOwnStep, Take, FindNothing,
         InferenceSucceeds, InferenceFails, InferenceRaises, Abandon, StoreInCache, EmitAnalysis, WakeUp,
         WaitTimesOut, ClearEvent, LeaveLoop, Stop, Tick, vars, historyVars
<1> DEFINE arrived(t) == 1 .. arrivals[t]
<1>c. /\ \A t \in Sigs : \A k : k \in Held(t) <=>
             k \in arrived(t) /\ k \notin reported[t] /\ k \notin lost[t]
      /\ \A t \in Sigs : \A k : k \in Held(t)' <=>
             k \in arrived(t) /\ k \notin reported'[t] /\ k \notin lost'[t]
  BY <1>b, HeldIsUnsettled, HeldIsUnsettledNext DEF FatesInv, OpenIsUnsettled, Unsettled
<1> HIDE DEF arrived
<1>1. ASSUME UNCHANGED <<reported, lost>>
      PROVE  UNCHANGED Fates!fates
  <2>1. next = now
    BY <1>1, <1>c
  <2> QED
    BY <1>1, <1>b, <2>1 DEF Fates!fates
<1>2. ASSUME NEW s \in Sigs, NEW group \in SUBSET Held(s), group # {}, lost' = lost,
             \A t \in Sigs : reported'[t] = IF t = s THEN reported[t] \cup group ELSE reported[t],
             DOMAIN reported' = Sigs, reported' = [t \in Sigs |-> reported'[t]]
      PROVE  Fates!Next
  <2>a. \A t \in Sigs : \A k : k \in Held(t)' <=> k \in Held(t) /\ ~(t = s /\ k \in group)
    BY <1>2, <1>c
  <2>1. \A t \in Sigs : Held(t)' = IF t = s THEN Held(t) \ group ELSE Held(t)
    BY <2>a
  <2>2. next = [now EXCEPT ![s] = @ \ group] /\ group \in SUBSET now[s]
    BY <1>2, <2>1
  <2>3. reported' = [reported EXCEPT ![s] = @ \cup group]
    BY <1>a, <1>2
  <2>4. Fates!Report(s)
    BY <1>2, <1>b, <2>2, <2>3 DEF Fates!Report
  <2> QED
    BY <2>4 DEF Fates!Next
<1>3. ASSUME NEW s \in Sigs, NEW group \in SUBSET Held(s), group # {}, reported' = reported,
             \A t \in Sigs : lost'[t] = IF t = s THEN lost[t] \cup group ELSE lost[t],
             lost' = [t \in Sigs |-> lost'[t]]
      PROVE  Fates!Next
  <2>a. \A t \in Sigs : \A k : k \in Held(t)' <=> k \in Held(t) /\ ~(t = s /\ k \in group)
    BY <1>3, <1>c
  <2>1. \A t \in Sigs : Held(t)' = IF t = s THEN Held(t) \ group ELSE Held(t)
    BY <2>a
  <2>2. next = [now EXCEPT ![s] = @ \ group] /\ group \in SUBSET now[s]
    BY <1>3, <2>1
  <2>3. lost' = [lost EXCEPT ![s] = @ \cup group]
    BY <1>a, <1>3
  <2>4. Fates!GiveUp(s)
    BY <1>3, <1>b, <2>2, <2>3 DEF Fates!GiveUp
  <2> QED
    BY <2>4 DEF Fates!Next
<1>4. CASE EmitCached
  <2>1. /\ lost' = lost
        /\ reported' = [t \in Sigs |-> reported[t] \cup {e.id : e \in {h \in hit : h.sig = t}}]
    BY <1>4 DEF EmitCached
  <2>2. CASE hit = {}
    <3>1. reported' = reported
      BY <1>a, <2>1, <2>2
    <3> QED
      BY <1>1, <2>1, <3>1
  <2>3. CASE hit # {}
    <3> PICK e \in hit : TRUE
      BY <2>3
    <3>1. hit = {e} /\ e.sig \in Sigs
      BY <1>a DEF FatesInv, GroupsInv, Event
    <3>2. {e.id} \in SUBSET Held(e.sig)
      BY HeldMembers
    <3>3. \A t \in Sigs : {h.id : h \in {g \in hit : g.sig = t}} = IF t = e.sig THEN {e.id} ELSE {}
      BY <3>1
    <3>4. \A t \in Sigs : reported'[t] = IF t = e.sig THEN reported[t] \cup {e.id} ELSE reported[t]
      BY <2>1, <3>3
    <3>5. reported' = [t \in Sigs |-> reported'[t]]
      BY <2>1
    <3> QED
      BY <1>2, <2>1, <3>1, <3>2, <3>4, <3>5, ZenonT(30)
  <2> QED
    BY <2>2, <2>3
<1>5. CASE InferenceFails \/ InferenceRaises
  <2>1. /\ reported' = reported
        /\ lost' = [t \in Sigs |-> lost[t] \cup UNION {i.ids : i \in {h \in inHand : h.sig = t}}]
    BY <1>5 DEF InferenceFails, InferenceRaises, Abandon
  <2>2. CASE inHand = {}
    <3>1. lost' = lost
      BY <1>a, <2>1, <2>2
    <3> QED
      BY <1>1, <2>1, <3>1
  <2>3. CASE inHand # {}
    <3> PICK item \in inHand : TRUE
      BY <2>3
    <3>1. inHand = {item} /\ item.sig \in Sigs
      BY <1>a DEF OneAtATime, Item
    <3>2. item.ids \in SUBSET Held(item.sig) /\ item.ids # {}
      BY HeldMembers DEF FatesInv, GroupsInv
    <3>3. \A t \in Sigs : UNION {i.ids : i \in {h \in inHand : h.sig = t}} =
                            IF t = item.sig THEN item.ids ELSE {}
      BY <3>1
    <3>4. \A t \in Sigs : lost'[t] = IF t = item.sig THEN lost[t] \cup item.ids ELSE lost[t]
      BY <2>1, <3>3
    <3>5. lost' = [t \in Sigs |-> lost'[t]]
      BY <2>1
    <3> QED
      BY <1>3, <2>1, <3>1, <3>2, <3>4, <3>5
  <2> QED
    BY <2>2, <2>3
<1>6. CASE \E item \in inHand : EmitAnalysis(item)
  <2> PICK item \in inHand : EmitAnalysis(item)
    BY <1>6
  <2>1. item.sig \in Sigs /\ item.ids \in SUBSET Held(item.sig) /\ item.ids # {}
    BY <1>a, HeldMembers DEF Item, FatesInv, GroupsInv
  <2>2. lost' = lost /\ reported' = [reported EXCEPT ![item.sig] = @ \cup item.ids]
    BY DEF EmitAnalysis
  <2>3. /\ \A t \in Sigs : reported'[t] = IF t = item.sig THEN reported[t] \cup item.ids ELSE reported[t]
        /\ reported' = [t \in Sigs |-> reported'[t]]
    BY <1>a, <2>1, <2>2
  <2> QED
    BY <1>2, <2>1, <2>2, <2>3
<1>7. ASSUME ~EmitCached, ~InferenceFails, ~InferenceRaises, ~(\E item \in inHand : EmitAnalysis(item))
      PROVE  UNCHANGED <<reported, lost>>
  BY <1>7 DEF MonitorStep, Signal, WorkerStep, WorkerOwnStep, Take, FindNothing,
          InferenceSucceeds, StoreInCache, WakeUp, WaitTimesOut, ClearEvent, LeaveLoop,
          Stop, Tick, vars, historyVars
<1> QED
  BY <1>1, <1>4, <1>5, <1>6, <1>7

(* The queue keeps the promise of ErrorFates: every occurrence is open until  *)
(* it is reported or lost, groups at a time, and only the more urgent evict.  *)
THEOREM QueueImplementsErrorFates == Spec => ImplementsErrorFates
<1>1. Init => Fates!Init
  <2> SUFFICES ASSUME Init PROVE Fates!Init
    OBVIOUS
  <2>1. [t \in Sigs |-> Held(t)] = [t \in Sigs |-> {}]
    BY DEF Init, Held
  <2> QED
    BY <2>1 DEF Init, Fates!Init
<1>2. Init => GroupsInv
  BY DEF Init, GroupsInv
<1>3. OnceInv /\ GroupsInv /\ [Next]_vars => GroupsInv'
  BY NextGroupsInv DEF OnceInv, AccountInv
<1>4. OnceInv /\ OnceInv' /\ GroupsInv /\ [Next]_vars => [Fates!Next]_(Fates!fates)
  <2> SUFFICES ASSUME FatesInv, OnceInv', [Next]_vars PROVE Fates!Next \/ UNCHANGED Fates!fates
    BY DEF FatesInv
  <2> QED
    BY SubmitFate, OtherFates DEF Next
<1> QED
  BY <1>1, <1>2, <1>3, <1>4, OnceInvHolds, PTL DEF Spec, ImplementsErrorFates, Fates!Spec
=============================================================================
