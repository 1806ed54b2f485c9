----------------------------- MODULE ErrorFates -----------------------------
(* What the analysis queue promises, without the queue: every occurrence of  *)
(* an error is open until it is reported or lost, whole groups at a time, and *)
(* an arrival may push out a group only for being more urgent than it.        *)
EXTENDS Naturals

CONSTANTS Sigs, Priority

VARIABLES arrivals,                 \* signature -> occurrences so far
          open, reported, lost      \* signature -> which of them are each

fates == <<arrivals, open, reported, lost>>

Init == /\ arrivals = [s \in Sigs |-> 0]
        /\ open = [s \in Sigs |-> {}]
        /\ reported = [s \in Sigs |-> {}]
        /\ lost = [s \in Sigs |-> {}]

Newest(s) == arrivals[s] + 1

(* An occurrence arrives and is open ...                                      *)
Arrive(s) ==
    /\ arrivals' = [arrivals EXCEPT ![s] = Newest(s)]
    /\ open' = [open EXCEPT ![s] = @ \cup {Newest(s)}]
    /\ UNCHANGED <<reported, lost>>

(* ... or is refused at once ...                                              *)
Refuse(s) ==
    /\ arrivals' = [arrivals EXCEPT ![s] = Newest(s)]
    /\ lost' = [lost EXCEPT ![s] = @ \cup {Newest(s)}]
    /\ UNCHANGED <<open, reported>>

(* ... or takes the place of a group of a less urgent signature.              *)
Evict(s, v) ==
    /\ Priority[v] < Priority[s]
    /\ arrivals' = [arrivals EXCEPT ![s] = Newest(s)]
    /\ \E group \in SUBSET open[v] :
           /\ group # {}
           /\ open' = [open EXCEPT ![v] = @ \ group, ![s] = @ \cup {Newest(s)}]
           /\ lost' = [lost EXCEPT ![v] = @ \cup group]
    /\ UNCHANGED reported

Report(s) ==
    \E group \in SUBSET open[s] :
        /\ group # {}
        /\ open' = [open EXCEPT ![s] = @ \ group]
        /\ reported' = [reported EXCEPT ![s] = @ \cup group]
        /\ UNCHANGED <<arrivals, lost>>

GiveUp(s) ==
    \E group \in SUBSET open[s] :
        /\ group # {}
        /\ open' = [open EXCEPT ![s] = @ \ group]
        /\ lost' = [lost EXCEPT ![s] = @ \cup group]
        /\ UNCHANGED <<arrivals, reported>>

Next == \E s \in Sigs : \/ Arrive(s)
                        \/ Refuse(s)
                        \/ \E v \in Sigs : Evict(s, v)
                        \/ Report(s)
                        \/ GiveUp(s)

Spec == Init /\ [][Next]_fates
=============================================================================
