-------------------------- MODULE MCErrorAnalyzer --------------------------
(* One signature alone that arrives three times.                              *)
EXTENDS ErrorAnalyzer

CONSTANTS oom, refused, disk

Urgency == [s \in {oom, refused, disk} |->
              CASE s = oom -> 4 [] s = refused -> 3 [] s = disk -> 2]
UrgencyInUse == [s \in Sigs |-> Urgency[s]]

ThreeEach == [s \in Sigs |-> 3]
=============================================================================
