----------------------------- MODULE MCLogTail ------------------------------
(* Several scenarios in one run. A kind of cut: one file that stays watched,  *)
(* whose lines (two, if they are cut at a line end or a separator) are written*)
(* whole or in two, cut in this way, and which is rotated; what its lines say *)
(* does not matter. "events": two files of whole lines, errors among them,    *)
(* that share a buffer and may be let go of; one of them has one line.        *)
EXTENDS LogTail

CONSTANTS app, audit

VARIABLE scenario

MCInit == Init /\ scenario \in Cuts \cup {"events"}

PiecesOf(f) == {file[f].content[i] : i \in 1 .. Len(file[f].content)}

InScenario ==
    IF scenario = "events"
      THEN rotations' = 0 /\ halfway' = NoFile /\ Cardinality(PiecesOf(audit)') <= 1
      ELSE /\ scenario # "text" => lines' <= 2
           /\ \A p \in PiecesOf(app)' : ~p.error /\ (p.part = "head" => p.cut = scenario)
           /\ UNCHANGED <<table, file[audit]>>

MCNext == Next /\ InScenario /\ UNCHANGED scenario

MCSpec ==
    /\ MCInit /\ [][MCNext]_<<vars, scenario>>
    /\ WF_vars(ReaderStep)
    /\ \A f \in Files : WF_vars(\E error \in BOOLEAN : FinishLine(f, error))
=============================================================================
