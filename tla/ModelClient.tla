----------------------------- MODULE ModelClient -----------------------------
(* ollama_client.py: one analysis is up to max_retries requests to the model. *)
(* What it answers is checked and brought into shape, or asked for once more. *)
(* Confidence counts in tenths.                                               *)
EXTENDS Integers

CONSTANTS
    MaxRetries,     \* max_retries
    ModelTimeout,   \* timeout, in ticks: of the connect and of each read
    MaxParts,       \* bound: parts of an answer that arrive before its last
    Replies,        \* what the model may answer
    NotANumber,     \* a confidence of NaN
    Yes,            \* a confidence of true
    Words,          \* a confidence that is no number
    Beyond,         \* a confidence, written as an integer, that no float holds
    NoPayload

VARIABLES
    callPc,         \* where the call of analyze() stands
    attempt,        \* requests sent
    elapsed,        \* ticks since the last, or since a part of its answer came
    parts,          \* parts that came
    payload,        \* the analysis that came out
    reply           \* history: the last answer

clientVars == <<callPc, attempt, elapsed, parts, payload, reply>>

Severities == {"low", "medium", "high", "critical"}

(* A request that never got an answer, one that failed, was empty, held no    *)
(* object or nested brackets too deeply; or an object, complete or not, and   *)
(* what it says.                                                              *)
Failure == [kind: {"timeout", "refused", "empty", "prose", "nested"}]
Answer == [kind: {"object"}, complete: BOOLEAN, severity: Severities \cup {"other"},
           steps: {"some", "none"}, confidence: Int \cup {NotANumber, Yes, Words, Beyond}]

ASSUME ClientAssumption ==
    /\ MaxRetries \in Nat \ {0} /\ ModelTimeout \in Nat \ {0} /\ MaxParts \in Nat
    /\ Replies \subseteq Failure \cup Answer

ClientInit ==
    /\ callPc = "idle" /\ attempt = 0 /\ elapsed = 0 /\ parts = 0
    /\ payload = NoPayload /\ reply = NoPayload

(* max(0.0, min(1.0, float(c))): true is 1.0, and a NaN, which compares       *)
(* false, leaves 1.0.                                                         *)
Clamp(c) == CASE c \in {NotANumber, Yes} -> 10
              [] OTHER -> IF c > 10 THEN 10 ELSE IF c < 0 THEN 0 ELSE c

Valid(r) == [severity |-> r.severity, confidence |-> Clamp(r.confidence)]

(* _extract_json and validate_analysis raise LLMError ...                     *)
Unusable(r) ==
    /\ r.kind # "nested"
    /\ r.kind = "object" =>
          ~r.complete \/ r.severity = "other" \/ r.steps = "none" \/ r.confidence = Words

(* ... or something that is not expected there: RecursionError, from          *)
(* json.loads() of what is nested too deeply, and OverflowError, from float() *)
(* of an integer too large.                                                   *)
Unexpected(r) ==
    r.kind = "nested" \/ (r.kind = "object" /\ ~Unusable(r) /\ r.confidence = Beyond)

Analyze ==
    /\ callPc = "idle"
    /\ callPc' = "request" /\ attempt' = 0 /\ elapsed' = 0 /\ parts' = 0
    /\ payload' = NoPayload
    /\ UNCHANGED reply

Chat ==
    /\ callPc = "request"
    /\ callPc' = "waiting" /\ attempt' = attempt + 1 /\ elapsed' = 0 /\ parts' = 0
    /\ UNCHANGED <<payload, reply>>

(* The timeout starts anew with whatever arrives: an answer that comes in     *)
(* parts may take longer.                                                     *)
PartArrives ==
    /\ callPc = "waiting" /\ elapsed > 0 /\ parts < MaxParts
    /\ elapsed' = 0 /\ parts' = parts + 1
    /\ UNCHANGED <<callPc, attempt, payload, reply>>

Concludes(r, outcome) ==
    /\ callPc = "waiting"
    /\ callPc' = outcome
    /\ reply' = r
    /\ payload' = IF outcome = "usable" THEN Valid(r) ELSE NoPayload
    /\ UNCHANGED <<attempt, elapsed, parts>>

Answered(r) == ~Unusable(r) /\ ~Unexpected(r) /\ Concludes(r, "usable")

(* Whatever mentions a timeout is one, and is not tried again.                *)
TimedOut(r) == r.kind = "timeout" /\ Concludes(r, "failed")

(* Mutant of TriedAgain: however often.                                       *)
TriedAgainForever(r) ==
    /\ Unusable(r) /\ r.kind # "timeout"
    /\ Concludes(r, "request")

TriedAgain(r) ==
    /\ Unusable(r) /\ r.kind # "timeout" /\ attempt < MaxRetries
    /\ Concludes(r, "request")

GivenUp(r) ==
    /\ Unusable(r) /\ r.kind # "timeout" /\ attempt = MaxRetries
    /\ Concludes(r, "failed")

Raises(r) == Unexpected(r) /\ Concludes(r, "raised")

CallReturns ==
    /\ callPc \in {"usable", "failed", "raised"}
    /\ callPc' = "idle"
    /\ UNCHANGED <<attempt, elapsed, parts, payload, reply>>

Replied == \E r \in Replies : Answered(r) \/ TimedOut(r) \/ TriedAgain(r) \/ GivenUp(r)
                                \/ Raises(r)

ClientTypeOK ==
    /\ callPc \in {"idle", "request", "waiting", "usable", "failed", "raised"}
    /\ attempt \in 0 .. MaxRetries /\ elapsed \in 0 .. ModelTimeout /\ parts \in 0 .. MaxParts
    /\ payload \in [severity: Severities, confidence: 0 .. 10] \cup {NoPayload}
=============================================================================
