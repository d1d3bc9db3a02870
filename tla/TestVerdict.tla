------------------------------ MODULE TestVerdict ------------------------------
(***************************************************************************)
(* From what a command left to the verdict of a test run: the classifier    *)
(* (result-classification.ts and the payload half in result-payload.ts),    *)
(* the correlation of findings, the coverage and the determination          *)
(* (orchestrator.ts, determination.ts). Pure functions of recorded facts.   *)
(***************************************************************************)
EXTENDS Naturals, FiniteSets, FiniteSetsExt

Bases   == {"evidence", "fault", "no_evidence", "contradiction", "indeterminate"}
Classes == {"success", "declared_empty", "empty", "error", "timeout", "spawn_failed",
            "unclassifiable"}

Outcome(class, basis) == [class |-> class, basis |-> basis]
Outcomes == [class : Classes, basis : Bases]
IsOk(o)  == o.class \in {"success", "declared_empty"}

(***************************************************************************)
(* A reply: how its transport ended, the signals its channels carry, and    *)
(* whether its payload (stdout, rows, body, trace) is empty.                *)
(***************************************************************************)
ProcessEnds == {"spawn_failed", "timed_out", "signalled", "exit_zero", "exit_nonzero"}
HttpEnds    == {"spawn_failed", "timed_out", "no_status", "status_error", "status_ok",
                "status_bodyless"}
Signals     == {"contract", "row_error", "success_error", "error_field", "unparsable",
                "marker"}

Reply == [source : {"cli", "surf", "http", "bombadil", "cdp"},
          transport : ProcessEnds \cup HttpEnds,
          signals : SUBSET Signals, empty : BOOLEAN,
          effect : {"read_only", "mutating"}]

\* agents.<name>.expect: an empty output is declared, a marker line stands for one, a
\* JSON payload is declared, its error field is an error envelope.
Declaration == [empty : BOOLEAN, marker : BOOLEAN, json : BOOLEAN, envelope : BOOLEAN]
NoDeclaration == [empty |-> FALSE, marker |-> FALSE, json |-> FALSE, envelope |-> FALSE]

TransportFailed(r) == r.transport \in {"spawn_failed", "timed_out", "signalled"}

BasisForTransportFailure(r) == IF r.effect = "mutating" THEN "indeterminate" ELSE "fault"

TransportFailure(r) ==
    Outcome(IF r.transport = "spawn_failed" THEN "spawn_failed" ELSE "timeout",
            BasisForTransportFailure(r))

\* An error signal counts only under a contract the framework owns (surf's) or one that
\* was declared. No signal: the set is empty.
Fault         == Outcome("error", "fault")
Contradiction == Outcome("unclassifiable", "contradiction")

SurfError(r) ==
    IF r.signals \cap {"contract", "row_error"} # {} THEN {Fault}
    ELSE IF "success_error" \in r.signals THEN {Contradiction}
    ELSE IF r.transport = "exit_nonzero" THEN {Fault} ELSE {}

ParseFailed(r, d) == r.source = "cli" /\ d.json /\ ~r.empty /\ "unparsable" \in r.signals

Enveloped(d) == IF d.envelope THEN Fault ELSE Contradiction

ProcessError(r, d) ==
    IF ParseFailed(r, d) THEN {Contradiction}
    ELSE IF r.transport = "exit_nonzero" THEN {Fault}
    ELSE IF d.json /\ "error_field" \in r.signals THEN {Enveloped(d)} ELSE {}

HttpError(r, d) ==
    IF r.transport \in {"no_status", "status_error"} THEN {Fault}
    ELSE IF "error_field" \in r.signals THEN {Enveloped(d)} ELSE {}

ErrorOf(r, d) ==
    CASE r.source = "surf"                -> SurfError(r)
      [] r.source \in {"cli", "bombadil"} -> ProcessError(r, d)
      [] r.source = "http"                -> HttpError(r, d)
      [] r.source = "cdp"                 -> {}

\* 204, 304 and HEAD declare their own emptiness where nothing else is declared.
Effective(r, d) ==
    IF d = NoDeclaration /\ r.source = "http" /\ r.transport = "status_bodyless"
    THEN [d EXCEPT !.empty = TRUE] ELSE d

Emptiness(r, d) ==
    LET matched == "marker" \in r.signals
    IN  CASE d.marker /\ matched /\ ~r.empty                     -> Outcome("declared_empty", "evidence")
          [] r.empty /\ d.empty /\ (d.marker => matched)         -> Outcome("declared_empty", "evidence")
          [] r.empty /\ ~(d.empty /\ (d.marker => matched))      -> Outcome("empty", "no_evidence")
          [] OTHER                                               -> Outcome("success", "evidence")

ClassifyResult(r, d) ==
    IF TransportFailed(r) THEN TransportFailure(r)
    ELSE IF ErrorOf(r, d) # {} THEN CHOOSE o \in ErrorOf(r, d) : TRUE
    ELSE Emptiness(r, Effective(r, d))

(***************************************************************************)
(* Findings. An outcome is a member of Outcomes or NoOutcome: a finding of  *)
(* an agent that does not classify.                                         *)
(***************************************************************************)
NoOutcome == [class |-> "none", basis |-> "none"]

Severities == {"low", "medium", "high", "critical"}
Weight(sev) == CASE sev = "low" -> 1 [] sev = "medium" -> 2 [] sev = "high" -> 3
                 [] sev = "critical" -> 4

BasisWeight(b) == CASE b = "evidence" -> 0 [] b = "no_evidence" -> 1 [] b = "contradiction" -> 2
                    [] b = "indeterminate" -> 3 [] b = "fault" -> 4

WorstOutcome(outcomes) ==
    CHOOSE o \in outcomes : \A p \in outcomes : BasisWeight(p.basis) <= BasisWeight(o.basis)

HighestSeverity(findings) ==
    CHOOSE sev \in Severities : Weight(sev) = Max({Weight(f.severity) : f \in findings})

\* A correlation carries an outcome only if all its findings have one and none is a fault.
InheritedOutcome(findings) ==
    LET outcomes == {f.outcome : f \in findings}
    IN  IF NoOutcome \in outcomes \/ \E o \in outcomes : o.basis = "fault"
        THEN NoOutcome ELSE WorstOutcome(outcomes)

\* Several findings of one component are one more finding of it; an API contract finding
\* beside a bug is a cross-domain issue of its own.
Correlation(component, findings) ==
    LET cross == {"api_contract", "bug"} \subseteq {f.type : f \in findings}
    IN  [agent |-> "orchestrator", type |-> "bug", component |-> component,
         severity |-> IF cross THEN "high" ELSE HighestSeverity(findings),
         outcome |-> IF cross THEN NoOutcome ELSE InheritedOutcome(findings)]

CorrelateFindings(findings) ==
    LET Of(component) == {f \in findings : f.component = component}
    IN  findings \cup {Correlation(c, Of(c)) :
                          c \in {d \in {f.component : f \in findings} : Cardinality(Of(d)) > 1}}

\* Only a fault, or a finding nobody classified, blocks.
Blocking(findings) ==
    {f \in findings : /\ f.severity \in {"high", "critical"}
                      /\ f.outcome = NoOutcome \/ f.outcome.basis = "fault"}

(***************************************************************************)
(* Coverage and the verdict.                                                *)
(***************************************************************************)
\* A set of <<agent, value>> pairs, so that equal values of two agents both count.
Average(values) ==
    IF values = {} THEN 0
    ELSE (2 * MapThenSumSet(LAMBDA v : v[2], values) + Cardinality(values))
            \div (2 * Cardinality(values))

\* measured[d]: the pairs of the agents that measured dimension d.
OverallCoverage(measured) ==
    Average({<<d, Average(measured[d])>> : d \in {e \in DOMAIN measured : measured[e] # {}}})

Candidates(outcomes, blocking, coverage) ==
    LET some(b) == \E o \in outcomes : o.basis = b
    IN  (IF some("indeterminate") THEN {"indeterminate"} ELSE {})
          \cup (IF some("fault") \/ blocking > 0 THEN {"failed"} ELSE {})
          \cup (IF some("no_evidence") \/ some("contradiction") \/ coverage = 0
                THEN {"unverified"} ELSE {})
          \cup (IF some("evidence") \/ (outcomes = {} /\ coverage > 0) THEN {"verified"} ELSE {})

\* The strongest claim that the evidence supports.
DetermineRun(outcomes, blocking, coverage) ==
    LET candidates == Candidates(outcomes, blocking, coverage)
    IN  CASE "failed" \in candidates        -> "failed"
          [] "failed" \notin candidates /\ "indeterminate" \in candidates -> "indeterminate"
          [] candidates = {"verified"}      -> "verified"
          [] OTHER                          -> "unverified"

================================================================================
