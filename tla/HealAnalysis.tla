----------------------------- MODULE HealAnalysis ------------------------------
(***************************************************************************)
(* Which selectors `heal` proposes to rewrite (the first half of            *)
(* healing/self-healing.ts): those that look stale, that a finding speaks   *)
(* of when findings are given, and that no frame puts out of reach. Pure    *)
(* functions of a selector and the findings.                                *)
(***************************************************************************)
EXTENDS Naturals, Sequences

CONSTANT NotGiven   \* not given: an outcome, a determination, the findings themselves

\* A selector, as the patterns tell it apart: it has no stale part, a stale prefix, or a
\* stale part elsewhere, inside a test id or not.
SelectorForms == {"fresh", "prefixed", "inner_testid", "inner"}

\* A finding: the basis of its outcome, its frame determination in the typed field and in
\* the evidence line, and the selectors its evidence mentions.
IsFinding(f, selectors) ==
    /\ f.basis \in {"fault", "no_evidence", "contradiction", "indeterminate", NotGiven}
    /\ {f.typed, f.marker} \subseteq
           {"confirmed", "undetermined", "unavailable", "suspected", "excluded", NotGiven}
    /\ f.names \subseteq selectors

\* The typed field decides; the evidence line only where there is none.
FrameDeterminationOfFinding(f) == IF f.typed # NotGiven THEN f.typed ELSE f.marker

\* Seeded fault: a frame that is only suspected is no obstacle.
PermissionUnlessConfirmed(determination) ==
    IF determination \in {NotGiven, "excluded", "suspected"} THEN "heal" ELSE "refuse"

FramePermissionFor(determination) ==
    IF determination \in {NotGiven, "excluded"} THEN "heal"
    ELSE IF determination = "suspected" THEN "caveat"
    ELSE "refuse"

\* Seeded fault: every finding counts, whatever was learned.
AnyFinding(f) == TRUE

IsHealableFinding(f) == f.basis \in {NotGiven, "fault"}

\* The selectors the evidence mentions, each with the first finding that mentions it.
Mentions(s, findings) ==
    {i \in DOMAIN findings : IsHealableFinding(findings[i]) /\ s \in findings[i].names}

Triggering(s, findings) ==
    findings[CHOOSE i \in Mentions(s, findings) : \A j \in Mentions(s, findings) : i <= j]

\* Without findings every stale selector is a candidate, with no finding to ask.
Targeted(s, findings) == findings # NotGiven => Mentions(s, findings) # {}

Permission(s, findings) ==
    IF findings = NotGiven THEN FramePermissionFor(NotGiven)
    ELSE FramePermissionFor(FrameDeterminationOfFinding(Triggering(s, findings)))

ValidateSelector(form) == form = "fresh"

\* The strategies that can make something of a selector in a file, by priority. The others
\* ask for a last good element or a screenshot, which a file does not have. The fallback
\* to the test id gives back the selector it was given.
Strategies ==
    <<[name |-> "legacy-prefix-trim", of |-> {"prefixed"}, confidence |-> 80],
      [name |-> "testid-fallback", of |-> {"inner_testid"}, confidence |-> 95]>>

\* The first strategy that is confident enough wins.
Heals(form) ==
    \E i \in DOMAIN Strategies : form \in Strategies[i].of /\ Strategies[i].confidence >= 70

Candidate(s, form, findings) == ~ValidateSelector(form) /\ Targeted(s, findings)

\* A determination that does not license a rewrite is a refusal, before any strategy.
Refused(s, form, findings) ==
    Candidate(s, form, findings) /\ Permission(s, findings) = "refuse"

Proposed(s, form, findings) ==
    Candidate(s, form, findings) /\ Permission(s, findings) # "refuse" /\ Heals(form)

\* The proposal is kept for a reviewer, and never applied.
Caveated(s, form, findings) ==
    Proposed(s, form, findings) /\ Permission(s, findings) = "caveat"

================================================================================
