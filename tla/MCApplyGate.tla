------------------------------ MODULE MCApplyGate ------------------------------
EXTENDS ApplyGate, TLC

CONSTANTS kName, kTerms, kSend

PageStep(key, settle, inspects, verify) ==
    [key |-> key, scope |-> "target", allowed |-> TRUE, retry |-> FALSE, cas |-> FALSE,
     reread |-> FALSE, inspects |-> inspects, verify |-> verify, settle |-> settle]

\* settleSurfAttempt, and the click's own settlement over it.
FillSettle  == [value |-> "applied", refused |-> "failed", vague |-> "unknown"]
ClickSettle == [FillSettle EXCEPT !["value"] = "unknown"]

Name  == [toggle |-> FALSE, step |-> PageStep(kName, FillSettle, TRUE, FALSE)]
Terms == [toggle |-> TRUE,  step |-> PageStep(kTerms, FillSettle, TRUE, FALSE)]

MCSubmit  == PageStep(kSend, ClickSettle, FALSE, TRUE)
MCSteps   == {Name.step, Terms.step, MCSubmit}
TwoFields == <<Name, Terms>>
OneField  == <<Name>>

Symm    == Permutations(Runs)
MCCalls == Runs \X (1 .. Len(Fields) + 1)

================================================================================
