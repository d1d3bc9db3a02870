--------------------------- MODULE MCMutationLedger ----------------------------
EXTENDS MutationLedger, TLC

CONSTANTS kWrite, kBad

\* A conditional write of a file, which is read again afterwards.
WriteStep ==
    [key |-> kWrite, scope |-> "workspace", allowed |-> TRUE, retry |-> FALSE,
     cas |-> TRUE, reread |-> TRUE, inspects |-> FALSE, verify |-> TRUE,
     settle |-> [value |-> "applied", refused |-> "failed", vague |-> "unknown"]]

\* A click on an origin the operator did not name.
ForeignStep ==
    [key |-> kBad, scope |-> "target", allowed |-> FALSE, retry |-> FALSE,
     cas |-> FALSE, reread |-> FALSE, inspects |-> FALSE, verify |-> TRUE,
     settle |-> [value |-> "unknown", refused |-> "failed", vague |-> "unknown"]]

MixedSteps == {WriteStep, ForeignStep}

Symm == Permutations(Calls) \cup Permutations(Runs)

================================================================================
