----------------------------- MODULE MCFlowSubmit ------------------------------
EXTENDS FlowSubmit, TLC

CONSTANTS kFill, kSend, kConfirm

ActSettle    == [k \in AttemptKinds |-> "undeclared"]
SubmitSettle == [value |-> "unknown", refused |-> "failed", vague |-> "unknown"]

LedgerStep(key, settle, verify) ==
    [key |-> key, scope |-> "target", allowed |-> TRUE, retry |-> FALSE, cas |-> FALSE,
     reread |-> FALSE, inspects |-> FALSE, verify |-> verify, settle |-> settle]

Fill    == LedgerStep(kFill, ActSettle, FALSE)
Send    == LedgerStep(kSend, SubmitSettle, TRUE)
Confirm == LedgerStep(kConfirm, SubmitSettle, TRUE)

MCSteps == {Fill, Send, Confirm}

\* A page that is looked at, a field, then a form that is sent in two submits.
TwoSubmits ==
    <<[kind |-> "read", step |-> Fill],
      [kind |-> "act", step |-> Fill],
      [kind |-> "submit", step |-> Send],
      [kind |-> "submit", step |-> Confirm]>>

MCCalls == Runs \X DOMAIN Flow

================================================================================
