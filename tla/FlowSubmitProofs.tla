--------------------------- MODULE FlowSubmitProofs ----------------------------
(***************************************************************************)
(* Proofs about `surf flow`: whatever the runs on one flow file interleave, *)
(* and wherever they die, its submits are acted by one run at most. The     *)
(* flow only strings calls of the mutation ledger together, so the ledger's *)
(* own invariant carries over.                                              *)
(***************************************************************************)
EXTENDS FlowSubmit, MutationLedgerProofs, SequenceTheorems

\* A step in hand is a step of the file, and its call is a call of the ledger.
LEMMA CurrentIsCall ==
    ASSUME FlowTypeOK, NEW r \in Runs, ~AtEnd(r)
    PROVE  /\ index[r] \in DOMAIN Flow
           /\ Current(r) \in Calls
           /\ Flow[index[r]].step \in Steps
<1> DEFINE FlowStep == [kind : {"read", "act", "submit"}, step : Steps]
<1>1. /\ Len(Flow) \in Nat
      /\ DOMAIN Flow = 1 .. Len(Flow)
      /\ \A i \in DOMAIN Flow : Flow[i].step \in Steps
  <2>1. Flow \in Seq(FlowStep)
    BY FlowAssumption
  <2>2. /\ Len(Flow) \in Nat
        /\ DOMAIN Flow = 1 .. Len(Flow)
        /\ \A i \in 1 .. Len(Flow) : Flow[i] \in FlowStep
    <3> HIDE DEF FlowStep
    <3> QED  BY <2>1, LenProperties, ElementOfSeq
  <2> QED  BY <2>2
<1>2. index[r] \in 1 .. Len(Flow) + 1
  BY DEF FlowTypeOK, Indices
<1>3. index[r] # Len(Flow) + 1
  BY DEF AtEnd
<1>4. index[r] \in 1 .. Len(Flow)
  BY <1>1, <1>2, <1>3
<1>5. Calls = Runs \X DOMAIN Flow
  BY FlowAssumption
<1> QED  BY <1>1, <1>4, <1>5 DEF Current

\* Every step of the flow is a step of the ledger, or leaves it alone.
LEMMA FlowStepsLedger ==
    ASSUME FlowTypeOK, FlowNext
    PROVE  [Next]_vars
<1>1. ASSUME NEW r \in Runs, Launch(r)  PROVE Next
  BY <1>1 DEF Launch, Next
<1>2. ASSUME NEW r \in Runs, StartStep(r)  PROVE Next
  BY <1>2, CurrentIsCall DEF StartStep, Next
<1>3. ASSUME NEW r \in Runs, Close(r) \/ Die(r)  PROVE Next
  BY <1>3 DEF Close, Die, Next
<1>4. ASSUME NEW c \in Calls, LedgerMoves(c)  PROVE Next
  BY <1>4 DEF LedgerMoves, Next
<1>5. ASSUME NEW r \in Runs, Operation(r), ~StartStep(r), ~Close(r)  PROVE UNCHANGED vars
  BY <1>5
     DEF Operation, CheckReceipts, CheckClaim, OpenSession, ReadStep, StopAtGate, Reserve,
         StepUnstarted, StepReturned, StepThrew, Complete
<1> QED  BY <1>1, <1>2, <1>3, <1>4, <1>5 DEF FlowNext

\* The variables the flow adds keep their types.
LEMMA FlowTypes ==
    ASSUME FlowTypeOK, ClaimInv, FlowNext, TypeOK'
    PROVE  FlowTypeOK'
<1> USE DEF FlowTypeOK, Places, Statuses, Indices, Options
<1>1. ASSUME NEW r \in Runs, Launch(r)  PROVE FlowTypeOK'
  <2>1. PICK o \in Options :
           /\ options' = [options EXCEPT ![r] = o]
           /\ \/ Leave(r, "refused")
              \/ Goto(r, "receiptCheck")
              \/ Goto(r, "session")
    BY <1>1, Zenon DEF Launch
  <2>2. at' \in [Runs -> Places] /\ status' \in [Runs -> Statuses]
    BY <2>1 DEF Leave, Goto
  <2>3. options' \in [Runs -> Options]
    BY <2>1
  <2> QED  BY <1>1, <2>2, <2>3 DEF Launch
<1>2. ASSUME NEW r \in Runs, CheckReceipts(r) \/ CheckClaim(r) \/ OpenSession(r)
      PROVE  FlowTypeOK'
  BY <1>2 DEF CheckReceipts, CheckClaim, OpenSession, Leave, Goto
<1>3. ASSUME NEW r \in Runs, ReadStep(r)  PROVE FlowTypeOK'
  <2>1. index[r] + 1 \in Indices
    BY <1>3, FlowAssumption DEF ReadStep, AtEnd
  <2> QED  BY <1>3, <2>1 DEF ReadStep, Leave
<1>4. ASSUME NEW r \in Runs, StopAtGate(r) \/ Reserve(r) \/ StartStep(r) \/ StepUnstarted(r)
      PROVE  FlowTypeOK'
  BY <1>4 DEF StopAtGate, Reserve, Create, StartStep, StepUnstarted, Leave, Goto
<1>5. ASSUME NEW r \in Runs, StepReturned(r)  PROVE FlowTypeOK'
  <2>1. index[r] + 1 \in Indices
    BY <1>5, FlowAssumption DEF StepReturned, AtEnd, ClaimInv
  <2> QED  BY <1>5, <2>1 DEF StepReturned, Goto
<1>6. ASSUME NEW r \in Runs, StepThrew(r) \/ Complete(r)  PROVE FlowTypeOK'
  BY <1>6 DEF StepThrew, Complete, Leave
<1>7. ASSUME NEW r \in Runs, Close(r) \/ Die(r)  PROVE FlowTypeOK'
  BY <1>7 DEF Close, Die
<1>8. ASSUME NEW c \in Calls, LedgerMoves(c)  PROVE FlowTypeOK'
  BY <1>8 DEF LedgerMoves, flowVars
<1> QED  BY <1>1, <1>2, <1>3, <1>4, <1>5, <1>6, <1>7, <1>8 DEF FlowNext, Operation

\* Whoever is at a submit, or was, holds the claim; nobody takes it from them.
LEMMA ClaimStep ==
    ASSUME FlowTypeOK, IInv, ClaimInv, FlowNext
    PROVE  ClaimInv'
<1> USE DEF ClaimInv, FlowTypeOK
<1>1. ASSUME NEW r \in Runs, Launch(r)  PROVE ClaimInv'
  BY <1>1 DEF Launch, StartRun, Leave, Goto, AtEnd
<1>2. ASSUME NEW r \in Runs, CheckReceipts(r) \/ CheckClaim(r) \/ OpenSession(r)
      PROVE  ClaimInv'
  BY <1>2 DEF CheckReceipts, CheckClaim, OpenSession, Leave, Goto, vars, AtEnd
<1>3. ASSUME NEW r \in Runs, ReadStep(r) \/ StopAtGate(r) \/ StepUnstarted(r)
      PROVE  ClaimInv'
  BY <1>3 DEF ReadStep, StopAtGate, StepUnstarted, Leave, vars, AtEnd
<1>4. ASSUME NEW r \in Runs, Reserve(r)  PROVE ClaimInv'
  <2>1. \A c \in SubmitCalls : c[1] \in Runs
    BY FlowAssumption DEF SubmitCalls
  <2> QED  BY <1>4, <2>1, FlowAssumption
              DEF Reserve, Create, Reserved, Leave, Goto, vars, AtEnd, IntentAccepted
<1>5. ASSUME NEW r \in Runs, StartStep(r)  PROVE ClaimInv'
  <2>1. /\ Current(r)[1] = r /\ Current(r)[2] = index[r]
        /\ \A c \in Calls \ {Current(r)} : call'[c] = call[c]
    BY <1>5 DEF StartStep, Begin, Current, TypeOK
  <2>2. Current(r) \in SubmitCalls => claim = r
    BY <1>5, <2>1 DEF StartStep, SubmitCalls
  <2> QED  BY <1>5, <2>1, <2>2, FlowAssumption DEF StartStep, Goto, AtEnd, SubmitCalls
<1>6. ASSUME NEW r \in Runs, StepReturned(r)  PROVE ClaimInv'
  <2>1. call[Current(r)] # None /\ Current(r) \in Calls
    BY <1>6, CurrentIsCall DEF StepReturned, IInv, Lives
  <2>2. Kind(index[r]) = "submit" => claim = r
    BY <2>1 DEF SubmitCalls, Current
  <2> QED  BY <1>6, <2>2, FlowAssumption DEF StepReturned, Goto, vars, AtEnd
<1>7. ASSUME NEW r \in Runs, StepThrew(r) \/ Complete(r)  PROVE ClaimInv'
  BY <1>7 DEF StepThrew, Complete, Leave, vars, AtEnd
<1>8. ASSUME NEW r \in Runs, Close(r) \/ Die(r)  PROVE ClaimInv'
  BY <1>8 DEF Close, Die, EndRun, CrashRun, AtEnd
<1>9. ASSUME NEW c \in Calls, LedgerMoves(c)  PROVE ClaimInv'
  <2>1. UNCHANGED call
    BY <1>9
       DEF LedgerMoves, Advance, ListStore, Reread, OpenReceipt, OpenFails, Act, Settle,
           Verify, FinalizeReceipt, FinalizeFails
  <2> QED  BY <1>9, <2>1 DEF LedgerMoves, flowVars, AtEnd
<1> QED  BY <1>1, <1>2, <1>3, <1>4, <1>5, <1>6, <1>7, <1>8, <1>9 DEF FlowNext, Operation


\* The ledger's invariant carries over, and the claim's stands beside it.
LEMMA FlowInductive == FlowSpec => [](FlowTypeOK /\ IInv /\ ClaimInv)
<1>1. FlowInit => FlowTypeOK /\ IInv /\ ClaimInv
  <2> SUFFICES ASSUME FlowInit  PROVE FlowTypeOK /\ IInv /\ ClaimInv
    OBVIOUS
  <2>1. TypeOK /\ IInv
    BY InitEstablishes DEF FlowInit
  <2>2. 1 \in Indices
    <3>1. Len(Flow) \in Nat
      BY FlowAssumption, LenProperties
    <3> QED  BY <3>1 DEF Indices
  <2>3. FlowTypeOK
    BY <2>1, <2>2 DEF FlowInit, FlowTypeOK, Places, Statuses, Options
  <2>4. ClaimInv
    BY DEF FlowInit, Init, ClaimInv, SubmitCalls
  <2> QED  BY <2>1, <2>3, <2>4
<1>2. FlowTypeOK /\ IInv /\ ClaimInv /\ [FlowNext]_allVars => (FlowTypeOK /\ IInv /\ ClaimInv)'
  <2> SUFFICES ASSUME FlowTypeOK, IInv, ClaimInv, [FlowNext]_allVars
               PROVE  (FlowTypeOK /\ IInv /\ ClaimInv)'
    OBVIOUS
  <2>1. CASE FlowNext
    <3>1. TypeOK' /\ IInv'
      BY <2>1, FlowStepsLedger, LedgerStep DEF FlowTypeOK
    <3> QED  BY <2>1, <3>1, FlowTypes, ClaimStep
  <2>2. CASE UNCHANGED allVars
    <3>1. TypeOK' /\ IInv'
      BY <2>2, LedgerStep DEF FlowTypeOK, allVars
    <3>2. FlowTypeOK'
      BY <2>2, <3>1 DEF allVars, flowVars, FlowTypeOK
    <3>3. ClaimInv'
      BY <2>2 DEF allVars, flowVars, vars, ClaimInv, AtEnd
    <3> QED  BY <3>1, <3>2, <3>3
  <2> QED  BY <2>1, <2>2
<1> QED  BY <1>1, <1>2, PTL DEF FlowSpec

\* Every behaviour of a flow is one of the ledger, so that what is proved of `runStep` for
\* any client holds of the flow's steps.
THEOREM FlowImplementsLedger == FlowSpec => Spec
<1>1. FlowInit => Init
  BY DEF FlowInit
<1>2. FlowTypeOK /\ [FlowNext]_allVars => [Next]_vars
  <2>1. UNCHANGED allVars => UNCHANGED vars
    BY DEF allVars
  <2> QED  BY <2>1, FlowStepsLedger
<1> QED  BY <1>1, <1>2, FlowInductive, PTL DEF FlowSpec, Spec

\* What the flow's receipts call definite is true of the target, where its steps say
\* `failed` only of what did not happen.
THEOREM FlowDefiniteIsTrueHolds ==
    ASSUME \A s \in Steps : Honest(s)
    PROVE  FlowSpec => []DefiniteIsTrue
<1>1. Spec => []DefiniteIsTrue
  BY DefiniteIsTrueHolds
<1> QED  BY <1>1, FlowImplementsLedger, PTL

\* What a step of the flow was told of its act is what the store says of it.
THEOREM FlowResultMatchesStoreHolds == FlowSpec => []ResultMatchesStore
BY FlowImplementsLedger, ResultMatchesStoreHolds, PTL

\* An act needs a call, and a call of a submit needs the claim.
LEMMA ActedIsClaimed ==
    ASSUME FlowTypeOK, IInv, ClaimInv, NEW c \in SubmitCalls, Acted(c)
    PROVE  claim = c[1]
<1>1. c \in Calls /\ Stored(c) /\ pc[c] # "idle"
  BY DEF SubmitCalls, IInv, Phases, PhaseOf
<1> QED  BY <1>1 DEF IInv, Lives, ClaimInv

--------------------------------------------------------------------------------
\* Every state of the flow has its types, its steps stay within the file.
THEOREM FlowTypeCorrect == FlowSpec => []FlowTypeOK
BY FlowInductive, PTL

\* Whoever acts a submit holds the claim, whatever the runs interleave.
THEOREM ClaimHolds == FlowSpec => []ClaimInv
BY FlowInductive, PTL

\* At most one run submits, over all the runs there will ever be, dead ones included.
THEOREM OneRunSubmitsHolds == FlowSpec => []OneRunSubmits
<1>1. FlowTypeOK /\ IInv /\ ClaimInv => OneRunSubmits
  BY ActedIsClaimed DEF OneRunSubmits
<1> QED  BY FlowInductive, <1>1, PTL

\* A submit acts only behind its own run's claim, in a run told to submit this content.
THEOREM SubmitIsClaimedHolds == FlowSpec => []SubmitIsClaimed
<1>1. FlowTypeOK /\ IInv /\ ClaimInv => SubmitIsClaimed
  <2> SUFFICES ASSUME FlowTypeOK, IInv, ClaimInv, NEW c \in SubmitCalls, Acted(c)
               PROVE  claim = c[1] /\ options[c[1]].submit /\ options[c[1]].confirmed
    BY DEF SubmitIsClaimed
  <2>1. claim = c[1] /\ c[1] \in Runs
    BY ActedIsClaimed, FlowAssumption DEF SubmitCalls
  <2> QED  BY <2>1, FlowAssumption DEF ClaimInv
<1> QED  BY FlowInductive, <1>1, PTL

\* A run passes the second check only at a claim check that found no claim.
LEMMA PassesUnclaimed ==
    ASSUME FlowTypeOK, FlowNext, NEW r \in Runs, at[r] = "claimCheck", at'[r] = "session"
    PROVE  claim = None
<1>0. at \in [Runs -> Places]
  BY DEF FlowTypeOK
<1>1. ASSUME NEW q \in Runs, Launch(q)  PROVE FALSE
  BY <1>0, <1>1 DEF Launch, Leave, Goto
<1>2. ASSUME NEW q \in Runs, Die(q)  PROVE FALSE
  BY <1>0, <1>2 DEF Die
<1>3. ASSUME NEW c \in Calls, LedgerMoves(c)  PROVE FALSE
  BY <1>3 DEF LedgerMoves, flowVars
<1>4. ASSUME NEW q \in Runs, Operation(q), ~CheckClaim(q)  PROVE FALSE
  BY <1>0, <1>4
     DEF Operation, CheckReceipts, OpenSession, ReadStep, StopAtGate, Reserve, StartStep,
         StepUnstarted, StepReturned, StepThrew, Complete, Close, Leave, Goto
<1>5. ASSUME NEW q \in Runs, CheckClaim(q)  PROVE claim = None
  BY <1>0, <1>5 DEF CheckClaim, Reserved, Leave, Goto
<1> QED  BY <1>1, <1>2, <1>3, <1>4, <1>5 DEF FlowNext

\* Two reads of the store, one after the other, are enough: when a submitting run passes
\* the second, no submit of this flow has left a receipt or an act.
THEOREM GateClosedForGoodHolds == FlowSpec => GateClosedForGood
<1>1. ASSUME FlowTypeOK, IInv, ClaimInv, claim = None, NEW c \in SubmitCalls
      PROVE  ~Stored(c) /\ ~Acted(c)
  <2>1. c \in Calls /\ c[1] \in Runs
    BY FlowAssumption DEF SubmitCalls
  <2>2. call[c] = None
    BY <1>1, <2>1, FlowAssumption DEF ClaimInv
  <2>3. pc[c] = "idle"
    BY <1>1, <2>1, <2>2 DEF IInv, Lives
  <2> QED  BY <1>1, <2>1, <2>3 DEF IInv, Phases, PhaseOf
<1>2. FlowTypeOK /\ IInv /\ ClaimInv /\ [FlowNext]_allVars =>
        [\A r \in Runs : (at[r] = "claimCheck" /\ at'[r] = "session") =>
            \A c \in SubmitCalls : ~Stored(c) /\ ~Acted(c)]_allVars
  BY <1>1, PassesUnclaimed
<1> QED  BY FlowInductive, <1>2, PTL DEF FlowSpec, GateClosedForGood

--------------------------------------------------------------------------------
\* A step of the flow takes the claim, performs a submit of the run that holds it, or
\* is none of the gate's business.
LEMMA FlowStepsGate ==
    ASSUME FlowTypeOK, IInv, ClaimInv, ClaimInv', FlowNext
    PROVE  Gate!Next \/ UNCHANGED <<claim, {c \in SubmitCalls : Acted(c)}>>
<1>1. ASSUME UNCHANGED <<claim, world>>
      PROVE  UNCHANGED <<claim, {c \in SubmitCalls : Acted(c)}>>
  BY <1>1 DEF Acted
<1>2. ASSUME NEW r \in Runs, Launch(r)  PROVE UNCHANGED <<claim, world>>
  BY <1>2 DEF Launch, StartRun
<1>3. ASSUME NEW r \in Runs, Operation(r), ~Reserve(r)  PROVE UNCHANGED <<claim, world>>
  BY <1>3
     DEF Operation, CheckReceipts, CheckClaim, OpenSession, ReadStep, StopAtGate, StartStep,
         Begin, StepUnstarted, StepReturned, StepThrew, Complete, Close, EndRun, vars
<1>4. ASSUME NEW r \in Runs, Reserve(r)
      PROVE  Gate!Take(r) \/ UNCHANGED <<claim, world>>
  BY <1>4 DEF Reserve, Create, Reserved, vars, Gate!Take, Acted
<1>5. ASSUME NEW r \in Runs, Die(r)  PROVE UNCHANGED <<claim, world>>
  BY <1>5 DEF Die, EndRun, CrashRun
<1>6. ASSUME NEW c \in Calls, LedgerMoves(c), ~Act(c)  PROVE UNCHANGED <<claim, world>>
  BY <1>6
     DEF LedgerMoves, flowVars, Advance, ListStore, Reread, OpenReceipt, OpenFails, Settle,
         Verify, FinalizeReceipt, FinalizeFails
<1>7. ASSUME NEW c \in Calls, LedgerMoves(c), Act(c)
      PROVE  Gate!Next \/ UNCHANGED <<claim, {d \in SubmitCalls : Acted(d)}>>
  <2>1. /\ c = <<c[1], c[2]>> /\ c[1] \in Runs /\ c[2] \in DOMAIN Flow
    BY FlowAssumption
  <2>2. ~Acted(c) /\ Acted(c)' /\ claim' = claim /\ call[c] # None
    BY <1>7
       DEF Act, LedgerMoves, flowVars, IInv, Phases, PhaseOf, Lives, Acted, Fates,
           FlowTypeOK, TypeOK
  <2>3. \A d \in Calls \ {c} : world'[d] = world[d]
    BY <1>7 DEF Act, FlowTypeOK, TypeOK
  <2>4. CASE c \in SubmitCalls
    <3>1. claim = c[1]
      BY <2>2, <2>4 DEF ClaimInv
    <3>2. {d \in SubmitCalls : Acted(d)}' = {d \in SubmitCalls : Acted(d)} \cup {c}
      BY <2>2, <2>3, <2>4 DEF SubmitCalls, Acted
    <3>3. c \notin {d \in SubmitCalls : Acted(d)}
      BY <2>2
    <3>4. Gate!Perform(c[1], c[2])
      BY <2>1, <2>2, <3>1, <3>2, <3>3 DEF Gate!Perform
    <3> QED  BY <2>1, <3>4 DEF Gate!Next
  <2>5. CASE c \notin SubmitCalls
    BY <2>2, <2>3, <2>5 DEF SubmitCalls, Acted
  <2> QED  BY <2>4, <2>5
<1> QED  BY <1>1, <1>2, <1>3, <1>4, <1>5, <1>6, <1>7 DEF FlowNext, Gate!Next

\* The loop, its checks and its claim implement the indivisible gate: one owner, for
\* good, and each of its submit acts performed once.
THEOREM FlowImplementsSubmitOnce == FlowSpec => ImplementsSubmitOnce
<1>1. FlowInit => Gate!Init
  BY DEF FlowInit, Init, Gate!Init, Acted, SubmitCalls
<1>2. FlowTypeOK /\ IInv /\ ClaimInv /\ ClaimInv' /\ [FlowNext]_allVars => [Gate!Next]_(Gate!vars)
  <2>1. UNCHANGED allVars => UNCHANGED <<claim, {c \in SubmitCalls : Acted(c)}>>
    BY DEF allVars, vars, flowVars, Acted
  <2> QED  BY <2>1, FlowStepsGate DEF Gate!vars
<1> QED  BY FlowInductive, <1>1, <1>2, PTL DEF FlowSpec, ImplementsSubmitOnce, Gate!Spec

================================================================================
