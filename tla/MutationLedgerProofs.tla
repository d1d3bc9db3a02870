------------------------- MODULE MutationLedgerProofs --------------------------
(***************************************************************************)
(* Proofs about the mutation ledger, for every set of runs, calls and steps.*)
(***************************************************************************)
EXTENDS MutationLedger, TLAPS

\* A settlement is an outcome the ledger may write, or it is rejected.
LEMMA SettledOutcomeRange ==
    ASSUME NEW s \in Steps, NEW kind \in AttemptKinds
    PROVE  SettledOutcome(s, kind) \in Settled \cup {"rejected"}
BY StepsAssumption
   DEF StepShape, SettledOutcome, ErrorOutcome, DefaultOutcome, AttemptKinds, Settled,
       Definite

\* What an honest step settles as agrees with what its act did.
LEMMA SettledOutcomeTrue ==
    ASSUME NEW s \in Steps, NEW kind \in AttemptKinds, Honest(s),
           NEW fate \in Fates(s, kind)
    PROVE  /\ SettledOutcome(s, kind) = "applied" => fate = "took"
           /\ SettledOutcome(s, kind) = "failed" => fate = "spared"
<1>1. s.settle \in [AttemptKinds -> Settled \cup {"undeclared"}]
  BY StepsAssumption DEF StepShape
<1>2. CASE kind = "value"
  BY <1>1, <1>2 DEF SettledOutcome, Honest, Fates
<1>3. CASE kind = "refused"
  BY <1>1, <1>3 DEF SettledOutcome, ErrorOutcome, DefaultOutcome, Honest, Fates
<1>4. CASE kind = "vague"
  BY <1>1, <1>4 DEF SettledOutcome, ErrorOutcome, DefaultOutcome, Honest
<1>5. QED  BY <1>2, <1>3, <1>4 DEF AttemptKinds

LEMMA InitEstablishes == Init => TypeOK /\ IInv
BY DEF Init, TypeOK, IInv, Lives, Phases, PhaseOf, Truths, Claims, Fresh, Decided, Run,
       Outcomes, InFlight, Suspended, Stored, Acted

\* Every step keeps the types; the parts say what the store and memory hold.
LEMMA TypeStep ==
    ASSUME TypeOK, Lives, Phases, Decided, Next
    PROVE  TypeOK'
<1>1. ASSUME NEW c \in Calls, ListStore(c)
      PROVE  TypeOK'
  BY <1>1 DEF ListStore, TypeOK, Suspended, Ended
<1>2. ASSUME NEW c \in Calls, Reread(c)
      PROVE  TypeOK'
  BY <1>2 DEF Reread, TypeOK, Suspended, Ended
<1>3. ASSUME NEW c \in Calls, OpenReceipt(c)
      PROVE  TypeOK'
  <2>1. RunOf(c) \in Runs /\ KeyOf(c) \in Keys
    BY <1>3 DEF OpenReceipt, TypeOK, Lives, CallInfo, RunOf, KeyOf, Keys
  <2>2. NewReceipt(c) \in Receipt
    BY <2>1 DEF NewReceipt, Receipt, TypeOK, Run, Outcomes
  <2> QED  BY <1>3, <2>1, <2>2 DEF OpenReceipt, TypeOK, Suspended
<1>4. ASSUME NEW c \in Calls, OpenFails(c)
      PROVE  TypeOK'
  <2>1. RunOf(c) \in Runs /\ KeyOf(c) \in Keys
    BY <1>4 DEF OpenFails, TypeOK, Lives, CallInfo, RunOf, KeyOf, Keys
  <2>2. NewReceipt(c) \in Receipt
    BY <2>1 DEF NewReceipt, Receipt, TypeOK, Run, Outcomes
  <2> QED  BY <1>4, <2>2 DEF OpenFails, TypeOK, Ended
<1>5. ASSUME NEW c \in Calls, Act(c)
      PROVE  TypeOK'
  <2>1. world' \in [Calls -> {"untouched", "took", "spared"}]
    <3>1. PICK kind \in AttemptKinds :
             \E fate \in Fates(StepOf(c), kind) : world' = [world EXCEPT ![c] = fate]
      BY <1>5 DEF Act
    <3>2. Fates(StepOf(c), kind) \subseteq {"took", "spared"}
      BY DEF Fates
    <3> QED  BY <3>1, <3>2 DEF TypeOK
  <2> QED  BY <1>5, <2>1 DEF Act, TypeOK, Suspended, Ended
<1>6. ASSUME NEW c \in Calls, Settle(c)
      PROVE  TypeOK'
  <2>1. attempt[c] \in AttemptKinds /\ StepOf(c) \in Steps
    BY <1>6 DEF Settle, TypeOK, Decided, Lives, CallInfo, StepOf
  <2>2. SettledOutcome(StepOf(c), attempt[c]) \in Settled \cup {"rejected"}
    BY <2>1, SettledOutcomeRange
  <2> QED  BY <1>6, <2>2 DEF Settle, TypeOK, Outcomes, Suspended, Ended
<1>7. ASSUME NEW c \in Calls, Verify(c)
      PROVE  TypeOK'
  BY <1>7 DEF Verify, TypeOK, Suspended, Ended, Outcomes, Settled, Definite
<1>8. ASSUME NEW c \in Calls, FinalizeReceipt(c)
      PROVE  TypeOK'
  <2>1. disk[c] \in Receipt /\ mem[c] \in Outcomes
    BY <1>8 DEF FinalizeReceipt, TypeOK, Phases, PhaseOf, Stored
  <2>2. [disk[c] EXCEPT !.outcome = mem[c]] \in Receipt
    BY <2>1 DEF Receipt
  <2>3. disk' \in [Calls -> Receipt \cup {None}]
    BY <1>8, <2>2 DEF FinalizeReceipt, TypeOK
  <2> QED  BY <1>8, <2>3 DEF FinalizeReceipt, TypeOK, Ended
<1>9. ASSUME NEW c \in Calls, FinalizeFails(c)
      PROVE  TypeOK'
  <2>1. disk[c] \in Receipt /\ mem[c] \in Outcomes
    BY <1>9 DEF FinalizeFails, TypeOK, Phases, PhaseOf, Stored
  <2>2. [disk[c] EXCEPT !.outcome = mem[c]] \in Receipt
    BY <2>1 DEF Receipt
  <2>3. disk' \in [Calls -> Receipt \cup {None}]
    BY <1>9, <2>2 DEF FinalizeFails, TypeOK
  <2> QED  BY <1>9, <2>3 DEF FinalizeFails, TypeOK, Suspended, Ended
<1>10. ASSUME NEW c \in Calls, NEW r \in Runs, NEW s \in Steps, Begin(c, r, s)
      PROVE  TypeOK'
  BY <1>10 DEF Begin, TypeOK, Suspended, Ended, CallInfo
<1>11. ASSUME NEW r \in Runs, StartRun(r)
      PROVE  TypeOK'
  BY <1>11 DEF StartRun, TypeOK, Run
<1>12. ASSUME NEW r \in Runs, EndRun(r)
      PROVE  TypeOK'
  BY <1>12 DEF EndRun, TypeOK, Run
<1>13. ASSUME NEW r \in Runs, CrashRun(r)
      PROVE  TypeOK'
  BY <1>13 DEF CrashRun, TypeOK, Run, Ended
<1> QED  BY <1>1, <1>2, <1>3, <1>4, <1>5, <1>6, <1>7, <1>8, <1>9, <1>10, <1>11, <1>12, <1>13
            DEF Next, Advance

\* The listing of the store moves its own call, to one of four places, and nothing else.
LEMMA ListingMoves ==
    ASSUME TypeOK, NEW c \in Calls, ListStore(c)
    PROVE  /\ pc[c] = "listing"
           /\ pc'[c] \in {"refused", "rereading", "opening", "threw"}
           /\ \A d \in Calls \ {c} : pc'[d] = pc[d]
           /\ UNCHANGED <<runs, call, byKey, mem, attempt, disk, world, older>>
BY DEF ListStore, TypeOK

\* Only the living run, and each call knows its run.
LEMMA LivesStep ==
    ASSUME TypeOK, Lives, Next
    PROVE  Lives'
<1>1. ASSUME NEW c \in Calls, ListStore(c)
      PROVE  Lives'
  BY <1>1, ListingMoves DEF Lives, InFlight, Suspended, RunOf
<1>2. ASSUME NEW c \in Calls, Reread(c)
      PROVE  Lives'
  BY <1>2 DEF Reread, Lives, InFlight, Suspended, RunOf
<1>3. ASSUME NEW c \in Calls, OpenReceipt(c)
      PROVE  Lives'
  BY <1>3 DEF OpenReceipt, Lives, InFlight, Suspended, RunOf
<1>4. ASSUME NEW c \in Calls, OpenFails(c)
      PROVE  Lives'
  BY <1>4 DEF OpenFails, Lives, InFlight, Suspended, RunOf
<1>5. ASSUME NEW c \in Calls, Act(c)
      PROVE  Lives'
  BY <1>5 DEF Act, Lives, InFlight, Suspended, RunOf
<1>6. ASSUME NEW c \in Calls, Settle(c)
      PROVE  Lives'
  BY <1>6 DEF Settle, TypeOK, Lives, InFlight, Ended, RunOf
<1>7. ASSUME NEW c \in Calls, Verify(c)
      PROVE  Lives'
  BY <1>7 DEF Verify, TypeOK, Lives, InFlight, Ended, RunOf
<1>8. ASSUME NEW c \in Calls, FinalizeReceipt(c)
      PROVE  Lives'
  BY <1>8 DEF FinalizeReceipt, Lives, InFlight, Suspended, RunOf
<1>9. ASSUME NEW c \in Calls, FinalizeFails(c)
      PROVE  Lives'
  BY <1>9 DEF FinalizeFails, Lives, InFlight, Suspended, RunOf
<1>10. ASSUME NEW c \in Calls, NEW r \in Runs, NEW s \in Steps, Begin(c, r, s)
      PROVE  Lives'
  BY <1>10, NoneAssumption DEF Begin, TypeOK, Lives, InFlight, CallInfo, RunOf
<1>11. ASSUME NEW r \in Runs, StartRun(r)
      PROVE  Lives'
  BY <1>11 DEF StartRun, Lives, InFlight, RunOf
<1>12. ASSUME NEW r \in Runs, EndRun(r)
      PROVE  Lives'
  BY <1>12 DEF EndRun, Lives, InFlight, RunOf
<1>13. ASSUME NEW r \in Runs, CrashRun(r)
      PROVE  Lives'
  BY <1>13 DEF CrashRun, Lives, InFlight, Suspended, RunOf
<1> QED  BY <1>1, <1>2, <1>3, <1>4, <1>5, <1>6, <1>7, <1>8, <1>9, <1>10, <1>11, <1>12, <1>13
            DEF Next, Advance

\* Where a call is suspended tells what it has left behind.
LEMMA PhasesStep ==
    ASSUME TypeOK, Lives, Phases, Claims, Decided, Next
    PROVE  Phases'
<1>1. ASSUME NEW c \in Calls, ListStore(c)
      PROVE  Phases'
  BY <1>1, ListingMoves DEF Phases, PhaseOf, Stored, Acted, RunOf, KeyOf
<1>2. ASSUME NEW c \in Calls, Reread(c)
      PROVE  Phases'
  BY <1>2 DEF Reread, Phases, PhaseOf, Stored, Acted, RunOf, KeyOf
<1>3. ASSUME NEW c \in Calls, OpenReceipt(c)
      PROVE  Phases'
  <2>1. call[c] # None /\ RunOf(c) \in Runs /\ NewReceipt(c) # None
    BY <1>3, NoneAssumption
       DEF OpenReceipt, NewReceipt, TypeOK, Lives, CallInfo, RunOf, KeyOf, Keys, Run,
           Receipt, Outcomes
  <2>2. ASSUME NEW d \in Calls, d # c
        PROVE  /\ disk'[d] = disk[d] /\ pc'[d] = pc[d]
               /\ \A r \in Runs : d \in byKey'[r] <=> d \in byKey[r]
               /\ pc[d] # "idle" => RunOf(d) \in Runs
    BY <1>3, <2>2 DEF OpenReceipt, TypeOK, Lives, CallInfo, RunOf
  <2>3. /\ disk'[c] = NewReceipt(c) /\ pc'[c] = "acting"
        /\ c \in byKey'[RunOf(c)] /\ ~Acted(c)
    BY <1>3, <2>1 DEF OpenReceipt, TypeOK, Phases, PhaseOf
  <2>4. UNCHANGED <<call, world>>
    BY <1>3 DEF OpenReceipt
  <2>5. NewReceipt(c).key = KeyOf(c) /\ NewReceipt(c).outcome = "attempting"
    BY DEF NewReceipt
  <2>6. ASSUME NEW d \in Calls, d # c  PROVE PhaseOf(d)'
    BY <2>2, <2>4, <2>6 DEF Phases, PhaseOf, Stored, Acted, RunOf, KeyOf
  <2>7. PhaseOf(c)'
    BY <2>1, <2>3, <2>4, <2>5 DEF PhaseOf, Stored, Acted, RunOf, KeyOf
  <2> QED  BY <2>6, <2>7 DEF Phases
<1>4. ASSUME NEW c \in Calls, OpenFails(c)
      PROVE  Phases'
  BY <1>4 DEF OpenFails, NewReceipt, TypeOK, Phases, PhaseOf, Stored, Acted, RunOf, KeyOf
<1>5. ASSUME NEW c \in Calls, Act(c)
      PROVE  Phases'
  BY <1>5 DEF Act, TypeOK, Phases, PhaseOf, Stored, Acted, RunOf, KeyOf
<1>6. ASSUME NEW c \in Calls, Settle(c)
      PROVE  Phases'
  BY <1>6 DEF Settle, TypeOK, Phases, PhaseOf, Stored, Acted, RunOf, KeyOf
<1>7. ASSUME NEW c \in Calls, Verify(c)
      PROVE  Phases'
  BY <1>7 DEF Verify, TypeOK, Phases, PhaseOf, Stored, Acted, RunOf, KeyOf
<1>8. ASSUME NEW c \in Calls, FinalizeReceipt(c)
      PROVE  Phases'
  <2>1. disk[c] \in Receipt /\ c \in byKey[RunOf(c)]
    BY <1>8 DEF FinalizeReceipt, TypeOK, Phases, PhaseOf, Stored
  <2>2. /\ disk'[c].key = disk[c].key /\ disk'[c].outcome = mem[c] /\ disk'[c] # None
        /\ \A d \in Calls \ {c} : disk'[d] = disk[d] /\ pc'[d] = pc[d]
        /\ pc'[c] \in {"returned", "threw"} /\ (pc'[c] = "returned" => mem[c] = "applied")
    <3>1. [disk[c] EXCEPT !.outcome = mem[c]] \in Receipt
      BY <1>8, <2>1 DEF TypeOK, Receipt
    <3> QED  BY <1>8, <2>1, <3>1, NoneAssumption DEF FinalizeReceipt, TypeOK, Receipt
  <2>3. UNCHANGED <<call, world, byKey>>
    BY <1>8 DEF FinalizeReceipt
  <2> QED  BY <1>8, <2>1, <2>2, <2>3
              DEF FinalizeReceipt, Phases, PhaseOf, Stored, Acted, RunOf, KeyOf
<1>9. ASSUME NEW c \in Calls, FinalizeFails(c)
      PROVE  Phases'
  BY <1>9, NoneAssumption
     DEF FinalizeFails, TypeOK, Lives, Phases, PhaseOf, Claims, Suspended, Receipt, Stored,
         Acted, RunOf, KeyOf
<1>10. ASSUME NEW c \in Calls, NEW r \in Runs, NEW s \in Steps, Begin(c, r, s)
      PROVE  Phases'
  BY <1>10 DEF Begin, Phases, PhaseOf, Stored, Acted, RunOf, KeyOf
<1>11. ASSUME NEW r \in Runs, StartRun(r)
      PROVE  Phases'
  BY <1>11 DEF StartRun, Phases, PhaseOf, Stored, Acted, RunOf, KeyOf
<1>12. ASSUME NEW r \in Runs, EndRun(r)
      PROVE  Phases'
  BY <1>12 DEF EndRun, Phases, PhaseOf, Stored, Acted, RunOf, KeyOf
<1>13. ASSUME NEW r \in Runs, CrashRun(r)
      PROVE  Phases'
  BY <1>13 DEF CrashRun, Phases, PhaseOf, InFlight, Suspended, Stored, Acted, RunOf, KeyOf
<1> QED  BY <1>1, <1>2, <1>3, <1>4, <1>5, <1>6, <1>7, <1>8, <1>9, <1>10, <1>11, <1>12, <1>13
            DEF Next, Advance

\* An honest step's outcome stays true.
LEMMA TruthsStep ==
    ASSUME TypeOK, Lives, Phases, Truths, Decided, Next
    PROVE  Truths'
<1>1. ASSUME NEW c \in Calls, ListStore(c)
      PROVE  Truths'
  BY <1>1, ListingMoves DEF Truths, Stored, StepOf
<1>2. ASSUME NEW c \in Calls, Reread(c)
      PROVE  Truths'
  BY <1>2 DEF Reread, Truths, Stored, StepOf
<1>3. ASSUME NEW c \in Calls, OpenReceipt(c)
      PROVE  Truths'
  BY <1>3 DEF OpenReceipt, NewReceipt, Truths, Stored, StepOf
<1>4. ASSUME NEW c \in Calls, OpenFails(c)
      PROVE  Truths'
  BY <1>4 DEF OpenFails, NewReceipt, Truths, Stored, StepOf
<1>5. ASSUME NEW c \in Calls, Act(c)
      PROVE  Truths'
  BY <1>5 DEF Act, TypeOK, Phases, PhaseOf, Truths, Stored, StepOf
<1>6. ASSUME NEW c \in Calls, Settle(c)
      PROVE  Truths'
  <2>1. attempt[c] \in AttemptKinds /\ StepOf(c) \in Steps /\ call[c] # None
    BY <1>6 DEF Settle, TypeOK, Decided, Lives, CallInfo, StepOf
  <2>2. Honest(StepOf(c)) =>
          /\ SettledOutcome(StepOf(c), attempt[c]) = "applied" => world[c] = "took"
          /\ SettledOutcome(StepOf(c), attempt[c]) = "failed" => world[c] = "spared"
    BY <1>6, <2>1, SettledOutcomeTrue DEF Settle, Truths
  <2> QED  BY <1>6, <2>2 DEF Settle, TypeOK, Truths, Stored, StepOf
<1>7. ASSUME NEW c \in Calls, Verify(c)
      PROVE  Truths'
  BY <1>7 DEF Verify, TypeOK, Truths, Decided, Stored, StepOf
<1>8. ASSUME NEW c \in Calls, FinalizeReceipt(c)
      PROVE  Truths'
  BY <1>8 DEF FinalizeReceipt, Truths, Stored, StepOf
<1>9. ASSUME NEW c \in Calls, FinalizeFails(c)
      PROVE  Truths'
  BY <1>9 DEF FinalizeFails, Truths, Stored, StepOf
<1>10. ASSUME NEW c \in Calls, NEW r \in Runs, NEW s \in Steps, Begin(c, r, s)
      PROVE  Truths'
  BY <1>10 DEF Begin, Phases, PhaseOf, Truths, Stored, StepOf
<1>11. ASSUME NEW r \in Runs, StartRun(r)
      PROVE  Truths'
  BY <1>11 DEF StartRun, Truths, Stored, StepOf
<1>12. ASSUME NEW r \in Runs, EndRun(r)
      PROVE  Truths'
  BY <1>12 DEF EndRun, Truths, Stored, StepOf
<1>13. ASSUME NEW r \in Runs, CrashRun(r)
      PROVE  Truths'
  BY <1>13 DEF CrashRun, Truths, Stored, StepOf
<1> QED  BY <1>1, <1>2, <1>3, <1>4, <1>5, <1>6, <1>7, <1>8, <1>9, <1>10, <1>11, <1>12, <1>13
            DEF Next, Advance

\* What no step takes from call b: its run and step, its receipt and the key of it. Only
\* a call that is finalizing writes another outcome, and none puts a receipt in doubt.
Kept(b) ==
    /\ call[b] # None => call'[b] = call[b]
    /\ Stored(b) => /\ Stored(b)' /\ disk'[b].key = disk[b].key
                    /\ IsInDoubt(b)' => IsInDoubt(b)
                    /\ pc[b] = "threw" => disk'[b] = disk[b]
    /\ ~Stored(b) /\ Stored(b)' => pc[b] = "opening"

LEMMA CallsKept ==
    ASSUME TypeOK, Lives, Phases, Next, NEW b \in Calls
    PROVE  Kept(b)
<1>1. ASSUME NEW c \in Calls, ListStore(c)
      PROVE  Kept(b)
  BY <1>1, ListingMoves DEF Kept, Stored, IsInDoubt
<1>2. ASSUME NEW c \in Calls, Reread(c)
      PROVE  Kept(b)
  BY <1>2 DEF Kept, Reread, TypeOK, Stored, IsInDoubt
<1>3. ASSUME NEW c \in Calls, OpenReceipt(c)
      PROVE  Kept(b)
  BY <1>3 DEF Kept, OpenReceipt, TypeOK, Phases, PhaseOf, Stored, IsInDoubt
<1>4. ASSUME NEW c \in Calls, OpenFails(c)
      PROVE  Kept(b)
  BY <1>4 DEF Kept, OpenFails, TypeOK, Phases, PhaseOf, Stored, IsInDoubt
<1>5. ASSUME NEW c \in Calls, Act(c)
      PROVE  Kept(b)
  BY <1>5 DEF Kept, Act, TypeOK, Stored, IsInDoubt
<1>6. ASSUME NEW c \in Calls, Settle(c)
      PROVE  Kept(b)
  BY <1>6 DEF Kept, Settle, TypeOK, Stored, IsInDoubt
<1>7. ASSUME NEW c \in Calls, Verify(c)
      PROVE  Kept(b)
  BY <1>7 DEF Kept, Verify, TypeOK, Stored, IsInDoubt
<1>8. ASSUME NEW c \in Calls, FinalizeReceipt(c)
      PROVE  Kept(b)
  BY <1>8, NoneAssumption DEF Kept, FinalizeReceipt, TypeOK, Phases, PhaseOf, Receipt, Stored, IsInDoubt, Ended
<1>9. ASSUME NEW c \in Calls, FinalizeFails(c)
      PROVE  Kept(b)
  BY <1>9, NoneAssumption DEF Kept, FinalizeFails, TypeOK, Phases, PhaseOf, Receipt, Stored, IsInDoubt, Ended
<1>10. ASSUME NEW c \in Calls, NEW r \in Runs, NEW s \in Steps, Begin(c, r, s)
      PROVE  Kept(b)
  BY <1>10 DEF Kept, Begin, TypeOK, Lives, Stored, IsInDoubt
<1>11. ASSUME NEW r \in Runs, StartRun(r)
      PROVE  Kept(b)
  BY <1>11 DEF Kept, StartRun, TypeOK, Stored, IsInDoubt
<1>12. ASSUME NEW r \in Runs, EndRun(r)
      PROVE  Kept(b)
  BY <1>12 DEF Kept, EndRun, TypeOK, Stored, IsInDoubt
<1>13. ASSUME NEW r \in Runs, CrashRun(r)
      PROVE  Kept(b)
  BY <1>13 DEF Kept, CrashRun, TypeOK, Stored, IsInDoubt
<1> QED  BY <1>1, <1>2, <1>3, <1>4, <1>5, <1>6, <1>7, <1>8, <1>9, <1>10, <1>11, <1>12, <1>13
            DEF Next, Advance

\* Where call b may come from, but for its beginning.
Began(b) == \E r \in Runs, s \in Steps : Begin(b, r, s)
Arrives(b) ==
    Began(b) \/ /\ call'[b] = call[b] /\ older'[b] = older[b]
                /\ pc'[b] = "listing" => pc[b] = "listing"
                /\ pc[b] = "threw" => pc'[b] = "threw"
                /\ pc'[b] \in {"rereading", "opening"} =>
                      \/ pc[b] \in {"rereading", "opening"}
                      \/ pc[b] = "listing" /\ Blocking(b) = {}
                /\ pc'[b] = "acting" => pc[b] \in {"opening", "acting"}

LEMMA CallsArrive ==
    ASSUME TypeOK, Next, NEW b \in Calls
    PROVE  Arrives(b)
<1>1. ASSUME NEW c \in Calls, ListStore(c)
      PROVE  Arrives(b)
  BY <1>1 DEF Arrives, ListStore, Began, TypeOK
<1>2. ASSUME NEW c \in Calls, Reread(c)
      PROVE  Arrives(b)
  BY <1>2 DEF Arrives, Reread, Began, TypeOK
<1>3. ASSUME NEW c \in Calls, OpenReceipt(c)
      PROVE  Arrives(b)
  BY <1>3 DEF Arrives, OpenReceipt, Began, TypeOK
<1>4. ASSUME NEW c \in Calls, OpenFails(c)
      PROVE  Arrives(b)
  BY <1>4 DEF Arrives, OpenFails, Began, TypeOK
<1>5. ASSUME NEW c \in Calls, Act(c)
      PROVE  Arrives(b)
  BY <1>5 DEF Arrives, Act, Began, TypeOK
<1>6. ASSUME NEW c \in Calls, Settle(c)
      PROVE  Arrives(b)
  BY <1>6 DEF Arrives, Settle, Began, TypeOK
<1>7. ASSUME NEW c \in Calls, Verify(c)
      PROVE  Arrives(b)
  BY <1>7 DEF Arrives, Verify, Began, TypeOK
<1>8. ASSUME NEW c \in Calls, FinalizeReceipt(c)
      PROVE  Arrives(b)
  BY <1>8 DEF Arrives, FinalizeReceipt, Began, TypeOK
<1>9. ASSUME NEW c \in Calls, FinalizeFails(c)
      PROVE  Arrives(b)
  BY <1>9 DEF Arrives, FinalizeFails, Began, TypeOK
<1>10. ASSUME NEW c \in Calls, NEW r \in Runs, NEW s \in Steps, Begin(c, r, s)
      PROVE  Arrives(b)
  BY <1>10 DEF Arrives, Begin, Began, TypeOK
<1>11. ASSUME NEW r \in Runs, StartRun(r)
      PROVE  Arrives(b)
  BY <1>11 DEF Arrives, StartRun, Began, TypeOK
<1>12. ASSUME NEW r \in Runs, EndRun(r)
      PROVE  Arrives(b)
  BY <1>12 DEF Arrives, EndRun, Began, TypeOK
<1>13. ASSUME NEW r \in Runs, CrashRun(r)
      PROVE  Arrives(b)
  BY <1>13 DEF Arrives, CrashRun, Began, InFlight, Suspended
<1> QED  BY <1>1, <1>2, <1>3, <1>4, <1>5, <1>6, <1>7, <1>8, <1>9, <1>10, <1>11, <1>12, <1>13
            DEF Next, Advance

\* A run's memory holds its own calls, and no run supersedes what it opened.
LEMMA ClaimsStep ==
    ASSUME TypeOK, Lives, Phases, Claims, Next
    PROVE  Claims'
<1>1. ASSUME NEW q \in Runs, NEW b \in byKey'[q]
      PROVE  call'[b] # None /\ RunOf(b)' = q
  <2>1. CASE b \in byKey[q]
    <3>1. b \in Calls /\ call[b] # None /\ RunOf(b) = q
      BY <2>1 DEF Claims, TypeOK
    <3> QED  BY <3>1, CallsKept DEF Kept, RunOf
  <2>2. CASE b \notin byKey[q]
    <3>1. PICK c \in Calls : OpenReceipt(c)
      BY <2>2, <1>1
         DEF Next, Advance, ListStore, Reread, OpenFails, Act, Settle, Verify, FinalizeReceipt,
             FinalizeFails, Begin, StartRun, EndRun, CrashRun
    <3>2. b = c /\ q = RunOf(c)
      BY <1>1, <2>2, <3>1 DEF OpenReceipt, TypeOK
    <3> QED  BY <3>1, <3>2 DEF OpenReceipt, Lives, RunOf
  <2> QED  BY <2>1, <2>2
<1>2. ASSUME NEW q \in Runs
      PROVE  /\ runs'[q].life = "unborn" => runs[q].life = "unborn"
             /\ \/ runs'[q].supersede = runs[q].supersede
                \/ /\ runs[q].life = "unborn"
                   /\ runs'[q].supersede \in {d \in Calls : Stored(d)} \cup {None}
  <2>1. CASE UNCHANGED runs
    BY <2>1
  <2>2. ASSUME NEW r \in Runs, StartRun(r)
        PROVE  /\ runs'[q].life = "unborn" => runs[q].life = "unborn"
               /\ \/ runs'[q].supersede = runs[q].supersede
                  \/ /\ runs[q].life = "unborn"
                     /\ runs'[q].supersede \in {d \in Calls : Stored(d)} \cup {None}
    BY <2>2 DEF StartRun, TypeOK, Run
  <2>3. ASSUME NEW r \in Runs, EndRun(r) \/ CrashRun(r)
        PROVE  /\ runs'[q].life = "unborn" => runs[q].life = "unborn"
               /\ runs'[q].supersede = runs[q].supersede
    BY <2>3 DEF EndRun, CrashRun, TypeOK, Run
  <2> QED  BY <2>1, <2>2, <2>3
              DEF Next, Advance, ListStore, Reread, OpenReceipt, OpenFails, Act, Settle, Verify,
                  FinalizeReceipt, FinalizeFails, Begin
<1>3. ASSUME NEW q \in Runs, runs'[q].supersede # None
      PROVE  (Stored(runs[q].supersede) /\ RunOf(runs[q].supersede) # q)'
  <2> DEFINE w == runs'[q].supersede
  <2>1. w \in Calls /\ Stored(w) /\ RunOf(w) # q /\ call[w] # None
    <3>1. Stored(w) /\ w \in Calls
      BY <1>2, <1>3, TypeStep DEF Claims, TypeOK, Run
    <3>2. call[w] # None
      BY <3>1 DEF Lives, Phases, PhaseOf
    <3> QED  BY <1>2, <1>3, <3>1, <3>2 DEF Claims
  <2> QED  BY <2>1, CallsKept DEF Kept, RunOf
<1>4. ASSUME NEW q \in Runs, runs'[q].life = "unborn", NEW c \in Calls, call'[c] # None
      PROVE  RunOf(c)' # q
  <2>1. runs[q].life = "unborn"
    BY <1>2, <1>4
  <2>2. CASE call[c] # None
    <3>1. RunOf(c) # q
      BY <2>1, <2>2 DEF Claims
    <3> QED  BY <3>1, <2>2, CallsKept DEF Kept, RunOf
  <2>3. CASE call[c] = None
    <3>1. Began(c)
      BY <1>4, <2>3, CallsArrive DEF Arrives
    <3>2. PICK r \in Runs, s \in Steps : Begin(c, r, s)
      BY <3>1 DEF Began
    <3>3. RunOf(c)' = r /\ runs[r].life = "live"
      BY <3>2 DEF Begin, TypeOK, RunOf
    <3> QED  BY <2>1, <3>3
  <2> QED  BY <2>2, <2>3
<1> QED  BY <1>1, <1>3, <1>4 DEF Claims

\* What was there before a call is looked through when the store is listed, and nothing
\* of it comes back into doubt.
LEMMA FreshStep ==
    ASSUME TypeOK, Lives, Phases, Claims, Fresh, Next
    PROVE  Fresh'
<1> SUFFICES ASSUME NEW c \in Calls, NEW d \in older'[c]
             PROVE  /\ Stored(d)' /\ disk'[d].key = KeyOf(c)'
                    /\ (pc'[c] = "listing" /\ RunOf(d)' = RunOf(c)') =>
                          pc'[d] = "threw" /\ IsInDoubt(d)'
                    /\ (pc'[c] \in {"rereading", "opening"} \/ Stored(c)') =>
                          RunOf(d)' # RunOf(c)'
                    /\ (pc'[c] \in {"rereading", "opening", "acting"} /\ IsInDoubt(d)') =>
                          d = runs'[RunOf(c)'].supersede
  BY DEF Fresh, RunOf
<1>1. CASE Began(c)
  <2>1. PICK r \in Runs, s \in Steps : Begin(c, r, s)
    BY <1>1 DEF Began
  <2>2. /\ RunOf(c)' = r /\ KeyOf(c)' = s.key /\ pc[c] = "idle"
        /\ pc'[c] \in {"listing", "refused"} /\ UNCHANGED <<disk, byKey, runs>>
        /\ pc'[c] = "listing" => ~HeldByRun(r, s)
    BY <2>1 DEF Begin, TypeOK, RunOf, KeyOf
  <2>3. d \in Calls /\ Stored(d) /\ disk[d].key = s.key
    BY <2>1 DEF Begin, TypeOK
  <2>4. d # c /\ call[d] # None /\ call'[d] = call[d] /\ pc'[d] = pc[d] /\ KeyOf(d) = s.key
    BY <2>1, <2>2, <2>3 DEF Begin, TypeOK, Lives, Phases, PhaseOf, KeyOf
  <2>5. ~Stored(c)' /\ Stored(d)'
    BY <2>2, <2>3 DEF Phases, PhaseOf, Stored
  <2>6. ASSUME pc'[c] = "listing", RunOf(d)' = r
        PROVE  pc[d] = "threw" /\ IsInDoubt(d)
    <3>1. RunOf(d) = r /\ d \notin byKey[r]
      BY <2>2, <2>4, <2>6 DEF HeldByRun, RunOf
    <3> QED  BY <2>3, <3>1 DEF Phases, PhaseOf, IsInDoubt
  <2> QED  BY <2>2, <2>3, <2>4, <2>5, <2>6 DEF IsInDoubt, Stored
<1>2. CASE ~Began(c)
  <2>1. /\ call'[c] = call[c] /\ d \in older[c] /\ d \in Calls
        /\ Arrives(c) /\ Arrives(d) /\ Kept(c) /\ Kept(d)
    BY <1>2, CallsArrive, CallsKept DEF Arrives, TypeOK
  <2>2. Stored(d) /\ disk[d].key = KeyOf(c) /\ call[d] # None
    BY <2>1 DEF Fresh, Lives, Phases, PhaseOf
  <2>3. /\ Stored(d)' /\ disk'[d].key = KeyOf(c)'
        /\ RunOf(d)' = RunOf(d) /\ RunOf(c)' = RunOf(c)
    BY <2>1, <2>2 DEF Kept, KeyOf, RunOf
  <2>4. ASSUME pc'[c] = "listing", RunOf(d) = RunOf(c)
        PROVE  pc'[d] = "threw" /\ IsInDoubt(d)'
    <3>1. pc[d] = "threw" /\ IsInDoubt(d)
      BY <1>2, <2>1, <2>4 DEF Arrives, Fresh
    <3>2. ~Began(d)
      BY <3>1 DEF Began, Begin
    <3> QED  BY <2>1, <2>2, <3>1, <3>2 DEF Arrives, Kept, IsInDoubt, Stored
  <2>5. ASSUME pc[c] = "listing", Blocking(c) = {}, IsInDoubt(d)
        PROVE  d = runs[RunOf(c)].supersede /\ RunOf(d) # RunOf(c)
    <3>1. d = runs[RunOf(c)].supersede
      BY <2>1, <2>2, <2>5 DEF Blocking, Matching
    <3>2. RunOf(c) \in Runs
      BY <2>5 DEF TypeOK, Lives, CallInfo, RunOf
    <3> QED  BY <2>1, <3>1, <3>2, NoneAssumption DEF Claims
  <2>6. ASSUME pc'[c] \in {"rereading", "opening"} \/ Stored(c)'
        PROVE  RunOf(d) # RunOf(c)
    <3>1. CASE pc[c] \in {"rereading", "opening"} \/ Stored(c)
      BY <2>1, <3>1 DEF Fresh
    <3>2. CASE pc[c] = "listing" /\ Blocking(c) = {}
      BY <2>1, <2>5, <3>2 DEF Fresh
    <3> QED  BY <1>2, <2>1, <2>6, <3>1, <3>2 DEF Arrives, Kept
  <2>7. ASSUME pc'[c] \in {"rereading", "opening", "acting"}, IsInDoubt(d)'
        PROVE  d = runs'[RunOf(c)].supersede
    <3>1. IsInDoubt(d) /\ InFlight(c)
      BY <1>2, <2>1, <2>2, <2>7 DEF Arrives, Kept, InFlight, Suspended
    <3>2. d = runs[RunOf(c)].supersede
      BY <1>2, <2>1, <2>5, <2>7, <3>1 DEF Arrives, Fresh
    <3>3. RunOf(c) \in Runs /\ runs[RunOf(c)].life = "live"
      BY <3>1 DEF TypeOK, Lives, InFlight, Suspended, CallInfo, RunOf
    <3>4. runs'[RunOf(c)].supersede = runs[RunOf(c)].supersede
      BY <3>3
         DEF Next, Advance, ListStore, Reread, OpenReceipt, OpenFails, Act, Settle, Verify,
             FinalizeReceipt, FinalizeFails, Begin, StartRun, EndRun, CrashRun, TypeOK, Run
    <3> QED  BY <3>2, <3>4
  <2> QED  BY <2>3, <2>4, <2>6, <2>7
<1> QED  BY <1>1, <1>2

\* What is about to be written is a settled outcome.
LEMMA DecidedStep ==
    ASSUME TypeOK, Lives, Decided, Next
    PROVE  Decided'
<1>1. ASSUME NEW c \in Calls, ListStore(c)
      PROVE  Decided'
  BY <1>1, ListingMoves DEF Decided
<1>2. ASSUME NEW c \in Calls, Reread(c)
      PROVE  Decided'
  BY <1>2 DEF Reread, Decided
<1>3. ASSUME NEW c \in Calls, OpenReceipt(c)
      PROVE  Decided'
  BY <1>3 DEF OpenReceipt, Decided
<1>4. ASSUME NEW c \in Calls, OpenFails(c)
      PROVE  Decided'
  BY <1>4 DEF OpenFails, Decided
<1>5. ASSUME NEW c \in Calls, Act(c)
      PROVE  Decided'
  BY <1>5 DEF Act, TypeOK, Decided
<1>6. ASSUME NEW c \in Calls, Settle(c)
      PROVE  Decided'
  <2>1. attempt[c] \in AttemptKinds /\ StepOf(c) \in Steps
    BY <1>6 DEF Settle, TypeOK, Decided, Lives, CallInfo, StepOf
  <2>2. SettledOutcome(StepOf(c), attempt[c]) \in Settled \cup {"rejected"}
    BY <2>1, SettledOutcomeRange
  <2> QED  BY <1>6, <2>2 DEF Settle, TypeOK, Decided
<1>7. ASSUME NEW c \in Calls, Verify(c)
      PROVE  Decided'
  BY <1>7 DEF Verify, TypeOK, Decided, Settled, Definite
<1>8. ASSUME NEW c \in Calls, FinalizeReceipt(c)
      PROVE  Decided'
  BY <1>8 DEF FinalizeReceipt, Decided
<1>9. ASSUME NEW c \in Calls, FinalizeFails(c)
      PROVE  Decided'
  BY <1>9 DEF FinalizeFails, Decided
<1>10. ASSUME NEW c \in Calls, NEW r \in Runs, NEW s \in Steps, Begin(c, r, s)
      PROVE  Decided'
  BY <1>10 DEF Begin, Decided
<1>11. ASSUME NEW r \in Runs, StartRun(r)
      PROVE  Decided'
  BY <1>11 DEF StartRun, Decided
<1>12. ASSUME NEW r \in Runs, EndRun(r)
      PROVE  Decided'
  BY <1>12 DEF EndRun, Decided
<1>13. ASSUME NEW r \in Runs, CrashRun(r)
      PROVE  Decided'
  BY <1>13 DEF CrashRun, Decided
<1> QED  BY <1>1, <1>2, <1>3, <1>4, <1>5, <1>6, <1>7, <1>8, <1>9, <1>10, <1>11, <1>12, <1>13
            DEF Next, Advance

\* The invariant is inductive, part by part.
LEMMA LedgerStep ==
    ASSUME TypeOK, IInv, [Next]_vars
    PROVE  (TypeOK /\ IInv)'
<1>1. CASE Next
  BY <1>1, TypeStep, LivesStep, PhasesStep, TruthsStep, ClaimsStep, FreshStep, DecidedStep
     DEF IInv
<1>2. CASE UNCHANGED vars
  BY <1>2
     DEF vars, TypeOK, IInv, Lives, Phases, PhaseOf, Truths, Claims, Fresh,
         Decided, IsInDoubt, InFlight, Stored, Acted, RunOf, StepOf, KeyOf
<1> QED  BY <1>1, <1>2

\* What every theorem below rests on.
LEMMA Inductive == Spec => [](TypeOK /\ IInv)
BY InitEstablishes, LedgerStep, PTL DEF Spec

--------------------------------------------------------------------------------
\* Every state of the ledger has its types.
THEOREM TypeCorrect == Spec => []TypeOK
BY Inductive, PTL

\* No act without a receipt in the store, at any moment, crashes included.
THEOREM WriteAheadHolds == Spec => []WriteAhead
<1>1. IInv => WriteAhead
  BY DEF IInv, Phases, PhaseOf, WriteAhead
<1> QED  BY Inductive, <1>1, PTL

\* What the caller was told is what the store says; a refusal leaves no receipt.
THEOREM ResultMatchesStoreHolds == Spec => []ResultMatchesStore
<1>1. IInv => ResultMatchesStore
  BY DEF IInv, Phases, PhaseOf, ResultMatchesStore
<1> QED  BY Inductive, <1>1, PTL

\* Two acts of a run on one key are those of calls that overlap: however the agents of
\* the run interleave, none began with the receipt of the other in place.
THEOREM RepeatsOverlapHolds == Spec => []RepeatsOverlap
<1>1. TypeOK /\ IInv => RepeatsOverlap
  BY DEF TypeOK, IInv, Phases, PhaseOf, Fresh, RepeatsOverlap
<1> QED  BY Inductive, <1>1, PTL

\* A definite receipt of honest steps is true of the world.
THEOREM DefiniteIsTrueHolds ==
    ASSUME \A s \in Steps : Honest(s)
    PROVE  Spec => []DefiniteIsTrue
<1>1. TypeOK /\ IInv => DefiniteIsTrue
  <2> SUFFICES ASSUME TypeOK, IInv, NEW c \in Calls, Stored(c)
               PROVE  /\ disk[c].outcome = "applied" => world[c] = "took"
                      /\ disk[c].outcome = "failed" => world[c] = "spared"
    BY DEF DefiniteIsTrue
  <2>1. call[c] # None /\ StepOf(c) \in Steps
    BY DEF TypeOK, IInv, Lives, Phases, PhaseOf, CallInfo, StepOf
  <2> QED  BY <2>1 DEF IInv, Truths
<1> QED  BY Inductive, <1>1, PTL

--------------------------------------------------------------------------------
\* No act repeats a doubt that was on record when its call began, but for the one
\* receipt its run superseded: with any number of runs and calls at once.
THEOREM NoBlindRepeatHolds == Spec => NoBlindRepeat
<1>1. TypeOK /\ IInv /\ [Next]_vars => NotBlind
  <2> SUFFICES ASSUME TypeOK, IInv, [Next]_vars, NEW c \in Calls, ~Acted(c), Acted(c)',
                      NEW d \in older[c], IsInDoubt(d)
               PROVE  d = runs[RunOf(c)].supersede
    BY DEF NotBlind
  <2>1. Act(c)
    <3>1. world' # world
      BY DEF Acted
    <3>2. PICK e \in Calls : Act(e)
      BY <3>1
         DEF Next, Advance, vars, ListStore, Reread, OpenReceipt, OpenFails, Settle, Verify,
             FinalizeReceipt, FinalizeFails, Begin, StartRun, EndRun, CrashRun
    <3> QED  BY <3>2 DEF Act, Acted, TypeOK
  <2> QED  BY <2>1 DEF Act, IInv, Fresh
<1> QED  BY Inductive, <1>1, PTL DEF Spec, NoBlindRepeat

\* The store only learns.
THEOREM StoreOnlyLearnsHolds == Spec => StoreOnlyLearns
<1>1. TypeOK /\ IInv /\ [Next]_vars => OnlyLearns
  <2> SUFFICES ASSUME TypeOK, IInv, [Next]_vars, NEW c \in Calls,
                      Stored(c), disk'[c] # disk[c]
               PROVE  /\ disk[c].outcome = "attempting"
                      /\ \E o \in Settled : disk'[c] = [disk[c] EXCEPT !.outcome = o]
    BY DEF OnlyLearns
  <2>1. \E d \in Calls : OpenReceipt(d) \/ OpenFails(d) \/ FinalizeReceipt(d) \/ FinalizeFails(d)
    BY DEF Next, Advance, vars, ListStore, Reread, Act, Settle, Verify, Begin, StartRun,
           EndRun, CrashRun
  <2>2. ~OpenReceipt(c) /\ ~OpenFails(c)
    BY DEF OpenReceipt, OpenFails, IInv, Phases, PhaseOf
  <2>3. FinalizeReceipt(c) \/ FinalizeFails(c)
    BY <2>1, <2>2 DEF OpenReceipt, OpenFails, FinalizeReceipt, FinalizeFails, TypeOK
  <2>4. mem[c] \in Settled /\ disk[c].outcome = "attempting"
    BY <2>3 DEF FinalizeReceipt, FinalizeFails, IInv, Phases, PhaseOf, Decided
  <2>5. disk'[c] = [disk[c] EXCEPT !.outcome = mem[c]]
    BY <2>3 DEF FinalizeReceipt, FinalizeFails, TypeOK
  <2> QED  BY <2>4, <2>5
<1> QED  BY Inductive, <1>1, PTL DEF Spec, StoreOnlyLearns

--------------------------------------------------------------------------------
\* While steps are honest, the ledger implements the interlock: an attempt that was on
\* record when another was asked for bars it, unless it is of another run and settled or
\* the one its run waived.
THEOREM InterlockHolds ==
    ASSUME \A s \in Steps : Honest(s)
    PROVE  Spec => ImplementsInterlock
<1> DEFINE Abstract == <<Started, Waiver, Asked, older, Status, world>>
<1>1. Init => Interlock!Init
  BY DEF Init, Interlock!Init, Started, Waiver, Asked, Status, Stored
<1>2. TypeOK /\ IInv /\ Next => Interlock!Next \/ UNCHANGED Abstract
  <2> SUFFICES ASSUME TypeOK, IInv, Next
               PROVE  Interlock!Next \/ UNCHANGED Abstract
    OBVIOUS
  <2>1. ASSUME UNCHANGED <<runs, call, older>>  PROVE UNCHANGED <<Started, Waiver, Asked, older>>
    BY <2>1 DEF Started, Waiver, Asked, RunOf, KeyOf
  <2>2. ASSUME UNCHANGED disk  PROVE UNCHANGED Status
    BY <2>2 DEF Status, IsInDoubt, Stored
  <2>3. \A d \in Calls : /\ Status[d] # "absent" <=> Stored(d)
                         /\ Status[d] = "doubt" <=> IsInDoubt(d)
                         /\ Stored(d) => /\ Asked[d].run = RunOf(d) /\ Asked[d].key = KeyOf(d)
                                         /\ disk[d].key = KeyOf(d)
    <3> SUFFICES ASSUME NEW d \in Calls
                 PROVE  /\ Status[d] # "absent" <=> Stored(d)
                        /\ Status[d] = "doubt" <=> IsInDoubt(d)
                        /\ Stored(d) => /\ Asked[d].run = RunOf(d) /\ Asked[d].key = KeyOf(d)
                                        /\ disk[d].key = KeyOf(d)
      OBVIOUS
    <3>1. Stored(d) => disk[d].outcome \in Outcomes
      BY DEF TypeOK, Stored, Receipt
    <3>2. Stored(d) => call[d] # None /\ disk[d].key = KeyOf(d)
      BY DEF IInv, Lives, Phases, PhaseOf
    <3> QED  BY <3>1, <3>2 DEF Status, Asked, IsInDoubt, Stored, Outcomes, Settled, Definite
  <2>4. ASSUME NEW r \in Runs, StartRun(r)  PROVE Interlock!Next
    <3>1. PICK w \in {d \in Calls : Stored(d)} \cup {None}, u \in BOOLEAN :
             runs' = [runs EXCEPT ![r] = [life |-> "live", usable |-> u, supersede |-> w]]
      BY <2>4 DEF StartRun
    <3>2. Waiver' = [Waiver EXCEPT ![r] = w] /\ w \in Interlock!Recorded \cup {None}
      BY <2>3, <3>1 DEF Waiver, TypeOK, Interlock!Recorded
    <3>3. r \notin Started /\ Started' = Started \cup {r}
      BY <2>4, <3>1 DEF StartRun, Started, TypeOK
    <3>4. UNCHANGED <<Asked, older, Status, world>>
      BY <2>2, <2>4 DEF StartRun, Asked, RunOf, KeyOf
    <3>5. Interlock!Start(r)
      BY <3>2, <3>3, <3>4 DEF Interlock!Start
    <3> QED  BY <3>5 DEF Interlock!Next
  <2>5. ASSUME NEW c \in Calls, NEW r \in Runs, NEW s \in Steps, Begin(c, r, s)
        PROVE  Interlock!Next
    <3>1. /\ call[c] = None /\ call' = [call EXCEPT ![c] = [run |-> r, step |-> s]]
          /\ [run |-> r, step |-> s] # None /\ s.key \in Keys
      BY <2>5, NoneAssumption DEF Begin, IInv, Lives, CallInfo, Keys
    <3>2. Asked[c] = None /\ Asked' = [Asked EXCEPT ![c] = [run |-> r, key |-> s.key]]
      BY <3>1 DEF Asked, TypeOK, RunOf, KeyOf
    <3>3. {d \in Calls : Stored(d) /\ disk[d].key = s.key}
            = {d \in Interlock!Recorded : Asked[d].key = s.key}
      <4>1. \A d \in Calls : Stored(d) => Asked[d].key = disk[d].key
        BY <2>3
      <4>2. Interlock!Recorded = {d \in Calls : Stored(d)}
        BY <2>3 DEF Interlock!Recorded
      <4> QED  BY <4>1, <4>2
    <3>4. /\ r \in Started /\ UNCHANGED <<Started, Waiver, Status, world>>
          /\ older' = [older EXCEPT ![c] = {d \in Calls : Stored(d) /\ disk[d].key = s.key}]
      BY <2>2, <2>5 DEF Begin, Started, Waiver
    <3>5. Interlock!Ask(c, r, s.key)
      BY <3>2, <3>3, <3>4 DEF Interlock!Ask
    <3> QED  BY <3>1, <3>5 DEF Interlock!Next
  <2>6. ASSUME NEW c \in Calls, pc[c] = "opening", disk' = [disk EXCEPT ![c] = NewReceipt(c)],
               UNCHANGED <<runs, call, older, world>>
        PROVE  Interlock!Next
    <3>1. /\ RunOf(c) \in Runs /\ KeyOf(c) \in Keys
          /\ runs[RunOf(c)].supersede \in Calls \cup {None}
      BY <2>6 DEF TypeOK, IInv, Lives, CallInfo, Run, RunOf, KeyOf, Keys
    <3>2. NewReceipt(c) # None /\ NewReceipt(c).outcome = "attempting"
          /\ NewReceipt(c).key = KeyOf(c)
      BY <3>1, NoneAssumption DEF NewReceipt, Receipt, Outcomes
    <3>3. ~Stored(c) /\ disk'[c] = NewReceipt(c) /\ \A d \in Calls \ {c} : disk'[d] = disk[d]
      BY <2>6 DEF TypeOK, IInv, Phases, PhaseOf
    <3>4. Status[c] = "absent" /\ call[c] # None /\ Asked[c] = [run |-> RunOf(c), key |-> KeyOf(c)]
      BY <2>6, <3>3 DEF Status, Asked, IInv, Lives
    <3>5. ASSUME NEW d \in older[c]  PROVE Interlock!LetsPass(d, c)
      <4>1. d \in Calls /\ Stored(d) /\ RunOf(d) # RunOf(c)
        BY <2>6 DEF TypeOK, IInv, Fresh
      <4>2. IsInDoubt(d) => d = runs[RunOf(c)].supersede
        BY <2>6 DEF IInv, Fresh
      <4>3. Asked[d].run = RunOf(d) /\ Asked[c].run = RunOf(c)
        BY <2>3, <3>4, <4>1
      <4>4. Status[d] = "doubt" <=> IsInDoubt(d)
        BY <2>3, <4>1
      <4> QED  BY <3>1, <4>1, <4>2, <4>3, <4>4 DEF Interlock!LetsPass, Waiver
    <3>6. Status' = [Status EXCEPT ![c] = "doubt"]
      BY <3>2, <3>3 DEF Status, IsInDoubt, Stored
    <3>7. Asked[c] # None
      BY <3>1, <3>4, NoneAssumption DEF Asked
    <3>8. Interlock!Open(c)
      BY <2>1, <2>6, <3>4, <3>5, <3>6, <3>7 DEF Interlock!Open
    <3> QED  BY <3>8 DEF Interlock!Next
  <2>7. ASSUME NEW c \in Calls, Act(c)  PROVE Interlock!Next
    <3>1. UNCHANGED <<Started, Waiver, Asked, older, Status>>
      BY <2>1, <2>2, <2>7 DEF Act
    <3>2. Status[c] = "doubt" /\ world[c] = "untouched"
      BY <2>7 DEF Act, IInv, Phases, PhaseOf, Acted, Status, IsInDoubt
    <3>3. \E fate \in {"took", "spared"} : world' = [world EXCEPT ![c] = fate]
      BY <2>7 DEF Act, Fates
    <3> QED  BY <3>1, <3>2, <3>3 DEF Interlock!Act, Interlock!Next
  <2>8. ASSUME NEW c \in Calls, pc[c] = "finalizing",
               disk' = [disk EXCEPT ![c].outcome = mem[c]], UNCHANGED <<runs, call, older, world>>
        PROVE  Interlock!Next \/ UNCHANGED Abstract
    <3>1. /\ Stored(c) /\ disk[c] \in Receipt /\ disk[c].outcome = "attempting"
          /\ mem[c] \in Settled
      BY <2>8 DEF TypeOK, IInv, Phases, PhaseOf, Decided, Stored
    <3>2. [disk[c] EXCEPT !.outcome = mem[c]] \in Receipt
      BY <3>1 DEF Receipt, Outcomes
    <3>3. /\ disk'[c] # None /\ disk'[c].key = disk[c].key /\ disk'[c].outcome = mem[c]
          /\ \A d \in Calls \ {c} : disk'[d] = disk[d]
      BY <2>8, <3>1, <3>2, NoneAssumption DEF TypeOK, Receipt
    <3>4. Status[c] = "doubt"
      BY <3>1 DEF Status, IsInDoubt
    <3>5. CASE mem[c] = "unknown"
      <4>1. Status' = Status
        BY <3>1, <3>3, <3>5 DEF Status, IsInDoubt, Stored
      <4> QED  BY <2>1, <2>8, <4>1
    <3>6. CASE mem[c] \in Definite
      <4>1. Status' = [Status EXCEPT ![c] = mem[c]]
        BY <3>1, <3>3, <3>6 DEF Status, IsInDoubt, Stored, Definite
      <4>2. call[c] # None /\ StepOf(c) \in Steps
        BY <2>8 DEF TypeOK, IInv, Lives, CallInfo, StepOf
      <4>3. /\ mem[c] = "applied" => world[c] = "took"
            /\ mem[c] = "failed" => world[c] = "spared"
        BY <2>8, <4>2 DEF IInv, Truths
      <4>4. Interlock!Settle(c)
        BY <2>1, <2>8, <3>4, <3>6, <4>1, <4>3 DEF Interlock!Settle, Definite
      <4> QED  BY <4>4 DEF Interlock!Next
    <3> QED  BY <3>1, <3>5, <3>6 DEF Settled
  <2>9. CASE \E c \in Calls : OpenReceipt(c) \/ OpenFails(c)
    BY <2>1, <2>2, <2>6, <2>9 DEF OpenReceipt, OpenFails
  <2>10. CASE \E c \in Calls : FinalizeReceipt(c) \/ FinalizeFails(c)
    BY <2>1, <2>2, <2>8, <2>10 DEF FinalizeReceipt, FinalizeFails
  <2>11. CASE \E c \in Calls : ListStore(c) \/ Reread(c) \/ Settle(c) \/ Verify(c)
    BY <2>1, <2>2, <2>11 DEF ListStore, Reread, Settle, Verify
  <2>12. CASE \E r \in Runs : EndRun(r) \/ CrashRun(r)
    <3>1. PICK r \in Runs : runs[r].life = "live" /\ runs' = [runs EXCEPT ![r].life = "gone"]
      BY <2>12 DEF EndRun, CrashRun
    <3>2. UNCHANGED <<Started, Waiver>>
      BY <3>1 DEF Started, Waiver, TypeOK, Run
    <3>3. UNCHANGED <<Asked, older, Status, world>>
      BY <2>2, <2>12 DEF EndRun, CrashRun, Asked, RunOf, KeyOf
    <3> QED  BY <3>2, <3>3
  <2> QED  BY <2>4, <2>5, <2>7, <2>9, <2>10, <2>11, <2>12 DEF Next, Advance
<1>3. UNCHANGED vars => UNCHANGED Abstract
  BY DEF vars, Started, Waiver, Asked, Status, IsInDoubt, Stored, RunOf, KeyOf
<1>4. TypeOK /\ IInv /\ [Next]_vars => [Interlock!Next]_(Interlock!vars)
  BY <1>2, <1>3 DEF Interlock!vars
<1> QED  BY Inductive, <1>1, <1>4, PTL DEF Spec, ImplementsInterlock, Interlock!Spec

================================================================================
