---------------------------- MODULE HealApplyProofs ----------------------------
(***************************************************************************)
(* What is proved of `heal` applying its proposals (HealApply), for any     *)
(* number of runs, files and edits. A heal only strings calls of the        *)
(* mutation ledger together, so the ledger's own invariant carries over;    *)
(* what is added relates the calls to the stages of the run.                *)
(***************************************************************************)
EXTENDS HealApply, MutationLedgerProofs, FiniteSetTheorems

Unstarted == {"unborn", "launched", "analyzed"}
Working   == {"launched", "analyzed", "applying", "undoing", "reporting"}

HealTypeOK ==
    /\ stage \in [Runs -> Stages]
    /\ source \in [Runs -> {"scan", "artifact"}]
    /\ findings \in FindingLists
    /\ planned \in [Runs -> SUBSET Files]
    /\ plan \in [Runs -> [Files -> Content]]
    /\ original \in [Runs -> [Files -> Content]]
    /\ file \in [Files -> Content]
    /\ exposed \in [Files -> (SUBSET Calls) \cup {None}]

\* The step a call carries.
Carried(c) ==
    IF c[2] = "heal" THEN HealStep(c[3], original[c[1]][c[3]], Hashed(c[1]))
    ELSE RestoreStep(c[3], original[c[1]][c[3]])

\* Runs and calls: who is alive, whose a call is, when one may be in flight.
StageInv ==
    /\ \A r \in Runs : stage[r] \in Working => runs[r].life = "live"
    /\ \A c \in Calls : call[c] # None =>
          /\ RunOf(c) = c[1] /\ StepOf(c) = Carried(c)
          /\ c[3] \in planned[c[1]] /\ stage[c[1]] \notin Unstarted
    /\ \A c \in Calls : InFlight(c) => stage[c[1]] \in {"applying", "undoing"}
    /\ \A c, d \in Calls : InFlight(c) /\ InFlight(d) /\ c[1] = d[1] => c = d

\* A restore is begun only for a rewrite that returned, and none is left out.
UndoInv ==
    \A r \in Runs, f \in Files :
        /\ Written(r, f) => mem[Heal(r, f)] = "applied"
        /\ call[Restore(r, f)] # None => stage[r] # "applying" /\ Written(r, f)
        /\ stage[r] = "failed" /\ Written(r, f) => pc[Restore(r, f)] \in Ended

\* What is planned was proposed; what is begun is behind no caveat.
PlanInv ==
    \A r \in Runs :
        /\ \A f \in planned[r] : Proposed(f, Form[f], findings)
        /\ stage[r] \in {"applying", "undoing"} => ~CaveatedRun(r)
        /\ \A f \in Files : call[Heal(r, f)] # None => ~CaveatedRun(r)

\* An edit that the originals of a run do not hold was saved after the write's own re-read.
EditInv ==
    \A r \in Runs, f \in Files :
        /\ stage[r] \in {"unborn", "launched"} => ~plan[r][f].edited
        /\ stage[r] = "analyzed" /\ plan[r][f].edited => file[f].edited
        /\ stage[r] \in {"applying", "undoing"} /\ plan[r][f].edited => original[r][f].edited
        /\ (/\ pc[Heal(r, f)] \in {"opening", "acting"} /\ source[r] = "scan"
            /\ file[f].edited /\ ~original[r][f].edited) => Heal(r, f) \in exposed[f]

HealInv == TypeOK /\ IInv /\ HealTypeOK /\ StageInv /\ UndoInv /\ PlanInv /\ (~Overlap => EditInv)

--------------------------------------------------------------------------------
(* Every step of a heal is a step of the ledger, or leaves it alone.        *)

\* A call names its run, what it is for and its file.
LEMMA CallParts ==
    /\ \A c \in Calls : /\ c[1] \in Runs /\ c[2] \in {"heal", "restore"} /\ c[3] \in Files
                        /\ c = <<c[1], c[2], c[3]>>
    /\ \A r \in Runs, f \in Files : Heal(r, f) \in Calls /\ Restore(r, f) \in Calls
BY HealAssumption DEF WriteCalls, Heal, Restore

LEMMA StepsCarried ==
    ASSUME NEW f \in Files, NEW before \in Content, NEW h \in BOOLEAN
    PROVE  HealStep(f, before, h) \in Steps /\ RestoreStep(f, before) \in Steps
BY HealAssumption DEF HealSteps

LEMMA HealStepsLedger ==
    ASSUME HealTypeOK, HealNext
    PROVE  [Next]_vars
<1>1. ASSUME NEW r \in Runs, Launch(r) \/ EndHeal(r) \/ Die(r)  PROVE Next
  BY <1>1 DEF Launch, EndHeal, Die, Next
<1>2. ASSUME NEW r \in Runs, NEW f \in Files, BeginHeal(r, f) \/ BeginRestore(r, f)  PROVE Next
  <2>1. original[r][f] \in Content /\ Hashed(r) \in BOOLEAN
    BY DEF HealTypeOK, Hashed
  <2>2. HealStep(f, original[r][f], Hashed(r)) \in Steps /\ RestoreStep(f, original[r][f]) \in Steps
    BY <2>1, StepsCarried
  <2>3. QED  BY <1>2, <2>2, CallParts DEF BeginHeal, BeginRestore, Next
<1>3. ASSUME NEW r \in Runs, Operation(r), ~(\E f \in Files : BeginHeal(r, f) \/ BeginRestore(r, f))
      PROVE  UNCHANGED vars
  BY <1>3 DEF Operation, Analyze, ReadOriginals, RefuseInput, RefuseTarget, RefuseApply,
              RefuseCaveat, Unreadable, Fail, ApplyReturned, ApplyThrew, EndUndo, Report
<1>4. ASSUME NEW c \in Calls, WriteFile(c) \/ RereadFile(c) \/ ReadBack(c) \/ LedgerMoves(c)
      PROVE  Next
  BY <1>4 DEF WriteFile, RereadFile, ReadBack, LedgerMoves, Next, Advance
<1>5. ASSUME NEW f \in Files, Edit(f)  PROVE UNCHANGED vars
  BY <1>5 DEF Edit
<1>6. QED  BY <1>1, <1>2, <1>3, <1>4, <1>5 DEF HealNext

\* What the ledger's own steps do to the other calls, and to the variables of the heal.
Advances(c) ==
    /\ InFlight(c)
    /\ UNCHANGED <<runs, call, stage, source, findings, planned, plan, original>>
    /\ \A d \in Calls \ {c} : pc'[d] = pc[d] /\ mem'[d] = mem[d] /\ world'[d] = world[d]
    /\ pc'[c] # "idle" /\ (pc'[c] = "returned" => mem'[c] = "applied")
    /\ pc[c] \in {"listing", "opening", "rereading"} => mem'[c] = mem[c]

LEMMA LedgerAdvances ==
    ASSUME TypeOK, NEW c \in Calls, WriteFile(c) \/ RereadFile(c) \/ ReadBack(c) \/ LedgerMoves(c)
    PROVE  Advances(c)
<1> USE DEF Advances, InFlight, Suspended, TypeOK
<1>1. CASE WriteFile(c)
  BY <1>1 DEF WriteFile, Act
<1>2. CASE RereadFile(c)
  BY <1>2 DEF RereadFile, Reread, healVars
<1>3. CASE ReadBack(c)
  BY <1>3 DEF ReadBack, Verify, healVars
<1>4. CASE LedgerMoves(c)
  <2>1. UNCHANGED healVars
    BY <1>4 DEF LedgerMoves
  <2>2. CASE ListStore(c)
    BY <2>1, <2>2 DEF ListStore, healVars
  <2>3. CASE OpenReceipt(c) \/ OpenFails(c)
    BY <2>1, <2>3 DEF OpenReceipt, OpenFails, healVars
  <2>4. CASE Settle(c)
    BY <2>1, <2>4 DEF Settle, healVars
  <2>5. CASE FinalizeReceipt(c) \/ FinalizeFails(c)
    BY <2>1, <2>5 DEF FinalizeReceipt, FinalizeFails, healVars
  <2>6. QED  BY <1>4, <2>2, <2>3, <2>4, <2>5 DEF LedgerMoves
<1>5. QED  BY <1>1, <1>2, <1>3, <1>4

--------------------------------------------------------------------------------
(* The variables the heal adds.                                             *)

\* What the steps of a run outside its calls do.
Outside(r) ==
    \/ Analyze(r) \/ ReadOriginals(r) \/ ApplyReturned(r) \/ ApplyThrew(r) \/ EndUndo(r)
    \/ Report(r)
    \/ RefuseInput(r) \/ RefuseTarget(r) \/ RefuseApply(r) \/ RefuseCaveat(r) \/ Unreadable(r)

LEMMA StageMoves ==
    ASSUME HealTypeOK, NEW r \in Runs, NEW p \in Stages, Goto(r, p)
    PROVE  /\ stage' \in [Runs -> Stages] /\ stage'[r] = p
           /\ \A q \in Runs \ {r} : stage'[q] = stage[q]
BY DEF HealTypeOK, Goto

LEMMA HealTypes ==
    ASSUME HealTypeOK, TypeOK, HealNext
    PROVE  HealTypeOK'
<1>0. /\ \A places : places \in {"launched", "analyzed", "applying", "undoing", "reporting", "failed",
                                 "dead", "done", "unreported"} => places \in Stages
      /\ Pristine \in Content
  BY DEF Stages, Over, Pristine, Content
<1>1. ASSUME NEW r \in Runs, Launch(r)  PROVE HealTypeOK'
  BY <1>0, <1>1 DEF Launch, Goto, HealTypeOK
<1>2. ASSUME NEW r \in Runs, Analyze(r)  PROVE HealTypeOK'
  <2>1. Artifact \subseteq Files /\ Scan \subseteq Files
    BY DEF Artifact, Scan
  <2>2. planned' \in [Runs -> SUBSET Files] /\ plan' \in [Runs -> [Files -> Content]]
    BY <1>2, <2>1 DEF Analyze, HealTypeOK
  <2>3. stage' \in [Runs -> Stages]
    BY <1>0, <1>2 DEF Analyze, Goto, HealTypeOK
  <2>4. QED  BY <1>2, <2>2, <2>3 DEF Analyze, HealTypeOK
<1>3. ASSUME NEW r \in Runs, ReadOriginals(r)  PROVE HealTypeOK'
  BY <1>0, <1>3 DEF ReadOriginals, Goto, HealTypeOK
<1>4. ASSUME NEW r \in Runs, ApplyReturned(r) \/ ApplyThrew(r) \/ EndUndo(r) \/ Report(r)
      PROVE  HealTypeOK'
  BY <1>0, <1>4 DEF ApplyReturned, ApplyThrew, EndUndo, Report, Goto, HealTypeOK
<1>5. ASSUME NEW r \in Runs, RefuseInput(r) \/ RefuseTarget(r) \/ RefuseApply(r) \/ RefuseCaveat(r)
                                 \/ Unreadable(r)
      PROVE  HealTypeOK'
  BY <1>0, <1>5 DEF RefuseInput, RefuseTarget, RefuseApply, RefuseCaveat, Unreadable, Fail, Goto,
                    HealTypeOK
<1>6. ASSUME NEW r \in Runs, NEW f \in Files, BeginHeal(r, f) \/ BeginRestore(r, f)
      PROVE  HealTypeOK'
  BY <1>6 DEF BeginHeal, BeginRestore, healVars, HealTypeOK
<1>7. ASSUME NEW r \in Runs, EndHeal(r) \/ Die(r)  PROVE HealTypeOK'
  BY <1>0, <1>7 DEF EndHeal, Die, Goto, healVars, HealTypeOK
<1>8. ASSUME NEW c \in Calls, WriteFile(c)  PROVE HealTypeOK'
  <2>1. Intended(c) \in Content
    <3>1. original[c[1]][c[3]] \in Content
      BY CallParts DEF HealTypeOK
    <3>2. QED  BY <3>1 DEF Intended, FileOf, Content
  <2>2. file' \in [Files -> Content]
    BY <1>8, <2>1 DEF WriteFile, HealTypeOK
  <2>3. QED  BY <1>8, <2>2 DEF WriteFile, HealTypeOK
<1>9. ASSUME NEW c \in Calls, RereadFile(c) \/ ReadBack(c) \/ LedgerMoves(c)  PROVE HealTypeOK'
  BY <1>9 DEF RereadFile, ReadBack, LedgerMoves, healVars, HealTypeOK
<1>10. ASSUME NEW f \in Files, Edit(f)  PROVE HealTypeOK'
  <2>1. file' \in [Files -> Content]
    BY <1>10 DEF Edit, HealTypeOK, Content
  <2>2. exposed' \in [Files -> (SUBSET Calls) \cup {None}]
    BY <1>10 DEF Edit, HealTypeOK
  <2>3. QED  BY <1>10, <2>1, <2>2 DEF Edit, HealTypeOK
<1>11. QED  BY <1>1, <1>2, <1>3, <1>4, <1>5, <1>6, <1>7, <1>8, <1>9, <1>10 DEF HealNext, Operation

--------------------------------------------------------------------------------
(* The stages of a run and its calls.                                       *)

Base == TypeOK /\ IInv /\ HealTypeOK /\ StageInv /\ UndoInv /\ PlanInv

\* No call of a run has begun before it applies, and none is left when it is over.
LEMMA CallsOfRun ==
    ASSUME Base, NEW r \in Runs
    PROVE  /\ stage[r] \in Unstarted => \A c \in Calls : c[1] = r => call[c] = None
           /\ stage[r] \notin {"applying", "undoing"} => ~Busy(r)
           /\ \A c \in Calls : InFlight(c) => RunOf(c) = c[1] /\ call[c] # None
           /\ Busy(r) => \E c \in Calls : InFlight(c) /\ c[1] = r
           /\ (stage[r] = "applying" /\ \A f \in planned[r] : Written(r, f)) => ~Busy(r)
<1>1. \A c \in Calls : InFlight(c) => RunOf(c) = c[1] /\ call[c] # None
  BY DEF Base, IInv, Lives, StageInv, InFlight, Suspended
<1>2. stage[r] \in Unstarted => \A c \in Calls : c[1] = r => call[c] = None
  BY DEF Base, StageInv
<1>3. Busy(r) => \E c \in Calls : InFlight(c) /\ c[1] = r
  BY <1>1 DEF Busy
<1>4. stage[r] \notin {"applying", "undoing"} => ~Busy(r)
  BY <1>3 DEF Base, StageInv
<1>5. ASSUME stage[r] = "applying", \A f \in planned[r] : Written(r, f), Busy(r)  PROVE FALSE
  <2>1. PICK c \in Calls : InFlight(c) /\ c[1] = r
    BY <1>3, <1>5
  <2>2. call[c] # None /\ c[3] \in planned[r] /\ c[3] \in Files
    BY <1>1, <2>1, CallParts DEF Base, StageInv
  <2>3. CASE c[2] = "heal"
    <3>1. c = Heal(r, c[3])
      BY <2>1, <2>3, CallParts DEF Heal
    <3>2. pc[c] = "returned"
      BY <1>5, <2>2, <3>1 DEF Written
    <3>3. QED  BY <2>1, <3>2 DEF InFlight, Suspended
  <2>4. CASE c[2] = "restore"
    <3>1. c = Restore(r, c[3])
      BY <2>1, <2>4, CallParts DEF Restore
    <3>2. QED  BY <1>5, <2>2, <3>1 DEF Base, UndoInv
  <2>5. QED  BY <2>3, <2>4, CallParts
<1>6. QED  BY <1>1, <1>2, <1>3, <1>4, <1>5

\* A run that moves to a stage while its calls stay as they are.
LEMMA StageAlone ==
    ASSUME Base, NEW r \in Runs, NEW p \in Stages \ {"unborn", "launched"}, Goto(r, p), UNCHANGED vars,
           p = "analyzed" => stage[r] = "launched",
           p \in Working => stage[r] \in Working,
           p \notin {"applying", "undoing"} => ~Busy(r),
           \A q \in Runs : stage[q] \notin Unstarted =>
               UNCHANGED <<planned[q], original[q], source[q]>>
    PROVE  StageInv'
<1>1. /\ stage' \in [Runs -> Stages] /\ stage'[r] = p
      /\ \A q \in Runs \ {r} : stage'[q] = stage[q]
  BY StageMoves DEF Base
<1>2. UNCHANGED <<runs, call, pc>>
  BY DEF vars
<1>3. \A q \in Runs : stage'[q] \in Working => runs'[q].life = "live"
  BY <1>1, <1>2 DEF Base, StageInv
<1>4. ASSUME NEW c \in Calls, call'[c] # None
      PROVE  /\ RunOf(c)' = c[1] /\ StepOf(c)' = Carried(c)'
             /\ c[3] \in planned'[c[1]] /\ stage'[c[1]] \notin Unstarted
  <2>1. /\ call[c] # None /\ c[1] \in Runs /\ stage[c[1]] \notin Unstarted
        /\ RunOf(c) = c[1] /\ StepOf(c) = Carried(c) /\ c[3] \in planned[c[1]]
    BY <1>2, <1>4, CallParts DEF Base, StageInv
  <2>2. UNCHANGED <<planned[c[1]], original[c[1]], source[c[1]], call[c]>>
    BY <1>2, <2>1
  <2>3. stage'[c[1]] \notin Unstarted
    BY <1>1, <2>1 DEF Unstarted
  <2>4. QED  BY <2>1, <2>2, <2>3 DEF RunOf, StepOf, Carried, Hashed
<1>5. ASSUME NEW c \in Calls, InFlight(c)'  PROVE stage'[c[1]] \in {"applying", "undoing"}
  <2>1. InFlight(c) /\ c[1] \in Runs /\ RunOf(c) = c[1]
    BY <1>2, <1>5, CallParts, CallsOfRun DEF InFlight
  <2>2. QED  BY <1>1, <2>1 DEF Base, StageInv, Busy
<1>6. \A c, d \in Calls : InFlight(c)' /\ InFlight(d)' /\ c[1] = d[1] => c = d
  BY <1>2 DEF Base, StageInv, InFlight
<1>7. QED  BY <1>3, <1>4, <1>5, <1>6 DEF StageInv

\* A run that begins a call when none of it is in flight.
LEMMA StageBegins ==
    ASSUME Base, NEW c \in Calls, Begin(c, c[1], Carried(c)), ~Busy(c[1]), UNCHANGED healVars,
           c[3] \in planned[c[1]], stage[c[1]] \in {"applying", "undoing"}
    PROVE  StageInv'
<1>1. /\ UNCHANGED <<runs, stage, planned, original, source>>
      /\ call' = [call EXCEPT ![c] = [run |-> c[1], step |-> Carried(c)]]
      /\ \A d \in Calls \ {c} : pc'[d] = pc[d] /\ call'[d] = call[d]
  BY DEF Begin, healVars, Base, TypeOK
<1>2. RunOf(c)' = c[1] /\ StepOf(c)' = Carried(c)' /\ call'[c] # None
  <2>1. call'[c] = [run |-> c[1], step |-> Carried(c)]
    BY <1>1 DEF Base, TypeOK
  <2>2. [run |-> c[1], step |-> Carried(c)] \in CallInfo
    <3>1. original[c[1]][c[3]] \in Content /\ Hashed(c[1]) \in BOOLEAN /\ c[3] \in Files /\ c[1] \in Runs
      BY CallParts DEF Base, HealTypeOK, Hashed
    <3>2. Carried(c) \in Steps
      BY <3>1, StepsCarried DEF Carried
    <3>3. QED  BY <3>1, <3>2 DEF CallInfo
  <2>3. Carried(c)' = Carried(c)
    BY <1>1 DEF Carried, Hashed
  <2>4. QED  BY <2>1, <2>2, <2>3, NoneAssumption DEF RunOf, StepOf
<1>3. ASSUME NEW d \in Calls \ {c}, InFlight(d)'  PROVE InFlight(d) /\ d[1] # c[1]
  <2>1. InFlight(d)
    BY <1>1, <1>3 DEF InFlight
  <2>2. c[1] \in Runs
    BY CallParts
  <2>3. RunOf(d) = d[1]
    BY <2>1, <2>2, CallsOfRun
  <2>4. QED  BY <2>1, <2>3 DEF Busy
<1>4. \A d \in Calls \ {c} : RunOf(d)' = RunOf(d) /\ StepOf(d)' = StepOf(d) /\ Carried(d)' = Carried(d)
  BY <1>1 DEF RunOf, StepOf, Carried, Hashed
<1>5. \A d \in Calls : call'[d] # None =>
          /\ RunOf(d)' = d[1] /\ StepOf(d)' = Carried(d)'
          /\ d[3] \in planned'[d[1]] /\ stage'[d[1]] \notin Unstarted
  BY <1>1, <1>2, <1>4 DEF Base, StageInv, Unstarted
<1>6. \A d \in Calls : InFlight(d)' => stage'[d[1]] \in {"applying", "undoing"}
  BY <1>1, <1>3 DEF Base, StageInv
<1>7. \A d, e \in Calls : InFlight(d)' /\ InFlight(e)' /\ d[1] = e[1] => d = e
  BY <1>3 DEF Base, StageInv
<1>8. QED  BY <1>1, <1>5, <1>6, <1>7 DEF Base, StageInv

LEMMA StageStep ==
    ASSUME Base, HealNext
    PROVE  StageInv'
<1>0. TypeOK /\ HealTypeOK /\ Lives
  BY DEF Base, IInv
<1>1. ASSUME NEW r \in Runs, Launch(r)  PROVE StageInv'
  <2>1. /\ UNCHANGED <<call, pc, planned, original>> /\ stage[r] = "unborn" /\ stage'[r] = "launched"
        /\ \A q \in Runs \ {r} : stage'[q] = stage[q] /\ source'[q] = source[q] /\ runs'[q] = runs[q]
        /\ runs'[r].life = "live"
    BY <1>0, <1>1 DEF Launch, StartRun, Goto, HealTypeOK, TypeOK
  <2>2. \A c \in Calls : c[1] = r => call[c] = None
    BY <2>1, CallsOfRun DEF Unstarted
  <2>3. ASSUME NEW c \in Calls, call'[c] # None
        PROVE  /\ RunOf(c)' = c[1] /\ StepOf(c)' = Carried(c)'
               /\ c[3] \in planned'[c[1]] /\ stage'[c[1]] \notin Unstarted
    <3>1. c[1] \in Runs \ {r} /\ call[c] # None
      BY <2>1, <2>2, <2>3, CallParts
    <3>2. QED  BY <2>1, <3>1 DEF Base, StageInv, RunOf, StepOf, Carried, Hashed
  <2>4. \A c \in Calls : InFlight(c)' => stage'[c[1]] \in {"applying", "undoing"}
    BY <2>1, CallParts DEF Base, StageInv, InFlight
  <2>5. \A c, d \in Calls : InFlight(c)' /\ InFlight(d)' /\ c[1] = d[1] => c = d
    BY <2>1 DEF Base, StageInv, InFlight
  <2>6. \A q \in Runs : stage'[q] \in Working => runs'[q].life = "live"
    BY <2>1 DEF Base, StageInv
  <2>7. QED  BY <2>3, <2>4, <2>5, <2>6 DEF StageInv
<1>2. ASSUME NEW r \in Runs, Analyze(r)  PROVE StageInv'
  <2>1. stage[r] = "launched" /\ Goto(r, "analyzed") /\ UNCHANGED <<vars, source, original>>
        /\ \A q \in Runs \ {r} : planned'[q] = planned[q]
    BY <1>0, <1>2 DEF Analyze, HealTypeOK
  <2>2. \A q \in Runs : stage[q] \notin Unstarted => q # r
    BY <2>1 DEF Unstarted
  <2>3. ~Busy(r)
    BY <2>1, CallsOfRun
  <2>4. QED  BY <2>1, <2>2, <2>3, StageAlone DEF Stages, Working
<1>3. ASSUME NEW r \in Runs, ReadOriginals(r)  PROVE StageInv'
  <2>1. /\ stage[r] = "analyzed" /\ UNCHANGED <<vars, source, planned>>
        /\ Goto(r, "applying") \/ Goto(r, "failed")
        /\ \A q \in Runs \ {r} : original'[q] = original[q]
    BY <1>0, <1>3 DEF ReadOriginals, HealTypeOK
  <2>2. \A q \in Runs : stage[q] \notin Unstarted => q # r
    BY <2>1 DEF Unstarted
  <2>3. ~Busy(r)
    BY <2>1, CallsOfRun
  <2>4. CASE Goto(r, "applying")
    BY <2>1, <2>2, <2>3, <2>4, StageAlone DEF Stages, Working
  <2>5. CASE Goto(r, "failed")
    BY <2>1, <2>2, <2>3, <2>5, StageAlone DEF Stages, Over, Working
  <2>6. QED  BY <2>1, <2>4, <2>5
<1>4. ASSUME NEW r \in Runs, ApplyReturned(r)  PROVE StageInv'
  <2>1. /\ stage[r] = "applying" /\ Goto(r, "reporting") /\ UNCHANGED <<vars, source, planned, original>>
        /\ \A f \in planned[r] : Written(r, f)
    BY <1>4 DEF ApplyReturned
  <2>2. ~Busy(r)
    BY <2>1, CallsOfRun
  <2>3. QED  BY <2>1, <2>2, StageAlone DEF Stages, Working
<1>5. ASSUME NEW r \in Runs, ApplyThrew(r)  PROVE StageInv'
  <2>1. stage[r] = "applying" /\ Goto(r, "undoing") /\ UNCHANGED <<vars, source, planned, original>>
    BY <1>5 DEF ApplyThrew
  <2>2. QED  BY <2>1, StageAlone DEF Stages, Working
<1>6. ASSUME NEW r \in Runs, EndUndo(r) \/ Report(r)  PROVE StageInv'
  <2>1. /\ UNCHANGED <<vars, source, planned, original>> /\ ~Busy(r)
        /\ \E p \in Over : Goto(r, p)
    BY <1>6, CallsOfRun DEF EndUndo, Report, Over
  <2>2. QED  BY <2>1, StageAlone DEF Stages, Working, Over
<1>7. ASSUME NEW r \in Runs, RefuseInput(r) \/ RefuseTarget(r) \/ RefuseApply(r) \/ RefuseCaveat(r)
                                 \/ Unreadable(r)
      PROVE  StageInv'
  <2>1. /\ UNCHANGED <<vars, source, planned, original>> /\ Goto(r, "failed")
        /\ stage[r] \in {"launched", "analyzed"}
    BY <1>7 DEF RefuseInput, RefuseTarget, RefuseApply, RefuseCaveat, Unreadable, Fail
  <2>2. ~Busy(r)
    BY <2>1, CallsOfRun
  <2>3. QED  BY <2>1, <2>2, StageAlone DEF Stages, Working, Over
<1>8. ASSUME NEW r \in Runs, NEW f \in Files, BeginHeal(r, f)  PROVE StageInv'
  <2>1. /\ Heal(r, f)[1] = r /\ Heal(r, f)[3] = f /\ Heal(r, f) \in Calls
        /\ Carried(Heal(r, f)) = HealStep(f, original[r][f], Hashed(r))
    BY CallParts DEF Heal, Carried
  <2>2. QED  BY <1>8, <2>1, StageBegins DEF BeginHeal
<1>9. ASSUME NEW r \in Runs, NEW f \in Files, BeginRestore(r, f)  PROVE StageInv'
  <2>1. /\ Restore(r, f)[1] = r /\ Restore(r, f)[3] = f /\ Restore(r, f) \in Calls
        /\ Carried(Restore(r, f)) = RestoreStep(f, original[r][f])
    BY CallParts DEF Restore, Carried
  <2>2. QED  BY <1>9, <2>1, StageBegins DEF BeginRestore, ToRestore
<1>10. ASSUME NEW r \in Runs, EndHeal(r) \/ Die(r)  PROVE StageInv'
  <2>1. /\ UNCHANGED <<call, source, planned, original>>
        /\ \A q \in Runs \ {r} : stage'[q] = stage[q] /\ runs'[q] = runs[q]
        /\ stage'[r] \in Over \cup {"dead"}
    BY <1>0, <1>10 DEF EndHeal, Die, EndRun, CrashRun, Goto, healVars, HealTypeOK, TypeOK
  <2>2. \A c \in Calls : InFlight(c)' => InFlight(c) /\ c[1] \in Runs /\ c[1] # r
    <3>1. ASSUME NEW c \in Calls, InFlight(c)'  PROVE InFlight(c) /\ RunOf(c) # r
      BY <1>10, <3>1 DEF EndHeal, Die, EndRun, CrashRun, InFlight, Suspended
    <3>2. QED  BY <3>1, CallsOfRun, CallParts
  <2>3. \A q \in Runs : stage'[q] \in Working => runs'[q].life = "live"
    BY <2>1 DEF Base, StageInv, Working, Over
  <2>4. ASSUME NEW c \in Calls, call'[c] # None
        PROVE  /\ RunOf(c)' = c[1] /\ StepOf(c)' = Carried(c)'
               /\ c[3] \in planned'[c[1]] /\ stage'[c[1]] \notin Unstarted
    BY <2>1, <2>4, CallParts DEF Base, StageInv, Unstarted, Over, RunOf, StepOf, Carried, Hashed
  <2>5. QED  BY <2>1, <2>2, <2>3, <2>4 DEF Base, StageInv
<1>11. ASSUME NEW c \in Calls, WriteFile(c) \/ RereadFile(c) \/ ReadBack(c) \/ LedgerMoves(c)
       PROVE  StageInv'
  <2>1. Advances(c)
    BY <1>0, <1>11, LedgerAdvances
  <2>2. \A d \in Calls : InFlight(d)' => InFlight(d)
    BY <2>1 DEF Advances, InFlight
  <2>3. UNCHANGED <<runs, call, stage, source, planned, original>>
    BY <2>1 DEF Advances
  <2>4. QED  BY <2>2, <2>3 DEF Base, StageInv, RunOf, StepOf, Carried, Hashed
<1>12. ASSUME NEW f \in Files, Edit(f)  PROVE StageInv'
  BY <1>12 DEF Edit, vars, Base, StageInv, RunOf, StepOf, Carried, Hashed, InFlight
<1>13. QED
  BY <1>1, <1>2, <1>3, <1>4, <1>5, <1>6, <1>7, <1>8, <1>9, <1>10, <1>11, <1>12
     DEF HealNext, Operation

--------------------------------------------------------------------------------
(* What is undone.                                                          *)

LEMMA NotBegun ==
    ASSUME Base, NEW r \in Runs, NEW f \in Files, stage[r] \in Unstarted
    PROVE  /\ call[Heal(r, f)] = None /\ call[Restore(r, f)] = None
           /\ pc[Heal(r, f)] = "idle" /\ ~Written(r, f)
<1>1. /\ Heal(r, f) \in Calls /\ Heal(r, f)[1] = r /\ Restore(r, f) \in Calls /\ Restore(r, f)[1] = r
  BY CallParts DEF Heal, Restore
<1>2. call[Heal(r, f)] = None /\ call[Restore(r, f)] = None
  BY <1>1, CallsOfRun
<1>3. QED  BY <1>1, <1>2 DEF Base, IInv, Lives, Written

\* Calls as they are, and no run that starts to apply or ends in failure.
LEMMA UndoAlone ==
    ASSUME Base, UNCHANGED <<call, pc, mem>>, NEW r \in Runs,
           \A q \in Runs \ {r} : stage'[q] = stage[q],
           stage'[r] = "applying" => stage[r] \in Unstarted,
           stage'[r] = "failed" => stage[r] \in Unstarted \cup {"failed"}
    PROVE  UndoInv'
<1>1. ASSUME NEW q \in Runs, NEW f \in Files
      PROVE  /\ Written(q, f)' => mem'[Heal(q, f)] = "applied"
             /\ call'[Restore(q, f)] # None => stage'[q] # "applying" /\ Written(q, f)'
             /\ stage'[q] = "failed" /\ Written(q, f)' => pc'[Restore(q, f)] \in Ended
  <2>1. Written(q, f)' <=> Written(q, f)
    BY DEF Written
  <2>2. CASE q # r
    BY <2>1, <2>2 DEF Base, UndoInv
  <2>3. CASE q = r
    BY <2>1, <2>3, NotBegun DEF Base, UndoInv
  <2>4. QED  BY <2>2, <2>3
<1>2. QED  BY <1>1 DEF UndoInv

LEMMA UndoStep ==
    ASSUME Base, HealNext
    PROVE  UndoInv'
<1>0. TypeOK /\ HealTypeOK /\ Lives /\ UndoInv
  BY DEF Base, IInv
<1>1. ASSUME NEW r \in Runs, Launch(r) \/ Analyze(r) \/ ReadOriginals(r)  PROVE UndoInv'
  <2>1. /\ UNCHANGED <<call, pc, mem>> /\ stage[r] \in Unstarted
        /\ \A q \in Runs \ {r} : stage'[q] = stage[q]
    BY <1>0, <1>1 DEF Launch, StartRun, Analyze, ReadOriginals, Goto, HealTypeOK, vars, Unstarted
  <2>2. QED  BY <2>1, UndoAlone
<1>2. ASSUME NEW r \in Runs, ApplyReturned(r) \/ ApplyThrew(r) \/ Report(r)  PROVE UndoInv'
  <2>1. /\ UNCHANGED <<call, pc, mem>> /\ stage'[r] \notin {"applying", "failed"}
        /\ \A q \in Runs \ {r} : stage'[q] = stage[q]
    BY <1>0, <1>2 DEF ApplyReturned, ApplyThrew, Report, Goto, HealTypeOK, vars
  <2>2. QED  BY <2>1, UndoAlone
<1>3. ASSUME NEW r \in Runs, RefuseInput(r) \/ RefuseTarget(r) \/ RefuseApply(r) \/ RefuseCaveat(r)
                                 \/ Unreadable(r)
      PROVE  UndoInv'
  <2>1. /\ UNCHANGED <<call, pc, mem>> /\ stage[r] \in Unstarted /\ stage'[r] = "failed"
        /\ \A q \in Runs \ {r} : stage'[q] = stage[q]
    BY <1>0, <1>3 DEF RefuseInput, RefuseTarget, RefuseApply, RefuseCaveat, Unreadable, Fail, Goto,
                      HealTypeOK, vars, Unstarted
  <2>2. QED  BY <2>1, UndoAlone
<1>4. ASSUME NEW r \in Runs, EndUndo(r)  PROVE UndoInv'
  <2>1. /\ UNCHANGED <<call, pc, mem>> /\ stage[r] = "undoing" /\ stage'[r] = "failed" /\ Undone(r)
        /\ \A q \in Runs \ {r} : stage'[q] = stage[q]
    BY <1>0, <1>4 DEF EndUndo, Goto, HealTypeOK, vars
  <2>2. ASSUME NEW f \in Files, Written(r, f)  PROVE pc[Restore(r, f)] \in Ended
    <3>1. Heal(r, f) \in Calls /\ Heal(r, f)[1] = r /\ Heal(r, f)[3] = f
      BY CallParts DEF Heal
    <3>2. call[Heal(r, f)] # None
      BY <1>0, <2>2, <3>1 DEF Lives, Written
    <3>3. f \in planned[r] /\ mem[Heal(r, f)] = "applied"
      BY <2>2, <3>1, <3>2 DEF Base, StageInv, UndoInv
    <3>4. QED  BY <2>1, <2>2, <3>3 DEF Undone, ToRestore
  <2>3. \A q \in Runs, f \in Files : Written(q, f)' <=> Written(q, f)
    BY <2>1 DEF Written
  <2>4. QED  BY <1>0, <2>1, <2>2, <2>3 DEF UndoInv
<1>5. ASSUME NEW r \in Runs, NEW f \in Files, BeginHeal(r, f)  PROVE UndoInv'
  <2>1. /\ Heal(r, f) \in Calls /\ \A q \in Runs, g \in Files : Restore(q, g) # Heal(r, f)
    BY CallParts DEF Heal, Restore
  <2>2. /\ stage[r] = "applying" /\ UNCHANGED <<stage, mem>> /\ pc[Heal(r, f)] = "idle"
        /\ pc'[Heal(r, f)] \in {"listing", "refused"}
        /\ \A c \in Calls \ {Heal(r, f)} : pc'[c] = pc[c] /\ call'[c] = call[c]
    BY <1>0, <1>5, <2>1 DEF BeginHeal, Begin, healVars, TypeOK
  <2>3. \A q \in Runs, g \in Files :
            /\ Restore(q, g) \in Calls /\ Heal(q, g) \in Calls
            /\ pc'[Restore(q, g)] = pc[Restore(q, g)] /\ call'[Restore(q, g)] = call[Restore(q, g)]
    BY <2>1, <2>2, CallParts
  <2>4. \A q \in Runs, g \in Files : Written(q, g)' <=> Written(q, g)
    BY <2>2, <2>3 DEF Written
  <2>5. QED  BY <1>0, <2>2, <2>3, <2>4 DEF UndoInv
<1>6. ASSUME NEW r \in Runs, NEW f \in Files, BeginRestore(r, f)  PROVE UndoInv'
  <2>1. /\ Restore(r, f) \in Calls /\ \A q \in Runs, g \in Files : Restore(r, f) # Heal(q, g)
    BY CallParts DEF Heal, Restore
  <2>2. /\ stage[r] = "undoing" /\ UNCHANGED <<stage, mem>> /\ pc[Restore(r, f)] = "idle"
        /\ \A c \in Calls \ {Restore(r, f)} : pc'[c] = pc[c] /\ call'[c] = call[c]
        /\ Written(r, f)
    BY <1>0, <1>6, <2>1 DEF BeginRestore, Begin, healVars, TypeOK, ToRestore
  <2>3. \A q \in Runs, g \in Files : Written(q, g)' <=> Written(q, g)
    BY <2>1, <2>2, CallParts DEF Written
  <2>4. ASSUME NEW q \in Runs, NEW g \in Files
        PROVE  /\ Written(q, g)' => mem'[Heal(q, g)] = "applied"
               /\ call'[Restore(q, g)] # None => stage'[q] # "applying" /\ Written(q, g)'
               /\ stage'[q] = "failed" /\ Written(q, g)' => pc'[Restore(q, g)] \in Ended
    <3>1. CASE Restore(q, g) = Restore(r, f)
      <4>1. q = r /\ g = f
        BY <3>1 DEF Restore
      <4>2. QED  BY <1>0, <2>2, <2>3, <4>1 DEF UndoInv
    <3>2. CASE Restore(q, g) # Restore(r, f)
      BY <1>0, <2>2, <2>3, <3>2, CallParts DEF UndoInv
    <3>3. QED  BY <3>1, <3>2
  <2>5. QED  BY <2>4 DEF UndoInv
<1>7. ASSUME NEW r \in Runs, EndHeal(r) \/ Die(r)  PROVE UndoInv'
  <2>1. /\ UNCHANGED <<call, mem>> /\ \A q \in Runs \ {r} : stage'[q] = stage[q]
        /\ stage'[r] = "dead" \/ stage'[r] = stage[r]
    BY <1>0, <1>7 DEF EndHeal, Die, EndRun, CrashRun, Goto, healVars, HealTypeOK
  <2>2. \A c \in Calls : /\ pc'[c] = "returned" <=> pc[c] = "returned"
                         /\ pc[c] \in Ended => pc'[c] \in Ended
    BY <1>7 DEF EndHeal, Die, EndRun, CrashRun, InFlight, Suspended, Ended
  <2>3. \A q \in Runs, g \in Files : Written(q, g)' <=> Written(q, g)
    BY <2>2, CallParts DEF Written
  <2>4. ASSUME NEW q \in Runs, NEW g \in Files
        PROVE  /\ Written(q, g)' => mem'[Heal(q, g)] = "applied"
               /\ call'[Restore(q, g)] # None => stage'[q] # "applying" /\ Written(q, g)'
               /\ stage'[q] = "failed" /\ Written(q, g)' => pc'[Restore(q, g)] \in Ended
    <3>1. stage'[q] = stage[q] \/ stage'[q] = "dead"
      BY <2>1
    <3>2. pc[Restore(q, g)] \in Ended => pc'[Restore(q, g)] \in Ended
      BY <2>2, CallParts
    <3>3. QED  BY <1>0, <2>1, <2>3, <3>1, <3>2 DEF UndoInv
  <2>5. QED  BY <2>4 DEF UndoInv
<1>8. ASSUME NEW c \in Calls, WriteFile(c) \/ RereadFile(c) \/ ReadBack(c) \/ LedgerMoves(c)
      PROVE  UndoInv'
  <2>1. Advances(c)
    BY <1>0, <1>8, LedgerAdvances
  <2>2. UNCHANGED <<stage, call>> /\ pc[c] \in Suspended /\ stage[c[1]] # "failed"
    BY <2>1 DEF Advances, InFlight, Base, StageInv
  <2>3. ASSUME NEW q \in Runs, NEW g \in Files
        PROVE  /\ Written(q, g)' => mem'[Heal(q, g)] = "applied"
               /\ call'[Restore(q, g)] # None => stage'[q] # "applying" /\ Written(q, g)'
               /\ stage'[q] = "failed" /\ Written(q, g)' => pc'[Restore(q, g)] \in Ended
    <3>1. Heal(q, g) \in Calls /\ Restore(q, g) \in Calls /\ Heal(q, g)[1] = q
      BY CallParts DEF Heal
    <3>2. Written(q, g)' => mem'[Heal(q, g)] = "applied"
      BY <1>0, <2>1, <3>1 DEF Advances, Written, UndoInv
    <3>3. Written(q, g) => Written(q, g)'
      BY <2>1, <2>2, <3>1 DEF Advances, Written, Suspended
    <3>4. pc[Restore(q, g)] \in Ended => pc'[Restore(q, g)] \in Ended
      BY <2>1, <2>2, <3>1 DEF Advances, Suspended, Ended
    <3>5. stage[q] = "failed" => (Written(q, g)' => Written(q, g))
      BY <2>1, <2>2, <3>1 DEF Advances, Written
    <3>6. QED  BY <1>0, <2>2, <3>2, <3>3, <3>4, <3>5 DEF UndoInv
  <2>4. QED  BY <2>3 DEF UndoInv
<1>9. ASSUME NEW f \in Files, Edit(f)  PROVE UndoInv'
  BY <1>0, <1>9 DEF Edit, vars, UndoInv, Written
<1>10. QED
  BY <1>1, <1>2, <1>3, <1>4, <1>5, <1>6, <1>7, <1>8, <1>9 DEF HealNext, Operation

--------------------------------------------------------------------------------
(* What is planned.                                                         *)

\* A scan and an artifact propose alike: a file that is healed is fresh.
LEMMA ProposedAnyway ==
    ASSUME NEW f \in Files, NEW content, Proposed(f, SelectorIn(f, content), findings)
    PROVE  Proposed(f, Form[f], findings)
<1>1. CASE content.healed
  BY <1>1 DEF SelectorIn, Proposed, Candidate, ValidateSelector
<1>2. CASE ~content.healed
  BY <1>2 DEF SelectorIn
<1>3. QED  BY <1>1, <1>2

LEMMA PlanStep ==
    ASSUME Base, HealNext
    PROVE  PlanInv'
<1>0. TypeOK /\ HealTypeOK /\ Lives /\ PlanInv
  BY DEF Base, IInv
<1>1. ASSUME NEW r \in Runs, Analyze(r)  PROVE PlanInv'
  <2>1. /\ stage[r] = "launched" /\ stage'[r] = "analyzed" /\ UNCHANGED <<call, findings>>
        /\ \A q \in Runs \ {r} : stage'[q] = stage[q] /\ planned'[q] = planned[q]
        /\ planned'[r] \in {Artifact, Scan}
    BY <1>0, <1>1 DEF Analyze, Goto, HealTypeOK, vars
  <2>2. \A f \in planned'[r] : f \in Files /\ Proposed(f, Form[f], findings)
    BY <2>1, ProposedAnyway DEF Artifact, Scan
  <2>3. \A f \in Files : call[Heal(r, f)] = None
    BY <2>1, NotBegun DEF Unstarted
  <2>4. \A q \in Runs \ {r} : CaveatedRun(q)' <=> CaveatedRun(q)
    BY <2>1 DEF CaveatedRun
  <2>5. ASSUME NEW q \in Runs
        PROVE  /\ \A f \in planned'[q] : Proposed(f, Form[f], findings')
               /\ stage'[q] \in {"applying", "undoing"} => ~CaveatedRun(q)'
               /\ \A f \in Files : call'[Heal(q, f)] # None => ~CaveatedRun(q)'
    <3>1. CASE q = r
      BY <2>1, <2>2, <2>3, <3>1
    <3>2. CASE q # r
      BY <1>0, <2>1, <2>4, <3>2 DEF PlanInv
    <3>3. QED  BY <3>1, <3>2
  <2>6. QED  BY <2>5 DEF PlanInv
<1>2. ASSUME NEW r \in Runs, ReadOriginals(r)  PROVE PlanInv'
  <2>1. /\ ~CaveatedRun(r) /\ UNCHANGED <<call, findings, planned>>
        /\ \A q \in Runs \ {r} : stage'[q] = stage[q]
    BY <1>0, <1>2 DEF ReadOriginals, Goto, HealTypeOK, vars
  <2>2. \A q \in Runs : CaveatedRun(q)' <=> CaveatedRun(q)
    BY <2>1 DEF CaveatedRun
  <2>3. QED  BY <1>0, <2>1, <2>2 DEF PlanInv
<1>3. ASSUME UNCHANGED <<findings, planned>>,
             \A q \in Runs : /\ stage'[q] \in {"applying", "undoing"} =>
                                   stage[q] \in {"applying", "undoing"}
                             /\ \A f \in Files : call'[Heal(q, f)] # None =>
                                   call[Heal(q, f)] # None \/ stage[q] = "applying"
      PROVE  PlanInv'
  <2>1. \A q \in Runs : CaveatedRun(q)' <=> CaveatedRun(q)
    BY <1>3 DEF CaveatedRun
  <2>2. QED  BY <1>0, <1>3, <2>1 DEF PlanInv
<1>4. ASSUME NEW r \in Runs, Launch(r) \/ ApplyReturned(r) \/ ApplyThrew(r) \/ EndUndo(r) \/ Report(r)
                                 \/ EndHeal(r) \/ Die(r)
      PROVE  PlanInv'
  <2>1. /\ UNCHANGED <<call, findings, planned>>
        /\ \A q \in Runs : stage'[q] \in {"applying", "undoing"} => stage[q] \in {"applying", "undoing"}
    BY <1>0, <1>4
       DEF Launch, StartRun, ApplyReturned, ApplyThrew, EndUndo, Report, EndHeal, Die, EndRun, CrashRun,
           Goto, HealTypeOK, vars, healVars
  <2>2. QED  BY <1>3, <2>1
<1>5. ASSUME NEW r \in Runs, RefuseInput(r) \/ RefuseTarget(r) \/ RefuseApply(r) \/ RefuseCaveat(r)
                                 \/ Unreadable(r)
      PROVE  PlanInv'
  <2>1. /\ UNCHANGED <<call, findings, planned>>
        /\ \A q \in Runs : stage'[q] \in {"applying", "undoing"} => stage[q] \in {"applying", "undoing"}
    BY <1>0, <1>5
       DEF RefuseInput, RefuseTarget, RefuseApply, RefuseCaveat, Unreadable, Fail, Goto, HealTypeOK, vars
  <2>2. QED  BY <1>3, <2>1
<1>6. ASSUME NEW r \in Runs, NEW f \in Files, BeginHeal(r, f)  PROVE PlanInv'
  <2>1. /\ UNCHANGED healVars /\ stage[r] = "applying"
        /\ \A c \in Calls \ {Heal(r, f)} : call'[c] = call[c]
    BY <1>0, <1>6 DEF BeginHeal, Begin, TypeOK
  <2>2. \A q \in Runs, g \in Files : Heal(q, g) = Heal(r, f) => q = r
    BY DEF Heal
  <2>3. QED  BY <1>3, <2>1, <2>2, CallParts DEF healVars
<1>7. ASSUME NEW r \in Runs, NEW f \in Files, BeginRestore(r, f)  PROVE PlanInv'
  <2>1. /\ UNCHANGED healVars
        /\ \A c \in Calls \ {Restore(r, f)} : call'[c] = call[c]
    BY <1>0, <1>7 DEF BeginRestore, Begin, TypeOK
  <2>2. \A q \in Runs, g \in Files : Heal(q, g) # Restore(r, f)
    BY DEF Heal, Restore
  <2>3. QED  BY <1>3, <2>1, <2>2, CallParts DEF healVars
<1>8. ASSUME NEW c \in Calls, WriteFile(c) \/ RereadFile(c) \/ ReadBack(c) \/ LedgerMoves(c)
      PROVE  PlanInv'
  <2>1. UNCHANGED <<call, findings, planned, stage>>
    BY <1>0, <1>8, LedgerAdvances DEF Advances
  <2>2. QED  BY <1>3, <2>1
<1>9. ASSUME NEW f \in Files, Edit(f)  PROVE PlanInv'
  BY <1>3, <1>9 DEF Edit, vars
<1>10. QED
  BY <1>1, <1>2, <1>4, <1>5, <1>6, <1>7, <1>8, <1>9 DEF HealNext, Operation

--------------------------------------------------------------------------------
(* What an edit of the operator is worth.                                   *)

\* EditInv at one run and one file.
EditPart(r, f) ==
    /\ stage[r] \in {"unborn", "launched"} => ~plan[r][f].edited
    /\ stage[r] = "analyzed" /\ plan[r][f].edited => file[f].edited
    /\ stage[r] \in {"applying", "undoing"} /\ plan[r][f].edited => original[r][f].edited
    /\ (/\ pc[Heal(r, f)] \in {"opening", "acting"} /\ source[r] = "scan"
        /\ file[f].edited /\ ~original[r][f].edited) => Heal(r, f) \in exposed[f]

LEMMA EditParts == EditInv <=> \A r \in Runs, f \in Files : EditPart(r, f)
BY DEF EditInv, EditPart

\* Without overlap one run is at work, with one call in flight.
LEMMA OneAtWork ==
    ASSUME Base, ~Overlap
    PROVE  /\ \A r, q \in Runs : stage[r] \in Working /\ stage[q] \in Working => r = q
           /\ \A c, d \in Calls : InFlight(c) /\ InFlight(d) => c = d
           /\ \A c \in Calls : InFlight(c) => stage[c[1]] \in Working
<1>1. \A r, q \in Runs : stage[r] \in Working /\ stage[q] \in Working => r = q
  BY DEF Base, IInv, Lives, StageInv
<1>2. \A c \in Calls : InFlight(c) => stage[c[1]] \in Working
  BY DEF Base, StageInv, Working
<1>3. QED  BY <1>1, <1>2, CallParts DEF Base, StageInv

\* A run that only moves on, files and calls as they are.
LEMMA EditAlone ==
    ASSUME Base, EditInv, UNCHANGED <<plan, original, file, exposed>>,
           \A q \in Runs :
               /\ stage'[q] = stage[q] \/ stage'[q] \in Over \cup {"dead", "reporting"}
                     \/ (stage[q] = "unborn" /\ stage'[q] = "launched")
                     \/ (stage[q] = "applying" /\ stage'[q] = "undoing")
               /\ stage[q] # "unborn" => source'[q] = source[q]
               /\ \A f \in Files : pc'[Heal(q, f)] \in {"opening", "acting"} =>
                     pc[Heal(q, f)] \in {"opening", "acting"}
    PROVE  EditInv'
<1>1. ASSUME NEW q \in Runs, NEW f \in Files  PROVE EditPart(q, f)'
  <2>1. EditPart(q, f)
    BY EditParts
  <2>2. pc'[Heal(q, f)] \in {"opening", "acting"} => stage[q] # "unborn"
    BY NotBegun DEF Unstarted
  <2>3. Heal(q, f)' = Heal(q, f)
    BY DEF Heal
  <2>4. QED  BY <2>1, <2>2, <2>3 DEF EditPart, Over
<1>2. QED  BY <1>1 DEF EditInv, EditPart

LEMMA EditStep ==
    ASSUME Base, EditInv, ~Overlap, HealNext
    PROVE  EditInv'
<1>0. TypeOK /\ HealTypeOK /\ Lives
  BY DEF Base, IInv
<1>1. ASSUME NEW r \in Runs, Launch(r) \/ ApplyReturned(r) \/ ApplyThrew(r) \/ EndUndo(r) \/ Report(r)
      PROVE  EditInv'
  <2>1. /\ UNCHANGED <<plan, original, file, exposed, pc>>
        /\ \A q \in Runs \ {r} : stage'[q] = stage[q] /\ source'[q] = source[q]
        /\ \/ stage[r] = "unborn" /\ stage'[r] = "launched"
           \/ source' = source /\ stage'[r] \in Over \cup {"reporting"}
           \/ source' = source /\ stage[r] = "applying" /\ stage'[r] = "undoing"
    BY <1>0, <1>1
       DEF Launch, StartRun, ApplyReturned, ApplyThrew, EndUndo, Report, Goto, HealTypeOK, vars, Over
  <2>2. QED  BY <2>1, EditAlone
<1>2. ASSUME NEW r \in Runs, RefuseInput(r) \/ RefuseTarget(r) \/ RefuseApply(r) \/ RefuseCaveat(r)
                                 \/ Unreadable(r)
      PROVE  EditInv'
  <2>1. /\ UNCHANGED <<plan, original, file, exposed, pc, source>>
        /\ \A q \in Runs \ {r} : stage'[q] = stage[q]
        /\ stage'[r] \in Over
    BY <1>0, <1>2
       DEF RefuseInput, RefuseTarget, RefuseApply, RefuseCaveat, Unreadable, Fail, Goto, HealTypeOK, vars,
           Over
  <2>2. QED  BY <2>1, EditAlone
<1>3. ASSUME NEW r \in Runs, EndHeal(r) \/ Die(r)  PROVE EditInv'
  <2>1. /\ UNCHANGED <<plan, original, file, exposed, source>>
        /\ \A q \in Runs : stage'[q] = stage[q] \/ stage'[q] = "dead"
    BY <1>0, <1>3 DEF EndHeal, Die, Goto, healVars, HealTypeOK
  <2>2. \A c \in Calls : pc'[c] = pc[c] \/ pc'[c] = "dead"
    BY <1>3 DEF EndHeal, Die, EndRun, CrashRun
  <2>3. QED  BY <2>1, <2>2, EditAlone, CallParts
<1>4. ASSUME NEW r \in Runs, NEW f \in Files, BeginHeal(r, f) \/ BeginRestore(r, f)  PROVE EditInv'
  <2>1. \A c \in Calls : pc'[c] = pc[c] \/ pc'[c] \in {"listing", "refused"}
    BY <1>0, <1>4 DEF BeginHeal, BeginRestore, Begin, TypeOK
  <2>2. UNCHANGED healVars
    BY <1>4 DEF BeginHeal, BeginRestore
  <2>3. QED  BY <2>1, <2>2, EditAlone, CallParts DEF healVars
<1>5. ASSUME NEW r \in Runs, Analyze(r)  PROVE EditInv'
  <2>1. /\ UNCHANGED <<pc, source, original, file, exposed>>
        /\ \A q \in Runs \ {r} : stage'[q] = stage[q] /\ plan'[q] = plan[q]
        /\ stage[r] = "launched" /\ stage'[r] = "analyzed"
        /\ plan'[r] = plan[r] \/ plan'[r] = file
    BY <1>0, <1>5 DEF Analyze, Goto, HealTypeOK, vars
  <2>2. ASSUME NEW q \in Runs, NEW f \in Files  PROVE EditPart(q, f)'
    <3>1. EditPart(q, f) /\ Heal(q, f)' = Heal(q, f)
      BY EditParts DEF Heal
    <3>2. CASE q = r
      <4>1. pc[Heal(r, f)] = "idle"
        BY <2>1, NotBegun DEF Unstarted
      <4>2. QED  BY <2>1, <3>1, <3>2, <4>1 DEF EditPart
    <3>3. CASE q # r
      BY <2>1, <3>1, <3>3 DEF EditPart
    <3>4. QED  BY <3>2, <3>3
  <2>3. QED  BY <2>2 DEF EditInv, EditPart
<1>6. ASSUME NEW r \in Runs, ReadOriginals(r)  PROVE EditInv'
  <2>1. /\ UNCHANGED <<pc, source, plan, file, exposed>>
        /\ \A q \in Runs \ {r} : stage'[q] = stage[q] /\ original'[q] = original[q]
        /\ stage[r] = "analyzed" /\ stage'[r] \in {"applying", "failed"} /\ original'[r] = file
    BY <1>0, <1>6 DEF ReadOriginals, Goto, HealTypeOK, vars
  <2>2. ASSUME NEW q \in Runs, NEW f \in Files  PROVE EditPart(q, f)'
    <3>1. EditPart(q, f) /\ Heal(q, f)' = Heal(q, f)
      BY EditParts DEF Heal
    <3>2. CASE q = r
      <4>1. pc[Heal(r, f)] = "idle"
        BY <2>1, NotBegun DEF Unstarted
      <4>2. QED  BY <2>1, <3>1, <3>2, <4>1 DEF EditPart
    <3>3. CASE q # r
      BY <2>1, <3>1, <3>3 DEF EditPart
    <3>4. QED  BY <3>2, <3>3
  <2>3. QED  BY <2>2 DEF EditInv, EditPart
<1>7. ASSUME NEW c \in Calls, WriteFile(c)  PROVE EditInv'
  <2>1. /\ Advances(c) /\ pc[c] = "acting" /\ pc'[c] = "settling" /\ UNCHANGED exposed
        /\ \A f \in Files \ {c[3]} : file'[f] = file[f]
    BY <1>0, <1>7, LedgerAdvances DEF WriteFile, Act, FileOf, HealTypeOK, TypeOK
  <2>2. stage[c[1]] \in {"applying", "undoing"} /\ InFlight(c)
    BY <2>1 DEF Advances, Base, StageInv
  <2>3. \A d \in Calls \ {c} : pc[d] \notin {"opening", "acting"}
    BY <2>2, OneAtWork DEF InFlight, Suspended
  <2>4. \A q \in Runs : stage[q] # "analyzed"
    <3>1. SUFFICES ASSUME NEW q \in Runs, stage[q] = "analyzed" PROVE FALSE
      OBVIOUS
    <3>2. c[1] \in Runs /\ stage[c[1]] \in Working /\ stage[q] \in Working
      BY <2>2, <3>1, CallParts DEF Working
    <3>3. q = c[1]
      BY <3>1, <3>2, OneAtWork
    <3>4. QED  BY <2>2, <3>1, <3>3
  <2>5. ASSUME NEW q \in Runs, NEW f \in Files  PROVE EditPart(q, f)'
    <3>1. EditPart(q, f) /\ Heal(q, f)' = Heal(q, f)
      BY EditParts DEF Heal
    <3>2. pc'[Heal(q, f)] \notin {"opening", "acting"}
      BY <2>1, <2>3, CallParts DEF Advances
    <3>3. QED  BY <2>1, <2>4, <3>1, <3>2 DEF EditPart, Advances
  <2>6. QED  BY <2>5 DEF EditInv, EditPart
<1>8. ASSUME NEW c \in Calls, RereadFile(c)  PROVE EditInv'
  <2>1. /\ Advances(c) /\ pc[c] = "rereading" /\ UNCHANGED <<file, exposed>>
        /\ pc'[c] = "opening" => file[c[3]] = plan[c[1]][c[3]]
    BY <1>0, <1>8, LedgerAdvances DEF RereadFile, Reread, FileOf, healVars
  <2>2. stage[c[1]] \in {"applying", "undoing"}
    BY <2>1 DEF Advances, Base, StageInv
  <2>3. ASSUME NEW q \in Runs, NEW f \in Files  PROVE EditPart(q, f)'
    <3>1. EditPart(q, f) /\ Heal(q, f)' = Heal(q, f) /\ Heal(q, f) \in Calls
      BY EditParts, CallParts DEF Heal
    <3>2. CASE Heal(q, f) = c
      <4>1. c[1] = q /\ c[3] = f
        BY <3>2 DEF Heal
      <4>2. pc'[c] \in {"opening", "acting"} => pc'[c] = "opening"
        BY <1>0, <1>8 DEF RereadFile, Reread, TypeOK
      <4>3. QED  BY <2>1, <2>2, <3>1, <3>2, <4>1, <4>2 DEF EditPart, Advances
    <3>3. CASE Heal(q, f) # c
      BY <2>1, <3>1, <3>3 DEF EditPart, Advances
    <3>4. QED  BY <3>2, <3>3
  <2>4. QED  BY <2>3 DEF EditInv, EditPart
<1>9. ASSUME NEW c \in Calls, ReadBack(c) \/ LedgerMoves(c)  PROVE EditInv'
  <2>1. Advances(c) /\ UNCHANGED healVars
    BY <1>0, <1>9, LedgerAdvances DEF ReadBack, LedgerMoves
  <2>2. ASSUME NEW q \in Runs, NEW f \in Files, pc'[Heal(q, f)] \in {"opening", "acting"}
        PROVE  pc[Heal(q, f)] \in {"opening", "acting"} \/ source[q] # "scan"
    <3>1. CASE Heal(q, f) # c
      BY <2>1, <2>2, <3>1, CallParts DEF Advances
    <3>2. CASE Heal(q, f) = c
      <4>1. CASE ListStore(c)
        <5>1. pc'[c] # "acting" /\ (pc'[c] = "opening" => ~StepOf(c).cas)
          BY <1>0, <4>1 DEF ListStore, TypeOK
        <5>2. call[c] # None
          BY <2>1 DEF Advances, InFlight, Suspended, Base, IInv, Lives
        <5>3. StepOf(c) = Carried(c) /\ c[1] = q /\ c[2] = "heal"
          BY <3>2, <5>2 DEF Base, StageInv, Heal
        <5>4. StepOf(c).cas = Hashed(q)
          BY <5>3 DEF Carried, HealStep
        <5>5. QED  BY <2>2, <3>2, <5>1, <5>4 DEF Hashed
      <4>2. CASE ~ListStore(c)
        BY <1>0, <1>9, <2>2, <3>2, <4>2
           DEF ReadBack, Verify, LedgerMoves, OpenReceipt, OpenFails, Settle, FinalizeReceipt,
               FinalizeFails, TypeOK
      <4>3. QED  BY <4>1, <4>2
    <3>3. QED  BY <3>1, <3>2
  <2>3. ASSUME NEW q \in Runs, NEW f \in Files  PROVE EditPart(q, f)'
    <3>1. EditPart(q, f) /\ Heal(q, f)' = Heal(q, f)
      BY EditParts DEF Heal
    <3>2. QED  BY <2>1, <2>2, <3>1 DEF EditPart, healVars
  <2>4. QED  BY <2>3 DEF EditInv, EditPart
<1>10. ASSUME NEW g \in Files, Edit(g)  PROVE EditInv'
  <2>1. /\ UNCHANGED <<pc, stage, source, plan, original>>
        /\ \A f \in Files \ {g} : file'[f] = file[f]
        /\ file'[g].edited
        /\ exposed' = [exposed EXCEPT ![g] =
                          {c \in Calls : FileOf(c) = g /\ pc[c] \in {"opening", "acting"}}]
    BY <1>0, <1>10 DEF Edit, HealTypeOK, Content, vars
  <2>4. /\ \A f \in Files \ {g} : exposed'[f] = exposed[f]
        /\ exposed'[g] = {c \in Calls : FileOf(c) = g /\ pc[c] \in {"opening", "acting"}}
    BY <1>0, <2>1 DEF HealTypeOK
  <2>2. ASSUME NEW q \in Runs, NEW f \in Files  PROVE EditPart(q, f)'
    <3>1. EditPart(q, f) /\ Heal(q, f)' = Heal(q, f) /\ Heal(q, f) \in Calls /\ Heal(q, f)[3] = f
      BY EditParts, CallParts DEF Heal
    <3>2. CASE f # g
      <4>1. Heal(q, f) \in exposed[f] => Heal(q, f) \in exposed'[f]
        BY <2>4, <3>2
      <4>2. QED  BY <2>1, <3>1, <3>2, <4>1 DEF EditPart
    <3>3. CASE f = g
      <4>1. pc[Heal(q, f)] \in {"opening", "acting"} => Heal(q, f) \in exposed'[f]
        BY <2>4, <3>1, <3>3 DEF FileOf
      <4>2. QED  BY <2>1, <3>1, <3>3, <4>1 DEF EditPart
    <3>4. QED  BY <3>2, <3>3
  <2>3. QED  BY <2>2 DEF EditInv, EditPart
<1>11. QED
  BY <1>1, <1>2, <1>3, <1>4, <1>5, <1>6, <1>7, <1>8, <1>9, <1>10 DEF HealNext, Operation

--------------------------------------------------------------------------------
(* The invariant of every run, and what follows from it.                    *)

LEMMA HealInitial == HealInit => HealInv
<1> SUFFICES ASSUME HealInit  PROVE HealInv
  OBVIOUS
<1>1. TypeOK /\ IInv
  BY InitEstablishes DEF HealInit
<1>2. HealTypeOK
  BY DEF HealInit, HealTypeOK, Stages, Pristine, Content
<1>3. /\ \A r \in Runs : stage[r] = "unborn" /\ planned[r] = {}
      /\ \A r \in Runs, f \in Files : ~plan[r][f].edited
      /\ \A c \in Calls : call[c] = None /\ pc[c] = "idle"
  BY DEF HealInit, Init, Pristine
<1>4. StageInv
  BY <1>3 DEF StageInv, Working, InFlight, Suspended
<1>5. UndoInv
  BY <1>3, CallParts DEF UndoInv, Written
<1>6. PlanInv
  BY <1>3, CallParts DEF PlanInv
<1>7. EditInv
  BY <1>3, CallParts DEF EditInv
<1>8. QED  BY <1>1, <1>2, <1>4, <1>5, <1>6, <1>7 DEF HealInv

LEMMA HealInductive ==
    ASSUME HealInv, [HealNext]_allVars
    PROVE  HealInv'
<1>1. CASE HealNext
  <2>1. Base /\ (~Overlap => EditInv)
    BY DEF Base, HealInv
  <2>2. TypeOK' /\ IInv'
    BY <1>1, HealStepsLedger, LedgerStep DEF HealInv
  <2>3. HealTypeOK'
    BY <1>1, HealTypes DEF HealInv
  <2>4. StageInv' /\ UndoInv' /\ PlanInv'
    BY <1>1, <2>1, StageStep, UndoStep, PlanStep
  <2>5. ~Overlap => EditInv'
    BY <1>1, <2>1, EditStep
  <2>6. QED  BY <2>2, <2>3, <2>4, <2>5 DEF HealInv
<1>2. CASE UNCHANGED allVars
  <2>1. UNCHANGED vars /\ UNCHANGED healVars
    BY <1>2 DEF allVars
  <2>2. TypeOK' /\ IInv'
    BY <2>1, LedgerStep DEF HealInv
  <2>3. HealTypeOK' /\ StageInv' /\ UndoInv'
    BY <2>1 DEF HealInv, HealTypeOK, StageInv, UndoInv, vars, healVars, RunOf, StepOf, Carried, Hashed,
                InFlight, Written
  <2>4. PlanInv' /\ (EditInv => EditInv')
    BY <2>1 DEF HealInv, PlanInv, EditInv, CaveatedRun, vars, healVars
  <2>5. QED  BY <2>2, <2>3, <2>4 DEF HealInv
<1>3. QED  BY <1>1, <1>2

\* Calls, stages, proposals and files stay in step, whatever fails and whoever dies.
THEOREM HealInvHolds == HealSpec => []HealInv
BY HealInitial, HealInductive, PTL DEF HealSpec

\* A heal is a client of the mutation ledger: whatever is proved of the ledger holds here.
THEOREM HealImplementsLedger == HealSpec => Spec
<1>1. HealInit => Init
  BY DEF HealInit
<1>2. HealInv /\ [HealNext]_allVars => [Next]_vars
  BY HealStepsLedger DEF HealInv, allVars
<1>3. QED  BY HealInvHolds, <1>1, <1>2, PTL DEF HealSpec, Spec

\* The steps of a heal are honest: a refused or unwritten file settles as such.
LEMMA HealsHonestly ==
    ASSUME HealInv, NEW c \in Calls, Stored(c)
    PROVE  call[c] # None /\ Honest(StepOf(c))
<1>1. pc[c] # "idle"
  BY DEF HealInv, IInv, Phases, PhaseOf
<1>2. call[c] # None
  BY <1>1 DEF HealInv, IInv, Lives
<1>3. StepOf(c) = Carried(c)
  BY <1>2 DEF HealInv, StageInv
<1>4. Honest(StepOf(c))
  BY <1>3 DEF Carried, HealStep, RestoreStep, HealSettle, Honest
<1>5. QED  BY <1>2, <1>4

\* So a definite receipt of a rewrite or a restore is true of the file, with no hypothesis
\* on steps: `applied` was written, `failed` was not.
THEOREM HealDefiniteIsTrueHolds == HealSpec => []DefiniteIsTrue
<1>1. HealInv => DefiniteIsTrue
  BY HealsHonestly DEF HealInv, IInv, Truths, DefiniteIsTrue
<1>2. QED  BY <1>1, HealInvHolds, PTL

\* What a heal records as applied took place.
LEMMA AppliedTook ==
    ASSUME HealInv, NEW c \in Calls, Stored(c), disk[c].outcome = "applied"
    PROVE  call[c] # None /\ world[c] = "took"
BY HealsHonestly DEF HealInv, IInv, Truths

LEMMA WrittenTook ==
    ASSUME HealInv, NEW c \in Calls, pc[c] = "returned"
    PROVE  disk[c].outcome = "applied" /\ world[c] = "took"
BY AppliedTook DEF HealInv, IInv, Phases, PhaseOf

\* A restore acts only on a file whose own rewrite is recorded as applied, and was.
THEOREM RestoreAfterDefiniteHolds == HealSpec => []RestoreAfterDefinite
<1>1. HealInv => RestoreAfterDefinite
  <2> SUFFICES ASSUME HealInv, NEW r \in Runs, NEW f \in Files, Acted(Restore(r, f))
               PROVE  world[Heal(r, f)] = "took" /\ disk[Heal(r, f)].outcome = "applied"
    BY DEF RestoreAfterDefinite
  <2>1. Heal(r, f) \in Calls /\ Restore(r, f) \in Calls
    BY CallParts
  <2>2. pc[Restore(r, f)] # "idle"
    BY <2>1 DEF HealInv, IInv, Phases, PhaseOf
  <2>3. call[Restore(r, f)] # None
    BY <2>1, <2>2 DEF HealInv, IInv, Lives
  <2>4. pc[Heal(r, f)] = "returned"
    BY <2>3 DEF HealInv, UndoInv, Written
  <2>5. QED  BY <2>1, <2>4, WrittenTook
<1>2. QED  BY <1>1, HealInvHolds, PTL

\* What a heal that failed leaves healed, it could not know or could not undo.
THEOREM LeftoversAreNamedHolds == HealSpec => []LeftoversAreNamed
<1>1. HealInv => LeftoversAreNamed
  <2> SUFFICES ASSUME HealInv, NEW r \in Runs, NEW f \in Files, stage[r] = "failed",
                      world[Restore(r, f)] # "took", Written(r, f)
               PROVE  pc[Restore(r, f)] \in Ended \ {"returned"}
    BY DEF LeftoversAreNamed
  <2>1. pc[Restore(r, f)] \in Ended
    BY DEF HealInv, UndoInv
  <2>2. pc[Restore(r, f)] # "returned"
    BY CallParts, WrittenTook
  <2>3. QED  BY <2>1, <2>2
<1>2. QED  BY <1>1, HealInvHolds, PTL

\* Among finitely many numbers one is the least.
LEMMA Least ==
    ASSUME NEW n \in Nat, NEW T \in SUBSET (1..n), T # {}
    PROVE  \E i \in T : \A j \in T : i <= j
<1> DEFINE Below(i) == {j \in T : j < i}
           U == {Below(i) : i \in T}
<1>1. IsFiniteSet(T)
  <2>1. IsFiniteSet(1..n)
    BY FS_Interval
  <2>2. QED  BY <2>1, FS_Subset
<1>2. U \subseteq FiniteSubsetsOf(T) /\ U # {}
  <2>1. FiniteSubsetsOf(T) = SUBSET T
    BY <1>1, FS_FiniteSubsetsOfFinite
  <2>2. \A i \in T : Below(i) \in SUBSET T
    OBVIOUS
  <2>3. U \subseteq SUBSET T
    BY <2>2
  <2>4. PICK i \in T : TRUE
    OBVIOUS
  <2>5. Below(i) \in U
    OBVIOUS
  <2>6. QED  BY <2>1, <2>3, <2>5
<1>3. IsWellFoundedOn(StrictSubsetOrdering(T), FiniteSubsetsOf(T))
  BY FS_StrictSubsetOrderingWellFounded
<1>4. PICK x \in U : \A y \in U : ~ (<<y, x>> \in StrictSubsetOrdering(T))
  <2> HIDE DEF U
  <2>1. QED  BY <1>2, <1>3, WFMin
<1>5. PICK i \in T : x = Below(i)
  OBVIOUS
<1>6. ASSUME NEW j \in T, j < i  PROVE FALSE
  <2>1. Below(j) \in U
    OBVIOUS
  <2>2. ASSUME NEW k \in Below(j)  PROVE k \in Below(i)
    <3>1. k \in T /\ k < j
      OBVIOUS
    <3>2. k \in Int /\ j \in Int /\ i \in Int
      BY <3>1
    <3>3. k < i
      BY <1>6, <3>1, <3>2
    <3>4. QED  BY <3>1, <3>3
  <2>3. j \in Below(i) /\ ~(j \in Below(j))
    BY <1>6
  <2>4. Below(j) \in SUBSET T /\ Below(i) \in SUBSET T
    OBVIOUS
  <2>5. Below(j) \subseteq Below(i) /\ Below(j) # Below(i)
    BY <2>2, <2>3
  <2>6. <<Below(j), Below(i)>> \in StrictSubsetOrdering(T)
    <3> HIDE DEF Below
    <3>1. QED  BY <2>4, <2>5 DEF StrictSubsetOrdering
  <2>7. QED  BY <1>4, <1>5, <2>1, <2>6
<1>7. \A j \in T : i <= j
  <2>1. \A j \in T : ~(j < i)
    BY <1>6
  <2>2. \A j \in T : j \in Int /\ i \in Int
    OBVIOUS
  <2>3. QED  BY <2>1, <2>2
<1>8. QED  BY <1>7

\* The finding that triggers is the first that mentions the selector.
LEMMA TriggeringIsFirst ==
    ASSUME HealTypeOK, findings # NotGiven, NEW f \in Files, Mentions(f, findings) # {}
    PROVE  \E i \in Mentions(f, findings) :
              /\ Triggering(f, findings) = findings[i]
              /\ \A j \in Mentions(f, findings) : i <= j
<1>1. Len(findings) \in Nat /\ DOMAIN findings = 1..Len(findings)
  BY HealAssumption DEF HealTypeOK
<1>2. \E i \in Mentions(f, findings) : \A j \in Mentions(f, findings) : i <= j
  BY <1>1, Least DEF Mentions
<1>3. QED  BY <1>2 DEF Triggering

\* With findings given, only the first that speaks of a selector licenses its rewrite.
THEOREM LicensedRewritesHolds == HealSpec => []LicensedRewrites
<1>1. HealInv => LicensedRewrites
  <2> SUFFICES ASSUME HealInv, NEW r \in Runs, NEW f \in Files, Acted(Heal(r, f)), findings # NotGiven
               PROVE  \E i \in DOMAIN findings :
                         /\ f \in findings[i].names /\ findings[i].basis \in {"fault", NotGiven}
                         /\ \/ findings[i].typed = "excluded"
                            \/ /\ findings[i].typed = NotGiven
                               /\ findings[i].marker \in {"excluded", NotGiven}
                         /\ \A j \in 1..(i - 1) :
                               f \in findings[j].names => findings[j].basis \notin {"fault", NotGiven}
    BY DEF LicensedRewrites
  <2>1. Heal(r, f) \in Calls /\ Heal(r, f)[1] = r /\ Heal(r, f)[3] = f
    BY CallParts DEF Heal
  <2>2. pc[Heal(r, f)] # "idle"
    BY <2>1 DEF HealInv, IInv, Phases, PhaseOf
  <2>3. call[Heal(r, f)] # None
    BY <2>1, <2>2 DEF HealInv, IInv, Lives
  <2>4. f \in planned[r] /\ ~CaveatedRun(r)
    BY <2>1, <2>3 DEF HealInv, StageInv, PlanInv
  <2>5. Proposed(f, Form[f], findings) /\ ~Caveated(f, Form[f], findings)
    BY <2>4 DEF HealInv, PlanInv, CaveatedRun
  <2>6. Mentions(f, findings) # {} /\ Permission(f, findings) \notin {"refuse", "caveat"}
    BY <2>5 DEF Proposed, Caveated, Candidate, Targeted
  <2>7. PICK i \in Mentions(f, findings) :
           /\ Triggering(f, findings) = findings[i]
           /\ \A j \in Mentions(f, findings) : i <= j
    BY <2>6, TriggeringIsFirst DEF HealInv
  <2>8. FrameDeterminationOfFinding(findings[i]) \in {NotGiven, "excluded"}
    BY <2>6, <2>7 DEF Permission, FramePermissionFor
  <2>9. /\ i \in DOMAIN findings /\ f \in findings[i].names
        /\ findings[i].basis \in {"fault", NotGiven}
    BY DEF Mentions, IsHealableFinding
  <2>10. \/ findings[i].typed = "excluded"
         \/ findings[i].typed = NotGiven /\ findings[i].marker \in {"excluded", NotGiven}
    BY <2>8 DEF FrameDeterminationOfFinding
  <2>11. ASSUME NEW j \in 1..(i - 1), f \in findings[j].names
         PROVE  findings[j].basis \notin {"fault", NotGiven}
    <3>1. Len(findings) \in Nat /\ DOMAIN findings = 1..Len(findings)
      BY HealAssumption DEF HealInv, HealTypeOK
    <3>2. j \in DOMAIN findings /\ ~(i <= j)
      BY <2>9, <3>1
    <3>3. QED  BY <2>7, <2>11, <3>2 DEF Mentions, IsHealableFinding
  <2>12. QED  BY <2>9, <2>10, <2>11
<1>2. QED  BY <1>1, HealInvHolds, PTL

\* Without overlapping runs, a scan's rewrite destroys an edit only when it was saved after
\* that write's own re-read of the file.
THEOREM EditsLostInWindowHolds ==
    ASSUME ~Overlap
    PROVE  HealSpec => EditsLostInWindow
<1>1. HealInv /\ [HealNext]_allVars => EditLostInWindow
  <2> SUFFICES ASSUME HealInv, [HealNext]_allVars, NEW r \in Runs, NEW f \in Files, source[r] = "scan",
                      ~Acted(Heal(r, f)), world'[Heal(r, f)] = "took",
                      file[f].edited, ~file'[f].edited
               PROVE  Heal(r, f) \in exposed[f]
    BY DEF EditLostInWindow
  <2> DEFINE c == Heal(r, f)
  <2>1. c \in Calls /\ c[1] = r /\ c[2] = "heal" /\ c[3] = f /\ TypeOK /\ HealTypeOK
    BY CallParts DEF Heal, HealInv
  <2>2. HealNext /\ world'[c] # world[c]
    BY DEF Acted, allVars, vars
  <2>3. WriteFile(c)
    <3>1. ASSUME NEW d \in Calls, WriteFile(d) \/ RereadFile(d) \/ ReadBack(d) \/ LedgerMoves(d)
          PROVE  WriteFile(c)
      <4>1. Advances(d)
        BY <2>1, <3>1, LedgerAdvances
      <4>2. c = d
        BY <2>1, <2>2, <4>1 DEF Advances
      <4>3. QED  BY <2>2, <3>1, <4>2
                 DEF RereadFile, Reread, ReadBack, Verify, LedgerMoves, ListStore, OpenReceipt, OpenFails,
                     Settle, FinalizeReceipt, FinalizeFails
    <3>2. ASSUME NEW q \in Runs, Launch(q) \/ EndHeal(q) \/ Die(q)  PROVE UNCHANGED world
      BY <3>2 DEF Launch, StartRun, EndHeal, Die, EndRun, CrashRun
    <3>3. ASSUME NEW q \in Runs, Operation(q)  PROVE UNCHANGED world
      BY <3>3 DEF Operation, Analyze, ReadOriginals, RefuseInput, RefuseTarget, RefuseApply,
                  RefuseCaveat, Unreadable, Fail, ApplyReturned, ApplyThrew, EndUndo, Report,
                  BeginHeal, BeginRestore, Begin, vars
    <3>4. ASSUME NEW g \in Files, Edit(g)  PROVE UNCHANGED world
      BY <3>4 DEF Edit, vars
    <3>5. QED  BY <2>2, <3>1, <3>2, <3>3, <3>4 DEF HealNext
  <2>4. pc[c] = "acting" /\ file'[f] = Intended(c)
    BY <2>1, <2>3 DEF WriteFile, Act, FileOf, HealTypeOK
  <2>5. ~original[r][f].edited
    <3>1. Intended(c) = [original[r][f] EXCEPT !.healed = TRUE]
      BY <2>1 DEF Intended, FileOf
    <3>2. original[r][f] \in Content
      BY <2>1 DEF HealTypeOK
    <3>3. QED  BY <2>4, <3>1, <3>2 DEF Content
  <2>6. QED  BY <2>4, <2>5 DEF HealInv, EditInv
<1>2. QED  BY <1>1, HealInvHolds, PTL DEF HealSpec, EditsLostInWindow

================================================================================
