---------------------------- MODULE ApplyGateProofs ----------------------------
(***************************************************************************)
(* What is proved of `surf apply` (ApplyGate), for any plan and any number  *)
(* of runs of it. The acts are calls of the mutation ledger, so its own     *)
(* invariant carries over; what is added ties each call to the place of the *)
(* run that began it, and the place to what the fields before it left.      *)
(***************************************************************************)
EXTENDS ApplyGate, MutationLedgerProofs, SequenceTheorems

Before  == {"unborn", "attemptCheck", "session", "fingerprint"}
Filling == {"field", "fill", "set", "readBack", "observe"}
Past    == {"lastLook", "control", "click", "clicked"}
Over    == {"done", "dead"}

\* Calls belong to their run, which is at them while they are in flight and alive
\* until it is over.
OwnInv ==
    /\ \A c \in Calls : call[c] # None => RunOf(c) = c[1]
    /\ \A c \in Calls : InFlight(c) =>
          \/ at[c[1]] = "set" /\ c = Current(c[1])
          \/ at[c[1]] = "clicked" /\ c = <<c[1], Click>>
    /\ \A r \in Runs : runs[r].life = "live" <=> at[r] \notin {"unborn"} \cup Over

\* How far the calls of a run have got, told by its place.
Begun(r, i) ==
    /\ at[r] \notin Before
    /\ at[r] \in {"field", "fill"} => i < index[r]
    /\ at[r] \in {"set", "readBack", "observe"} => i <= index[r]
    /\ at[r] \in {"lastLook", "control", "click"} => i # Click

BegunInv ==
    /\ \A r \in Runs : \A i \in 1 .. Click : call[<<r, i>>] # None => Begun(r, i)
    /\ \A r \in Runs :
          /\ at[r] \in Before => index[r] = 1
          /\ at[r] \in Filling => index[r] \in DOMAIN Fields

\* The fields a run is done with, told by its place; each of them is set.
Passed(r, i) ==
    \/ at[r] \in Filling /\ i < index[r]
    \/ at[r] \in {"readBack", "observe"} /\ i = index[r]
    \/ at[r] \in Past
    \/ call[<<r, Click>>] # None

FilledInv == \A r \in Runs, i \in DOMAIN Fields : Passed(r, i) => SetOrHeld(r, i)

IntentInv ==
    \A r \in Runs :
        /\ at[r] \notin {"unborn", "closing"} \cup Over => Approved(options[r])
        /\ at[r] \in {"control", "click", "clicked"} => options[r].submit
        /\ call[<<r, Click>>] # None => options[r].submit /\ options[r].confirmed

\* An act that strayed is the run's last before it looks at the page again: the page
\* was still there when a DevTools act looked at its document, and gone with the input.
StrayInv ==
    \A r \in Runs : strays[r] # 0 =>
        /\ strays[r] = 1 /\ page[r] = "elsewhere"
        /\ at[r] \in {"set", "readBack", "observe", "clicked", "closing"}
        /\ \A c \in Calls : InFlight(c) /\ c[1] = r => Acted(c)

\* The run that left a submit receipt is the only one past the check.
GateInv ==
    /\ \A r, q \in Runs :
          (/\ Stored(<<r, Click>>) /\ options[q].submit
           /\ at[q] \notin {"unborn", "attemptCheck", "closing"} \cup Over) => r = q
    /\ \A r, q \in Runs : Stored(<<r, Click>>) /\ Stored(<<q, Click>>) => r = q

ApplyInv ==
    /\ ApplyTypeOK /\ IInv
    /\ OwnInv /\ BegunInv /\ FilledInv /\ IntentInv /\ StrayInv
    /\ ~Overlap => GateInv

--------------------------------------------------------------------------------
(* Every step of `apply` is a step of the ledger, or leaves it alone.       *)

\* A plan has its fields, each with a step of the ledger; a call names its run and
\* its field, or the click.
LEMMA PlanFacts ==
    /\ Len(Fields) \in Nat /\ Len(Fields) # 0 /\ DOMAIN Fields = 1 .. Len(Fields)
    /\ \A i \in DOMAIN Fields : Fields[i].step \in Steps
    /\ SubmitStep \in Steps
    /\ Click \in Nat /\ Click \notin DOMAIN Fields /\ 1 .. Click = DOMAIN Fields \cup {Click}
    /\ \A i \in DOMAIN Fields : i < Click
    /\ \A c \in Calls : c[1] \in Runs /\ c[2] \in 1 .. Click /\ c = <<c[1], c[2]>>
    /\ \A r \in Runs, i \in 1 .. Click : <<r, i>> \in Calls
<1> DEFINE Field == [toggle : BOOLEAN, step : Steps]
<1>1. Len(Fields) \in Nat /\ DOMAIN Fields = 1 .. Len(Fields)
      /\ \A i \in 1 .. Len(Fields) : Fields[i] \in Field
  <2>1. Fields \in Seq(Field)
    BY PlanAssumption
  <2> HIDE DEF Field
  <2>2. QED  BY <2>1, LenProperties, ElementOfSeq
<1>2. Len(Fields) # 0
  BY PlanAssumption, EmptySeq
<1>3. Calls = Runs \X (1 .. Click)
  BY PlanAssumption DEF Click
<1>4. QED  BY <1>1, <1>2, <1>3, PlanAssumption DEF Click

\* The page of a run acts, or an act of the run looks at it.
PageSide(r) == PageActs(r) \/ \E c \in Calls : c[1] = r /\ GuardAct(c)

LEMMA ApplyStepsLedger ==
    ASSUME ApplyTypeOK, BegunInv, ApplyNext
    PROVE  [Next]_vars
<1>1. ASSUME NEW r \in Runs, Launch(r) \/ Close(r) \/ Die(r)  PROVE Next
  BY <1>1 DEF Launch, Close, Die, Next
<1>2. ASSUME NEW r \in Runs, SetField(r)  PROVE Next
  <2>1. index[r] \in DOMAIN Fields
    BY <1>2 DEF SetField, AtFill, BegunInv, Filling
  <2>2. Current(r) \in Calls /\ Fields[index[r]].step \in Steps
    BY <2>1, PlanFacts DEF Current
  <2>3. QED  BY <1>2, <2>2 DEF SetField, Next
<1>3. ASSUME NEW r \in Runs, ClickSubmit(r)  PROVE Next
  BY <1>3, PlanFacts DEF ClickSubmit, Next
<1>4. ASSUME NEW r \in Runs, Operation(r), ~SetField(r), ~ClickSubmit(r), ~Close(r)
      PROVE  UNCHANGED vars
  BY <1>4 DEF Operation, CheckAttempted, OpenSession, Fingerprint, LookAtToggle, StepUnstarted,
              FieldSet, FieldFailed, ReadBack, Observe, LastLook, ControlReady, ClickReturned,
              ClickThrew
<1>5. ASSUME NEW r \in Runs, PageSide(r)  PROVE UNCHANGED vars
  BY <1>5 DEF PageSide, PageActs, GuardAct
<1>6. ASSUME NEW c \in Calls, LedgerMoves(c)  PROVE Next
  BY <1>6 DEF LedgerMoves, Next
<1>7. ASSUME NEW c \in Calls, GuardAct(c)  PROVE UNCHANGED vars
  BY <1>7 DEF GuardAct
<1>8. QED  BY <1>1, <1>2, <1>3, <1>4, <1>5, <1>6, <1>7 DEF ApplyNext, PageSide

\* What the ledger's own steps do to one call, and leave of the others.
Moved(c) ==
    /\ InFlight(c)
    /\ UNCHANGED <<runs, call>>
    /\ \A d \in Calls \ {c} : pc'[d] = pc[d] /\ disk'[d] = disk[d] /\ world'[d] = world[d]
    /\ Acted(c) => world'[c] = world[c]
    /\ Stored(c) => Stored(c)'
    /\ Stored(c) /\ disk[c].outcome = "applied" => disk'[c] = disk[c]
    /\ ~Stored(c) /\ Stored(c)' => pc[c] = "opening"

LEMMA AdvanceMoves ==
    ASSUME TypeOK, IInv, NEW c \in Calls, Advance(c)
    PROVE  Moved(c)
<1>1. PhaseOf(c)
  BY DEF IInv, Phases
<1> USE DEF Moved, TypeOK
<1>2. CASE ListStore(c) \/ Reread(c)
  BY <1>2 DEF ListStore, Reread, InFlight, Suspended, Acted, Stored
<1>3. CASE OpenReceipt(c) \/ OpenFails(c)
  <2>1. ~Stored(c) /\ InFlight(c) /\ UNCHANGED <<runs, call, world>>
    BY <1>1, <1>3 DEF OpenReceipt, OpenFails, PhaseOf, InFlight, Suspended
  <2>2. \A d \in Calls \ {c} : pc'[d] = pc[d] /\ disk'[d] = disk[d]
    BY <1>3 DEF OpenReceipt, OpenFails
  <2>3. pc[c] = "opening"
    BY <1>3 DEF OpenReceipt, OpenFails
  <2>4. QED  BY <2>1, <2>2, <2>3
<1>4. CASE Act(c)
  BY <1>1, <1>4 DEF Act, PhaseOf, InFlight, Suspended, Stored
<1>5. CASE Settle(c) \/ Verify(c)
  BY <1>5 DEF Settle, Verify, InFlight, Suspended, Acted, Stored
<1>6. CASE FinalizeReceipt(c) \/ FinalizeFails(c)
  <2>1. Stored(c) /\ disk[c].outcome = "attempting" /\ InFlight(c) /\ UNCHANGED <<runs, call, world>>
    BY <1>1, <1>6 DEF FinalizeReceipt, FinalizeFails, PhaseOf, InFlight, Suspended
  <2>2. \A d \in Calls \ {c} : pc'[d] = pc[d] /\ disk'[d] = disk[d]
    BY <1>6 DEF FinalizeReceipt, FinalizeFails
  <2>3. Stored(c)'
    <3>1. disk[c] \in Receipt /\ mem[c] \in Outcomes
      BY <2>1 DEF Stored
    <3>2. disk'[c] \in Receipt
      <4>1. disk'[c] = disk[c] \/ disk'[c] = [disk[c] EXCEPT !.outcome = mem[c]]
        BY <1>6 DEF FinalizeReceipt, FinalizeFails
      <4>2. QED  BY <3>1, <4>1 DEF Receipt
    <3>3. QED  BY <3>2, NoneAssumption DEF Stored
  <2>4. QED  BY <2>1, <2>2, <2>3
<1>7. QED  BY <1>2, <1>3, <1>4, <1>5, <1>6 DEF Advance

\* A set field stays set while the calls of its run move on.
LEMMA SetStays ==
    ASSUME TypeOK, NEW r \in Runs, NEW i \in DOMAIN Fields, SetOrHeld(r, i),
           UNCHANGED vars \/ \E c \in Calls : Moved(c)
    PROVE  SetOrHeld(r, i)'
<1>1. <<r, i>> \in Calls
  BY PlanFacts
<1>2. CASE UNCHANGED vars
  BY <1>2 DEF SetOrHeld, Stored, vars
<1>3. ASSUME NEW c \in Calls, Moved(c)  PROVE SetOrHeld(r, i)'
  <2>1. call'[<<r, i>>] = call[<<r, i>>]
    BY <1>3 DEF Moved
  <2>2. Stored(<<r, i>>) /\ disk[<<r, i>>].outcome = "applied" =>
           disk'[<<r, i>>] = disk[<<r, i>>]
    BY <1>1, <1>3 DEF Moved
  <2>3. QED  BY <2>1, <2>2 DEF SetOrHeld, Stored
<1>4. QED  BY <1>2, <1>3

--------------------------------------------------------------------------------
(* The variables `apply` adds, and where its runs are.                      *)

Quiet(r) ==
    \/ CheckAttempted(r) \/ OpenSession(r) \/ Fingerprint(r) \/ LookAtToggle(r) \/ StepUnstarted(r)
    \/ FieldSet(r) \/ FieldFailed(r) \/ ReadBack(r) \/ Observe(r) \/ LastLook(r) \/ ControlReady(r)
    \/ ClickReturned(r) \/ ClickThrew(r)

\* One run moves, the others stay where they are.
Alone(r) ==
    /\ \A q \in Runs \ {r} :
          /\ at'[q] = at[q] /\ index'[q] = index[q] /\ options'[q] = options[q]
          /\ channel'[q] = channel[q] /\ page'[q] = page[q] /\ strays'[q] = strays[q]

LEMMA QuietMoves ==
    ASSUME ApplyTypeOK, BegunInv, NEW r \in Runs, Quiet(r)
    PROVE  /\ ApplyTypeOK' /\ Alone(r) /\ UNCHANGED <<vars, options, strays>>
           /\ at[r] \notin {"unborn"} \cup Over /\ at'[r] \notin {"unborn"} \cup Over
<1>0. TypeOK' <=> TypeOK
  <2>1. UNCHANGED vars
    BY DEF Quiet, CheckAttempted, OpenSession, Fingerprint, LookAtToggle, StepUnstarted, FieldSet,
           FieldFailed, ReadBack, Observe, LastLook, ControlReady, ClickReturned, ClickThrew
  <2>2. QED  BY <2>1 DEF vars, TypeOK
<1> USE DEF ApplyTypeOK, Goto, Leave, Places, Alone, Over, runVars, tabVars
<1>1. CASE CheckAttempted(r) \/ Fingerprint(r) \/ LookAtToggle(r)
  BY <1>0, <1>1 DEF CheckAttempted, Fingerprint, LookAtToggle
<1>2. CASE OpenSession(r)
  <2>1. Toggles \subseteq 1 .. Len(Fields)
    BY PlanFacts DEF Toggles
  <2>2. CASE \E via \in {"cdp", "surf"}, where \in {"reviewed", "elsewhere"}, held \in SUBSET Toggles :
               /\ channel' = [channel EXCEPT ![r] = via] /\ page' = [page EXCEPT ![r] = where]
               /\ holds' = [holds EXCEPT ![r] = held] /\ Goto(r, "fingerprint")
    <3>1. /\ channel' \in [Runs -> {"cdp", "surf"}] /\ page' \in [Runs -> {"reviewed", "elsewhere"}]
          /\ \A q \in Runs \ {r} : channel'[q] = channel[q] /\ page'[q] = page[q]
      BY <2>2
    <3>2. holds' \in [Runs -> SUBSET (1 .. Len(Fields))]
      BY <2>1, <2>2
    <3>3. QED  BY <1>0, <1>2, <2>2, <3>1, <3>2 DEF OpenSession
  <2>3. CASE Leave(r, "failed") /\ UNCHANGED <<channel, page, holds>>
    BY <1>0, <1>2, <2>3 DEF OpenSession
  <2>4. QED  BY <1>2, <2>2, <2>3 DEF OpenSession
<1>3. CASE StepUnstarted(r) \/ FieldSet(r) \/ FieldFailed(r)
  BY <1>0, <1>3 DEF StepUnstarted, AtFill, FieldSet, FieldFailed
<1>4. CASE ReadBack(r) \/ LastLook(r) \/ ControlReady(r) \/ ClickReturned(r) \/ ClickThrew(r)
  BY <1>0, <1>4 DEF ReadBack, LastLook, ControlReady, ClickReturned, ClickThrew
<1>5. CASE Observe(r)
  <2>1. index[r] \in DOMAIN Fields /\ NextField(r) \in {"lastLook", "field"}
    BY <1>5 DEF Observe, BegunInv, Filling, NextField
  <2>2. index[r] + 1 \in 1 .. Click
    BY <2>1, PlanFacts DEF Click
  <2>3. index' \in [Runs -> 1 .. Click]
    BY <1>5, <2>2 DEF Observe
  <2>4. /\ at' \in [Runs -> Places] /\ \A q \in Runs \ {r} : at'[q] = at[q] /\ index'[q] = index[q]
        /\ at[r] = "observe" /\ at'[r] \in {"lastLook", "field", "closing"}
    <3>1. PICK p \in {"lastLook", "field", "closing"} : at' = [at EXCEPT ![r] = p]
      BY <1>5, <2>1 DEF Observe
    <3>2. \A q \in Runs \ {r} : index'[q] = index[q]
      BY <1>5 DEF Observe
    <3>3. at[r] = "observe"
      BY <1>5 DEF Observe
    <3>4. QED  BY <3>1, <3>2, <3>3
  <2>5. status' \in [Runs -> {"running", "filled", "submitted", "refused", "failed"}]
    BY <1>5 DEF Observe
  <2>6. UNCHANGED <<vars, options, channel, page, holds, guarded, strays>>
    BY <1>5 DEF Observe
  <2>7. QED  BY <1>0, <2>3, <2>4, <2>5, <2>6
<1>6. QED  BY <1>1, <1>2, <1>3, <1>4, <1>5 DEF Quiet

LEMMA LaunchMoves ==
    ASSUME ApplyTypeOK, NEW r \in Runs, Launch(r), TypeOK'
    PROVE  /\ ApplyTypeOK' /\ Alone(r) /\ UNCHANGED <<call, pc, byKey, mem, attempt, disk, world>>
           /\ UNCHANGED <<index, channel, page, holds, strays>>
           /\ at[r] = "unborn" /\ runs'[r].life = "live"
           /\ \A q \in Runs \ {r} : runs'[q] = runs[q]
           /\ \/ at'[r] = "closing"
              \/ Approved(options'[r]) /\ at'[r] = (IF options'[r].submit THEN "attemptCheck" ELSE "session")
<1>1. PICK o \in [submit : BOOLEAN, confirmed : BOOLEAN] :
         /\ options' = [options EXCEPT ![r] = o]
         /\ IF ~PlanOriginAllowed \/ ~Approved(o) THEN Leave(r, "refused")
            ELSE Goto(r, IF o.submit THEN "attemptCheck" ELSE "session")
  BY Zenon DEF Launch
<1>2. options' \in [Runs -> [submit : BOOLEAN, confirmed : BOOLEAN]] /\ options'[r] = o
  BY <1>1 DEF ApplyTypeOK
<1>3. at' \in [Runs -> Places] /\ status' \in [Runs -> {"running", "filled", "submitted", "refused", "failed"}]
  BY <1>1 DEF ApplyTypeOK, Leave, Goto, Places
<1>4. \/ at'[r] = "closing"
      \/ Approved(o) /\ at'[r] = (IF o.submit THEN "attemptCheck" ELSE "session")
  BY <1>1 DEF ApplyTypeOK, Leave, Goto
<1>5. \A q \in Runs \ {r} : at'[q] = at[q] /\ options'[q] = options[q]
  BY <1>1 DEF ApplyTypeOK, Leave, Goto
<1>6. /\ UNCHANGED <<call, pc, byKey, mem, attempt, disk, world, index, channel, page, holds, guarded, strays>>
      /\ runs'[r].life = "live" /\ \A q \in Runs \ {r} : runs'[q] = runs[q]
      /\ at[r] = "unborn"
  BY DEF Launch, StartRun, ApplyTypeOK, TypeOK, tabVars
<1>7. QED  BY <1>2, <1>3, <1>4, <1>5, <1>6 DEF ApplyTypeOK, Alone

\* A run that is over, its process closed or dead.
LEMMA EndMoves ==
    ASSUME ApplyTypeOK, NEW r \in Runs, Close(r) \/ Die(r), TypeOK'
    PROVE  /\ ApplyTypeOK' /\ Alone(r) /\ UNCHANGED <<call, byKey, mem, attempt, disk, world, options>>
           /\ at[r] \notin {"unborn"} \cup Over /\ at'[r] \in Over /\ strays'[r] = 0
           /\ runs'[r].life = "gone" /\ \A q \in Runs \ {r} : runs'[q] = runs[q]
           /\ \A c \in Calls : pc'[c] = pc[c] \/ pc'[c] = "dead"
           /\ \A c \in Calls : InFlight(c)' => InFlight(c) /\ RunOf(c) # r
<1>1. EndRun(r) \/ CrashRun(r)
  BY DEF Close, Die
<1>2. /\ UNCHANGED <<call, byKey, mem, attempt, disk, world>>
      /\ runs'[r].life = "gone" /\ \A q \in Runs \ {r} : runs'[q] = runs[q]
      /\ \A c \in Calls : pc'[c] = pc[c] \/ pc'[c] = "dead"
  BY <1>1 DEF EndRun, CrashRun, ApplyTypeOK, TypeOK, Run
<1>3. \A c \in Calls : InFlight(c)' => InFlight(c) /\ RunOf(c) # r
  BY <1>1 DEF EndRun, CrashRun, ApplyTypeOK, TypeOK, InFlight, Suspended
<1>4. /\ Forget(r) /\ at'[r] \in Over /\ at[r] \notin {"unborn"} \cup Over
      /\ at' \in [Runs -> Places] /\ \A q \in Runs \ {r} : at'[q] = at[q]
  BY DEF Close, Die, Over, ApplyTypeOK, Places
<1>5. status' \in [Runs -> {"running", "filled", "submitted", "refused", "failed"}]
  BY DEF Close, Die, ApplyTypeOK
<1>6. 1 \in 1 .. Click
  BY PlanFacts
<1>7. /\ index' \in [Runs -> 1 .. Click] /\ channel' \in [Runs -> {"cdp", "surf"}]
      /\ page' \in [Runs -> {"reviewed", "elsewhere"}] /\ holds' \in [Runs -> SUBSET (1 .. Len(Fields))]
      /\ strays' \in [Runs -> Nat] /\ strays'[r] = 0 /\ UNCHANGED options
      /\ guarded' \in [Runs -> BOOLEAN]
      /\ \A q \in Runs \ {r} : /\ index'[q] = index[q] /\ channel'[q] = channel[q]
                               /\ page'[q] = page[q] /\ strays'[q] = strays[q]
  BY <1>4, <1>6 DEF Forget, ApplyTypeOK
<1>8. QED  BY <1>2, <1>3, <1>4, <1>5, <1>7 DEF ApplyTypeOK, Alone

\* A run that hands an act to the ledger.
LEMMA BeginMoves ==
    ASSUME ApplyTypeOK, BegunInv, NEW r \in Runs, NEW c \in Calls, TypeOK',
           \/ SetField(r) /\ c = Current(r)
           \/ ClickSubmit(r) /\ c = <<r, Click>>
    PROVE  /\ ApplyTypeOK' /\ Alone(r) /\ c[1] = r
           /\ UNCHANGED <<runs, byKey, mem, attempt, disk, world, index, options, channel, page, holds, strays>>
           /\ call[c] = None \/ pc[c] = "idle"
           /\ call'[c].run = r
           /\ \A d \in Calls \ {c} : call'[d] = call[d] /\ pc'[d] = pc[d]
           /\ \/ at[r] \in {"field", "fill"} /\ at'[r] = "set"
              \/ at[r] = "click" /\ at'[r] = "clicked" /\ c = <<r, Click>>
<1>1. \E s \in Steps : Begin(c, r, s)
  <2>1. CASE SetField(r)
    <3>1. index[r] \in DOMAIN Fields
      BY <2>1 DEF SetField, AtFill, BegunInv, Filling
    <3>2. QED  BY <2>1, <3>1, PlanFacts DEF SetField, ClickSubmit
  <2>2. QED  BY <2>1, PlanFacts DEF ClickSubmit
<1>2. /\ UNCHANGED <<runs, byKey, mem, attempt, disk, world>> /\ call'[c].run = r /\ pc[c] = "idle"
      /\ \A d \in Calls \ {c} : call'[d] = call[d] /\ pc'[d] = pc[d]
  BY <1>1 DEF Begin, ApplyTypeOK, TypeOK
<1>3. /\ UNCHANGED <<index, options, channel, page, holds, guarded, strays, status>> /\ c[1] = r
      /\ \/ at[r] \in {"field", "fill"} /\ at' = [at EXCEPT ![r] = "set"]
         \/ at[r] = "click" /\ at' = [at EXCEPT ![r] = "clicked"] /\ c = <<r, Click>>
  BY DEF SetField, ClickSubmit, AtFill, Goto, tabVars, Current
<1>4. /\ at' \in [Runs -> Places] /\ \A q \in Runs \ {r} : at'[q] = at[q]
      /\ \/ at[r] \in {"field", "fill"} /\ at'[r] = "set"
         \/ at[r] = "click" /\ at'[r] = "clicked" /\ c = <<r, Click>>
  BY <1>3 DEF ApplyTypeOK, Places
<1>5. QED  BY <1>2, <1>3, <1>4 DEF ApplyTypeOK, Alone

\* A call in flight moves on.
LEMMA CallMoves ==
    ASSUME ApplyTypeOK, IInv, NEW c \in Calls, LedgerMoves(c), TypeOK'
    PROVE  /\ ApplyTypeOK' /\ Moved(c)
           /\ UNCHANGED <<at, index, options, channel, status, page>>
           /\ \A q \in Runs \ {c[1]} : strays'[q] = strays[q]
           /\ strays'[c[1]] # strays[c[1]] => /\ strays'[c[1]] = strays[c[1]] + 1
                                              /\ page[c[1]] = "elsewhere"
                                              /\ ~Acted(c) /\ Acted(c)'
<1>1. Moved(c)
  BY AdvanceMoves DEF LedgerMoves, ApplyTypeOK
<1>2. UNCHANGED <<at, index, options, channel, status, page>>
  BY DEF LedgerMoves, runVars
<1>3. c[1] \in Runs /\ c[2] \in 1 .. Click
  BY PlanFacts
<1>4. CASE world' = world
  BY <1>1, <1>2, <1>4 DEF LedgerMoves, ApplyTypeOK
<1>5. CASE world' # world
  <2>1. ActLands(c)
    BY <1>5 DEF LedgerMoves
  <2>2. holds' \in [Runs -> SUBSET (1 .. Len(Fields))]
    <3>1. CASE c \in ClickCalls
      BY <2>1, <3>1 DEF ActLands, ApplyTypeOK
    <3>2. CASE c \notin ClickCalls
      <4>1. c[2] \in 1 .. Len(Fields)
        BY <1>3, <3>2, PlanFacts DEF ClickCalls
      <4>2. QED  BY <1>3, <2>1, <4>1 DEF ActLands, ApplyTypeOK
    <3>3. QED  BY <3>1, <3>2
  <2>3. /\ strays' \in [Runs -> Nat] /\ \A q \in Runs \ {c[1]} : strays'[q] = strays[q]
        /\ strays'[c[1]] # strays[c[1]] =>
              /\ strays'[c[1]] = strays[c[1]] + 1 /\ page[c[1]] = "elsewhere" /\ world'[c] = "took"
    BY <1>3, <2>1 DEF ActLands, ApplyTypeOK
  <2>4. ~Acted(c) /\ (world'[c] = "took" => Acted(c)')
    <3>1. world'[c] # world[c]
      <4>1. \A d \in Calls \ {c} : world'[d] = world[d]
        BY <1>1 DEF Moved
      <4>2. world' \in [Calls -> {"untouched", "took", "spared"}] /\ world \in [Calls -> {"untouched", "took", "spared"}]
        BY DEF TypeOK, ApplyTypeOK
      <4>3. QED  BY <1>5, <4>1, <4>2
    <3>2. QED  BY <1>1, <3>1 DEF Moved, Acted
  <2>5. guarded' \in [Runs -> BOOLEAN]
    BY <2>1 DEF ActLands, ApplyTypeOK
  <2>6. ApplyTypeOK'
    BY <1>2, <2>2, <2>3, <2>5 DEF ApplyTypeOK
  <2>7. QED  BY <1>1, <1>2, <2>3, <2>4, <2>6
<1>6. QED  BY <1>4, <1>5

LEMMA PageMoves ==
    ASSUME ApplyTypeOK, NEW r \in Runs, PageSide(r)
    PROVE  /\ ApplyTypeOK' /\ UNCHANGED <<vars, at, index, options, channel, status>>
           /\ Alone(r)
           /\ strays'[r] = 0 \/ UNCHANGED <<page, strays>>
<1>1. CASE PageActs(r)
  <2>1. UNCHANGED <<vars, at, index, options, channel, status, guarded>>
    BY <1>1 DEF PageActs, runVars
  <2>2. TypeOK'
    BY <2>1 DEF ApplyTypeOK, TypeOK, vars
  <2>3. /\ strays'[r] = 0 /\ strays' \in [Runs -> Nat]
        /\ \A q \in Runs \ {r} : strays'[q] = strays[q]
    BY <1>1 DEF PageActs, ApplyTypeOK
  <2>4. /\ page' \in [Runs -> {"reviewed", "elsewhere"}]
        /\ \A q \in Runs \ {r} : page'[q] = page[q]
    <3>1. PICK where \in {"reviewed", "elsewhere"} : page' = [page EXCEPT ![r] = where]
                                                  \/ page' = page
      BY <1>1 DEF PageActs
    <3> QED  BY <3>1 DEF ApplyTypeOK
  <2>5. holds' \in [Runs -> SUBSET (1 .. Len(Fields))]
    <3>1. holds' = holds \/ \E i \in holds[r] : holds' = [holds EXCEPT ![r] = @ \ {i}]
      BY <1>1 DEF PageActs
    <3>2. ASSUME NEW i \in holds[r], holds' = [holds EXCEPT ![r] = @ \ {i}]
          PROVE  holds' \in [Runs -> SUBSET (1 .. Len(Fields))]
      BY <3>2 DEF ApplyTypeOK
    <3> QED  BY <3>1, <3>2 DEF ApplyTypeOK
  <2> QED  BY <2>1, <2>2, <2>3, <2>4, <2>5 DEF ApplyTypeOK, Alone
<1>2. CASE \E c \in Calls : GuardAct(c)
  <2>1. UNCHANGED <<vars, at, index, options, channel, status, page, holds, strays>>
    BY <1>2 DEF GuardAct, runVars
  <2>2. TypeOK'
    BY <2>1 DEF ApplyTypeOK, TypeOK, vars
  <2>3. guarded' \in [Runs -> BOOLEAN]
    <3>1. PICK c \in Calls : guarded' = [guarded EXCEPT ![c[1]] = TRUE]
      BY <1>2 DEF GuardAct
    <3> QED  BY <3>1 DEF ApplyTypeOK
  <2> QED  BY <2>1, <2>2, <2>3 DEF ApplyTypeOK, Alone
<1> QED  BY <1>1, <1>2 DEF PageSide

\* A field that is set is a field of the plan, and its call one of the ledger.
LEMMA CurrentIsCall ==
    ASSUME BegunInv, NEW r \in Runs, SetField(r)
    PROVE  index[r] \in DOMAIN Fields /\ Current(r) \in Calls
BY PlanFacts DEF SetField, AtFill, BegunInv, Filling, Current

\* Every step is one of these.
LEMMA Kinds ==
    ASSUME BegunInv, ApplyNext
    PROVE  \/ \E r \in Runs : Quiet(r) \/ Launch(r) \/ Close(r) \/ Die(r) \/ PageSide(r)
           \/ \E r \in Runs, c \in Calls : \/ SetField(r) /\ c = Current(r)
                                           \/ ClickSubmit(r) /\ c = <<r, Click>>
           \/ \E c \in Calls : LedgerMoves(c)
BY PlanFacts, CurrentIsCall DEF ApplyNext, Operation, Quiet, PageSide

--------------------------------------------------------------------------------
(* The calls of a run, and its place.                                       *)

Base == ApplyTypeOK /\ IInv /\ OwnInv /\ BegunInv

\* A run that moves on its own has no call in flight.
LEMMA QuietIsIdle ==
    ASSUME Base, NEW r \in Runs, Quiet(r), NEW c \in Calls, InFlight(c)
    PROVE  c[1] # r
<1> SUFFICES ASSUME c[1] = r  PROVE FALSE
  OBVIOUS
<1>1. \/ at[r] = "set" /\ c = Current(r)
      \/ at[r] = "clicked" /\ c = <<r, Click>>
  BY DEF Base, OwnInv
<1>2. CASE at[r] = "set"
  BY <1>1, <1>2 DEF Quiet, CheckAttempted, OpenSession, Fingerprint, LookAtToggle, StepUnstarted, AtFill,
         FieldSet, FieldFailed, ReadBack, Observe, LastLook, ControlReady, ClickReturned, ClickThrew,
         InFlight, Suspended
<1>3. CASE at[r] = "clicked"
  BY <1>1, <1>3 DEF Quiet, CheckAttempted, OpenSession, Fingerprint, LookAtToggle, StepUnstarted, AtFill,
         FieldSet, FieldFailed, ReadBack, Observe, LastLook, ControlReady, ClickReturned, ClickThrew,
         InFlight, Suspended
<1>4. QED  BY <1>1, <1>2, <1>3

LEMMA OwnStep ==
    ASSUME Base, ApplyNext, TypeOK'
    PROVE  OwnInv'
<1>0. ApplyTypeOK /\ IInv /\ OwnInv /\ BegunInv /\ \A c \in Calls : c[1] \in Runs
  BY PlanFacts DEF Base
<1>1. ASSUME NEW r \in Runs, Quiet(r)  PROVE OwnInv'
  <2>1. /\ Alone(r) /\ UNCHANGED <<runs, call, pc>>
        /\ at[r] \notin {"unborn"} \cup Over /\ at'[r] \notin {"unborn"} \cup Over
    BY <1>0, <1>1, QuietMoves DEF vars
  <2>2. \A c \in Calls : InFlight(c) => c[1] # r
    BY <1>1, QuietIsIdle
  <2>3. QED  BY <1>0, <2>1, <2>2 DEF OwnInv, Alone, InFlight, RunOf, Current
<1>2. ASSUME NEW r \in Runs, Launch(r)  PROVE OwnInv'
  <2>1. /\ Alone(r) /\ UNCHANGED <<call, pc>> /\ at[r] = "unborn" /\ runs'[r].life = "live"
        /\ \A q \in Runs \ {r} : runs'[q] = runs[q]
        /\ at'[r] \in {"closing", "attemptCheck", "session"}
    BY <1>0, <1>2, LaunchMoves
  <2>2. \A c \in Calls : InFlight(c) => c[1] # r
    BY <1>0, <2>1 DEF OwnInv
  <2>3. QED  BY <1>0, <2>1, <2>2 DEF OwnInv, Alone, InFlight, RunOf, Current, Over
<1>3. ASSUME NEW r \in Runs, Close(r) \/ Die(r)  PROVE OwnInv'
  <2>1. /\ Alone(r) /\ UNCHANGED call /\ at'[r] \in Over
        /\ runs'[r].life = "gone" /\ \A q \in Runs \ {r} : runs'[q] = runs[q]
        /\ \A c \in Calls : InFlight(c)' => InFlight(c) /\ RunOf(c) # r
    BY <1>0, <1>3, EndMoves
  <2>2. \A c \in Calls : InFlight(c) => call[c] # None
    BY <1>0 DEF IInv, Lives, InFlight, Suspended
  <2>3. \A c \in Calls : InFlight(c)' => InFlight(c) /\ c[1] # r
    BY <1>0, <2>1, <2>2 DEF OwnInv
  <2>4. QED  BY <1>0, <2>1, <2>3 DEF OwnInv, Alone, RunOf, Current, Over
<1>4. ASSUME NEW r \in Runs, NEW c \in Calls,
             \/ SetField(r) /\ c = Current(r)
             \/ ClickSubmit(r) /\ c = <<r, Click>>
      PROVE  OwnInv'
  <2>1. /\ Alone(r) /\ c[1] = r /\ UNCHANGED <<runs, index>> /\ call'[c].run = r
        /\ \A d \in Calls \ {c} : call'[d] = call[d] /\ pc'[d] = pc[d]
        /\ \/ at[r] \in {"field", "fill"} /\ at'[r] = "set"
           \/ at[r] = "click" /\ at'[r] = "clicked" /\ c = <<r, Click>>
    BY <1>0, <1>4, BeginMoves
  <2>2. \A d \in Calls : InFlight(d) => d[1] # r
    BY <1>0, <2>1 DEF OwnInv
  <2>3. at'[r] = "set" => c = Current(r)'
    <3>1. at'[r] = "set" => c = Current(r)
      BY <1>4, <2>1 DEF ClickSubmit
    <3>2. Current(r)' = Current(r)
      BY <2>1 DEF Current
    <3>3. QED  BY <3>1, <3>2
  <2>4. QED  BY <1>0, <2>1, <2>2, <2>3 DEF OwnInv, Alone, InFlight, RunOf, Current, Over
<1>5. ASSUME NEW c \in Calls, LedgerMoves(c)  PROVE OwnInv'
  <2>1. Moved(c) /\ UNCHANGED <<at, index>>
    BY <1>0, <1>5, CallMoves
  <2>2. QED  BY <1>0, <2>1 DEF Moved, OwnInv, InFlight, RunOf, Current
<1>6. ASSUME NEW r \in Runs, PageSide(r)  PROVE OwnInv'
  BY <1>0, <1>6, PageMoves DEF vars, OwnInv, InFlight, RunOf, Current
<1>7. QED  BY <1>0, <1>1, <1>2, <1>3, <1>4, <1>5, <1>6, Kinds

LEMMA BegunStep ==
    ASSUME Base, ApplyNext, TypeOK'
    PROVE  BegunInv'
<1>0. ApplyTypeOK /\ IInv /\ OwnInv /\ BegunInv
  BY DEF Base
<1>1. ASSUME NEW r \in Runs, Quiet(r)  PROVE BegunInv'
  <2>1. Alone(r) /\ UNCHANGED call
    BY <1>0, <1>1, QuietMoves DEF vars
  <2>2. \A q \in Runs \ {r} : \A i \in 1 .. Click : call[<<q, i>>] # None => Begun(q, i)'
    BY <1>0, <2>1 DEF BegunInv, Begun, Alone
  <2>3. \A i \in 1 .. Click : call[<<r, i>>] # None => Begun(r, i)'
    <3> SUFFICES ASSUME NEW i \in 1 .. Click, call[<<r, i>>] # None  PROVE Begun(r, i)'
      OBVIOUS
    <3>1. Begun(r, i) /\ i \in Nat /\ index[r] \in Nat /\ Len(Fields) \in Nat
      BY <1>0, PlanFacts DEF BegunInv, ApplyTypeOK
    <3> USE <1>0, <3>1 DEF Begun, Before, Goto, Leave, ApplyTypeOK
    <3>2. CASE CheckAttempted(r) \/ OpenSession(r) \/ Fingerprint(r)
      BY <3>2 DEF CheckAttempted, OpenSession, Fingerprint
    <3>3. CASE LookAtToggle(r) \/ StepUnstarted(r) \/ FieldSet(r) \/ FieldFailed(r) \/ ReadBack(r)
      BY <3>3 DEF LookAtToggle, StepUnstarted, AtFill, FieldSet, FieldFailed, ReadBack
    <3>4. CASE Observe(r)
      <4>1. i <= index[r] /\ index[r] \in DOMAIN Fields /\ at[r] = "observe"
        BY <3>4 DEF Observe, BegunInv, Filling
      <4>2. CASE index' = [index EXCEPT ![r] = @ + 1] /\ Goto(r, NextField(r))
        <5>1. index'[r] = index[r] + 1
          BY <4>2
        <5>2. i < index'[r] /\ i # Click
          BY <4>1, <5>1, PlanFacts DEF Click
        <5>3. at'[r] \in {"lastLook", "field"}
          BY <4>2 DEF NextField
        <5>4. QED  BY <5>2, <5>3
      <4>3. CASE Leave(r, "failed")
        BY <4>3
      <4>4. QED  BY <3>4, <4>2, <4>3 DEF Observe
    <3>5. CASE LastLook(r) \/ ControlReady(r) \/ ClickReturned(r) \/ ClickThrew(r)
      BY <3>5 DEF LastLook, ControlReady, ClickReturned, ClickThrew
    <3>6. QED  BY <1>1, <3>2, <3>3, <3>4, <3>5 DEF Quiet
  <2>4. /\ at'[r] \in Before => index'[r] = 1
        /\ at'[r] \in Filling => index'[r] \in DOMAIN Fields
    <3>1. 1 \in DOMAIN Fields /\ index[r] \in 1 .. Click
      BY <1>0, PlanFacts DEF ApplyTypeOK
    <3> USE <1>0, <3>1 DEF Before, Filling, Goto, Leave, ApplyTypeOK, BegunInv
    <3>2. CASE CheckAttempted(r) \/ OpenSession(r) \/ Fingerprint(r)
      BY <3>2 DEF CheckAttempted, OpenSession, Fingerprint
    <3>3. CASE LookAtToggle(r) \/ StepUnstarted(r) \/ FieldSet(r) \/ FieldFailed(r) \/ ReadBack(r)
      BY <3>3 DEF LookAtToggle, StepUnstarted, AtFill, FieldSet, FieldFailed, ReadBack
    <3>4. CASE Observe(r)
      <4>1. index[r] \in DOMAIN Fields /\ at[r] = "observe"
        BY <3>4 DEF Observe
      <4>2. CASE index' = [index EXCEPT ![r] = @ + 1] /\ Goto(r, NextField(r))
        <5>1. index'[r] = index[r] + 1 /\ at'[r] = NextField(r)
          BY <4>2
        <5>2. at'[r] = "field" => index[r] # Len(Fields)
          BY <5>1 DEF NextField
        <5>3. at'[r] = "field" => index'[r] \in DOMAIN Fields
          BY <4>1, <5>1, <5>2, PlanFacts
        <5>4. at'[r] \in {"field", "lastLook"}
          BY <5>1 DEF NextField
        <5>5. QED  BY <5>3, <5>4
      <4>3. CASE Leave(r, "failed")
        BY <4>3
      <4>4. QED  BY <3>4, <4>2, <4>3 DEF Observe
    <3>5. CASE LastLook(r) \/ ControlReady(r) \/ ClickReturned(r) \/ ClickThrew(r)
      BY <3>5 DEF LastLook, ControlReady, ClickReturned, ClickThrew
    <3>6. QED  BY <1>1, <3>2, <3>3, <3>4, <3>5 DEF Quiet
  <2>5. QED  BY <1>0, <2>1, <2>2, <2>3, <2>4 DEF BegunInv, Alone
<1>2. ASSUME NEW r \in Runs, Launch(r)  PROVE BegunInv'
  <2>1. /\ Alone(r) /\ UNCHANGED <<call, index>> /\ at[r] = "unborn"
        /\ at'[r] \in {"closing", "attemptCheck", "session"}
    BY <1>0, <1>2, LaunchMoves
  <2>2. index[r] = 1 /\ \A i \in 1 .. Click : call[<<r, i>>] = None
    BY <1>0, <2>1 DEF BegunInv, Begun, Before
  <2>3. QED  BY <1>0, <2>1, <2>2 DEF BegunInv, Begun, Alone, Filling
<1>3. ASSUME NEW r \in Runs, Close(r) \/ Die(r)  PROVE BegunInv'
  <2>1. Alone(r) /\ UNCHANGED call /\ at'[r] \in Over
    BY <1>0, <1>3, EndMoves
  <2>2. QED  BY <1>0, <2>1 DEF BegunInv, Begun, Alone, Before, Filling, Over
<1>4. ASSUME NEW r \in Runs, NEW c \in Calls,
             \/ SetField(r) /\ c = Current(r)
             \/ ClickSubmit(r) /\ c = <<r, Click>>
      PROVE  BegunInv'
  <2>1. /\ Alone(r) /\ c[1] = r /\ UNCHANGED index
        /\ \A d \in Calls \ {c} : call'[d] = call[d]
        /\ \/ at[r] \in {"field", "fill"} /\ at'[r] = "set" /\ c = Current(r)
           \/ at[r] = "click" /\ at'[r] = "clicked" /\ c = <<r, Click>>
    BY <1>0, <1>4, BeginMoves DEF ClickSubmit
  <2>2. index[r] \in Nat /\ \A i \in 1 .. Click : i \in Nat
    BY <1>0, PlanFacts DEF ApplyTypeOK
  <2>3. ASSUME NEW i \in 1 .. Click, call'[<<r, i>>] # None  PROVE Begun(r, i)'
    <3>1. CASE at'[r] = "set"
      <4>1. at[r] \in {"field", "fill"} /\ c = <<r, index[r]>>
        BY <2>1, <3>1 DEF Current
      <4>2. i <= index[r]
        <5>1. CASE i = index[r]
          BY <2>2, <5>1
        <5>2. CASE i # index[r]
          <6>1. call[<<r, i>>] # None
            BY <2>1, <2>3, <4>1, <5>2, PlanFacts
          <6>2. QED  BY <1>0, <2>2, <4>1, <6>1 DEF BegunInv, Begun
        <5>3. QED  BY <5>1, <5>2
      <4>3. QED  BY <2>1, <3>1, <4>2 DEF Begun, Before
    <3>2. CASE at'[r] = "clicked"
      BY <3>2 DEF Begun, Before
    <3>3. QED  BY <2>1, <3>1, <3>2
  <2>4. ASSUME NEW q \in Runs \ {r}, NEW i \in 1 .. Click, call'[<<q, i>>] # None  PROVE Begun(q, i)'
    <3>1. call[<<q, i>>] # None
      BY <2>1, <2>4, PlanFacts
    <3>2. QED  BY <1>0, <2>1, <3>1 DEF BegunInv, Begun, Alone
  <2>5. at[r] \in {"field", "fill"} => index[r] \in DOMAIN Fields
    BY <1>0 DEF BegunInv, Filling
  <2>6. QED  BY <1>0, <2>1, <2>3, <2>4, <2>5 DEF BegunInv, Alone, Before, Filling
<1>5. ASSUME NEW c \in Calls, LedgerMoves(c)  PROVE BegunInv'
  BY <1>0, <1>5, CallMoves DEF Moved, BegunInv, Begun
<1>6. ASSUME NEW r \in Runs, PageSide(r)  PROVE BegunInv'
  BY <1>0, <1>6, PageMoves DEF vars, BegunInv, Begun
<1>7. QED  BY <1>0, <1>1, <1>2, <1>3, <1>4, <1>5, <1>6, Kinds

--------------------------------------------------------------------------------
(* What a run has filled, what it was told, and where its acts fell.        *)

LEMMA FilledStep ==
    ASSUME Base, FilledInv, ApplyNext, TypeOK'
    PROVE  FilledInv'
<1>0. ApplyTypeOK /\ TypeOK /\ IInv /\ OwnInv /\ BegunInv
  BY DEF Base, ApplyTypeOK
<1>1. ASSUME NEW r \in Runs, Quiet(r)  PROVE FilledInv'
  <2>1. Alone(r) /\ UNCHANGED vars
    BY <1>0, <1>1, QuietMoves
  <2>2. \A q \in Runs, i \in DOMAIN Fields : SetOrHeld(q, i) => SetOrHeld(q, i)'
    BY <1>0, <2>1, SetStays
  <2>3. \A q \in Runs \ {r}, i \in DOMAIN Fields : Passed(q, i)' => Passed(q, i)
    BY <2>1 DEF Passed, Alone, vars
  <2>4. ASSUME NEW i \in DOMAIN Fields, Passed(r, i)'  PROVE Passed(r, i) \/ SetOrHeld(r, i)
    <3>1. i \in Nat /\ index[r] \in Nat /\ i >= 1 /\ call' = call
      BY <1>0, <2>1, PlanFacts DEF ApplyTypeOK, vars
    <3> USE <1>0, <2>4, <3>1 DEF Passed, Filling, Past, Goto, Leave, ApplyTypeOK
    <3>2. CASE CheckAttempted(r) \/ OpenSession(r)
      BY <3>2 DEF CheckAttempted, OpenSession
    <3>3. CASE Fingerprint(r)
      <4>1. index'[r] = 1 /\ at'[r] \in {"field", "closing"}
        BY <3>3 DEF Fingerprint, BegunInv, Before
      <4>2. QED  BY <4>1
    <3>4. CASE LookAtToggle(r)
      <4>1. at[r] = "field" /\ index[r] \in Toggles /\ index' = index /\ at'[r] \in {"readBack", "fill", "closing"}
        BY <3>4 DEF LookAtToggle
      <4>2. CASE i = index[r]
        <5>1. call[<<r, i>>] = None
          BY <4>1, <4>2, PlanFacts DEF BegunInv, Begun
        <5>2. QED  BY <4>1, <4>2, <5>1 DEF SetOrHeld
      <4>3. QED  BY <4>1, <4>2
    <3>5. CASE FieldSet(r)
      <4>1. at[r] = "set" /\ pc[<<r, index[r]>>] = "returned" /\ index' = index /\ at'[r] = "readBack"
        BY <3>5 DEF FieldSet, Current
      <4>2. CASE i = index[r]
        <5>1. <<r, i>> \in Calls
          BY PlanFacts
        <5>2. Stored(<<r, i>>) /\ disk[<<r, i>>].outcome = "applied"
          BY <4>1, <4>2, <5>1 DEF IInv, Phases, PhaseOf
        <5>3. QED  BY <5>2 DEF SetOrHeld
      <4>3. QED  BY <4>1, <4>2
    <3>6. CASE StepUnstarted(r) \/ FieldFailed(r) \/ ReadBack(r)
      BY <3>6 DEF StepUnstarted, AtFill, FieldFailed, ReadBack
    <3>7. CASE Observe(r)
      <4>1. at[r] = "observe" /\ index[r] \in DOMAIN Fields
        BY <3>7 DEF Observe, BegunInv
      <4>2. CASE index' = [index EXCEPT ![r] = @ + 1] /\ Goto(r, NextField(r))
        <5>1. index'[r] = index[r] + 1 /\ at'[r] = NextField(r)
          BY <4>2
        <5>2. i < index[r] + 1 => i < index[r] \/ i = index[r]
          OBVIOUS
        <5>3. at'[r] = "lastLook" => index[r] = Len(Fields)
          BY <5>1 DEF NextField
        <5>4. at'[r] \in {"lastLook", "field"}
          BY <5>1 DEF NextField
        <5>5. i <= Len(Fields)
          BY PlanFacts
        <5>6. QED  BY <4>1, <5>1, <5>2, <5>3, <5>4, <5>5
      <4>3. CASE Leave(r, "failed") /\ UNCHANGED index
        BY <4>1, <4>3
      <4>4. QED  BY <3>7, <4>2, <4>3 DEF Observe
    <3>8. CASE LastLook(r) \/ ControlReady(r) \/ ClickReturned(r) \/ ClickThrew(r)
      BY <3>8 DEF LastLook, ControlReady, ClickReturned, ClickThrew
    <3>9. QED  BY <1>1, <3>2, <3>3, <3>4, <3>5, <3>6, <3>7, <3>8 DEF Quiet
  <2>5. QED  BY <2>2, <2>3, <2>4 DEF FilledInv
<1>2. ASSUME NEW r \in Runs, Launch(r)  PROVE FilledInv'
  <2>1. /\ Alone(r) /\ UNCHANGED <<call, index, disk>> /\ at[r] = "unborn"
        /\ at'[r] \in {"closing", "attemptCheck", "session"}
    BY <1>0, <1>2, LaunchMoves
  <2>2. \A q \in Runs, i \in DOMAIN Fields : Passed(q, i)' => Passed(q, i)
    BY <2>1 DEF Passed, Alone, Filling, Past
  <2>3. \A q \in Runs, i \in DOMAIN Fields : SetOrHeld(q, i) => SetOrHeld(q, i)'
    BY <2>1 DEF SetOrHeld, Stored
  <2>4. QED  BY <2>2, <2>3 DEF FilledInv
<1>3. ASSUME NEW r \in Runs, Close(r) \/ Die(r)  PROVE FilledInv'
  <2>1. Alone(r) /\ UNCHANGED <<call, disk>> /\ at'[r] \in Over
    BY <1>0, <1>3, EndMoves
  <2>2. \A q \in Runs, i \in DOMAIN Fields : Passed(q, i)' => Passed(q, i)
    BY <2>1 DEF Passed, Alone, Filling, Past, Over
  <2>3. \A q \in Runs, i \in DOMAIN Fields : SetOrHeld(q, i) => SetOrHeld(q, i)'
    BY <2>1 DEF SetOrHeld, Stored
  <2>4. QED  BY <2>2, <2>3 DEF FilledInv
<1>4. ASSUME NEW r \in Runs, NEW c \in Calls,
             \/ SetField(r) /\ c = Current(r)
             \/ ClickSubmit(r) /\ c = <<r, Click>>
      PROVE  FilledInv'
  <2>1. /\ Alone(r) /\ c[1] = r /\ UNCHANGED <<index, disk>>
        /\ \A d \in Calls \ {c} : call'[d] = call[d]
        /\ \/ at[r] \in {"field", "fill"} /\ at'[r] = "set" /\ c = <<r, index[r]>>
           \/ at[r] = "click" /\ at'[r] = "clicked" /\ c = <<r, Click>>
    BY <1>0, <1>4, BeginMoves DEF ClickSubmit, Current
  <2>2. \A i \in DOMAIN Fields : i \in Nat /\ i < Click /\ index[r] \in Nat
    BY <1>0, PlanFacts DEF ApplyTypeOK
  <2>3. ASSUME NEW q \in Runs \ {r}, NEW i \in DOMAIN Fields, Passed(q, i)'  PROVE SetOrHeld(q, i)'
    <3>1. call'[<<q, i>>] = call[<<q, i>>] /\ call'[<<q, Click>>] = call[<<q, Click>>]
      BY <2>1, PlanFacts
    <3>2. SetOrHeld(q, i)
      BY <2>1, <2>3, <3>1 DEF FilledInv, Passed, Alone
    <3>3. QED  BY <2>1, <3>1, <3>2 DEF SetOrHeld, Stored
  <2>4. ASSUME NEW i \in DOMAIN Fields, Passed(r, i)'  PROVE SetOrHeld(r, i)'
    <3>1. CASE at'[r] = "set"
      <4>1. at[r] \in {"field", "fill"} /\ c = <<r, index[r]>> /\ index[r] \in DOMAIN Fields
        BY <1>0, <2>1, <3>1 DEF BegunInv, Filling
      <4>2. call[<<r, Click>>] = None
        BY <1>0, <2>2, <4>1, PlanFacts DEF BegunInv, Begun
      <4>3. call'[<<r, Click>>] = None
        BY <2>1, <2>2, <4>1, <4>2, PlanFacts
      <4>4. i < index[r]
        BY <2>1, <2>4, <3>1, <4>3 DEF Passed, Past
      <4>5. call'[<<r, i>>] = call[<<r, i>>]
        BY <2>1, <2>2, <4>1, <4>4, PlanFacts
      <4>6. SetOrHeld(r, i)
        BY <4>1, <4>4 DEF FilledInv, Passed, Filling
      <4>7. QED  BY <2>1, <4>5, <4>6 DEF SetOrHeld, Stored
    <3>2. CASE at[r] = "click" /\ c = <<r, Click>>
      <4>1. SetOrHeld(r, i)
        BY <3>2 DEF FilledInv, Passed, Past
      <4>2. call'[<<r, i>>] = call[<<r, i>>]
        BY <2>1, <2>2, <3>2, PlanFacts
      <4>3. QED  BY <2>1, <4>1, <4>2 DEF SetOrHeld, Stored
    <3>3. QED  BY <2>1, <3>1, <3>2
  <2>5. QED  BY <2>3, <2>4 DEF FilledInv
<1>5. ASSUME NEW c \in Calls, LedgerMoves(c)  PROVE FilledInv'
  <2>1. Moved(c) /\ UNCHANGED <<at, index>>
    BY <1>0, <1>5, CallMoves
  <2>2. \A q \in Runs, i \in DOMAIN Fields : SetOrHeld(q, i) => SetOrHeld(q, i)'
    BY <1>0, <2>1, SetStays
  <2>3. \A q \in Runs, i \in DOMAIN Fields : Passed(q, i)' => Passed(q, i)
    BY <2>1 DEF Passed, Moved
  <2>4. QED  BY <2>2, <2>3 DEF FilledInv
<1>6. ASSUME NEW r \in Runs, PageSide(r)  PROVE FilledInv'
  BY <1>0, <1>6, PageMoves DEF vars, FilledInv, Passed, SetOrHeld, Stored
<1>7. QED  BY <1>0, <1>1, <1>2, <1>3, <1>4, <1>5, <1>6, Kinds

LEMMA IntentStep ==
    ASSUME Base, IntentInv, ApplyNext, TypeOK'
    PROVE  IntentInv'
<1>0. ApplyTypeOK /\ IInv /\ OwnInv /\ BegunInv
  BY DEF Base
<1>1. ASSUME NEW r \in Runs, Quiet(r)  PROVE IntentInv'
  <2>1. Alone(r) /\ UNCHANGED <<call, options>> /\ at[r] \notin {"unborn"} \cup Over
    BY <1>0, <1>1, QuietMoves DEF vars
  <2>2. at'[r] \notin {"closing"} => at[r] # "closing"
    BY <1>1 DEF Quiet, CheckAttempted, OpenSession, Fingerprint, LookAtToggle, StepUnstarted, AtFill,
           FieldSet, FieldFailed, ReadBack, Observe, LastLook, ControlReady, ClickReturned, ClickThrew
  <2>3. at'[r] \in {"control", "click", "clicked"} => options[r].submit
    <3> USE <1>0 DEF Goto, Leave, IntentInv, ApplyTypeOK
    <3>1. CASE CheckAttempted(r) \/ OpenSession(r) \/ Fingerprint(r) \/ LookAtToggle(r) \/ StepUnstarted(r)
      BY <3>1 DEF CheckAttempted, OpenSession, Fingerprint, LookAtToggle, StepUnstarted
    <3>2. CASE FieldSet(r) \/ FieldFailed(r) \/ ReadBack(r) \/ Observe(r)
      BY <3>2 DEF FieldSet, FieldFailed, ReadBack, Observe, NextField
    <3>3. CASE LastLook(r) \/ ControlReady(r) \/ ClickReturned(r) \/ ClickThrew(r)
      BY <3>3 DEF LastLook, ControlReady, ClickReturned, ClickThrew
    <3>4. QED  BY <1>1, <3>1, <3>2, <3>3 DEF Quiet
  <2>4. QED  BY <2>1, <2>2, <2>3 DEF IntentInv, Alone
<1>2. ASSUME NEW r \in Runs, Launch(r)  PROVE IntentInv'
  <2>1. /\ Alone(r) /\ UNCHANGED call /\ at[r] = "unborn"
        /\ \/ at'[r] = "closing"
           \/ Approved(options'[r]) /\ at'[r] \in {"attemptCheck", "session"}
    BY <1>0, <1>2, LaunchMoves
  <2>2. call[<<r, Click>>] = None
    BY <1>0, <2>1, PlanFacts DEF BegunInv, Begun, Before
  <2>3. QED  BY <2>1, <2>2 DEF IntentInv, Alone
<1>3. ASSUME NEW r \in Runs, Close(r) \/ Die(r)  PROVE IntentInv'
  <2>1. Alone(r) /\ UNCHANGED <<call, options>> /\ at'[r] \in Over
    BY <1>0, <1>3, EndMoves
  <2>2. QED  BY <2>1 DEF IntentInv, Alone, Over
<1>4. ASSUME NEW r \in Runs, NEW c \in Calls,
             \/ SetField(r) /\ c = Current(r)
             \/ ClickSubmit(r) /\ c = <<r, Click>>
      PROVE  IntentInv'
  <2>1. /\ Alone(r) /\ c[1] = r /\ UNCHANGED options
        /\ \A d \in Calls \ {c} : call'[d] = call[d]
        /\ \/ at[r] \in {"field", "fill"} /\ at'[r] = "set"
           \/ at[r] = "click" /\ at'[r] = "clicked" /\ c = <<r, Click>>
    BY <1>0, <1>4, BeginMoves
  <2>2. Approved(options[r])
    BY <2>1 DEF IntentInv, Over
  <2>3. options[r] \in [submit : BOOLEAN, confirmed : BOOLEAN]
    BY <1>0 DEF ApplyTypeOK
  <2>4. \A q \in Runs \ {r} : call'[<<q, Click>>] = call[<<q, Click>>]
    BY <2>1, PlanFacts
  <2>5. ASSUME call'[<<r, Click>>] # None  PROVE options[r].submit /\ options[r].confirmed
    <3>1. CASE at[r] = "click"
      BY <2>2, <2>3, <3>1 DEF IntentInv, Approved
    <3>2. CASE SetField(r)
      <4>1. index[r] \in DOMAIN Fields /\ c = <<r, index[r]>>
        BY <1>0, <1>4, <3>2, CurrentIsCall DEF Current, ClickSubmit, SetField, AtFill
      <4>2. <<r, Click>> # c
        BY <4>1, PlanFacts
      <4>3. call'[<<r, Click>>] = call[<<r, Click>>]
        BY <2>1, <4>2, PlanFacts
      <4>4. QED  BY <2>5, <4>3 DEF IntentInv
    <3>3. QED  BY <1>4, <3>1, <3>2 DEF ClickSubmit
  <2>6. QED  BY <2>1, <2>2, <2>4, <2>5 DEF IntentInv, Alone
<1>5. ASSUME NEW c \in Calls, LedgerMoves(c)  PROVE IntentInv'
  BY <1>0, <1>5, CallMoves DEF Moved, IntentInv
<1>6. ASSUME NEW r \in Runs, PageSide(r)  PROVE IntentInv'
  BY <1>0, <1>6, PageMoves DEF vars, IntentInv
<1>7. QED  BY <1>0, <1>1, <1>2, <1>3, <1>4, <1>5, <1>6, Kinds

LEMMA StrayStep ==
    ASSUME Base, StrayInv, ApplyNext, TypeOK'
    PROVE  StrayInv'
<1>0. ApplyTypeOK /\ IInv /\ OwnInv /\ BegunInv /\ \A c \in Calls : c[1] \in Runs
  BY PlanFacts DEF Base
<1>1. ASSUME NEW r \in Runs, Quiet(r)  PROVE StrayInv'
  <2>1. Alone(r) /\ UNCHANGED <<pc, world, strays>>
    BY <1>0, <1>1, QuietMoves DEF vars
  <2>2. ASSUME strays[r] # 0
        PROVE  /\ at'[r] \in {"set", "readBack", "observe", "clicked", "closing"}
               /\ page'[r] = page[r]
    <3>1. at[r] \in {"set", "readBack", "observe", "clicked", "closing"} /\ page[r] = "elsewhere"
      BY <2>2 DEF StrayInv
    <3> USE <1>0, <3>1 DEF Goto, Leave, ApplyTypeOK, tabVars
    <3>2. CASE CheckAttempted(r) \/ OpenSession(r) \/ Fingerprint(r) \/ LookAtToggle(r) \/ StepUnstarted(r)
      BY <3>2 DEF CheckAttempted, OpenSession, Fingerprint, LookAtToggle, StepUnstarted, AtFill
    <3>3. CASE FieldSet(r) \/ FieldFailed(r) \/ ReadBack(r) \/ Observe(r)
      BY <3>3 DEF FieldSet, FieldFailed, ReadBack, Observe
    <3>4. CASE LastLook(r) \/ ControlReady(r) \/ ClickReturned(r) \/ ClickThrew(r)
      BY <3>4 DEF LastLook, ControlReady, ClickReturned, ClickThrew
    <3>5. QED  BY <1>1, <3>2, <3>3, <3>4 DEF Quiet
  <2>3. QED  BY <2>1, <2>2 DEF StrayInv, Alone, InFlight, Acted
<1>2. ASSUME NEW r \in Runs, Launch(r)  PROVE StrayInv'
  <2>1. Alone(r) /\ UNCHANGED <<pc, world, strays>> /\ at[r] = "unborn"
    BY <1>0, <1>2, LaunchMoves
  <2>2. strays[r] = 0
    BY <2>1 DEF StrayInv
  <2>3. QED  BY <2>1, <2>2 DEF StrayInv, Alone, InFlight, Acted
<1>3. ASSUME NEW r \in Runs, Close(r) \/ Die(r)  PROVE StrayInv'
  <2>1. /\ Alone(r) /\ UNCHANGED world /\ strays'[r] = 0
        /\ \A c \in Calls : InFlight(c)' => InFlight(c)
    BY <1>0, <1>3, EndMoves
  <2>2. QED  BY <2>1 DEF StrayInv, Alone, Acted
<1>4. ASSUME NEW r \in Runs, NEW c \in Calls,
             \/ SetField(r) /\ c = Current(r)
             \/ ClickSubmit(r) /\ c = <<r, Click>>
      PROVE  StrayInv'
  <2>1. /\ Alone(r) /\ c[1] = r /\ UNCHANGED <<world, strays>>
        /\ \A d \in Calls \ {c} : pc'[d] = pc[d]
        /\ at[r] \in {"field", "fill", "click"}
    BY <1>0, <1>4, BeginMoves
  <2>2. strays[r] = 0
    BY <2>1 DEF StrayInv
  <2>3. QED  BY <2>1, <2>2 DEF StrayInv, Alone, InFlight, Acted
<1>5. ASSUME NEW c \in Calls, LedgerMoves(c)  PROVE StrayInv'
  <2>1. /\ Moved(c) /\ UNCHANGED <<at, index, page>>
        /\ \A q \in Runs \ {c[1]} : strays'[q] = strays[q]
        /\ strays'[c[1]] # strays[c[1]] =>
              /\ strays'[c[1]] = strays[c[1]] + 1
              /\ page[c[1]] = "elsewhere" /\ ~Acted(c) /\ Acted(c)'
    BY <1>0, <1>5, CallMoves
  <2>2. \A d \in Calls \ {c} : InFlight(d)' = InFlight(d) /\ Acted(d)' = Acted(d)
    BY <2>1 DEF Moved, InFlight, Acted
  <2>3. InFlight(c) /\ (Acted(c) => Acted(c)') /\ c[1] \in Runs
    BY <1>0, <2>1 DEF Moved, Acted
  <2>4. CASE strays'[c[1]] = strays[c[1]]
    BY <2>1, <2>2, <2>3, <2>4 DEF StrayInv
  <2>5. CASE strays'[c[1]] # strays[c[1]]
    <3>1. strays[c[1]] = 0
      BY <2>1, <2>3, <2>5 DEF StrayInv
    <3>2. at[c[1]] \in {"set", "clicked"}
      BY <1>0, <2>3 DEF OwnInv
    <3>3. ASSUME NEW d \in Calls \ {c}, InFlight(d), d[1] = c[1]  PROVE FALSE
      BY <1>0, <2>3, <3>3 DEF OwnInv
    <3>4. \A d \in Calls : InFlight(d)' /\ d[1] = c[1] => Acted(d)'
      BY <2>1, <2>2, <2>5, <3>3
    <3>5. strays'[c[1]] = 1
      BY <2>1, <2>5, <3>1
    <3>6. QED  BY <2>1, <2>2, <2>5, <3>2, <3>4, <3>5 DEF StrayInv
  <2>6. QED  BY <2>4, <2>5
<1>6. ASSUME NEW r \in Runs, PageSide(r)  PROVE StrayInv'
  <2>1. Alone(r) /\ UNCHANGED <<pc, world, at>> /\ (strays'[r] = 0 \/ UNCHANGED <<page, strays>>)
    BY <1>0, <1>6, PageMoves DEF vars
  <2>2. QED  BY <2>1 DEF StrayInv, Alone, InFlight, Acted
<1>7. QED  BY <1>0, <1>1, <1>2, <1>3, <1>4, <1>5, <1>6, Kinds

--------------------------------------------------------------------------------
(* The gate, while runs do not overlap.                                     *)

\* A run that was told to submit and is past its check.
Admitted(q) == options[q].submit /\ at[q] \notin {"unborn", "attemptCheck", "closing"} \cup Over

LEMMA GateStep ==
    ASSUME Base, IntentInv, GateInv, ApplyNext, TypeOK', ~Overlap
    PROVE  GateInv'
<1>0. ApplyTypeOK /\ IInv /\ OwnInv /\ BegunInv
  BY DEF Base
<1>1. ASSUME NEW r \in Runs, Quiet(r)  PROVE GateInv'
  <2>1. Alone(r) /\ UNCHANGED <<disk, options>>
    BY <1>0, <1>1, QuietMoves DEF vars
  <2>2. ASSUME Admitted(r)', ~Admitted(r)  PROVE \A q \in Runs : ~Stored(<<q, Click>>)
    <3>1. at[r] \in {"unborn", "attemptCheck", "closing"} \cup Over
      BY <2>1, <2>2 DEF Admitted
    <3>2. CheckAttempted(r)
      BY <1>1, <3>1 DEF Quiet, OpenSession, Fingerprint, LookAtToggle, StepUnstarted, AtFill, FieldSet,
             FieldFailed, ReadBack, Observe, LastLook, ControlReady, ClickReturned, ClickThrew, Over
    <3>3. at'[r] # "closing"
      BY <2>2 DEF Admitted
    <3>4. ~(\E c \in ClickCalls : Stored(c))
      BY <1>0, <3>2, <3>3 DEF CheckAttempted, Leave, ApplyTypeOK
    <3>5. QED  BY <3>4 DEF ClickCalls
  <2>3. \A q \in Runs : Admitted(q)' => Admitted(q) \/ \A p \in Runs : ~Stored(<<p, Click>>)
    BY <2>1, <2>2 DEF Admitted, Alone
  <2>4. QED  BY <2>1, <2>3 DEF GateInv, Admitted, Stored
<1>2. ASSUME NEW r \in Runs, Launch(r)  PROVE GateInv'
  <2>1. /\ Alone(r) /\ UNCHANGED disk
        /\ \/ at'[r] = "closing"
           \/ at'[r] = (IF options'[r].submit THEN "attemptCheck" ELSE "session")
    BY <1>0, <1>2, LaunchMoves
  <2>2. \A q \in Runs : Admitted(q)' => Admitted(q)
    BY <2>1 DEF Admitted, Alone
  <2>3. QED  BY <2>1, <2>2 DEF GateInv, Admitted, Stored
<1>3. ASSUME NEW r \in Runs, Close(r) \/ Die(r)  PROVE GateInv'
  <2>1. Alone(r) /\ UNCHANGED <<disk, options>> /\ at'[r] \in Over
    BY <1>0, <1>3, EndMoves
  <2>2. \A q \in Runs : Admitted(q)' => Admitted(q)
    BY <2>1 DEF Admitted, Alone
  <2>3. QED  BY <2>1, <2>2 DEF GateInv, Admitted, Stored
<1>4. ASSUME NEW r \in Runs, NEW c \in Calls,
             \/ SetField(r) /\ c = Current(r)
             \/ ClickSubmit(r) /\ c = <<r, Click>>
      PROVE  GateInv'
  <2>1. Alone(r) /\ UNCHANGED <<disk, options>> /\ at[r] \in {"field", "fill", "click"}
    BY <1>0, <1>4, BeginMoves
  <2>2. \A q \in Runs : Admitted(q)' => Admitted(q)
    BY <2>1 DEF Admitted, Alone, Over
  <2>3. QED  BY <2>1, <2>2 DEF GateInv, Admitted, Stored
<1>5. ASSUME NEW c \in Calls, LedgerMoves(c)  PROVE GateInv'
  <2>1. Moved(c) /\ UNCHANGED <<at, options>>
    BY <1>0, <1>5, CallMoves
  <2>2. \A d \in Calls \ {c} : Stored(d)' = Stored(d)
    BY <2>1 DEF Moved, Stored
  <2>3. \A q \in Runs : Admitted(q)' = Admitted(q)
    BY <2>1 DEF Admitted
  <2>4. \A q \in Runs : <<q, Click>> \in Calls
    BY PlanFacts
  <2>5. CASE \A q \in Runs : Stored(<<q, Click>>)' => Stored(<<q, Click>>)
    BY <2>3, <2>5 DEF GateInv, Admitted
  <2>6. ASSUME NEW r \in Runs, Stored(<<r, Click>>)', ~Stored(<<r, Click>>)  PROVE GateInv'
    <3>1. c = <<r, Click>> /\ pc[c] = "opening" /\ InFlight(c)
      BY <2>1, <2>2, <2>4, <2>6 DEF Moved
    <3>2. at[r] = "clicked"
      <4>1. \/ at[r] = "set" /\ c = <<r, index[r]>>
            \/ at[r] = "clicked"
        BY <1>0, <3>1 DEF OwnInv, Current
      <4>2. at[r] = "set" => index[r] # Click
        BY <1>0, PlanFacts DEF BegunInv, Filling
      <4>3. QED  BY <3>1, <4>1, <4>2
    <3>3. Admitted(r)
      BY <3>2 DEF Admitted, IntentInv, Over
    <3>4. \A q \in Runs : Admitted(q) => q = r
      BY <1>0, <3>3 DEF Admitted, OwnInv, IInv, Lives
    <3>5. \A q \in Runs : ~Stored(<<q, Click>>)
      BY <2>6, <3>3 DEF GateInv, Admitted
    <3>6. \A q \in Runs : Stored(<<q, Click>>)' => q = r
      BY <2>2, <2>4, <3>1, <3>5
    <3>7. QED  BY <2>3, <3>4, <3>6 DEF GateInv, Admitted
  <2>7. QED  BY <2>5, <2>6
<1>6. ASSUME NEW r \in Runs, PageSide(r)  PROVE GateInv'
  <2>1. UNCHANGED <<disk, at, options>>
    BY <1>0, <1>6, PageMoves DEF vars
  <2>2. QED  BY <2>1 DEF GateInv, Stored
<1>7. QED  BY <1>0, <1>1, <1>2, <1>3, <1>4, <1>5, <1>6, Kinds

--------------------------------------------------------------------------------
(* The invariant, and what follows from it.                                 *)

LEMMA ApplyInitial == ApplyInit => ApplyInv
<1> SUFFICES ASSUME ApplyInit  PROVE ApplyInv
  OBVIOUS
<1>1. TypeOK /\ IInv
  BY InitEstablishes DEF ApplyInit
<1>2. 1 \in 1 .. Click
  BY PlanFacts
<1>3. ApplyTypeOK
  BY <1>1, <1>2 DEF ApplyInit, ApplyTypeOK, Places
<1>4. \A c \in Calls : call[c] = None /\ pc[c] = "idle" /\ disk[c] = None
  BY DEF ApplyInit, Init
<1>5. \A r \in Runs : at[r] = "unborn" /\ index[r] = 1 /\ strays[r] = 0 /\ runs[r].life = "unborn"
  BY DEF ApplyInit, Init
<1>6. OwnInv
  BY <1>4, <1>5 DEF OwnInv, InFlight, Suspended
<1>7. BegunInv
  BY <1>4, <1>5, PlanFacts DEF BegunInv, Before, Filling
<1>8. FilledInv
  BY <1>4, <1>5, PlanFacts DEF FilledInv, Passed, Filling, Past
<1>9. IntentInv /\ StrayInv
  BY <1>4, <1>5, PlanFacts DEF IntentInv, StrayInv
<1>10. GateInv
  BY <1>4, PlanFacts DEF GateInv, Stored
<1>11. QED  BY <1>1, <1>3, <1>6, <1>7, <1>8, <1>9, <1>10 DEF ApplyInv

LEMMA ApplyInductive == ApplyInv /\ [ApplyNext]_applyVars => ApplyInv'
<1> SUFFICES ASSUME ApplyInv, [ApplyNext]_applyVars  PROVE ApplyInv'
  OBVIOUS
<1>0. Base /\ ApplyTypeOK /\ TypeOK /\ IInv /\ OwnInv /\ BegunInv
  BY DEF ApplyInv, Base, ApplyTypeOK
<1>1. CASE ApplyNext
  <2>1. TypeOK' /\ IInv'
    BY <1>0, <1>1, ApplyStepsLedger, LedgerStep
  <2>2. ApplyTypeOK'
    BY <1>0, <1>1, <2>1, Kinds, QuietMoves, LaunchMoves, EndMoves, BeginMoves, CallMoves, PageMoves
  <2>3. OwnInv' /\ BegunInv'
    BY <1>0, <1>1, <2>1, OwnStep, BegunStep
  <2>4. FilledInv' /\ IntentInv' /\ StrayInv'
    BY <1>0, <1>1, <2>1, FilledStep, IntentStep, StrayStep DEF ApplyInv
  <2>5. ~Overlap => GateInv'
    BY <1>0, <1>1, <2>1, GateStep DEF ApplyInv
  <2>6. QED  BY <2>1, <2>2, <2>3, <2>4, <2>5 DEF ApplyInv
<1>2. CASE UNCHANGED applyVars
  <2>1. /\ UNCHANGED <<runs, call, pc, byKey, mem, attempt, disk, world, older>>
        /\ UNCHANGED <<at, index, options, channel, status, page, holds, guarded, strays>>
    BY <1>2 DEF applyVars, vars, runVars, tabVars
  <2>2. TypeOK' /\ IInv'
    BY <1>0, <2>1, LedgerStep DEF vars
  <2>3. ApplyTypeOK'
    BY <1>0, <2>1, <2>2 DEF ApplyTypeOK
  <2>4. OwnInv' /\ BegunInv'
    BY <1>0, <2>1 DEF OwnInv, InFlight, RunOf, Current, BegunInv, Begun
  <2>5. FilledInv' /\ IntentInv'
    BY <2>1 DEF ApplyInv, FilledInv, Passed, SetOrHeld, Stored, IntentInv
  <2>6. StrayInv' /\ (~Overlap => GateInv')
    BY <2>1 DEF ApplyInv, StrayInv, GateInv, InFlight, Acted, Stored
  <2>7. QED  BY <2>2, <2>3, <2>4, <2>5, <2>6 DEF ApplyInv
<1>3. QED  BY <1>1, <1>2

\* The invariant holds of every apply, of any plan, by any number of runs.
THEOREM ApplyInvHolds == ApplySpec => []ApplyInv
BY ApplyInitial, ApplyInductive, PTL DEF ApplySpec

\* Every behaviour of `apply` is one of the ledger, so all that is proved of the ledger
\* holds of it.
THEOREM ApplyImplementsLedger == ApplySpec => Spec
<1>1. ApplyInit => Init
  BY DEF ApplyInit
<1>2. ApplyInv /\ [ApplyNext]_applyVars => [Next]_vars
  <2>1. ApplyInv => ApplyTypeOK /\ BegunInv
    BY DEF ApplyInv
  <2>2. UNCHANGED applyVars => UNCHANGED vars
    BY DEF applyVars
  <2>3. QED  BY <2>1, <2>2, ApplyStepsLedger
<1>3. QED  BY <1>1, <1>2, ApplyInvHolds, PTL DEF ApplySpec, Spec

\* An act has a call behind it.
LEMMA ActedIsCalled ==
    ASSUME ApplyInv, NEW c \in Calls, Acted(c)
    PROVE  Stored(c) /\ call[c] # None
BY DEF ApplyInv, IInv, Phases, PhaseOf, Lives

\* The control is clicked only on request, and only when every field was set.
THEOREM ClickAfterFillHolds == ApplySpec => []ClickAfterFill
<1>1. ApplyInv => ClickAfterFill
  <2> SUFFICES ASSUME ApplyInv, NEW r \in Runs, Acted(<<r, Click>>)
               PROVE  /\ options[r].submit /\ options[r].confirmed
                      /\ \A i \in DOMAIN Fields : SetOrHeld(r, i)
    BY DEF ClickAfterFill
  <2>1. call[<<r, Click>>] # None
    BY ActedIsCalled, PlanFacts
  <2>2. QED  BY <2>1 DEF ApplyInv, IntentInv, FilledInv, Passed
<1>2. QED  BY <1>1, ApplyInvHolds, PTL

\* At most one act strays before the run looks at its page again, on either channel.
THEOREM OneStrayActHolds == ApplySpec => []OneStrayAct
<1>1. ApplyInv => OneStrayAct
  <2>1. ASSUME ApplyInv, NEW r \in Runs  PROVE strays[r] = 0 \/ strays[r] = 1
    BY <2>1 DEF ApplyInv, StrayInv
  <2>2. \A n \in {0, 1} : n <= 1
    OBVIOUS
  <2>3. QED  BY <2>1, <2>2 DEF OneStrayAct
<1>2. QED  BY <1>1, ApplyInvHolds, PTL

\* While runs do not overlap, one click at most reaches the page, over all of them.
THEOREM PlanSubmittedOnceHolds ==
    ASSUME ~Overlap
    PROVE  ApplySpec => []PlanSubmittedOnce
<1>1. ApplyInv => PlanSubmittedOnce
  <2> SUFFICES ASSUME ApplyInv, NEW r \in Runs, NEW q \in Runs,
                      Acted(<<r, Click>>), Acted(<<q, Click>>)
               PROVE  r = q
    BY DEF PlanSubmittedOnce, ClickCalls
  <2>1. Stored(<<r, Click>>) /\ Stored(<<q, Click>>)
    BY ActedIsCalled, PlanFacts
  <2>2. QED  BY <2>1 DEF ApplyInv, GateInv
<1>2. QED  BY <1>1, ApplyInvHolds, PTL

--------------------------------------------------------------------------------
(* The gate of SubmitOnce.                                                  *)

Owner     == IF \E r \in Runs : Stored(<<r, Click>>)
             THEN CHOOSE r \in Runs : Stored(<<r, Click>>) ELSE None
Performed == {c \in ClickCalls : Acted(c)}

\* A step takes the gate, performs the click of the run that holds it, or neither.
LEMMA ApplyStepsGate ==
    ASSUME ApplyInv, ApplyInv', ApplyNext, ~Overlap
    PROVE  Gate!Next \/ UNCHANGED <<Owner, Performed>>
<1>0. ApplyTypeOK /\ TypeOK /\ IInv /\ OwnInv /\ BegunInv /\ IntentInv /\ GateInv /\ TypeOK' /\ GateInv'
  BY DEF ApplyInv, ApplyTypeOK
<1>1. ASSUME UNCHANGED <<disk, world>>  PROVE UNCHANGED <<Owner, Performed>>
  <2>1. \A r \in Runs : Stored(<<r, Click>>)' = Stored(<<r, Click>>)
    BY <1>1 DEF Stored
  <2>2. Owner' = Owner
    BY <2>1 DEF Owner
  <2>3. QED  BY <1>1, <2>2 DEF Performed, Acted
<1>2. ASSUME NEW r \in Runs, Quiet(r) \/ Launch(r) \/ Close(r) \/ Die(r) \/ PageSide(r)
      PROVE  UNCHANGED <<disk, world>>
  BY <1>0, <1>2, QuietMoves, LaunchMoves, EndMoves, PageMoves DEF vars
<1>3. ASSUME NEW r \in Runs, NEW c \in Calls,
             \/ SetField(r) /\ c = Current(r)
             \/ ClickSubmit(r) /\ c = <<r, Click>>
      PROVE  UNCHANGED <<disk, world>>
  BY <1>0, <1>3, BeginMoves
<1>4. ASSUME NEW c \in Calls, LedgerMoves(c)  PROVE Gate!Next \/ UNCHANGED <<Owner, Performed>>
  <2>1. Moved(c) /\ UNCHANGED options
    BY <1>0, <1>4, CallMoves
  <2>2. c[1] \in Runs /\ c = <<c[1], c[2]>> /\ \A r \in Runs : <<r, Click>> \in Calls
    BY PlanFacts
  <2>3. ASSUME \A r \in Runs : Stored(<<r, Click>>)' = Stored(<<r, Click>>)  PROVE Owner' = Owner
    BY <2>3 DEF Owner
  <2>4. CASE c \notin ClickCalls
    <3>1. \A r \in Runs : <<r, Click>> # c
      BY <2>4 DEF ClickCalls
    <3>2. \A r \in Runs : Stored(<<r, Click>>)' = Stored(<<r, Click>>)
      BY <2>1, <2>2, <3>1 DEF Moved, Stored
    <3>3. \A d \in ClickCalls : Acted(d)' = Acted(d)
      BY <2>1, <2>2, <2>4 DEF Moved, Acted, ClickCalls
    <3>4. Performed' = Performed
      BY <3>3 DEF Performed
    <3>5. QED  BY <2>3, <3>2, <3>4
  <2>5. CASE c \in ClickCalls /\ ~Acted(c) /\ Acted(c)'
    <3>1. c = <<c[1], Click>>
      BY <2>5 DEF ClickCalls
    <3>2. Act(c)
      BY <1>4, <2>5 DEF LedgerMoves, Advance, ListStore, Reread, OpenReceipt, OpenFails, Settle, Verify,
             FinalizeReceipt, FinalizeFails, Acted
    <3>3. UNCHANGED disk /\ Stored(c)
      BY <1>0, <3>2 DEF Act, IInv, Phases, PhaseOf
    <3>4. Owner = c[1]
      BY <1>0, <2>2, <3>1, <3>3 DEF Owner, GateInv
    <3>5. Owner' = Owner
      BY <2>3, <3>3 DEF Stored
    <3>6. \A d \in ClickCalls \ {c} : Acted(d)' = Acted(d)
      BY <2>1, <2>2 DEF Moved, Acted, ClickCalls
    <3>7. Performed' = Performed \cup {c} /\ c \notin Performed
      BY <2>5, <3>6 DEF Performed
    <3>8. Gate!Perform(c[1], Click)
      BY <3>1, <3>4, <3>5, <3>7 DEF Gate!Perform, Owner, Performed
    <3>9. QED  BY <2>2, <3>8 DEF Gate!Next
  <2>6. CASE c \in ClickCalls /\ (Acted(c)' <=> Acted(c))
    <3>1. c = <<c[1], Click>>
      BY <2>6 DEF ClickCalls
    <3>2. Performed' = Performed
      <4>1. \A d \in ClickCalls : Acted(d)' = Acted(d)
        BY <2>1, <2>2, <2>6 DEF Moved, Acted, ClickCalls
      <4>2. QED  BY <4>1 DEF Performed
    <3>3. CASE Stored(c) \/ ~Stored(c)'
      <4>1. Stored(c)' = Stored(c)
        BY <2>1, <3>3 DEF Moved, Stored
      <4>2. \A r \in Runs : Stored(<<r, Click>>)' = Stored(<<r, Click>>)
        BY <2>1, <2>2, <3>1, <4>1 DEF Moved, Stored
      <4>3. QED  BY <2>3, <3>2, <4>2
    <3>4. CASE ~Stored(c) /\ Stored(c)'
      <4>1. \A r \in Runs : Stored(<<r, Click>>)' => r = c[1]
        BY <1>0, <2>2, <3>1, <3>4 DEF GateInv
      <4>2. \A r \in Runs : ~Stored(<<r, Click>>)
        <5>1. \A r \in Runs \ {c[1]} : <<r, Click>> # c
          BY <3>1
        <5>2. \A r \in Runs \ {c[1]} : Stored(<<r, Click>>)' = Stored(<<r, Click>>)
          BY <2>1, <2>2, <5>1 DEF Moved, Stored
        <5>3. QED  BY <3>1, <3>4, <4>1, <5>2
      <4>3. Owner = None
        BY <4>2 DEF Owner
      <4>4. Owner' = c[1]
        BY <2>2, <3>1, <3>4, <4>1 DEF Owner
      <4>5. Gate!Take(c[1])
        BY <3>2, <4>3, <4>4 DEF Gate!Take, Owner, Performed
      <4>6. QED  BY <2>2, <4>5 DEF Gate!Next
    <3>5. QED  BY <3>3, <3>4
  <2>7. Acted(c) => Acted(c)'
    BY <2>1 DEF Moved, Acted
  <2>8. QED  BY <2>4, <2>5, <2>6, <2>7
<1>5. QED  BY <1>0, <1>1, <1>2, <1>3, <1>4, Kinds

\* While runs do not overlap, the check of the store and the receipt behind the click
\* implement the indivisible gate: one run, at most, submits, and once.
THEOREM ApplyImplementsSubmitOnce ==
    ASSUME ~Overlap
    PROVE  ApplySpec => ImplementsSubmitOnce
<1>1. ApplyInit => Gate!Init
  <2> SUFFICES ASSUME ApplyInit  PROVE Gate!Init
    OBVIOUS
  <2>1. \A c \in Calls : disk[c] = None /\ world[c] = "untouched"
    BY DEF ApplyInit, Init
  <2>2. \A r \in Runs : <<r, Click>> \in Calls
    BY PlanFacts
  <2>3. \A c \in ClickCalls : ~Acted(c)
    BY <2>1, <2>2 DEF Acted, ClickCalls
  <2>4. \A r \in Runs : ~Stored(<<r, Click>>)
    BY <2>1, <2>2 DEF Stored
  <2>5. QED  BY <2>3, <2>4 DEF Gate!Init
<1>2. ApplyInv /\ ApplyInv' /\ [ApplyNext]_applyVars => [Gate!Next]_(Gate!vars)
  <2> SUFFICES ASSUME ApplyInv, ApplyInv', [ApplyNext]_applyVars  PROVE [Gate!Next]_(Gate!vars)
    OBVIOUS
  <2>1. CASE ApplyNext
    BY <2>1, ApplyStepsGate DEF Gate!vars, Owner, Performed
  <2>2. CASE UNCHANGED applyVars
    <3>1. UNCHANGED <<disk, world>>
      BY <2>2 DEF applyVars, vars
    <3>2. \A r \in Runs : Stored(<<r, Click>>)' = Stored(<<r, Click>>)
      BY <3>1 DEF Stored
    <3>3. QED  BY <3>1, <3>2 DEF Gate!vars, Acted
  <2>3. QED  BY <2>1, <2>2
<1>3. QED  BY <1>1, <1>2, ApplyInvHolds, PTL DEF ApplySpec, ImplementsSubmitOnce, Gate!Spec

================================================================================
