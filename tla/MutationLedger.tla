---------------------------- MODULE MutationLedger -----------------------------
(***************************************************************************)
(* MutationLedger.runStep for mutating steps (core/effects.ts) over a       *)
(* receipt store that outlives the run. A run is one RunContext: one        *)
(* process, one run id, one ledger, at most one --supersede-receipt. A call *)
(* is one runStep invocation. Each call opens at most one receipt and the   *)
(* receipt id is fresh (randomUUID), so a receipt is named by its call.     *)
(*                                                                          *)
(* Every await of the code is a boundary between two actions here: other    *)
(* calls of the run (the orchestrator runs its agents under one Promise.all *)
(* on one ledger), other runs, and the death of the process fall between.   *)
(***************************************************************************)

CONSTANTS
    Runs,       \* run contexts
    Calls,      \* runStep invocations, and the receipts they open
    Steps,      \* the mutating steps the program may submit, see StepShape
    Overlap,    \* TRUE when two runs may be alive on one store at once
    None        \* no receipt, no run, no step, no supersede flag

(***************************************************************************)
(* What an EffectStep declares. An attempt of run() ends in one of three    *)
(* ways: a value, an error that is a definite refusal, or an error whose    *)
(* code or basis says that nothing was learned.                             *)
(***************************************************************************)
AttemptKinds == {"value", "refused", "vague"}
Definite     == {"applied", "failed"}
Settled      == Definite \cup {"unknown"}
Outcomes     == Settled \cup {"attempting"}

Keys == {s.key : s \in Steps}

StepShape(s) ==
    /\ s.scope \in {"target", "workspace", "browser_session"}
    /\ s.allowed \in BOOLEAN   \* mutation.allowOrigins names its origin, or it has none
    /\ s.retry \in BOOLEAN     \* declares maxAttempts > 1 or retryOn
    /\ s.cas \in BOOLEAN       \* declares a precondition
    /\ s.reread \in BOOLEAN    \* ... and a way to read it again
    /\ s.inspects \in BOOLEAN  \* run() reads the reply after the act, and may throw on it
    /\ s.verify \in BOOLEAN    \* declares a verify() post-read
    /\ s.settle \in [AttemptKinds -> Settled \cup {"undeclared"}]

ASSUME StepsAssumption == \A s \in Steps : StepShape(s)
ASSUME OverlapAssumption == Overlap \in BOOLEAN

Run      == [life : {"unborn", "live", "gone"}, usable : BOOLEAN,
             supersede : Calls \cup {None}]
CallInfo == [run : Runs, step : Steps]
Receipt  == [key : Keys, outcome : Outcomes, supersedes : Calls \cup {None}]

ASSUME NoneAssumption ==
    None \notin Calls \cup Keys \cup CallInfo \cup Receipt \cup AttemptKinds
                 \cup [run : Runs, key : Keys]

\* A step that says failed only of what did not happen: not of a value, not of an
\* error that taught nothing, not of a reply it disliked after the act.
Honest(s) ==
    /\ s.settle["value"] # "failed" /\ s.settle["vague"] # "failed"
    /\ ~s.inspects

VARIABLES
    runs,       \* runs[r]: life, whether its store is usable, its supersede flag
    call,       \* call[c]: the run and the step of call c
    pc,         \* pc[c]: the await call c is suspended at
    byKey,      \* byKey[r]: the calls whose receipts run r holds in memory
    mem,        \* mem[c]: the outcome of receipt c in memory
    attempt,    \* attempt[c]: how run() of call c ended
    disk,       \* disk[c]: receipt c as the store holds it
    world,      \* history: what the act of call c did to its target
    older       \* history: older[c] are the receipts of its key there were when call c began

vars == <<runs, call, pc, byKey, mem, attempt, disk, world, older>>

Suspended == {"listing", "rereading", "opening", "acting", "settling",
              "verifying", "finalizing"}
Ended     == {"returned", "threw", "refused", "dead"}

TypeOK ==
    /\ runs \in [Runs -> Run]
    /\ call \in [Calls -> CallInfo \cup {None}]
    /\ pc \in [Calls -> {"idle"} \cup Suspended \cup Ended]
    /\ byKey \in [Runs -> SUBSET Calls]
    /\ mem \in [Calls -> Outcomes]
    /\ attempt \in [Calls -> AttemptKinds \cup {None}]
    /\ disk \in [Calls -> Receipt \cup {None}]
    /\ world \in [Calls -> {"untouched", "took", "spared"}]
    /\ older \in [Calls -> SUBSET Calls]

RunOf(c)  == call[c].run
StepOf(c) == call[c].step
KeyOf(c)  == call[c].step.key

InFlight(c) == pc[c] \in Suspended
Stored(c)   == disk[c] # None

\* `attempting` and `unknown` are the two outcomes nobody can act on.
IsInDoubt(c) == Stored(c) /\ disk[c].outcome \in {"attempting", "unknown"}

\* The refusals that need nothing but the step and the run's own settings.
ShapeAccepted(s) ==
    /\ ~s.retry
    /\ s.cas => s.scope = "workspace" /\ s.reread
StoreUsable(r) == runs[r].usable
OriginAllowed(s) == s.scope = "target" => s.allowed

\* Seeded fault: the in-memory check forgets the calls that failed.
HeldUnlessFailed(r, s) == \E d \in byKey[r] : KeyOf(d) = s.key /\ mem[d] # "failed"

\* The key was already attempted in this run, with whatever outcome.
HeldByRun(r, s) == \E d \in byKey[r] : KeyOf(d) = s.key

\* Seeded faults: only `unknown` blocks; one superseded receipt waives them all.
BlockingUnknownOnly(c) ==
    {d \in Calls : /\ Stored(d) /\ disk[d].outcome = "unknown"
                   /\ disk[d].key = KeyOf(c)
                   /\ d # runs[RunOf(c)].supersede}
BlockingUnlessFlagged(c) ==
    {d \in Calls : /\ IsInDoubt(d)
                   /\ disk[d].key = KeyOf(c)
                   /\ runs[RunOf(c)].supersede = None}

\* What the store lists for { idempotencyKey, inDoubt: true }.
Matching(key) == {d \in Calls : IsInDoubt(d) /\ disk[d].key = key}

\* What it lists without the superseded receipt.
Blocking(c) == Matching(KeyOf(c)) \ {runs[RunOf(c)].supersede}

\* Seeded fault: an error nobody classified, a timeout included, is a failure.
DefaultAlwaysFailed(kind) == "failed"

\* What an error means when the step did not say.
DefaultOutcome(kind) == IF kind = "vague" THEN "unknown" ELSE "failed"

\* What a thrown attempt settles as; "rejected" when the declaration is one the
\* ledger does not accept, in which case the settlement itself throws.
ErrorOutcome(s, kind) ==
    IF s.settle[kind] = "undeclared" THEN DefaultOutcome(kind)
    ELSE IF s.settle[kind] = "applied" THEN "rejected" ELSE s.settle[kind]

\* A value may not settle as failed: that settlement throws inside the try, and
\* the catch settles the resulting error, a definite one, once more.
SettledOutcome(s, kind) ==
    IF kind # "value" THEN ErrorOutcome(s, kind)
    ELSE IF s.settle["value"] = "undeclared" THEN "applied"
    ELSE IF s.settle["value"] = "failed" THEN ErrorOutcome(s, "refused")
    ELSE s.settle["value"]

\* What an act may have done, given how it ended: a definite refusal did nothing,
\* unless the step threw on a reply that came after the act; a value means the
\* effect took place, unless the step itself settles a value as unknown; a vague
\* error says nothing either way.
Fates(s, kind) ==
    CASE kind = "refused" /\ ~s.inspects -> {"spared"}
      [] kind = "value" /\ s.settle["value"] # "unknown" -> {"took"}
      [] OTHER -> {"took", "spared"}

--------------------------------------------------------------------------------

Init ==
    /\ runs = [r \in Runs |-> [life |-> "unborn", usable |-> TRUE, supersede |-> None]]
    /\ call = [c \in Calls |-> None]
    /\ pc = [c \in Calls |-> "idle"]
    /\ byKey = [r \in Runs |-> {}]
    /\ mem = [c \in Calls |-> "attempting"]
    /\ attempt = [c \in Calls |-> None]
    /\ disk = [c \in Calls |-> None]
    /\ world = [c \in Calls |-> "untouched"]
    /\ older = [c \in Calls |-> {}]

\* The operator starts a run, naming at most one receipt of the store to supersede.
StartRun(r) ==
    /\ runs[r].life = "unborn"
    /\ Overlap \/ \A q \in Runs : runs[q].life # "live"
    /\ \E usable \in BOOLEAN, named \in {c \in Calls : Stored(c)} \cup {None} :
          runs' = [runs EXCEPT ![r] = [life |-> "live", usable |-> usable,
                                       supersede |-> named]]
    /\ UNCHANGED <<call, pc, byKey, mem, attempt, disk, world, older>>

\* runStep up to its first await: the declaration, the store, the origin and the
\* keys this run already holds, in that order. Nothing keeps a run from beginning a
\* key it has in flight: the key is held in memory only from OpenReceipt on.
Begin(c, r, s) ==
    /\ pc[c] = "idle"
    /\ runs[r].life = "live"
    /\ call' = [call EXCEPT ![c] = [run |-> r, step |-> s]]
    /\ pc' = [pc EXCEPT ![c] =
                 IF /\ ShapeAccepted(s)
                    /\ StoreUsable(r)
                    /\ OriginAllowed(s)
                    /\ ~HeldByRun(r, s)
                 THEN "listing" ELSE "refused"]
    /\ older' = [older EXCEPT ![c] = {d \in Calls : Stored(d) /\ disk[d].key = s.key}]
    /\ UNCHANGED <<runs, byKey, mem, attempt, disk, world>>

\* The store is read for in-doubt receipts of the key; a directory that cannot be read
\* ends the call.
ListStore(c) ==
    /\ pc[c] = "listing"
    /\ \/ pc' = [pc EXCEPT ![c] = IF Blocking(c) # {} THEN "refused"
                                  ELSE IF StepOf(c).cas THEN "rereading" ELSE "opening"]
       \/ pc' = [pc EXCEPT ![c] = "threw"]
    /\ UNCHANGED <<runs, call, byKey, mem, attempt, disk, world, older>>

\* A workspace step compares its subject with what it was planned against.
Reread(c) ==
    /\ pc[c] = "rereading"
    /\ \E same \in BOOLEAN :
          pc' = [pc EXCEPT ![c] = IF same THEN "opening" ELSE "refused"]
    /\ UNCHANGED <<runs, call, byKey, mem, attempt, disk, world, older>>

\* The write-ahead receipt. `supersedes` is the run's flag, whatever the key.
NewReceipt(c) == [key |-> KeyOf(c), outcome |-> "attempting",
                  supersedes |-> runs[RunOf(c)].supersede]

\* append() resolves: the receipt is on disk, and from here on in memory.
OpenReceipt(c) ==
    /\ pc[c] = "opening"
    /\ disk' = [disk EXCEPT ![c] = NewReceipt(c)]
    /\ byKey' = [byKey EXCEPT ![RunOf(c)] = @ \cup {c}]
    /\ pc' = [pc EXCEPT ![c] = "acting"]
    /\ UNCHANGED <<runs, call, mem, attempt, world, older>>

\* The append throws. The file may be in place all the same: the rename comes
\* before the directory is synced. The call ends; nothing reaches memory.
OpenFails(c) ==
    /\ pc[c] = "opening"
    /\ \E landed \in BOOLEAN :
          disk' = IF landed THEN [disk EXCEPT ![c] = NewReceipt(c)] ELSE disk
    /\ pc' = [pc EXCEPT ![c] = "threw"]
    /\ UNCHANGED <<runs, call, byKey, mem, attempt, world, older>>

\* run(1): the world is touched, once.
Act(c) ==
    /\ pc[c] = "acting"
    /\ \E kind \in AttemptKinds :
          /\ attempt' = [attempt EXCEPT ![c] = kind]
          /\ \E fate \in Fates(StepOf(c), kind) :
                world' = [world EXCEPT ![c] = fate]
    /\ pc' = [pc EXCEPT ![c] = "settling"]
    /\ UNCHANGED <<runs, call, byKey, mem, disk, older>>

\* The outcome is decided in memory. A rejected settlement of an error escapes
\* runStep and leaves the store as it is.
Settle(c) ==
    LET outcome == SettledOutcome(StepOf(c), attempt[c]) IN
    /\ pc[c] = "settling"
    /\ IF outcome = "rejected"
       THEN /\ pc' = [pc EXCEPT ![c] = "threw"]
            /\ UNCHANGED mem
       ELSE /\ mem' = [mem EXCEPT ![c] = outcome]
            /\ pc' = [pc EXCEPT ![c] = IF outcome = "unknown" /\ StepOf(c).verify
                                       THEN "verifying" ELSE "finalizing"]
    /\ UNCHANGED <<runs, call, byKey, attempt, disk, world, older>>

\* verify() may promote unknown to applied, on evidence that the effect took
\* place; it may find nothing, and it may throw (or answer applied without
\* evidence), which escapes runStep.
Verify(c) ==
    /\ pc[c] = "verifying"
    /\ \/ /\ world[c] = "took"
          /\ mem' = [mem EXCEPT ![c] = "applied"]
          /\ pc' = [pc EXCEPT ![c] = "finalizing"]
       \/ /\ pc' = [pc EXCEPT ![c] = "finalizing"]
          /\ UNCHANGED mem
       \/ /\ pc' = [pc EXCEPT ![c] = "threw"]
          /\ UNCHANGED mem
    /\ UNCHANGED <<runs, call, byKey, attempt, disk, world, older>>

\* The receipt is written again with its outcome, and the call ends on it.
FinalizeReceipt(c) ==
    /\ pc[c] = "finalizing"
    /\ disk' = [disk EXCEPT ![c].outcome = mem[c]]
    /\ pc' = [pc EXCEPT ![c] = IF mem[c] = "applied" THEN "returned" ELSE "threw"]
    /\ UNCHANGED <<runs, call, byKey, mem, attempt, world, older>>

\* Seeded fault: the error of the second append is swallowed.
FinalizeSwallows(c) ==
    /\ pc[c] = "finalizing"
    /\ pc' = [pc EXCEPT ![c] = IF mem[c] = "applied" THEN "returned" ELSE "threw"]
    /\ UNCHANGED <<runs, call, byKey, mem, attempt, disk, world, older>>

\* The second append throws, after the rename or before it.
FinalizeFails(c) ==
    /\ pc[c] = "finalizing"
    /\ \E landed \in BOOLEAN :
          disk' = IF landed THEN [disk EXCEPT ![c].outcome = mem[c]] ELSE disk
    /\ pc' = [pc EXCEPT ![c] = "threw"]
    /\ UNCHANGED <<runs, call, byKey, mem, attempt, world, older>>

\* A run ends when nothing of it is left in flight.
EndRun(r) ==
    /\ runs[r].life = "live"
    /\ \A c \in Calls : InFlight(c) => RunOf(c) # r
    /\ runs' = [runs EXCEPT ![r].life = "gone"]
    /\ UNCHANGED <<call, pc, byKey, mem, attempt, disk, world, older>>

\* The process dies with calls in flight. Only the store survives.
CrashRun(r) ==
    /\ runs[r].life = "live"
    /\ \E c \in Calls : InFlight(c) /\ RunOf(c) = r
    /\ runs' = [runs EXCEPT ![r].life = "gone"]
    /\ pc' = [c \in Calls |-> IF InFlight(c) /\ RunOf(c) = r THEN "dead" ELSE pc[c]]
    /\ UNCHANGED <<call, byKey, mem, attempt, disk, world, older>>

\* One call, past its first await.
Advance(c) ==
    \/ ListStore(c)
    \/ Reread(c)
    \/ OpenReceipt(c)
    \/ OpenFails(c)
    \/ Act(c)
    \/ Settle(c)
    \/ Verify(c)
    \/ FinalizeReceipt(c)
    \/ FinalizeFails(c)

Next ==
    \/ \E c \in Calls : Advance(c)
    \/ \E c \in Calls, r \in Runs, s \in Steps : Begin(c, r, s)
    \/ \E r \in Runs : StartRun(r) \/ EndRun(r) \/ CrashRun(r)

Spec == Init /\ [][Next]_vars

--------------------------------------------------------------------------------
(***************************************************************************)
(* Properties.                                                              *)
(***************************************************************************)

Acted(c) == world[c] # "untouched"

\* No act without a receipt: whatever the run has done to a target, a receipt for
\* it is in the store, also when the process died in the middle of the act.
WriteAhead == \A c \in Calls : Acted(c) => Stored(c)

\* A definite receipt tells the truth about the world: `applied` only for an
\* effect that took place, `failed` only for one that did not. Everything else
\* stays in doubt, through timeouts, failing writes and crashes.
DefiniteIsTrue ==
    \A c \in Calls : Stored(c) =>
        /\ disk[c].outcome = "applied" => world[c] = "took"
        /\ disk[c].outcome = "failed" => world[c] = "spared"

\* A caller that got its value back has `applied` on disk behind it, and a refused
\* call left nothing there: a refusal that changed nothing does not lock a key.
ResultMatchesStore ==
    \A c \in Calls :
        /\ pc[c] = "returned" => Stored(c) /\ disk[c].outcome = "applied"
        /\ pc[c] = "refused" => ~Stored(c)

\* A mutating step runs at most once per key in a run, even after it failed, unless
\* two calls overlap: when a run has acted twice on a key, neither call began with the
\* receipt of the other in place.
RepeatsOverlap ==
    \A c, d \in Calls :
        (c # d /\ Acted(c) /\ Acted(d) /\ RunOf(c) = RunOf(d) /\ KeyOf(c) = KeyOf(d)) =>
            c \notin older[d] /\ d \notin older[c]

\* No blind repeat: when an act touches the world, every receipt of its key that was
\* there when its call began and is still in doubt is the one the operator of that very
\* run named.
NotBlind ==
    \A c \in Calls : (~Acted(c) /\ Acted(c)') =>
        \A d \in older[c] : IsInDoubt(d) => d = runs[RunOf(c)].supersede
NoBlindRepeat == [][NotBlind]_vars

\* The store only learns: a receipt never disappears, a settled one is never
\* rewritten (superseding it does not touch it), and only `attempting` is settled.
OnlyLearns ==
    \A c \in Calls : Stored(c) /\ disk'[c] # disk[c] =>
        /\ disk[c].outcome = "attempting"
        /\ \E o \in Settled : disk'[c] = [disk[c] EXCEPT !.outcome = o]
StoreOnlyLearns == [][OnlyLearns]_vars

(***************************************************************************)
(* The inductive invariant behind the safety properties, in named parts.    *)
(***************************************************************************)

\* Calls and runs agree on who is alive.
Lives ==
    /\ \A c \in Calls :
          /\ call[c] = None <=> pc[c] = "idle"
          /\ InFlight(c) => runs[RunOf(c)].life = "live"
    /\ ~Overlap => \A r, q \in Runs :
          (runs[r].life = "live" /\ runs[q].life = "live") => r = q

\* Where a call is suspended tells what it has left in the store and the world.
PhaseOf(c) ==
    /\ pc[c] \in {"idle", "listing", "rereading", "opening", "refused"} => ~Stored(c)
    /\ ~Stored(c) => ~Acted(c) /\ \A r \in Runs : c \notin byKey[r]
    /\ Stored(c) => disk[c].key = KeyOf(c)
    /\ pc[c] \in {"acting", "settling", "verifying", "finalizing"} =>
          /\ Stored(c) /\ disk[c].outcome = "attempting"
          /\ c \in byKey[RunOf(c)]
    /\ pc[c] = "acting" => ~Acted(c)
    /\ Acted(c) => c \in byKey[RunOf(c)]
    /\ (Stored(c) /\ c \notin byKey[RunOf(c)]) => pc[c] = "threw" /\ disk[c].outcome = "attempting"
    /\ pc[c] = "returned" => Stored(c) /\ disk[c].outcome = "applied"

Phases == \A c \in Calls : PhaseOf(c)

\* An honest step's outcome is true from the moment it is decided.
Truths ==
    \A c \in Calls : call[c] # None /\ Honest(StepOf(c)) =>
        /\ pc[c] = "settling" =>
              attempt[c] \in AttemptKinds /\ world[c] \in Fates(StepOf(c), attempt[c])
        /\ pc[c] = "finalizing" =>
              /\ mem[c] = "applied" => world[c] = "took"
              /\ mem[c] = "failed" => world[c] = "spared"
        /\ Stored(c) =>
              /\ disk[c].outcome = "applied" => world[c] = "took"
              /\ disk[c].outcome = "failed" => world[c] = "spared"

\* Only a run's own calls are in its memory; what it supersedes is not its own.
Claims ==
    \A r \in Runs :
        /\ \A c \in byKey[r] : call[c] # None /\ RunOf(c) = r
        /\ runs[r].supersede # None =>
              Stored(runs[r].supersede) /\ RunOf(runs[r].supersede) # r
        /\ runs[r].life = "unborn" => \A c \in Calls : call[c] # None => RunOf(c) # r

\* An older receipt of the call's own run is not held in memory: its call threw while
\* opening it, and it is in doubt for good. From the listing on there is none, and
\* every older receipt still in doubt is the superseded one.
Fresh ==
    \A c \in Calls : \A d \in older[c] :
        /\ Stored(d) /\ disk[d].key = KeyOf(c)
        /\ (pc[c] = "listing" /\ RunOf(d) = RunOf(c)) => pc[d] = "threw" /\ IsInDoubt(d)
        /\ (pc[c] \in {"rereading", "opening"} \/ Stored(c)) => RunOf(d) # RunOf(c)
        /\ (pc[c] \in {"rereading", "opening", "acting"} /\ IsInDoubt(d)) =>
              d = runs[RunOf(c)].supersede

\* Decided outcomes are outcomes: what is written last is a settled one.
Decided ==
    \A c \in Calls :
        /\ pc[c] = "settling" => attempt[c] \in AttemptKinds
        /\ pc[c] = "verifying" => mem[c] = "unknown"
        /\ pc[c] = "finalizing" => mem[c] \in Settled

IInv == Lives /\ Phases /\ Truths /\ Claims /\ Fresh /\ Decided

(***************************************************************************)
(* The interlock the ledger implements. The store is the interlock's record *)
(* and the run's flag its waiver; a call is asked for where it begins and   *)
(* recorded where its receipt is written, awaits later.                     *)
(***************************************************************************)
Asked  == [c \in Calls |-> IF call[c] = None THEN None ELSE [run |-> RunOf(c), key |-> KeyOf(c)]]
Status == [c \in Calls |->
    IF ~Stored(c) THEN "absent" ELSE IF IsInDoubt(c) THEN "doubt" ELSE disk[c].outcome]
Waiver  == [r \in Runs |-> runs[r].supersede]
Started == {r \in Runs : runs[r].life # "unborn"}

Interlock == INSTANCE EffectInterlock WITH
    Attempts <- Calls, asked <- Asked, before <- older, status <- Status,
    waiver <- Waiver, started <- Started

ImplementsInterlock == Interlock!Spec

================================================================================
