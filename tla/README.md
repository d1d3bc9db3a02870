# Verification of test-capabilities

TLA+ models of the parts of test-capabilities that must not be wrong: the ledger that decides
whether an act on a target may run, the operations that act through it (`surf flow`,
`surf apply`, `heal`), the two carriers their acts take to a browser, and the operations whose
answers others act on (`surf plan`, `surf explore` with its frame diagnosis, `test` with its
verdict and root causes). TLC checks them on small instances; TLAPS proves every safety property
and every refinement those runs check, for every value of the constants. Paths are relative to
`src/`.

`PROJECT.json` holds the same things for tools: the components, the runs with their
properties, seeded faults for each property, the source lines behind each definition, the
hazards, the findings and the theorems.

    tlasany M.tla                              parse
    tlc -workers 2 -config X.cfg M             check a run (module M as in PROJECT.json)
    tlapm MutationLedgerProofs.tla             check proofs

## 1. The system

test-capabilities is a TypeScript command line tool and library that runs tester agents
against a target, drives a browser through the external program `surf` (or over a DevTools
connection), and may change things: pages, browser sessions, and test files it heals.

    CLI / dispatch --> operation (test, surf plan|apply|flow|explore, heal, doctor ...)
                          |
                       RunContext -- config, run id, --supersede-receipt
                          |
                     MutationLedger.runStep  ------>  FileReceiptStore (files, shared by runs)
                          |
                     SurfSession.step  (one owned tab)          spawnStep (cli and fuzz agents)
                       |            \
             SessionTransport        CDP channel (DevTools, per frame)
               |          \
        surf --stdio     surf, one process per command

Everything inside a run is one Node event loop: an `await` is where other code of the run
may come in. Between runs nothing is shared but files: receipts and reservations.

### Components

| component | source | state it keeps | operations | what is hard | what makes it correct | module |
|---|---|---|---|---|---|---|
| mutation ledger | `src/core/effects.ts` | receipts by key in memory, attempt log | `runStep` (mutating, read-only), `receipts` | awaits between check and append, concurrent agents, timeouts, throwing settlements | what was on record in doubt is never repeated blindly; a definite receipt is true | MutationLedger, EffectInterlock |
| receipt store | `src/core/receipt-store.ts`, `artifacts.ts` | one JSON file per receipt, one per reservation | `append`, `list`, `reserve`, `reservation` | a write that throws after the rename; a store that cannot be read | written is durable or absent; a reservation has one winner | MutationLedger, FlowSubmit |
| run context | `src/core/run-context.ts` | settings of one run | `createRunContext` | what is refused before a store exists | one store and one ledger per run | MutationLedger (`StartRun`) |
| surf flow | `src/core/operations/surf-flow-operation.ts`, `surf-flow-submit.ts`, `flow-file.ts` | step index, status, `submitted` | checks, reserve, the step loop, cleanup | runs racing for one submit; death between claim and submit | one run submits, once per submit step | FlowSubmit, SubmitOnce |
| surf apply and its runner | `src/core/operations/surf-apply-operation.ts`, `surf-apply-runner.ts` | field index, documents seen | approval, fills with looks between, control wait, click, post-condition | the page moves on its own; two runs of one plan | clicked only after every field; stops when the page moves | ApplyGate, SubmitOnce |
| surf plan | `src/core/surf-plan*.ts`, `operations/surf-plan-operation.ts` | the plan file | probe a form, write a plan, drift check at apply | the page changes between review and apply; the file is edited | what is submitted is what was reviewed | SurfPlan |
| surf explore | `src/core/operations/surf-explore-operation.ts` | queue of pages, results, the tab | gate, probes with retries, links, observers, verdict | surf lost mid-page; a page that moves under a diagnosis | verified means visited; no tab left behind | Explore |
| surf session | `src/core/surf-session.ts`, `surf-session-interruption.ts`, `surf-session-command.ts` | owned tab, tail promise, interruption reason | `open`, `gate`, `step`, `inFrame`, `observe`, `close` | steps queued behind a loss; retries after it; closing without a tab | after a loss nothing more is handed on; a mutating step has one attempt | SurfTransport, SessionStep, Explore |
| surf --stdio transport | `src/core/surf-stdio.ts` | queue, command in flight, timers, promises | `run`, `close`, callbacks of the child | late, repeated, malformed replies; death with a full queue | refused means never ran; an answer is one's own | SurfStdio |
| spawned commands | `src/core/spawn-step.ts`, `surf-runtime.ts` | timers, capped output | `spawnStep`, `spawnStepSync`, `spawnLongLived` | budget timer against exit; grace and SIGKILL; descendants | one result per child; timed out means it outlived its budget; what may outlive the step is known | SpawnStep |
| surf adapter, browser carriers | `src/core/surf-adapter.ts`, `surf-args.ts`, `surf-readiness.ts`, `browser-session.ts`, `adapter.ts`, `cli-adapter.ts` | none | argv, effect map, reply to result, settlement, fallback | a reply rejected after the act; a verb declared less than it is | only a refusal is `failed` | SessionStep (effect map), SurfTransport (fallback), ApplyGate (settlement) |
| CDP channel | `src/core/cdp-*.ts`, `shadow-path.ts` | pins of target, frame and document, dialogs, one socket | bind, lookup, click, fill, key, select, script, close | document replaced between look and act; dialog during an act; lost answers | a definite refusal sent no input; input strays only in the last window | CdpStep; ApplyGate, FlowSubmit as used |
| accessibility snapshots | `src/core/a11y-*.ts` | none across calls | read the tree, diff, assert | none of its own | a required snapshot fails its page | Explore (its outcome) |
| frame diagnosis | `src/core/frame-*.ts` | a cache per session | classify what the inventories and probes saw | three partial inventories; the page moves between reads | `excluded` and `confirmed` only with evidence | FrameDiagnosis, Explore |
| result classification | `src/core/result-classification.ts`, `result-payload.ts`, `determination.ts` | none | raw result to outcome, outcomes to verdict | precedence of many rules | never success without evidence | TestVerdict |
| test orchestrator and agents | `src/core/orchestrator.ts`, `operations/test/*.ts`, `test-operation.ts` | agents, findings | run agents under one `Promise.all`, correlate, conclude | one agent fails, hangs or is missing its target; generic texts agree by accident | fail closed; a cause needs two agents | TestRun, RootCause |
| bombadil runtime | `src/core/bombadil-runtime.ts` | none | run the web and terminal fuzzers | exit status, trace and violations disagree | a status for every combination | TestRun |
| self-healing, heal apply | `src/healing/self-healing.ts`, `operations/heal-operation.ts` | originals, updates, receipts by file | analyse, verify, apply, compensate | file n fails after n-1 landed; an in-doubt write; the operator edits meanwhile | restores only what definitely landed; rewrites only what is licensed | HealAnalysis, HealApply |
| operation kernel, dispatch | `src/core/operations/dispatch*.ts`, `config*.ts`, `error-codes.ts`, `support.ts` | none | route, validate, merge configuration | none | sequential | not modelled |
| doctor, init, demo, replacement validation | `src/core/operations/*`, `replacement-validation.ts` | none | sequential I/O around one file or child | none of their own | - | not modelled |
| quantum simulator, prediction engine | `src/quantum`, `src/prediction` | numbers | parked by the project's own documents | none | - | not modelled |
| command line, scripts and gates | `bin/test-capabilities`, `scripts/` | none | entry point and repository tooling | none | - | not modelled |

## 2. The modules

    EffectInterlock      abstract: ask -> record in doubt -> act at most once -> settle truthfully
       ^ implemented by
    MutationLedger       runStep over a shared store, any number of runs that crash
       ^ extended by
       |- MutationLedgerProofs
       |- FlowSubmit     surf flow          --- implements --->  SubmitOnce   (abstract)
       |     ^ FlowSubmitProofs
       |- ApplyGate      surf apply         --- implements --->  SubmitOnce
       |     ^ ApplyGateProofs
       |- HealApply      heal               extends HealAnalysis (which selectors, pure)
             ^ HealApplyProofs

    SurfStdio            the --stdio child and the object that talks to it
       ^ extended by
    SurfTransport        a session's steps over it    extends SessionStep (which steps, pure)
       ^ SurfTransportProofs (of both)

    CdpStep              a session's steps over the DevTools connection
       ^ CdpStepProofs

    SurfPlan             plan, review, edits, drift check
    Explore              pages, tabs, probes          extends FrameDiagnosis (pure)
       ^ SurfPageProofs (of both: the operations that only read a page)

    TestRun              agents, children, verdict    extends SpawnStep (child processes)
       ^ TestRunProofs                                and RootCause, TestVerdict (pure)

Each has an `MC...` module that gives its constants their values, but for `SurfStdio`, which is
checked directly.

A definition marked *Seeded fault* is a plausible bug in the definition after it. It is in
no next-state relation: it is there to show, substituted, that a property would notice.

### MutationLedger and EffectInterlock

A *run* is one RunContext and its process; a *call* is one `runStep` of a mutating step. A
call opens at most one receipt under a fresh random id, so a receipt is named by its call.
`pc[c]` is the await call `c` is suspended at. `byKey` and `mem` are a run's memory and mean
nothing after it; `disk` is the store; `world` is a history variable: what the act did, which
no process ever knows. The order of `runStep` is kept: declaration, store, origin, keys of
this run (all in `Begin`, before the first await), `ListStore` (which may throw), `Reread`
(compare and swap), `OpenReceipt`, `Act`, `Settle`, `Verify`, `FinalizeReceipt`. Both appends
may throw with the file in place or not (`OpenFails`, `FinalizeFails`), since the rename
precedes the directory fsync. `CrashRun` kills a run with calls in flight.

A step is a record of what the ledger reads of it. `settle` says what each ending of `run()`
settles as; `inspects` marks a step whose `run()` reads the reply *after* the act and may
throw on it. `Honest` steps are those that say `failed` only of what did not happen.

Nothing keeps a run from beginning a key it has in flight: `Begin` looks the key up in memory,
where only `OpenReceipt` puts it, awaits later. `older[c]` is a history variable: the receipts of
its key there were when call `c` began. Two calls that overlap, of one run or of two, may miss
each other; nothing older is missed.

EffectInterlock makes the same promise with no process in sight. A run starts with one waiver at
most, for an attempt on record; an attempt is asked for, and recorded only if of the attempts on
its key that were on record *then* none is of its own run and none in doubt but the waived one.
The refinement maps a receipt on disk to its status, `--supersede-receipt` to the waiver and
`older` to what was on record; the awaits of a call before it has a receipt are stutters.

### FlowSubmit and SubmitOnce

Extends the ledger: call `<<r, i>>` is step `i` of the flow in run `r`, and the ledger's
actions are taken as they are (`LedgerMoves`), with the flow's loop around them. `claim` is
the reservation file: an exclusive create decides it, and a write that throws after the
create leaves it in place with nothing submitted. The two checks and the reservation may each
fail on a store that cannot be read. `Overlap` is always TRUE here. SubmitOnce is the promise:
one run takes ownership for good, and performs each submit act at most once.

### ApplyGate

The same composition for a plan: fields in order, then one click. `page` and `holds` are the tab:
`PageActs` lets it leave the reviewed document, come back, or undo a field at any moment. Each look
(fingerprint, read-back, observation, last look, control wait) is an action of its own, and so is
each act, so the page may move between a look and the act it licenses. Over the DevTools channel an
act first finds the document of its element to be one the plan names (`GuardAct`), or sends no
input; the input is a step of its own, so the page may move in between. Over surf an act is carried
out wherever the tab is. `strays` counts the acts since the page left. When a process ends, its
in-memory state is cleared (`Forget`): nothing reads it again.

### HealAnalysis and HealApply

HealAnalysis is the pure half: which selectors look stale, which a finding speaks of, which a
frame determination puts out of reach (`Permission`), which need a caveat. HealApply is the
operation: proposals from a scan or from a reviewed artifact (`Analyze`), the refusals, the
originals, and then the loop, in which `<<r, "heal", f>>` is a call of the ledger whose act
rewrites file `f` and whose post-read verifies it. When one file fails, the files that landed
are restored through calls `<<r, "restore", f>>`; a restore that fails does not stop the
others. `Edit` is the operator, who may save a file at any moment: a scan's write is
conditional on the bytes it read, an artifact's is not, and no restore is.

### SurfStdio

The fields of the class are the record `io`; each method is a function from that record to
the next and each callback one action. A chunk of stdout is read line by line (`reading`),
which matters: `send()` runs only after the last line of a chunk, and nothing else of the
process runs within it. The child is external: it takes requests in order, carries one
out or refuses it, loses a result, stays silent, dies anywhere, and may write up to
`MaxNoise` lines nobody asked for: malformed ones, a second `ready`, an old answer again.

### SessionStep and SurfTransport

SessionStep says which requests a session takes on and with how many attempts: the effect map, what
a caller may declare, which verbs carry the tab, the denylist of scripts called read-only. In
SurfTransport a caller asks for one of its `Wants`, and only an accepted one is enqueued; a command
is an *attempt* of a step, `<<step, attempt>>`. `tail` is the promise chain of SessionTransport:
only its head is at the transport. `Start` refuses on an interrupted session, else asks the child,
or spawns a surf of its own when this surf has no `--stdio` (`hasStdio`, chosen initially).
`Fallback` runs a refused command in a process of its own if the session still has authority.
`CallStep` checks and hands a step to the ledger; `Join` chains it, after the ledger's awaits, in
which the session may be interrupted or closed. `Deliver` interrupts the session for a lost result
or a missing tab *before* the step hears of it; `Conclude` is the read-only retry with the
interruption's guard.

### CdpStep

One action per call that the transport awaits: connect and prove the tab (`OpenTarget`,
`ProveTab`), pin the frame, wait for the element, check its document and the flow's gate, each
input event (`Press`, `Release`, `Focus`, `InsertText`, `SendKey`, `Choose`, `Evaluate`), judge
what came back, and `SettleAct` and `Conclude`, which turn what was raised on the way into
`applied`, a definite refusal, an unknown outcome or a dialog. Between any two of them the page
navigates (`Navigate`), loses or gains frames, or runs a handler that moves focus or makes a
control form-level; a dialog opens, or the connection is lost. Any call may lose its answer
with or without having taken effect. One connection carries several steps.

### FrameDiagnosis and Explore

FrameDiagnosis is the pure half: a page is a sequence of frames with what each inventory would
say of it (the DOM, the extension, the DevTools frame tree), `FrameCandidates` lists the
visible frames that a main-page selector does not reach, up to the cap, and
`DetermineFrameRootCause` is the answer from hint and readings.
Which frame holds the selector is known to the page alone. Explore takes pages from its queue,
each in a tab of its own: gate, state, dom and links probes with their retries, observers,
close. A gate that cannot reach its selector is diagnosed before the tab closes, over DevTools
or by switching the tab into one frame after another. The page may navigate at any moment and
surf may be lost at any moment.

### SurfPlan

`ReadForm` probes a form and `WritePlan` writes what was found: locators, the form, the submit
control and how it was identified (`DecideSubmit`), the fingerprint, the token. `EditPlan` is a
hand on the file: another value, field, control, status or landing, the fingerprint or its digests
retaken of the page as it is now, each with a token that fits or not; `StartApply` checks schema,
origins and token, and `CheckDrift` probes again. `PageChanges` may come at any point. What follows
in apply is ApplyGate's.

### SpawnStep, TestVerdict, RootCause and TestRun

SpawnStep has children on the one loop of the parent: `RunTimers` and `Poll` alternate, because
Node runs due timers before it looks at the operating system; the clock and the children move
whenever they like. A command may leave descendants behind: one that holds its output, in its group
or out of it, which its close waits for, and one in the group with an output of its own, which
nothing waits for (`kin`); the SIGKILL ends all but those that left the group. `Poll` resolves a
step on its close and takes the SIGKILL's timer back. TestVerdict has the classifier and the
determination, RootCause the correlation, the causes and the propagation hints, as operators over
recorded facts. TestRun composes them: agents concurrently, each with its child, `Report` when all
have returned. The nested `surf explore` of a surf agent is its result (`SurfReturns`).

## 3. What is checked

Twelve runs: ten pass, two exhibit a disagreement with a document. Times are for two workers.

| run | bounds | question |
|---|---|---|
| LedgerShared (40 s) | 2 overlapping runs, 3 calls, which may all be of one run and key; a conditional write that is read again, a click on a foreign origin; symmetric | is what was on record in doubt ever repeated blindly, and when can one run act twice on a key? (`RepeatsOverlap`, `NoBlindRepeat`, `ImplementsInterlock`) |
| FlowSubmits (1 min 30 s) | 2 overlapping runs; a read, an act, two submits | can a run that lost the race still submit, is a definite receipt true, does every run end? (`GateClosedForGood`, `ImplementsSubmitOnce`, `DefiniteIsTrue`, `ResultMatchesStore`, `RunsEnd`) |
| ApplyFill (1 min) | 2 runs in sequence; a text field, a check box, a click; symmetric | what is clicked and when, how often, how far can acts stray? (`ClickAfterFill`, `OneStrayAct`, `ImplementsSubmitOnce`) |
| HealFiles (1 min 30 s) | 1 run, 3 files, 1 edit of the operator; symmetric | what is left when a heal fails, what may a restore touch, whose edits can be lost? (`LeftoversAreNamed`, `RestoreAfterDefinite`, `LicensedRewrites`, `EditsLostInWindow`) |
| StdioQueue (10 s) | 2 commands, 2 lines of noise | which command ran, whose answer is whose, is every caller answered? (`RefusedNeverRan`, `AnswerIsOwn`, `EveryCallAnswered`) |
| SessionLoss (2 min 20 s) | open, close, a read tried at most twice, a click declared honestly or as a read; no noise | is anything run twice or after a loss, does every step end, is the child left behind? (`AtMostOnce`, `InterruptedIsUnsent`, `LossIsFinal`, `StepsEnd`, `ClosedLeavesNoChild`) |
| CdpActs (1 min) | 2 steps, 2 moves of the page, 1 dialog | what has an act done when it answers, and where? (`DefiniteIsUnsent`, `AppliedIsWhole`, `StrayOnlyInWindow`, `UndeclaredNeverSubmits`, `ScriptOnce`) |
| ExplorePages (2 min) | 3 URLs, depth 2, 2 pages at most, 2 frames of every kind, 3 where that is above the cap, 1 move per visit; symmetric | is a diagnosis or a coverage ever claimed that was not seen? (`ExcludedIsRight`, `ConfirmedIsOne`, `VerifiedIsVisited`, `TabsAreClosed`) |
| PlanForms (1 min 20 s) | 3 elements, 1 change of the page, 1 edit of the file | what of a submit is as it was reviewed, and is an unchanged page refused? (`SubmitIsReviewed`, `ActsWhereAllowed`, `UnchangedPasses`) |
| TestVerdicts (3 min) | a cli agent whose command may leave two descendants, a web fuzzer that may leave one out of its group, and a surf agent; 4 texts | does a run pass, end and name causes only as it should, and what goes on after it? (`VerifiedIsEarned`, `RootCauseIsAgreed`, `TimedOutOutlived`, `OnlyQuietOutlive`, `RunReports`) |
| ApplyRace | 2 overlapping runs, one field | section 6 |
| ExploreCrowded | 3 visible frames, a cap of 2 | section 6 |

Why these bounds reach the cases. *Ledger*: a blind repeat takes one receipt in doubt and one later
call; a third call lets a superseded receipt, its superseder and a later attempt coexist, or two
overlapping calls of a run and one after them. No property relates more than two calls.
The submits, which settle `unknown`, are FlowSubmits' and ApplyFill's. *Flow*: two runs make every race for one claim, and a second
submit covers the branch that skips the reservation. *Apply*: two fields separate "after each
field" from "after the last one", and a toggle covers the branch that needs no act. *Heal*: with
three files one may have landed, one be in doubt or fail, and one be untouched; one edit is enough
to be lost. *Stdio*: one command in flight and one waiting are the two situations a command can be
in when the session ends; two noise lines let a malformed line follow a repeated answer. *Session*:
two concurrent steps, one with a retry, put one command behind another that is lost, and the retry
after the loss; the child's noise is left to StdioQueue. *CDP*: a second step meets what a first
one left (its pins, its lost connection); two moves let a page leave and another frame take its
URL, and one dialog can open at any call. *Explore*: the second page makes the limit cut links, two
frames are what an ambiguity takes, and a third one exceeds the `MaxCandidates` of these runs (10
in the code). *Plan*: a field, its submit and one rival. *Test*: an agent of each kind of result;
two texts that agree, one that does not, one with a frame in question. No run needs a state
constraint: `MaxNoise`, `MaxEdits`, `MaxMoves`, `MaxDialogs`, `MaxChanges` and the sizes of the
constant sets are the only bounds.

Symmetry is used only where no liveness is checked and the constants are symmetric; in
ExplorePages the two linked URLs may be exchanged because at most one link is ever queued.
Deadlock is checked in CdpActs and ExplorePages, whose only end is an explicit one; the other
systems may stop with all their runs over.

### Properties worth a word

- `NoBlindRepeat`: *when* an act touches the world, every receipt of its key that was on record
  when its call began, and is still in doubt, is the one its operator named. It says nothing of
  receipts that came up later: the code has no lock, between processes or within one.
- `RepeatsOverlap` says the same of one run's own acts, definite ones included: two acts on a key
  take two calls that overlap.
- `DefiniteIsTrue` relates the receipt to the history of the world, through timeouts,
  failing writes and crashes. `verify()` is taken to promote only on a real effect; a text
  post-condition that already held before the click would break it.
- `ResultMatchesStore`: a refusal leaves nothing on disk, so it does not lock its key.
- `GateClosedForGood`: two checks of the store precede the tab, and a submit may land between
  them; what is true at the second is that no submit has left anything.
- `OneStrayAct`: a look and the act after it are not one step, over surf or over DevTools, so one
  act may miss the reviewed page, and one only: the next look stops the run, or the page is back.
- `LeftoversAreNamed`, `RestoreAfterDefinite`: all or nothing as far as the run can know. The
  file in doubt is not restored, and a restore that fails costs no other file its own.
- `EditsLostInWindow`: the write of a scanned proposal carries a hash, so it overwrites an edit
  of the operator only if that came between the write's own check and its rename. Of a write
  from an artifact and of a restore, which have no precondition, nothing of the kind holds.
- `RefusedNeverRan` licenses the fallback: what the child's object refuses is out of the
  child's reach for good, not just unanswered.
- `AtMostOnce` joins both halves of the session: a step that may change its page has one attempt
  carried out at most, *whatever its caller declared it to be*, through retries, a fallback and
  a loss.
- `LossIsFinal`: from the moment a loss is *answered*, before anybody has acted on it, no
  command is handed to anyone, those queued earlier included.
- `DefiniteIsUnsent` is what the ledger's `failed` rests on over DevTools; `StrayOnlyInWindow`
  says how far short of atomic an act is: input reaches another document or element only if the
  page moved after this step's last check.
- `ExcludedIsRight`: `excluded` is the one determination that lets a selector be rewritten.
- `VerifiedIsVisited`: coverage is claimed only of pages that were scheduled, opened in a tab
  of their own and read by every probe.
- `SubmitIsReviewed` relates the plan that is carried out, and the page it meets, to what the
  operator read, through a change of the page and an edit of the file. Selectors, values and the
  control's selector are as reviewed, always: the token binds them. That the elements behind them
  are those reviewed is the fingerprint's doing, which the token does not bind: it holds while the
  file's digests (form count, field and control signature) are the reviewed ones, and TLC refutes
  it without that condition (section 6). `UnchangedPasses` is its converse.
- `ActsWhereAllowed` is about the drift check, not the moment of typing.
- `TimedOutOutlived`: what the deferred turn in `spawn-step.ts` is for.
- `OnlyQuietOutlive`: what a verdict waits for, and what it does not: a member of a command's group
  with an output of its own may go on, but not where the group was sent its SIGKILL.
- `RunReports` has one condition: a process that left its group and never lets go of the
  output holds the run up, since no signal reaches it and the close waits for it.
- `RootCauseIsAgreed`: a cause is named only where two agents speak for it independently.
- `HintsDoNotChain` (an ASSUME that TLC evaluates with TestVerdicts, over all causes of three
  components): no hint explains what another hint explains away, unless both are time-outs.

### Fairness

`Spec` of each module has none. The fair specifications (`FlowFairSpec`, `StdioFairSpec`,
`SessionFairSpec`, `TestFairSpec`) assume weak fairness of what the runtime owes: a settled promise
runs its continuation; the ledger's reads and writes return; every await of an operation or of a
ledger call is bounded by a timeout in the code (session commands 90 s, control wait,
post-condition, spawn budgets); the loop turns and armed timers fire; time passes; a readable pipe
is read; an exit is reported; a child that was sent SIGKILL, or is being closed (whose timers end
in signals), dies, and with it its group; nobody who left the group owes an end; an agent whose
child is over returns. Nobody is obliged to start a run or step or to close a session; a child owes
neither `ready`, nor an answer, nor an exit on SIGTERM. No strong fairness is used. `RunsEnd`,
`EveryCallAnswered`, `StepsEnd`, `ClosedLeavesNoChild` and `RunReports` hold under it.

## 4. What is proved

Eight modules hold the proofs: for any sets of runs, calls, steps, commands, agents, pages, files
and plans that satisfy the named assumptions of the models, and without the bounds of the runs.
Each safety property and action property of a passing run is a theorem about the same
specification (that of `P` is `PHolds`), and so is each refinement. A hypothesis beside the
assumptions of a model is named here where there is one.

**MutationLedgerProofs.** `IInv` is the inductive invariant. `TypeOK` and the safety properties
are not inductive: that an act has a receipt depends on where its call is suspended, that a
receipt is true depends on a settlement decided in memory two awaits earlier, and that nothing
on record is repeated blindly depends on what its listing saw. So it has six parts:

- `Lives`: calls and runs agree on who is alive, and without overlap one run is;
- `Phases`: where a call is suspended tells what it left on disk, in memory and in the world; a
  receipt that its run does not hold in memory is in doubt for good;
- `Truths`: an honest step's outcome is true from the moment it is decided;
- `Claims`: a run holds only its own calls, and supersedes none of them;
- `Fresh`: from the listing on, no older receipt is of the call's own run, and none is in doubt but
  the superseded one;
- `Decided`: what will be written last is an outcome.

`InitEstablishes`, one lemma per part with one step per action, and `Inductive` tie them.
From it:

| theorem | holds | needs |
|---|---|---|
| `TypeCorrect`, `WriteAheadHolds`, `ResultMatchesStoreHolds`, `RepeatsOverlapHolds`, `NoBlindRepeatHolds`, `StoreOnlyLearnsHolds` | always, runs and calls overlapping and crashing | - |
| `DefiniteIsTrueHolds` | a definite receipt is true | every step is `Honest` |
| `InterlockHolds` | `Spec => ImplementsInterlock` | every step is `Honest` |

The hypothesis is real: a reply that is rejected after the act settles `failed` (section 6).

**FlowSubmitProofs.** Each flow step is a ledger step or a ledger stutter (`FlowStepsLedger`),
so the ledger's invariant carries over; `ClaimInv` adds that whoever is at a submit, or was,
holds the claim, and that a claim is of a run meant to submit this content. From it
`FlowTypeCorrect`, `ClaimHolds`, `OneRunSubmitsHolds`, `SubmitIsClaimedHolds` and
`FlowImplementsSubmitOnce`: over all runs there will ever be, overlapping or dead, one at most
submits, each submit once. `FlowImplementsLedger` carries the ledger's theorems over, two of
them by name: `FlowResultMatchesStoreHolds`, and `FlowDefiniteIsTrueHolds` for flows of honest
steps. `GateClosedForGoodHolds` is the action property: a receipt that the listing missed was
made under a claim that the second check then sees.

**ApplyGateProofs.** `ApplyInv`, beside the ledger's: a call in flight is the one its run is at
(`OwnInv`), the place and index of a run say which calls it has begun (`BegunInv`) and which
fields are set or held (`FilledInv`), what it was approved for (`IntentInv`), that an act that
strayed is the last before the page is looked at (`StrayInv`), and, without overlap, that a run
with a submit receipt is the only one past the check (`GateInv`). `ClickAfterFill` needs
`FilledInv` because a field may be undone between its read-back and the click. `OneStrayAct`
needs the place, since what stops a second stray act is the observation after the first.
`PlanSubmittedOnceHolds` and `ApplyImplementsSubmitOnce` need `~Overlap`, which run ApplyRace
shows to be necessary. `ApplyImplementsLedger` makes every theorem of the ledger hold of apply.

**HealApplyProofs.** `HealInv`: one call of a run at a time, of a planned file, in a stage that
works (`StageInv`); a restore only of a rewrite that returned `applied`, none left out when the
run reports failure (`UndoInv`); what is planned was proposed and is behind no caveat
(`PlanInv`); and, without overlap, an edit that the originals do not hold was saved after the
write's own re-read (`EditInv`). From it `RestoreAfterDefiniteHolds`, `LeftoversAreNamedHolds`,
`LicensedRewritesHolds`, `HealImplementsLedger`, `HealDefiniteIsTrueHolds` (the steps a heal
builds are honest, so no hypothesis is left), and `EditsLostInWindowHolds`, which needs
`~Overlap`: another run's rewrite between listing and write would pass for the operator's.

**SurfTransportProofs.** `StdioInv` relates the record of the class to both pipes: the queue
and the command in flight are pending and apart (`FieldsInv`), the child has one request at a
time (`HandInv`), no reply on its way names a request the child still has, and of those to the
one in flight the *first* is true (`LinesInv`; a child that babbles may repeat it), and what was
carried out is what the answers say (`RanInv`). Its parameter is the set of commands given a
process of their own, so that the session reuses it. A chunk of stdout is a fold of `Receive`,
so the invariant is kept line by line. From it `RefusedNeverRanHolds` and `AnswerIsOwnHolds`.
`SessionInv` adds the chain: each step in it once, by its current attempt, only its head asked
(`TailInv`), what was asked of which attempt (`PlaceInv`), and what a step accepted (`StepInv`).
From it `AtMostOnceHolds`, `InterruptedIsUnsentHolds`, `LossIsFinalHolds`.

**CdpStepProofs.** `CdpInv`: the phase tells the kind of step (`PhaseInv`), what was sent by
then and with which codes it may be answered (`SentInv`), how often a script ran (`RunsInv`),
which tab and frame it is in (`WhereInv`), what the last check still vouches for (`WindowInv`)
and when the submit guard is armed (`GateInv`). From it the five properties of run CdpActs, for
any number of steps, moves of the page and dialogs. One lemma per conjunct; the steps of the
page keep them because a window remembers the phases in which the page moved.

**SurfPageProofs.** *Plan*: `PlanInv` says that the plan that was reviewed is what was built of the
page that was read, which gates the file has passed where a run may act, and what the drift check
found. Of what an edit keeps it says nothing: whatever is in the file, the gates are what ties it to
the reviewed plan. No proof looks into `Edits`. From it
`ActsWhereAllowedHolds`, `SubmitIsReviewedHolds`, `UnchangedPassesHolds`. *Explore*: `ExploreInv`
has the types; `RunInv`: each scheduled URL is in one place (results, hand or queue) within the
page limit; `TabInv`: what the page in hand answered; `TabsInv`; and `DiagInv`: the topology is
that of the frames listed, the readings are of the candidates and true while the page stands still,
the verdict is the function of both. `TabsAreClosedHolds`, `VerifiedIsVisitedHolds`,
`ExcludedIsRightHolds` and `ConfirmedIsOneHolds` follow. The assumption `MaxPages <= 66` is needed:
coverage is rounded, so that from 67 pages of three probes on one probe that failed would still
round to 100; the code's limit is 10.

**TestRunProofs.** `TestInv` says of each child what its timers tell of its tree and its budget
(`ChildInv`: a budget that ran out with nothing open leaves a closed child before the turn that
would signal it), of each agent that its report is a function of how its child ended
(`AgentInv`), and of the verdict that it is the determination of all reports. From it
`TimedOutOutlivedHolds`, `OnlyQuietOutliveHolds`, `VerifiedIsEarnedHolds` (a blocking finding
survives correlation) and `RootCauseIsAgreedHolds`, for any texts whatever: an agent has one
finding at most (`ReturnedFinding`), so that what it says alone is what its two evidence units
say, and each agent that found something has its units among those that must agree.

The assumptions are those the code or the model's own encoding justifies: constants that stand
for nothing differ from the values beside them (`NoneAssumption` and the like, since a call that
answered nothing is told apart by it), sets that a run enumerates are finite, a step, plan,
option or page has the shape its type says, and the sensor of the orchestrator's own findings,
`orchestrator`, is not the name of an agent (`AgentsAssumption`). TLC evaluates each of them.

### What proving changed in the models

- Explore: links are queued in any order that the page may list them in (`Orders`), not in one
  fixed by the model, and coverage is counted without division. The candidates of a diagnosis
  are listed by rank and cut (`FrameCandidates`), as the code does; the property of a
  confirmation then holds only of the listed frames, which led to run ExploreCrowded.
- SurfTransport: `End` and `Again` take the head of the chain away, as a promise chain does,
  rather than a command wherever it is; `MayChange` counts what a script signals only for the
  verbs that run one.
- Assumptions the proofs rest on and the models had left unsaid: a constant for "nothing" is
  none of the values beside it, every step has a first attempt, nodes are finite.
- SurfPlan, MutationLedger: what an edit keeps, or a run does not begin, is no part of an invariant;
  the proofs of both rest on what the code checks.
- Elsewhere definitions were restated without changing what they say: cases one by one where
  the code has a chain of returns (CdpStep, SurfPlan, HealAnalysis, TestVerdict), pages and
  expectations given a type.

### What is only model-checked

The liveness properties `RunsEnd`, `EveryCallAnswered`, `StepsEnd`, `ClosedLeavesNoChild` and
`RunReports`: the prover handles neither liveness under fairness nor ENABLED. `HintsDoNotChain`,
an ASSUME over three components. It cannot instantiate induction theorems with operator
parameters either, so what a recursive definition computes for all inputs is out of reach; no
module with a theorem reaches a recursive operator.

## 5. Simplifications

- *Data*: keys, receipts, flow steps, documents and lines are identities. Parsing, hashing,
  how a selector is found or derived, hrefs, argv, wording and file layout are left out.
- *Receipts*: `list` returns what is on disk, or throws. A damaged file is not modelled: one whose
  JSON does not parse is skipped by `listJsonArtifacts`, a mis-shaped one is read as `unknown`.
- *One store*: all runs of a model share a receipts directory; in the code it depends on the
  working directory, `--config`, `--dir` and the environment (`run-context.ts:176-195`).
- *A new run directory* is not itself synced to its parent (`artifacts.ts:120-137`), so a power
  loss may lose a receipt that `append` reported; crashes here are of the process, not of the
  machine.
- *`supersedes`* is stamped on every receipt of the run that names one, whatever its key, as
  the code does.
- *surf*: the child refuses only what it did not run, and answers `done` also for a definite
  failure of the command. `ref()`/`unref()` only keep the event loop alive.
- *Session*: what the ledger refuses between `CallStep` and `Join` is MutationLedger's; `close()`
  marks the session closed and gives up its tab in one action, though it awaits its observers in
  between. Frame steps go over DevTools and are CdpStep's; gate, frame context and observers
  are Explore's. The denylist of scripts called read-only is a fence, not a proof: `ScriptHonest`
  says what it stops.
- *Apply and flow*: opening a session and the DevTools connection are one action that may fail;
  an act over DevTools is one guard and one input here, CdpStep has its calls.
- *Heal*: one selector matters per file; findings that share one or an empty id, and the
  test-id strategy's no-op proposal for a stale part inside a test id, are left out. The
  in-memory verification of a dry run changes nothing and is not modelled.
- *CDP*: check and uncheck, file inputs, hover, double clicks, lookup by role and name, and
  modifiers are not modelled; the proof of the tab, skipped when none is owned, is always made;
  a frame re-read for its URL is taken as at lookup.
- *Explore*: the cache of diagnoses is asked once per session; every blank `<iframe>` is taken
  to appear among the extension's frames too.
- *Plan*: forms of the top document only; a selector stands as the id it rests on, `name` for
  label and name locators; `disabled`, the role of a field and closed shadow roots are left out.
- *Spawn*: what a descendant writes is not told apart from what its command writes; it ends when it
  likes (`KinEnds`), of a SIGTERM or not, unless the SIGKILL ends it.
- *Test*: the ledger is seen as it looks from an agent (refuses before, returns, or throws
  after). A turn of the loop takes no time of its own; predictions, hooks and the simulator are
  not modelled. The default api edge is kept, though nothing produces an api component.

## 6. Disagreements with the documents

Two are runs that TLC must find violated:

- **ApplyRace** - `PlanSubmittedOnce`. README line 98: a submitted plan is never submitted
  twice. The check and the click are not one step and, unlike `surf flow`, nothing is reserved.
  Without overlap it holds (`PlanSubmittedOnceHolds`).
- **ExploreCrowded** - `ConfirmedIsSole`.
  `docs/project/2026-09-23-frame-probe-greats-adjudication.md` line 114: a hit in one frame proves
  uniqueness only if every candidate answered. The candidates are cut to ten
  (`frame-topology.ts:441`), a cap on evidence by its comment (line 170), and the decision is taken
  on the cut list: on a page with more frames one hit confirms, though an unlisted frame may hold
  the selector too. `ConfirmedIsOne` speaks of the listed frames.

Others were met while modelling; the models follow the code, and no run is spent on them.

- `--supersede-receipt` is called the line that resolves a refusal (README line 150). The ledger
  drops only the receipt the *present* run names (`effects.ts:459`): the superseded one stays
  in doubt, and the next run without the flag is refused for it again.
- `effects.ts:95`: a resolved value may never settle as failed. A settlement that does so throws
  inside the `try`, and the `catch` settles that error, a definite one, as `failed`
  (`effects.ts:612`).
- `surf-adapter.ts:394`: only a definite refusal from surf is `failed`. A `read()` that rejects
  the reply of an act that was carried out throws without a basis, which settles `failed` (417).
- `docs/api/cli.md:306`: a fill dry run never blocks the submit of its own plan. A field left in
  doubt by a dry run has the key of the submitting run's field (`surf-session.ts:671`), and
  `surf apply` has no `--supersede-receipt`.
- `self-healing.ts:571` calls the file hash the precondition of a write. `HealingProposalSchema`
  (`heal-operation.ts:96`) strips it, so a write from `--proposal-input` has none.
- `determination.ts:28` has `failed` for a run with evidence that the target is broken, and
  `agents.ts:236` says that a refusal is never a claim about the target. A finding without an
  outcome, such as that of a fuzz run that never reported, blocks too
  (`orchestrator.ts:855-861`), so the run is `failed`.
- `spawn-step.ts:130`: `timedOut` means that a live process tree was killed. It is set when the
  signal is sent, which the tree may have forestalled; what holds is that it, or a process that
  held its output, outlived its budget.
- `spawn-step.ts:11` promises SIGTERM to the whole group and SIGKILL after a grace period. The
  close of the leader takes the SIGKILL's timer back (146-167): a member of the group with an
  output of its own that ignores the SIGTERM survives the step. `OnlyQuietOutlive` says what does
  not.
- `effects.ts:453`, a message: "A mutating step runs at most once per key". Two calls of one run
  that overlap both pass the look-up (449) before either is held (605) and both act. No operation
  makes such calls, since agents carry their own name in the step id and take one step after
  another; nothing in the ledger asks that of them.
- `surf-plan.ts:10`: "an edited plan no longer matches the approval". The token covers the origin,
  frame, selectors and values only (`approvalTokenContent`, 172-198). A file whose `form_count`,
  `field_signature` and `control_signature` were retaken of another page keeps its token, and the
  drift check passes on that page, whatever its controls now are.
- A dialog seen while the tab is proved is taken out by `heldDialogsFrom`, but stays in
  `failing`, so the first act after it is `mutation_outcome_unknown`, against the comments at
  `cdp-step-transport.ts:186` and `197`.
- The probe of the drift check does not reproduce that of the plan (`surf-plan-probe.ts:430`): a
  hint is lost when the submit was not identified, and other elements a submit selector matched
  are not asked for again. An unchanged page can then be `plan_stale`; `UnchangedPasses` names
  these two exceptions.
- `frame-root-cause.ts:411` may name the wrong one of two nested frames, against
  `docs/api/cli.md:179`; no index of the DOM tells them apart.
- `frame-diagnosis.ts:13-17` says the cache is keyed by tab, epoch and page; the key is tab and
  URL, and a failed diagnosis is cached too.

What a reader of the code may want to know, and the models show:

- *Heal*: a restore overwrites a later edit; when `FinalizeFails` leaves the `applied` receipt in
  place, the file stays healed and is not restored; applying directly does not refuse
  `requiresReview` without a caveat, the artifact path does; of several findings for one
  selector only the first decides.
- *Session*: a mutating step's retry budget is dropped without a word; a surf whose tab close
  throws loses a page's result in explore.
- *CDP*: a click guard armed by a press that then fails is left in the page; a select or script
  has acted before the dialog that stops its step is raised.
- *Explore*: `pagesDiscovered` counts scheduled pages, so links cut at the limit do not lower
  the coverage; the epoch check never runs from explore; nothing notices a reload to the same
  URL, or a move between diagnosis and probe; a failed `Page.getFrameTree` makes frames of the
  same process neither read nor named unreadable; a probe after the page left is not retried.
- *Plan*: the fingerprint does not bind the submit control to its form; buttons without a
  derivable selector are invisible to the forbidden list.
- *Test*: a run may pass with partial user-flow coverage (as
  `docs/adoption/greenfield-bootstrap-how-to.md:129` intends); generic classes never make two web
  sensors agree, so a web cause comes only from what the evidence says; a fuzzer killed from
  outside with a trace is a violation; a crashed command with a json declaration and
  unparsable output is a contradiction, not a fault.

## 7. Not modelled, and the plan

*Not modelled*: routing, validation and merging of configuration (sequential, of one input);
`doctor`, `init`, `demo`, replacement validation (sequential I/O around one child, file or
manifest); the simulator and the prediction engine (numeric, parked by the project's own
documents); the command line; the scripts and gates (repository tooling, more than ten
thousand lines); the reading and rendering of an accessibility tree, argv and readiness
parsing, and how `surf plan` derives a selector (pure functions of text, whose hazards a unit
test reaches). Of modelled components: the durable writer's own order against a machine crash;
receipts damaged by somebody else; forms in frames; `spawnLongLived` and `spawnStepSync`.

*Theorems next*: that CdpStep implements the view of an act that ApplyGate and FlowSubmit take
(refused before input, or done, or in doubt); that a session implements an abstract one in which
a step is carried out at most once; that no outcome of `ClassifyResult` is a success without
evidence, for every source of a reply; `HintsDoNotChain` for every set of causes.
