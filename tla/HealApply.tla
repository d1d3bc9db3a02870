------------------------------- MODULE HealApply -------------------------------
(***************************************************************************)
(* `heal` applying its proposals (operations/heal-operation.ts and the      *)
(* second half of healing/self-healing.ts) to several files, which the      *)
(* operator may be editing. Every write is a call of the mutation ledger,   *)
(* whose module this one extends: <<r, "heal", f>> rewrites file f in run   *)
(* r, <<r, "restore", f>> puts its original content back. What is added is  *)
(* where the proposals come from, the file-by-file loop, its compensation   *)
(* when one file fails, and the files themselves.                           *)
(***************************************************************************)
EXTENDS MutationLedger, HealAnalysis, FiniteSets

CONSTANTS
    Files,      \* the test files proposals name
    Form,       \* Form[f]: the form of the one selector in f that matters
    FindingLists,   \* the findings a heal is tried with (a bound)
    MaxEdits    \* how many of the files the operator edits meanwhile (a bound)

WriteCalls == Runs \X {"heal", "restore"} \X Files

\* The content of a file, as far as anything here tells contents apart: whether the
\* proposals are applied to it, and whether the operator has edited it.
Content  == [healed : BOOLEAN, edited : BOOLEAN]
Pristine == [healed |-> FALSE, edited |-> FALSE]

\* A write that fails before its rename did not land, one that fails in it may have.
HealSettle == [value |-> "applied", refused |-> "failed", vague |-> "unknown"]

\* healStepKey names the file, the content that is rewritten and the change.
HealKey(kind, f, before) == <<kind, f, before.edited>>

\* Seeded fault: the write carries no precondition whatever the proposal says.
HealStepBlind(f, before, hashed) ==
    [key |-> HealKey("heal", f, before), scope |-> "workspace", allowed |-> TRUE,
     retry |-> FALSE, cas |-> FALSE, reread |-> FALSE, inspects |-> FALSE,
     verify |-> TRUE, settle |-> HealSettle]

\* A proposal that carries the hash of its file is written only over that content.
HealStep(f, before, hashed) ==
    [key |-> HealKey("heal", f, before), scope |-> "workspace", allowed |-> TRUE,
     retry |-> FALSE, cas |-> hashed, reread |-> hashed, inspects |-> FALSE,
     verify |-> TRUE, settle |-> HealSettle]

\* A restore has neither precondition nor post-read.
RestoreStep(f, before) ==
    [key |-> HealKey("restore", f, before), scope |-> "workspace", allowed |-> TRUE,
     retry |-> FALSE, cas |-> FALSE, reread |-> FALSE, inspects |-> FALSE,
     verify |-> FALSE, settle |-> HealSettle]

HealSteps ==
    {HealStep(f, before, h) : f \in Files, before \in Content, h \in BOOLEAN}
        \cup {RestoreStep(f, before) : f \in Files, before \in Content}

\* A rewrite to the same selector would change no content and is left out.
ASSUME HealAssumption ==
    /\ Calls = WriteCalls /\ Steps = HealSteps /\ MaxEdits \in Nat
    /\ Form \in [Files -> SelectorForms \ {"inner_testid"}]
    /\ \A list \in FindingLists : list # NotGiven =>
          /\ Len(list) \in Nat /\ DOMAIN list = 1..Len(list)
          /\ \A i \in DOMAIN list : IsFinding(list[i], Files)

VARIABLES
    stage,      \* stage[r]: how far run r is in the operation
    source,     \* source[r]: "scan" of the files in this run, or a reviewed "artifact"
    findings,   \* the findings the scan is given, or NotGiven
    planned,    \* planned[r]: the files with proposals
    plan,       \* plan[r][f]: the content the proposals of f were made against
    original,   \* original[r][f]: the content of f when the apply began
    file,       \* file[f]: the content of f on disk
    exposed     \* history: the writes past their check when f was edited, or None

healVars == <<stage, source, findings, planned, plan, original, file, exposed>>
allVars  == <<vars, healVars>>

Over   == {"done", "unreported", "failed"}
Stages == {"unborn", "launched", "analyzed", "applying", "undoing", "reporting", "dead"}
              \cup Over

Heal(r, f)    == <<r, "heal", f>>
Restore(r, f) == <<r, "restore", f>>
Busy(r)       == \E c \in Calls : InFlight(c) /\ RunOf(c) = r
FileOf(c)     == c[3]

HealInit ==
    /\ Init
    /\ stage = [r \in Runs |-> "unborn"]
    /\ source = [r \in Runs |-> "scan"]
    /\ findings \in FindingLists
    /\ planned = [r \in Runs |-> {}]
    /\ plan = [r \in Runs |-> [f \in Files |-> Pristine]]
    /\ original = [r \in Runs |-> [f \in Files |-> Pristine]]
    /\ file = [f \in Files |-> Pristine]
    /\ exposed = [f \in Files |-> None]

Goto(r, place) == stage' = [stage EXCEPT ![r] = place]

\* The process starts, on the files themselves or on a reviewed artifact.
Launch(r) ==
    /\ stage[r] = "unborn"
    /\ StartRun(r)
    /\ Goto(r, "launched")
    /\ \E s \in {"scan", "artifact"} : source' = [source EXCEPT ![r] = s]
    /\ UNCHANGED <<findings, planned, plan, original, file, exposed>>

\* What the scan makes of a file: nothing where its selector is healed already.
SelectorIn(f, content) == IF content.healed THEN "fresh" ELSE Form[f]

\* The proposals of a dry run, as its artifact holds them. Refusals stay behind in it.
Artifact == {f \in Files : Proposed(f, SelectorIn(f, Pristine), findings)}

Scan == {f \in Files : Proposed(f, SelectorIn(f, file[f]), findings)}

\* The proposals: an artifact was made of the pristine files, before anything else
\* happened; a scan reads each file now and proposes for what is not healed yet.
Analyze(r) ==
    /\ stage[r] = "launched"
    /\ Goto(r, "analyzed")
    /\ planned' = [planned EXCEPT ![r] = IF source[r] = "artifact" THEN Artifact ELSE Scan]
    /\ plan' = [plan EXCEPT ![r] = IF source[r] = "artifact" THEN @ ELSE file]
    /\ UNCHANGED <<vars, source, findings, original, file, exposed>>

Fail(r, places) ==
    /\ stage[r] \in places
    /\ Goto(r, "failed")
    /\ UNCHANGED <<vars, source, findings, planned, plan, original, file, exposed>>

\* Flags that exclude each other, an input that cannot be read or is not what it should
\* be, a file that is a link, too large or outside the root.
RefuseInput(r) == Fail(r, {"launched"})

\* A proposal of an artifact that names a file outside the root, or one that is gone.
RefuseTarget(r) == source[r] = "artifact" /\ Fail(r, {"analyzed"})

\* No checkpoint reference, whatever is proposed.
RefuseApply(r) == planned[r] # {} /\ Fail(r, {"analyzed"})

\* One proposal that carries a frame caveat refuses all of them.
CaveatedRun(r) == \E f \in planned[r] : Caveated(f, Form[f], findings)

RefuseCaveat(r) == CaveatedRun(r) /\ Fail(r, {"analyzed"})

\* A file that has gone, or become a link, or is not writable as it should be.
Unreadable(r) == planned[r] # {} /\ Fail(r, {"analyzed"})

\* A selector that is not where its proposal says, as in a file already healed or in one
\* edited at that line, or that is there more than once, throws.
Fits(r, fits) ==
    /\ fits => \A f \in planned[r] : ~file[f].healed
    /\ ~fits => \E f \in planned[r] : file[f] # plan[r][f]

\* All files are read and all updates computed before the first is written.
ReadOriginals(r) ==
    /\ stage[r] = "analyzed" /\ ~CaveatedRun(r)
    /\ \E fits \in BOOLEAN : Fits(r, fits) /\ Goto(r, IF fits THEN "applying" ELSE "failed")
    /\ original' = [original EXCEPT ![r] = file]
    /\ UNCHANGED <<vars, source, findings, planned, plan, file, exposed>>

\* HealingProposalSchema does not name fileSha256, so a proposal that went through
\* an artifact has lost its hash.
Hashed(r) == source[r] = "scan"

\* The rewrite of f was proven: runStep returned.
Written(r, f) == pc[Heal(r, f)] = "returned"

\* One file at a time, and none after one that failed.
BeginHeal(r, f) ==
    /\ stage[r] = "applying"
    /\ ~Busy(r)
    /\ f \in planned[r] /\ pc[Heal(r, f)] = "idle"
    /\ \A g \in planned[r] : pc[Heal(r, g)] \in Ended => Written(r, g)
    /\ Begin(Heal(r, f), r, HealStep(f, original[r][f], Hashed(r)))
    /\ UNCHANGED healVars

ApplyReturned(r) ==
    /\ stage[r] = "applying"
    /\ \A f \in planned[r] : Written(r, f)
    /\ Goto(r, "reporting")
    /\ UNCHANGED <<vars, source, findings, planned, plan, original, file, exposed>>

ApplyThrew(r) ==
    /\ stage[r] = "applying"
    /\ \E f \in planned[r] : pc[Heal(r, f)] \in Ended \ {"returned"}
    /\ Goto(r, "undoing")
    /\ UNCHANGED <<vars, source, findings, planned, plan, original, file, exposed>>

\* Seeded fault: what may have landed is restored too.
AllButRefused(r) == {f \in planned[r] : pc[Heal(r, f)] \in {"returned", "threw"}}

\* The siblings that definitely landed, and only those, are put back.
ToRestore(r) == {f \in planned[r] : Written(r, f) /\ mem[Heal(r, f)] = "applied"}

BeginRestore(r, f) ==
    /\ stage[r] = "undoing"
    /\ ~Busy(r)
    /\ f \in ToRestore(r) /\ pc[Restore(r, f)] = "idle"
    /\ Begin(Restore(r, f), r, RestoreStep(f, original[r][f]))
    /\ UNCHANGED healVars

\* Seeded fault: the first restore that fails ends the compensation.
UndoneOrFailed(r) ==
    \/ \A f \in ToRestore(r) : pc[Restore(r, f)] \in Ended
    \/ \E f \in ToRestore(r) : pc[Restore(r, f)] \in Ended \ {"returned"}

\* A restore that fails is collected; the loop tries the others all the same.
Undone(r) == \A f \in ToRestore(r) : pc[Restore(r, f)] \in Ended

EndUndo(r) ==
    /\ stage[r] = "undoing"
    /\ ~Busy(r) /\ Undone(r)
    /\ Goto(r, "failed")
    /\ UNCHANGED <<vars, source, findings, planned, plan, original, file, exposed>>

\* The artifacts are written after the files. One that cannot be written fails the
\* operation, and the files stay healed.
Report(r) ==
    /\ stage[r] = "reporting"
    /\ \E lands \in BOOLEAN : Goto(r, IF lands THEN "done" ELSE "unreported")
    /\ UNCHANGED <<vars, source, findings, planned, plan, original, file, exposed>>

\* What a write puts in place of the whole file.
Intended(c) ==
    IF c[2] = "restore" THEN original[c[1]][FileOf(c)]
    ELSE [original[c[1]][FileOf(c)] EXCEPT !.healed = TRUE]

\* writeFile: a temporary file is renamed over the old one.
WriteFile(c) ==
    /\ Act(c)
    /\ file' = IF world'[c] = "took" THEN [file EXCEPT ![FileOf(c)] = Intended(c)] ELSE file
    /\ UNCHANGED <<stage, source, findings, planned, plan, original, exposed>>

\* The precondition: the file still holds what the proposals were made against.
RereadFile(c) ==
    /\ Reread(c)
    /\ pc'[c] = "opening" <=> file[FileOf(c)] = plan[c[1]][FileOf(c)]
    /\ UNCHANGED healVars

\* The post-read: applied when the file holds what was to be written.
ReadBack(c) ==
    /\ Verify(c)
    /\ pc'[c] = "finalizing" =>
          (mem'[c] = "applied" <=> file[FileOf(c)] = Intended(c))
    /\ UNCHANGED healVars

\* The steps of the ledger that do not look at the file.
LedgerMoves(c) ==
    /\ \/ ListStore(c)
       \/ OpenReceipt(c)
       \/ OpenFails(c)
       \/ Settle(c)
       \/ FinalizeReceipt(c)
       \/ FinalizeFails(c)
    /\ UNCHANGED healVars

\* The operator saves an edit of f, one per file and MaxEdits in all.
Edit(f) ==
    /\ exposed[f] = None
    /\ Cardinality({g \in Files : exposed[g] # None}) < MaxEdits
    /\ file' = [file EXCEPT ![f].edited = TRUE]
    /\ exposed' = [exposed EXCEPT ![f] =
                      {c \in Calls : FileOf(c) = f /\ pc[c] \in {"opening", "acting"}}]
    /\ UNCHANGED <<vars, stage, source, findings, planned, plan, original>>

EndHeal(r) ==
    /\ stage[r] \in Over
    /\ EndRun(r)
    /\ UNCHANGED healVars

Die(r) ==
    /\ stage[r] \notin Over
    /\ CrashRun(r) \/ EndRun(r)
    /\ Goto(r, "dead")
    /\ UNCHANGED <<source, findings, planned, plan, original, file, exposed>>

Operation(r) ==
    \/ Analyze(r) \/ ReadOriginals(r)
    \/ RefuseInput(r) \/ RefuseTarget(r) \/ RefuseApply(r) \/ RefuseCaveat(r) \/ Unreadable(r)
    \/ \E f \in Files : BeginHeal(r, f) \/ BeginRestore(r, f)
    \/ ApplyReturned(r) \/ ApplyThrew(r) \/ EndUndo(r) \/ Report(r)

HealNext ==
    \/ \E r \in Runs : Launch(r) \/ Operation(r) \/ EndHeal(r) \/ Die(r)
    \/ \E c \in Calls : WriteFile(c) \/ RereadFile(c) \/ ReadBack(c) \/ LedgerMoves(c)
    \/ \E f \in Files : Edit(f)

HealSpec == HealInit /\ [][HealNext]_allVars

--------------------------------------------------------------------------------
(***************************************************************************)
(* Properties.                                                              *)
(***************************************************************************)

\* All or nothing, as far as the run can know: when a heal that failed is over, a
\* file it left healed is one whose own write did not return or whose restore did
\* not. No failure of one restore costs another file its own.
LeftoversAreNamed ==
    \A r \in Runs, f \in Files :
        (/\ stage[r] = "failed"
         /\ world[Heal(r, f)] = "took" /\ world[Restore(r, f)] # "took") =>
            \/ ~Written(r, f)
            \/ pc[Restore(r, f)] \in Ended \ {"returned"}

\* A restore never touches a file whose own rewrite is in doubt: it acts only where
\* this run's rewrite took place and is recorded as applied.
RestoreAfterDefinite ==
    \A r \in Runs, f \in Files : Acted(Restore(r, f)) =>
        world[Heal(r, f)] = "took" /\ disk[Heal(r, f)].outcome = "applied"

\* Where findings are given, a file is rewritten only for the first one that blames the
\* target and mentions its selector, and only if that one leaves no frame in question,
\* from a scan and from a reviewed artifact alike.
LicensedRewrites ==
    \A r \in Runs, f \in Files : (Acted(Heal(r, f)) /\ findings # NotGiven) =>
        \E i \in DOMAIN findings :
            /\ f \in findings[i].names /\ findings[i].basis \in {"fault", NotGiven}
            /\ \/ findings[i].typed = "excluded"
               \/ findings[i].typed = NotGiven /\ findings[i].marker \in {"excluded", NotGiven}
            /\ \A j \in 1..(i - 1) :
                  f \in findings[j].names => findings[j].basis \notin {"fault", NotGiven}

\* A scan's rewrite destroys an edit of the operator only when the edit was saved
\* between that very write's re-read of the file and its rename.
EditLostInWindow ==
    \A r \in Runs, f \in Files :
        LET c == Heal(r, f) IN
        (/\ source[r] = "scan"
         /\ ~Acted(c) /\ world'[c] = "took"
         /\ file[f].edited /\ ~file'[f].edited) => c \in exposed[f]
EditsLostInWindow == [][EditLostInWindow]_allVars

================================================================================
