------------------------------- MODULE ApplyGate -------------------------------
(***************************************************************************)
(* `surf apply` of one plan (operations/surf-apply-operation.ts over the    *)
(* runner of surf-apply-runner.ts), by any number of runs on one receipt    *)
(* store. Its acts are calls of the mutation ledger, whose module this one  *)
(* extends: call <<r, i>> sets field i in run r, and <<r, Click>> clicks the*)
(* plan's one control. What is added is the order of the checks, the page   *)
(* the acts land on, which moves when it likes, and the looks in between.   *)
(***************************************************************************)
EXTENDS MutationLedger, Naturals, Sequences

CONSTANTS
    Fields,     \* the plan's fields, in order: [toggle, step], step for the ledger
    SubmitStep, \* the click on the plan's control, for the ledger
    Identified  \* whether the plan names one submit control

Click  == Len(Fields) + 1
Places == {"unborn", "attemptCheck", "session", "fingerprint", "field", "fill", "set",
           "readBack", "observe", "lastLook", "control", "click", "clicked", "closing",
           "done", "dead"}

\* A plan has a field at least: SurfPlanSchema refuses one that has none.
ASSUME PlanAssumption ==
    /\ Fields \in Seq([toggle : BOOLEAN, step : Steps]) \ {<<>>}
    /\ SubmitStep \in Steps
    /\ Identified \in BOOLEAN
    /\ Calls = Runs \X (1 .. Len(Fields) + 1)

VARIABLES
    at,         \* at[r]: where run r is in the operation
    index,      \* index[r]: the field it is at
    options,    \* options[r]: --submit, and whether --confirm-plan is the token
    channel,    \* channel[r]: what carries the acts of the run, "cdp" or "surf"
    status,     \* status[r]: what the run reports
    page,       \* page[r]: the document in the run's tab
    holds,      \* holds[r]: the fields of it that hold the value the plan intends
    guarded,    \* guarded[r]: over DevTools, the act under way found the plan's document
    strays      \* history: strays[r], the acts that took since the page was left

tabVars   == <<page, holds, guarded, strays>>
runVars   == <<at, index, options, channel, status>>
applyVars == <<vars, runVars, tabVars>>

ApplyTypeOK ==
    /\ TypeOK
    /\ at \in [Runs -> Places]
    /\ index \in [Runs -> 1 .. Click]
    /\ options \in [Runs -> [submit : BOOLEAN, confirmed : BOOLEAN]]
    /\ channel \in [Runs -> {"cdp", "surf"}]
    /\ status \in [Runs -> {"running", "filled", "submitted", "refused", "failed"}]
    /\ page \in [Runs -> {"reviewed", "elsewhere"}]
    /\ holds \in [Runs -> SUBSET (1 .. Len(Fields))]
    /\ guarded \in [Runs -> BOOLEAN]
    /\ strays \in [Runs -> Nat]

Toggles    == {i \in DOMAIN Fields : Fields[i].toggle}
ClickCalls == Runs \X {Click}
Current(r) == <<r, index[r]>>

ApplyInit ==
    /\ Init
    /\ at = [r \in Runs |-> "unborn"]
    /\ index = [r \in Runs |-> 1]
    /\ options = [r \in Runs |-> [submit |-> FALSE, confirmed |-> FALSE]]
    /\ channel = [r \in Runs |-> "surf"]
    /\ status = [r \in Runs |-> "running"]
    /\ page = [r \in Runs |-> "reviewed"]
    /\ holds = [r \in Runs |-> {}]
    /\ guarded = [r \in Runs |-> FALSE]
    /\ strays = [r \in Runs |-> 0]

Goto(r, place) ==
    /\ at' = [at EXCEPT ![r] = place]
    /\ UNCHANGED status

\* Out through the `finally`: the tab is closed next.
Leave(r, how) ==
    /\ at' = [at EXCEPT ![r] = "closing"]
    /\ status' = [status EXCEPT ![r] = how]

\* Every origin the plan acts on is named in mutation.allowOrigins.
PlanOriginAllowed ==
    OriginAllowed(SubmitStep) /\ \A i \in DOMAIN Fields : OriginAllowed(Fields[i].step)

\* --confirm-plan alone opens nothing; --submit needs the token of this content.
Approved(o) == o.submit <=> o.confirmed

\* The process starts: the world, then the intent. `surf apply` takes no
\* --supersede-receipt.
Launch(r) ==
    /\ at[r] = "unborn"
    /\ StartRun(r) /\ runs'[r].supersede = None
    /\ \E o \in [submit : BOOLEAN, confirmed : BOOLEAN] :
          /\ options' = [options EXCEPT ![r] = o]
          /\ IF ~PlanOriginAllowed \/ ~Approved(o) THEN Leave(r, "refused")
             ELSE Goto(r, IF o.submit THEN "attemptCheck" ELSE "session")
    /\ UNCHANGED <<index, channel, tabVars>>

\* Seeded fault: a submit that failed does not count as an attempt.
CheckUnlessFailed(r) ==
    /\ at[r] = "attemptCheck"
    /\ IF ~Identified \/ \E c \in ClickCalls : Stored(c) /\ disk[c].outcome # "failed"
       THEN Leave(r, "refused") ELSE Goto(r, "session")
    /\ UNCHANGED <<vars, index, options, channel, tabVars>>

\* At most once: any submit receipt of the plan closes the gate, a store that cannot be
\* listed too; then the control has to be identified.
CheckAttempted(r) ==
    /\ at[r] = "attemptCheck"
    /\ \/ IF ~Identified \/ \E c \in ClickCalls : Stored(c)
          THEN Leave(r, "refused") ELSE Goto(r, "session")
       \/ Leave(r, "failed")
    /\ UNCHANGED <<vars, index, options, channel, tabVars>>

\* Open the owned tab, gate it, pick the channel. The page comes up as it is, its
\* check boxes in whatever state they are.
OpenSession(r) ==
    /\ at[r] = "session"
    /\ \/ /\ Goto(r, "fingerprint")
          /\ \E via \in {"cdp", "surf"} : channel' = [channel EXCEPT ![r] = via]
          /\ \E where \in {"reviewed", "elsewhere"} : page' = [page EXCEPT ![r] = where]
          /\ \E held \in SUBSET Toggles : holds' = [holds EXCEPT ![r] = held]
       \/ Leave(r, "failed") /\ UNCHANGED <<channel, page, holds>>
    /\ UNCHANGED <<vars, index, options, guarded, strays>>

\* The page still matches the plan's fingerprint, or nothing is typed.
Fingerprint(r) ==
    /\ at[r] = "fingerprint"
    /\ \/ page[r] = "reviewed" /\ Goto(r, "field")
       \/ Leave(r, "failed")
    /\ UNCHANGED <<vars, index, options, channel, tabVars>>

\* A check box is looked at first: one that is as intended is not clicked.
LookAtToggle(r) ==
    /\ at[r] = "field" /\ index[r] \in Toggles
    /\ \/ Goto(r, IF index[r] \in holds[r] THEN "readBack" ELSE "fill")
       \/ Leave(r, "failed")
    /\ UNCHANGED <<vars, index, options, channel, tabVars>>

AtFill(r) == at[r] = "fill" \/ (at[r] = "field" /\ index[r] \notin Toggles)

\* The act goes to the ledger.
SetField(r) ==
    /\ AtFill(r)
    /\ Begin(Current(r), r, Fields[index[r]].step)
    /\ Goto(r, "set")
    /\ UNCHANGED <<index, options, channel, tabVars>>

\* The session refuses the step before the ledger sees it: it was interrupted.
StepUnstarted(r) ==
    /\ AtFill(r) \/ at[r] = "click"
    /\ Leave(r, "failed")
    /\ UNCHANGED <<vars, index, options, channel, tabVars>>

\* Seeded fault: an act that threw is read back like one that did not.
FieldSetAnyway(r) ==
    /\ at[r] = "set"
    /\ pc[Current(r)] \in Ended
    /\ Goto(r, "readBack")
    /\ UNCHANGED <<vars, index, options, channel, tabVars>>

FieldSet(r) ==
    /\ at[r] = "set"
    /\ pc[Current(r)] = "returned"
    /\ Goto(r, "readBack")
    /\ UNCHANGED <<vars, index, options, channel, tabVars>>

FieldFailed(r) ==
    /\ at[r] = "set"
    /\ pc[Current(r)] \in {"threw", "refused"}
    /\ Leave(r, "failed")
    /\ UNCHANGED <<vars, index, options, channel, tabVars>>

\* The field holds what was intended, or the run stops. The document is not looked at.
ReadBack(r) ==
    /\ at[r] = "readBack"
    /\ \/ index[r] \in holds[r] /\ Goto(r, "observe")
       \/ Leave(r, "failed")
    /\ UNCHANGED <<vars, index, options, channel, tabVars>>

NextField(r) == IF index[r] = Len(Fields) THEN "lastLook" ELSE "field"

\* Seeded fault: the page is only looked at after the last field.
ObserveLastOnly(r) ==
    /\ at[r] = "observe"
    /\ \/ /\ page[r] = "reviewed" \/ index[r] < Len(Fields)
          /\ index' = [index EXCEPT ![r] = @ + 1]
          /\ Goto(r, NextField(r))
       \/ Leave(r, "failed") /\ UNCHANGED index
    /\ UNCHANGED <<vars, options, channel, tabVars>>

\* The page has not moved, or the run stops.
Observe(r) ==
    /\ at[r] = "observe"
    /\ \/ /\ page[r] = "reviewed"
          /\ index' = [index EXCEPT ![r] = @ + 1]
          /\ Goto(r, NextField(r))
       \/ Leave(r, "failed") /\ UNCHANGED index
    /\ UNCHANGED <<vars, options, channel, tabVars>>

\* Once more after the last field; a dry run ends here.
LastLook(r) ==
    /\ at[r] = "lastLook"
    /\ \/ /\ page[r] = "reviewed"
          /\ IF options[r].submit THEN Goto(r, "control") ELSE Leave(r, "filled")
       \/ Leave(r, "failed")
    /\ UNCHANGED <<vars, index, options, channel, tabVars>>

\* Within a bounded wait the control is enabled, unique and where the plan read it.
ControlReady(r) ==
    /\ at[r] = "control"
    /\ \/ page[r] = "reviewed" /\ Goto(r, "click")
       \/ Leave(r, "failed")
    /\ UNCHANGED <<vars, index, options, channel, tabVars>>

ClickSubmit(r) ==
    /\ at[r] = "click"
    /\ Begin(<<r, Click>>, r, SubmitStep)
    /\ Goto(r, "clicked")
    /\ UNCHANGED <<index, options, channel, tabVars>>

ClickReturned(r) ==
    /\ at[r] = "clicked"
    /\ pc[<<r, Click>>] = "returned"
    /\ Leave(r, "submitted")
    /\ UNCHANGED <<vars, index, options, channel, tabVars>>

ClickThrew(r) ==
    /\ at[r] = "clicked"
    /\ pc[<<r, Click>>] \in {"threw", "refused"}
    /\ Leave(r, "failed")
    /\ UNCHANGED <<vars, index, options, channel, tabVars>>

\* What only the process knew goes with it, and so does what its tab was at.
Forget(r) ==
    /\ index' = [index EXCEPT ![r] = 1]
    /\ channel' = [channel EXCEPT ![r] = "surf"]
    /\ page' = [page EXCEPT ![r] = "reviewed"]
    /\ holds' = [holds EXCEPT ![r] = {}]
    /\ guarded' = [guarded EXCEPT ![r] = FALSE]
    /\ strays' = [strays EXCEPT ![r] = 0]
    /\ UNCHANGED options

\* The finally block closes the tab and the process ends; a receipt export that
\* cannot be written fails the run after all.
Close(r) ==
    /\ at[r] = "closing"
    /\ EndRun(r)
    /\ at' = [at EXCEPT ![r] = "done"]
    /\ \E how \in {status[r], "failed"} : status' = [status EXCEPT ![r] = how]
    /\ Forget(r)

\* The process dies anywhere. The receipts survive it.
Die(r) ==
    /\ at[r] \notin {"unborn", "done", "dead"}
    /\ EndRun(r) \/ CrashRun(r)
    /\ at' = [at EXCEPT ![r] = "dead"]
    /\ UNCHANGED status
    /\ Forget(r)

\* The page acts on its own: it goes elsewhere or comes back, or a handler undoes
\* what a field held.
PageActs(r) ==
    /\ at[r] \notin {"unborn", "attemptCheck", "session", "closing", "done", "dead"}
    /\ \/ /\ page[r] = "reviewed"
          /\ page' = [page EXCEPT ![r] = "elsewhere"]
          /\ UNCHANGED holds
       \/ /\ page[r] = "elsewhere"
          /\ page' = [page EXCEPT ![r] = "reviewed"]
          /\ UNCHANGED holds
       \/ /\ \E i \in holds[r] : holds' = [holds EXCEPT ![r] = @ \ {i}]
          /\ UNCHANGED page
    /\ strays' = [strays EXCEPT ![r] = 0]
    /\ UNCHANGED <<vars, runVars, guarded>>

\* An act on the DevTools connection looks at the document of its element, which must
\* be one the plan names. The input follows in calls of its own, by coordinates or to
\* what has the focus: the page may have moved by then.
GuardAct(c) ==
    LET r == c[1] IN
    /\ pc[c] = "acting" /\ channel[r] = "cdp"
    /\ page[r] = "reviewed"
    /\ guarded' = [guarded EXCEPT ![r] = TRUE]
    /\ UNCHANGED <<vars, runVars, page, holds, strays>>

\* What no document was found for over DevTools sent no input; surf carries an act out
\* where the tab is.
ActLands(c) ==
    LET r == c[1] IN
    /\ (channel[r] = "cdp" /\ ~guarded[r]) =>
           attempt'[c] # "value" /\ world'[c] = "spared"
    /\ guarded' = [guarded EXCEPT ![r] = FALSE]
    /\ holds' = IF world'[c] = "took" /\ c \notin ClickCalls
                THEN [holds EXCEPT ![r] = @ \cup {c[2]}] ELSE holds
    /\ strays' = IF world'[c] = "took" /\ page[r] = "elsewhere"
                 THEN [strays EXCEPT ![r] = @ + 1] ELSE strays

\* A ledger call of the run in flight moves on; its act lands on the page.
LedgerMoves(c) ==
    /\ Advance(c)
    /\ IF world' # world THEN ActLands(c) ELSE UNCHANGED <<holds, guarded, strays>>
    /\ UNCHANGED <<runVars, page>>

Operation(r) ==
    \/ CheckAttempted(r)
    \/ OpenSession(r)
    \/ Fingerprint(r)
    \/ LookAtToggle(r)
    \/ SetField(r)
    \/ StepUnstarted(r)
    \/ FieldSet(r)
    \/ FieldFailed(r)
    \/ ReadBack(r)
    \/ Observe(r)
    \/ LastLook(r)
    \/ ControlReady(r)
    \/ ClickSubmit(r)
    \/ ClickReturned(r)
    \/ ClickThrew(r)
    \/ Close(r)

ApplyNext ==
    \/ \E r \in Runs : Launch(r) \/ Operation(r) \/ Die(r) \/ PageActs(r)
    \/ \E c \in Calls : GuardAct(c) \/ LedgerMoves(c)

ApplySpec == ApplyInit /\ [][ApplyNext]_applyVars

--------------------------------------------------------------------------------
(***************************************************************************)
(* Properties.                                                              *)
(***************************************************************************)

\* The field was set by this run and its receipt says so, or it was a check box that
\* needed no click.
SetOrHeld(r, i) ==
    \/ Stored(<<r, i>>) /\ disk[<<r, i>>].outcome = "applied"
    \/ i \in Toggles /\ call[<<r, i>>] = None

\* The one control is clicked only by a run that was told to submit exactly this
\* plan, and only when every field of the plan was set in that run.
ClickAfterFill ==
    \A r \in Runs : Acted(<<r, Click>>) =>
        /\ options[r].submit /\ options[r].confirmed
        /\ \A i \in DOMAIN Fields : SetOrHeld(r, i)

\* A page that leaves the document that was reviewed is acted on at most once more
\* before the run stops or the page is back, over surf and over DevTools, whose acts
\* look at their document before the input and not with it.
OneStrayAct == \A r \in Runs : strays[r] <= 1

\* A submitted plan is never submitted twice: at most one click reaches the page,
\* over all runs.
PlanSubmittedOnce == \A c, d \in ClickCalls : Acted(c) /\ Acted(d) => c = d

\* The gate over one plan, when runs do not overlap: the run that left the first
\* submit receipt is the one that submits.
Gate == INSTANCE SubmitOnce WITH
    Acts <- {Click},
    owner <- IF \E r \in Runs : Stored(<<r, Click>>)
             THEN CHOOSE r \in Runs : Stored(<<r, Click>>) ELSE None,
    performed <- {c \in ClickCalls : Acted(c)}

ImplementsSubmitOnce == Gate!Spec

================================================================================
