------------------------------ MODULE FlowSubmit -------------------------------
(***************************************************************************)
(* `surf flow` on one flow file (operations/surf-flow-operation.ts and      *)
(* surf-flow-submit.ts), by any number of runs on one receipt store, whose  *)
(* processes overlap and die. Its acts are calls of the mutation ledger,    *)
(* whose module this one extends: call <<r, i>> is step i of run r. What is *)
(* added is the loop over the steps, the checks before a tab is opened, and *)
(* the reservation that claims the flow's submit for good.                  *)
(***************************************************************************)
EXTENDS MutationLedger, Naturals, Sequences

CONSTANT Flow   \* the steps of the file: [kind, step], step for the ledger

ASSUME FlowAssumption ==
    /\ Flow \in Seq([kind : {"read", "act", "submit"}, step : Steps])
    /\ Calls = Runs \X DOMAIN Flow
    /\ Overlap
    /\ None \notin Runs

VARIABLES
    at,         \* at[r]: where run r is in the operation
    index,      \* index[r]: the flow step it is at
    options,    \* options[r]: --submit, and whether --confirm-flow is the token
    submitted,  \* submitted[r]: a submit step of this run returned
    status,     \* status[r]: what the run reports
    claim       \* the run named in reservations/<flow>.json, or None

flowVars == <<at, index, options, submitted, status, claim>>
allVars  == <<vars, flowVars>>

Places == {"unborn", "receiptCheck", "claimCheck", "session", "loop", "claimed",
           "step", "closing", "done", "dead"}
Statuses == {"running", "completed", "stopped_at_submit_gate", "refused", "failed"}
Indices  == 1 .. Len(Flow) + 1
Options  == [submit : BOOLEAN, confirmed : BOOLEAN]

FlowTypeOK ==
    /\ TypeOK
    /\ at \in [Runs -> Places]
    /\ index \in [Runs -> Indices]
    /\ options \in [Runs -> Options]
    /\ submitted \in [Runs -> BOOLEAN]
    /\ status \in [Runs -> Statuses]
    /\ claim \in Runs \cup {None}

Kind(i)     == Flow[i].kind
Current(r)  == <<r, index[r]>>
AtEnd(r)    == index[r] = Len(Flow) + 1
SubmitCalls == {c \in Calls : Kind(c[2]) = "submit"}

FlowInit ==
    /\ Init
    /\ at = [r \in Runs |-> "unborn"]
    /\ index = [r \in Runs |-> 1]
    /\ options = [r \in Runs |-> [submit |-> FALSE, confirmed |-> FALSE]]
    /\ submitted = [r \in Runs |-> FALSE]
    /\ status = [r \in Runs |-> "running"]
    /\ claim = None

\* Leave the operation through its `finally`: the tab is closed next.
Leave(r, how) ==
    /\ at' = [at EXCEPT ![r] = "closing"]
    /\ status' = [status EXCEPT ![r] = how]

Goto(r, place) ==
    /\ at' = [at EXCEPT ![r] = place]
    /\ UNCHANGED status

\* The approval of the run's intent, before a tab: --confirm-flow opens nothing of
\* its own, --submit needs the token of exactly this content.
IntentAccepted(o) ==
    /\ o.submit <=> o.confirmed
    /\ o.submit => \E i \in DOMAIN Flow : Kind(i) = "submit"

\* A flow that acts has its start URL's origin allowlisted before any tab.
StartOriginAllowed ==
    \A i \in DOMAIN Flow : Kind(i) # "read" => OriginAllowed(Flow[i].step)

\* The process starts. `surf flow` takes no --supersede-receipt.
Launch(r) ==
    /\ at[r] = "unborn"
    /\ StartRun(r) /\ runs'[r].supersede = None
    /\ \E o \in Options :
          /\ options' = [options EXCEPT ![r] = o]
          /\ IF ~StartOriginAllowed \/ ~IntentAccepted(o) THEN Leave(r, "refused")
             ELSE Goto(r, IF o.submit THEN "receiptCheck" ELSE "session")
    /\ UNCHANGED <<index, submitted, claim>>

\* At most once, before a tab: a submit receipt of this flow, whatever its outcome,
\* closes the gate, and so does a store that cannot be listed.
CheckReceipts(r) ==
    /\ at[r] = "receiptCheck"
    /\ \/ (\E c \in SubmitCalls : Stored(c)) /\ Leave(r, "refused")
       \/ (\A c \in SubmitCalls : ~Stored(c)) /\ Goto(r, "claimCheck")
       \/ Leave(r, "failed")
    /\ UNCHANGED <<vars, index, options, submitted, claim>>

\* reservation(): a claim is there, even one whose content was lost.
Reserved == claim # None

\* Seeded fault: the claim is left to the moment of the submit.
CheckNothing(r) ==
    /\ at[r] = "claimCheck"
    /\ Goto(r, "session")
    /\ UNCHANGED <<vars, index, options, submitted, claim>>

\* A claim without a receipt closes it too, and one that cannot be read.
CheckClaim(r) ==
    /\ at[r] = "claimCheck"
    /\ \/ Reserved /\ Leave(r, "refused")
       \/ ~Reserved /\ Goto(r, "session")
       \/ Leave(r, "failed")
    /\ UNCHANGED <<vars, index, options, submitted, claim>>

\* Open the owned tab, gate it, hold the DevTools connection; any of them may fail.
OpenSession(r) ==
    /\ at[r] = "session"
    /\ \/ Goto(r, "loop")
       \/ Leave(r, "failed")
    /\ UNCHANGED <<vars, index, options, submitted, claim>>

\* A step that only reads: it holds, or it stops the flow.
ReadStep(r) ==
    /\ at[r] = "loop" /\ ~AtEnd(r)
    /\ Kind(index[r]) = "read"
    /\ \/ /\ index' = [index EXCEPT ![r] = @ + 1]
          /\ UNCHANGED <<at, status>>
       \/ /\ Leave(r, "failed")
          /\ UNCHANGED index
    /\ UNCHANGED <<vars, options, submitted, claim>>

\* Without --submit no step at or after the first submit runs.
StopAtGate(r) ==
    /\ at[r] = "loop" /\ ~AtEnd(r)
    /\ Kind(index[r]) = "submit"
    /\ ~options[r].submit
    /\ Leave(r, "stopped_at_submit_gate")
    /\ UNCHANGED <<vars, index, options, submitted, claim>>

\* Seeded fault: the claim is written without looking whether one is there.
ReserveOverwrites(r) ==
    /\ at[r] = "loop" /\ ~AtEnd(r)
    /\ Kind(index[r]) = "submit"
    /\ options[r].submit /\ ~submitted[r]
    /\ claim' = r
    /\ Goto(r, "claimed")
    /\ UNCHANGED <<vars, index, options, submitted>>

\* Seeded fault: a run that does not get the claim waits for it.
ReserveWaits(r) ==
    /\ at[r] = "loop" /\ ~AtEnd(r)
    /\ Kind(index[r]) = "submit"
    /\ options[r].submit /\ ~submitted[r]
    /\ claim = None
    /\ claim' = r
    /\ Goto(r, "claimed")
    /\ UNCHANGED <<vars, index, options, submitted>>

\* reserve(): an exclusive create, so one run's for good. The write or the sync after it
\* may throw: the claim is then in place and its run hears an error.
Create(r) == ~Reserved /\ claim' = r

\* Claim the flow's submit, atomically across runs, before the first submit acts. A run
\* that finds it claimed, or cannot claim it, stops.
Reserve(r) ==
    /\ at[r] = "loop" /\ ~AtEnd(r)
    /\ Kind(index[r]) = "submit"
    /\ options[r].submit /\ ~submitted[r]
    /\ \/ Create(r) /\ Goto(r, "claimed")
       \/ Create(r) /\ Leave(r, "failed")
       \/ UNCHANGED claim /\ Leave(r, "failed")
    /\ UNCHANGED <<vars, index, options, submitted>>

\* session.step reaches the ledger with this step. An act needs no claim; a submit
\* has claimed, or follows a submit of the same run that returned.
StartStep(r) ==
    /\ ~AtEnd(r)
    /\ \/ at[r] = "loop" /\ Kind(index[r]) = "act"
       \/ at[r] = "loop" /\ Kind(index[r]) = "submit" /\ options[r].submit /\ submitted[r]
       \/ at[r] = "claimed"
    /\ Begin(Current(r), r, Flow[index[r]].step)
    /\ Goto(r, "step")
    /\ UNCHANGED <<index, options, submitted, claim>>

\* The browser step fails before the ledger sees it: no owned tab, no such frame, the
\* session interrupted.
StepUnstarted(r) ==
    /\ ~AtEnd(r)
    /\ \/ at[r] = "loop" /\ Kind(index[r]) = "act"
       \/ at[r] = "loop" /\ Kind(index[r]) = "submit" /\ options[r].submit /\ submitted[r]
       \/ at[r] = "claimed"
    /\ Leave(r, "failed")
    /\ UNCHANGED <<vars, index, options, submitted, claim>>

\* The ledger answered: the next step, or the end of the flow.
StepReturned(r) ==
    /\ at[r] = "step"
    /\ pc[Current(r)] = "returned"
    /\ submitted' = [submitted EXCEPT ![r] = @ \/ Kind(index[r]) = "submit"]
    /\ index' = [index EXCEPT ![r] = @ + 1]
    /\ Goto(r, "loop")
    /\ UNCHANGED <<vars, options, claim>>

StepThrew(r) ==
    /\ at[r] = "step"
    /\ pc[Current(r)] \in {"threw", "refused"}
    /\ Leave(r, "failed")
    /\ UNCHANGED <<vars, index, options, submitted, claim>>

Complete(r) ==
    /\ at[r] = "loop" /\ AtEnd(r)
    /\ Leave(r, "completed")
    /\ UNCHANGED <<vars, index, options, submitted, claim>>

\* The finally block closes the connection and the tab, and the process ends; a
\* cleanup or a receipt export that fails, fails the run after all.
Close(r) ==
    /\ at[r] = "closing"
    /\ EndRun(r)
    /\ at' = [at EXCEPT ![r] = "done"]
    /\ \E how \in {status[r], "failed"} : status' = [status EXCEPT ![r] = how]
    /\ UNCHANGED <<index, options, submitted, claim>>

\* The process dies anywhere. Receipts and the claim survive it.
Die(r) ==
    /\ at[r] \notin {"unborn", "done", "dead"}
    /\ EndRun(r) \/ CrashRun(r)
    /\ at' = [at EXCEPT ![r] = "dead"]
    /\ UNCHANGED <<index, options, submitted, status, claim>>

\* A ledger call of the run in flight moves on.
LedgerMoves(c) == Advance(c) /\ UNCHANGED flowVars

Operation(r) ==
    \/ CheckReceipts(r)
    \/ CheckClaim(r)
    \/ OpenSession(r)
    \/ ReadStep(r)
    \/ StopAtGate(r)
    \/ Reserve(r)
    \/ StartStep(r)
    \/ StepUnstarted(r)
    \/ StepReturned(r)
    \/ StepThrew(r)
    \/ Complete(r)
    \/ Close(r)

FlowNext ==
    \/ \E r \in Runs : Launch(r) \/ Operation(r) \/ Die(r)
    \/ \E c \in Calls : LedgerMoves(c)

FlowSpec == FlowInit /\ [][FlowNext]_allVars

\* Every await of the operation is bounded by a timeout of the session or of the
\* ledger's act; nobody is obliged to launch a run.
FlowFairSpec ==
    /\ FlowSpec
    /\ \A r \in Runs : WF_allVars(Operation(r))
    /\ \A c \in Calls : WF_allVars(LedgerMoves(c))

--------------------------------------------------------------------------------
(***************************************************************************)
(* Properties.                                                              *)
(***************************************************************************)

\* At most once over every run there will ever be: the submit acts that reached the
\* page all belong to one run, whatever raced, died or was launched again.
OneRunSubmits ==
    \A c, d \in SubmitCalls : Acted(c) /\ Acted(d) => c[1] = d[1]

\* A submit acts only in a run that was told to submit exactly this content, and
\* only behind that run's own claim on disk.
SubmitIsClaimed ==
    \A c \in SubmitCalls : Acted(c) =>
        claim = c[1] /\ options[c[1]].submit /\ options[c[1]].confirmed

\* The two checks before a tab are two reads of the store, one after the other, and
\* a submit may land between them. Still, when a submitting run passes the second,
\* no submit of this flow has left a receipt: the gate is closed for good.
GateClosedForGood ==
    [][\A r \in Runs : (at[r] = "claimCheck" /\ at'[r] = "session") =>
          \A c \in SubmitCalls : ~Stored(c) /\ ~Acted(c)]_allVars

\* Every launched run ends, its tab closed or its process dead: a run is launched once and
\* ends for good, hence there is always a moment to come at which all that were are over.
RunsEnd == []<>(\A r \in Runs : at[r] \in {"unborn", "done", "dead"})

\* The inductive invariant behind the gate: a step in hand is a step of the file, a
\* run that got past its launch was meant to do what it does, and whoever is at a
\* submit, or was, holds the claim.
ClaimInv ==
    /\ \A r \in Runs : at[r] \in {"claimed", "step"} => ~AtEnd(r)
    /\ \A r \in Runs :
          at[r] \notin {"unborn", "closing", "done", "dead"} => IntentAccepted(options[r])
    /\ \A r \in Runs : at[r] = "claimed" \/ submitted[r] => claim = r
    /\ claim # None =>
          at[claim] # "unborn" /\ options[claim].submit /\ options[claim].confirmed
    /\ \A c \in SubmitCalls : call[c] # None => claim = c[1]

\* The claim and the acts behind it implement the abstract gate.
Gate == INSTANCE SubmitOnce WITH
    Acts <- DOMAIN Flow,
    owner <- claim,
    performed <- {c \in SubmitCalls : Acted(c)}

ImplementsSubmitOnce == Gate!Spec

================================================================================
