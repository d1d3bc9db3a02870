------------------------------- MODULE CdpStep -------------------------------
(***************************************************************************)
(* One step carried out over the DevTools connection, as                   *)
(* cdp-step-transport.ts runs it: the connection is opened and proved to   *)
(* be the owned tab, the frame is pinned, the element is waited for, its   *)
(* document and the flow's gate are checked, input is sent, and what was   *)
(* raised on the way is turned into an answer: applied, a definite         *)
(* refusal, an unknown outcome or a dialog.  The page is the adversary: it *)
(* navigates, moves focus, makes its controls form-level, opens dialogs    *)
(* and drops frames between any two calls, and any call may lose its       *)
(* answer, with or without having taken effect.                            *)
(***************************************************************************)
EXTENDS Naturals, FiniteSets

CONSTANTS Steps,        \* how many steps a session runs
          MaxMoves,     \* bound: navigations, flips of form or focus, frame changes
          MaxDialogs,   \* bound: dialogs the page opens
          StepSet,      \* the steps a caller may ask for
          None

ASSUME StepsAssumption == Steps \in Nat /\ MaxMoves \in Nat /\ MaxDialogs \in Nat
ASSUME NoneAssumption == None \notin {"main", "f1", "f2", "mine", "other"}

Kids     == {"f1", "f2"}               \* CDP frame ids of child frames
FrameIds == {"main"} \cup Kids
Names    == {"main", "url", "path"}    \* the page, an exact URL, an origin and path

\* A step: its command ("enter" is a press of a key that activates what holds
\* focus, "key" of any other), the frame it names, its effect, whether the
\* document is checked, and what a flow declares of submitting.
StepType == [cmd : {"click", "fill", "key", "enter", "select", "js"}, name : Names,
             effect : {"read_only", "mutating"}, check : BOOLEAN,
             gate : {"none", "undeclared", "authorized"}]
ASSUME StepSetAssumption == StepSet \subseteq StepType

VARIABLES page,   \* the owned tab: its documents, child frames, the element's level, focus
          pins,   \* what the session has pinned (SessionPins)
          conn,   \* the connection in use and its dialog watch
          act,    \* the operation being carried out
          first   \* history: the frame id each name reached first

vars == <<page, pins, conn, act, first>>

\* Seeded fault: focus that left the element is taken for a refusal before input.
BeforeFocusMoved == {"action_target_not_ready", "action_target_unsuitable",
                     "action_frame_unknown", "action_frame_ambiguous",
                     "action_option_not_found", "action_document_changed",
                     "flow_submit_undeclared", "action_focus_moved"}

\* Refusals raised before anything reaches the page.
BEFORE_INPUT == {"action_target_not_ready", "action_target_unsuitable",
                 "action_frame_unknown", "action_frame_ambiguous",
                 "action_option_not_found", "action_document_changed",
                 "flow_submit_undeclared"}

Idle == [at |-> "idle", cmd |-> None, name |-> "main", effect |-> "read_only",
         check |-> FALSE, gate |-> "none", n |-> 0, frame |-> None, stale |-> FALSE,
         armed |-> FALSE, prevented |-> FALSE, recovered |-> FALSE, moved |-> {}, sent |-> {}, runs |-> 0,
         stray |-> {}, submits |-> FALSE, code |-> "none", result |-> "none"]

NoConn == [tab |-> None, up |-> FALSE, seen |-> 0, failing |-> FALSE]

Init ==
  /\ page = [doc |-> [f \in FrameIds |-> "approved"], kids |-> {"f1"},
             form |-> FALSE, focus |-> TRUE, moves |-> 0, dialogs |-> 0]
  /\ pins = [lost |-> FALSE, target |-> None, frames |-> [m \in Names |-> None],
             held |-> FALSE, from |-> 0]
  /\ conn = NoConn
  /\ act = Idle
  /\ first = [m \in Names |-> None]

Live    == conn.up /\ ~pins.lost
Present == page.kids \cup {"main"}
Goto(at) == act' = [act EXCEPT !.at = at]

-----------------------------------------------------------------------------
(* Opening: openForSession, holdCdpActions, bindsOverCdp.                   *)

\* A bind before any step: kept for the steps with its dialogs counted from
\* now on ("plan") or from the start ("flow"), or closed again ("check").
BeginBind(kind) ==
  /\ act.at = "idle" /\ act.n = 0 /\ ~pins.held /\ ~pins.lost /\ pins.target = None
  /\ act' = [Idle EXCEPT !.at = "open", !.cmd = kind]
  /\ UNCHANGED <<page, pins, conn, first>>

\* runStepInFrame up to the connection it acts on.
BeginStep(s) ==
  /\ act.at \in {"idle", "done"} /\ act.n < Steps
  /\ LET begun == [Idle EXCEPT !.cmd = s.cmd, !.name = s.name, !.effect = s.effect,
                               !.check = s.check, !.gate = s.gate, !.n = act.n + 1]
     IN act' = IF pins.lost
               THEN [begun EXCEPT !.at = "done", !.result = "definite",
                                  !.code = "surf_session_interrupted"]
               ELSE [begun EXCEPT !.at = IF pins.held THEN "frame" ELSE "open"]
  /\ UNCHANGED <<page, pins, conn, first>>

Opened(target) ==
  LET bound == [pins EXCEPT !.target = target] IN
  IF act.cmd \in {"plan", "flow", "check"}
  THEN /\ pins' = IF act.cmd = "check" THEN bound
                  ELSE [bound EXCEPT !.held = TRUE,
                                     !.from = IF act.cmd = "plan" THEN conn'.seen ELSE 0]
       /\ act' = Idle
  ELSE /\ pins' = bound
       /\ Goto("frame")

\* The first bind is by URL, which another tab may sit at; later ones by target id.
OpenTarget ==
  /\ act.at = "open" /\ ~pins.lost
  /\ \E tab \in (IF pins.target = None THEN {"mine", "other"} ELSE {pins.target}) :
       /\ conn' = [NoConn EXCEPT !.tab = tab, !.up = TRUE]
       /\ IF pins.target = None THEN Goto("prove") /\ UNCHANGED pins ELSE Opened(tab)
  /\ UNCHANGED <<page, first>>

\* Seeded fault: a tab at the URL is taken for the owned one.
ProofByUrl(tab) == tab # None

\* The time origins of the owned tab and of the bound target agree, in one tab only.
ProofHolds(tab) == tab = "mine"

ProveTab ==
  /\ act.at = "prove" /\ Live /\ ProofHolds(conn.tab)
  /\ conn' = IF act.cmd = "check" THEN NoConn ELSE conn
  /\ Opened(conn.tab)
  /\ UNCHANGED <<page, first>>

\* No such target, a refused endpoint, a failed proof: closed, and nothing was bound.
OpenFails ==
  /\ act.at \in {"open", "prove"}
  /\ conn' = NoConn
  /\ act' = IF act.cmd \in {"plan", "flow", "check"} THEN Idle
            ELSE [act EXCEPT !.at = "done", !.result = "definite",
                             !.code = "tab_bind_ambiguous"]
  /\ UNCHANGED <<page, pins, first>>

\* releaseCdpActions: a later step opens its own connection, by the pinned target.
ReleaseHeld ==
  /\ act.at = "done" /\ pins.held
  /\ pins' = [pins EXCEPT !.held = FALSE, !.from = 0]
  /\ conn' = NoConn
  /\ act' = [Idle EXCEPT !.n = act.n]
  /\ UNCHANGED <<page, first>>

-----------------------------------------------------------------------------
(* The frame and the element.                                               *)

AtName == {f \in page.kids : page.doc[f] = "approved"}   \* child frames at the named URL

\* Seeded fault: a name is matched by URL at every step.
ReachesByUrl(m) == IF m = "main" THEN {"main"} ELSE AtName

\* What a name may reach: its pinned id if it has one and the frame is still
\* there; else the page, the first of the frames at a URL, or the one frame
\* at an origin and path.
Reaches(m) ==
  LET pinned == pins.frames[m] IN
  IF m = "main" THEN {"main"}
  ELSE IF pinned # None THEN {pinned} \cap Present
  ELSE IF m = "path" /\ Cardinality(AtName) > 1 THEN {} ELSE AtName

PinFrame ==
  /\ act.at = "frame" /\ Live
  /\ \E f \in Reaches(act.name) :
       /\ pins' = [pins EXCEPT !.frames[act.name] = f]
       /\ first' = IF first[act.name] = None THEN [first EXCEPT ![act.name] = f] ELSE first
       /\ act' = [act EXCEPT !.frame = f,
                             !.at = IF act.cmd # "js" THEN "wait"
                                    ELSE IF act.check THEN "read" ELSE "world"]
  /\ UNCHANGED <<page, conn>>

Raise(code) == act' = [act EXCEPT !.code = code, !.at = "raise"]
Settle(code) == act' = [act EXCEPT !.code = code, !.at = "settle"]

FrameMissing ==
  /\ act.at = "frame" /\ Live /\ Reaches(act.name) = {}
  /\ Raise(IF pins.frames[act.name] = None /\ AtName # {} THEN "action_frame_ambiguous"
           ELSE "action_frame_unknown")
  /\ UNCHANGED <<page, pins, conn, first>>

\* waitForActionable: the element of the frame's document as it is now.
ElementReady ==
  /\ act.at = "wait" /\ Live /\ act.frame \in Present
  /\ act' = [act EXCEPT !.at = "guard", !.stale = FALSE]
  /\ UNCHANGED <<page, pins, conn, first>>

ElementNotReady ==
  /\ act.at = "wait" /\ Live
  /\ Raise("action_target_not_ready")
  /\ UNCHANGED <<page, pins, conn, first>>

Body == IF act.cmd = "click" THEN "press" ELSE IF act.cmd = "select" THEN "choose" ELSE "focus"

\* guard: a call on the element answers only while its document is the one it was found in.
ElementAnswers == Live /\ ~act.stale /\ act.frame \in Present

\* Seeded fault: a document found to differ is acted in all the same.
CheckNothing ==
  /\ act.at = "guard"
  /\ act' = [act EXCEPT !.at = IF act.gate = "undeclared" THEN "gate" ELSE Body]
  /\ UNCHANGED <<page, pins, conn, first>>

CheckDocument ==
  /\ act.at = "guard" /\ (act.check => ElementAnswers)
  /\ IF act.check /\ page.doc[act.frame] # "approved"
     THEN Settle("action_document_changed")
     ELSE act' = [act EXCEPT !.at = IF act.gate = "undeclared" THEN "gate" ELSE Body]
  /\ UNCHANGED <<page, pins, conn, first>>

\* The flow's own check of an undeclared step: form-level controls and keys
\* that activate are refused, any other key arms the click guard first.
Gated == act.cmd = "enter" \/ (act.cmd = "click" /\ page.form)

GatePasses ==
  /\ act.at = "gate" /\ ElementAnswers /\ ~Gated
  /\ act' = [act EXCEPT !.at = Body, !.armed = (act.cmd = "key")]
  /\ UNCHANGED <<page, pins, conn, first>>

\* Gated, or what a click would reach, or a key's guard, could not be read.
GateRefuses ==
  /\ act.at = "gate" /\ (Gated \/ act.cmd \in {"click", "key"})
  /\ Settle("flow_submit_undeclared")
  /\ UNCHANGED <<page, pins, conn, first>>

-----------------------------------------------------------------------------
(* Input.  A call that sends input lands or not, and is answered or not.    *)

\* Where input of a kind would land elsewhere than in the approved document,
\* or, for text and keys, elsewhere than the element.
Astray(kind) ==
  \/ act.check /\ page.doc[act.frame] # "approved"
  \/ kind \in {"text", "key"} /\ ~page.focus

Landed(kind, to) ==
  [act EXCEPT !.at = to, !.sent = @ \cup {kind},
              !.stray = IF Astray(kind) THEN @ \cup {kind} ELSE @]

\* Coordinates and keys reach whatever document is there; a call on the
\* element (`held`) only the one it was found in.
Input(kind, held, to) ==
  \/ /\ IF held THEN ElementAnswers ELSE Live /\ act.frame \in Present
     /\ \/ act' = Landed(kind, to)
        \/ act' = [Landed(kind, "settle") EXCEPT !.code = "rpc"]
  \/ Settle("rpc")

Press ==
  /\ act.at = "press" /\ Input("press", FALSE, "judge")
  /\ UNCHANGED <<page, pins, conn, first>>

\* Seeded fault: a press judged not form-level arms no guard for its release.
JudgeWithoutGuard ==
  /\ act.at = "judge"
  /\ \/ conn.failing /\ Goto("cancel")
     \/ ~conn.failing /\ (act.gate = "undeclared" => ElementAnswers /\ ~page.form) /\ Goto("release")
  /\ UNCHANGED <<page, pins, conn, first>>

\* pointer, after a press: a dialog cancels the release; an undeclared click
\* is judged again, and guarded as it lands when it may go on.
JudgePress ==
  /\ act.at = "judge"
  /\ \/ conn.failing /\ Goto("cancel")
     \/ ~conn.failing /\ act.gate # "undeclared" /\ Goto("release")
     \/ /\ ~conn.failing /\ act.gate = "undeclared"
        /\ \/ /\ ElementAnswers /\ ~page.form
              /\ act' = [act EXCEPT !.at = "release", !.armed = TRUE]
           \/ act' = [act EXCEPT !.at = "cancel", !.code = "flow_submit_cancelled"]
  /\ UNCHANGED <<page, pins, conn, first>>

\* A cancelled click is released outside the viewport, where nothing is activated.
ReleaseAway ==
  /\ act.at = "cancel"
  /\ \/ Live /\ Goto("settle")
     \/ Settle(IF act.code = "none" THEN "rpc" ELSE act.code)
  /\ UNCHANGED <<page, pins, conn, first>>

\* The armed guard holds a form-level activation, in the document it was armed in.
Prevents == act.armed /\ ~act.stale

\* The input that may activate a control: a click's release, or a key.
Activate(kind) ==
  /\ \/ /\ Live /\ act.frame \in Present
        /\ LET lands == Landed(kind, "after")
               hit == [lands EXCEPT !.submits = page.form /\ ~Prevents,
                                    !.prevented = page.form /\ Prevents]
           IN act' = hit \/ act' = [hit EXCEPT !.at = "settle", !.code = "rpc"]
     \/ Settle("rpc")
  /\ UNCHANGED <<page, pins, conn, first>>

Release == act.at = "release" /\ Activate("release")

\* CLICK_GUARD_END says whether an activation was prevented, while its document is there.
AfterRelease ==
  /\ act.at = "after"
  /\ IF act.gate = "undeclared" /\ act.prevented /\ ElementAnswers
     THEN Settle("flow_submit_cancelled") ELSE Goto("settle")
  /\ UNCHANGED <<page, pins, conn, first>>

\* DOM.focus: an element that takes no focus is refused, and nothing was sent.
Focus ==
  /\ act.at = "focus"
  /\ \/ Input("focus", TRUE, "focused")
     \/ Settle("action_target_unsuitable")
  /\ UNCHANGED <<page, pins, conn, first>>

\* settle(undefined), then assertFocusKept: once before selecting what is
\* there, and again just before the text goes out.
FocusedNext == IF act.cmd # "fill" THEN "key"
               ELSE IF act.at = "focused" THEN "selecting" ELSE "text"

\* Seeded fault: focus is not checked again after the select handlers ran.
FocusKeptOnce ==
  /\ act.at \in {"focused", "selected"} /\ ~conn.failing
  /\ \/ ElementAnswers /\ (page.focus \/ act.at = "selected") /\ Goto(FocusedNext)
     \/ ElementAnswers /\ ~page.focus /\ Settle("action_focus_moved")
  /\ UNCHANGED <<page, pins, conn, first>>

FocusKept ==
  /\ act.at \in {"focused", "selected"} /\ ~conn.failing
  /\ \/ ElementAnswers /\ page.focus /\ Goto(FocusedNext)
     \/ ElementAnswers /\ ~page.focus /\ Settle("action_focus_moved")
  /\ UNCHANGED <<page, pins, conn, first>>

DialogTaken ==
  /\ act.at \in {"focused", "selected"} /\ conn.failing
  /\ conn' = [conn EXCEPT !.failing = FALSE]
  /\ Settle("action_dialog_opened")
  /\ UNCHANGED <<page, pins, first>>

SelectAll ==
  /\ act.at = "selecting" /\ ElementAnswers /\ Goto("selected")
  /\ UNCHANGED <<page, pins, conn, first>>

InsertText ==
  /\ act.at = "text" /\ Input("text", FALSE, "settle")
  /\ UNCHANGED <<page, pins, conn, first>>

SendKey == act.at = "key" /\ Activate("key")

\* One call selects the option and fires its events, or finds none to select.
Choose ==
  /\ act.at = "choose"
  /\ \/ Input("choice", TRUE, "settle")
     \/ ElementAnswers /\ Settle("action_option_not_found")
  /\ UNCHANGED <<page, pins, conn, first>>

-----------------------------------------------------------------------------
(* Scripts.                                                                 *)

\* The frame's document is read before the script runs; unreadable is a refusal too.
ReadDocument ==
  /\ act.at = "read"
  /\ \/ /\ Live /\ act.frame \in Present /\ page.doc[act.frame] = "approved"
        /\ Goto("world")
     \/ Raise("action_document_changed")
  /\ UNCHANGED <<page, pins, conn, first>>

\* The context of the frame's document as it is now (worldOf, pageWorldOf).
AcquireContext ==
  /\ act.at = "world"
  /\ \/ /\ Live /\ act.frame \in Present
        /\ \E lost \in BOOLEAN :
             act' = [act EXCEPT !.at = "eval", !.stale = FALSE, !.recovered = @ \/ lost]
     \/ act.runs = 0 /\ act.frame \notin Present /\ Raise("action_frame_unknown")
  /\ UNCHANGED <<page, pins, conn, first>>

\* Seeded fault: a script is run again whatever its effect.
ResentAlways == ~act.recovered

\* A script whose answer was lost with its context is run again once, when
\* it only reads and the one recovery is not yet spent.
Resent == act.effect = "read_only" /\ ~act.recovered

Ran == [Landed("script", "raise") EXCEPT !.runs = @ + 1]
LostContext(a) == IF Resent THEN [a EXCEPT !.at = "world", !.recovered = TRUE]
                  ELSE [a EXCEPT !.at = "raise", !.code = "rpc"]

Evaluate ==
  /\ act.at = "eval"
  /\ \/ /\ ElementAnswers
        /\ act' \in {Ran, [Ran EXCEPT !.code = "rpc"], LostContext(Ran)}
     \/ act' = LostContext(act) /\ act.stale
  /\ UNCHANGED <<page, pins, conn, first>>

-----------------------------------------------------------------------------
(* The answer.                                                              *)

\* A call that sends no input fails: it was not answered, or the connection is gone.
CallFails ==
  /\ act.at \in {"frame", "wait", "guard", "gate", "focused", "selecting", "selected",
                 "world", "eval"}
  /\ act' = [act EXCEPT !.code = "rpc",
               !.at = IF act.at \in {"frame", "wait", "world", "eval"} THEN "raise" ELSE "settle"]
  /\ UNCHANGED <<page, pins, conn, first>>

\* settle: the dialog the watch marked becomes the action's error.
SettleAct ==
  /\ act.at = "settle"
  /\ conn' = [conn EXCEPT !.failing = FALSE]
  /\ IF conn.failing THEN Raise("action_dialog_opened") ELSE Goto("raise")
  /\ UNCHANGED <<page, pins, first>>

\* runStepInFrame: what the step's error, or its dialogs, mean.
Outcome ==
  IF conn.seen > pins.from THEN "dialog"
  ELSE IF act.code = "none" THEN "ok"
  ELSE IF act.effect = "read_only" \/ act.code \in BEFORE_INPUT THEN "definite"
  ELSE "unknown"

Conclude ==
  /\ act.at = "raise"
  /\ act' = [act EXCEPT !.result = Outcome, !.at = IF pins.held THEN "done" ELSE "close"]
  /\ UNCHANGED <<page, pins, conn, first>>

\* An acknowledged act whose connection does not close is not a definite failure.
Close ==
  /\ act.at = "close"
  /\ \E failed \in BOOLEAN :
       act' = [act EXCEPT !.at = "done",
                 !.result = IF ~failed \/ @ # "ok" THEN @
                            ELSE IF act.effect = "read_only" THEN "definite" ELSE "unknown"]
  /\ conn' = [conn EXCEPT !.up = FALSE]
  /\ UNCHANGED <<page, pins, first>>

-----------------------------------------------------------------------------
(* The page and the connection, at any moment of a step.                    *)

Busy == act.at \notin {"idle", "done", "close"}

\* A document replaced by an approved one or another: what was found in it is gone.
Navigate(f) ==
  /\ Busy /\ page.moves < MaxMoves /\ f \in Present
  /\ \E d \in {"approved", "other"} :
       page' = [page EXCEPT !.doc[f] = d, !.moves = @ + 1]
  /\ act' = IF f = act.frame
            THEN [act EXCEPT !.stale = TRUE, !.moved = @ \cup {act.at}] ELSE act
  /\ UNCHANGED <<pins, conn, first>>

FrameComesOrGoes(f) ==
  /\ page.moves < MaxMoves /\ act.at \in {"frame", "wait", "press", "eval", "done"}
  /\ page' = [page EXCEPT !.kids = IF f \in @ THEN @ \ {f} ELSE @ \cup {f},
                          !.doc[f] = "approved", !.moves = @ + 1]
  /\ act' = IF f = act.frame THEN [act EXCEPT !.stale = TRUE] ELSE act
  /\ UNCHANGED <<pins, conn, first>>

\* A handler makes the control form-level, or not, or moves focus off the element.
Handler ==
  /\ Busy /\ page.moves < MaxMoves
  /\ \/ page' = [page EXCEPT !.form = ~@, !.moves = @ + 1] /\ UNCHANGED act
     \/ /\ page' = [page EXCEPT !.focus = ~@, !.moves = @ + 1]
        /\ act' = [act EXCEPT !.moved = @ \cup {act.at}]
  /\ UNCHANGED <<pins, conn, first>>

\* watchDialogs, under the `fail` policy: recorded, dismissed and marked.
DialogOpens ==
  /\ Live /\ Busy /\ act.at # "open" /\ page.dialogs < MaxDialogs
  /\ page' = [page EXCEPT !.dialogs = @ + 1]
  /\ conn' = [conn EXCEPT !.seen = @ + 1, !.failing = TRUE]
  /\ UNCHANGED <<pins, act, first>>

\* invalidateSessionCdp: the DevTools socket is lost (`socket`), or surf is.
SessionLost ==
  /\ ~pins.lost /\ (act.at = "done" => act.n < Steps)
  /\ \E socket \in BOOLEAN :
       /\ socket => conn.up
       /\ conn' = IF socket THEN [conn EXCEPT !.up = FALSE] ELSE conn
  /\ pins' = [pins EXCEPT !.lost = TRUE, !.target = None, !.frames = [m \in Names |-> None]]
  /\ UNCHANGED <<page, act, first>>

Over == act.at \in {"idle", "done"} /\ act.n = Steps /\ UNCHANGED vars

Next ==
  \/ \E k \in {"plan", "flow", "check"} : BeginBind(k)
  \/ \E s \in StepSet : BeginStep(s)
  \/ OpenTarget \/ ProveTab \/ OpenFails \/ ReleaseHeld
  \/ PinFrame \/ FrameMissing \/ ElementReady \/ ElementNotReady
  \/ CheckDocument \/ GatePasses \/ GateRefuses
  \/ Press \/ JudgePress \/ ReleaseAway \/ Release \/ AfterRelease
  \/ Focus \/ FocusKept \/ DialogTaken \/ SelectAll \/ InsertText \/ SendKey \/ Choose
  \/ ReadDocument \/ AcquireContext \/ Evaluate
  \/ CallFails \/ SettleAct \/ Conclude \/ Close
  \/ \E f \in FrameIds : Navigate(f)
  \/ \E f \in Kids : FrameComesOrGoes(f)
  \/ Handler \/ DialogOpens \/ SessionLost \/ Over

Spec == Init /\ [][Next]_vars

-----------------------------------------------------------------------------
(* Properties.                                                              *)

Mutating == act.at = "done" /\ act.effect = "mutating"

\* A mutating step that answers a definite refusal sent nothing: every code
\* the transport lets through as it is (BEFORE_INPUT, and what is thrown
\* before it acts) is raised only while no input has landed.
DefiniteIsUnsent == Mutating /\ act.result = "definite" => act.sent = {}

\* What an applied step must have sent.
Whole == IF act.cmd = "click" THEN {"press", "release"}
         ELSE IF act.cmd = "fill" THEN {"focus", "text"}
         ELSE IF act.cmd \in {"key", "enter"} THEN {"focus", "key"}
         ELSE IF act.cmd = "select" THEN {"choice"}
         ELSE {"script"}

\* A step answered applied sent its whole input, to the tab the run opened,
\* in the frame its name reached first, whatever frame holds the URL now.
AppliedIsWhole ==
  act.at = "done" /\ act.result = "ok" =>
    act.sent = Whole /\ conn.tab = "mine" /\ act.frame = first[act.name]

\* The phases in which a page that moves can still mislead each kind of input:
\* those after the last check the code makes before it.
Window(kind) ==
  IF kind = "press" THEN {"gate", "press"}
  ELSE IF kind = "release" THEN {"gate", "press", "judge", "release"}
  ELSE IF kind = "text" THEN {"text"}
  ELSE IF kind = "key" THEN {"key"}
  ELSE IF kind = "script" THEN {"world", "eval"}
  ELSE {}

\* Input reaches a document that was not approved, or text and keys another
\* element, only if the page moved between this step's last check and that
\* input: never because a check was made too early or not at all.
StrayOnlyInWindow == \A k \in act.stray : act.moved \cap Window(k) # {}

\* A step not declared as a submit activates a form-level control only if the
\* document was replaced after the guard of its click was armed.
UndeclaredNeverSubmits ==
  act.submits /\ act.gate = "undeclared" => act.stale

\* A script that may change the page reaches it at most once, whatever
\* happens to its context and its answer; one that reads, at most twice.
ScriptOnce == act.runs <= IF act.effect = "mutating" THEN 1 ELSE 2
=============================================================================
