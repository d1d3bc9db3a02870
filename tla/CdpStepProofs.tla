----------------------------- MODULE CdpStepProofs -----------------------------
(***************************************************************************)
(* What is proved of a step over the DevTools connection (CdpStep), for any *)
(* steps a caller asks for, any number of them, and a page that moves as     *)
(* often as it likes. The invariant says of each phase of a step what has    *)
(* been sent by then, and what its last check still vouches for.            *)
(***************************************************************************)
EXTENDS CdpStep, TLAPS

Phases == {"idle", "open", "prove", "frame", "wait", "guard", "gate", "press", "judge", "cancel",
           "release", "after", "focus", "focused", "selecting", "selected", "text", "key",
           "choose", "read", "world", "eval", "settle", "raise", "close", "done"}
Kinds  == {"press", "release", "focus", "text", "key", "choice", "script"}

IsAct(a) ==
  /\ DOMAIN a = {"at", "cmd", "name", "effect", "check", "gate", "n", "frame", "stale", "armed",
                 "prevented", "recovered", "moved", "sent", "runs", "stray", "submits", "code",
                 "result"}
  /\ a.at \in Phases /\ a.name \in Names /\ a.effect \in {"read_only", "mutating"}
  /\ a.gate \in {"none", "undeclared", "authorized"}
  /\ {a.check, a.stale, a.armed, a.prevented, a.recovered, a.submits} \subseteq BOOLEAN
  /\ a.n \in Nat /\ a.runs \in Nat /\ a.frame \in FrameIds \cup {None}
  /\ a.sent \subseteq Kinds /\ a.stray \subseteq Kinds /\ a.moved \subseteq Phases

IsPage(p) ==
  /\ DOMAIN p = {"doc", "kids", "form", "focus", "moves", "dialogs"}
  /\ p.doc \in [FrameIds -> {"approved", "other"}] /\ p.kids \subseteq Kids
  /\ p.form \in BOOLEAN /\ p.focus \in BOOLEAN /\ p.moves \in Nat /\ p.dialogs \in Nat

IsPins(p) ==
  /\ DOMAIN p = {"lost", "target", "frames", "held", "from"}
  /\ p.lost \in BOOLEAN /\ p.target \in {None, "mine"}
  /\ p.frames \in [Names -> FrameIds \cup {None}] /\ p.held \in BOOLEAN /\ p.from \in Nat

IsConn(c) ==
  /\ DOMAIN c = {"tab", "up", "seen", "failing"}
  /\ c.tab \in {None, "mine", "other"} /\ c.up \in BOOLEAN
  /\ c.seen \in Nat /\ c.failing \in BOOLEAN

Types ==
  /\ IsAct(act) /\ IsPage(page) /\ IsPins(pins) /\ IsConn(conn)
  /\ first \in [Names -> FrameIds \cup {None}]

\* Before any input; between the first input of an element and its last; and after.
Unsent   == {"open", "prove", "frame", "wait", "guard", "gate", "press", "focus", "choose", "read"}
Typing   == {"focused", "selecting", "selected", "text", "key"}
Clicking == {"judge", "cancel", "release"}
Raised   == {"settle", "raise"}

\* The phases of each command.
PhaseInv ==
  /\ act.at \in {"press"} \cup Clicking => act.cmd = "click"
  /\ act.at = "choose" => act.cmd = "select"
  /\ act.at \in {"focus"} \cup Typing => act.cmd \in {"fill", "key", "enter"}
  /\ act.at \in {"selecting", "selected", "text"} => act.cmd = "fill"
  /\ act.at = "key" => act.cmd # "fill"
  /\ act.at \in {"read", "world", "eval"} => act.cmd = "js"
  /\ act.at \in {"wait", "guard", "gate"} => act.cmd \in {"click", "fill", "key", "enter", "select"}
  /\ act.at = "gate" => act.gate = "undeclared"
  /\ act.at \in {"open", "prove"} =>
       act.cmd \in {"click", "fill", "key", "enter", "select", "js", "plan", "flow", "check"}
  /\ act.at \notin {"idle", "open", "prove"} => act.cmd \in {"click", "fill", "key", "enter", "select", "js"}

\* What was sent by each phase, and with which codes a step is answered.
SentInv ==
  /\ act.at \in Unsent => act.sent = {}
  /\ act.at \in {"world", "eval"} => act.sent \subseteq {"script"} /\ (act.runs = 0 => act.sent = {})
  /\ act.at \in Typing => act.sent = {"focus"}
  /\ act.at \in Clicking => act.sent = {"press"}
  /\ act.at = "after" => act.sent = Whole
  /\ act.at \notin {"cancel"} \cup Raised \cup {"close", "done"} => act.code = "none"
  /\ act.at = "cancel" => act.code = "flow_submit_cancelled" \/ (act.code = "none" /\ conn.failing)
  /\ act.at \in Raised /\ act.code \in BEFORE_INPUT => act.sent = {}
  /\ act.at = "settle" /\ act.code = "none" => act.sent = Whole \/ conn.failing
  /\ act.at = "raise" /\ act.code = "none" => act.sent = Whole
  /\ act.at \in {"close", "done"} =>
       /\ act.result = "ok" => act.sent = Whole
       /\ act.result = "definite" /\ act.effect = "mutating" => act.sent = {}

RunsInv ==
  /\ act.runs <= 2 /\ (act.effect = "mutating" => act.runs <= 1)
  /\ act.at \in {"world", "eval"} =>
       act.runs <= 1 /\ (act.runs = 1 => act.effect = "read_only" /\ act.recovered)
  /\ act.at \in Unsent => act.runs = 0

\* Which tab and frame a step is in.
WhereInv ==
  /\ act.at \notin {"idle", "open", "prove", "done"} => conn.tab = "mine"
  /\ pins.held => conn.tab = "mine" /\ act.at \notin {"open", "prove"}
  /\ first["main"] \in {None, "main"}
  /\ \A m \in Names : ~pins.lost => pins.frames[m] = first[m]
  /\ act.at \notin {"idle", "open", "prove", "frame", "close", "done"} \cup Raised =>
       act.frame = first[act.name] /\ act.frame # None
  /\ act.at \in Raised /\ act.code = "none" => act.frame = first[act.name]
  /\ act.at \in {"close", "done"} /\ act.result = "ok" =>
       conn.tab = "mine" /\ act.frame = first[act.name]

Checked == {"gate", "press", "judge", "release", "focus", "choose"} \cup Typing
Foreign == act.check /\ page.doc[act.frame] # "approved"

\* What the check of the document and the check of the focus still vouch for, and what
\* the page must have done since.
WindowInv ==
  /\ act.at \in Checked /\ ~act.stale => ~Foreign
  /\ act.at \in {"gate", "press"} /\ Foreign => act.moved \cap Window("press") # {}
  /\ act.at \in {"judge", "release"} /\ Foreign => act.moved \cap Window("release") # {}
  /\ act.at \in {"text", "key"} /\ (Foreign \/ ~page.focus) => act.at \in act.moved
  /\ act.at \in Unsent => act.stray = {}
  /\ act.at \in {"world", "eval"} /\ Foreign => act.moved \cap Window("script") # {}
  /\ StrayOnlyInWindow

\* The guard of an undeclared click or key is armed before what it guards.
GateInv ==
  /\ act.gate = "undeclared" =>
       /\ act.at \in {"focus", "focused", "key"} => act.cmd = "fill" \/ (act.cmd = "key" /\ act.armed)
       /\ act.at = "release" => act.armed
  /\ act.submits => act.at \in {"after", "settle", "raise", "close", "done"}
  /\ UndeclaredNeverSubmits

CdpInv == Types /\ PhaseInv /\ SentInv /\ RunsInv /\ WhereInv /\ WindowInv /\ GateInv




--------------------------------------------------------------------------------
(* What each kind of step does to the operation, field by field.            *)

Asked(a) == <<a.cmd, a.name, a.effect, a.check, a.gate, a.n>>
Held(a)  == <<a.frame, a.stale, a.armed, a.prevented, a.recovered, a.moved, a.runs, a.submits, a.result>>
Sent(a)  == <<a.sent, a.stray>>

Same == Asked(act') = Asked(act) /\ Held(act') = Held(act) /\ IsAct(act')

Moved(p, c) == Same /\ Sent(act') = Sent(act) /\ act'.at = p /\ act'.code = c

LEMMA GotoEffect ==
  ASSUME IsAct(act), NEW p \in Phases, Goto(p)
  PROVE  Moved(p, act.code)
<1>1. /\ DOMAIN act' = DOMAIN act /\ Asked(act') = Asked(act) /\ Held(act') = Held(act)
      /\ Sent(act') = Sent(act) /\ act'.at = p /\ act'.code = act.code
  BY DEF IsAct, Goto, Asked, Held, Sent
<1>2. QED  BY <1>1 DEF IsAct, Asked, Held, Sent, Moved, Same

LEMMA CodeEffect ==
  ASSUME IsAct(act), NEW p \in Phases, NEW c,
         act' = [act EXCEPT !.code = c, !.at = p] \/ act' = [act EXCEPT !.at = p, !.code = c]
  PROVE  Moved(p, c)
<1>1. /\ DOMAIN act' = DOMAIN act /\ Asked(act') = Asked(act) /\ Held(act') = Held(act)
      /\ Sent(act') = Sent(act) /\ act'.at = p /\ act'.code = c
  BY DEF IsAct, Asked, Held, Sent
<1>2. QED  BY <1>1 DEF IsAct, Asked, Held, Sent, Moved, Same

\* Input of a kind, which lands or not and is answered or not.
Inputs(kind, held, to) ==
  /\ Same
  /\ \/ Sent(act') = Sent(act) /\ act'.at = "settle" /\ act'.code = "rpc"
     \/ /\ act'.sent = act.sent \cup {kind} /\ (held => ~act.stale)
        /\ act'.stray = IF Astray(kind) THEN act.stray \cup {kind} ELSE act.stray
        /\ \/ act'.at = to /\ act'.code = act.code
           \/ act'.at = "settle" /\ act'.code = "rpc"

LEMMA InputEffect ==
  ASSUME IsAct(act), NEW kind \in Kinds, NEW held \in BOOLEAN, NEW to \in Phases, Input(kind, held, to)
  PROVE  Inputs(kind, held, to)
<1>1. DOMAIN act' = DOMAIN act
  BY DEF Input, Landed, Settle
<1>2. Asked(act') = Asked(act) /\ Held(act') = Held(act)
  BY DEF IsAct, Input, Landed, Settle, Asked, Held
<1>3. \/ Sent(act') = Sent(act) /\ act'.at = "settle" /\ act'.code = "rpc"
      \/ /\ act'.sent = act.sent \cup {kind} /\ (held => ~act.stale)
         /\ act'.stray = IF Astray(kind) THEN act.stray \cup {kind} ELSE act.stray
         /\ \/ act'.at = to /\ act'.code = act.code
            \/ act'.at = "settle" /\ act'.code = "rpc"
  BY DEF IsAct, Input, Landed, Settle, Sent, ElementAnswers
<1>4. "settle" \in Phases
  BY DEF Phases
<1>5. IsAct(act')
  BY <1>1, <1>2, <1>3, <1>4 DEF IsAct, Asked, Held, Sent
<1>6. QED  BY <1>2, <1>3, <1>5 DEF Inputs, Same

\* The input that may activate a control.
Activated(a) == <<a.frame, a.stale, a.armed, a.recovered, a.moved, a.runs, a.result>>

Activates(kind) ==
  /\ IsAct(act') /\ Asked(act') = Asked(act) /\ Activated(act') = Activated(act)
  /\ \/ /\ Sent(act') = Sent(act) /\ act'.at = "settle" /\ act'.code = "rpc"
        /\ act'.submits = act.submits
     \/ /\ act'.sent = act.sent \cup {kind}
        /\ act'.stray = IF Astray(kind) THEN act.stray \cup {kind} ELSE act.stray
        /\ act'.submits => ~(act.armed /\ ~act.stale)
        /\ \/ act'.at = "after" /\ act'.code = act.code
           \/ act'.at = "settle" /\ act'.code = "rpc"

LEMMA ActivateEffect ==
  ASSUME IsAct(act), NEW kind \in Kinds, Activate(kind), page.form \in BOOLEAN
  PROVE  Activates(kind)
<1>1. DOMAIN act' = DOMAIN act
  BY DEF Activate, Landed, Settle
<1>2. Asked(act') = Asked(act) /\ Activated(act') = Activated(act)
  BY DEF IsAct, Activate, Landed, Settle, Asked, Activated
<1>3. \/ /\ Sent(act') = Sent(act) /\ act'.at = "settle" /\ act'.code = "rpc"
         /\ act'.submits = act.submits /\ act'.prevented = act.prevented
      \/ /\ act'.sent = act.sent \cup {kind}
         /\ act'.stray = IF Astray(kind) THEN act.stray \cup {kind} ELSE act.stray
         /\ act'.submits = (page.form /\ ~Prevents) /\ act'.prevented = (page.form /\ Prevents)
         /\ \/ act'.at = "after" /\ act'.code = act.code
            \/ act'.at = "settle" /\ act'.code = "rpc"
  BY DEF IsAct, Activate, Landed, Settle, Sent
<1>4. {"settle", "after"} \subseteq Phases /\ act'.submits \in BOOLEAN /\ act'.prevented \in BOOLEAN
  BY <1>3 DEF Phases, IsAct
<1>5. IsAct(act')
  BY <1>1, <1>2, <1>3, <1>4 DEF IsAct, Asked, Activated, Sent
<1>6. QED  BY <1>2, <1>3, <1>5 DEF Prevents, Activates

--------------------------------------------------------------------------------
(* The steps that wait, check and send.                                     *)

\* Nothing but the operation changes.
Alone == UNCHANGED <<page, pins, conn, first>>

LEMMA InputsKeep ==
  ASSUME CdpInv, Press \/ Focus \/ InsertText \/ Choose \/ Release \/ SendKey
  PROVE  CdpInv'
<1>0. Alone /\ IsAct(act) /\ IsPage(page)
  BY DEF Press, Focus, InsertText, Choose, Release, SendKey, Input, Activate, Alone, CdpInv, Types
<1>1. CASE Press
  <2>1. act.at = "press" /\ (Inputs("press", FALSE, "judge"))
    BY <1>1, <1>0, InputEffect DEF Press, Kinds, Phases, Settle, IsPage
  <2>2. Types'
    BY <1>0, <2>1 DEF CdpInv, Alone, Same, Moved, Asked, Held, Sent, Inputs, Types
  <2>3. PhaseInv'
    BY <1>0, <2>1 DEF CdpInv, Alone, Same, Moved, Asked, Held, Sent, Inputs, PhaseInv, Clicking, Typing
  <2>4. SentInv'
    BY <1>0, <2>1 DEF CdpInv, Alone, Same, Moved, Asked, Held, Sent, Inputs, SentInv, PhaseInv, Clicking, Typing, Raised, Unsent, BEFORE_INPUT, Whole
  <2>5. RunsInv'
    BY <1>0, <2>1 DEF CdpInv, Alone, Same, Moved, Asked, Held, Sent, Inputs, RunsInv, Unsent
  <2>6. WhereInv'
    BY <1>0, <2>1 DEF CdpInv, Alone, Same, Moved, Asked, Held, Sent, Inputs, WhereInv, Raised, SentInv
  <2>7. WindowInv'
    BY <1>0, <2>1 DEF CdpInv, Alone, Same, Moved, Asked, Held, Sent, Inputs, WindowInv, Unsent, Checked, Typing, Foreign, Window, StrayOnlyInWindow, Astray
  <2>8. GateInv'
    BY <1>0, <2>1 DEF CdpInv, Alone, Same, Moved, Asked, Held, Sent, Inputs, GateInv, PhaseInv, UndeclaredNeverSubmits
  <2>9. QED  BY <2>2, <2>3, <2>4, <2>5, <2>6, <2>7, <2>8 DEF CdpInv
<1>2. CASE Focus
  <2>1. act.at = "focus" /\ (Inputs("focus", TRUE, "focused") \/ Moved("settle", "action_target_unsuitable"))
    BY <1>2, <1>0, InputEffect, CodeEffect DEF Focus, Kinds, Phases, Settle, IsPage
  <2>2. Types'
    BY <1>0, <2>1 DEF CdpInv, Alone, Same, Moved, Asked, Held, Sent, Inputs, Types
  <2>3. PhaseInv'
    BY <1>0, <2>1 DEF CdpInv, Alone, Same, Moved, Asked, Held, Sent, Inputs, PhaseInv, Clicking, Typing
  <2>4. SentInv'
    BY <1>0, <2>1 DEF CdpInv, Alone, Same, Moved, Asked, Held, Sent, Inputs, SentInv, PhaseInv, Clicking, Typing, Raised, Unsent, BEFORE_INPUT, Whole
  <2>5. RunsInv'
    BY <1>0, <2>1 DEF CdpInv, Alone, Same, Moved, Asked, Held, Sent, Inputs, RunsInv, Unsent
  <2>6. WhereInv'
    BY <1>0, <2>1 DEF CdpInv, Alone, Same, Moved, Asked, Held, Sent, Inputs, WhereInv, Raised, SentInv
  <2>7. WindowInv'
    BY <1>0, <2>1 DEF CdpInv, Alone, Same, Moved, Asked, Held, Sent, Inputs, WindowInv, Unsent, Checked, Typing, Foreign, Window, StrayOnlyInWindow, Astray
  <2>8. GateInv'
    BY <1>0, <2>1 DEF CdpInv, Alone, Same, Moved, Asked, Held, Sent, Inputs, GateInv, PhaseInv, UndeclaredNeverSubmits
  <2>9. QED  BY <2>2, <2>3, <2>4, <2>5, <2>6, <2>7, <2>8 DEF CdpInv
<1>3. CASE InsertText
  <2>1. act.at = "text" /\ (Inputs("text", FALSE, "settle"))
    BY <1>3, <1>0, InputEffect DEF InsertText, Kinds, Phases, Settle, IsPage
  <2>2. Types'
    BY <1>0, <2>1 DEF CdpInv, Alone, Same, Moved, Asked, Held, Sent, Inputs, Types
  <2>3. PhaseInv'
    BY <1>0, <2>1 DEF CdpInv, Alone, Same, Moved, Asked, Held, Sent, Inputs, PhaseInv, Clicking, Typing
  <2>4. SentInv'
    BY <1>0, <2>1 DEF CdpInv, Alone, Same, Moved, Asked, Held, Sent, Inputs, SentInv, PhaseInv, Clicking, Typing, Raised, Unsent, BEFORE_INPUT, Whole
  <2>5. RunsInv'
    BY <1>0, <2>1 DEF CdpInv, Alone, Same, Moved, Asked, Held, Sent, Inputs, RunsInv, Unsent
  <2>6. WhereInv'
    BY <1>0, <2>1 DEF CdpInv, Alone, Same, Moved, Asked, Held, Sent, Inputs, WhereInv, Raised, SentInv
  <2>7. WindowInv'
    BY <1>0, <2>1 DEF CdpInv, Alone, Same, Moved, Asked, Held, Sent, Inputs, WindowInv, Unsent, Checked, Typing, Foreign, Window, StrayOnlyInWindow, Astray
  <2>8. GateInv'
    BY <1>0, <2>1 DEF CdpInv, Alone, Same, Moved, Asked, Held, Sent, Inputs, GateInv, PhaseInv, UndeclaredNeverSubmits
  <2>9. QED  BY <2>2, <2>3, <2>4, <2>5, <2>6, <2>7, <2>8 DEF CdpInv
<1>4. CASE Choose
  <2>1. act.at = "choose" /\ (Inputs("choice", TRUE, "settle") \/ Moved("settle", "action_option_not_found"))
    BY <1>4, <1>0, InputEffect, CodeEffect DEF Choose, Kinds, Phases, Settle, IsPage
  <2>2. Types'
    BY <1>0, <2>1 DEF CdpInv, Alone, Same, Moved, Asked, Held, Sent, Inputs, Types
  <2>3. PhaseInv'
    BY <1>0, <2>1 DEF CdpInv, Alone, Same, Moved, Asked, Held, Sent, Inputs, PhaseInv, Clicking, Typing
  <2>4. SentInv'
    BY <1>0, <2>1 DEF CdpInv, Alone, Same, Moved, Asked, Held, Sent, Inputs, SentInv, PhaseInv, Clicking, Typing, Raised, Unsent, BEFORE_INPUT, Whole
  <2>5. RunsInv'
    BY <1>0, <2>1 DEF CdpInv, Alone, Same, Moved, Asked, Held, Sent, Inputs, RunsInv, Unsent
  <2>6. WhereInv'
    BY <1>0, <2>1 DEF CdpInv, Alone, Same, Moved, Asked, Held, Sent, Inputs, WhereInv, Raised, SentInv
  <2>7. WindowInv'
    BY <1>0, <2>1 DEF CdpInv, Alone, Same, Moved, Asked, Held, Sent, Inputs, WindowInv, Unsent, Checked, Typing, Foreign, Window, StrayOnlyInWindow, Astray
  <2>8. GateInv'
    BY <1>0, <2>1 DEF CdpInv, Alone, Same, Moved, Asked, Held, Sent, Inputs, GateInv, PhaseInv, UndeclaredNeverSubmits
  <2>9. QED  BY <2>2, <2>3, <2>4, <2>5, <2>6, <2>7, <2>8 DEF CdpInv
<1>5. CASE Release
  <2>1. act.at = "release" /\ (Activates("release"))
    BY <1>5, <1>0, ActivateEffect DEF Release, Kinds, Phases, Settle, IsPage
  <2>2. Types'
    BY <1>0, <2>1 DEF CdpInv, Alone, Same, Moved, Asked, Held, Sent, Activates, Activated, Types
  <2>3. PhaseInv'
    BY <1>0, <2>1 DEF CdpInv, Alone, Same, Moved, Asked, Held, Sent, Activates, Activated, PhaseInv, Clicking, Typing
  <2>4. SentInv'
    BY <1>0, <2>1 DEF CdpInv, Alone, Same, Moved, Asked, Held, Sent, Activates, Activated, SentInv, PhaseInv, Clicking, Typing, Raised, Unsent, BEFORE_INPUT, Whole
  <2>5. RunsInv'
    BY <1>0, <2>1 DEF CdpInv, Alone, Same, Moved, Asked, Held, Sent, Activates, Activated, RunsInv, Unsent
  <2>6. WhereInv'
    BY <1>0, <2>1 DEF CdpInv, Alone, Same, Moved, Asked, Held, Sent, Activates, Activated, WhereInv, Raised, SentInv
  <2>7. WindowInv'
    BY <1>0, <2>1 DEF CdpInv, Alone, Same, Moved, Asked, Held, Sent, Activates, Activated, WindowInv, Unsent, Checked, Typing, Foreign, Window, StrayOnlyInWindow, Astray
  <2>8. GateInv'
    BY <1>0, <2>1 DEF CdpInv, Alone, Same, Moved, Asked, Held, Sent, Activates, Activated, GateInv, PhaseInv, UndeclaredNeverSubmits
  <2>9. QED  BY <2>2, <2>3, <2>4, <2>5, <2>6, <2>7, <2>8 DEF CdpInv
<1>6. CASE SendKey
  <2>1. act.at = "key" /\ (Activates("key"))
    BY <1>6, <1>0, ActivateEffect DEF SendKey, Kinds, Phases, Settle, IsPage
  <2>2. Types'
    BY <1>0, <2>1 DEF CdpInv, Alone, Same, Moved, Asked, Held, Sent, Activates, Activated, Types
  <2>3. PhaseInv'
    BY <1>0, <2>1 DEF CdpInv, Alone, Same, Moved, Asked, Held, Sent, Activates, Activated, PhaseInv, Clicking, Typing
  <2>4. SentInv'
    BY <1>0, <2>1 DEF CdpInv, Alone, Same, Moved, Asked, Held, Sent, Activates, Activated, SentInv, PhaseInv, Clicking, Typing, Raised, Unsent, BEFORE_INPUT, Whole
  <2>5. RunsInv'
    BY <1>0, <2>1 DEF CdpInv, Alone, Same, Moved, Asked, Held, Sent, Activates, Activated, RunsInv, Unsent
  <2>6. WhereInv'
    BY <1>0, <2>1 DEF CdpInv, Alone, Same, Moved, Asked, Held, Sent, Activates, Activated, WhereInv, Raised, SentInv
  <2>7. WindowInv'
    BY <1>0, <2>1 DEF CdpInv, Alone, Same, Moved, Asked, Held, Sent, Activates, Activated, WindowInv, Unsent, Checked, Typing, Foreign, Window, StrayOnlyInWindow, Astray
  <2>8. GateInv'
    BY <1>0, <2>1 DEF CdpInv, Alone, Same, Moved, Asked, Held, Sent, Activates, Activated, GateInv, PhaseInv, UndeclaredNeverSubmits
  <2>9. QED  BY <2>2, <2>3, <2>4, <2>5, <2>6, <2>7, <2>8 DEF CdpInv
<1>7. QED  BY <1>1, <1>2, <1>3, <1>4, <1>5, <1>6


Flags(a) == {a.stale, a.armed, a.recovered} \subseteq BOOLEAN

\* What is found before input, and refuses it.
LEMMA WaitsKeep ==
  ASSUME CdpInv, FrameMissing \/ ElementNotReady \/ CheckDocument \/ GateRefuses \/ ReleaseAway \/ AfterRelease \/ FocusKept \/ SelectAll \/ ReadDocument \/ CallFails
  PROVE  CdpInv'
<1>0. Alone /\ IsAct(act) /\ Flags(act)
  BY DEF FrameMissing, ElementNotReady, CheckDocument, GateRefuses, ReleaseAway, AfterRelease, FocusKept, SelectAll, ReadDocument, CallFails, Alone, CdpInv, Types, IsAct, Flags
<1>1. CASE FrameMissing
  <2>1. /\ act.at = "frame"
        /\ \E c \in {"action_frame_ambiguous", "action_frame_unknown"} : Moved("raise", c)
    BY <1>1, <1>0, CodeEffect DEF FrameMissing, Raise, Phases
  <2>2. Types'
    BY <1>0, <2>1 DEF CdpInv, Alone, Same, Moved, Asked, Held, Sent, Types
  <2>3. PhaseInv'
    BY <1>0, <2>1 DEF CdpInv, Alone, Same, Moved, Asked, Held, Sent, PhaseInv, Clicking, Typing
  <2>4. SentInv'
    BY <1>0, <2>1 DEF CdpInv, Alone, Same, Moved, Asked, Held, Sent, SentInv, PhaseInv, Clicking, Typing, Raised, Unsent, BEFORE_INPUT, Whole
  <2>5. RunsInv'
    BY <1>0, <2>1 DEF CdpInv, Alone, Same, Moved, Asked, Held, Sent, RunsInv, Unsent
  <2>6. WhereInv'
    BY <1>0, <2>1 DEF CdpInv, Alone, Same, Moved, Asked, Held, Sent, WhereInv, Raised, SentInv
  <2>7. WindowInv'
    BY <1>0, <2>1 DEF CdpInv, Alone, Same, Moved, Asked, Held, Sent, WindowInv, Unsent, Checked, Typing, Foreign, Window, StrayOnlyInWindow
  <2>8. GateInv'
    BY <1>0, <2>1 DEF CdpInv, Alone, Same, Moved, Asked, Held, Sent, GateInv, PhaseInv, UndeclaredNeverSubmits
  <2>9. QED  BY <2>2, <2>3, <2>4, <2>5, <2>6, <2>7, <2>8 DEF CdpInv
<1>2. CASE ElementNotReady
  <2>1. /\ act.at = "wait"
        /\ Moved("raise", "action_target_not_ready")
    BY <1>2, <1>0, CodeEffect DEF ElementNotReady, Raise, Phases
  <2>2. Types'
    BY <1>0, <2>1 DEF CdpInv, Alone, Same, Moved, Asked, Held, Sent, Types
  <2>3. PhaseInv'
    BY <1>0, <2>1 DEF CdpInv, Alone, Same, Moved, Asked, Held, Sent, PhaseInv, Clicking, Typing
  <2>4. SentInv'
    BY <1>0, <2>1 DEF CdpInv, Alone, Same, Moved, Asked, Held, Sent, SentInv, PhaseInv, Clicking, Typing, Raised, Unsent, BEFORE_INPUT, Whole
  <2>5. RunsInv'
    BY <1>0, <2>1 DEF CdpInv, Alone, Same, Moved, Asked, Held, Sent, RunsInv, Unsent
  <2>6. WhereInv'
    BY <1>0, <2>1 DEF CdpInv, Alone, Same, Moved, Asked, Held, Sent, WhereInv, Raised, SentInv
  <2>7. WindowInv'
    BY <1>0, <2>1 DEF CdpInv, Alone, Same, Moved, Asked, Held, Sent, WindowInv, Unsent, Checked, Typing, Foreign, Window, StrayOnlyInWindow
  <2>8. GateInv'
    BY <1>0, <2>1 DEF CdpInv, Alone, Same, Moved, Asked, Held, Sent, GateInv, PhaseInv, UndeclaredNeverSubmits
  <2>9. QED  BY <2>2, <2>3, <2>4, <2>5, <2>6, <2>7, <2>8 DEF CdpInv
<1>3. CASE CheckDocument
  <2>1. /\ act.at = "guard"
        /\ \/ Moved("settle", "action_document_changed")
           \/ /\ act.check => page.doc[act.frame] = "approved"
              /\ Moved(IF act.gate = "undeclared" THEN "gate" ELSE Body, act.code)
    BY <1>3, <1>0, CodeEffect, GotoEffect DEF CheckDocument, Settle, Phases, Goto, Body, ElementAnswers
  <2>2. Types'
    BY <1>0, <2>1 DEF CdpInv, Alone, Same, Moved, Asked, Held, Sent, Body, Types
  <2>3. PhaseInv'
    BY <1>0, <2>1 DEF CdpInv, Alone, Same, Moved, Asked, Held, Sent, Body, PhaseInv, Clicking, Typing
  <2>4. SentInv'
    BY <1>0, <2>1 DEF CdpInv, Alone, Same, Moved, Asked, Held, Sent, Body, SentInv, PhaseInv, Clicking, Typing, Raised, Unsent, BEFORE_INPUT, Whole
  <2>5. RunsInv'
    BY <1>0, <2>1 DEF CdpInv, Alone, Same, Moved, Asked, Held, Sent, Body, RunsInv, Unsent
  <2>6. WhereInv'
    BY <1>0, <2>1 DEF CdpInv, Alone, Same, Moved, Asked, Held, Sent, Body, WhereInv, Raised, SentInv
  <2>7. WindowInv'
    BY <1>0, <2>1 DEF CdpInv, Alone, Same, Moved, Asked, Held, Sent, Body, WindowInv, Unsent, Checked, Typing, Foreign, Window, StrayOnlyInWindow
  <2>8. GateInv'
    BY <1>0, <2>1 DEF CdpInv, Alone, Same, Moved, Asked, Held, Sent, Body, GateInv, PhaseInv, UndeclaredNeverSubmits
  <2>9. QED  BY <2>2, <2>3, <2>4, <2>5, <2>6, <2>7, <2>8 DEF CdpInv
<1>4. CASE GateRefuses
  <2>1. /\ act.at = "gate"
        /\ Moved("settle", "flow_submit_undeclared")
    BY <1>4, <1>0, CodeEffect DEF GateRefuses, Settle, Phases
  <2>2. Types'
    BY <1>0, <2>1 DEF CdpInv, Alone, Same, Moved, Asked, Held, Sent, Types
  <2>3. PhaseInv'
    BY <1>0, <2>1 DEF CdpInv, Alone, Same, Moved, Asked, Held, Sent, PhaseInv, Clicking, Typing
  <2>4. SentInv'
    BY <1>0, <2>1 DEF CdpInv, Alone, Same, Moved, Asked, Held, Sent, SentInv, PhaseInv, Clicking, Typing, Raised, Unsent, BEFORE_INPUT, Whole
  <2>5. RunsInv'
    BY <1>0, <2>1 DEF CdpInv, Alone, Same, Moved, Asked, Held, Sent, RunsInv, Unsent
  <2>6. WhereInv'
    BY <1>0, <2>1 DEF CdpInv, Alone, Same, Moved, Asked, Held, Sent, WhereInv, Raised, SentInv
  <2>7. WindowInv'
    BY <1>0, <2>1 DEF CdpInv, Alone, Same, Moved, Asked, Held, Sent, WindowInv, Unsent, Checked, Typing, Foreign, Window, StrayOnlyInWindow
  <2>8. GateInv'
    BY <1>0, <2>1 DEF CdpInv, Alone, Same, Moved, Asked, Held, Sent, GateInv, PhaseInv, UndeclaredNeverSubmits
  <2>9. QED  BY <2>2, <2>3, <2>4, <2>5, <2>6, <2>7, <2>8 DEF CdpInv
<1>5. CASE ReleaseAway
  <2>1. /\ act.at = "cancel"
        /\ Moved("settle", act.code) \/ (act.code = "none" /\ Moved("settle", "rpc"))
    BY <1>5, <1>0, CodeEffect, GotoEffect DEF ReleaseAway, Settle, Phases
  <2>2. Types'
    BY <1>0, <2>1 DEF CdpInv, Alone, Same, Moved, Asked, Held, Sent, Types
  <2>3. PhaseInv'
    BY <1>0, <2>1 DEF CdpInv, Alone, Same, Moved, Asked, Held, Sent, PhaseInv, Clicking, Typing
  <2>4. SentInv'
    BY <1>0, <2>1 DEF CdpInv, Alone, Same, Moved, Asked, Held, Sent, SentInv, PhaseInv, Clicking, Typing, Raised, Unsent, BEFORE_INPUT, Whole
  <2>5. RunsInv'
    BY <1>0, <2>1 DEF CdpInv, Alone, Same, Moved, Asked, Held, Sent, RunsInv, Unsent
  <2>6. WhereInv'
    BY <1>0, <2>1 DEF CdpInv, Alone, Same, Moved, Asked, Held, Sent, WhereInv, Raised, SentInv
  <2>7. WindowInv'
    BY <1>0, <2>1 DEF CdpInv, Alone, Same, Moved, Asked, Held, Sent, WindowInv, Unsent, Checked, Typing, Foreign, Window, StrayOnlyInWindow
  <2>8. GateInv'
    BY <1>0, <2>1 DEF CdpInv, Alone, Same, Moved, Asked, Held, Sent, GateInv, PhaseInv, UndeclaredNeverSubmits
  <2>9. QED  BY <2>2, <2>3, <2>4, <2>5, <2>6, <2>7, <2>8 DEF CdpInv
<1>6. CASE AfterRelease
  <2>1. /\ act.at = "after"
        /\ Moved("settle", act.code) \/ Moved("settle", "flow_submit_cancelled")
    BY <1>6, <1>0, CodeEffect, GotoEffect DEF AfterRelease, Settle, Phases
  <2>2. Types'
    BY <1>0, <2>1 DEF CdpInv, Alone, Same, Moved, Asked, Held, Sent, Types
  <2>3. PhaseInv'
    BY <1>0, <2>1 DEF CdpInv, Alone, Same, Moved, Asked, Held, Sent, PhaseInv, Clicking, Typing
  <2>4. SentInv'
    BY <1>0, <2>1 DEF CdpInv, Alone, Same, Moved, Asked, Held, Sent, SentInv, PhaseInv, Clicking, Typing, Raised, Unsent, BEFORE_INPUT, Whole
  <2>5. RunsInv'
    BY <1>0, <2>1 DEF CdpInv, Alone, Same, Moved, Asked, Held, Sent, RunsInv, Unsent
  <2>6. WhereInv'
    BY <1>0, <2>1 DEF CdpInv, Alone, Same, Moved, Asked, Held, Sent, WhereInv, Raised, SentInv
  <2>7. WindowInv'
    BY <1>0, <2>1 DEF CdpInv, Alone, Same, Moved, Asked, Held, Sent, WindowInv, Unsent, Checked, Typing, Foreign, Window, StrayOnlyInWindow
  <2>8. GateInv'
    BY <1>0, <2>1 DEF CdpInv, Alone, Same, Moved, Asked, Held, Sent, GateInv, PhaseInv, UndeclaredNeverSubmits
  <2>9. QED  BY <2>2, <2>3, <2>4, <2>5, <2>6, <2>7, <2>8 DEF CdpInv
<1>7. CASE FocusKept
  <2>1. /\ act.at \in {"focused", "selected"}
        /\ \/ ~act.stale /\ page.focus /\ Moved(FocusedNext, act.code)
           \/ Moved("settle", "action_focus_moved")
    BY <1>7, <1>0, CodeEffect, GotoEffect DEF FocusKept, Settle, Phases, FocusedNext, ElementAnswers
  <2>2. Types'
    BY <1>0, <2>1 DEF CdpInv, Alone, Same, Moved, Asked, Held, Sent, FocusedNext, Types
  <2>3. PhaseInv'
    BY <1>0, <2>1 DEF CdpInv, Alone, Same, Moved, Asked, Held, Sent, FocusedNext, PhaseInv, Clicking, Typing
  <2>4. SentInv'
    BY <1>0, <2>1 DEF CdpInv, Alone, Same, Moved, Asked, Held, Sent, FocusedNext, SentInv, PhaseInv, Clicking, Typing, Raised, Unsent, BEFORE_INPUT, Whole
  <2>5. RunsInv'
    BY <1>0, <2>1 DEF CdpInv, Alone, Same, Moved, Asked, Held, Sent, FocusedNext, RunsInv, Unsent
  <2>6. WhereInv'
    BY <1>0, <2>1 DEF CdpInv, Alone, Same, Moved, Asked, Held, Sent, FocusedNext, WhereInv, Raised, SentInv
  <2>7. WindowInv'
    BY <1>0, <2>1 DEF CdpInv, Alone, Same, Moved, Asked, Held, Sent, FocusedNext, WindowInv, Unsent, Checked, Typing, Foreign, Window, StrayOnlyInWindow
  <2>8. GateInv'
    BY <1>0, <2>1 DEF CdpInv, Alone, Same, Moved, Asked, Held, Sent, FocusedNext, GateInv, PhaseInv, UndeclaredNeverSubmits
  <2>9. QED  BY <2>2, <2>3, <2>4, <2>5, <2>6, <2>7, <2>8 DEF CdpInv
<1>8. CASE SelectAll
  <2>1. /\ act.at = "selecting"
        /\ Moved("selected", act.code)
    BY <1>8, <1>0, GotoEffect DEF SelectAll, Phases
  <2>2. Types'
    BY <1>0, <2>1 DEF CdpInv, Alone, Same, Moved, Asked, Held, Sent, Types
  <2>3. PhaseInv'
    BY <1>0, <2>1 DEF CdpInv, Alone, Same, Moved, Asked, Held, Sent, PhaseInv, Clicking, Typing
  <2>4. SentInv'
    BY <1>0, <2>1 DEF CdpInv, Alone, Same, Moved, Asked, Held, Sent, SentInv, PhaseInv, Clicking, Typing, Raised, Unsent, BEFORE_INPUT, Whole
  <2>5. RunsInv'
    BY <1>0, <2>1 DEF CdpInv, Alone, Same, Moved, Asked, Held, Sent, RunsInv, Unsent
  <2>6. WhereInv'
    BY <1>0, <2>1 DEF CdpInv, Alone, Same, Moved, Asked, Held, Sent, WhereInv, Raised, SentInv
  <2>7. WindowInv'
    BY <1>0, <2>1 DEF CdpInv, Alone, Same, Moved, Asked, Held, Sent, WindowInv, Unsent, Checked, Typing, Foreign, Window, StrayOnlyInWindow
  <2>8. GateInv'
    BY <1>0, <2>1 DEF CdpInv, Alone, Same, Moved, Asked, Held, Sent, GateInv, PhaseInv, UndeclaredNeverSubmits
  <2>9. QED  BY <2>2, <2>3, <2>4, <2>5, <2>6, <2>7, <2>8 DEF CdpInv
<1>9. CASE ReadDocument
  <2>1. /\ act.at = "read"
        /\ \/ page.doc[act.frame] = "approved" /\ Moved("world", act.code)
           \/ Moved("raise", "action_document_changed")
    BY <1>9, <1>0, GotoEffect, CodeEffect DEF ReadDocument, Phases, Raise
  <2>2. Types'
    BY <1>0, <2>1 DEF CdpInv, Alone, Same, Moved, Asked, Held, Sent, Types
  <2>3. PhaseInv'
    BY <1>0, <2>1 DEF CdpInv, Alone, Same, Moved, Asked, Held, Sent, PhaseInv, Clicking, Typing
  <2>4. SentInv'
    BY <1>0, <2>1 DEF CdpInv, Alone, Same, Moved, Asked, Held, Sent, SentInv, PhaseInv, Clicking, Typing, Raised, Unsent, BEFORE_INPUT, Whole
  <2>5. RunsInv'
    BY <1>0, <2>1 DEF CdpInv, Alone, Same, Moved, Asked, Held, Sent, RunsInv, Unsent
  <2>6. WhereInv'
    BY <1>0, <2>1 DEF CdpInv, Alone, Same, Moved, Asked, Held, Sent, WhereInv, Raised, SentInv
  <2>7. WindowInv'
    BY <1>0, <2>1 DEF CdpInv, Alone, Same, Moved, Asked, Held, Sent, WindowInv, Unsent, Checked, Typing, Foreign, Window, StrayOnlyInWindow
  <2>8. GateInv'
    BY <1>0, <2>1 DEF CdpInv, Alone, Same, Moved, Asked, Held, Sent, GateInv, PhaseInv, UndeclaredNeverSubmits
  <2>9. QED  BY <2>2, <2>3, <2>4, <2>5, <2>6, <2>7, <2>8 DEF CdpInv
<1>10. CASE CallFails
  <2>1. /\ act.at \notin {"idle", "open", "prove", "done"}
        /\ \E p \in {"settle", "raise"} : Moved(p, "rpc")
    BY <1>10, <1>0, CodeEffect DEF CallFails, Phases
  <2>2. Types'
    BY <1>0, <2>1 DEF CdpInv, Alone, Same, Moved, Asked, Held, Sent, Types
  <2>3. PhaseInv'
    BY <1>0, <2>1 DEF CdpInv, Alone, Same, Moved, Asked, Held, Sent, PhaseInv, Clicking, Typing
  <2>4. SentInv'
    BY <1>0, <2>1 DEF CdpInv, Alone, Same, Moved, Asked, Held, Sent, SentInv, PhaseInv, Clicking, Typing, Raised, Unsent, BEFORE_INPUT, Whole
  <2>5. RunsInv'
    BY <1>0, <2>1 DEF CdpInv, Alone, Same, Moved, Asked, Held, Sent, RunsInv, Unsent
  <2>6. WhereInv'
    BY <1>0, <2>1 DEF CdpInv, Alone, Same, Moved, Asked, Held, Sent, WhereInv, Raised, SentInv
  <2>7. WindowInv'
    BY <1>0, <2>1 DEF CdpInv, Alone, Same, Moved, Asked, Held, Sent, WindowInv, Unsent, Checked, Typing, Foreign, Window, StrayOnlyInWindow
  <2>8. GateInv'
    BY <1>0, <2>1 DEF CdpInv, Alone, Same, Moved, Asked, Held, Sent, GateInv, PhaseInv, UndeclaredNeverSubmits
  <2>9. QED  BY <2>2, <2>3, <2>4, <2>5, <2>6, <2>7, <2>8 DEF CdpInv
<1>11. QED  BY <1>0, <1>1, <1>2, <1>3, <1>4, <1>5, <1>6, <1>7, <1>8, <1>9, <1>10

\* A step that sets a flag of the operation.
Rest(a) == <<a.frame, a.prevented, a.moved, a.runs, a.submits, a.result, a.code>>

Flagged(p, stale, armed, recovered) ==
  /\ IsAct(act') /\ Asked(act') = Asked(act) /\ Sent(act') = Sent(act) /\ Rest(act') = Rest(act)
  /\ act'.at = p /\ act'.stale = stale /\ act'.armed = armed /\ act'.recovered = recovered

LEMMA FlagEffect ==
  ASSUME IsAct(act), NEW p \in Phases, NEW stale \in BOOLEAN, NEW armed \in BOOLEAN,
         NEW recovered \in BOOLEAN,
         \/ /\ act' = [act EXCEPT !.at = p, !.stale = stale, !.recovered = recovered]
            /\ armed = act.armed
         \/ act' = [act EXCEPT !.at = p, !.stale = stale] /\ armed = act.armed /\ recovered = act.recovered
         \/ act' = [act EXCEPT !.at = p, !.armed = armed] /\ stale = act.stale /\ recovered = act.recovered
  PROVE  Flagged(p, stale, armed, recovered)
<1>1. /\ DOMAIN act' = DOMAIN act /\ Asked(act') = Asked(act) /\ Sent(act') = Sent(act)
      /\ act'.at = p /\ act'.stale = stale /\ act'.armed = armed /\ act'.recovered = recovered
  BY DEF IsAct, Asked, Sent
<1>2. Rest(act') = Rest(act)
  BY DEF IsAct, Rest
<1>3. QED  BY <1>1, <1>2 DEF IsAct, Asked, Sent, Rest, Flagged

LEMMA GotoFlags ==
  ASSUME IsAct(act), NEW p \in Phases, Goto(p)
  PROVE  Flagged(p, act.stale, act.armed, act.recovered)
BY GotoEffect DEF Flagged, Moved, Same, Rest, Held

LEMMA FlagsKeep ==
  ASSUME CdpInv, ElementReady \/ GatePasses \/ JudgePress \/ AcquireContext
  PROVE  CdpInv'
<1>0. Alone /\ IsAct(act) /\ Flags(act)
  BY DEF ElementReady, GatePasses, JudgePress, AcquireContext, Alone, CdpInv, Types, IsAct, Flags
<1>1. CASE ElementReady
  <2>1. /\ act.at = "wait"
        /\ Flagged("guard", FALSE, act.armed, act.recovered)
    BY <1>1, <1>0, FlagEffect DEF ElementReady, Phases, Flags
  <2>2. Types'
    BY <1>0, <2>1 DEF CdpInv, Alone, Flagged, Asked, Sent, Rest, Types
  <2>3. PhaseInv'
    BY <1>0, <2>1 DEF CdpInv, Alone, Flagged, Asked, Sent, Rest, PhaseInv, Clicking, Typing
  <2>4. SentInv'
    BY <1>0, <2>1 DEF CdpInv, Alone, Flagged, Asked, Sent, Rest, SentInv, PhaseInv, Clicking, Typing, Raised, Unsent, BEFORE_INPUT, Whole
  <2>5. RunsInv'
    BY <1>0, <2>1 DEF CdpInv, Alone, Flagged, Asked, Sent, Rest, RunsInv, Unsent
  <2>6. WhereInv'
    BY <1>0, <2>1 DEF CdpInv, Alone, Flagged, Asked, Sent, Rest, WhereInv, Raised, SentInv
  <2>7. WindowInv'
    BY <1>0, <2>1 DEF CdpInv, Alone, Flagged, Asked, Sent, Rest, WindowInv, Unsent, Checked, Typing, Foreign, Window, StrayOnlyInWindow
  <2>8. GateInv'
    BY <1>0, <2>1 DEF CdpInv, Alone, Flagged, Asked, Sent, Rest, GateInv, PhaseInv, UndeclaredNeverSubmits
  <2>9. QED  BY <2>2, <2>3, <2>4, <2>5, <2>6, <2>7, <2>8 DEF CdpInv
<1>2. CASE GatePasses
  <2>1. /\ act.at = "gate" /\ ~act.stale /\ act.cmd # "enter"
        /\ Flagged(Body, act.stale, act.cmd = "key", act.recovered)
    BY <1>2, <1>0, FlagEffect DEF GatePasses, Phases, Body, Gated, ElementAnswers, Flags
  <2>2. Types'
    BY <1>0, <2>1 DEF CdpInv, Alone, Flagged, Asked, Sent, Rest, Body, Types
  <2>3. PhaseInv'
    BY <1>0, <2>1 DEF CdpInv, Alone, Flagged, Asked, Sent, Rest, Body, PhaseInv, Clicking, Typing
  <2>4. SentInv'
    BY <1>0, <2>1 DEF CdpInv, Alone, Flagged, Asked, Sent, Rest, Body, SentInv, PhaseInv, Clicking, Typing, Raised, Unsent, BEFORE_INPUT, Whole
  <2>5. RunsInv'
    BY <1>0, <2>1 DEF CdpInv, Alone, Flagged, Asked, Sent, Rest, Body, RunsInv, Unsent
  <2>6. WhereInv'
    BY <1>0, <2>1 DEF CdpInv, Alone, Flagged, Asked, Sent, Rest, Body, WhereInv, Raised, SentInv
  <2>7. WindowInv'
    BY <1>0, <2>1 DEF CdpInv, Alone, Flagged, Asked, Sent, Rest, Body, WindowInv, Unsent, Checked, Typing, Foreign, Window, StrayOnlyInWindow
  <2>8. GateInv'
    BY <1>0, <2>1 DEF CdpInv, Alone, Flagged, Asked, Sent, Rest, Body, GateInv, PhaseInv, UndeclaredNeverSubmits
  <2>9. QED  BY <2>2, <2>3, <2>4, <2>5, <2>6, <2>7, <2>8 DEF CdpInv
<1>3. CASE JudgePress
  <2>1. /\ act.at = "judge"
        /\ \/ conn.failing /\ Flagged("cancel", act.stale, act.armed, act.recovered)
           \/ act.gate # "undeclared" /\ Flagged("release", act.stale, act.armed, act.recovered)
           \/ Flagged("release", act.stale, TRUE, act.recovered)
           \/ Moved("cancel", "flow_submit_cancelled")
    <3>1. {"cancel", "release"} \subseteq Phases
      BY DEF Phases
    <3>2. Goto("cancel") => Flagged("cancel", act.stale, act.armed, act.recovered)
      BY <1>0, <3>1, GotoFlags
    <3>3. Goto("release") => Flagged("release", act.stale, act.armed, act.recovered)
      BY <1>0, <3>1, GotoFlags
    <3>4. act' = [act EXCEPT !.at = "release", !.armed = TRUE]
              => Flagged("release", act.stale, TRUE, act.recovered)
      BY <1>0, <3>1, FlagEffect DEF Flags
    <3>5. act' = [act EXCEPT !.at = "cancel", !.code = "flow_submit_cancelled"]
              => Moved("cancel", "flow_submit_cancelled")
      BY <1>0, <3>1, CodeEffect
    <3>6. QED  BY <1>3, <3>2, <3>3, <3>4, <3>5 DEF JudgePress
  <2>2. Types'
    BY <1>0, <2>1 DEF CdpInv, Alone, Flagged, Asked, Sent, Rest, Moved, Same, Held, Types
  <2>3. PhaseInv'
    BY <1>0, <2>1 DEF CdpInv, Alone, Flagged, Asked, Sent, Rest, Moved, Same, Held, PhaseInv, Clicking, Typing
  <2>4. SentInv'
    BY <1>0, <2>1 DEF CdpInv, Alone, Flagged, Asked, Sent, Rest, Moved, Same, Held, SentInv, PhaseInv, Clicking, Typing, Raised, Unsent, BEFORE_INPUT, Whole
  <2>5. RunsInv'
    BY <1>0, <2>1 DEF CdpInv, Alone, Flagged, Asked, Sent, Rest, Moved, Same, Held, RunsInv, Unsent
  <2>6. WhereInv'
    BY <1>0, <2>1 DEF CdpInv, Alone, Flagged, Asked, Sent, Rest, Moved, Same, Held, WhereInv, Raised, SentInv
  <2>7. WindowInv'
    BY <1>0, <2>1 DEF CdpInv, Alone, Flagged, Asked, Sent, Rest, Moved, Same, Held, WindowInv, Unsent, Checked, Typing, Foreign, Window, StrayOnlyInWindow
  <2>8. GateInv'
    BY <1>0, <2>1 DEF CdpInv, Alone, Flagged, Asked, Sent, Rest, Moved, Same, Held, GateInv, PhaseInv, UndeclaredNeverSubmits
  <2>9. QED  BY <2>2, <2>3, <2>4, <2>5, <2>6, <2>7, <2>8 DEF CdpInv
<1>4. CASE AcquireContext
  <2>1. /\ act.at = "world"
        /\ \/ \E r \in BOOLEAN : (act.recovered => r) /\ Flagged("eval", FALSE, act.armed, r)
           \/ act.runs = 0 /\ Moved("raise", "action_frame_unknown")
    <3>1. {"eval", "raise"} \subseteq Phases
      BY DEF Phases
    <3>2. ASSUME NEW lost \in BOOLEAN,
                 act' = [act EXCEPT !.at = "eval", !.stale = FALSE, !.recovered = @ \/ lost]
          PROVE  Flagged("eval", FALSE, act.armed, act.recovered \/ lost)
      BY <1>0, <3>1, <3>2, FlagEffect DEF Flags
    <3>3. Raise("action_frame_unknown") => Moved("raise", "action_frame_unknown")
      BY <1>0, <3>1, CodeEffect DEF Raise
    <3>4. QED  BY <1>4, <3>2, <3>3 DEF AcquireContext
  <2>2. Types'
    BY <1>0, <2>1 DEF CdpInv, Alone, Flagged, Asked, Sent, Rest, Moved, Same, Held, Types
  <2>3. PhaseInv'
    BY <1>0, <2>1 DEF CdpInv, Alone, Flagged, Asked, Sent, Rest, Moved, Same, Held, PhaseInv, Clicking, Typing
  <2>4. SentInv'
    BY <1>0, <2>1 DEF CdpInv, Alone, Flagged, Asked, Sent, Rest, Moved, Same, Held, SentInv, PhaseInv, Clicking, Typing, Raised, Unsent, BEFORE_INPUT, Whole
  <2>5. RunsInv'
    BY <1>0, <2>1 DEF CdpInv, Alone, Flagged, Asked, Sent, Rest, Moved, Same, Held, RunsInv, Unsent
  <2>6. WhereInv'
    BY <1>0, <2>1 DEF CdpInv, Alone, Flagged, Asked, Sent, Rest, Moved, Same, Held, WhereInv, Raised, SentInv
  <2>7. WindowInv'
    BY <1>0, <2>1 DEF CdpInv, Alone, Flagged, Asked, Sent, Rest, Moved, Same, Held, WindowInv, Unsent, Checked, Typing, Foreign, Window, StrayOnlyInWindow
  <2>8. GateInv'
    BY <1>0, <2>1 DEF CdpInv, Alone, Flagged, Asked, Sent, Rest, Moved, Same, Held, GateInv, PhaseInv, UndeclaredNeverSubmits
  <2>9. QED  BY <2>2, <2>3, <2>4, <2>5, <2>6, <2>7, <2>8 DEF CdpInv
<1>5. QED  BY <1>0, <1>1, <1>2, <1>3, <1>4

\* A script, which runs or not, is answered or not, and may be sent again.
Scripted(a) == <<a.frame, a.stale, a.armed, a.prevented, a.moved, a.submits, a.result>>

LEMMA EvaluateKeeps ==
  ASSUME CdpInv, Evaluate
  PROVE  CdpInv'
<1>0. UNCHANGED <<page, pins, conn, first>> /\ IsAct(act) /\ act.at = "eval"
  BY DEF Evaluate, CdpInv, Types
<1>1. /\ Asked(act') = Asked(act) /\ Scripted(act') = Scripted(act) /\ DOMAIN act' = DOMAIN act
      /\ \/ Sent(act') = Sent(act) /\ act'.runs = act.runs
         \/ /\ act'.sent = act.sent \cup {"script"} /\ act'.runs = act.runs + 1
            /\ act'.stray = IF Astray("script") THEN act.stray \cup {"script"} ELSE act.stray
      /\ \/ act'.at = "raise" /\ act'.code = "rpc" /\ act'.recovered = act.recovered
         \/ /\ act'.at = "raise" /\ act'.code = act.code /\ act'.recovered = act.recovered
            /\ act'.sent = act.sent \cup {"script"}
         \/ /\ act'.at = "world" /\ act'.code = act.code /\ act'.recovered = TRUE
            /\ act.effect = "read_only" /\ ~act.recovered
  <2>1. CASE act' = Ran
    BY <1>0, <2>1 DEF IsAct, Ran, Landed, Asked, Scripted, Sent
  <2>2. CASE act' = [Ran EXCEPT !.code = "rpc"]
    BY <1>0, <2>2 DEF IsAct, Ran, Landed, Asked, Scripted, Sent
  <2>3. CASE act' = LostContext(Ran)
    BY <1>0, <2>3 DEF IsAct, Ran, Landed, LostContext, Resent, Asked, Scripted, Sent
  <2>4. CASE act' = LostContext(act)
    BY <1>0, <2>4 DEF IsAct, LostContext, Resent, Asked, Scripted, Sent
  <2>5. QED  BY <2>1, <2>2, <2>3, <2>4 DEF Evaluate
<1>2. IsAct(act')
  <2>1. {"raise", "world"} \subseteq Phases /\ "script" \in Kinds
    BY DEF Phases, Kinds
  <2>0. act.recovered \in BOOLEAN /\ act.runs \in Nat
    BY <1>0 DEF IsAct
  <2>2. act'.at \in Phases /\ act'.runs \in Nat /\ act'.recovered \in BOOLEAN
    <3>1. act'.at \in Phases
      BY <1>1, <2>1
    <3>2. act'.runs \in Nat
      BY <1>1, <2>0
    <3>3. act'.recovered \in BOOLEAN
      BY <1>1, <2>0
    <3>4. QED  BY <3>1, <3>2, <3>3
  <2>3. act'.sent \subseteq Kinds /\ act'.stray \subseteq Kinds
    BY <1>0, <1>1, <2>1 DEF IsAct, Sent
  <2>4. QED  BY <1>0, <1>1, <2>2, <2>3 DEF IsAct, Asked, Scripted
<1>11. /\ act.code = "none" /\ Whole' = {"script"} /\ act.sent \cup {"script"} = {"script"}
       /\ act.runs \in {0, 1} /\ (act.runs = 1 => act.effect = "read_only" /\ act.recovered)
       /\ (act.runs = 0 => act.sent = {}) /\ act.sent \subseteq {"script"}
  <2>1. act.cmd = "js" /\ act'.cmd = act.cmd /\ act.runs \in Nat
    BY <1>0, <1>1 DEF CdpInv, PhaseInv, Asked, IsAct
  <2>2. QED  BY <1>0, <2>1 DEF CdpInv, SentInv, RunsInv, Raised, Whole
<1>3. Types'
  BY <1>0, <1>1, <1>2 DEF CdpInv, Asked, Scripted, Sent, Astray, Types
<1>4. PhaseInv'
  BY <1>0, <1>1, <1>2 DEF CdpInv, Asked, Scripted, Sent, Astray, PhaseInv, Clicking, Typing
<1>5. SentInv'
  BY <1>0, <1>1, <1>11 DEF SentInv, Clicking, Typing, Raised, Unsent, Sent, BEFORE_INPUT
<1>6. RunsInv'
  BY <1>0, <1>1, <1>11 DEF RunsInv, Unsent, Asked
<1>7. WhereInv'
  BY <1>0, <1>1, <1>2 DEF CdpInv, Asked, Scripted, Sent, Astray, WhereInv, Raised, SentInv
<1>8. WindowInv'
  BY <1>0, <1>1, <1>2 DEF CdpInv, Asked, Scripted, Sent, Astray, WindowInv, WhereInv, Unsent, Checked, Typing, Raised, Foreign, Window, StrayOnlyInWindow
<1>9. GateInv'
  BY <1>0, <1>1, <1>2 DEF CdpInv, Asked, Scripted, Sent, Astray, GateInv, PhaseInv, UndeclaredNeverSubmits
<1>10. QED  BY <1>3, <1>4, <1>5, <1>6, <1>7, <1>8, <1>9 DEF CdpInv

\* The answer.
Answering(a) == <<a.frame, a.stale, a.armed, a.prevented, a.recovered, a.moved, a.runs, a.submits, a.code>>

LEMMA ConcludeKeeps ==
  ASSUME CdpInv, Conclude
  PROVE  CdpInv'
<1>0. UNCHANGED <<page, pins, conn, first>> /\ IsAct(act) /\ act.at = "raise"
  BY DEF Conclude, CdpInv, Types
<1>1. /\ Asked(act') = Asked(act) /\ Sent(act') = Sent(act) /\ Answering(act') = Answering(act)
      /\ DOMAIN act' = DOMAIN act /\ act'.at \in {"done", "close"}
      /\ act'.result = "ok" => act.code = "none"
      /\ act'.result = "definite" /\ act.effect = "mutating" => act.code \in BEFORE_INPUT
  <2>1. Asked(act') = Asked(act) /\ Sent(act') = Sent(act) /\ DOMAIN act' = DOMAIN act
    BY <1>0 DEF IsAct, Conclude, Asked, Sent
  <2>2. /\ Answering(act') = Answering(act) /\ act'.at \in {"done", "close"}
        /\ act'.result = Outcome
    BY <1>0 DEF IsAct, Conclude, Answering
  <2>3. QED  BY <2>1, <2>2 DEF Outcome
<1>2. IsAct(act')
  <2>1. {"done", "close"} \subseteq Phases
    BY DEF Phases
  <2>2. QED  BY <1>0, <1>1, <2>1 DEF IsAct, Asked, Sent, Answering
<1>3. Types'
  BY <1>0, <1>1, <1>2 DEF CdpInv, Asked, Sent, Answering, Types
<1>4. PhaseInv'
  BY <1>0, <1>1, <1>2 DEF CdpInv, Asked, Sent, Answering, PhaseInv, Clicking, Typing
<1>5. SentInv'
  BY <1>0, <1>1, <1>2 DEF CdpInv, Asked, Sent, Answering, SentInv, PhaseInv, Clicking, Typing, Raised, Unsent, BEFORE_INPUT, Whole
<1>6. RunsInv'
  BY <1>0, <1>1, <1>2 DEF CdpInv, Asked, Sent, Answering, RunsInv, Unsent
<1>7. WhereInv'
  BY <1>0, <1>1, <1>2 DEF CdpInv, Asked, Sent, Answering, WhereInv, Raised, SentInv
<1>8. WindowInv'
  BY <1>0, <1>1, <1>2 DEF CdpInv, Asked, Sent, Answering, WindowInv, WhereInv, Unsent, Checked, Typing, Raised, Foreign, Window, StrayOnlyInWindow
<1>9. GateInv'
  BY <1>0, <1>1, <1>2 DEF CdpInv, Asked, Sent, Answering, GateInv, PhaseInv, UndeclaredNeverSubmits
<1>10. QED  BY <1>3, <1>4, <1>5, <1>6, <1>7, <1>8, <1>9 DEF CdpInv

LEMMA CloseKeeps ==
  ASSUME CdpInv, Close
  PROVE  CdpInv'
<1>0. /\ UNCHANGED <<page, pins, first>> /\ IsAct(act) /\ act.at = "close"
      /\ IsConn(conn') /\ conn'.tab = conn.tab
  BY DEF Close, CdpInv, Types, IsConn
<1>1. /\ Asked(act') = Asked(act) /\ Sent(act') = Sent(act) /\ Answering(act') = Answering(act)
      /\ DOMAIN act' = DOMAIN act /\ act'.at = "done"
      /\ act'.result = "ok" => act.result = "ok"
      /\ act'.result = "definite" /\ act.effect = "mutating" => act.result = "definite"
  <2>1. Asked(act') = Asked(act) /\ Sent(act') = Sent(act) /\ DOMAIN act' = DOMAIN act
    BY <1>0 DEF IsAct, Close, Asked, Sent
  <2>2. PICK failed \in BOOLEAN :
          /\ Answering(act') = Answering(act) /\ act'.at = "done"
          /\ act'.result = IF ~failed \/ act.result # "ok" THEN act.result
                           ELSE IF act.effect = "read_only" THEN "definite" ELSE "unknown"
    BY <1>0 DEF IsAct, Close, Answering
  <2>3. QED  BY <2>1, <2>2
<1>2. IsAct(act')
  <2>1. "done" \in Phases
    BY DEF Phases
  <2>2. QED  BY <1>0, <1>1, <2>1 DEF IsAct, Asked, Sent, Answering
<1>3. Types'
  BY <1>0, <1>1, <1>2 DEF CdpInv, Asked, Sent, Answering, Types
<1>4. PhaseInv'
  BY <1>0, <1>1, <1>2 DEF CdpInv, Asked, Sent, Answering, PhaseInv, Clicking, Typing
<1>5. SentInv'
  BY <1>0, <1>1, <1>2 DEF CdpInv, Asked, Sent, Answering, SentInv, PhaseInv, Clicking, Typing, Raised, Unsent, BEFORE_INPUT, Whole
<1>6. RunsInv'
  BY <1>0, <1>1, <1>2 DEF CdpInv, Asked, Sent, Answering, RunsInv, Unsent
<1>7. WhereInv'
  BY <1>0, <1>1, <1>2 DEF CdpInv, Asked, Sent, Answering, WhereInv, Raised, SentInv
<1>8. WindowInv'
  BY <1>0, <1>1, <1>2 DEF CdpInv, Asked, Sent, Answering, WindowInv, WhereInv, Unsent, Checked, Typing, Raised, Foreign, Window, StrayOnlyInWindow
<1>9. GateInv'
  BY <1>0, <1>1, <1>2 DEF CdpInv, Asked, Sent, Answering, GateInv, PhaseInv, UndeclaredNeverSubmits
<1>10. QED  BY <1>3, <1>4, <1>5, <1>6, <1>7, <1>8, <1>9 DEF CdpInv

\* The dialog that was marked becomes the error of the action.
LEMMA SettleKeeps ==
  ASSUME CdpInv, SettleAct \/ DialogTaken
  PROVE  CdpInv'
<1>0. /\ UNCHANGED <<page, pins, first>> /\ IsAct(act)
      /\ IsConn(conn') /\ conn'.tab = conn.tab
  BY DEF SettleAct, DialogTaken, CdpInv, Types, IsConn
<1>1. /\ act.at \in {"settle", "focused", "selected"}
      /\ \E p \in Raised : \/ Moved(p, "action_dialog_opened")
                           \/ p = "raise" /\ act.at = "settle" /\ ~conn.failing /\ Moved(p, act.code)
  <2>1. {"settle", "raise"} \subseteq Phases
    BY DEF Phases
  <2>2. Raise("action_dialog_opened") => Moved("raise", "action_dialog_opened")
    BY <1>0, <2>1, CodeEffect DEF Raise
  <2>3. Settle("action_dialog_opened") => Moved("settle", "action_dialog_opened")
    BY <1>0, <2>1, CodeEffect DEF Settle
  <2>4. Goto("raise") => Moved("raise", act.code)
    BY <1>0, <2>1, GotoEffect
  <2>5. QED  BY <2>2, <2>3, <2>4 DEF SettleAct, DialogTaken, Raised
<1>3. Types'
  BY <1>0, <1>1 DEF CdpInv, Moved, Same, Asked, Held, Sent, Raised, Types
<1>4. PhaseInv'
  BY <1>0, <1>1 DEF CdpInv, Moved, Same, Asked, Held, Sent, Raised, PhaseInv, Clicking, Typing
<1>5. SentInv'
  BY <1>0, <1>1 DEF CdpInv, Moved, Same, Asked, Held, Sent, Raised, SentInv, PhaseInv, Clicking, Typing, Raised, Unsent, BEFORE_INPUT, Whole
<1>6. RunsInv'
  BY <1>0, <1>1 DEF CdpInv, Moved, Same, Asked, Held, Sent, Raised, RunsInv, Unsent
<1>7. WhereInv'
  BY <1>0, <1>1 DEF CdpInv, Moved, Same, Asked, Held, Sent, Raised, WhereInv, Raised, SentInv
<1>8. WindowInv'
  BY <1>0, <1>1 DEF CdpInv, Moved, Same, Asked, Held, Sent, Raised, WindowInv, WhereInv, Unsent, Checked, Typing, Raised, Foreign, Window, StrayOnlyInWindow
<1>9. GateInv'
  BY <1>0, <1>1 DEF CdpInv, Moved, Same, Asked, Held, Sent, Raised, GateInv, PhaseInv, UndeclaredNeverSubmits
<1>10. QED  BY <1>3, <1>4, <1>5, <1>6, <1>7, <1>8, <1>9 DEF CdpInv

--------------------------------------------------------------------------------
(* The page and the connection.                                             *)

Moving(a) == <<a.frame, a.armed, a.prevented, a.recovered, a.runs, a.submits, a.result, a.code, a.at>>

LEMMA PageKeeps ==
  ASSUME CdpInv, NEW f \in FrameIds, Navigate(f) \/ (f \in Kids /\ FrameComesOrGoes(f)) \/ Handler
  PROVE  CdpInv'
<1>0. /\ UNCHANGED <<pins, conn, first>> /\ IsAct(act) /\ IsPage(page) /\ act.stale \in BOOLEAN
      /\ act.at \notin {"idle", "close"}
  BY DEF Navigate, FrameComesOrGoes, Handler, Busy, CdpInv, Types, IsAct
<1>1. /\ Asked(act') = Asked(act) /\ Sent(act') = Sent(act) /\ Moving(act') = Moving(act)
      /\ DOMAIN act' = DOMAIN act /\ act'.stale \in BOOLEAN
      /\ act'.stale = act.stale \/ act'.stale = TRUE
      /\ act'.moved = act.moved \/ act'.moved = act.moved \cup {act.at}
  BY <1>0 DEF IsAct, Navigate, FrameComesOrGoes, Handler, Asked, Sent, Moving
<1>2. /\ IsPage(page')
      /\ act.frame \in FrameIds /\ page'.doc[act.frame] # "approved" /\ page.doc[act.frame] = "approved" =>
            act'.stale = TRUE /\ act'.moved = act.moved \cup {act.at}
      /\ ~page'.focus /\ page.focus => act'.moved = act.moved \cup {act.at}
  <2>1. CASE Navigate(f)
    <3>1. PICK d \in {"approved", "other"} :
             page' = [page EXCEPT !.doc = [page.doc EXCEPT ![f] = d], !.moves = page.moves + 1]
      BY <1>0, <2>1 DEF Navigate, IsPage
    <3>2. [page.doc EXCEPT ![f] = d] \in [FrameIds -> {"approved", "other"}]
      BY <1>0 DEF IsPage
    <3>3. IsPage(page') /\ page'.doc = [page.doc EXCEPT ![f] = d] /\ page'.focus = page.focus
      BY <1>0, <3>1, <3>2 DEF IsPage
    <3>4. act.frame = f => act'.stale = TRUE /\ act'.moved = act.moved \cup {act.at}
      BY <1>0, <2>1 DEF Navigate, IsAct
    <3>5. QED  BY <1>0, <3>3, <3>4 DEF IsPage
  <2>2. CASE f \in Kids /\ FrameComesOrGoes(f)
    <3>1. PICK kids \in SUBSET Kids :
             page' = [page EXCEPT !.kids = kids, !.doc = [page.doc EXCEPT ![f] = "approved"],
                                  !.moves = page.moves + 1]
      <4>1. PICK kids : /\ kids = IF f \in page.kids THEN page.kids \ {f} ELSE page.kids \cup {f}
                        /\ page' = [page EXCEPT !.kids = kids, !.doc = [page.doc EXCEPT ![f] = "approved"],
                                                !.moves = page.moves + 1]
        BY <1>0, <2>2 DEF FrameComesOrGoes, IsPage
      <4>2. f \in Kids
        BY <2>2
      <4>3. QED  BY <1>0, <4>1, <4>2 DEF IsPage
    <3>2. [page.doc EXCEPT ![f] = "approved"] \in [FrameIds -> {"approved", "other"}]
      BY <1>0 DEF IsPage
    <3>3. /\ IsPage(page') /\ page'.doc = [page.doc EXCEPT ![f] = "approved"]
          /\ page'.focus = page.focus
      BY <1>0, <3>1, <3>2 DEF IsPage
    <3>4. QED  BY <1>0, <3>3 DEF IsPage
  <2>3. CASE Handler
    <3>1. \/ page' = [page EXCEPT !.form = ~page.form, !.moves = page.moves + 1]
          \/ page' = [page EXCEPT !.focus = ~page.focus, !.moves = page.moves + 1]
             /\ act' = [act EXCEPT !.moved = act.moved \cup {act.at}]
      BY <1>0, <2>3 DEF Handler, IsPage, IsAct
    <3>2. DOMAIN page' = DOMAIN page /\ page'.doc = page.doc /\ page'.kids = page.kids
          /\ page'.dialogs = page.dialogs /\ page'.moves = page.moves + 1
      BY <1>0, <3>1 DEF IsPage
    <3>5. page'.form \in BOOLEAN /\ page'.focus \in BOOLEAN
      BY <1>0, <3>1 DEF IsPage
    <3>3. ~page'.focus /\ page.focus => act'.moved = act.moved \cup {act.at}
      BY <1>0, <3>1 DEF IsPage, IsAct
    <3>4. QED  BY <1>0, <3>2, <3>3, <3>5 DEF IsPage
  <2>4. QED  BY <2>1, <2>2, <2>3
<1>11. IsAct(act')
  <2>1. act'.moved \subseteq Phases
    BY <1>0, <1>1 DEF IsAct
  <2>2. QED  BY <1>0, <1>1, <2>1 DEF IsAct, Asked, Sent, Moving
<1>12. StrayOnlyInWindow'
  <2>1. act.moved \subseteq act'.moved /\ act'.stray = act.stray
    BY <1>1 DEF Sent
  <2>2. QED  BY <2>1 DEF CdpInv, WindowInv, StrayOnlyInWindow, Window
<1>3. Types'
  BY <1>0, <1>1, <1>2, <1>11, <1>12 DEF CdpInv, Asked, Sent, Moving, Types
<1>4. PhaseInv'
  BY <1>0, <1>1, <1>2, <1>11, <1>12 DEF CdpInv, Asked, Sent, Moving, PhaseInv, Clicking, Typing
<1>5. SentInv'
  BY <1>0, <1>1, <1>2, <1>11, <1>12 DEF CdpInv, Asked, Sent, Moving, SentInv, PhaseInv, Clicking, Typing, Raised, Unsent, BEFORE_INPUT, Whole
<1>6. RunsInv'
  BY <1>0, <1>1, <1>2, <1>11, <1>12 DEF CdpInv, Asked, Sent, Moving, RunsInv, Unsent
<1>7. WhereInv'
  BY <1>0, <1>1, <1>2, <1>11, <1>12 DEF CdpInv, Asked, Sent, Moving, WhereInv, Raised, SentInv
<1>8. WindowInv'
  <2>1. /\ act'.at = act.at /\ act'.check = act.check /\ act'.frame = act.frame
        /\ act'.stray = act.stray
    BY <1>1 DEF Asked, Sent, Moving
  <2>2. act.at \in Checked \cup {"world", "eval"} => act.frame \in FrameIds
    BY <1>0 DEF CdpInv, WhereInv, Checked, Typing, Raised, IsAct
  <2>3. act.at \in Checked \cup {"world", "eval"} /\ Foreign' /\ ~Foreign =>
            act'.stale = TRUE /\ act.at \in act'.moved
    BY <1>2, <2>1, <2>2 DEF Foreign
  <2>4. act.moved \subseteq act'.moved /\ (~act'.stale => ~act.stale)
    BY <1>1
  <2>5. act'.at \in Checked /\ ~act'.stale => ~Foreign'
    BY <2>1, <2>3, <2>4 DEF CdpInv, WindowInv
  <2>6. act'.at \in {"gate", "press"} /\ Foreign' => act'.moved \cap {"gate", "press"} # {}
    BY <2>1, <2>3, <2>4 DEF CdpInv, WindowInv, Window, Checked
  <2>7. act'.at \in {"judge", "release"} /\ Foreign' =>
            act'.moved \cap {"gate", "press", "judge", "release"} # {}
    BY <2>1, <2>3, <2>4 DEF CdpInv, WindowInv, Window, Checked
  <2>8. act'.at \in {"text", "key"} /\ (Foreign' \/ ~page'.focus) => act'.at \in act'.moved
    BY <1>2, <2>1, <2>3, <2>4 DEF CdpInv, WindowInv, Checked, Typing
  <2>9. act'.at \in {"world", "eval"} /\ Foreign' => act'.moved \cap {"world", "eval"} # {}
    BY <2>1, <2>3, <2>4 DEF CdpInv, WindowInv, Window
  <2>10. act'.at \in Unsent => act'.stray = {}
    BY <2>1 DEF CdpInv, WindowInv
  <2>11. QED  BY <1>12, <2>5, <2>6, <2>7, <2>8, <2>9, <2>10 DEF WindowInv, Window
<1>9. GateInv'
  BY <1>0, <1>1, <1>2, <1>11, <1>12 DEF CdpInv, Asked, Sent, Moving, GateInv, PhaseInv, UndeclaredNeverSubmits
<1>10. QED  BY <1>3, <1>4, <1>5, <1>6, <1>7, <1>8, <1>9 DEF CdpInv

LEMMA DialogKeeps ==
  ASSUME CdpInv, DialogOpens
  PROVE  CdpInv'
<1>0. /\ UNCHANGED <<pins, act, first>> /\ IsPage(page) /\ IsConn(conn)
      /\ page' = [page EXCEPT !.dialogs = page.dialogs + 1]
      /\ conn' = [conn EXCEPT !.seen = conn.seen + 1, !.failing = TRUE]
  BY DEF DialogOpens, CdpInv, Types, IsPage, IsConn
<1>1. IsPage(page') /\ page'.doc = page.doc /\ page'.focus = page.focus /\ page'.form = page.form
  <2>1. /\ DOMAIN page' = DOMAIN page /\ page'.doc = page.doc /\ page'.kids = page.kids
        /\ page'.form = page.form /\ page'.focus = page.focus /\ page'.moves = page.moves
        /\ page'.dialogs = page.dialogs + 1
    BY <1>0 DEF IsPage
  <2>2. QED  BY <1>0, <2>1 DEF IsPage
<1>2. IsConn(conn') /\ conn'.tab = conn.tab /\ conn'.failing = TRUE
  BY <1>0 DEF IsConn
<1>3. Types'
  BY <1>0, <1>1, <1>2 DEF CdpInv, IsAct, Types
<1>4. PhaseInv'
  BY <1>0, <1>1, <1>2 DEF CdpInv, IsAct, PhaseInv, Clicking, Typing
<1>5. SentInv'
  BY <1>0, <1>1, <1>2 DEF CdpInv, IsAct, SentInv, PhaseInv, Clicking, Typing, Raised, Unsent, BEFORE_INPUT, Whole
<1>6. RunsInv'
  BY <1>0, <1>1, <1>2 DEF CdpInv, IsAct, RunsInv, Unsent
<1>7. WhereInv'
  BY <1>0, <1>1, <1>2 DEF CdpInv, IsAct, WhereInv, Raised, SentInv
<1>8. WindowInv'
  BY <1>0, <1>1, <1>2 DEF CdpInv, IsAct, WindowInv, WhereInv, Unsent, Checked, Typing, Raised, Foreign, Window, StrayOnlyInWindow
<1>9. GateInv'
  BY <1>0, <1>1, <1>2 DEF CdpInv, IsAct, GateInv, PhaseInv, UndeclaredNeverSubmits
<1>10. QED  BY <1>3, <1>4, <1>5, <1>6, <1>7, <1>8, <1>9 DEF CdpInv

LEMMA LostKeeps ==
  ASSUME CdpInv, SessionLost
  PROVE  CdpInv'
<1>0. UNCHANGED <<page, act, first>> /\ IsPins(pins) /\ IsConn(conn)
  BY DEF SessionLost, CdpInv, Types
<1>1. IsConn(conn') /\ conn'.tab = conn.tab /\ conn'.failing = conn.failing
  BY <1>0 DEF SessionLost, IsConn
<1>2. IsPins(pins') /\ pins'.lost = TRUE /\ pins'.held = pins.held
  <2>1. /\ [m \in Names |-> None] \in [Names -> FrameIds \cup {None}]
        /\ pins' = [pins EXCEPT !.lost = TRUE, !.target = None, !.frames = [m \in Names |-> None]]
    BY DEF SessionLost
  <2>2. QED  BY <1>0, <2>1 DEF IsPins
<1>3. Types'
  BY <1>0, <1>1, <1>2 DEF CdpInv, IsAct, Types
<1>4. PhaseInv'
  BY <1>0, <1>1, <1>2 DEF CdpInv, IsAct, PhaseInv, Clicking, Typing
<1>5. SentInv'
  BY <1>0, <1>1, <1>2 DEF CdpInv, IsAct, SentInv, PhaseInv, Clicking, Typing, Raised, Unsent, BEFORE_INPUT, Whole
<1>6. RunsInv'
  BY <1>0, <1>1, <1>2 DEF CdpInv, IsAct, RunsInv, Unsent
<1>7. WhereInv'
  BY <1>0, <1>1, <1>2 DEF CdpInv, IsAct, WhereInv, Raised, SentInv
<1>8. WindowInv'
  BY <1>0, <1>1, <1>2 DEF CdpInv, IsAct, WindowInv, WhereInv, Unsent, Checked, Typing, Raised, Foreign, Window, StrayOnlyInWindow
<1>9. GateInv'
  BY <1>0, <1>1, <1>2 DEF CdpInv, IsAct, GateInv, PhaseInv, UndeclaredNeverSubmits
<1>10. QED  BY <1>3, <1>4, <1>5, <1>6, <1>7, <1>8, <1>9 DEF CdpInv

--------------------------------------------------------------------------------
(* The frame, and the openings.                                             *)

Pinned(a) == <<a.stale, a.armed, a.prevented, a.recovered, a.moved, a.runs, a.submits, a.result, a.code>>

LEMMA PinKeeps ==
  ASSUME CdpInv, PinFrame
  PROVE  CdpInv'
<1>0. /\ UNCHANGED <<page, conn>> /\ IsAct(act) /\ IsPage(page) /\ IsPins(pins) /\ act.at = "frame"
      /\ first \in [Names -> FrameIds \cup {None}] /\ act.name \in Names /\ ~pins.lost
  BY DEF PinFrame, Live, CdpInv, Types, IsAct
<1>1. PICK f \in Reaches(act.name) :
        /\ pins' = [pins EXCEPT !.frames = [pins.frames EXCEPT ![act.name] = f]]
        /\ first' = IF first[act.name] = None THEN [first EXCEPT ![act.name] = f] ELSE first
        /\ act' = [act EXCEPT !.frame = f,
                              !.at = IF act.cmd # "js" THEN "wait"
                                     ELSE IF act.check THEN "read" ELSE "world"]
  BY <1>0 DEF PinFrame, IsPins
<1>2. /\ f \in FrameIds
      /\ act.name = "main" => f = "main"
      /\ act.name # "main" /\ pins.frames[act.name] # None => f = pins.frames[act.name]
  BY <1>0, <1>1 DEF Reaches, AtName, Present, IsPage, IsPins, FrameIds
<1>11. f # None /\ pins.frames[act.name] = first[act.name] /\ first["main"] \in {None, "main"}
  BY <1>0, <1>2, NoneAssumption DEF CdpInv, WhereInv, FrameIds, Kids
<1>12. /\ IsPins(pins') /\ pins'.lost = pins.lost /\ pins'.held = pins.held
       /\ pins'.frames = [pins.frames EXCEPT ![act.name] = f]
  <2>1. [pins.frames EXCEPT ![act.name] = f] \in [Names -> FrameIds \cup {None}]
    BY <1>0, <1>2 DEF IsPins
  <2>2. QED  BY <1>0, <1>1, <2>1 DEF IsPins
<1>13. /\ first' \in [Names -> FrameIds \cup {None}] /\ first'[act.name] = f
       /\ \A m \in Names : m # act.name => first'[m] = first[m]
  BY <1>0, <1>1, <1>2, <1>11
<1>14. /\ Asked(act') = Asked(act) /\ Sent(act') = Sent(act) /\ Pinned(act') = Pinned(act)
       /\ DOMAIN act' = DOMAIN act /\ act'.frame = f
       /\ act'.at \in {"wait", "read", "world"}
       /\ act'.at = "wait" => act.cmd # "js"
       /\ act'.at \in {"read", "world"} => act.cmd = "js"
       /\ act'.at = "world" => ~act.check
  <2>1. Asked(act') = Asked(act) /\ Sent(act') = Sent(act) /\ Pinned(act') = Pinned(act)
    BY <1>0, <1>1 DEF IsAct, Asked, Sent, Pinned
  <2>2. /\ DOMAIN act' = DOMAIN act /\ act'.frame = f
        /\ act'.at = IF act.cmd # "js" THEN "wait" ELSE IF act.check THEN "read" ELSE "world"
    BY <1>0, <1>1 DEF IsAct
  <2>3. QED  BY <2>1, <2>2
<1>15. IsAct(act')
  <2>1. act'.at \in Phases /\ act'.frame \in FrameIds \cup {None}
    BY <1>2, <1>14 DEF Phases
  <2>2. QED  BY <1>0, <1>14, <2>1 DEF IsAct, Asked, Sent, Pinned
<1>3. Types'
  BY <1>0, <1>11, <1>12, <1>13, <1>14, <1>15 DEF CdpInv, Asked, Sent, Pinned, Types
<1>4. PhaseInv'
  BY <1>0, <1>11, <1>12, <1>13, <1>14, <1>15 DEF CdpInv, Asked, Sent, Pinned, PhaseInv, Clicking, Typing
<1>5. SentInv'
  BY <1>0, <1>11, <1>12, <1>13, <1>14, <1>15 DEF CdpInv, Asked, Sent, Pinned, SentInv, PhaseInv, Clicking, Typing, Raised, Unsent, BEFORE_INPUT, Whole
<1>6. RunsInv'
  BY <1>0, <1>11, <1>12, <1>13, <1>14, <1>15 DEF CdpInv, Asked, Sent, Pinned, RunsInv, Unsent
<1>7. WhereInv'
  <2>1. first'["main"] \in {None, "main"}
    BY <1>0, <1>2, <1>11, <1>13 DEF Names
  <2>2. \A m \in Names : pins'.frames[m] = first'[m]
    BY <1>0, <1>12, <1>13 DEF CdpInv, WhereInv, IsPins
  <2>3. conn.tab = "mine" /\ act'.name = act.name /\ act'.frame = first'[act.name] /\ act'.frame # None
    BY <1>0, <1>11, <1>13, <1>14 DEF CdpInv, WhereInv, Asked
  <2>4. QED  BY <1>0, <1>12, <1>14, <2>1, <2>2, <2>3 DEF WhereInv, Raised
<1>8. WindowInv'
  BY <1>0, <1>11, <1>12, <1>13, <1>14, <1>15 DEF CdpInv, Asked, Sent, Pinned, WindowInv, WhereInv, Unsent, Checked, Typing, Raised, Foreign, Window, StrayOnlyInWindow
<1>9. GateInv'
  BY <1>0, <1>11, <1>12, <1>13, <1>14, <1>15 DEF CdpInv, Asked, Sent, Pinned, GateInv, PhaseInv, UndeclaredNeverSubmits
<1>10. QED  BY <1>3, <1>4, <1>5, <1>6, <1>7, <1>8, <1>9 DEF CdpInv

\* An operation as it begins.
Begun(at) ==
  /\ IsAct(act') /\ act'.at = at /\ act'.frame = None /\ ~act'.armed /\ ~act'.submits
  /\ act'.moved = {} /\ act'.sent = {} /\ act'.runs = 0 /\ act'.stray = {}
  /\ act'.cmd \in {"click", "fill", "key", "enter", "select", "js"}
        \/ (at = "open" /\ act'.cmd \in {"plan", "flow", "check"}) \/ at = "idle"
  /\ at # "done" => act'.code = "none"
  /\ act'.result # "ok"

LEMMA BegunKeeps ==
  ASSUME CdpInv, NEW at \in {"idle", "open", "frame", "done"}, Begun(at), UNCHANGED <<page, first>>,
         IsConn(conn'), IsPins(pins'),
         pins'.lost = pins.lost /\ pins'.frames = pins.frames,
         pins'.held => conn'.tab = "mine" /\ at # "open", at = "frame" => conn'.tab = "mine"
  PROVE  CdpInv'
<1>0. IsAct(act')
  BY DEF Begun
<1>3. Types'
  BY <1>0 DEF CdpInv, Begun, Types
<1>4. PhaseInv'
  BY <1>0 DEF CdpInv, Begun, PhaseInv, Clicking, Typing
<1>5. SentInv'
  BY <1>0 DEF CdpInv, Begun, SentInv, PhaseInv, Clicking, Typing, Raised, Unsent, BEFORE_INPUT, Whole
<1>6. RunsInv'
  BY <1>0 DEF CdpInv, Begun, RunsInv, Unsent
<1>7. WhereInv'
  BY <1>0 DEF CdpInv, Begun, WhereInv, Raised, SentInv
<1>8. WindowInv'
  BY <1>0 DEF CdpInv, Begun, WindowInv, WhereInv, Unsent, Checked, Typing, Raised, Foreign, Window, StrayOnlyInWindow
<1>9. GateInv'
  BY <1>0 DEF CdpInv, Begun, GateInv, PhaseInv, UndeclaredNeverSubmits
<1>10. QED  BY <1>3, <1>4, <1>5, <1>6, <1>7, <1>8, <1>9 DEF CdpInv

LEMMA BeginsKeep ==
  ASSUME CdpInv, (\E k \in {"plan", "flow", "check"} : BeginBind(k)) \/ (\E s \in StepSet : BeginStep(s))
                     \/ ReleaseHeld
  PROVE  CdpInv'
<1>0. /\ IsAct(act) /\ IsConn(conn) /\ IsPins(pins) /\ "mine" # None
      /\ {"idle", "open", "frame", "done"} \subseteq Phases /\ "main" \in Names
  BY NoneAssumption DEF CdpInv, Types, Phases, Names
<1>1. ASSUME NEW k \in {"plan", "flow", "check"}, BeginBind(k) PROVE CdpInv'
  <2>1. Begun("open")
    BY <1>0, <1>1 DEF BeginBind, Idle, Begun, IsAct
  <2>2. UNCHANGED <<page, pins, conn, first>> /\ ~pins.held
    BY <1>1 DEF BeginBind
  <2>3. QED  BY <1>0, <2>1, <2>2, BegunKeeps
<1>2. ASSUME NEW s \in StepSet, BeginStep(s) PROVE CdpInv'
  <2> DEFINE begun == [Idle EXCEPT !.cmd = s.cmd, !.name = s.name, !.effect = s.effect,
                                   !.check = s.check, !.gate = s.gate, !.n = act.n + 1]
  <2>1. /\ s.cmd \in {"click", "fill", "key", "enter", "select", "js"} /\ s.name \in Names
        /\ s.effect \in {"read_only", "mutating"} /\ s.check \in BOOLEAN
        /\ s.gate \in {"none", "undeclared", "authorized"} /\ act.n + 1 \in Nat
    BY <1>0, <1>2, StepSetAssumption DEF StepType, IsAct
  <2>2. UNCHANGED <<page, pins, conn, first>>
    BY <1>2 DEF BeginStep
  <2>3. CASE pins.lost
    <3>1. act' = [begun EXCEPT !.at = "done", !.result = "definite", !.code = "surf_session_interrupted"]
      BY <1>2, <2>3 DEF BeginStep
    <3>2. /\ DOMAIN act' = DOMAIN Idle
          /\ <<act'.cmd, act'.name, act'.effect, act'.check, act'.gate, act'.n>>
              = <<s.cmd, s.name, s.effect, s.check, s.gate, act.n + 1>>
          /\ <<act'.frame, act'.stale, act'.armed, act'.prevented, act'.recovered, act'.submits>>
              = <<None, FALSE, FALSE, FALSE, FALSE, FALSE>>
          /\ <<act'.moved, act'.sent, act'.stray, act'.runs>> = <<{}, {}, {}, 0>>
          /\ <<act'.at, act'.code, act'.result>> = <<"done", "surf_session_interrupted", "definite">>
      BY <3>1 DEF Idle
    <3>4. IsAct(act')
      BY <1>0, <2>1, <3>2 DEF IsAct, Idle
    <3>5. Begun("done")
      BY <1>0, <2>1, <3>2, <3>4 DEF Begun
    <3>3. QED  BY <1>0, <2>2, <3>5, BegunKeeps DEF CdpInv, WhereInv
  <2>4. CASE ~pins.lost /\ pins.held
    <3>1. act' = [begun EXCEPT !.at = "frame"]
      BY <1>2, <2>4 DEF BeginStep
    <3>2. /\ DOMAIN act' = DOMAIN Idle
          /\ <<act'.cmd, act'.name, act'.effect, act'.check, act'.gate, act'.n>>
              = <<s.cmd, s.name, s.effect, s.check, s.gate, act.n + 1>>
          /\ <<act'.frame, act'.stale, act'.armed, act'.prevented, act'.recovered, act'.submits>>
              = <<None, FALSE, FALSE, FALSE, FALSE, FALSE>>
          /\ <<act'.moved, act'.sent, act'.stray, act'.runs>> = <<{}, {}, {}, 0>>
          /\ <<act'.at, act'.code, act'.result>> = <<"frame", "none", "none">>
      BY <3>1 DEF Idle
    <3>4. IsAct(act')
      BY <1>0, <2>1, <3>2 DEF IsAct, Idle
    <3>5. Begun("frame")
      BY <1>0, <2>1, <3>2, <3>4 DEF Begun
    <3>3. QED  BY <1>0, <2>2, <2>4, <3>5, BegunKeeps DEF CdpInv, WhereInv
  <2>5. CASE ~pins.lost /\ ~pins.held
    <3>1. act' = [begun EXCEPT !.at = "open"]
      BY <1>2, <2>5 DEF BeginStep
    <3>2. /\ DOMAIN act' = DOMAIN Idle
          /\ <<act'.cmd, act'.name, act'.effect, act'.check, act'.gate, act'.n>>
              = <<s.cmd, s.name, s.effect, s.check, s.gate, act.n + 1>>
          /\ <<act'.frame, act'.stale, act'.armed, act'.prevented, act'.recovered, act'.submits>>
              = <<None, FALSE, FALSE, FALSE, FALSE, FALSE>>
          /\ <<act'.moved, act'.sent, act'.stray, act'.runs>> = <<{}, {}, {}, 0>>
          /\ <<act'.at, act'.code, act'.result>> = <<"open", "none", "none">>
      BY <3>1 DEF Idle
    <3>4. IsAct(act')
      BY <1>0, <2>1, <3>2 DEF IsAct, Idle
    <3>5. Begun("open")
      BY <1>0, <2>1, <3>2, <3>4 DEF Begun
    <3>3. QED  BY <1>0, <2>2, <2>5, <3>5, BegunKeeps
  <2>6. QED  BY <2>3, <2>4, <2>5
<1>3. CASE ReleaseHeld
  <2>1. Begun("idle")
    BY <1>0, <1>3 DEF ReleaseHeld, Idle, Begun, IsAct
  <2>2. /\ IsConn(conn') /\ IsPins(pins') /\ ~pins'.held
        /\ pins'.lost = pins.lost /\ pins'.frames = pins.frames
    BY <1>0, <1>3 DEF ReleaseHeld, NoConn, IsConn, IsPins
  <2>3. QED  BY <1>3, <2>1, <2>2, BegunKeeps DEF ReleaseHeld
<1>4. QED  BY <1>1, <1>2, <1>3

LEMMA OpenedKeeps ==
  ASSUME CdpInv, act.at \in {"open", "prove"}, ~pins.lost, Opened("mine"), IsConn(conn'),
         conn'.tab = "mine" \/ act.cmd = "check", UNCHANGED <<page, first>>
  PROVE  CdpInv'
<1>0. /\ IsAct(act) /\ IsConn(conn') /\ IsPins(pins) /\ ~pins.held /\ act.at \in {"open", "prove"}
      /\ "mine" # None /\ "frame" \in Phases /\ "idle" \in Phases /\ "main" \in Names
      /\ UNCHANGED <<page, first>> /\ ~pins.lost
      /\ act.cmd \in {"click", "fill", "key", "enter", "select", "js", "plan", "flow", "check"}
  BY NoneAssumption DEF CdpInv, Types, WhereInv, PhaseInv, Phases, Names
<1>1. CASE act.cmd \in {"plan", "flow", "check"}
  <2> DEFINE bound == [pins EXCEPT !.target = "mine"]
  <2>1. act' = Idle
    BY <1>1 DEF Opened
  <2>2. /\ DOMAIN act' = DOMAIN Idle /\ act'.at = "idle" /\ act'.frame = None
        /\ ~act'.armed /\ ~act'.submits /\ act'.moved = {} /\ act'.sent = {} /\ act'.runs = 0
        /\ act'.stray = {} /\ act'.code = "none" /\ act'.result = "none"
    BY <2>1 DEF Idle
  <2>3. IsAct(act')
    BY <1>0, <2>1 DEF Idle, IsAct
  <2>4. Begun("idle")
    BY <2>2, <2>3 DEF Begun
  <2>5. pins' = bound \/ pins' = [bound EXCEPT !.held = TRUE, !.from = conn'.seen]
                      \/ pins' = [bound EXCEPT !.held = TRUE, !.from = 0]
    BY <1>1 DEF Opened
  <2>6. pins'.lost = pins.lost /\ pins'.frames = pins.frames /\ IsPins(pins')
    <3>1. /\ DOMAIN pins' = DOMAIN pins /\ pins'.lost = pins.lost /\ pins'.frames = pins.frames
          /\ pins'.target = "mine"
      BY <1>0, <2>5 DEF IsPins
    <3>2. pins'.held \in BOOLEAN
      BY <1>0, <2>5 DEF IsPins
    <3>3. pins'.from \in Nat
      <4>1. pins'.from = pins.from \/ pins'.from = conn'.seen \/ pins'.from = 0
        BY <1>0, <2>5 DEF IsPins
      <4>2. conn'.seen \in Nat /\ pins.from \in Nat
        BY <1>0 DEF IsPins, IsConn
      <4>3. QED  BY <4>1, <4>2
    <3>4. QED  BY <1>0, <3>1, <3>2, <3>3 DEF IsPins
  <2>7. pins'.held => act.cmd # "check"
    <3>1. SUFFICES ASSUME act.cmd = "check" PROVE ~pins'.held
      OBVIOUS
    <3>2. pins' = bound
      BY <3>1 DEF Opened
    <3>3. QED  BY <1>0, <3>2 DEF IsPins
  <2>8. QED  BY <1>0, <2>4, <2>6, <2>7, BegunKeeps
<1>2. CASE act.cmd \notin {"plan", "flow", "check"}
  <2>1. Goto("frame") /\ pins' = [pins EXCEPT !.target = "mine"] /\ conn'.tab = "mine"
    BY <1>2 DEF Opened
  <2>2. Moved("frame", act.code)
    BY <1>0, <2>1, GotoEffect
  <2>3. IsPins(pins') /\ pins'.held = pins.held /\ pins'.lost = pins.lost /\ pins'.frames = pins.frames
    BY <1>0, <2>1 DEF IsPins
  <2>11. Types'
    BY <1>0, <1>2, <2>1, <2>2, <2>3 DEF CdpInv, Moved, Same, Asked, Held, Sent, Types
  <2>4. PhaseInv'
    BY <1>0, <1>2, <2>1, <2>2, <2>3 DEF CdpInv, Moved, Same, Asked, Held, Sent, PhaseInv, Clicking, Typing
  <2>5. SentInv'
    BY <1>0, <1>2, <2>1, <2>2, <2>3 DEF CdpInv, Moved, Same, Asked, Held, Sent, SentInv, PhaseInv, Clicking, Typing, Raised, Unsent, BEFORE_INPUT, Whole
  <2>6. RunsInv'
    BY <1>0, <1>2, <2>1, <2>2, <2>3 DEF CdpInv, Moved, Same, Asked, Held, Sent, RunsInv, Unsent
  <2>7. WhereInv'
    BY <1>0, <1>2, <2>1, <2>2, <2>3 DEF CdpInv, Moved, Same, Asked, Held, Sent, WhereInv, Raised, SentInv
  <2>8. WindowInv'
    BY <1>0, <1>2, <2>1, <2>2, <2>3 DEF CdpInv, Moved, Same, Asked, Held, Sent, WindowInv, WhereInv, Unsent, Checked, Typing, Raised, Foreign, Window, StrayOnlyInWindow
  <2>9. GateInv'
    BY <1>0, <1>2, <2>1, <2>2, <2>3 DEF CdpInv, Moved, Same, Asked, Held, Sent, GateInv, PhaseInv, UndeclaredNeverSubmits
  <2>10. QED  BY <2>11, <2>4, <2>5, <2>6, <2>7, <2>8, <2>9 DEF CdpInv
<1>3. QED  BY <1>1, <1>2

LEMMA OpensKeep ==
  ASSUME CdpInv, OpenTarget \/ ProveTab \/ OpenFails
  PROVE  CdpInv'
<1>0. /\ IsAct(act) /\ IsConn(conn) /\ IsPins(pins) /\ "mine" # None /\ UNCHANGED <<page, first>>
      /\ {"prove", "done", "idle"} \subseteq Phases /\ act.at \in {"open", "prove"} /\ ~pins.held
  BY NoneAssumption DEF CdpInv, Types, WhereInv, Phases, OpenTarget, ProveTab, OpenFails
<1>1. ASSUME OpenTarget PROVE CdpInv'
  <2>1. PICK tab \in (IF pins.target = None THEN {"mine", "other"} ELSE {pins.target}) :
           /\ conn' = [NoConn EXCEPT !.tab = tab, !.up = TRUE]
           /\ IF pins.target = None THEN Goto("prove") /\ UNCHANGED pins ELSE Opened(tab)
    BY <1>1 DEF OpenTarget
  <2>2. IsConn(conn') /\ conn'.tab = tab /\ act.at = "open" /\ ~pins.lost
    BY <1>0, <1>1, <2>1 DEF NoConn, IsConn, IsPins, OpenTarget
  <2>3. CASE pins.target = None
    <3>1. Moved("prove", act.code) /\ UNCHANGED pins
      BY <1>0, <2>1, <2>3, GotoEffect
    <3>3. Types'
      BY <1>0, <2>2, <3>1 DEF CdpInv, Moved, Same, Asked, Held, Sent, Types
    <3>4. PhaseInv'
      BY <1>0, <2>2, <3>1 DEF CdpInv, Moved, Same, Asked, Held, Sent, PhaseInv, Clicking, Typing
    <3>5. SentInv'
      BY <1>0, <2>2, <3>1 DEF CdpInv, Moved, Same, Asked, Held, Sent, SentInv, PhaseInv, Clicking, Typing, Raised, Unsent, BEFORE_INPUT, Whole
    <3>6. RunsInv'
      BY <1>0, <2>2, <3>1 DEF CdpInv, Moved, Same, Asked, Held, Sent, RunsInv, Unsent
    <3>7. WhereInv'
      BY <1>0, <2>2, <3>1 DEF CdpInv, Moved, Same, Asked, Held, Sent, WhereInv, Raised, SentInv
    <3>8. WindowInv'
      BY <1>0, <2>2, <3>1 DEF CdpInv, Moved, Same, Asked, Held, Sent, WindowInv, WhereInv, Unsent, Checked, Typing, Raised, Foreign, Window, StrayOnlyInWindow
    <3>9. GateInv'
      BY <1>0, <2>2, <3>1 DEF CdpInv, Moved, Same, Asked, Held, Sent, GateInv, PhaseInv, UndeclaredNeverSubmits
    <3>20. QED  BY <3>3, <3>4, <3>5, <3>6, <3>7, <3>8, <3>9 DEF CdpInv
  <2>4. CASE pins.target # None
    <3>1. tab = "mine"
      BY <1>0, <2>1, <2>4 DEF IsPins
    <3>2. Opened("mine")
      BY <2>1, <2>4, <3>1 DEF Opened
    <3>3. QED  BY <1>0, <2>2, <3>1, <3>2, OpenedKeeps
  <2>5. QED  BY <2>3, <2>4
<1>2. ASSUME ProveTab PROVE CdpInv'
  <2>1. Opened("mine") /\ ~pins.lost /\ conn.tab = "mine"
    BY <1>2 DEF ProveTab, ProofHolds, Live
  <2>4. conn' = IF act.cmd = "check" THEN NoConn ELSE conn
    BY <1>2 DEF ProveTab
  <2>5. IsConn(NoConn)
    BY DEF NoConn, IsConn
  <2>2. IsConn(conn') /\ (conn'.tab = "mine" \/ act.cmd = "check")
    BY <1>0, <2>1, <2>4, <2>5
  <2>3. QED  BY <1>0, <2>1, <2>2, OpenedKeeps
<1>3. ASSUME OpenFails PROVE CdpInv'
  <2>1. IsConn(conn') /\ UNCHANGED pins
    BY <1>3 DEF OpenFails, NoConn, IsConn
  <2>2. CASE act.cmd \in {"plan", "flow", "check"}
    <3>1. act' = Idle
      BY <1>3, <2>2 DEF OpenFails
    <3>2. IsAct(act')
      BY <1>0, <3>1 DEF Idle, IsAct, Names
    <3>3. Begun("idle")
      BY <3>1, <3>2 DEF Begun, Idle
    <3>4. QED  BY <1>0, <2>1, <3>3, BegunKeeps
  <2>3. CASE act.cmd \notin {"plan", "flow", "check"}
    <3>1. act' = [act EXCEPT !.at = "done", !.result = "definite", !.code = "tab_bind_ambiguous"]
      BY <1>3, <2>3 DEF OpenFails
    <3>2. /\ DOMAIN act' = DOMAIN act /\ Asked(act') = Asked(act) /\ Sent(act') = Sent(act)
          /\ Activated(act') = <<act.frame, act.stale, act.armed, act.recovered, act.moved, act.runs,
                                 "definite">>
          /\ act'.submits = act.submits /\ act'.prevented = act.prevented /\ act'.at = "done"
      BY <1>0, <3>1 DEF IsAct, Asked, Sent, Activated
    <3>11. IsAct(act')
      BY <1>0, <3>2 DEF IsAct, Asked, Sent, Activated
    <3>3. Types'
      BY <1>0, <2>1, <2>3, <3>2, <3>11 DEF CdpInv, Asked, Sent, Activated, Types
    <3>4. PhaseInv'
      BY <1>0, <2>1, <2>3, <3>2, <3>11 DEF CdpInv, Asked, Sent, Activated, PhaseInv, Clicking, Typing
    <3>5. SentInv'
      BY <1>0, <2>1, <2>3, <3>2, <3>11 DEF CdpInv, Asked, Sent, Activated, SentInv, PhaseInv, Clicking, Typing, Raised, Unsent, BEFORE_INPUT, Whole
    <3>6. RunsInv'
      BY <1>0, <2>1, <2>3, <3>2, <3>11 DEF CdpInv, Asked, Sent, Activated, RunsInv, Unsent
    <3>7. WhereInv'
      BY <1>0, <2>1, <2>3, <3>2, <3>11 DEF CdpInv, Asked, Sent, Activated, WhereInv, Raised, SentInv
    <3>8. WindowInv'
      BY <1>0, <2>1, <2>3, <3>2, <3>11 DEF CdpInv, Asked, Sent, Activated, WindowInv, WhereInv, Unsent, Checked, Typing, Raised, Foreign, Window, StrayOnlyInWindow
    <3>9. GateInv'
      BY <1>0, <2>1, <2>3, <3>2, <3>11 DEF CdpInv, Asked, Sent, Activated, GateInv, PhaseInv, UndeclaredNeverSubmits
    <3>20. QED  BY <3>3, <3>4, <3>5, <3>6, <3>7, <3>8, <3>9 DEF CdpInv
  <2>4. QED  BY <2>2, <2>3
<1>4. QED  BY <1>1, <1>2, <1>3

--------------------------------------------------------------------------------
(* The invariant of every run, and what follows from it.                    *)

LEMMA InitHolds == Init => CdpInv
<1> SUFFICES ASSUME Init PROVE CdpInv
  OBVIOUS
<1>1. "main" \in Names /\ "idle" \in Phases
  BY DEF Names, Phases
<1>2. IsAct(act)
  BY <1>1 DEF Init, Idle, IsAct
<1>3. IsPage(page)
  BY DEF Init, IsPage, Kids
<1>4. IsPins(pins) /\ IsConn(conn) /\ first \in [Names -> FrameIds \cup {None}]
  BY DEF Init, NoConn, IsPins, IsConn
<1>5. /\ act.at = "idle" /\ act.runs = 0 /\ act.sent = {} /\ act.stray = {} /\ ~act.submits
      /\ act.code = "none" /\ act.result = "none"
  BY DEF Init, Idle
<1>6. Types /\ PhaseInv
  BY <1>2, <1>3, <1>4, <1>5 DEF Types, PhaseInv, Clicking, Typing
<1>7. SentInv /\ RunsInv
  BY <1>5 DEF SentInv, RunsInv, Unsent, Typing, Clicking, Raised
<1>8. /\ pins.frames = [m \in Names |-> None] /\ first = [m \in Names |-> None] /\ ~pins.held
  BY DEF Init
<1>9. WhereInv
  BY <1>1, <1>5, <1>8 DEF WhereInv, Raised
<1>10. WindowInv /\ GateInv
  BY <1>5 DEF WindowInv, GateInv, Checked, Typing, StrayOnlyInWindow, UndeclaredNeverSubmits
<1>11. QED  BY <1>6, <1>7, <1>9, <1>10 DEF CdpInv

LEMMA StutterKeeps == CdpInv /\ UNCHANGED vars => CdpInv'
BY DEF vars, CdpInv, Types, IsAct, IsPage, IsPins, IsConn, PhaseInv, SentInv, RunsInv, WhereInv,
       WindowInv, GateInv, Foreign, StrayOnlyInWindow, UndeclaredNeverSubmits, Whole

LEMMA StepHolds == CdpInv /\ [Next]_vars => CdpInv'
<1> SUFFICES ASSUME CdpInv, [Next]_vars PROVE CdpInv'
  OBVIOUS
<1>1. CASE (\E k \in {"plan", "flow", "check"} : BeginBind(k)) \/ (\E s \in StepSet : BeginStep(s))
             \/ ReleaseHeld
  BY <1>1, BeginsKeep
<1>2. CASE OpenTarget \/ ProveTab \/ OpenFails
  BY <1>2, OpensKeep
<1>3. CASE PinFrame
  BY <1>3, PinKeeps
<1>4. CASE \/ FrameMissing \/ ElementNotReady \/ CheckDocument \/ GateRefuses \/ ReleaseAway
           \/ AfterRelease \/ FocusKept \/ SelectAll \/ ReadDocument \/ CallFails
  BY <1>4, WaitsKeep
<1>5. CASE ElementReady \/ GatePasses \/ JudgePress \/ AcquireContext
  BY <1>5, FlagsKeep
<1>6. CASE Press \/ Focus \/ InsertText \/ Choose \/ Release \/ SendKey
  BY <1>6, InputsKeep
<1>7. CASE Evaluate
  BY <1>7, EvaluateKeeps
<1>8. CASE SettleAct \/ DialogTaken
  BY <1>8, SettleKeeps
<1>9. CASE Conclude
  BY <1>9, ConcludeKeeps
<1>10. CASE Close
  BY <1>10, CloseKeeps
<1>11. CASE (\E f \in FrameIds : Navigate(f)) \/ (\E f \in Kids : FrameComesOrGoes(f)) \/ Handler
  <2>1. "main" \in FrameIds /\ Kids \subseteq FrameIds
    BY DEF FrameIds
  <2>2. QED  BY <1>11, <2>1, PageKeeps
<1>12. CASE DialogOpens
  BY <1>12, DialogKeeps
<1>13. CASE SessionLost
  BY <1>13, LostKeeps
<1>14. CASE Over \/ UNCHANGED vars
  BY <1>14, StutterKeeps DEF Over
<1>15. QED
  BY <1>1, <1>2, <1>3, <1>4, <1>5, <1>6, <1>7, <1>8, <1>9, <1>10, <1>11, <1>12, <1>13, <1>14
     DEF Next

\* The state of every step is well typed, and each phase has sent what it should
\* have sent by then.
THEOREM CdpInvHolds == Spec => []CdpInv
BY InitHolds, StepHolds, PTL DEF Spec

\* A mutating step answered with a definite refusal has sent nothing.
THEOREM DefiniteIsUnsentHolds == Spec => []DefiniteIsUnsent
<1>1. CdpInv => DefiniteIsUnsent
  BY DEF CdpInv, SentInv, DefiniteIsUnsent, Mutating
<1>2. QED  BY <1>1, CdpInvHolds, PTL

\* A step answered applied sent its whole input, to the owned tab, in the frame
\* its name reached first.
THEOREM AppliedIsWholeHolds == Spec => []AppliedIsWhole
<1>1. CdpInv => AppliedIsWhole
  BY DEF CdpInv, SentInv, WhereInv, AppliedIsWhole
<1>2. QED  BY <1>1, CdpInvHolds, PTL

\* Input astray means that the page moved after the last check made before it.
THEOREM StrayOnlyInWindowHolds == Spec => []StrayOnlyInWindow
<1>1. CdpInv => StrayOnlyInWindow
  BY DEF CdpInv, WindowInv
<1>2. QED  BY <1>1, CdpInvHolds, PTL

\* An undeclared step submits only if the document was replaced under its guard.
THEOREM UndeclaredNeverSubmitsHolds == Spec => []UndeclaredNeverSubmits
<1>1. CdpInv => UndeclaredNeverSubmits
  BY DEF CdpInv, GateInv
<1>2. QED  BY <1>1, CdpInvHolds, PTL

\* A script that may change the page reaches it at most once, one that reads at most twice.
THEOREM ScriptOnceHolds == Spec => []ScriptOnce
<1>1. CdpInv => ScriptOnce
  BY DEF CdpInv, Types, IsAct, RunsInv, ScriptOnce
<1>2. QED  BY <1>1, CdpInvHolds, PTL

=============================================================================
