----------------------------- MODULE SurfTransport -----------------------------
(***************************************************************************)
(* How the steps of one SurfSession reach surf: the serialised transport     *)
(* (src/core/surf-session-command.ts), the fallback to a surf process of     *)
(* its own (src/core/surf-adapter.ts), the interruption that ends a session  *)
(* for good (src/core/surf-session-interruption.ts) and what the session     *)
(* does around its first and its last command (src/core/surf-session.ts).   *)
(* A command is one attempt of a step, <<step, attempt>>; the child process  *)
(* and its transport, and which steps a session takes on, are the modules   *)
(* this one extends.                                                        *)
(***************************************************************************)
EXTENDS SurfStdio, SessionStep

CONSTANTS
    Acts,       \* the steps a caller runs in the tab, concurrently if it likes
    Open,       \* the step that opens the tab
    CloseTab,   \* the step that closes it
    Wants       \* Wants[s]: what a caller may ask of the step s (a bound)

Steps == Acts \cup {Open, CloseTab}

Outcomes == {"ok", "failed", "noTab", "doubt", "unsent", "interrupted", "declined"}

ASSUME SessionAssumption ==
    /\ None \notin Steps \cup Outcomes \cup {"cdp"} /\ "cdp" \notin Steps
    /\ Open \notin Acts /\ CloseTab \notin Acts /\ Open # CloseTab
    /\ Wants \in [Acts -> SUBSET StepRequest(1 .. AttemptCap + 1)]
    /\ Steps \X {1} \subseteq Commands /\ Commands \subseteq Steps \X (1 .. AttemptCap)
    /\ \A s \in Acts : \A q \in {w \in Wants[s] : StepAccepted(w)} :
          {s} \X (1 .. Attempts(q)) \subseteq Commands

VARIABLES
    hasStdio,   \* the probe found `surf --stdio` in this surf
    wanted,     \* wanted[s]: what the caller asks of the step s
    tail,       \* the commands chained behind the one at the transport
    at,         \* at[s]: where step s is
    attempt,    \* attempt[s]: its attempt
    outcome,    \* outcome[s]: how it ended
    reason,     \* what interrupted the session first: a step, "cdp", or None
    tab,        \* ownedTab: "none", "owned", or "dropped" for good
    closed,     \* close() was called
    spawned     \* history: the commands that ran as a surf process of their own

sessionVars == <<hasStdio, wanted, tail, at, attempt, outcome, reason, tab, closed, spawned>>
allVars     == <<stdioVars, sessionVars>>

SessionTypeOK ==
    /\ StdioTypeOK
    /\ hasStdio \in BOOLEAN
    /\ wanted \in [Acts -> UNION {Wants[s] : s \in Acts}]
    /\ tail \in Seq(Commands)
    /\ at \in [Steps -> {"idle", "admitted", "queued", "asked", "returned", "done"}]
    /\ attempt \in [Steps -> Nat \ {0}]
    /\ outcome \in [Steps -> Outcomes \cup {None}]
    /\ reason \in Steps \cup {"cdp", None}
    /\ tab \in {"none", "owned", "dropped"}
    /\ closed \in BOOLEAN
    /\ spawned \in SUBSET Commands

SessionInit ==
    /\ StdioInit
    /\ hasStdio \in BOOLEAN
    /\ wanted \in {f \in [Acts -> UNION {Wants[s] : s \in Acts}] :
                      \A s \in Acts : f[s] \in Wants[s]}
    /\ tail = <<>>
    /\ at = [s \in Steps |-> "idle"]
    /\ attempt = [s \in Steps |-> 1]
    /\ outcome = [s \in Steps |-> None]
    /\ reason = None
    /\ tab = "none"
    /\ closed = FALSE
    /\ spawned = {}

Interrupted == reason # None
Command(s)  == <<s, attempt[s]>>
Budget(s)   == IF s \in Acts THEN Attempts(wanted[s]) ELSE 1

--------------------------------------------------------------------------------
(***************************************************************************)
(* Steps of the session.                                                    *)
(***************************************************************************)

Enqueue(s) ==
    /\ at' = [at EXCEPT ![s] = "queued"]
    /\ tail' = Append(tail, Command(s))

\* open() may be called once.
CallOpen ==
    /\ at[Open] = "idle"
    /\ Enqueue(Open)
    /\ UNCHANGED <<stdioVars, attempt, outcome, reason, tab, closed, spawned>>

\* In the tab the session owns, unless the verb addresses none.
HasTab(s) == tab = "owned" \/ wanted[s].verb \in Untargeted

\* step(): refused on an interrupted session, then on a closed one, then for what it asks;
\* else handed to the ledger, whose reads and writes are awaited.
CallStep(s) ==
    /\ s \in Acts /\ at[s] = "idle" /\ at[Open] = "done"
    /\ IF ~Interrupted /\ ~closed /\ StepAccepted(wanted[s]) /\ HasTab(s)
       THEN at' = [at EXCEPT ![s] = "admitted"] /\ UNCHANGED outcome
       ELSE /\ at' = [at EXCEPT ![s] = "done"]
            /\ outcome' = [outcome EXCEPT ![s] = IF Interrupted THEN "interrupted" ELSE "declined"]
    /\ UNCHANGED <<stdioVars, tail, attempt, reason, tab, closed, spawned>>

\* The ledger runs its first attempt (guardAttempt): chained, unless the session was
\* interrupted meanwhile; whether it was closed is not asked again.
Join(s) ==
    /\ s \in Acts /\ at[s] = "admitted"
    /\ IF ~Interrupted
       THEN Enqueue(s) /\ UNCHANGED outcome
       ELSE /\ at' = [at EXCEPT ![s] = "done"]
            /\ outcome' = [outcome EXCEPT ![s] = "interrupted"]
            /\ UNCHANGED tail
    /\ UNCHANGED <<stdioVars, attempt, reason, tab, closed, spawned>>

\* SurfSession.interrupt: the first reason stays, the tab is not this session's any more.
Interrupt(by) ==
    /\ reason' = IF Interrupted THEN reason ELSE by
    /\ tab' = "dropped"

\* The DevTools connection bound to the tab dropped.
CdpDisconnect ==
    /\ tab = "owned"
    /\ Interrupt("cdp")
    /\ UNCHANGED <<stdioVars, tail, at, attempt, outcome, closed, spawned>>

\* A step is over, and with it its command, the head of the tail; opening and closing
\* have something left to do.
End(s, how) ==
    /\ at' = [at EXCEPT ![s] = IF s \in Acts THEN "done" ELSE "returned"]
    /\ outcome' = [outcome EXCEPT ![s] = how]
    /\ tail' = Tail(tail)
    /\ UNCHANGED attempt

Again(s) ==
    /\ attempt' = [attempt EXCEPT ![s] = @ + 1]
    /\ at' = [at EXCEPT ![s] = "queued"]
    /\ tail' = Append(Tail(tail), <<s, attempt[s] + 1>>)
    /\ UNCHANGED outcome

\* Seeded fault: a retry after the loss reaches the transport, and its refusal is what
\* the caller is told.
ConcludeUnguarded(s, how) ==
    \/ End(s, how)
    \/ how # "ok" /\ attempt[s] < Budget(s) /\ Again(s)

\* runReadOnlyStep: an error is tried again while the budget lasts, if its code is in
\* the retry list. On an interrupted session the retries only repeat the first error,
\* which guardAttempt kept.
Conclude(s, how) ==
    \/ End(s, how)
    \/ how # "ok" /\ attempt[s] < Budget(s) /\ reason' = None /\ Again(s)

\* A command has its result: a loss, or a tab that is gone, interrupts the session
\* before the step hears of it and before the next command starts.
Deliver(s, result) ==
    /\ IF result \in {"doubt", "noTab"} THEN Interrupt(s) ELSE UNCHANGED <<reason, tab>>
    /\ \E how \in IF result = "done" THEN {"ok", "failed"} ELSE {result} : Conclude(s, how)
    /\ UNCHANGED closed

--------------------------------------------------------------------------------
(***************************************************************************)
(* The transport. The head of the tail is the command it is at.             *)
(***************************************************************************)

\* assertActive threw: nothing was sent.
Refuse(c) ==
    /\ End(c[1], "interrupted")
    /\ UNCHANGED <<stdioVars, reason, tab, closed, spawned>>

\* runSurfCommand: a surf process of its own, waited for synchronously. It carries the
\* command out, is killed before or after it did, or does not start.
Spawn(c) ==
    /\ spawned' = spawned \cup {c}
    /\ \/ \E result \in {"done", "noTab", "doubt"} :
             Deliver(c[1], result) /\ ran' = [ran EXCEPT ![c] = @ + 1]
       \/ \E result \in {"doubt", "unsent"} : Deliver(c[1], result) /\ UNCHANGED ran
    /\ UNCHANGED <<io, child, running, stdin, stdout, noise>>

\* To the child, which is started now if it never was.
AskChild(c) ==
    /\ IF child = "none" THEN Attach ELSE UNCHANGED child
    /\ Run(c)
    /\ at' = [at EXCEPT ![c[1]] = "asked"]
    /\ UNCHANGED <<running, stdout, noise, ran, tail, attempt, outcome, reason, tab, closed,
                   spawned>>

\* Seeded fault: the commands are not chained, the child's own queue is all there is.
StartUnchained(c) ==
    /\ c \in ToSet(tail) /\ at[c[1]] = "queued"
    /\ IF Interrupted THEN Refuse(c) ELSE IF hasStdio THEN AskChild(c) ELSE Spawn(c)

\* SessionTransport.run, once everything chained before it has returned.
Start(c) ==
    /\ tail # <<>> /\ c = Head(tail) /\ at[c[1]] = "queued"
    /\ IF Interrupted THEN Refuse(c) ELSE IF hasStdio THEN AskChild(c) ELSE Spawn(c)

\* The child's answer, as the command's result.
Answered(c) ==
    /\ at[c[1]] = "asked" /\ c = Command(c[1])
    /\ io.answers[c] \in {"done", "noTab", "doubt"}
    /\ Deliver(c[1], io.answers[c])
    /\ UNCHANGED <<stdioVars, spawned>>

\* Seeded fault: a command in doubt is sent again in a process of its own.
FallbackAlways(c) ==
    /\ at[c[1]] = "asked" /\ c = Command(c[1]) /\ io.answers[c] \in {"refused", "doubt"}
    /\ IF Interrupted THEN Refuse(c) ELSE Spawn(c)

\* Refused, so never sent: it may run on its own, if the session still has authority.
Fallback(c) ==
    /\ at[c[1]] = "asked" /\ c = Command(c[1]) /\ io.answers[c] = "refused"
    /\ IF Interrupted THEN Refuse(c) ELSE Spawn(c)

--------------------------------------------------------------------------------
(***************************************************************************)
(* Opening and closing.                                                     *)
(***************************************************************************)

\* SessionTransport.close: nothing to end if the child was never started.
EndTransport == IF child = "none" THEN UNCHANGED io ELSE Close

\* tab.new reported its tab, or the session owns none and its surf process goes now.
Opened ==
    /\ at[Open] = "returned"
    /\ at' = [at EXCEPT ![Open] = "done"]
    /\ \/ /\ outcome[Open] = "ok"
          /\ tab' = "owned"
          /\ UNCHANGED io
       \/ EndTransport /\ UNCHANGED tab
    /\ UNCHANGED <<child, running, stdin, stdout, noise, ran, tail, attempt, outcome, reason,
                   closed, spawned>>

\* Seeded fault: a session without a tab has nothing to close.
CloseOwnedOnly ==
    /\ at[Open] = "done" /\ ~closed
    /\ closed' = TRUE
    /\ IF tab = "owned" THEN Enqueue(CloseTab) ELSE UNCHANGED <<at, tail>>
    /\ tab' = "dropped"
    /\ UNCHANGED <<stdioVars, attempt, outcome, reason, spawned>>

\* close(): the owned tab is closed through the transport, after what is chained there;
\* without one only the transport ends.
CloseSession ==
    /\ at[Open] = "done" /\ ~closed
    /\ closed' = TRUE
    /\ IF tab = "owned" THEN Enqueue(CloseTab) /\ UNCHANGED io
       ELSE EndTransport /\ UNCHANGED <<at, tail>>
    /\ tab' = "dropped"
    /\ UNCHANGED <<child, running, stdin, stdout, noise, ran, attempt, outcome, reason, spawned>>

\* Whatever became of tab.close, the transport ends.
TabClosed ==
    /\ at[CloseTab] = "returned"
    /\ at' = [at EXCEPT ![CloseTab] = "done"]
    /\ EndTransport
    /\ UNCHANGED <<child, running, stdin, stdout, noise, ran, tail, attempt, outcome, reason, tab,
                   closed, spawned>>

\* The session's own continuations, none of which runs in the middle of a chunk.
SessionEvent ==
    \/ CallOpen
    \/ \E s \in Acts : CallStep(s) \/ Join(s)
    \/ \E c \in Commands : Start(c) \/ Answered(c) \/ Fallback(c)
    \/ CdpDisconnect
    \/ Opened
    \/ CloseSession
    \/ TabClosed

SessionNext ==
    \/ ~io.reading /\ SessionEvent /\ UNCHANGED <<hasStdio, wanted>>
    \/ StdioEvent /\ UNCHANGED sessionVars

SessionSpec == SessionInit /\ [][SessionNext]_allVars

\* The ledger's reads and writes return, a settled promise runs its continuation, a spawned surf is bounded by its budget,
\* and the events of the child's transport happen; nobody is obliged to open a
\* session, to run a step or to close.
SessionFairSpec ==
    /\ SessionSpec
    /\ \A s \in Acts : WF_allVars(Join(s) /\ UNCHANGED <<hasStdio, wanted>>)
    /\ \A c \in Commands :
          /\ WF_allVars(Start(c) /\ UNCHANGED <<hasStdio, wanted>>)
          /\ WF_allVars(Answered(c) /\ UNCHANGED <<hasStdio, wanted>>)
          /\ WF_allVars(Fallback(c) /\ UNCHANGED <<hasStdio, wanted>>)
    /\ WF_allVars(Opened /\ UNCHANGED <<hasStdio, wanted>>)
    /\ WF_allVars(TabClosed /\ UNCHANGED <<hasStdio, wanted>>)
    /\ WF_allVars(Read /\ UNCHANGED sessionVars)
    /\ WF_allVars(StartTimer /\ UNCHANGED sessionVars)
    /\ WF_allVars(AnswerTimer /\ UNCHANGED sessionVars)
    /\ WF_allVars(SeeExit /\ UNCHANGED sessionVars)
    /\ WF_allVars(io.signalled /\ ChildDies /\ UNCHANGED sessionVars)

--------------------------------------------------------------------------------
(***************************************************************************)
(* Properties.                                                              *)
(***************************************************************************)

\* What a step may do to its page, whatever its caller says of it.
MayChange(q) == q.verb \in TargetVerbs \/ (q.verb \in ScriptVerbs /\ q.signals)

\* A command is carried out at most once, by the child or by a surf process of its
\* own, and one that got a process is out of the child's reach; and a step that may change
\* its page has at most one attempt carried out or with the child, whatever its caller
\* declared it to be and however often it may be tried.
AtMostOnce ==
    /\ \A c \in Commands : ran[c] <= 1 /\ (c \in spawned => ~InChild(c))
    /\ \A s \in {a \in Acts : MayChange(wanted[a])} : \A c, d \in {s} \X (1 .. AttemptCap) :
          ({c, d} \subseteq Commands /\ c # d) => ran[c] + ran[d] <= 1 /\ ~(ran[c] = 1 /\ InChild(d))

\* A step refused with surf_session_interrupted is not the one that lost the transport
\* (that one is told of its loss, whatever its retry budget), and the attempt that was
\* refused reached nobody.
InterruptedIsUnsent ==
    \A s \in Steps : outcome[s] = "interrupted" =>
        /\ reason # s
        /\ LET c == Command(s) IN ran[c] = 0 /\ ~InChild(c) /\ c \notin spawned

\* From the moment a command is lost, or the DevTools connection is, the session hands
\* no command to anyone, those already queued included.
Lost == Interrupted \/ \E c \in Commands : io.answers[c] \in {"doubt", "noTab"}

LossIsFinal == [][Lost => io'.nextId = io.nextId /\ spawned' = spawned]_allVars

\* Every step that is called ends: a step is called once and what is done stays so, hence
\* there is always a moment to come at which all that were called are done.
StepsEnd == []<>(\A s \in Steps : at[s] \in {"idle", "done"})

\* A closed session leaves no surf process behind, however it ended.
ClosedLeavesNoChild == closed ~> child \in {"none", "closed"}

================================================================================
