------------------------------- MODULE SurfStdio -------------------------------
(***************************************************************************)
(* One `surf --stdio` child process and the object that talks to it         *)
(* (src/core/surf-stdio.ts). The class SurfStdio runs on one event loop, so  *)
(* each of its callbacks is one action; its fields are the record `io`, and *)
(* a callback is a function from that record to the next. The child is a    *)
(* process of its own, known only by the lines on its two pipes: it is      *)
(* modelled from how this code uses it.                                     *)
(***************************************************************************)
EXTENDS Naturals, Sequences, SequencesExt

CONSTANTS
    Commands,   \* the calls of run()
    MaxNoise,   \* bound: the lines the child writes that answer nothing
    None        \* no value

ASSUME NoiseAssumption == MaxNoise \in Nat

VARIABLES
    io,         \* the fields of SurfStdio, below
    child,      \* the surf process: "none", "starting", "up", "gone" or, with its
                \* pipes closed too, "closed"
    running,    \* the request the child is at, or None
    stdin,      \* requests written that the child has not read
    stdout,     \* lines the child wrote that the transport has not read
    noise,      \* how many lines of the child answered nothing so far
    ran         \* history: ran[c], how often command c was carried out

stdioVars == <<io, child, running, stdin, stdout, noise, ran>>

Requests == [id : Nat \ {0}, command : Commands]   \* a reply to id 0 is malformed

ASSUME NoneAssumption == None \notin Requests

\* How a line reads: refused, carried out (whatever surf then said of the target), or
\* its result lost (timedOut, overflowed or a signal). noTab is carried out too: surf
\* answers that the tab is not there.
Verdicts == {"refused", "done", "noTab", "doubt"}
Lines    == [kind : {"ready", "malformed"}] \cup [kind : Verdicts, id : Nat \ {0}]

Fields ==
    [ready      : BOOLEAN,
     ended      : {"no", "closed", "early"},    \* undefined, "closed", or why
     waiting    : Seq(Commands),
     sent       : Requests \cup {None},         \* with its answer timer
     nextId     : Nat \ {0},
     startTimer : {"unset", "armed", "cleared"},
     signalled  : BOOLEAN,                      \* it was sent SIGKILL, or close() began
     reading    : BOOLEAN,                      \* in the middle of a chunk
     answers    : [Commands -> {"uncalled", "pending"} \cup Verdicts]]  \* the promises

StdioTypeOK ==
    /\ io \in Fields
    /\ child \in {"none", "starting", "up", "gone", "closed"}
    /\ running \in Requests \cup {None}
    /\ stdin \in Seq(Requests)
    /\ stdout \in Seq(Lines)
    /\ noise \in 0 .. MaxNoise
    /\ ran \in [Commands -> Nat]

StdioInit ==
    /\ io = [ready |-> FALSE, ended |-> "no", waiting |-> <<>>, sent |-> None,
             nextId |-> 1, startTimer |-> "unset", signalled |-> FALSE,
             reading |-> FALSE,
             answers |-> [c \in Commands |-> "uncalled"]]
    /\ child = "none"
    /\ running = None
    /\ stdin = <<>>
    /\ stdout = <<>>
    /\ noise = 0
    /\ ran = [c \in Commands |-> 0]

--------------------------------------------------------------------------------
(***************************************************************************)
(* The methods, as functions of the fields.                                 *)
(***************************************************************************)

Settle(s, c, verdict) == [s EXCEPT !.answers[c] = verdict]

SentIs(s, c) == s.sent # None /\ s.sent.command = c

\* Seeded fault: the command in flight is refused like the ones never sent.
StopRefusingAll(s) ==
    [s EXCEPT !.ended = IF @ = "no" THEN "early" ELSE @,
              !.startTimer = "cleared",
              !.sent = None,
              !.waiting = <<>>,
              !.answers = [c \in Commands |->
                  IF SentIs(s, c) \/ c \in ToSet(s.waiting) THEN "refused" ELSE @[c]]]

\* Seeded fault: the waiting ones are dropped without an answer.
StopForgettingQueue(s) ==
    [s EXCEPT !.ended = IF @ = "no" THEN "early" ELSE @,
              !.startTimer = "cleared",
              !.sent = None,
              !.waiting = <<>>,
              !.answers = [c \in Commands |-> IF SentIs(s, c) THEN "doubt" ELSE @[c]]]

\* The session ended: what was sent and not answered is in doubt, what was never sent
\* is refused.
Stop(s) ==
    [s EXCEPT !.ended = IF @ = "no" THEN "early" ELSE @,
              !.startTimer = "cleared",
              !.sent = None,
              !.waiting = <<>>,
              !.answers = [c \in Commands |->
                  IF SentIs(s, c) THEN "doubt"
                  ELSE IF c \in ToSet(s.waiting) THEN "refused" ELSE @[c]]]

GiveUp(s) == [Stop(s) EXCEPT !.signalled = TRUE]

\* The next waiting command goes out once the session is ready and has answered the
\* last; its answer timer starts then.
Send(s) ==
    IF ~s.ready \/ s.sent # None \/ s.ended # "no" \/ s.waiting = <<>> THEN s
    ELSE [s EXCEPT !.sent = [id |-> s.nextId, command |-> Head(s.waiting)],
                   !.waiting = Tail(@),
                   !.nextId = @ + 1]

\* run(): refused by a session that ended, else it waits its turn. The first call
\* before the session is ready starts the timer of its start.
Ask(s, c) ==
    IF s.ended # "no" THEN Settle(s, c, "refused")
    ELSE Send([s EXCEPT !.startTimer = IF ~s.ready /\ @ = "unset" THEN "armed" ELSE @,
                        !.waiting = Append(@, c),
                        !.answers[c] = "pending"])

\* A line is read, and the loop over its chunk goes on or has returned.
Go(s)   == [fields |-> s, going |-> TRUE]
Halt(s) == [fields |-> s, going |-> FALSE]

\* The reply of the command in flight. An answered loss ends the session before
\* anything else is sent.
Reply(s, line) ==
    LET settled == Settle([s EXCEPT !.sent = None], s.sent.command, line.kind)
    IN  IF line.kind = "doubt" THEN Halt(Stop(settled))
        ELSE IF s.ended # "no" THEN Halt(settled) ELSE Go(settled)

\* Seeded fault: any reply answers the command in flight.
ReadLineAnyId(s, line) ==
    IF line.kind = "malformed" \/ (line.kind = "ready" /\ s.ready) THEN Halt(GiveUp(s))
    ELSE IF line.kind = "ready"
         THEN Go([s EXCEPT !.ready = TRUE, !.startTimer = IF @ = "armed" THEN "cleared" ELSE @])
    ELSE IF s.sent = None THEN Go(s)
    ELSE Reply(s, line)

\* One line: malformed (and a repeated `ready`) ends the session, and a reply that
\* answers nothing in flight is passed over.
ReadLine(s, line) ==
    IF line.kind = "malformed" \/ (line.kind = "ready" /\ s.ready) THEN Halt(GiveUp(s))
    ELSE IF line.kind = "ready"
         THEN Go([s EXCEPT !.ready = TRUE, !.startTimer = IF @ = "armed" THEN "cleared" ELSE @])
    ELSE IF s.sent = None THEN Go(s)
    ELSE IF s.sent.id # line.id THEN Go(s)
    ELSE Reply(s, line)

\* The loop over the lines of a chunk goes on, returns, or ends with the next command.
Onward(at, more) ==
    LET s == [at.fields EXCEPT !.reading = at.going /\ more]
    IN  IF at.going /\ ~more THEN Send(s) ELSE s

--------------------------------------------------------------------------------
(***************************************************************************)
(* The transport's actions.                                                 *)
(***************************************************************************)

\* What send() wrote is on the child's stdin.
WriteThrough ==
    stdin' = IF io'.nextId = io.nextId THEN stdin ELSE Append(stdin, io'.sent)

\* startSurfStdio and attach(); the constructor leaves everything to the callbacks.
Attach ==
    /\ child = "none"
    /\ child' = "starting"

Run(c) ==
    /\ io.answers[c] = "uncalled"
    /\ io' = Ask(io, c)
    /\ WriteThrough

\* One line of what the child wrote, the last of its chunk or not. A session that ended
\* early reads nothing more, one that is being closed still does.
Read ==
    /\ stdout # <<>>
    /\ stdout' = Tail(stdout)
    /\ \E more \in {FALSE, Len(stdout) > 1} :
          io' = IF io.ended = "early" THEN [io EXCEPT !.reading = FALSE]
                ELSE Onward(ReadLine(io, Head(stdout)), more)
    /\ WriteThrough
    /\ UNCHANGED <<child, running, noise, ran>>

\* Not ready within the first command's budget.
StartTimer ==
    /\ io.startTimer = "armed"
    /\ io' = GiveUp(io)
    /\ UNCHANGED <<child, running, stdin, stdout, noise, ran>>

\* No answer within the command's budget.
AnswerTimer ==
    /\ io.sent # None
    /\ io' = GiveUp(io)
    /\ UNCHANGED <<child, running, stdin, stdout, noise, ran>>

\* The child exited: once its pipes are drained, or by a bound for a pipe something
\* else holds open.
SeeExit ==
    /\ child = "gone"
    /\ child' = "closed"
    /\ io' = Stop(io)
    /\ UNCHANGED <<running, stdin, stdout, noise, ran>>

\* It did not start.
SeeError ==
    /\ child = "starting"
    /\ child' = "closed"
    /\ io' = Stop(io)
    /\ UNCHANGED <<running, stdin, stdout, noise, ran>>

\* close(): no command is sent any more, the one in flight may end. Its timers and
\* then its signals see to the child.
Close ==
    /\ child # "none"
    /\ io' = [io EXCEPT !.ended = IF @ = "no" THEN "closed" ELSE @, !.signalled = TRUE]

--------------------------------------------------------------------------------
(***************************************************************************)
(* The child. It answers a request after carrying it out, or refuses it     *)
(* without; it may stay silent, die anywhere, write a line nobody asked for *)
(* or an answer twice.                                                      *)
(***************************************************************************)

Write(line) == stdout' = Append(stdout, line)

\* The requests that are the child's to answer.
InHand == ToSet(stdin) \cup ({running} \ {None})

ChildReady ==
    /\ child = "starting"
    /\ child' = "up"
    /\ Write([kind |-> "ready"])
    /\ UNCHANGED <<io, running, stdin, noise, ran>>

ChildTakes ==
    /\ child = "up" /\ running = None /\ stdin # <<>>
    /\ running' = Head(stdin)
    /\ stdin' = Tail(stdin)
    /\ UNCHANGED <<io, child, stdout, noise, ran>>

\* Carried out, and then maybe killed inside the child by its budget or its buffer; or
\* ended before it did anything; or refused.
ChildActs ==
    /\ child = "up" /\ running # None /\ ran[running.command] = 0
    /\ ran' = [ran EXCEPT ![running.command] = @ + 1]
    /\ UNCHANGED <<io, child, running, stdin, stdout, noise>>

ChildAnswers ==
    /\ child = "up" /\ running # None
    /\ \E kind \in IF ran[running.command] = 0 THEN {"refused", "doubt"}
                   ELSE {"done", "noTab", "doubt"} :
          Write([kind |-> kind, id |-> running.id])
    /\ running' = None
    /\ UNCHANGED <<io, child, stdin, noise, ran>>

\* Noise on stdout, a second `ready`, or the answer of an earlier request once more.
ChildBabbles ==
    /\ child = "up" /\ noise < MaxNoise
    /\ noise' = noise + 1
    /\ \/ \E kind \in {"malformed", "ready"} : Write([kind |-> kind])
       \/ \E id \in (1 .. io.nextId - 1) \ {q.id : q \in InHand} :
             Write([kind |-> "done", id |-> id])
    /\ UNCHANGED <<io, child, running, stdin, ran>>

ChildDies ==
    /\ child \in {"starting", "up"}
    /\ child' = "gone"
    /\ running' = None
    /\ UNCHANGED <<io, stdin, stdout, noise, ran>>

\* What neither the session nor anything above it starts. Nothing of this process runs
\* in the middle of a chunk.
StdioEvent ==
    \/ Read
    \/ ~io.reading /\ (StartTimer \/ AnswerTimer \/ SeeExit \/ SeeError)
    \/ ChildReady
    \/ ChildTakes
    \/ ChildActs
    \/ ChildAnswers
    \/ ChildBabbles
    \/ ChildDies

\* Timers fire, a readable pipe is read, an exit is reported, and a child that was
\* told to go goes. It owes nothing else: neither `ready` nor an answer.
StdioFairness ==
    /\ WF_stdioVars(Read)
    /\ WF_stdioVars(StartTimer)
    /\ WF_stdioVars(AnswerTimer)
    /\ WF_stdioVars(SeeExit)
    /\ WF_stdioVars(io.signalled /\ ChildDies)

--------------------------------------------------------------------------------
(***************************************************************************)
(* The transport alone, under callers who do not wait for one another.      *)
(***************************************************************************)

StdioNext ==
    \/ Attach /\ UNCHANGED <<io, running, stdin, stdout, noise, ran>>
    \/ /\ ~io.reading /\ child # "none"
       /\ \/ Close /\ UNCHANGED stdin
          \/ \E c \in Commands : Run(c)
       /\ UNCHANGED <<child, running, stdout, noise, ran>>
    \/ StdioEvent

StdioSpec     == StdioInit /\ [][StdioNext]_stdioVars
StdioFairSpec == StdioSpec /\ StdioFairness

InChild(c)    == \E q \in InHand : q.command = c

\* A refused command was not carried out by the child and is out of its reach for
\* good, so that its caller may run it elsewhere.
RefusedNeverRan ==
    \A c \in Commands : io.answers[c] = "refused" => ran[c] = 0 /\ ~InChild(c)

\* An answer is the answer to the command it settles: a command that ended with a
\* result was carried out, exactly once.
AnswerIsOwn == \A c \in Commands : io.answers[c] \in {"done", "noTab"} => ran[c] = 1

\* Every call of run() is answered, whatever the child does or leaves undone.
EveryCallAnswered == \A c \in Commands : io.answers[c] = "pending" ~> io.answers[c] # "pending"

================================================================================
