-------------------------------- MODULE TestRun --------------------------------
(***************************************************************************)
(* One run of the test orchestrator (orchestrator.ts, operations/test): its *)
(* agents run concurrently under one Promise.all, each command of theirs in *)
(* a child of SpawnStep, and when all have returned the verdict is built    *)
(* from what they left (TestVerdict). The mutation ledger, which has its    *)
(* own module, is seen as it looks from an agent: it refuses before the     *)
(* command, or hands back what the command did, or throws after it.         *)
(***************************************************************************)
EXTENDS SpawnStep, RootCause

CONSTANTS
    Agents,     \* the enabled agents
    Kind,       \* Kind[a]: "cli", "web", "terminal" (the fuzzers) or "surf"
    Configs,    \* the configurations a run is tried with (a bound)
    Texts       \* what a finding may say (a bound)

Kinds   == {"cli", "web", "terminal", "surf"}
Fuzzers == {"web", "terminal"}

ASSUME AgentsAssumption ==
    /\ IsFiniteSet(Agents) /\ "orchestrator" \notin Agents /\ Kind \in [Agents -> Kinds]
    /\ Commands = {a \in Agents : Kind[a] # "surf"}
    /\ Configs \subseteq [targets : SUBSET {"web", "cli"}, expect : Declaration]
    /\ Texts \subseteq Text

ASSUME VerdictAssumption == None # "verified"

VARIABLES
    targets,    \* the targets the config names
    expect,     \* the declaration in force for the cli agents
    stage,      \* stage[a]: idle, running or returned
    report,     \* report[a]: the AgentResult, or None
    verdict     \* the value of the determination, or None

runVars  == <<targets, expect, stage, report, verdict>>
testVars == <<spawnVars, runVars>>

Target(a)    == IF Kind[a] \in {"web", "surf"} THEN "web" ELSE "cli"
Dimension(a) == IF Kind[a] = "surf" THEN "userFlows" ELSE "edgeCases"

TestInit ==
    /\ SpawnInit
    /\ \E c \in Configs : targets = c.targets /\ expect = c.expect
    /\ stage = [a \in Agents |-> "idle"]
    /\ report = [a \in Agents |-> None]
    /\ verdict = None

Finding(a, severity, outcome) ==
    [agent |-> a, type |-> "bug", component |-> Target(a), severity |-> severity,
     outcome |-> outcome]

Result(findings, outcomes, covered) ==
    [findings |-> findings, outcomes |-> outcomes, coverage |-> covered]

Unclassified(a, severity) == Result({Finding(a, severity, NoOutcome)}, {}, 0)

Return(a, r) ==
    /\ stage' = [stage EXCEPT ![a] = "returned"]
    /\ report' = [report EXCEPT ![a] = r]

\* An agent whose target is not configured attempts nothing.
MissingTarget(a) ==
    /\ stage[a] = "idle"
    /\ Target(a) \notin targets
    /\ Return(a, Unclassified(a, "critical"))
    /\ UNCHANGED <<spawnVars, targets, expect, verdict>>

\* The agent's command is run. The surf agent's is the nested exploration.
Execute(a) ==
    /\ stage[a] = "idle"
    /\ Target(a) \in targets
    /\ stage' = [stage EXCEPT ![a] = "running"]
    /\ IF a \in Commands THEN Spawn(a) \/ SpawnFails(a) ELSE UNCHANGED spawnVars
    /\ UNCHANGED <<targets, expect, report, verdict>>

\* The ledger refuses a fuzzer's step before its command: the origin is not allowed,
\* an earlier attempt is in doubt, the store is ephemeral or cannot be written.
RefuseStep(a) ==
    /\ stage[a] = "idle"
    /\ Target(a) \in targets /\ Kind[a] \in Fuzzers
    /\ Return(a, Unclassified(a, "critical"))
    /\ UNCHANGED <<spawnVars, targets, expect, verdict>>

\* The reply of a cli command as the classifier reads it. A marker line is output like any
\* other here: with its marker declared or not it is evidence.
CliReply(a) ==
    [source |-> "cli", effect |-> "read_only", empty |-> left[a] = "nothing",
     transport |-> CASE a \in timedOut -> "timed_out"
                     [] a \notin timedOut /\ code[a] = "null" -> "signalled"
                     [] a \notin timedOut /\ code[a] = "zero" -> "exit_zero"
                     [] OTHER -> "exit_nonzero",
     signals |-> IF left[a] = "telling" THEN {"error_field"} ELSE {}]

CliResult(a) ==
    LET o == ClassifyResult(CliReply(a), expect)
    IN  IF IsOk(o) THEN Result({}, {o}, 100)
        ELSE Result({Finding(a, IF o.basis = "no_evidence" THEN "high" ELSE "critical", o)},
                    {o}, 0)

CliReturns(a) ==
    /\ stage[a] = "running" /\ Kind[a] = "cli" /\ Settled(a)
    /\ Return(a, IF Spawned(a) THEN CliResult(a) ELSE Unclassified(a, "critical"))
    /\ UNCHANGED <<spawnVars, targets, expect, verdict>>

\* Seeded fault: a run that exited 0 completed, whether or not it left anything.
BombadilStatusByExit(a) ==
    IF ~Spawned(a) THEN "runtime_error"
    ELSE IF a \in timedOut THEN "budget_exhausted"
    ELSE IF code[a] = "zero" THEN "completed" ELSE "violation"

\* Any output is evidence of a run; a trace this run wrote is evidence of a violation,
\* and the terminal runner writes none.
RanEvidence(a)       == left[a] # "nothing"
ViolationEvidence(a) == Kind[a] = "web" /\ left[a] = "telling"

BombadilStatus(a) ==
    IF ~Spawned(a) \/ ~RanEvidence(a) THEN "runtime_error"
    ELSE IF a \in timedOut THEN "budget_exhausted"
    ELSE IF code[a] = "zero" THEN "completed"
    ELSE IF ViolationEvidence(a) THEN "violation" ELSE "runtime_error"

WebFuzzResult(a) ==
    CASE BombadilStatus(a) \in {"completed", "budget_exhausted"} -> Result({}, {}, 100)
      [] BombadilStatus(a) = "violation" ->
            Result({Finding(a, "high", NoOutcome)}, {}, 100)
      [] BombadilStatus(a) = "runtime_error" -> Unclassified(a, "critical")

\* Of a terminal nothing is called a violation.
TerminalFuzzResult(a) ==
    IF BombadilStatus(a) \in {"completed", "budget_exhausted"} THEN Result({}, {}, 100)
    ELSE Unclassified(a, "critical")

FuzzResult(a) == IF Kind[a] = "web" THEN WebFuzzResult(a) ELSE TerminalFuzzResult(a)

\* The ledger returns what the command did, or throws: the command never started, left
\* nothing (its outcome is unknown), or its receipt could not be finalized.
FuzzReturns(a) ==
    /\ stage[a] = "running" /\ Kind[a] \in Fuzzers /\ Settled(a)
    /\ \E throws \in BOOLEAN :
          Return(a, IF throws THEN Unclassified(a, "critical") ELSE FuzzResult(a))
    /\ UNCHANGED <<spawnVars, targets, expect, verdict>>

\* A first probe that is not ok ends the exploration with its outcome, or with none where
\* the framework refused; one after it leaves the coverage partial. A page that asks for a
\* login or never settles is only high. Of an outcome the verdict reads the basis.
Refusals == {Fault, Contradiction, Outcome("empty", "no_evidence"), NoOutcome}

SurfReturns(a) ==
    /\ stage[a] = "running" /\ Kind[a] = "surf"
    /\ \/ Return(a, Result({}, {Outcome("success", "evidence")}, 100))
       \/ \E o \in Refusals :
             Return(a, Result({}, {Outcome("success", "evidence")} \cup ({o} \ {NoOutcome}), 50))
       \/ \E o \in Refusals, page \in BOOLEAN :
             /\ page => o = Fault
             /\ Return(a, Result({Finding(a, IF page THEN "high" ELSE "critical", o)},
                                 {o} \ {NoOutcome}, 0))
    /\ UNCHANGED <<spawnVars, targets, expect, verdict>>

Findings(done)    == UNION {report[a].findings : a \in done}
OutcomesOf(done)  == UNION {report[a].outcomes : a \in done}
Measured(done)    == [d \in {"userFlows", "apiEndpoints", "edgeCases"} |->
                         {<<a, report[a].coverage>> : a \in {b \in done : Dimension(b) = d}}]

Verdict(done) ==
    DetermineRun(OutcomesOf(done),
                 Cardinality(Blocking(CorrelateFindings(Findings(done)))),
                 OverallCoverage(Measured(done)))

\* All agents have returned. The verdict is built from all their results.
Report ==
    /\ verdict = None
    /\ \A a \in Agents : stage[a] = "returned"
    /\ verdict' = Verdict(Agents)
    /\ UNCHANGED <<spawnVars, targets, expect, stage, report>>

AgentStep(a) ==
    \/ MissingTarget(a) \/ Execute(a) \/ RefuseStep(a)
    \/ CliReturns(a) \/ FuzzReturns(a) \/ SurfReturns(a)

TestNext ==
    \/ (Loop \/ World) /\ UNCHANGED runVars
    \/ \E a \in Agents : AgentStep(a)
    \/ Report

TestSpec == TestInit /\ [][TestNext]_testVars
TestFairness ==
    /\ SpawnFairness
    /\ \A a \in Agents : WF_testVars(AgentStep(a))
    /\ WF_testVars(Report)
TestFairSpec == TestSpec /\ TestFairness

--------------------------------------------------------------------------------

\* What each kind of agent must have seen of its target for a run to pass.
Earned(a) ==
    CASE Kind[a] = "surf" -> report[a].outcomes = {Outcome("success", "evidence")}
      [] Kind[a] = "cli"  -> /\ code[a] = "zero" /\ a \notin timedOut
                             /\ left[a] \in Lefts \ {"nothing"} \/ (expect.empty /\ ~expect.marker)
                             /\ left[a] = "telling" => ~expect.json
      [] OTHER            -> /\ left[a] \in Lefts \ {"nothing"}
                             /\ code[a] = "zero" \/ a \in timedOut

\* A run passes only if every enabled agent ran, to its own end, and saw its target
\* work; what one agent saw never covers for what another did not.
VerifiedIsEarned == verdict = "verified" => \A a \in Agents : Earned(a)

Tell(f, text) ==
    [agent |-> f.agent, type |-> f.type, component |-> f.component, severity |-> f.severity,
     outcome |-> f.outcome, text |-> text]

Speakers(c) == {a \in Agents : Target(a) = c /\ report[a].findings # {}}

\* Whatever the findings of a component say: a cause is named for it only where two agents
\* found something wrong with it and each of them, alone, speaks for that cause, with its
\* finding and without; and a run that passes has no cause to name and nothing but passing
\* observations.
RootCauseIsAgreed ==
    verdict # None => \A c \in {"web", "cli"} : \A words \in [Speakers(c) -> Texts] :
        LET agents     == {a \in Agents : Target(a) = c}
            told(a)    == {Tell(f, words[a]) : f \in report[a].findings}
            seen(a)    == Observation(a, Kind[a], c, told(a), report[a].outcomes)
            all        == {seen(a) : a \in agents}
            findings   == CorrelateFindings(UNION {told(a) : a \in agents})
            alone(a)   == {InferRootCauseClass({seen(a)}, f) : f \in {{}, told(a)}}
        IN  /\ \A cause \in SynthesizeRootCauses(all, findings) :
                  /\ verdict # "verified" /\ Cardinality(Speakers(c)) > 1
                  /\ \A a \in Speakers(c) : alone(a) = {cause.class}
            /\ verdict = "verified" =>
                  \A o \in CorrelateObservations(all, findings) : o.status = "passed"

\* When the result is handed back no command of the run is alive, nor any process that
\* could still write to its output. What may go on, and act on the target, is a member of
\* a command's group with an output of its own, and only where the command closed before
\* it came to the SIGKILL.
OnlyQuietOutlive ==
    verdict # None =>
        \A s \in Commands :
            /\ ~Open(s)
            /\ s \in killed => kin[s] = {}

\* Every run ends with a verdict: a child that ignores its SIGTERM does not hold it up,
\* and neither does its group. Only a process that left the group and never lets go of
\* the output can.
RunReports ==
    []<>(\A s \in Commands : "stray" \notin kin[s]) => <>(verdict # None)

================================================================================
