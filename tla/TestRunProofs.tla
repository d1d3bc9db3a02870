----------------------------- MODULE TestRunProofs -----------------------------
(***************************************************************************)
(* Proofs about a test run, for any agents, configurations and texts.       *)
(***************************************************************************)
EXTENDS TestRun, FiniteSetTheorems, TLAPS

(***************************************************************************)
(* The children. A budget that ran out with nothing open any more leaves a  *)
(* resolved step before the turn that would signal the group.               *)
(***************************************************************************)
Trees  == {"none", "alive", "gone"}
Clocks == {"stopped", "budget", "expired", "overdue"}
Timers == {"unset", "budget", "turn", "grace", "spent", "cleared"}

SpawnTypeOK ==
    /\ phase \in {"timers", "poll"}
    /\ tree \in [Commands -> Trees]
    /\ kin \in [Commands -> SUBSET Kin]
    /\ code \in [Commands -> Codes \cup {None}]
    /\ left \in [Commands -> Lefts \cup {None}]
    /\ clock \in [Commands -> Clocks]
    /\ timer \in [Commands -> Timers]
    /\ timedOut \subseteq Commands /\ killed \subseteq Commands /\ outlived \subseteq Commands

\* What the timers of a child say of its processes and of its budget.
ChildInv(s) ==
    /\ timer[s] = "unset" => tree[s] = "none" /\ clock[s] = "stopped"
    /\ timer[s] = "cleared" => ~Open(s) /\ (Spawned(s) => left[s] \in Lefts)
    /\ tree[s] = "none" => timer[s] \in {"unset", "cleared"}
    /\ tree[s] # "gone" => kin[s] = {}
    /\ tree[s] = "gone" => code[s] \in Codes
    /\ clock[s] \in {"expired", "overdue"} /\ s \notin outlived => ~Open(s)
    /\ timer[s] = "budget" => clock[s] \in {"budget", "expired"}
    /\ timer[s] = "turn" => clock[s] = "expired"
    /\ timer[s] = "turn" /\ s \notin outlived => phase = "poll"
    /\ timer[s] \in {"grace", "spent"} => s \in outlived
    /\ timer[s] = "spent" => s \in killed
    /\ s \in killed => timer[s] \in {"spent", "cleared"} /\ kin[s] \subseteq {"stray"}
    /\ s \in timedOut => s \in outlived

SpawnInv == SpawnTypeOK /\ \A s \in Commands : ChildInv(s)

--------------------------------------------------------------------------------

LEMMA SpawnInitial == SpawnInit => SpawnInv
BY DEF SpawnInit, SpawnInv, SpawnTypeOK, ChildInv, Open, Trees, Clocks, Timers

LEMMA ExitKeeps ==
    ASSUME SpawnInv, NEW s \in Commands, Exit(s)
    PROVE  SpawnInv'
<1>1. PICK c \in Codes, rest \in Leaves[s] :
        /\ s \in killed => rest \subseteq {"stray"}
        /\ code' = [code EXCEPT ![s] = c] /\ kin' = [kin EXCEPT ![s] = rest]
  BY DEF Exit
<1>2. rest \subseteq Kin
  BY LeavesAssumption
<1>3. SpawnTypeOK'
  BY <1>1, <1>2 DEF SpawnInv, SpawnTypeOK, Exit, Trees
<1>4. ASSUME NEW t \in Commands PROVE ChildInv(t)'
  BY <1>1, <1>2 DEF SpawnInv, SpawnTypeOK, ChildInv, Exit, Open, Spawned, Trees, Timers
<1>5. QED  BY <1>3, <1>4 DEF SpawnInv

LEMMA KinEndsKeeps ==
    ASSUME SpawnInv, NEW s \in Commands, KinEnds(s)
    PROVE  SpawnInv'
BY DEF SpawnInv, SpawnTypeOK, ChildInv, KinEnds, Open, Spawned

LEMMA ExpireKeeps ==
    ASSUME SpawnInv, NEW s \in Commands, Expire(s)
    PROVE  SpawnInv'
BY DEF SpawnInv, SpawnTypeOK, ChildInv, Expire, Open, Spawned, Trees, Timers, Clocks

LEMMA SpawnKeeps ==
    ASSUME SpawnInv, NEW s \in Commands, Spawn(s) \/ SpawnFails(s)
    PROVE  SpawnInv'
<1>1. CASE Spawn(s)
  BY <1>1 DEF SpawnInv, SpawnTypeOK, ChildInv, Spawn, Open, Spawned, Trees, Timers, Clocks
<1>2. CASE SpawnFails(s)
  BY <1>2 DEF SpawnInv, SpawnTypeOK, ChildInv, SpawnFails, Open, Spawned, Trees, Timers, Clocks
<1>3. QED  BY <1>1, <1>2

LEMMA LoopKeeps ==
    ASSUME SpawnInv, Loop
    PROVE  SpawnInv'
<1>1. CASE RunTimers
  <2>1. SpawnTypeOK'
    BY <1>1 DEF RunTimers, SpawnInv, SpawnTypeOK, NextTimer, Due, Timers, Kin, Holders
  <2>2. ASSUME NEW s \in Commands
        PROVE  ChildInv(s)'
    <3>1. /\ timer'[s] = NextTimer(s)
          /\ s \in timedOut' <=> s \in timedOut \/ timer'[s] = "grace"
          /\ s \in killed' <=> s \in killed \/ timer'[s] = "spent"
          /\ kin'[s] = IF s \in killed' /\ s \notin killed THEN kin[s] \cap {"stray"} ELSE kin[s]
      BY <1>1 DEF RunTimers
    <3>2. QED
      BY <1>1, <3>1 DEF RunTimers, SpawnInv, SpawnTypeOK, ChildInv, NextTimer, Due, Open, Spawned,
                        Timers
  <2>3. QED  BY <2>1, <2>2 DEF SpawnInv
<1>2. CASE Poll
  <2> DEFINE ended == {s \in Commands : Closed(s) /\ ~Settled(s)}
  <2>1. PICK wrote \in [ended -> Lefts] :
          left' = [s \in Commands |-> IF s \in ended THEN wrote[s] ELSE left[s]]
    BY <1>2 DEF Poll, Resolve
  <2>2. /\ timer' = [s \in Commands |-> IF s \in ended THEN "cleared" ELSE timer[s]]
        /\ clock' = [s \in Commands |-> IF s \in ended THEN "stopped" ELSE clock[s]]
        /\ phase' = "timers" /\ UNCHANGED <<tree, kin, code, timedOut, killed, outlived>>
    BY <1>2 DEF Poll, Resolve
  <2>3. \A s \in Commands : s \in ended => Closed(s)
    OBVIOUS
  <2>4. \A s \in Commands : s \notin ended => ~Closed(s) \/ timer[s] = "cleared"
    BY DEF Settled
  <2> HIDE DEF ended
  <2>5. SpawnTypeOK'
    BY <2>1, <2>2 DEF SpawnInv, SpawnTypeOK, Timers, Clocks
  <2>6. ASSUME NEW s \in Commands PROVE ChildInv(s)'
    <3>1. CASE s \in ended
      BY <2>1, <2>2, <2>3, <3>1
         DEF SpawnInv, SpawnTypeOK, ChildInv, Open, Closed, Spawned, Timers
    <3>2. CASE s \notin ended
      BY <2>1, <2>2, <2>4, <3>2
         DEF SpawnInv, SpawnTypeOK, ChildInv, Open, Closed, Spawned, Trees, Timers
    <3>3. QED  BY <3>1, <3>2
  <2>7. QED  BY <2>5, <2>6 DEF SpawnInv
<1>3. QED  BY <1>1, <1>2 DEF Loop

--------------------------------------------------------------------------------
(***************************************************************************)
(* The agents. What a returned agent reports is a function of how its child *)
(* ended, of which nothing changes any more.                                *)
(***************************************************************************)

\* What an exploration may have returned.
ExploredAs(a, r) ==
    \E o \in Refusals :
        \/ /\ r.findings = {}
           /\ r.outcomes = {Outcome("success", "evidence")} \cup ({o} \ {NoOutcome})
        \/ /\ \E severity \in {"high", "critical"} : r.findings = {Finding(a, severity, o)}
           /\ r.outcomes = {o} \ {NoOutcome}

Returned(a) ==
    \/ report[a] = Unclassified(a, "critical")
    \/ Kind[a] = "surf" /\ ExploredAs(a, report[a])
    \/ Kind[a] = "cli" /\ Spawned(a) /\ report[a] = CliResult(a)
    \/ Kind[a] \in Fuzzers /\ report[a] = FuzzResult(a)

RunTypeOK ==
    /\ expect \in Declaration
    /\ stage \in [Agents -> {"idle", "running", "returned"}]
    /\ DOMAIN report = Agents

AgentInv(a) ==
    /\ a \in Commands /\ stage[a] = "idle" => timer[a] = "unset"
    /\ a \in Commands /\ stage[a] = "returned" => timer[a] \in {"unset", "cleared"}
    /\ stage[a] = "returned" => Returned(a)

VerdictInv ==
    verdict # None =>
        /\ \A a \in Agents : stage[a] = "returned"
        /\ verdict = Verdict(Agents)

TestInv == SpawnInv /\ RunTypeOK /\ (\A a \in Agents : AgentInv(a)) /\ VerdictInv

--------------------------------------------------------------------------------

LEMMA TestInitial == TestInit => TestInv
<1> SUFFICES ASSUME TestInit PROVE TestInv
  OBVIOUS
<1>1. SpawnInv
  BY SpawnInitial DEF TestInit
<1>2. RunTypeOK /\ (\A a \in Agents : AgentInv(a)) /\ VerdictInv
  BY AgentsAssumption DEF TestInit, SpawnInit, RunTypeOK, AgentInv, VerdictInv
<1>3. QED  BY <1>1, <1>2 DEF TestInv

Unmoved(a) ==
    /\ timer'[a] = timer[a] /\ tree'[a] = tree[a] /\ code'[a] = code[a] /\ left'[a] = left[a]
    /\ a \in timedOut' <=> a \in timedOut

\* A child that is over, or never was, is left alone by the loop and by the world: what its
\* agent returned, or would, stays what it is.
LEMMA SettledStays ==
    ASSUME TestInv, (Loop \/ World) /\ UNCHANGED runVars,
           NEW a \in Agents, a \in Commands, timer[a] \in {"unset", "cleared"}
    PROVE  Unmoved(a)
<1>1. CASE RunTimers
  <2>1. timer'[a] = NextTimer(a) /\ (a \in timedOut' <=> a \in timedOut \/ timer'[a] = "grace")
    BY <1>1 DEF RunTimers
  <2>2. QED  BY <1>1, <2>1 DEF RunTimers, NextTimer, Due, Unmoved
<1>2. CASE Poll
  BY <1>2 DEF Poll, Resolve, Settled, Closed, Unmoved, TestInv, SpawnInv, SpawnTypeOK, ChildInv
<1>3. ASSUME NEW s \in Commands, Exit(s) \/ KinEnds(s) \/ Expire(s) PROVE Unmoved(a)
  BY <1>3 DEF Exit, KinEnds, Expire, Open, Unmoved, TestInv, SpawnInv, SpawnTypeOK, ChildInv
<1>4. QED  BY <1>1, <1>2, <1>3 DEF Loop, World

LEMMA ResultStays ==
    ASSUME NEW a \in Agents, Unmoved(a), UNCHANGED expect
    PROVE  CliResult(a)' = CliResult(a) /\ FuzzResult(a)' = FuzzResult(a)
<1>1. CliReply(a)' = CliReply(a) /\ BombadilStatus(a)' = BombadilStatus(a)
  <2>1. CASE a \in timedOut
    BY <2>1 DEF Unmoved, CliReply, BombadilStatus, Spawned, RanEvidence, ViolationEvidence
  <2>2. CASE a \notin timedOut
    BY <2>2 DEF Unmoved, CliReply, BombadilStatus, Spawned, RanEvidence, ViolationEvidence
  <2>3. QED  BY <2>1, <2>2
<1>2. QED
  BY <1>1 DEF CliResult, FuzzResult, WebFuzzResult, TerminalFuzzResult

LEMMA LoopStep ==
    ASSUME TestInv, (Loop \/ World) /\ UNCHANGED runVars
    PROVE  TestInv'
<1>1. SpawnInv'
  BY LoopKeeps, ExitKeeps, KinEndsKeeps, ExpireKeeps DEF TestInv, World
<1>2. RunTypeOK'
  BY DEF TestInv, RunTypeOK, runVars
<1>3. ASSUME NEW a \in Agents
      PROVE  AgentInv(a)'
  <2>1. CASE a \in Commands /\ stage[a] # "running"
    <3>1. timer[a] \in {"unset", "cleared"}
      BY <2>1 DEF TestInv, RunTypeOK, AgentInv
    <3>2. Unmoved(a)
      BY <2>1, <3>1, SettledStays
    <3>3. Returned(a) => Returned(a)'
      BY <3>2, ResultStays DEF Returned, Unmoved, runVars, Spawned, Fuzzers
    <3>4. QED  BY <3>2, <3>3 DEF TestInv, AgentInv, Unmoved, runVars
  <2>2. CASE a \in Commands /\ stage[a] = "running"
    BY <2>2 DEF AgentInv, runVars
  <2>3. CASE a \notin Commands
    <3>1. Kind[a] = "surf"
      BY <2>3, AgentsAssumption
    <3>2. Returned(a) => Returned(a)'
      BY <3>1 DEF Returned, runVars, Fuzzers
    <3>3. QED  BY <2>3, <3>2 DEF TestInv, AgentInv, runVars
  <2>4. QED  BY <2>1, <2>2, <2>3
<1>4. VerdictInv'
  BY DEF TestInv, VerdictInv, runVars, Verdict, OutcomesOf, Findings, Measured
<1>5. QED  BY <1>1, <1>2, <1>3, <1>4 DEF TestInv

\* A step of one agent leaves the children and the results of all others alone.
LEMMA OthersStay ==
    ASSUME TestInv, NEW b \in Agents, AgentStep(b), NEW a \in Agents, a # b
    PROVE  AgentInv(a)'
<1>1. /\ stage'[a] = stage[a] /\ report'[a] = report[a]
      /\ UNCHANGED expect
  BY DEF AgentStep, MissingTarget, Execute, RefuseStep, CliReturns, FuzzReturns, SurfReturns,
         Return, TestInv, RunTypeOK
<1>2. CASE a \in Commands
  <2>1. ASSUME Execute(b) PROVE Unmoved(a)
    BY <1>2, <2>1 DEF Execute, Spawn, SpawnFails, spawnVars, Unmoved, TestInv, SpawnInv, SpawnTypeOK
  <2>2. ASSUME UNCHANGED spawnVars PROVE Unmoved(a)
    BY <2>2 DEF spawnVars, Unmoved
  <2>3. Unmoved(a)
    BY <2>1, <2>2 DEF AgentStep, MissingTarget, RefuseStep, CliReturns, FuzzReturns, SurfReturns
  <2>4. Returned(a) => Returned(a)'
    BY <1>1, <2>3, ResultStays DEF Returned, Unmoved, Spawned, Fuzzers
  <2>5. QED  BY <1>1, <2>3, <2>4 DEF TestInv, AgentInv, Unmoved
<1>3. CASE a \notin Commands
  <2>1. Kind[a] = "surf"
    BY <1>3, AgentsAssumption
  <2>2. Returned(a) => Returned(a)'
    BY <1>1, <2>1 DEF Returned, Fuzzers
  <2>3. QED  BY <1>1, <1>3, <2>2 DEF TestInv, AgentInv
<1>4. QED  BY <1>2, <1>3

\* What the agent that took the step returned.
LEMMA AgentReturns ==
    ASSUME TestInv, NEW a \in Agents, AgentStep(a)
    PROVE  RunTypeOK' /\ AgentInv(a)'
<1>1. CASE MissingTarget(a) \/ RefuseStep(a)
  BY <1>1 DEF MissingTarget, RefuseStep, Return, TestInv, RunTypeOK, AgentInv, Returned, spawnVars,
              Unclassified, Result, Finding
<1>2. CASE Execute(a)
  BY <1>2 DEF Execute, TestInv, RunTypeOK, AgentInv
<1>3. ASSUME CliReturns(a) \/ FuzzReturns(a)
      PROVE  RunTypeOK' /\ AgentInv(a)'
  <2>1. UNCHANGED spawnVars /\ UNCHANGED expect /\ Settled(a)
    BY <1>3 DEF CliReturns, FuzzReturns
  <2>2. CliResult(a)' = CliResult(a) /\ FuzzResult(a)' = FuzzResult(a)
    BY <2>1, ResultStays DEF Unmoved, spawnVars
  <2>3. Unclassified(a, "critical")' = Unclassified(a, "critical")
    OBVIOUS
  <2>4. /\ \/ report'[a] = Unclassified(a, "critical")
           \/ Kind[a] = "cli" /\ Spawned(a) /\ report'[a] = CliResult(a)
           \/ Kind[a] \in Fuzzers /\ report'[a] = FuzzResult(a)
        /\ RunTypeOK' /\ stage'[a] = "returned"
    BY <1>3 DEF CliReturns, FuzzReturns, Return, TestInv, RunTypeOK
  <2>5. Returned(a)'
    BY <2>1, <2>2, <2>3, <2>4 DEF Returned, Spawned, spawnVars
  <2>6. QED  BY <2>1, <2>4, <2>5 DEF AgentInv, Settled, spawnVars
<1>4. CASE SurfReturns(a)
  <2>1. a \notin Commands
    BY <1>4, AgentsAssumption DEF SurfReturns
  <2>2. PICK r : Return(a, r) /\ ExploredAs(a, r)
    <3>1. NoOutcome \in Refusals /\ Fault \in Refusals
      BY DEF Refusals
    <3>2. CASE Return(a, Result({}, {Outcome("success", "evidence")}, 100))
      <4>1. ExploredAs(a, Result({}, {Outcome("success", "evidence")}, 100))
        BY <3>1 DEF ExploredAs, Result
      <4>2. QED  BY <3>2, <4>1
    <3>3. ASSUME NEW o \in Refusals,
                 Return(a, Result({}, {Outcome("success", "evidence")} \cup ({o} \ {NoOutcome}), 50))
          PROVE  \E r : Return(a, r) /\ ExploredAs(a, r)
      <4>1. ExploredAs(a, Result({}, {Outcome("success", "evidence")} \cup ({o} \ {NoOutcome}), 50))
        BY DEF ExploredAs, Result
      <4>2. QED  BY <3>3, <4>1
    <3>4. ASSUME NEW o \in Refusals, NEW page \in BOOLEAN,
                 Return(a, Result({Finding(a, IF page THEN "high" ELSE "critical", o)},
                                  {o} \ {NoOutcome}, 0))
          PROVE  \E r : Return(a, r) /\ ExploredAs(a, r)
      <4>1. ExploredAs(a, Result({Finding(a, IF page THEN "high" ELSE "critical", o)},
                                 {o} \ {NoOutcome}, 0))
        BY DEF ExploredAs, Result
      <4>2. QED  BY <3>4, <4>1
    <3>5. QED  BY <1>4, <3>2, <3>3, <3>4 DEF SurfReturns
  <2>3. RunTypeOK' /\ report'[a] = r
    BY <1>4, <2>2 DEF SurfReturns, Return, TestInv, RunTypeOK
  <2>4. QED
    BY <1>4, <2>1, <2>2, <2>3 DEF SurfReturns, AgentInv, Returned
<1>5. QED  BY <1>1, <1>2, <1>3, <1>4 DEF AgentStep

LEMMA TestStep == TestInv /\ [TestNext]_testVars => TestInv'
<1> SUFFICES ASSUME TestInv, [TestNext]_testVars
             PROVE  TestInv'
  OBVIOUS
<1>1. CASE (Loop \/ World) /\ UNCHANGED runVars
  BY <1>1, LoopStep
<1>2. ASSUME NEW a \in Agents, AgentStep(a)
      PROVE  TestInv'
  <2>1. SpawnInv'
    <3>1. ASSUME UNCHANGED spawnVars PROVE SpawnInv'
      BY <3>1 DEF TestInv, SpawnInv, SpawnTypeOK, ChildInv, Open, Spawned, spawnVars
    <3>2. ASSUME Execute(a) PROVE SpawnInv'
      BY <3>1, <3>2, SpawnKeeps DEF Execute, TestInv
    <3>3. QED
      BY <1>2, <3>1, <3>2 DEF AgentStep, MissingTarget, RefuseStep, CliReturns, FuzzReturns,
                              SurfReturns
  <2>2. VerdictInv'
    <3>1. stage[a] # "returned" /\ UNCHANGED verdict
      BY <1>2 DEF AgentStep, MissingTarget, Execute, RefuseStep, CliReturns, FuzzReturns, SurfReturns
    <3>2. QED  BY <3>1 DEF TestInv, VerdictInv
  <2>3. QED  BY <1>2, <2>1, <2>2, AgentReturns, OthersStay DEF TestInv
<1>3. CASE Report
  <2>1. UNCHANGED <<spawnVars, expect, stage, report>> /\ VerdictInv'
    BY <1>3 DEF Report, VerdictInv, Verdict, OutcomesOf, Findings, Measured
  <2>2. SpawnInv' /\ RunTypeOK'
    BY <2>1 DEF TestInv, SpawnInv, SpawnTypeOK, ChildInv, Open, Spawned, spawnVars, RunTypeOK
  <2>3. ASSUME NEW a \in Agents PROVE AgentInv(a)'
    <3>1. CliResult(a)' = CliResult(a) /\ FuzzResult(a)' = FuzzResult(a)
      BY <2>1, ResultStays DEF Unmoved, spawnVars
    <3>2. QED  BY <2>1, <3>1 DEF TestInv, AgentInv, Returned, Spawned, spawnVars
  <2>4. QED  BY <2>1, <2>2, <2>3 DEF TestInv
<1>4. CASE UNCHANGED testVars
  <2>1. UNCHANGED <<spawnVars, expect, stage, report, verdict>>
    BY <1>4 DEF testVars, runVars
  <2>2. SpawnInv' /\ RunTypeOK' /\ VerdictInv'
    BY <2>1 DEF TestInv, SpawnInv, SpawnTypeOK, ChildInv, Open, Spawned, spawnVars, RunTypeOK, VerdictInv,
                Verdict, OutcomesOf, Findings, Measured
  <2>3. ASSUME NEW a \in Agents PROVE AgentInv(a)'
    <3>1. CliResult(a)' = CliResult(a) /\ FuzzResult(a)' = FuzzResult(a)
      BY <2>1, ResultStays DEF Unmoved, spawnVars
    <3>2. QED  BY <2>1, <3>1 DEF TestInv, AgentInv, Returned, Spawned, spawnVars
  <2>4. QED  BY <2>1, <2>2, <2>3 DEF TestInv
<1>5. QED  BY <1>1, <1>2, <1>3, <1>4 DEF TestNext

THEOREM TestInvHolds == TestSpec => []TestInv
BY TestInitial, TestStep, PTL DEF TestSpec

\* A command is reported as killed by its budget only if its tree outlived that budget.
THEOREM TimedOutOutlivedHolds == TestSpec => []TimedOutOutlived
<1>1. TestInv => TimedOutOutlived
  BY DEF TestInv, SpawnInv, SpawnTypeOK, ChildInv, TimedOutOutlived
<1>2. QED  BY <1>1, TestInvHolds, PTL

\* When the verdict is there, no command of the run is open, and nothing is left of one
\* whose group was sent the SIGKILL.
THEOREM OnlyQuietOutliveHolds == TestSpec => []OnlyQuietOutlive
<1>1. TestInv => OnlyQuietOutlive
  <2> SUFFICES ASSUME TestInv, verdict # None, NEW s \in Commands
               PROVE  ~Open(s) /\ (s \in killed => kin[s] = {})
    BY DEF OnlyQuietOutlive
  <2>1. timer[s] \in {"unset", "cleared"}
    BY AgentsAssumption DEF TestInv, VerdictInv, AgentInv
  <2>2. ~Open(s) /\ (s \in killed => kin[s] \subseteq {"stray"})
    BY <2>1 DEF TestInv, SpawnInv, SpawnTypeOK, ChildInv, Open
  <2>3. QED  BY <2>2 DEF Open, Holders
<1>2. QED  BY <1>1, TestInvHolds, PTL

--------------------------------------------------------------------------------
(***************************************************************************)
(* The verdict. A blocking finding survives correlation, and a run with one *)
(* does not pass; neither does one with an outcome other than evidence.     *)
(***************************************************************************)

\* The values of a function on a finite set are finitely many.
LEMMA ImageFinite ==
    ASSUME NEW S, IsFiniteSet(S), NEW f, DOMAIN f = S, f = [x \in S |-> f[x]]
    PROVE  IsFiniteSet({f[x] : x \in S})
<1>1. f \in Surjection(S, {f[x] : x \in S})
  BY DEF Surjection
<1>2. QED  BY <1>1, FS_Surjection

LEMMA CorrelatedFinite ==
    ASSUME NEW findings, IsFiniteSet(findings)
    PROVE  IsFiniteSet(CorrelateFindings(findings)) /\ findings \subseteq CorrelateFindings(findings)
<1> DEFINE Of(component) == {f \in findings : f.component = component}
           components == {f.component : f \in findings}
           several == {d \in components : Cardinality(Of(d)) > 1}
           more == {Correlation(c, Of(c)) : c \in several}
           componentOf == [f \in findings |-> f.component]
           correlationOf == [c \in several |-> Correlation(c, Of(c))]
<1>1. IsFiniteSet(components)
  <2>1. IsFiniteSet({componentOf[f] : f \in findings})
    <3> HIDE DEF componentOf
    <3>1. DOMAIN componentOf = findings /\ componentOf = [f \in findings |-> componentOf[f]]
      BY DEF componentOf
    <3>2. QED  BY <3>1, ImageFinite
  <2>2. components = {componentOf[f] : f \in findings}
    OBVIOUS
  <2>3. QED  BY <2>1, <2>2
<1>2. IsFiniteSet(several)
  BY <1>1, FS_Subset
<1>3. IsFiniteSet(more)
  <2>1. IsFiniteSet({correlationOf[c] : c \in several})
    <3> HIDE DEF correlationOf, several
    <3>1. DOMAIN correlationOf = several /\ correlationOf = [c \in several |-> correlationOf[c]]
      BY DEF correlationOf
    <3>2. QED  BY <1>2, <3>1, ImageFinite
  <2>2. more = {correlationOf[c] : c \in several}
    OBVIOUS
  <2>3. QED  BY <2>1, <2>2
<1>4. CorrelateFindings(findings) = findings \cup more
  BY DEF CorrelateFindings
<1>5. QED  BY <1>3, <1>4, FS_Union

LEMMA VerdictNeeds ==
    ASSUME NEW findings, IsFiniteSet(findings), NEW outcomes, NEW coverage,
           DetermineRun(outcomes, Cardinality(Blocking(CorrelateFindings(findings))), coverage)
               = "verified"
    PROVE  /\ \A f \in findings : f \notin Blocking(findings)
           /\ \A o \in outcomes :
                 o.basis \notin {"fault", "indeterminate", "no_evidence", "contradiction"}
<1> DEFINE blocking == Cardinality(Blocking(CorrelateFindings(findings)))
           candidates == Candidates(outcomes, blocking, coverage)
<1>1. candidates = {"verified"}
  BY DEF DetermineRun
<1>2. blocking \in Nat /\ (blocking = 0 <=> Blocking(CorrelateFindings(findings)) = {})
  <2>1. IsFiniteSet(Blocking(CorrelateFindings(findings)))
    BY CorrelatedFinite, FS_Subset DEF Blocking
  <2>2. QED  BY <2>1, FS_CardinalityType, FS_EmptySet
<1>3. ~(blocking > 0)
  BY <1>1 DEF Candidates
<1>4. Blocking(CorrelateFindings(findings)) = {}
  BY <1>2, <1>3
<1>5. \A o \in outcomes :
         o.basis \notin {"fault", "indeterminate", "no_evidence", "contradiction"}
  BY <1>1 DEF Candidates
<1>6. QED  BY <1>4, <1>5, CorrelatedFinite DEF Blocking

\* What an agent returned holds one finding at most, and that is its own.
LEMMA ReturnedFinding ==
    ASSUME NEW a \in Agents, Returned(a), report[a].findings # {}
    PROVE  \E f : report[a].findings = {f} /\ f.agent = a /\ f.component = Target(a)
<1> DEFINE Named(r) == \E f : r.findings = {f} /\ f.agent = a /\ f.component = Target(a)
<1>1. ASSUME NEW severity, NEW outcomes, NEW o, NEW n
      PROVE  Named(Result({Finding(a, severity, o)}, outcomes, n))
  <2>1. \A f : f.agent = a /\ f.component = Target(a) => Named(Result({f}, outcomes, n))
    BY DEF Result
  <2>2. Finding(a, severity, o).agent = a /\ Finding(a, severity, o).component = Target(a)
    BY DEF Finding
  <2> HIDE DEF Named
  <2>3. QED  BY <2>1, <2>2
<1>2. CASE report[a] = Unclassified(a, "critical")
  BY <1>1, <1>2 DEF Unclassified
<1>3. CASE ExploredAs(a, report[a])
  <2>1. PICK severity, o : report[a].findings = {Finding(a, severity, o)}
    BY <1>3 DEF ExploredAs
  <2>2. report[a].findings = Result({Finding(a, severity, o)}, {}, 0).findings
    BY <2>1 DEF Result
  <2>3. QED  BY <1>1, <2>2
<1>4. CASE report[a] = CliResult(a)
  BY <1>1, <1>4 DEF CliResult, Result
<1>5. CASE Kind[a] \in Fuzzers /\ report[a] = FuzzResult(a)
  <2>1. BombadilStatus(a) \in {"completed", "budget_exhausted", "violation", "runtime_error"}
    BY DEF BombadilStatus
  <2>2. \/ FuzzResult(a) = Result({}, {}, 100)
        \/ FuzzResult(a) = Result({Finding(a, "high", NoOutcome)}, {}, 100)
        \/ FuzzResult(a) = Result({Finding(a, "critical", NoOutcome)}, {}, 0)
    BY <2>1 DEF FuzzResult, WebFuzzResult, TerminalFuzzResult, Unclassified
  <2>3. Result({}, {}, 100).findings = {}
    BY DEF Result
  <2>4. QED  BY <1>1, <1>5, <2>2, <2>3
<1>6. QED  BY <1>2, <1>3, <1>4, <1>5 DEF Returned

LEMMA ReturnedFinite ==
    ASSUME NEW a \in Agents, Returned(a)
    PROVE  IsFiniteSet(report[a].findings)
<1>1. report[a].findings = {} \/ \E f : report[a].findings = {f}
  BY ReturnedFinding
<1>2. QED  BY <1>1, FS_EmptySet, FS_Singleton

Spotless(a) ==
    /\ \A f \in report[a].findings : f \notin Blocking(report[a].findings)
    /\ \A o \in report[a].outcomes :
          o.basis \notin {"fault", "indeterminate", "no_evidence", "contradiction"}

LEMMA NotUnclassified ==
    ASSUME NEW a \in Agents, Spotless(a)
    PROVE  /\ report[a] # Unclassified(a, "critical")
           /\ report[a].findings # {Finding(a, "high", NoOutcome)}
           /\ report[a].findings # {Finding(a, "critical", NoOutcome)}
<1>1. ASSUME NEW severity \in {"high", "critical"}
      PROVE  report[a].findings # {Finding(a, severity, NoOutcome)}
  <2>1. Finding(a, severity, NoOutcome) \in Blocking({Finding(a, severity, NoOutcome)})
    BY DEF Blocking, Finding
  <2>2. QED  BY <2>1 DEF Spotless
<1>2. Unclassified(a, "critical").findings = {Finding(a, "critical", NoOutcome)}
  BY DEF Unclassified, Result
<1>3. QED  BY <1>1, <1>2

LEMMA SurfEarns ==
    ASSUME NEW a \in Agents, Kind[a] = "surf", Returned(a), Spotless(a)
    PROVE  Earned(a)
<1>1. ExploredAs(a, report[a])
  BY NotUnclassified DEF Returned, Fuzzers
<1>2. PICK o \in Refusals :
        \/ report[a].outcomes = {Outcome("success", "evidence")} \cup ({o} \ {NoOutcome})
        \/ /\ \E severity \in {"high", "critical"} : report[a].findings = {Finding(a, severity, o)}
           /\ report[a].outcomes = {o} \ {NoOutcome}
  BY <1>1 DEF ExploredAs
<1>3. o = NoOutcome
  BY <1>2 DEF Spotless, Refusals, Fault, Contradiction, Outcome, NoOutcome
<1>4. report[a].outcomes = {Outcome("success", "evidence")}
  BY <1>2, <1>3, NotUnclassified
<1>5. QED  BY <1>4 DEF Earned

\* A reply with no fault, no contradiction and no silence in it came from a command that
\* exited 0 in time, with output or with its absence declared.
LEMMA CliEarns ==
    ASSUME TestInv, NEW a \in Agents, Kind[a] = "cli", Returned(a), Spotless(a),
           stage[a] = "returned"
    PROVE  Earned(a)
<1> DEFINE r == CliReply(a)
           o == ClassifyResult(r, expect)
<1>1. a \in Commands /\ Spawned(a) /\ report[a] = CliResult(a)
  BY NotUnclassified, AgentsAssumption DEF Returned, Fuzzers
<1>2. o \in report[a].outcomes
  BY <1>1 DEF CliResult, Result
<1>3. o.basis \notin {"fault", "indeterminate", "no_evidence", "contradiction"}
  BY <1>2 DEF Spotless
<1>4. /\ expect.marker \in BOOLEAN /\ expect.envelope \in BOOLEAN
      /\ expect.empty \in BOOLEAN /\ expect.json \in BOOLEAN
  BY DEF TestInv, RunTypeOK, Declaration
<1>5. code[a] \in Codes /\ left[a] \in Lefts
  BY <1>1 DEF TestInv, SpawnInv, SpawnTypeOK, ChildInv, AgentInv, Open, Spawned, Trees
<1>6. ~TransportFailed(r)
  BY <1>3 DEF ClassifyResult, TransportFailure, BasisForTransportFailure, Outcome, CliReply
<1>7. a \notin timedOut /\ code[a] # "null" /\ r.transport \in {"exit_zero", "exit_nonzero"}
  BY <1>6 DEF TransportFailed, CliReply
<1>8. ErrorOf(r, expect) = {}
  <2>1. ErrorOf(r, expect) = ProcessError(r, expect)
    BY DEF ErrorOf, CliReply
  <2>2. ASSUME NEW e, ProcessError(r, expect) = {e}, e.basis \in {"fault", "contradiction"}
        PROVE  FALSE
    <3>1. o = CHOOSE x \in {e} : TRUE
      BY <1>6, <2>1, <2>2 DEF ClassifyResult
    <3>2. QED  BY <1>3, <2>2, <3>1
  <2>3. QED
    BY <2>1, <2>2 DEF ProcessError, Fault, Contradiction, Enveloped, Outcome
<1>9. code[a] = "zero" /\ (left[a] = "telling" => ~expect.json)
  BY <1>4, <1>5, <1>7, <1>8 DEF ErrorOf, ProcessError, ParseFailed, CliReply, Codes
<1>10. left[a] # "nothing" \/ (expect.empty /\ ~expect.marker)
  <2>1. o = Emptiness(r, expect)
    BY <1>6, <1>8 DEF ClassifyResult, Effective, CliReply
  <2>2. r.empty <=> left[a] = "nothing"
    BY DEF CliReply
  <2>3. ASSUME r.empty, ~expect.empty \/ expect.marker PROVE FALSE
    <3>1. "marker" \notin r.signals
      BY DEF CliReply
    <3>2. Emptiness(r, expect) = Outcome("empty", "no_evidence")
      BY <1>4, <2>3, <3>1 DEF Emptiness
    <3>3. QED  BY <1>3, <2>1, <3>2 DEF Outcome
  <2>4. QED  BY <1>4, <2>2, <2>3
<1>11. QED  BY <1>5, <1>7, <1>9, <1>10, NoneAssumption DEF Earned

LEMMA FuzzEarns ==
    ASSUME TestInv, NEW a \in Agents, Kind[a] \in Fuzzers, Returned(a), Spotless(a),
           stage[a] = "returned"
    PROVE  Earned(a)
<1>1. a \in Commands /\ report[a] = FuzzResult(a)
  BY NotUnclassified, AgentsAssumption DEF Returned, Fuzzers
<1>2. BombadilStatus(a) \in {"completed", "budget_exhausted"}
  <2>1. BombadilStatus(a) \in {"completed", "budget_exhausted", "violation", "runtime_error"}
    BY DEF BombadilStatus
  <2>2. ASSUME BombadilStatus(a) = "runtime_error" PROVE FALSE
    <3>1. FuzzResult(a) = Unclassified(a, "critical")
      BY <2>2 DEF FuzzResult, WebFuzzResult, TerminalFuzzResult
    <3>2. QED  BY <1>1, <3>1, NotUnclassified
  <2>3. ASSUME BombadilStatus(a) = "violation" PROVE FALSE
    <3>1. CASE Kind[a] = "web"
      <4>1. FuzzResult(a).findings = {Finding(a, "high", NoOutcome)}
        BY <2>3, <3>1 DEF FuzzResult, WebFuzzResult, Result
      <4>2. QED  BY <1>1, <4>1, NotUnclassified
    <3>2. CASE Kind[a] # "web"
      <4>1. FuzzResult(a) = Unclassified(a, "critical")
        BY <2>3, <3>2 DEF FuzzResult, TerminalFuzzResult
      <4>2. QED  BY <1>1, <4>1, NotUnclassified
    <3>3. QED  BY <3>1, <3>2
  <2>4. QED  BY <2>1, <2>2, <2>3
<1>3. Spawned(a) /\ RanEvidence(a) /\ (code[a] = "zero" \/ a \in timedOut)
  BY <1>2 DEF BombadilStatus
<1>4. left[a] \in Lefts
  BY <1>1, <1>3 DEF TestInv, SpawnInv, SpawnTypeOK, ChildInv, AgentInv, Spawned, Trees
<1>5. QED  BY <1>3, <1>4 DEF Earned, RanEvidence, Fuzzers

\* In a run that passes every agent is spotless.
LEMMA VerifiedSpotless ==
    ASSUME TestInv, verdict = "verified", NEW a \in Agents
    PROVE  stage[a] = "returned" /\ Returned(a) /\ Spotless(a)
<1>1. /\ \A b \in Agents : stage[b] = "returned" /\ Returned(b)
      /\ Verdict(Agents) = "verified"
  BY VerdictAssumption DEF TestInv, VerdictInv, AgentInv
<1>2. IsFiniteSet(Findings(Agents))
  <2> DEFINE found == [b \in Agents |-> report[b].findings]
  <2>1. IsFiniteSet({found[b] : b \in Agents})
    <3> HIDE DEF found
    <3>1. DOMAIN found = Agents /\ found = [b \in Agents |-> found[b]]
      BY DEF found
    <3>2. QED  BY <3>1, ImageFinite, AgentsAssumption
  <2>2. \A T \in {found[b] : b \in Agents} : IsFiniteSet(T)
    BY <1>1, ReturnedFinite
  <2>3. IsFiniteSet(UNION {found[b] : b \in Agents})
    BY <2>1, <2>2, FS_UNION
  <2>4. Findings(Agents) = UNION {found[b] : b \in Agents}
    BY DEF Findings
  <2>5. QED  BY <2>3, <2>4
<1>3. /\ \A f \in Findings(Agents) : f \notin Blocking(Findings(Agents))
      /\ \A o \in OutcomesOf(Agents) :
            o.basis \notin {"fault", "indeterminate", "no_evidence", "contradiction"}
  BY <1>1, <1>2, VerdictNeeds DEF Verdict
<1>4. Spotless(a)
  <2>1. \A f \in report[a].findings : f \in Findings(Agents)
    BY DEF Findings
  <2>2. \A o \in report[a].outcomes : o \in OutcomesOf(Agents)
    BY DEF OutcomesOf
  <2>3. QED  BY <1>3, <2>1, <2>2 DEF Spotless, Blocking
<1>5. QED  BY <1>1, <1>4

\* A run passes only if every agent saw its target work.
THEOREM VerifiedIsEarnedHolds == TestSpec => []VerifiedIsEarned
<1>1. TestInv => VerifiedIsEarned
  <2> SUFFICES ASSUME TestInv, verdict = "verified", NEW a \in Agents
               PROVE  Earned(a)
    BY DEF VerifiedIsEarned
  <2>1. stage[a] = "returned" /\ Returned(a) /\ Spotless(a)
    BY VerifiedSpotless
  <2>2. Kind[a] = "surf" \/ Kind[a] = "cli" \/ Kind[a] \in Fuzzers
    BY AgentsAssumption DEF Kinds, Fuzzers
  <2>3. QED  BY <2>1, <2>2, SurfEarns, CliEarns, FuzzEarns
<1>2. QED  BY <1>1, TestInvHolds, PTL

--------------------------------------------------------------------------------
(***************************************************************************)
(* The causes. An agent has one finding at most, so that what it says alone *)
(* is what its two evidence units say; and each agent that found something  *)
(* has its units among those that must agree.                               *)
(***************************************************************************)

\* The outcome of a cli command that is not ok speaks against the run.
LEMMA CliOutcome ==
    ASSUME NEW a \in Agents, ~IsOk(ClassifyResult(CliReply(a), expect))
    PROVE  ClassifyResult(CliReply(a), expect).basis
             \in {"fault", "indeterminate", "no_evidence", "contradiction"}
<1> DEFINE r == CliReply(a)
<1>1. CASE TransportFailed(r)
  BY <1>1 DEF ClassifyResult, TransportFailure, BasisForTransportFailure, Outcome
<1>2. CASE ~TransportFailed(r) /\ ErrorOf(r, expect) # {}
  <2>1. ErrorOf(r, expect) = ProcessError(r, expect)
    BY DEF ErrorOf, CliReply
  <2>2. \A e \in ProcessError(r, expect) : e.basis \in {"fault", "contradiction"}
    BY DEF ProcessError, Fault, Contradiction, Enveloped, Outcome
  <2>3. ClassifyResult(r, expect) \in ErrorOf(r, expect)
    BY <1>2 DEF ClassifyResult
  <2>4. QED  BY <2>1, <2>2, <2>3
<1>3. CASE ~TransportFailed(r) /\ ErrorOf(r, expect) = {}
  <2> DEFINE d == Effective(r, expect)
             o == Emptiness(r, d)
  <2>1. ClassifyResult(r, expect) = o
    BY <1>3 DEF ClassifyResult
  <2>2. o \in {Outcome("declared_empty", "evidence"), Outcome("empty", "no_evidence"),
               Outcome("success", "evidence")}
    <3> HIDE DEF r, d
    <3>1. QED  BY DEF Emptiness
  <2>3. QED  BY <2>1, <2>2 DEF Outcome, IsOk
<1>4. QED  BY <1>1, <1>2, <1>3

\* In a run that passes no agent found anything.
LEMMA SpotlessFindsNothing ==
    ASSUME NEW a \in Agents, Returned(a), Spotless(a)
    PROVE  report[a].findings = {}
<1>1. CASE ExploredAs(a, report[a])
  <2>1. PICK o \in Refusals :
          \/ report[a].findings = {}
          \/ /\ \E severity \in {"high", "critical"} : report[a].findings = {Finding(a, severity, o)}
             /\ report[a].outcomes = {o} \ {NoOutcome}
    BY <1>1 DEF ExploredAs
  <2>2. CASE o = NoOutcome
    BY <2>1, <2>2, NotUnclassified
  <2>3. CASE o # NoOutcome
    <3>1. o.basis \in {"fault", "no_evidence", "contradiction"}
      BY <2>3 DEF Refusals, Fault, Contradiction, Outcome
    <3>2. QED  BY <2>1, <2>3, <3>1 DEF Spotless
  <2>4. QED  BY <2>2, <2>3
<1>2. CASE report[a] = CliResult(a)
  <2> DEFINE o == ClassifyResult(CliReply(a), expect)
  <2>1. o \in report[a].outcomes
    BY <1>2 DEF CliResult, Result
  <2>2. IsOk(o)
    BY <2>1, CliOutcome DEF Spotless
  <2>3. QED  BY <1>2, <2>2 DEF CliResult, Result
<1>3. CASE report[a] = FuzzResult(a)
  <2>1. BombadilStatus(a) \in {"completed", "budget_exhausted", "violation", "runtime_error"}
    BY DEF BombadilStatus
  <2>2. \/ FuzzResult(a) = Result({}, {}, 100)
        \/ FuzzResult(a) = Result({Finding(a, "high", NoOutcome)}, {}, 100)
        \/ FuzzResult(a) = Unclassified(a, "critical")
    BY <2>1 DEF FuzzResult, WebFuzzResult, TerminalFuzzResult
  <2>3. Result({}, {}, 100).findings = {}
        /\ Result({Finding(a, "high", NoOutcome)}, {}, 100).findings = {Finding(a, "high", NoOutcome)}
    BY DEF Result
  <2>4. QED  BY <1>3, <2>2, <2>3, NotUnclassified
<1>4. QED  BY <1>1, <1>2, <1>3, NotUnclassified DEF Returned

LEMMA WorstOfPassed ==
    ASSUME NEW observations, \A o \in observations : o.status = "passed"
    PROVE  WorstStatus(observations, {}) = "passed"
<1>1. {"passed"} \cup {o.status : o \in observations} \cup {} = {"passed"}
  OBVIOUS
<1>2. ~Worse("passed", "passed")
  BY DEF Worse, Statuses
<1>3. Worst({"passed"}) = "passed"
  BY <1>2 DEF Worst
<1>4. QED  BY <1>1, <1>3 DEF WorstStatus

LEMMA AgentsFinite ==
    ASSUME NEW S \in SUBSET Agents, NEW T \in SUBSET S, Cardinality(T) >= 2
    PROVE  Cardinality(S) > 1
<1>1. IsFiniteSet(S)
  BY AgentsAssumption, FS_Subset
<1>2. IsFiniteSet(T) /\ Cardinality(T) \in Nat /\ Cardinality(S) \in Nat
      /\ Cardinality(T) <= Cardinality(S)
  BY <1>1, FS_Subset, FS_CardinalityType
<1>3. QED  BY <1>2

LEMMA UnitsOf ==
    ASSUME NEW observations, NEW findings,
           NEW units, units = RootCauseEvidenceUnits(observations, findings)
    PROVE  /\ \A u \in units : \E o \in observations :
                 o.status \in {"failed", "errored"} /\ u.agent = o.agent
           /\ \A o \in observations, t \in findings :
                 o.status \in {"failed", "errored"} /\ t \in o.findings =>
                     /\ Unit(o, {t}) \in units
                     /\ Unit(o, {}).class = Unit(o, {t}).class \/ Unit(o, {}) \in units
<1> DEFINE signals   == SignalObservations(observations)
           links     == {l \in signals \X findings : l[2] \in l[1].findings}
           conflicts == {l \in links : Unit(l[1], {}).class # Unit(l[1], {l[2]}).class}
           linked    == {Unit(l[1], {l[2]}) : l \in links}
           divided   == {Unit(l[1], {}) : l \in conflicts}
           silent    == {Unit(o, {}) : o \in {s \in signals : s.findings \cap findings = {}}}
<1>1. units = linked \cup divided \cup silent
  BY DEF RootCauseEvidenceUnits
<1>2. \A o, F : Unit(o, F).agent = o.agent
  BY DEF Unit
<1>3. \A o : o \in signals <=> o \in observations /\ o.status \in {"failed", "errored"}
  BY DEF SignalObservations
<1>4. \A u \in units : \E o \in signals : u.agent = o.agent
  <2> HIDE DEF signals
  <2>1. ASSUME NEW u \in linked PROVE \E o \in signals : u.agent = o.agent
    <3>1. PICK l \in links : u = Unit(l[1], {l[2]})
      OBVIOUS
    <3>2. QED  BY <1>2, <3>1
  <2>2. ASSUME NEW u \in divided PROVE \E o \in signals : u.agent = o.agent
    <3>1. PICK l \in links : u = Unit(l[1], {})
      OBVIOUS
    <3>2. QED  BY <1>2, <3>1
  <2>3. \A u \in silent : \E o \in signals : u.agent = o.agent
    BY <1>2
  <2> HIDE DEF linked, divided, silent
  <2>4. QED  BY <1>1, <2>1, <2>2, <2>3
<1>5. ASSUME NEW o \in signals, NEW t \in findings, t \in o.findings
      PROVE  /\ Unit(o, {t}) \in units
             /\ Unit(o, {}).class = Unit(o, {t}).class \/ Unit(o, {}) \in units
  <2> DEFINE l == <<o, t>>
  <2>1. l \in links /\ l[1] = o /\ l[2] = t
    BY <1>5
  <2>2. Unit(o, {t}) \in linked
    <3> HIDE DEF links, l
    <3>1. QED  BY <2>1
  <2>3. Unit(o, {}).class # Unit(o, {t}).class => Unit(o, {}) \in divided
    <3> HIDE DEF links, l
    <3>1. Unit(o, {}).class # Unit(o, {t}).class => l \in conflicts
      BY <2>1
    <3> HIDE DEF conflicts
    <3>2. QED  BY <2>1, <3>1
  <2> HIDE DEF linked, divided, silent
  <2>4. QED  BY <1>1, <2>2, <2>3
<1>6. QED
  <2> HIDE DEF signals
  <2>1. QED  BY <1>3, <1>4, <1>5

\* The units of a component, and their agreement on a class.
UnitsFor(component, observations, findings) ==
    RootCauseEvidenceUnits({o \in observations : o.component = component},
                           Calibrating({f \in findings : f.component = component}))

Concerted(units, class) ==
    Cardinality({u.agent : u \in units}) >= 2 /\ \A u \in units : u.class = class

LEMMA ConcertedSome ==
    ASSUME NEW units, NEW class, Concerted(units, class)
    PROVE  \E u : u \in units
<1>1. ASSUME units = {} PROVE FALSE
  <2>1. {u.agent : u \in units} = {}
    BY <1>1
  <2>2. Cardinality({u.agent : u \in units}) = 0
    BY <2>1, FS_EmptySet
  <2>3. QED  BY <2>2 DEF Concerted
<1>2. QED  BY <1>1

LEMMA CauseHasUnits ==
    ASSUME NEW component, NEW observations, NEW findings,
           NEW cause \in RootCausesOf(component, observations, findings)
    PROVE  Concerted(UnitsFor(component, observations, findings), cause.class)
<1> DEFINE counted == Calibrating({f \in findings : f.component = component})
           own     == {o \in observations : o.component = component}
           units   == RootCauseEvidenceUnits(own, counted)
           chosen  == UNION {u.findings : u \in units}
           agents  == {u.agent : u \in units}
           status  == WorstStatus(own, chosen)
           classes == {d \in Agreed(units) :
                         \A f \in counted \ chosen : InferRootCauseClass({}, {f}) = d}
<1>1. cause \in {[component |-> component, class |-> d, agents |-> agents, status |-> status] :
                    d \in classes}
  BY DEF RootCausesOf
<1>2. cause.class \in classes
  <2> HIDE DEF classes, agents, status
  <2>1. QED  BY <1>1
<1>3. cause.class \in Agreed(units)
  <2> HIDE DEF units, chosen, counted
  <2>1. QED  BY <1>2
<1>4. QED
  <2> HIDE DEF units
  <2>1. Concerted(units, cause.class)
    BY <1>3 DEF Agreed, High, Concerted
  <2>2. QED  BY <2>1 DEF units, own, counted, UnitsFor

Told(words, a)    == {Tell(f, words[a]) : f \in report[a].findings}
Seen(c, words, a) == Observation(a, Kind[a], c, Told(words, a), report[a].outcomes)
Heard(c, words)   == {Seen(c, words, a) : a \in {b \in Agents : Target(b) = c}}
Found(c, words)   == CorrelateFindings(UNION {Told(words, a) : a \in {b \in Agents : Target(b) = c}})

\* What an agent says alone, with its finding and without, is of one class.
Speaks(c, words, a, class) ==
    {InferRootCauseClass({Seen(c, words, a)}, f) : f \in {{}, Told(words, a)}} = {class}

\* A cause is named for a component by all who found something there, whatever they say.
LEMMA CauseIsAgreed ==
    ASSUME NEW c, NEW words,
           \A a \in Agents : report[a].findings # {} =>
               \E f : report[a].findings = {f} /\ f.agent = a /\ f.component = Target(a),
           NEW cause \in SynthesizeRootCauses(Heard(c, words), Found(c, words))
    PROVE  /\ Cardinality(Speakers(c)) > 1
           /\ \A a \in Speakers(c) : Speaks(c, words, a, cause.class)
<1> DEFINE own(d)     == {o \in Heard(c, words) : o.component = d}
           counted(d) == Calibrating({f \in Found(c, words) : f.component = d})
           units(d)   == RootCauseEvidenceUnits(own(d), counted(d))
<1>1. PICK d : cause \in RootCausesOf(d, Heard(c, words), Found(c, words))
  BY DEF SynthesizeRootCauses
<1>2. Concerted(units(d), cause.class)
  <2>1. units(d) = UnitsFor(d, Heard(c, words), Found(c, words))
    BY DEF UnitsFor
  <2> HIDE DEF units
  <2>2. QED  BY <1>1, <2>1, CauseHasUnits
<1>3. \A a \in Agents : /\ Seen(c, words, a).agent = a /\ Seen(c, words, a).component = c
                        /\ Seen(c, words, a).findings = Told(words, a)
                        /\ Seen(c, words, a).status =
                             IF Told(words, a) = {} THEN "passed" ELSE StatusFromFindings(Told(words, a))
  BY DEF Observation, Seen
<1>4. \A a \in Agents : Told(words, a) # {} <=> report[a].findings # {}
  BY DEF Told
<1>5. \A T : StatusFromFindings(T) \in {"errored", "failed"}
  BY DEF StatusFromFindings
<1>6. \A a \in Agents : Seen(c, words, a).status \in {"failed", "errored"} <=> report[a].findings # {}
  BY <1>3, <1>4, <1>5
<1>7. {u.agent : u \in units(d)} \subseteq Speakers(c)
  <2> SUFFICES ASSUME NEW u \in units(d) PROVE u.agent \in Speakers(c)
    OBVIOUS
  <2>1. PICK o \in own(d) : o.status \in {"failed", "errored"} /\ u.agent = o.agent
    <3> HIDE DEF own, counted
    <3>1. QED  BY UnitsOf
  <2>2. PICK a \in Agents : Target(a) = c /\ o = Seen(c, words, a)
    BY DEF Heard
  <2>3. u.agent = a
    BY <1>3, <2>1, <2>2
  <2>4. QED  BY <1>6, <2>1, <2>2, <2>3 DEF Speakers
<1>8. Cardinality(Speakers(c)) > 1
  <2>1. Cardinality({u.agent : u \in units(d)}) >= 2
    <3> HIDE DEF units
    <3>1. QED  BY <1>2 DEF Concerted
  <2>2. Speakers(c) \in SUBSET Agents
    BY DEF Speakers
  <2> HIDE DEF units
  <2>3. QED  BY <1>7, <2>1, <2>2, AgentsFinite
<1>9. d = c
  <2>1. \E u : u \in units(d)
    <3> HIDE DEF units
    <3>1. QED  BY <1>2, ConcertedSome
  <2>2. PICK o \in own(d) : TRUE
    <3> HIDE DEF own, counted
    <3>1. QED  BY <2>1, UnitsOf
  <2>3. QED  BY <1>3, <2>2 DEF Heard
<1>10. ASSUME NEW a \in Speakers(c)
       PROVE  Speaks(c, words, a, cause.class)
  <2>1. a \in Agents /\ Target(a) = c /\ report[a].findings # {}
    BY DEF Speakers
  <2>2. PICK f : report[a].findings = {f} /\ f.agent = a /\ f.component = Target(a)
    BY <2>1
  <2> DEFINE t == Tell(f, words[a])
  <2>3. Told(words, a) = {t}
    BY <2>2 DEF Told
  <2>4. t.agent = a /\ t.component = c
    BY <2>1, <2>2 DEF Tell
  <2>5. t \in Found(c, words)
    BY <2>1, <2>3 DEF CorrelateFindings, Found
  <2>6. t \in counted(d)
    BY <1>9, <2>1, <2>4, <2>5, AgentsAssumption DEF Calibrating
  <2>7. /\ Seen(c, words, a) \in own(d) /\ t \in Seen(c, words, a).findings
        /\ Seen(c, words, a).status \in {"failed", "errored"}
    BY <1>3, <1>6, <1>9, <2>1, <2>3 DEF Heard
  <2>8. /\ Unit(Seen(c, words, a), {t}) \in units(d)
        /\ \/ Unit(Seen(c, words, a), {}).class = Unit(Seen(c, words, a), {t}).class
           \/ Unit(Seen(c, words, a), {}) \in units(d)
    <3> HIDE DEF own, counted, t
    <3>1. QED  BY <2>6, <2>7, UnitsOf
  <2>9. \A F : Unit(Seen(c, words, a), F).class = InferRootCauseClass({Seen(c, words, a)}, F)
    BY DEF Unit
  <2> HIDE DEF units, t
  <2>10. /\ InferRootCauseClass({Seen(c, words, a)}, {}) = cause.class
         /\ InferRootCauseClass({Seen(c, words, a)}, Told(words, a)) = cause.class
    BY <1>2, <2>3, <2>8, <2>9 DEF Concerted
  <2>11. QED  BY <2>10 DEF Speaks
<1>11. QED  BY <1>8, <1>10

LEMMA NothingCorrelates == CorrelateFindings({}) = {}
BY DEF CorrelateFindings

\* A run in which nothing was found says that all is passed.
LEMMA SilentPasses ==
    ASSUME NEW all, \A o \in all : o.status = "passed",
           NEW o \in CorrelateObservations(all, {})
    PROVE  o.status = "passed"
<1> DEFINE Of(c, xs) == {x \in xs : x.component = c}
           Synthesis(c) == [kind |-> "synthesis", component |-> c,
                            status |-> WorstStatus(Of(c, all), Of(c, {}))]
           suite == [kind |-> "correlation", component |-> "suite",
                     status |-> WorstStatus(all, {})]
<1>1. suite.status = "passed"
  BY WorstOfPassed
<1>2. ASSUME NEW c PROVE Synthesis(c).status = "passed"
  <2>1. Of(c, {}) = {} /\ \A x \in Of(c, all) : x.status = "passed"
    OBVIOUS
  <2>2. WorstStatus(Of(c, all), {}) = "passed"
    <3> HIDE DEF Of
    <3>1. QED  BY <2>1, WorstOfPassed
  <2>3. QED  BY <2>1, <2>2
<1>3. o = suite \/ \E c : o = Synthesis(c)
  BY DEF CorrelateObservations
<1>4. QED
  <2> HIDE DEF suite, Synthesis
  <2>1. QED  BY <1>1, <1>2, <1>3

\* Whatever the findings of a component say, a cause is named for it only where all who
\* found something there speak for it; and a run that passes has nothing to explain.
THEOREM RootCauseIsAgreedHolds == TestSpec => []RootCauseIsAgreed
<1>1. TestInv => RootCauseIsAgreed
  <2> SUFFICES ASSUME TestInv, verdict # None, NEW c \in {"web", "cli"},
                      NEW words \in [Speakers(c) -> Texts]
               PROVE  /\ \A cause \in SynthesizeRootCauses(Heard(c, words), Found(c, words)) :
                           /\ verdict # "verified" /\ Cardinality(Speakers(c)) > 1
                           /\ \A a \in Speakers(c) : Speaks(c, words, a, cause.class)
                      /\ verdict = "verified" =>
                           \A o \in CorrelateObservations(Heard(c, words), Found(c, words)) :
                              o.status = "passed"
    BY DEF RootCauseIsAgreed, Seen, Told, Heard, Found, Speaks
  <2>1. \A a \in Agents : report[a].findings # {} =>
            \E f : report[a].findings = {f} /\ f.agent = a /\ f.component = Target(a)
    BY ReturnedFinding DEF TestInv, VerdictInv, AgentInv
  <2>2. ASSUME NEW cause \in SynthesizeRootCauses(Heard(c, words), Found(c, words))
        PROVE  /\ Cardinality(Speakers(c)) > 1
               /\ \A a \in Speakers(c) : Speaks(c, words, a, cause.class)
    BY <2>1, <2>2, CauseIsAgreed
  <2>3. ASSUME verdict = "verified" PROVE \A a \in Agents : report[a].findings = {}
    BY <2>3, VerifiedSpotless, SpotlessFindsNothing
  <2>4. ASSUME NEW cause \in SynthesizeRootCauses(Heard(c, words), Found(c, words)), verdict = "verified"
        PROVE  FALSE
    <3>1. Speakers(c) = {}
      BY <2>3, <2>4 DEF Speakers
    <3>2. Cardinality(Speakers(c)) = 0
      BY <3>1, FS_EmptySet
    <3>3. Cardinality(Speakers(c)) > 1
      BY <2>2
    <3>4. QED  BY <3>2, <3>3
  <2>5. ASSUME verdict = "verified", NEW o \in CorrelateObservations(Heard(c, words), Found(c, words))
        PROVE  o.status = "passed"
    <3>1. \A a \in Agents : Told(words, a) = {}
      BY <2>3, <2>5 DEF Told
    <3>2. Found(c, words) = {}
      <4>1. UNION {Told(words, a) : a \in {b \in Agents : Target(b) = c}} = {}
        BY <3>1
      <4>2. QED  BY <4>1, NothingCorrelates DEF Found
    <3>3. \A s \in Heard(c, words) : s.status = "passed"
      BY <3>1 DEF Heard, Seen, Observation
    <3>4. QED  BY <2>5, <3>2, <3>3, SilentPasses
  <2>6. QED  BY <2>2, <2>4, <2>5
<1>2. QED  BY <1>1, TestInvHolds, PTL

================================================================================
