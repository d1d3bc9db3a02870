------------------------------- MODULE SpawnStep -------------------------------
(***************************************************************************)
(* Bounded child processes (spawn-step.ts) on the one event loop of the     *)
(* parent. The loop runs the timers that are due and then looks at the      *)
(* operating system once: a child whose end that look sees is closed in the *)
(* same turn. Children exit and the clock advances whenever they like, and  *)
(* the parent may be busy for any time between two steps of its loop: a     *)
(* synchronous surf command of another agent is such a time.                *)
(*                                                                          *)
(* A child leads a process group and may leave processes behind. Its close, *)
(* which ends the step, waits for those that hold its output, in the group  *)
(* or out of it, and for no other.                                          *)
(***************************************************************************)
EXTENDS Naturals

CONSTANTS
    Commands,   \* the children, one per command that is run
    Leaves,     \* Leaves[s]: what s may leave behind when it exits (a bound)
    None

VARIABLES
    phase,      \* what the loop does next: its timers or its look at the system
    tree,       \* tree[s]: the command itself
    kin,        \* kin[s]: what of its descendants has survived it
    code,       \* code[s]: its exit code, or None
    left,       \* left[s]: what there was to read when it closed, or None
    clock,      \* clock[s]: where the wall clock is: in the budget, past it, past the grace
    timer,      \* timer[s]: the timer of s that is set; cleared when spawnStep resolves
    timedOut,   \* the commands whose group was sent the SIGTERM
    killed,     \* history: the commands whose group was sent the SIGKILL
    outlived    \* history: the commands that were open when their budget ran out

spawnVars == <<phase, tree, kin, code, left, clock, timer, timedOut, killed, outlived>>

\* A descendant that holds the command's output, in its group or out of it; and one in
\* the group whose output is its own.
Holders == {"holder", "stray"}
Kin     == Holders \cup {"quiet"}

ASSUME LeavesAssumption == \A s \in Commands : {} \in Leaves[s] /\ Leaves[s] \subseteq SUBSET Kin

\* An exit code of zero or another, or none because a signal ended it; and what there is
\* to read: nothing, output, or output that tells (an error field, a fuzzer's trace file).
Codes == {"zero", "nonzero", "null"}
Lefts == {"nothing", "output", "telling"}

ASSUME NoneAssumption == None \notin Codes \cup Lefts

SpawnInit ==
    /\ phase = "timers" /\ timedOut = {} /\ killed = {} /\ outlived = {}
    /\ tree = [s \in Commands |-> "none"]
    /\ kin = [s \in Commands |-> {}]
    /\ code = [s \in Commands |-> None]
    /\ left = [s \in Commands |-> None]
    /\ clock = [s \in Commands |-> "stopped"]
    /\ timer = [s \in Commands |-> "unset"]

\* spawnStep has resolved; it reports a spawn failure where there never was a tree.
Settled(s) == timer[s] = "cleared"
Spawned(s) == tree[s] # "none"

\* What the child's close waits for: its exit, and the end of all that hold its output.
Open(s)   == tree[s] = "alive" \/ kin[s] \cap Holders # {}
Closed(s) == tree[s] = "gone" /\ kin[s] \cap Holders = {}

\* spawn: the child runs, its budget is armed.
Spawn(s) ==
    /\ timer[s] = "unset"
    /\ tree' = [tree EXCEPT ![s] = "alive"]
    /\ clock' = [clock EXCEPT ![s] = "budget"]
    /\ timer' = [timer EXCEPT ![s] = "budget"]
    /\ UNCHANGED <<phase, kin, code, left, timedOut, killed, outlived>>

\* spawn throws, or the child's 'error' event says that it never started.
SpawnFails(s) ==
    /\ timer[s] = "unset"
    /\ timer' = [timer EXCEPT ![s] = "cleared"]
    /\ UNCHANGED <<phase, tree, kin, code, left, clock, timedOut, killed, outlived>>

\* The command exits. It may catch the SIGTERM and exit with any code; the SIGKILL, once
\* sent, leaves it no code and none behind but those that had left its group.
Exit(s) ==
    /\ tree[s] = "alive"
    /\ tree' = [tree EXCEPT ![s] = "gone"]
    /\ \E c \in Codes, rest \in Leaves[s] :
          /\ s \in killed => c = "null" /\ rest \subseteq {"stray"}
          /\ code' = [code EXCEPT ![s] = c]
          /\ kin' = [kin EXCEPT ![s] = rest]
    /\ UNCHANGED <<phase, left, clock, timer, timedOut, killed, outlived>>

\* Something it left behind ends, of a signal or not.
KinEnds(s) ==
    /\ \E k \in kin[s] : kin' = [kin EXCEPT ![s] = @ \ {k}]
    /\ UNCHANGED <<phase, tree, code, left, clock, timer, timedOut, killed, outlived>>

\* The wall clock passes the budget, and later the grace period.
Expire(s) ==
    /\ \/ clock[s] = "budget" /\ timer[s] = "budget"
       \/ clock[s] = "expired" /\ timer[s] = "grace"
    /\ clock' = [clock EXCEPT ![s] = IF @ = "budget" THEN "expired" ELSE "overdue"]
    /\ outlived' = IF clock[s] = "budget" /\ Open(s) THEN outlived \cup {s} ELSE outlived
    /\ UNCHANGED <<phase, tree, kin, code, left, timer, timedOut, killed>>

\* The timers of one turn: those whose time had come when the turn began. A timer of
\* 0 ms set in a turn is due in the next.
Due(s, set) ==
    /\ timer[s] = set
    /\ set = "budget" => clock[s] = "expired"
    /\ set = "grace"  => clock[s] = "overdue"

\* Seeded fault: the timer of the budget signals the group itself.
SignalAtOnce(s) ==
    CASE Due(s, "budget") -> "grace" [] Due(s, "grace") -> "spent" [] OTHER -> timer[s]

\* Seeded fault: no SIGKILL follows a SIGTERM that the child ignores.
TermOnly(s) ==
    CASE Due(s, "budget") -> "turn" [] Due(s, "turn") -> "grace" [] OTHER -> timer[s]

\* The budget's timer only sets another one. That one sends the SIGTERM and sets the
\* grace's, which sends the SIGKILL to what is there of the group.
NextTimer(s) ==
    CASE Due(s, "budget") -> "turn"  [] Due(s, "turn") -> "grace"
      [] Due(s, "grace")  -> "spent" [] OTHER -> timer[s]

RunTimers ==
    /\ phase = "timers"
    /\ phase' = "poll"
    /\ timer' = [s \in Commands |-> NextTimer(s)]
    /\ timedOut' = timedOut \cup {s \in Commands : timer'[s] = "grace"}
    /\ killed' = killed \cup {s \in Commands : timer'[s] = "spent"}
    /\ kin' = [s \in Commands |-> IF s \in killed' \ killed THEN kin[s] \cap {"stray"} ELSE kin[s]]
    /\ UNCHANGED <<tree, code, left, clock, outlived>>

\* The steps that end: their timers are cleared, the SIGKILL's too, and what they wrote
\* is read.
Resolve(ended) ==
    /\ timer' = [s \in Commands |-> IF s \in ended THEN "cleared" ELSE timer[s]]
    /\ clock' = [s \in Commands |-> IF s \in ended THEN "stopped" ELSE clock[s]]
    /\ \E wrote \in [ended -> Lefts] :
          left' = [s \in Commands |-> IF s \in ended THEN wrote[s] ELSE left[s]]
    /\ UNCHANGED <<tree, kin, code, timedOut, killed, outlived>>

\* Seeded fault: the step ends with the child's 'exit' event.
PollExit ==
    /\ phase = "poll"
    /\ phase' = "timers"
    /\ Resolve({s \in Commands : tree[s] = "gone" /\ ~Settled(s)})

\* One look at the system. A child that has nothing open any more closes, and spawnStep
\* resolves.
Poll ==
    /\ phase = "poll"
    /\ phase' = "timers"
    /\ Resolve({s \in Commands : Closed(s) /\ ~Settled(s)})

Loop == RunTimers \/ Poll

World == \E s \in Commands : Exit(s) \/ KinEnds(s) \/ Expire(s)

\* The loop turns, time passes, and the system carries out a SIGKILL.
SpawnFairness ==
    /\ WF_spawnVars(Loop)
    /\ \A s \in Commands :
          /\ WF_spawnVars(Expire(s))
          /\ WF_spawnVars(s \in killed /\ Exit(s))

--------------------------------------------------------------------------------

\* What the deferred turn is for: a command is reported as killed by its budget only
\* if it, or a process that held its output, was alive when the budget ran out, however
\* late the loop came to see either.
TimedOutOutlived == \A s \in timedOut : s \in outlived

================================================================================
