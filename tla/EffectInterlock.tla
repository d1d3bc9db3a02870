---------------------------- MODULE EffectInterlock ----------------------------
(***************************************************************************)
(* What the mutation ledger promises of every act it lets through, with no  *)
(* process, no memory and no file in sight. A run starts with at most one   *)
(* waiver, for an attempt on record. An attempt is asked for, then recorded *)
(* in doubt, then carried out at most once; the record leaves doubt only    *)
(* for what really happened. Attempts on a key that were on record when one *)
(* is asked for bar it if they are of its own run, or in doubt and not the  *)
(* waived one. Only attempts that overlap may miss each other.              *)
(***************************************************************************)

CONSTANTS
    Attempts,   \* identities of attempts, one receipt each
    Runs,       \* who asks
    Keys,       \* idempotency keys
    None        \* not asked for, or no waiver

VARIABLES
    started,    \* the runs that started
    waiver,     \* waiver[r]: the attempt the operator of run r named, or None
    asked,      \* asked[c]: the run and the key of attempt c, or None
    before,     \* before[c]: the attempts on its key on record when c was asked for
    status,     \* status[c]: "absent", "doubt", "applied" or "failed"
    world       \* world[c]: "untouched", "took" or "spared" by the act of c

vars == <<started, waiver, asked, before, status, world>>

Recorded == {c \in Attempts : status[c] # "absent"}

TypeOK ==
    /\ started \subseteq Runs
    /\ waiver \in [Runs -> Attempts \cup {None}]
    /\ asked \in [Attempts -> [run : Runs, key : Keys] \cup {None}]
    /\ before \in [Attempts -> SUBSET Attempts]
    /\ status \in [Attempts -> {"absent", "doubt", "applied", "failed"}]
    /\ world \in [Attempts -> {"untouched", "took", "spared"}]

Init ==
    /\ started = {}
    /\ waiver = [r \in Runs |-> None]
    /\ asked = [c \in Attempts |-> None]
    /\ before = [c \in Attempts |-> {}]
    /\ status = [c \in Attempts |-> "absent"]
    /\ world = [c \in Attempts |-> "untouched"]

\* A run starts; its operator names an attempt on record, or none, once.
Start(r) ==
    /\ r \notin started
    /\ started' = started \cup {r}
    /\ \E w \in Recorded \cup {None} : waiver' = [waiver EXCEPT ![r] = w]
    /\ UNCHANGED <<asked, before, status, world>>

\* Run r asks for attempt c on key k.
Ask(c, r, k) ==
    /\ asked[c] = None
    /\ r \in started
    /\ asked' = [asked EXCEPT ![c] = [run |-> r, key |-> k]]
    /\ before' = [before EXCEPT ![c] = {d \in Recorded : asked[d].key = k}]
    /\ UNCHANGED <<started, waiver, status, world>>

\* Attempt d does not stand in the way of c.
LetsPass(d, c) ==
    /\ asked[d].run # asked[c].run
    /\ status[d] = "doubt" => d = waiver[asked[c].run]

\* Attempt c is recorded, in doubt.
Open(c) ==
    /\ asked[c] # None
    /\ status[c] = "absent"
    /\ \A d \in before[c] : LetsPass(d, c)
    /\ status' = [status EXCEPT ![c] = "doubt"]
    /\ UNCHANGED <<started, waiver, asked, before, world>>

\* The act of c runs, once, and takes effect or does not.
Act(c) ==
    /\ status[c] = "doubt"
    /\ world[c] = "untouched"
    /\ \E fate \in {"took", "spared"} : world' = [world EXCEPT ![c] = fate]
    /\ UNCHANGED <<started, waiver, asked, before, status>>

\* The record of c leaves doubt, for the truth.
Settle(c) ==
    /\ status[c] = "doubt"
    /\ \/ /\ world[c] = "took"
          /\ status' = [status EXCEPT ![c] = "applied"]
       \/ /\ world[c] = "spared"
          /\ status' = [status EXCEPT ![c] = "failed"]
    /\ UNCHANGED <<started, waiver, asked, before, world>>

Next ==
    \/ \E r \in Runs : Start(r)
    \/ \E c \in Attempts :
          \/ \E r \in Runs, k \in Keys : Ask(c, r, k)
          \/ Open(c)
          \/ Act(c)
          \/ Settle(c)

Spec == Init /\ [][Next]_vars

================================================================================
