------------------------------- MODULE SubmitOnce ------------------------------
(***************************************************************************)
(* What a submit gate promises about one reviewed artifact, over all the    *)
(* runs that will ever be given it: one run, at most, is the one that       *)
(* submits, and it performs each of the artifact's submit acts at most once.*)
(***************************************************************************)

CONSTANTS
    Runs,       \* runs of the operation on this artifact
    Acts,       \* the submit acts it declares
    None        \* no run

VARIABLES
    owner,      \* the run that may submit, or None
    performed   \* the submit acts performed, each with its run

vars == <<owner, performed>>

TypeOK == owner \in Runs \cup {None} /\ performed \subseteq Runs \X Acts

Init == owner = None /\ performed = {}

Take(r) ==
    /\ owner = None
    /\ owner' = r
    /\ UNCHANGED performed

Perform(r, a) ==
    /\ owner = r
    /\ <<r, a>> \notin performed
    /\ performed' = performed \cup {<<r, a>>}
    /\ UNCHANGED owner

Next == \E r \in Runs : Take(r) \/ \E a \in Acts : Perform(r, a)

Spec == Init /\ [][Next]_vars

================================================================================
