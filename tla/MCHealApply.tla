------------------------------ MODULE MCHealApply ------------------------------
EXTENDS HealApply, TLC

Symm == Permutations(Files)

MCForm == [f \in Files |-> "prefixed"]

Told(basis, typed, marker, names) ==
    [basis |-> basis, typed |-> typed, marker |-> marker, names |-> names]

\* No findings; one that blames nothing; and one that puts a file's selector in question
\* before another clears all of them.
MCFindings ==
    {NotGiven, <<Told("no_evidence", NotGiven, NotGiven, Files)>>}
        \cup {<<Told("fault", p[1], p[2], {f}), Told("fault", "excluded", NotGiven, Files)>> :
                 p \in {<<"confirmed", NotGiven>>, <<"suspected", NotGiven>>}, f \in Files}

================================================================================
