---------------------------- MODULE MCSurfTransport ----------------------------
EXTENDS SurfTransport, TLC

CONSTANTS read, click

Asks(verb, declares, signals) ==
    [verb |-> verb, declares |-> declares, names |-> "none", signals |-> signals, attempts |-> 2]

\* A read that may be tried twice, beside a click as it should be and one called a read.
MCWants ==
    (read :> {Asks("page.read", "none", FALSE)})
        @@ (click :> {Asks("click", "none", FALSE), Asks("click", "read_only", FALSE)})
MCCommands == {<<Open, 1>>, <<CloseTab, 1>>} \cup ({read, click} \X {1, 2})

================================================================================
