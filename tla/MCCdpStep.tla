------------------------------ MODULE MCCdpStep ------------------------------
(***************************************************************************)
(* The steps a plan, an apply and a flow ask the DevTools connection for.  *)
(***************************************************************************)
EXTENDS CdpStep

Step(c, m, e, k, g) == [cmd |-> c, name |-> m, effect |-> e, check |-> k, gate |-> g]

MCStepSet ==
  {Step(c, "url", "mutating", TRUE, "none") : c \in {"click", "select", "js"}}
  \cup {Step(c, "main", "mutating", TRUE, "undeclared") : c \in {"click", "fill", "key", "enter"}}
  \cup {Step("js", "path", "read_only", FALSE, "none"),
        Step("click", "main", "mutating", TRUE, "authorized")}
=============================================================================
