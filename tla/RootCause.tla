------------------------------- MODULE RootCause -------------------------------
(***************************************************************************)
(* What a test run concludes beyond its verdict (orchestrator.ts): each     *)
(* agent's result seen as an observation, the synthesis per component and   *)
(* for the suite, and the cause named for a component where independent     *)
(* sensors agree on one. A text is the set of things it says that the       *)
(* classifier looks for. Pure functions of recorded facts.                  *)
(***************************************************************************)
EXTENDS TestVerdict

\* What a description or an evidence line may say, as the patterns tell it apart.
Sayings == {"contract", "not_found", "configuration", "resource", "network", "timeout", "spawn",
            "auth", "property", "browser", "selector"}

FrameValues == {"confirmed", "undetermined", "unavailable", "suspected", "excluded"}

\* A finding's text: what it describes, what its evidence says, and the frame
\* determinations among that evidence (at most one).
Text == [description : SUBSET Sayings, evidence : SUBSET Sayings, frames : SUBSET FrameValues]

Statuses == <<"passed", "skipped", "failed", "errored">>
Worse(a, b) == \E i, j \in DOMAIN Statuses : i > j /\ Statuses[i] = a /\ Statuses[j] = b
Worst(statuses) == CHOOSE s \in statuses : \A t \in statuses : ~Worse(t, s)

StatusFromFindings(findings) ==
    IF \E f \in findings : f.severity = "critical" THEN "errored" ELSE "failed"

WorstStatus(observations, findings) ==
    Worst({"passed"} \cup {o.status : o \in observations}
            \cup (IF findings = {} THEN {} ELSE {StatusFromFindings(findings)}))

(***************************************************************************)
(* An observation is made of what one agent returned: its findings'         *)
(* evidence and not their descriptions, the classes of its outcomes, and    *)
(* the words the framework itself uses of that kind of sensor.              *)
(***************************************************************************)
Sensor(kind) ==
    CASE kind = "surf"     -> [kind |-> "coverage", says |-> {"browser"}]
      [] kind = "web"      -> [kind |-> "property", says |-> {"property"}]
      [] kind = "terminal" -> [kind |-> "runtime", says |-> {"property"}]
      [] kind = "cli"      -> [kind |-> "smoke", says |-> {}]

OutcomeSays(outcomes) ==
    {m \in {"timeout", "spawn"} :
        \E o \in outcomes : o = WorstOutcome(outcomes)
                              /\ o.class = IF m = "spawn" THEN "spawn_failed" ELSE m}

Observation(agent, kind, component, findings, outcomes) ==
    [agent |-> agent, kind |-> Sensor(kind).kind, component |-> component,
     status |-> IF findings = {} THEN "passed" ELSE StatusFromFindings(findings),
     says |-> Sensor(kind).says \cup OutcomeSays(outcomes) \cup UNION {f.text.evidence : f \in findings},
     frames |-> UNION {f.text.frames : f \in findings}, findings |-> findings]

\* The synthesis of each component with something to say, and the suite's correlation.
CorrelateObservations(observations, findings) ==
    LET Of(c, xs) == {x \in xs : x.component = c}
        Synthesis(c) == [kind |-> "synthesis", component |-> c,
                         status |-> WorstStatus(Of(c, observations), Of(c, findings))]
    IN  IF Cardinality(observations) <= 1 /\ findings = {} THEN {}
        ELSE {Synthesis(c) : c \in {d \in {o.component : o \in observations} :
                                      Cardinality(Of(d, observations)) > 1 \/ Of(d, findings) # {}}}
               \cup {[kind |-> "correlation", component |-> "suite",
                      status |-> WorstStatus(observations, findings)]}

(***************************************************************************)
(* The failure class that some observations and findings speak for: the     *)
(* first of an ordered list. A frame determination precedes every word; one *)
(* short of exclusion is a limit of the sensor.                             *)
(***************************************************************************)
SaysOf(observations, findings) ==
    UNION {o.says : o \in observations}
      \cup UNION {f.text.description \cup f.text.evidence : f \in findings}

FramesOf(observations, findings) ==
    UNION {o.frames : o \in observations} \cup UNION {f.text.frames : f \in findings}

Classification(observations, findings) ==
    LET says     == SaysOf(observations, findings)
        frames   == FramesOf(observations, findings)
        at(c)    == \E x \in observations \cup findings : x.component = c
        typed    == \E f \in findings : f.type = "api_contract"
        api      == at("api") \/ typed
        remote   == api \/ at("web")
        property == \/ "property" \in says
                    \/ \E o \in observations : o.kind = "property" /\ o.component # "api"
    IN  <<<<"confirmed" \in frames,                             "frame_boundary">>,
          <<frames \ {"excluded"} # {},                         "browser_coverage_gap">>,
          <<typed \/ (api /\ "contract" \in says),              "contract_mismatch">>,
          <<at("cli") /\ "not_found" \in says,                  "command_resolution">>,
          <<"configuration" \in says,                           "configuration_error">>,
          <<"resource" \in says,                                "resource_exhaustion">>,
          <<remote /\ "network" \in says,                       "network_connectivity">>,
          <<"timeout" \in says,                                 "timeout_or_latency">>,
          <<at("cli") /\ {"spawn", "not_found"} \cap says # {}, "command_resolution">>,
          <<remote /\ "auth" \in says,                          "auth_or_permission">>,
          <<property,                                           "property_violation">>,
          <<"browser" \in says /\ "selector" \notin says,       "browser_coverage_gap">>,
          <<"selector" \in says,                                "selector_or_dom_drift">>,
          <<TRUE,                                               "component_failure_surface">>>>

InferRootCauseClass(observations, findings) ==
    LET list == Classification(observations, findings)
    IN  list[Min({i \in DOMAIN list : list[i][1]})][2]

(***************************************************************************)
(* Evidence units: a finding beside the observation that reports it, that   *)
(* observation again where its own words speak for another class, and an    *)
(* observation that reports no finding that counts.                         *)
(***************************************************************************)
SignalObservations(observations) == {o \in observations : o.status \in {"failed", "errored"}}

Unit(o, findings) ==
    [agent |-> o.agent, findings |-> findings, class |-> InferRootCauseClass({o}, findings)]

RootCauseEvidenceUnits(observations, findings) ==
    LET signals   == SignalObservations(observations)
        links     == {l \in signals \X findings : l[2] \in l[1].findings}
        conflicts == {l \in links : Unit(l[1], {}).class # Unit(l[1], {l[2]}).class}
    IN  {Unit(l[1], {l[2]}) : l \in links}
          \cup {Unit(l[1], {}) : l \in conflicts}
          \cup {Unit(o, {}) : o \in {s \in signals : s.findings \cap findings = {}}}

\* Two units at least, from two sensors at least.
High(units) == Cardinality(units) >= 2 /\ Cardinality({u.agent : u \in units}) >= 2

\* The findings a cause is inferred from: the agents' own where there are any.
Calibrating(findings) ==
    LET primary == {f \in findings : f.agent # "orchestrator"}
    IN  IF primary # {} THEN primary ELSE findings

\* Seeded fault: classes that disagree are outvoted by the first two that agree.
AgreedByTwo(units) ==
    {c \in {u.class : u \in units} : High({u \in units : u.class = c})}

\* The one class every unit is of.
Agreed(units) ==
    {c \in {u.class : u \in units} : High(units) /\ \A u \in units : u.class = c}

\* At most one cause per component; none where a finding that no unit counts speaks for
\* another class.
RootCausesOf(component, observations, findings) ==
    LET counted == Calibrating({f \in findings : f.component = component})
        own     == {o \in observations : o.component = component}
        units   == RootCauseEvidenceUnits(own, counted)
        chosen  == UNION {u.findings : u \in units}
    IN  {[component |-> component, class |-> c, agents |-> {u.agent : u \in units},
          status |-> WorstStatus(own, chosen)] :
            c \in {d \in Agreed(units) :
                      \A f \in counted \ chosen : InferRootCauseClass({}, {f}) = d}}

SynthesizeRootCauses(observations, findings) ==
    UNION {RootCausesOf(c, observations, findings) :
              c \in {x.component : x \in observations \cup findings}}

(***************************************************************************)
(* A failure of one component may explain another's along an edge of the    *)
(* topology, where both have a cause. It is never more than a hint.         *)
(***************************************************************************)
DefaultEdges == {<<"api", "web">>, <<"cli", "api">>, <<"cli", "web">>}

PropagationEdges(configured, includeDefaults) ==
    configured \cup (IF includeDefaults THEN DefaultEdges ELSE {})

Links(edge, up, down) ==
    \/ up = "timeout_or_latency" /\ down = up
    \/ /\ down = "component_failure_surface"
       /\ \/ edge = <<"api", "web">> /\ up \in {"timeout_or_latency", "contract_mismatch"}
          \/ edge \in {<<"cli", "api">>, <<"cli", "web">>} /\ up = "command_resolution"

SynthesizePropagationChains(causes, edges) ==
    {e \in edges : \E u, d \in causes : /\ u.component = e[1] /\ d.component = e[2]
                                        /\ Links(e, u.class, d.class)}

================================================================================
