------------------------------- MODULE MCTestRun -------------------------------
EXTENDS TestRun, TLC

CONSTANTS cli, web, surf

MCAgents   == {cli, web, surf}
MCCommands == {cli, web}
MCLeaves   == (cli :> {{}, {"holder", "quiet"}}) @@ (web :> {{}, {"stray"}})
MCKind     == (cli :> "cli") @@ (web :> "web") @@ (surf :> "surf")

\* An output declared empty and JSON with both targets; where the web target is missing,
\* no declaration and all of them.
MCConfigs ==
    [targets : {{"web", "cli"}}, expect : {[NoDeclaration EXCEPT !.empty = TRUE, !.json = TRUE]}]
        \cup [targets : {{"cli"}},
              expect : {NoDeclaration,
                        [empty |-> TRUE, marker |-> TRUE, json |-> TRUE, envelope |-> TRUE]}]

Says(description, evidence, frames) ==
    [description |-> description, evidence |-> evidence, frames |-> frames]

MCTexts ==
    {Says({}, {"timeout"}, {}), Says({"network"}, {"timeout"}, {}), Says({"selector"}, {}, {}),
     Says({}, {"timeout"}, {"undetermined"})}

FailureClasses ==
    {"frame_boundary", "browser_coverage_gap", "contract_mismatch", "command_resolution",
     "configuration_error", "resource_exhaustion", "network_connectivity", "timeout_or_latency",
     "auth_or_permission", "property_violation", "selector_or_dom_drift",
     "component_failure_surface"}

\* Whatever the causes of the components: along the default edges, a cause that another
\* one may explain explains none itself, unless both are time-outs.
ASSUME HintsDoNotChain ==
    \A class \in [{"cli", "api", "web"} -> FailureClasses] :
        LET causes == {[component |-> c, class |-> class[c]] : c \in DOMAIN class}
            hints  == SynthesizePropagationChains(causes, PropagationEdges({}, TRUE))
        IN  \A a, b \in hints : a[2] = b[1] =>
                \A c \in {a[1], b[1]} : class[c] = "timeout_or_latency"

================================================================================
