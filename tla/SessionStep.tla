------------------------------ MODULE SessionStep ------------------------------
(***************************************************************************)
(* Which steps a SurfSession takes on (surf-session.ts, over the effect map *)
(* of surf-adapter.ts), and how often it may try them. A caller asks for a  *)
(* surf verb, may declare what it does, may name a tab and may ask for      *)
(* retries; the session decides what the step is before anything is sent.   *)
(* Pure functions of a request.                                             *)
(***************************************************************************)
EXTENDS Naturals

\* One verb of each kind that the rules tell apart.
ReadVerbs   == {"page.read", "network", "tab.list", "extract"}
TargetVerbs == {"click", "navigate"}
Verbs       == ReadVerbs \cup TargetVerbs \cup {"tab.new", "js", "unheard_of"}

\* Verbs whose argv carries --tab-id, verbs that address no tab, verbs that run a script.
TabScoped   == {"page.read", "extract", "click", "js"}
Untargeted  == {"tab.list"}
ScriptVerbs == {"extract", "js"}

\* read_only, mutating with scope target, with another scope or with none.
Declarations == {"none", "read_only", "target", "elsewhere", "scopeless"}

\* `signals`: the script carries a signal of the denylist.
StepRequest(attempts) ==
    [verb : Verbs, declares : Declarations, names : {"none", "own", "other"},
     signals : BOOLEAN, attempts : attempts]

SurfEffect(verb) ==
    CASE verb \in ReadVerbs   -> "read_only"
      [] verb \in TargetVerbs -> "target"
      [] verb = "tab.new"     -> "browser_session"
      [] OTHER                -> "unclassified"

\* resolveEffectDeclaration: there is no default class, and a mutating one has a scope.
Resolved(declared) == declared \notin {"none", "scopeless"}

Mutating(effect) == effect # "read_only"

\* Seeded fault: what the caller declares wins over the map.
DeclarationTrusted(q) ==
    IF Resolved(q.declares) THEN q.declares
    ELSE IF SurfEffect(q.verb) \in {"read_only", "target"} THEN SurfEffect(q.verb) ELSE "refused"

\* The map decides for a verb it knows, and a declaration that contradicts it is refused.
\* The session's own tab lifecycle is nobody else's.
DeclarationFor(q) ==
    CASE SurfEffect(q.verb) = "unclassified" ->
            IF Resolved(q.declares) /\ q.declares # "elsewhere" THEN q.declares ELSE "refused"
      [] SurfEffect(q.verb) = "browser_session" -> "refused"
      [] OTHER ->
            IF q.declares = "none" \/ Mutating(q.declares) = Mutating(SurfEffect(q.verb))
            THEN SurfEffect(q.verb) ELSE "refused"

\* In the tab this run owns, by an argv that can say so.
TargetAccepted(q) == q.verb \in Untargeted \/ (q.verb \in TabScoped /\ q.names # "other")

\* A read-only claim over a script is held against the denylist.
ScriptHonest(q) == (q.verb \in ScriptVerbs /\ DeclarationFor(q) = "read_only") => ~q.signals

AttemptCap == 3

\* A step that changes anything is tried once, whatever budget it asked for.
Attempts(q) == IF DeclarationFor(q) = "read_only" THEN q.attempts ELSE 1

StepAccepted(q) ==
    /\ DeclarationFor(q) # "refused"
    /\ TargetAccepted(q)
    /\ ScriptHonest(q)
    /\ Attempts(q) <= AttemptCap

================================================================================
