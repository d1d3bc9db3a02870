------------------------------- MODULE SurfPlan -------------------------------
(***************************************************************************)
(* What `surf plan` reads of a form and writes down for an operator to       *)
(* review (surf-plan.ts, surf-plan-probe.ts, surf-plan-script.ts), and what  *)
(* `surf apply` holds against it before anything is typed: the artifact's    *)
(* schema, the allowed origins, the approval token, and the same probe of    *)
(* the page once more as the drift check.  The form is in the top document.  *)
(* What apply does once these gates are open is the module ApplyGate.        *)
(***************************************************************************)
EXTENDS Naturals, Sequences, FiniteSets

CONSTANTS
    Nodes,          \* the elements of the page
    Elements,       \* what a node may be
    FirstPages,     \* the pages a plan is made of
    Places,         \* the URLs a page can be at: [doc, hash]
    OriginOf,       \* OriginOf[doc]
    AllowOrigins,   \* mutation.allowOrigins
    FormSelector,   \* FormSelector[form]: the selector of a form, or None
    Requests,       \* what an operator asks `surf plan` for
    MaxChanges,     \* bound: how often the page changes
    None            \* no value

\* The probe's view of an element: tag and type are its kind, an `id` stands for the
\* selectors that may be derived, a `name` for what a locator finds it by.
Kinds == {"text", "checkbox", "submit", "button", "role", "link"}

\* A page, as far as the probe reads it.
PageType == [place : Places, forms : {1, 2}, nodes : [Nodes -> Elements \cup {None}]]

ASSUME PlanDataAssumption ==
    /\ IsFiniteSet(Nodes)
    /\ FirstPages \subseteq PageType
    /\ \A form \in DOMAIN FormSelector : FormSelector[form] \in STRING \cup {None}
    /\ \A e \in Elements : /\ e.kind \in Kinds
                           /\ {e.id, e.name, e.text} \subseteq STRING
                           /\ e.visible \in BOOLEAN
                           /\ e.form \in DOMAIN FormSelector \cup {None}
                           /\ e.kind \in {"role", "link"} => e.form = None
    /\ \A q \in Requests :
          /\ q.fields \in Seq([by : {"name", "selector"}, find : STRING, value : STRING])
          /\ q.fields # <<>>
          /\ q.submitText = None \/ q.submitSelector = None
    /\ MaxChanges \in Nat

\* `None` is no string, no refusal, and nothing the probe says of an element or a control.
ASSUME PlanNoneAssumption ==
    /\ None \notin STRING
    /\ None \notin {"plan_field_not_found", "plan_field_ambiguous",
                    "value_via_button_refused", "config_invalid"}
    /\ None \notin [kind : Kinds, name : STRING, form : STRING \cup {None}]
    /\ None \notin [selector : STRING, kind : Kinds, text : STRING]
    /\ None \notin [selector : STRING, kind : Kinds, text : STRING, visible : BOOLEAN,
                    button : BOOLEAN, inOwningForm : BOOLEAN,
                    matchesSubmitSelector : BOOLEAN]

VARIABLES
    page,       \* the live document: where it is, how many forms, and its nodes
    changes,    \* how often it changed
    stage,      \* how far planning, and then applying, has come
    request,    \* what the operator asked for
    answer,     \* what the plan's probe answered
    plan,       \* the artifact on disk
    told,       \* what the apply run was told: submit, and the token it confirms
    seen,       \* history: the page the plan's probe read
    reviewed    \* history: the artifact the operator read

planVars == <<page, changes, stage, request, answer, plan, told, seen, reviewed>>

--------------------------------------------------------------------------------
(***************************************************************************)
(* The page-side probe: facts, no decisions.                                *)
(***************************************************************************)

Present(p)      == {n \in Nodes : p.nodes[n] # None}
Query(p, css)   == {n \in Present(p) : p.nodes[n].id = css}
IsField(e)      == e.kind \in {"text", "checkbox", "submit"}    \* input, textarea, select
IsControl(e)    == e.kind \in {"submit", "button", "role"}
ButtonLike(e)   == e.kind \notin {"text", "checkbox"}

\* A selector is one that finds this element and no other.
Selector(p, n) == IF Query(p, p.nodes[n].id) = {n} THEN p.nodes[n].id ELSE None

Matches(p, field) ==
    IF field.by = "selector" THEN Query(p, field.find)
    ELSE {n \in Present(p) : IsField(p.nodes[n]) /\ p.nodes[n].name = field.find}

FormOf(p, n) ==
    LET form == p.nodes[n].form IN IF form = None THEN None ELSE FormSelector[form]

\* What identifies the one element a field's locator finds.
Report(p, field) ==
    LET found == Matches(p, field)
    IN  IF Cardinality(found) # 1 THEN [matches |-> Cardinality(found)]
        ELSE LET n == CHOOSE m \in found : TRUE
             IN  [matches |-> 1, selector |-> Selector(p, n), button |-> ButtonLike(p.nodes[n]),
                  identity |-> [kind |-> p.nodes[n].kind, name |-> p.nodes[n].name,
                                form |-> FormOf(p, n)]]

\* The form of the first field that was found.
OwningForm(p, fields) ==
    LET found == {i \in DOMAIN fields : Cardinality(Matches(p, fields[i])) = 1}
        first == CHOOSE i \in found : \A j \in found : i <= j
        owner == CHOOSE n \in Matches(p, fields[first]) : TRUE
    IN  IF found = {} THEN None ELSE p.nodes[owner].form

\* Every control of the page, and whatever the submit selector finds.
ControlReports(p, fields, submitSelector) ==
    LET hinted == IF submitSelector = None THEN {} ELSE Query(p, submitSelector)
        owning == OwningForm(p, fields)
    IN  {[selector |-> Selector(p, n),
          kind     |-> p.nodes[n].kind,
          text     |-> p.nodes[n].text,
          visible  |-> p.nodes[n].visible,
          button   |-> ButtonLike(p.nodes[n]),
          inOwningForm          |-> owning # None /\ p.nodes[n].form = owning,
          matchesSubmitSelector |-> n \in hinted] :
             n \in {m \in Present(p) : IsControl(p.nodes[m])} \cup hinted}

Probe(p, q) ==
    [place    |-> p.place,
     forms    |-> p.forms,
     fields   |-> [i \in DOMAIN q.fields |-> Report(p, q.fields[i])],
     controls |-> ControlReports(p, q.fields, q.submitSelector)]

--------------------------------------------------------------------------------
(***************************************************************************)
(* The policy over the facts.                                               *)
(***************************************************************************)

\* Seeded fault: a control that is not shown is a candidate too.
CandidatesHiddenToo(controls, q) ==
    LET pool == IF q.submitSelector # None
                THEN {c \in controls : c.matchesSubmitSelector /\ c.button}
                ELSE {c \in controls : c.inOwningForm /\ c.kind = "submit"}
    IN  {c \in pool : c.selector # None /\ (q.submitText = None \/ c.text = q.submitText)}

\* The controls a plan may choose between: what a hint names, or the owning form's
\* submit buttons; shown, and addressable by a selector of their own.
Candidates(controls, q) ==
    LET pool == IF q.submitSelector # None
                THEN {c \in controls : c.matchesSubmitSelector /\ c.button}
                ELSE {c \in controls : c.inOwningForm /\ c.kind = "submit"}
    IN  {c \in pool : /\ c.visible /\ c.selector # None
                      /\ q.submitText = None \/ c.text = q.submitText}

\* Exactly one candidate is the control; every other button around the fields is forbidden.
DecideSubmit(controls, q) ==
    LET able    == Candidates(controls, q)
        control == IF Cardinality(able) = 1 THEN CHOOSE c \in able : TRUE ELSE None
    IN  [status    |-> IF control # None THEN "identified"
                       ELSE IF able = {} THEN "none" ELSE "ambiguous",
         control   |-> IF control = None THEN None
                       ELSE [selector |-> control.selector, kind |-> control.kind,
                             text |-> control.text],
         forbidden |-> {[selector |-> c.selector, text |-> c.text] :
                           c \in {d \in controls : /\ d.inOwningForm \/ d.matchesSubmitSelector
                                                   /\ d.selector # None
                                                   /\ control = None \/ d.selector # control.selector}}]

\* Why a field cannot be planned, or None. One that matched nothing is unreachable, not
\* absent, when the page's frames were not all excluded (FrameDiagnosis).
Refusal(field, report) ==
    IF report.matches = 0 THEN "plan_field_not_found"
    ELSE IF report.matches > 1 THEN "plan_field_ambiguous"
    ELSE IF report.button THEN "value_via_button_refused"
    ELSE IF report.selector = None THEN "plan_field_ambiguous"
    ELSE IF report.identity.kind = "checkbox" /\ field.value \notin {"true", "false"}
    THEN "config_invalid" ELSE None

\* Seeded fault: the text of a control is no part of the page's fingerprint.
FingerprintForNoText(place, forms, fields, decision) ==
    [place |-> place, forms |-> forms, fields |-> fields,
     control |-> IF decision.control = None THEN None
                 ELSE [selector |-> decision.control.selector, kind |-> decision.control.kind],
     forbidden |-> {[selector |-> c.selector] : c \in decision.forbidden}]

\* The page as the plan saw it. Digests of the same content are equal, others differ.
FingerprintFor(place, forms, fields, decision) ==
    [place |-> place, forms |-> forms, fields |-> fields,
     control |-> decision.control, forbidden |-> decision.forbidden]

\* What a fingerprint says beside where the page is.
Digests(fingerprint) == [fingerprint EXCEPT !.place = None]

\* The fragment is not a navigation.
Drifted(expected, actual) ==
    \/ expected.place.doc # actual.place.doc
    \/ Digests(expected) # Digests(actual)

\* What an approval binds to: neither the fingerprint nor the rest of the file.
ApprovalToken(artifact) ==
    [origin |-> artifact.origin,
     fields |-> [i \in DOMAIN artifact.fields |->
                    [selector |-> artifact.fields[i].selector, value |-> artifact.fields[i].value]],
     submit |-> IF artifact.control = None THEN None ELSE artifact.control.selector]

BuildPlan(q, got) ==
    LET decision == DecideSubmit(got.controls, q)
        fields   == [i \in DOMAIN q.fields |->
                        [selector |-> got.fields[i].selector, identity |-> got.fields[i].identity,
                         value |-> q.fields[i].value]]
        draft    == [origin      |-> OriginOf[q.url.doc],
                     landed      |-> got.place,
                     fields      |-> fields,
                     status      |-> decision.status,
                     control     |-> decision.control,
                     fingerprint |-> FingerprintFor(got.place, got.forms,
                                        [i \in DOMAIN fields |->
                                            [selector |-> fields[i].selector,
                                             identity |-> fields[i].identity]],
                                        decision)]
    IN  [content |-> draft, token |-> ApprovalToken(draft)]

\* Seeded fault: the one control is not named to the second probe.
DriftRequestNoControl(content) ==
    [fields |-> [i \in DOMAIN content.fields |->
                    [by |-> "selector", find |-> content.fields[i].selector]],
     submitText |-> None, submitSelector |-> None]

\* The same probe at apply time: each field by its own selector, and the one control.
DriftRequest(content) ==
    [fields |-> [i \in DOMAIN content.fields |->
                    [by |-> "selector", find |-> content.fields[i].selector]],
     submitText |-> None,
     submitSelector |-> IF content.control = None THEN None ELSE content.control.selector]

FingerprintFrom(content, got) ==
    FingerprintFor(got.place, got.forms,
        [i \in DOMAIN content.fields |->
            [selector |-> content.fields[i].selector,
             identity |-> IF got.fields[i].matches = 1 THEN got.fields[i].identity ELSE None]],
        DecideSubmit(got.controls, DriftRequest(content)))

--------------------------------------------------------------------------------
(***************************************************************************)
(* Planning.                                                                *)
(***************************************************************************)

PlanInit ==
    /\ page \in FirstPages
    /\ changes = 0
    /\ stage = "gated"
    /\ request \in Requests
    /\ answer = None
    /\ plan = None
    /\ told = None
    /\ seen = None
    /\ reviewed = None

\* The read-only probe of the gated page.
ReadForm ==
    /\ stage = "gated"
    /\ answer' = Probe(page, request)
    /\ seen' = page
    /\ stage' = "probed"
    /\ UNCHANGED <<page, changes, request, plan, told, reviewed>>

Refusals == {Refusal(request.fields[i], answer.fields[i]) : i \in DOMAIN request.fields} \ {None}

\* Refused before an artifact exists: a field was not found, or is none a plan may fill.
RefuseField ==
    /\ stage = "probed" /\ Refusals # {}
    /\ stage' = "refused"
    /\ UNCHANGED <<page, changes, request, answer, plan, told, seen, reviewed>>

WritePlan ==
    /\ stage = "probed" /\ Refusals = {}
    /\ plan' = BuildPlan(request, answer)
    /\ reviewed' = plan'
    /\ stage' = "planned"
    /\ UNCHANGED <<page, changes, request, answer, told, seen>>

\* The file is edited by hand before it is applied, with or without a token that fits:
\* another value, another field or one more, what a field is said to be; another control,
\* none, or a status it had not; another landing; and a fingerprint taken of the page as it
\* is now, or its digests alone.
Edits ==
    LET c     == plan.content
        named == {x \in answer.controls : x.selector # None}
        now   == FingerprintFrom(c, Probe(page, DriftRequest(c)))
    IN  {[c EXCEPT !.fields[1].value = "other"]}
        \cup {[c EXCEPT !.fields[1].selector = x.selector] : x \in named}
        \cup {[c EXCEPT !.fields[1].identity.kind = "checkbox"], [c EXCEPT !.fields = Append(@, @[1])]}
        \cup {[c EXCEPT !.status = status] : status \in {"identified", "none"}}
        \cup {[c EXCEPT !.control = None, !.status = "identified"]}
        \cup {[c EXCEPT !.control = [selector |-> x.selector, kind |-> x.kind, text |-> x.text],
                        !.status = "identified"] : x \in named}
        \cup {[c EXCEPT !.landed = place] : place \in Places}
        \cup {[c EXCEPT !.landed = place, !.fingerprint.place = place] : place \in Places}
        \cup {[c EXCEPT !.landed = now.place, !.fingerprint = now],
              [c EXCEPT !.fingerprint = [now EXCEPT !.place = c.landed]]}

EditPlan ==
    /\ stage = "planned" /\ plan = reviewed
    /\ \E content \in Edits, fits \in BOOLEAN :
          plan' = [content |-> content,
                   token   |-> IF fits THEN ApprovalToken(content) ELSE plan.token]
    /\ UNCHANGED <<page, changes, stage, request, answer, told, seen, reviewed>>

--------------------------------------------------------------------------------
(***************************************************************************)
(* The gates of `surf apply`.                                               *)
(***************************************************************************)

\* Seeded fault: the landing is not held against the fingerprint's URL.
WellFormedAnyLanding(artifact) == artifact.content.fields # <<>>

\* The schema of a plan read back.
WellFormed(artifact) ==
    /\ artifact.content.fields # <<>>
    /\ artifact.content.control # None => artifact.content.control.selector # None
    /\ artifact.content.landed = artifact.content.fingerprint.place

OriginsAllowed(content) == {content.origin, OriginOf[content.landed.doc]} \subseteq AllowOrigins

\* Seeded fault: the token is only held against the one in the file.
ApprovedByFile(artifact, options) ==
    IF options.submit THEN options.confirm = artifact.token ELSE options.confirm = None

\* --submit needs the token of the content as it is now, in the file and confirmed;
\* --confirm-plan alone opens nothing.
Approved(artifact, options) ==
    IF options.submit
    THEN /\ ApprovalToken(artifact.content) = artifact.token
         /\ options.confirm = artifact.token
    ELSE options.confirm = None

StartApply ==
    /\ stage = "planned"
    /\ \E submit \in BOOLEAN, confirm \in {None, reviewed.token, plan.token} :
          LET options == [submit |-> submit, confirm |-> confirm]
          IN  /\ told' = options
              /\ stage' = IF /\ WellFormed(plan)
                             /\ OriginsAllowed(plan.content)
                             /\ Approved(plan, options)
                             /\ submit => plan.content.status = "identified"
                          THEN "open" ELSE "refused"
    /\ UNCHANGED <<page, changes, request, answer, plan, seen, reviewed>>

\* The page still is what was reviewed, or nothing is typed.
CheckDrift ==
    /\ stage = "open"
    /\ LET actual == FingerprintFrom(plan.content, Probe(page, DriftRequest(plan.content)))
       IN  stage' = IF Drifted(plan.content.fingerprint, actual) THEN "stale" ELSE "clear"
    /\ UNCHANGED <<page, changes, request, answer, plan, told, seen, reviewed>>

\* The page is another: a node of it, or where it is, or how many forms it has.
PageChanges ==
    /\ stage \in {"gated", "probed", "planned", "open"} /\ changes < MaxChanges
    /\ changes' = changes + 1
    /\ \/ \E n \in Nodes, e \in Elements \cup {None} : page' = [page EXCEPT !.nodes[n] = e]
       \/ \E place \in Places : page' = [page EXCEPT !.place = place]
       \/ \E forms \in {1, 2} : page' = [page EXCEPT !.forms = forms]
    /\ page' # page
    /\ UNCHANGED <<stage, request, answer, plan, told, seen, reviewed>>

PlanNext ==
    \/ ReadForm
    \/ RefuseField
    \/ WritePlan
    \/ EditPlan
    \/ StartApply
    \/ CheckDrift
    \/ PageChanges

PlanSpec == PlanInit /\ [][PlanNext]_planVars

--------------------------------------------------------------------------------
(***************************************************************************)
(* Properties.                                                              *)
(***************************************************************************)

Identity(p, n) == [kind |-> p.nodes[n].kind, name |-> p.nodes[n].name, form |-> FormOf(p, n)]

\* The buttons a plan can name around its fields.
ButtonsAround(p, content) ==
    {[selector |-> Selector(p, n), text |-> p.nodes[n].text] :
        n \in {m \in Present(p) :
                 /\ IsControl(p.nodes[m]) /\ Selector(p, m) # None
                 /\ p.nodes[m].form # None
                 /\ p.nodes[m].form = OwningForm(p, DriftRequest(content).fields)}}

\* Each field is the one element its locator found, with its kind, name and form.
FieldsAsReviewed ==
    \A i \in DOMAIN request.fields :
        LET css == plan.content.fields[i].selector
        IN  /\ Matches(seen, request.fields[i]) = Query(seen, css)
            /\ Cardinality(Query(page, css)) = 1
            /\ \A m \in Query(page, css), n \in Query(seen, css) :
                  Identity(page, m) = Identity(seen, n) /\ ~ButtonLike(page.nodes[m])

\* The control is a shown button of the kind and the text it had.
ControlAsReviewed ==
    LET css == plan.content.control.selector
    IN  \E m \in Query(page, css), n \in Query(seen, css) :
            /\ Query(page, css) = {m} /\ ButtonLike(page.nodes[m]) /\ page.nodes[m].visible
            /\ page.nodes[m].kind = seen.nodes[n].kind
            /\ page.nodes[m].text = seen.nodes[n].text

\* No button came up around the fields that the operator had not seen.
ButtonsAsReviewed ==
    ButtonsAround(page, plan.content) \subseteq
        ButtonsAround(seen, plan.content)
            \cup {[selector |-> reviewed.content.control.selector,
                   text |-> reviewed.content.control.text]}

\* A submit that was approved with the token the operator read, and that passed the
\* drift check, types the reviewed values into the fields of the reviewed selectors and
\* presses the control of the reviewed selector or none, whatever was edited. That these
\* are the elements the operator read of holds of every edit but one: the token does not
\* bind the digests of the fingerprint, and digests retaken of another page pass for it.
SubmitIsReviewed ==
    (stage = "clear" /\ told.submit /\ told.confirm = reviewed.token) =>
        LET content == plan.content
        IN  /\ DOMAIN content.fields = DOMAIN request.fields
            /\ \A i \in DOMAIN request.fields :
                  /\ content.fields[i].selector = reviewed.content.fields[i].selector
                  /\ content.fields[i].value = request.fields[i].value
            /\ content.control = None <=> reviewed.content.control = None
            /\ content.control # None =>
                  content.control.selector = reviewed.content.control.selector
            /\ Digests(content.fingerprint) = Digests(reviewed.content.fingerprint) =>
                  /\ FieldsAsReviewed
                  /\ content.control # None => ControlAsReviewed /\ ButtonsAsReviewed

\* The drift check clears no page of an origin the operator did not name, whatever the
\* plan file says the page was. Of the moment of typing it says nothing: what a page does
\* between the check and an act is ApplyGate's.
ActsWhereAllowed == stage = "clear" => OriginOf[page.place.doc] \in AllowOrigins

\* A page that did not change is not stale to the plan as it was written, as far as that
\* can be had: the hint of a submit that was not identified is lost to the check, and so
\* are other elements its selector found.
UnchangedPasses ==
    (stage = "stale" /\ plan = reviewed /\ page = seen) =>
        \/ plan.content.control = None /\ (request.submitText # None \/ request.submitSelector # None)
        \/ request.submitSelector # None /\ Cardinality(Query(seen, request.submitSelector)) > 1

================================================================================
