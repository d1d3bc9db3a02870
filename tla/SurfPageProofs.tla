---------------------------- MODULE SurfPageProofs ----------------------------
(***************************************************************************)
(* Proofs about the two operations that read a page before anything is done  *)
(* to it. Of `surf plan` and the gates of `surf apply`: whatever the page is, *)
(* whatever it becomes and whatever is written into the plan file, a submit   *)
(* approved with the token the operator read is of the values and selectors   *)
(* that were reviewed, on the elements that were, unless the digests of the   *)
(* page were rewritten; and a page that did not change is not refused. Of     *)
(* `surf explore` with its frame diagnosis: what a run and a diagnosis        *)
(* conclude follows from what they read.                                      *)
(***************************************************************************)
EXTENDS SurfPlan, Explore, FiniteSetTheorems, TLAPS

-----------------------------------------------------------------------------
(* `surf plan`: what a run's stage tells of its plan.                       *)

Stages == {"gated", "probed", "refused", "planned", "open", "stale", "clear"}

\* What the page says at the drift check.
Actual == FingerprintFrom(plan.content, Probe(page, DriftRequest(plan.content)))

\* What the operator read is what was built. Of the file nothing is known once it may
\* have been edited.
Kept == reviewed = BuildPlan(request, answer)

\* The gates a run that may act has passed.
Gated ==
    /\ WellFormed(plan)
    /\ OriginsAllowed(plan.content)
    /\ Approved(plan, told)
    /\ told.submit => plan.content.status = "identified"

\* The inductive invariant: how far a run has come tells what its plan was made of and
\* which gates the file has passed.
PlanInv ==
    /\ page \in PageType /\ request \in Requests /\ stage \in Stages
    /\ stage # "gated" => seen \in PageType /\ answer = Probe(seen, request)
    /\ stage \in {"planned", "open", "stale", "clear"} => Refusals = {} /\ Kept
    /\ stage \in {"open", "stale", "clear"} => Gated
    /\ stage = "clear" => ~Drifted(plan.content.fingerprint, Actual)
    /\ stage = "stale" => Drifted(plan.content.fingerprint, Actual)

--------------------------------------------------------------------------------
(***************************************************************************)
(* The inductive invariant.                                                 *)
(***************************************************************************)

\* What a plan and its fingerprint are made of.
PlannedFields(q, got) ==
    [i \in DOMAIN q.fields |->
        [selector |-> got.fields[i].selector, identity |-> got.fields[i].identity,
         value |-> q.fields[i].value]]

Fingerprint(q, got) ==
    [place |-> got.place, forms |-> got.forms,
     fields |-> [i \in DOMAIN q.fields |->
                    [selector |-> got.fields[i].selector, identity |-> got.fields[i].identity]],
     control |-> DecideSubmit(got.controls, q).control,
     forbidden |-> DecideSubmit(got.controls, q).forbidden]

LEMMA Built ==
    ASSUME NEW q, NEW got
    PROVE  /\ BuildPlan(q, got).content =
                [origin |-> OriginOf[q.url.doc], landed |-> got.place,
                 fields |-> PlannedFields(q, got),
                 status |-> DecideSubmit(got.controls, q).status,
                 control |-> DecideSubmit(got.controls, q).control,
                 fingerprint |-> Fingerprint(q, got)]
           /\ BuildPlan(q, got).content.fingerprint = Fingerprint(q, got)
           /\ BuildPlan(q, got).content.fields = PlannedFields(q, got)
           /\ BuildPlan(q, got).content.status = DecideSubmit(got.controls, q).status
           /\ BuildPlan(q, got).content.control = DecideSubmit(got.controls, q).control
           /\ BuildPlan(q, got).token = ApprovalToken(BuildPlan(q, got).content)
<1>1. [i \in DOMAIN PlannedFields(q, got) |->
          [selector |-> PlannedFields(q, got)[i].selector,
           identity |-> PlannedFields(q, got)[i].identity]]
        = [i \in DOMAIN q.fields |->
              [selector |-> got.fields[i].selector, identity |-> got.fields[i].identity]]
  BY DEF PlannedFields
<1>2. FingerprintFor(got.place, got.forms,
          [i \in DOMAIN PlannedFields(q, got) |->
              [selector |-> PlannedFields(q, got)[i].selector,
               identity |-> PlannedFields(q, got)[i].identity]],
          DecideSubmit(got.controls, q)) = Fingerprint(q, got)
  BY <1>1 DEF FingerprintFor, Fingerprint
<1> QED  BY <1>2 DEF BuildPlan, PlannedFields

LEMMA PlanStarts == PlanInit => PlanInv
BY PlanDataAssumption DEF PlanInit, PlanInv, Stages

LEMMA PlanSteps ==
    ASSUME PlanInv, PlanNext
    PROVE  PlanInv'
<1>1. ASSUME ReadForm  PROVE PlanInv'
  BY <1>1 DEF PlanInv, ReadForm, Stages
<1>2. ASSUME RefuseField  PROVE PlanInv'
  BY <1>2 DEF PlanInv, RefuseField, Stages
<1>3. ASSUME WritePlan  PROVE PlanInv'
  <2>1. Kept'
    BY <1>3 DEF WritePlan, Kept
  <2>2. (Refusals = {})'
    BY <1>3 DEF WritePlan, Refusals
  <2> QED  BY <1>3, <2>1, <2>2 DEF WritePlan, PlanInv, Stages
<1>4. ASSUME EditPlan  PROVE PlanInv'
  <2>1. (Refusals = {})' /\ Kept'
    BY <1>4 DEF EditPlan, PlanInv, Refusals, Kept
  <2> QED  BY <1>4, <2>1 DEF EditPlan, PlanInv, Stages
<1>5. ASSUME StartApply  PROVE PlanInv'
  <2>1. (Refusals = {})' /\ Kept'
    BY <1>5 DEF StartApply, PlanInv, Refusals, Kept
  <2>2. stage' \in {"open", "refused"} /\ (stage' = "open" => Gated')
    BY <1>5 DEF StartApply, Gated
  <2> QED  BY <1>5, <2>1, <2>2 DEF StartApply, PlanInv, Stages
<1>6. ASSUME CheckDrift  PROVE PlanInv'
  <2>1. (Refusals = {})' /\ Kept' /\ Gated'
    BY <1>6 DEF CheckDrift, PlanInv, Refusals, Kept, Gated
  <2>2. /\ stage' = "clear" => ~Drifted(plan.content.fingerprint, Actual)'
        /\ stage' = "stale" => Drifted(plan.content.fingerprint, Actual)'
        /\ stage' \in {"clear", "stale"}
    BY <1>6 DEF CheckDrift, Actual
  <2> QED  BY <1>6, <2>1, <2>2 DEF CheckDrift, PlanInv, Stages
<1>7. ASSUME PageChanges  PROVE PlanInv'
  <2>1. page' \in PageType
    BY <1>7 DEF PageChanges, PlanInv, PageType
  <2>2. (Refusals = {} => (Refusals = {})') /\ (Kept => Kept') /\ (Gated => Gated')
    BY <1>7 DEF PageChanges, Refusals, Kept, Gated
  <2> QED  BY <1>7, <2>1, <2>2 DEF PageChanges, PlanInv, Stages
<1> QED  BY <1>1, <1>2, <1>3, <1>4, <1>5, <1>6, <1>7 DEF PlanNext

\* What was read and reviewed stays what it was, and what the gates let pass is what is
\* in the file, whatever was written into it.
THEOREM PlanInvHolds == PlanSpec => []PlanInv
<1>1. ASSUME PlanInv, UNCHANGED planVars  PROVE PlanInv'
  BY <1>1 DEF PlanInv, planVars, Refusals, Kept, Gated, Actual
<1> QED  BY PlanStarts, PlanSteps, <1>1, PTL DEF PlanSpec

\* No field is typed into on a page of an origin the operator did not name: the file cannot
\* say that the page was another, since its landing is held against the fingerprint and
\* the fingerprint against the page.
THEOREM ActsWhereAllowedHolds == PlanSpec => []ActsWhereAllowed
<1>1. PlanInv => ActsWhereAllowed
  <2> SUFFICES ASSUME PlanInv, stage = "clear"
               PROVE  OriginOf[page.place.doc] \in AllowOrigins
    BY DEF ActsWhereAllowed
  <2>1. ~Drifted(plan.content.fingerprint, Actual) /\ Gated
    BY DEF PlanInv
  <2>2. Actual.place = page.place
    BY DEF Actual, FingerprintFrom, FingerprintFor, Probe
  <2>3. plan.content.landed.doc = page.place.doc
    BY <2>1, <2>2 DEF Drifted, Gated, WellFormed
  <2> QED  BY <2>1, <2>3 DEF Gated, OriginsAllowed
<1> QED  BY PlanInvHolds, <1>1, PTL

--------------------------------------------------------------------------------
(***************************************************************************)
(* What the probe says of a page.                                           *)
(***************************************************************************)

LEMMA Found ==
    ASSUME NEW p \in PageType
    PROVE  /\ Present(p) \subseteq Nodes
           /\ \A n \in Present(p) : p.nodes[n] \in Elements
           /\ \A css : Query(p, css) \subseteq Present(p)
           /\ \A field : Matches(p, field) \subseteq Present(p)
           /\ \A S \in SUBSET Nodes :
                 IsFiniteSet(S) /\ (Cardinality(S) = 1 <=> \E n : S = {n})
<1>1. /\ Present(p) \subseteq Nodes
      /\ \A n \in Present(p) : p.nodes[n] \in Elements
      /\ \A css : Query(p, css) \subseteq Present(p)
  BY DEF Present, PageType, Query
<1>2. \A field : Matches(p, field) \subseteq Present(p)
  BY <1>1 DEF Matches
<1>3. \A S \in SUBSET Nodes : IsFiniteSet(S)
  BY FS_Subset, PlanDataAssumption
<1> QED  BY <1>1, <1>2, <1>3, FS_Singleton

\* A selector is a string that finds its element and no other.
LEMMA SelectorIs ==
    ASSUME NEW p \in PageType, NEW n \in Present(p), NEW css
    PROVE  css # None /\ Selector(p, n) = css <=> css \in STRING /\ Query(p, css) = {n}
<1>1. p.nodes[n].id \in STRING
  BY Found, PlanDataAssumption
<1>2. n \in Query(p, css) => p.nodes[n].id = css
  BY DEF Query
<1> QED  BY <1>1, <1>2, PlanNoneAssumption DEF Selector

\* A field that is found is reported with the one element it is.
LEMMA ReportOne ==
    ASSUME NEW p \in PageType, NEW field
    PROVE  /\ Report(p, field).matches \in Nat
           /\ Report(p, field).matches = 1 => \E n : Matches(p, field) = {n}
           /\ \A n : Matches(p, field) = {n} =>
                 Report(p, field) = [matches |-> 1, selector |-> Selector(p, n),
                                     button |-> ButtonLike(p.nodes[n]),
                                     identity |-> Identity(p, n)]
<1>1. /\ Matches(p, field) \in SUBSET Nodes
      /\ Cardinality(Matches(p, field)) = 1 <=> \E n : Matches(p, field) = {n}
      /\ IsFiniteSet(Matches(p, field))
  BY Found
<1>2. Cardinality(Matches(p, field)) \in Nat
  BY <1>1, FS_CardinalityType
<1>3. CASE Cardinality(Matches(p, field)) # 1
  <2>1. Report(p, field) = [matches |-> Cardinality(Matches(p, field))]
    BY <1>3 DEF Report
  <2> QED  BY <1>1, <1>2, <1>3, <2>1
<1>4. CASE Cardinality(Matches(p, field)) = 1
  <2>1. PICK n : Matches(p, field) = {n}
    BY <1>1, <1>4
  <2>2. (CHOOSE m \in Matches(p, field) : TRUE) = n
    BY <2>1
  <2>3. Report(p, field) = [matches |-> 1, selector |-> Selector(p, n),
                            button |-> ButtonLike(p.nodes[n]), identity |-> Identity(p, n)]
    BY <1>4, <2>2 DEF Report, Identity
  <2> QED  BY <2>1, <2>3
<1> QED  BY <1>3, <1>4

\* What identifies an element is never no value.
LEMMA IdentityIs ==
    ASSUME NEW p \in PageType, NEW n \in Present(p)
    PROVE  Identity(p, n) # None
<1>1. p.nodes[n] \in Elements
  BY Found
<1>2. FormOf(p, n) \in STRING \cup {None}
  BY <1>1, PlanDataAssumption DEF FormOf
<1>3. Identity(p, n) \in [kind : Kinds, name : STRING, form : STRING \cup {None}]
  BY <1>1, <1>2, PlanDataAssumption DEF Identity
<1> QED  BY <1>3, PlanNoneAssumption

\* Each field of a plan that was written is one element, one that may be filled, with a
\* selector of its own.
LEMMA Planned ==
    ASSUME PlanInv, stage \in {"planned", "open", "stale", "clear"},
           NEW i \in DOMAIN request.fields
    PROVE  \E n \in Present(seen) :
              /\ Matches(seen, request.fields[i]) = {n}
              /\ ~ButtonLike(seen.nodes[n])
              /\ Selector(seen, n) # None
              /\ answer.fields[i].selector = Selector(seen, n)
              /\ answer.fields[i].identity = Identity(seen, n)
<1>1. seen \in PageType /\ answer = Probe(seen, request) /\ Refusals = {}
  BY DEF PlanInv
<1>2. answer.fields[i] = Report(seen, request.fields[i])
  BY <1>1 DEF Probe
<1>3. Refusal(request.fields[i], answer.fields[i]) = None
  BY <1>1 DEF Refusals
<1>4. /\ answer.fields[i].matches # 0 /\ ~(answer.fields[i].matches > 1)
      /\ ~answer.fields[i].button /\ answer.fields[i].selector # None
  <2>1. /\ "plan_field_not_found" # None /\ "plan_field_ambiguous" # None
        /\ "value_via_button_refused" # None
    BY PlanNoneAssumption
  <2>2. answer.fields[i].matches # 0
    BY <1>3, <2>1 DEF Refusal
  <2>3. ~(answer.fields[i].matches > 1)
    BY <1>3, <2>1, <2>2 DEF Refusal
  <2>4. ~answer.fields[i].button
    BY <1>3, <2>1, <2>2, <2>3 DEF Refusal
  <2>5. answer.fields[i].selector # None
    BY <1>3, <2>1, <2>2, <2>3, <2>4 DEF Refusal
  <2> QED  BY <2>2, <2>3, <2>4, <2>5
<1>5. PICK n : Matches(seen, request.fields[i]) = {n}
  <2>1. answer.fields[i].matches \in Nat
    BY <1>1, <1>2, ReportOne
  <2>2. Report(seen, request.fields[i]).matches = 1
    BY <1>2, <1>4, <2>1
  <2> QED  BY <1>1, <2>2, ReportOne
<1>6. n \in Present(seen)
  BY <1>1, <1>5, Found
<1>7. Report(seen, request.fields[i]) =
        [matches |-> 1, selector |-> Selector(seen, n), button |-> ButtonLike(seen.nodes[n]),
         identity |-> Identity(seen, n)]
  BY <1>1, <1>5, ReportOne
<1> QED  BY <1>2, <1>4, <1>5, <1>6, <1>7

\* Among finitely many numbers one is the least.
LEMMA Least ==
    ASSUME NEW n \in Nat, NEW T \in SUBSET (1..n), T # {}
    PROVE  \E i \in T : \A j \in T : i <= j
<1> DEFINE Below(i) == {j \in T : j < i}
           U == {Below(i) : i \in T}
<1>1. IsFiniteSet(T)
  <2>1. IsFiniteSet(1..n)
    BY FS_Interval
  <2>2. QED  BY <2>1, FS_Subset
<1>2. U \subseteq FiniteSubsetsOf(T) /\ U # {}
  <2>1. FiniteSubsetsOf(T) = SUBSET T
    BY <1>1, FS_FiniteSubsetsOfFinite
  <2>2. \A i \in T : Below(i) \in SUBSET T
    OBVIOUS
  <2>3. U \subseteq SUBSET T
    BY <2>2
  <2>4. PICK i \in T : TRUE
    OBVIOUS
  <2>5. Below(i) \in U
    OBVIOUS
  <2>6. QED  BY <2>1, <2>3, <2>5
<1>3. IsWellFoundedOn(StrictSubsetOrdering(T), FiniteSubsetsOf(T))
  BY FS_StrictSubsetOrderingWellFounded
<1>4. PICK x \in U : \A y \in U : ~ (<<y, x>> \in StrictSubsetOrdering(T))
  <2> HIDE DEF U
  <2>1. QED  BY <1>2, <1>3, WFMin
<1>5. PICK i \in T : x = Below(i)
  OBVIOUS
<1>6. ASSUME NEW j \in T, j < i  PROVE FALSE
  <2>1. Below(j) \in U
    OBVIOUS
  <2>2. ASSUME NEW k \in Below(j)  PROVE k \in Below(i)
    <3>1. k \in T /\ k < j
      OBVIOUS
    <3>2. k \in Int /\ j \in Int /\ i \in Int
      BY <3>1
    <3>3. k < i
      BY <1>6, <3>1, <3>2
    <3>4. QED  BY <3>1, <3>3
  <2>3. j \in Below(i) /\ ~(j \in Below(j))
    BY <1>6
  <2>4. Below(j) \in SUBSET T /\ Below(i) \in SUBSET T
    OBVIOUS
  <2>5. Below(j) \subseteq Below(i) /\ Below(j) # Below(i)
    BY <2>2, <2>3
  <2>6. <<Below(j), Below(i)>> \in StrictSubsetOrdering(T)
    <3> HIDE DEF Below
    <3>1. QED  BY <2>4, <2>5 DEF StrictSubsetOrdering
  <2>7. QED  BY <1>4, <1>5, <2>1, <2>6
<1>7. \A j \in T : i <= j
  <2>1. \A j \in T : ~(j < i)
    BY <1>6
  <2>2. \A j \in T : j \in Int /\ i \in Int
    OBVIOUS
  <2>3. QED  BY <2>1, <2>2
<1>8. QED  BY <1>7

\* Fields that find the same elements have the same owning form.
LEMMA SameOwner ==
    ASSUME NEW p, NEW f, NEW g, NEW k \in Nat, DOMAIN f = 1 .. k, DOMAIN g = 1 .. k,
           \A i \in 1 .. k : Matches(p, f[i]) = Matches(p, g[i])
    PROVE  OwningForm(p, f) = OwningForm(p, g)
<1> DEFINE found == {i \in 1 .. k : Cardinality(Matches(p, f[i])) = 1}
           first == CHOOSE i \in found : \A j \in found : i <= j
           others == {i \in 1 .. k : Cardinality(Matches(p, g[i])) = 1}
<1>1. others = found
  OBVIOUS
<1>2. OwningForm(p, f) = IF found = {} THEN None
                         ELSE p.nodes[CHOOSE n \in Matches(p, f[first]) : TRUE].form
  BY DEF OwningForm
<1>3. OwningForm(p, g) = IF found = {} THEN None
                         ELSE p.nodes[CHOOSE n \in Matches(p, g[first]) : TRUE].form
  <2>1. OwningForm(p, g) =
          IF others = {} THEN None
          ELSE p.nodes[CHOOSE n \in Matches(p, g[CHOOSE i \in others :
                                                      \A j \in others : i <= j]) : TRUE].form
    BY DEF OwningForm
  <2> HIDE DEF found, others
  <2> QED  BY <1>1, <2>1
<1>4. CASE found # {}
  <2>1. found \in SUBSET (1 .. k)
    OBVIOUS
  <2>2. \E i \in found : \A j \in found : i <= j
    <3> HIDE DEF found
    <3> QED  BY <1>4, <2>1, Least
  <2>3. first \in 1 .. k
    <3> HIDE DEF found
    <3>1. first \in found
      BY <2>2
    <3> QED  BY <2>1, <3>1
  <2>4. Matches(p, f[first]) = Matches(p, g[first])
    BY <2>3
  <2> HIDE DEF found, first
  <2> QED  BY <1>2, <1>3, <2>4
<1>5. CASE found = {}
  BY <1>2, <1>3, <1>5
<1> QED  BY <1>4, <1>5

--------------------------------------------------------------------------------
(***************************************************************************)
(* The controls around the fields.                                          *)
(***************************************************************************)

Hinted(p, css) == IF css = None THEN {} ELSE Query(p, css)

ControlNodes(p, css) == {m \in Present(p) : IsControl(p.nodes[m])} \cup Hinted(p, css)

ControlReport(p, n, owning, hinted) ==
    [selector |-> Selector(p, n),
     kind     |-> p.nodes[n].kind,
     text     |-> p.nodes[n].text,
     visible  |-> p.nodes[n].visible,
     button   |-> ButtonLike(p.nodes[n]),
     inOwningForm          |-> owning # None /\ p.nodes[n].form = owning,
     matchesSubmitSelector |-> n \in hinted]

LEMMA ControlsAre ==
    ASSUME NEW p, NEW fields, NEW css
    PROVE  ControlReports(p, fields, css) =
             {ControlReport(p, n, OwningForm(p, fields), Hinted(p, css)) :
                 n \in ControlNodes(p, css)}
BY DEF ControlReports, ControlReport, ControlNodes, Hinted

\* The reports are finitely many, and one that has a selector is something.
LEMMA ControlsFinite ==
    ASSUME NEW p \in PageType, NEW fields, NEW css
    PROVE  /\ ControlNodes(p, css) \subseteq Present(p)
           /\ IsFiniteSet(ControlReports(p, fields, css))
           /\ \A c \in ControlReports(p, fields, css) : c.selector # None =>
                 c # None /\ [selector |-> c.selector, kind |-> c.kind, text |-> c.text] # None
<1> DEFINE N == ControlNodes(p, css)
           R == ControlReports(p, fields, css)
           report(n) == ControlReport(p, n, OwningForm(p, fields), Hinted(p, css))
           f == [n \in N |-> report(n)]
<1>1. N \subseteq Present(p) /\ N \in SUBSET Nodes
  BY Found DEF ControlNodes, Hinted
<1>2. R = {report(n) : n \in N}
  BY ControlsAre
<1>3. IsFiniteSet(N)
  BY <1>1, Found
<1>4. f \in Surjection(N, R)
  <2> HIDE DEF report, N, R
  <2> QED  BY <1>2 DEF Surjection
<1>5. IsFiniteSet(R)
  <2> HIDE DEF f, N, R
  <2> QED  BY <1>3, <1>4, FS_Surjection
<1>6. ASSUME NEW n \in N, report(n).selector # None
      PROVE  /\ report(n) # None
             /\ [selector |-> report(n).selector, kind |-> report(n).kind,
                 text |-> report(n).text] # None
  <2>1. Selector(p, n) \in STRING /\ Selector(p, n) # None
    BY <1>1, <1>6, SelectorIs DEF ControlReport
  <2>2. /\ p.nodes[n].kind \in Kinds /\ p.nodes[n].text \in STRING
        /\ p.nodes[n].visible \in BOOLEAN
    BY <1>1, Found, PlanDataAssumption
  <2>3. /\ (ButtonLike(p.nodes[n])) \in BOOLEAN
        /\ (n \in Hinted(p, css)) \in BOOLEAN
        /\ (OwningForm(p, fields) # None /\ p.nodes[n].form = OwningForm(p, fields)) \in BOOLEAN
    BY DEF ButtonLike
  <2>4. report(n) \in [selector : STRING, kind : Kinds, text : STRING, visible : BOOLEAN,
                       button : BOOLEAN, inOwningForm : BOOLEAN,
                       matchesSubmitSelector : BOOLEAN]
    BY <2>1, <2>2, <2>3 DEF ControlReport
  <2>5. [selector |-> report(n).selector, kind |-> report(n).kind, text |-> report(n).text]
          \in [selector : STRING, kind : Kinds, text : STRING]
    BY <2>1, <2>2 DEF ControlReport
  <2> QED  BY <2>4, <2>5, PlanNoneAssumption
<1>7. \A c \in R : c.selector # None =>
         c # None /\ [selector |-> c.selector, kind |-> c.kind, text |-> c.text] # None
  <2> HIDE DEF report, N, R
  <2> QED  BY <1>2, <1>6
<1> QED  BY <1>1, <1>5, <1>7

\* The buttons around the fields that are not the control at `css`.
Forbidden(controls, css) ==
    {[selector |-> d.selector, text |-> d.text] :
        d \in {e \in controls : /\ e.inOwningForm \/ e.matchesSubmitSelector
                                /\ e.selector # None /\ e.selector # css}}

\* A control that was chosen is the one candidate.
LEMMA DecidedBy ==
    ASSUME NEW p \in PageType, NEW fields, NEW css, NEW q, NEW controls,
           controls = ControlReports(p, fields, css),
           DecideSubmit(controls, q).control # None
              \/ DecideSubmit(controls, q).status = "identified"
    PROVE  \E c \in controls : Candidates(controls, q) = {c}
<1> DEFINE able == Candidates(controls, q)
<1>1. IsFiniteSet(able)
  <2>1. IsFiniteSet(controls)
    BY ControlsFinite
  <2>2. able \in SUBSET controls
    BY DEF Candidates
  <2> HIDE DEF able
  <2> QED  BY <2>1, <2>2, FS_Subset
<1>2. Cardinality(able) = 1
  <2> HIDE DEF able
  <2> QED  BY DEF DecideSubmit, able
<1> HIDE DEF able
<1>3. PICK c : able = {c}
  BY <1>1, <1>2, FS_Singleton
<1> QED  BY <1>3 DEF able, Candidates

\* The one candidate is chosen.
LEMMA DecidedIs ==
    ASSUME NEW p \in PageType, NEW fields, NEW css, NEW q, NEW controls,
           controls = ControlReports(p, fields, css),
           NEW c, Candidates(controls, q) = {c}
    PROVE  LET D == DecideSubmit(controls, q)
           IN  /\ D.status = "identified"
               /\ D.control = [selector |-> c.selector, kind |-> c.kind, text |-> c.text]
               /\ D.control # None
               /\ c \in controls /\ c.selector # None
<1> DEFINE able == Candidates(controls, q)
           D == DecideSubmit(controls, q)
           control == IF Cardinality(able) = 1 THEN CHOOSE e \in able : TRUE ELSE None
<1>1. able = {c} /\ Cardinality(able) = 1
  BY FS_Singleton
<1>2. c \in controls /\ c.selector # None
  BY <1>1 DEF Candidates
<1>3. control = c
  <2> HIDE DEF able
  <2> QED  BY <1>1
<1>4. c # None /\ [selector |-> c.selector, kind |-> c.kind, text |-> c.text] # None
  BY <1>2, ControlsFinite
<1>5. /\ D.status = IF control # None THEN "identified"
                    ELSE IF able = {} THEN "none" ELSE "ambiguous"
      /\ D.control = IF control = None THEN None
                     ELSE [selector |-> control.selector, kind |-> control.kind,
                           text |-> control.text]
  <2> HIDE DEF able
  <2> QED  BY DEF DecideSubmit, able, D
<1> HIDE DEF able, D, control
<1>6. D.status = "identified"
  BY <1>3, <1>4, <1>5
<1>7. D.control = [selector |-> c.selector, kind |-> c.kind, text |-> c.text]
  BY <1>3, <1>4, <1>5
<1>8. D.control # None
  BY <1>4, <1>7
<1> QED  BY <1>2, <1>6, <1>7, <1>8 DEF D

\* And every other button around the fields is forbidden.
LEMMA DecidedForbids ==
    ASSUME NEW p \in PageType, NEW fields, NEW css, NEW q, NEW controls,
           controls = ControlReports(p, fields, css),
           NEW c, Candidates(controls, q) = {c}
    PROVE  DecideSubmit(controls, q).forbidden = Forbidden(controls, c.selector)
<1> DEFINE able == Candidates(controls, q)
           control == IF Cardinality(able) = 1 THEN CHOOSE e \in able : TRUE ELSE None
<1>1. DecideSubmit(controls, q).forbidden =
        {[selector |-> d.selector, text |-> d.text] :
            d \in {e \in controls : /\ e.inOwningForm \/ e.matchesSubmitSelector
                                    /\ e.selector # None
                                    /\ control = None \/ e.selector # control.selector}}
  <2> HIDE DEF able
  <2> QED  BY DEF DecideSubmit, able
<1>2. able = {c} /\ Cardinality(able) = 1
  BY FS_Singleton
<1>3. control = c
  <2> HIDE DEF able
  <2> QED  BY <1>2
<1>4. c # None
  BY <1>2, ControlsFinite DEF Candidates
<1> HIDE DEF able, control
<1> QED  BY <1>1, <1>3, <1>4 DEF Forbidden

--------------------------------------------------------------------------------
(***************************************************************************)
(* What was reviewed, and what is acted on.                                 *)
(***************************************************************************)

Written == stage \in {"planned", "open", "stale", "clear"}

\* The drift check looks for each field by the selector the plan has for it, and finds on
\* the page that was read what the operator's own locator found there.
LEMMA DriftFinds ==
    ASSUME PlanInv, Written, NEW content, DOMAIN content.fields = DOMAIN request.fields,
           \A i \in DOMAIN request.fields :
              content.fields[i].selector = answer.fields[i].selector
    PROVE  LET fields == DriftRequest(content).fields
           IN  /\ DOMAIN fields = DOMAIN request.fields
               /\ \A i \in DOMAIN fields, p \in PageType :
                     Matches(p, fields[i]) = Query(p, content.fields[i].selector)
               /\ \A i \in DOMAIN fields :
                     Matches(seen, fields[i]) = Matches(seen, request.fields[i])
               /\ OwningForm(seen, fields) = OwningForm(seen, request.fields)
<1> DEFINE fields == DriftRequest(content).fields
<1>1. fields = [i \in DOMAIN request.fields |->
                   [by |-> "selector", find |-> content.fields[i].selector]]
  BY DEF DriftRequest
<1>2. ASSUME NEW i \in DOMAIN request.fields, NEW p
      PROVE  Matches(p, fields[i]) = Query(p, content.fields[i].selector)
  <2>1. fields[i] = [by |-> "selector", find |-> content.fields[i].selector]
    BY <1>1
  <2> QED  BY <2>1 DEF Matches
<1>3. ASSUME NEW i \in DOMAIN request.fields
      PROVE  Matches(seen, fields[i]) = Matches(seen, request.fields[i])
  <2>1. PICK n \in Present(seen) :
           /\ Matches(seen, request.fields[i]) = {n}
           /\ Selector(seen, n) # None
           /\ answer.fields[i].selector = Selector(seen, n)
    BY Planned DEF Written
  <2>2. seen \in PageType
    BY DEF PlanInv, Written
  <2>3. Query(seen, content.fields[i].selector) = {n}
    BY <2>1, <2>2, SelectorIs
  <2> QED  BY <1>2, <2>1, <2>3
<1>4. PICK k \in Nat : DOMAIN request.fields = 1 .. k
  <2>1. request.fields \in Seq([by : {"name", "selector"}, find : STRING, value : STRING])
    BY PlanDataAssumption DEF PlanInv
  <2> QED  BY <2>1
<1>5. DOMAIN fields = 1 .. k
  BY <1>1, <1>4
<1>6. OwningForm(seen, fields) = OwningForm(seen, request.fields)
  <2> HIDE DEF fields
  <2> QED  BY <1>3, <1>4, <1>5, SameOwner
<1> QED  BY <1>2, <1>3, <1>4, <1>5, <1>6

\* What was reviewed is what the plan's probe answered.
LEMMA ReviewedIs ==
    ASSUME PlanInv, Written
    PROVE  LET D == DecideSubmit(answer.controls, request)
           IN  /\ answer.controls =
                     ControlReports(seen, request.fields, request.submitSelector)
               /\ reviewed.content.fields = PlannedFields(request, answer)
               /\ reviewed.content.control = D.control
               /\ reviewed.content.status = D.status
               /\ reviewed.content.fingerprint = Fingerprint(request, answer)
               /\ reviewed.token = ApprovalToken(reviewed.content)
<1>1. reviewed = BuildPlan(request, answer) /\ answer = Probe(seen, request)
  BY DEF PlanInv, Written, Kept
<1>2. answer.controls = ControlReports(seen, request.fields, request.submitSelector)
  BY <1>1 DEF Probe
<1>3. /\ BuildPlan(request, answer).content.fields = PlannedFields(request, answer)
      /\ BuildPlan(request, answer).content.control =
            DecideSubmit(answer.controls, request).control
      /\ BuildPlan(request, answer).content.status =
            DecideSubmit(answer.controls, request).status
      /\ BuildPlan(request, answer).content.fingerprint = Fingerprint(request, answer)
      /\ BuildPlan(request, answer).token = ApprovalToken(BuildPlan(request, answer).content)
  BY Built
<1> QED  BY <1>1, <1>2, <1>3

\* A token fits one content only, as far as it goes.
LEMMA TokenBinds ==
    ASSUME PlanInv, stage = "clear", told.submit, told.confirm = reviewed.token
    PROVE  LET D == DecideSubmit(answer.controls, request)
           IN  /\ DOMAIN plan.content.fields = DOMAIN request.fields
               /\ \A i \in DOMAIN request.fields :
                     /\ plan.content.fields[i].selector = answer.fields[i].selector
                     /\ plan.content.fields[i].selector = reviewed.content.fields[i].selector
                     /\ plan.content.fields[i].value = request.fields[i].value
               /\ reviewed.content.control = D.control
               /\ plan.content.control = None <=> D.control = None
               /\ D.control # None => plan.content.control.selector = D.control.selector
<1> DEFINE D == DecideSubmit(answer.controls, request)
<1>1. Kept /\ Gated /\ seen \in PageType /\ answer = Probe(seen, request)
  BY DEF PlanInv
<1>2. ApprovalToken(plan.content) = ApprovalToken(reviewed.content)
  <2>1. reviewed.token = ApprovalToken(reviewed.content)
    BY ReviewedIs DEF Written
  <2> QED  BY <1>1, <2>1 DEF Gated, Approved
<1>3. /\ reviewed.content.fields = PlannedFields(request, answer)
      /\ reviewed.content.control = D.control
      /\ reviewed.content.status = D.status
  BY ReviewedIs DEF Written
<1>4. D.control # None => D.control.selector # None
  <2>1. answer.controls = ControlReports(seen, request.fields, request.submitSelector)
    BY ReviewedIs DEF Written
  <2>2. ASSUME D.control # None  PROVE D.control.selector # None
    <3>1. PICK c \in answer.controls : Candidates(answer.controls, request) = {c}
      BY <1>1, <2>1, <2>2, DecidedBy
    <3>2. /\ D.control = [selector |-> c.selector, kind |-> c.kind, text |-> c.text]
          /\ c.selector # None
      BY <1>1, <2>1, <3>1, DecidedIs
    <3> QED  BY <3>2
  <2> QED  BY <2>2
<1>5. plan.content.control # None => plan.content.control.selector # None
  BY <1>1 DEF Gated, WellFormed
<1>6. (IF plan.content.control = None THEN None ELSE plan.content.control.selector)
        = (IF D.control = None THEN None ELSE D.control.selector)
  BY <1>2, <1>3 DEF ApprovalToken
<1>7. [i \in DOMAIN plan.content.fields |->
          [selector |-> plan.content.fields[i].selector, value |-> plan.content.fields[i].value]]
        = [i \in DOMAIN request.fields |->
             [selector |-> answer.fields[i].selector, value |-> request.fields[i].value]]
  <2>1. DOMAIN reviewed.content.fields = DOMAIN request.fields
    BY <1>3 DEF PlannedFields
  <2>2. \A i \in DOMAIN request.fields :
           /\ reviewed.content.fields[i].selector = answer.fields[i].selector
           /\ reviewed.content.fields[i].value = request.fields[i].value
    BY <1>3 DEF PlannedFields
  <2>3. [i \in DOMAIN plan.content.fields |->
            [selector |-> plan.content.fields[i].selector,
             value |-> plan.content.fields[i].value]]
          = [i \in DOMAIN reviewed.content.fields |->
                [selector |-> reviewed.content.fields[i].selector,
                 value |-> reviewed.content.fields[i].value]]
    BY <1>2 DEF ApprovalToken
  <2> QED  BY <2>1, <2>2, <2>3
<1>8. DOMAIN plan.content.fields = DOMAIN request.fields
  BY <1>7
<1>9. ASSUME NEW i \in DOMAIN request.fields
      PROVE  /\ plan.content.fields[i].selector = answer.fields[i].selector
             /\ plan.content.fields[i].selector = reviewed.content.fields[i].selector
             /\ plan.content.fields[i].value = request.fields[i].value
  <2>1. [selector |-> plan.content.fields[i].selector, value |-> plan.content.fields[i].value]
          = [selector |-> answer.fields[i].selector, value |-> request.fields[i].value]
    BY <1>7, <1>8
  <2>2. reviewed.content.fields[i].selector = answer.fields[i].selector
    BY <1>3 DEF PlannedFields
  <2> QED  BY <2>1, <2>2
<1> HIDE DEF D
<1>10. /\ plan.content.control = None <=> D.control = None
       /\ D.control # None => plan.content.control.selector = D.control.selector
  BY <1>4, <1>5, <1>6
<1> QED  BY <1>3, <1>8, <1>9, <1>10 DEF D

\* The digests in the file are those the operator read.
Intact == Digests(plan.content.fingerprint) = Digests(reviewed.content.fingerprint)

\* What the drift check found is what the plan's own probe had found.
LEMMA NoDrift ==
    ASSUME PlanInv, stage = "clear", Intact
    PROVE  LET asked == DriftRequest(plan.content)
               got   == Probe(page, asked)
               D     == DecideSubmit(answer.controls, request)
               A     == DecideSubmit(got.controls, asked)
           IN  /\ A.control = D.control
               /\ A.forbidden = D.forbidden
               /\ DOMAIN plan.content.fields = DOMAIN request.fields
               /\ \A i \in DOMAIN request.fields :
                     /\ got.fields[i].matches = 1
                     /\ got.fields[i].identity = answer.fields[i].identity
<1> DEFINE asked == DriftRequest(plan.content)
           got   == Probe(page, asked)
           A     == DecideSubmit(got.controls, asked)
           F     == Fingerprint(request, answer)
           found == [i \in DOMAIN plan.content.fields |->
                        [selector |-> plan.content.fields[i].selector,
                         identity |-> IF got.fields[i].matches = 1
                                      THEN got.fields[i].identity ELSE None]]
<1>1. Kept /\ seen \in PageType /\ answer = Probe(seen, request)
      /\ ~Drifted(plan.content.fingerprint, Actual)
  BY DEF PlanInv
<1>2. Digests(plan.content.fingerprint) = [F EXCEPT !.place = None]
  BY ReviewedIs DEF Written, Intact, Digests
<1>3. Actual = [place |-> got.place, forms |-> got.forms, fields |-> found,
                control |-> A.control, forbidden |-> A.forbidden]
  BY DEF Actual, FingerprintFrom, FingerprintFor
<1>4. Digests(plan.content.fingerprint) = [Actual EXCEPT !.place = None]
  BY <1>1 DEF Drifted, Digests
<1>5. F.fields = found /\ F.control = A.control /\ F.forbidden = A.forbidden
  <2>2. [F EXCEPT !.place = None] = [Actual EXCEPT !.place = None]
    BY <1>2, <1>4
  <2>3. /\ [F EXCEPT !.place = None].fields = F.fields
        /\ [F EXCEPT !.place = None].control = F.control
        /\ [F EXCEPT !.place = None].forbidden = F.forbidden
    BY DEF Fingerprint
  <2>4. /\ [Actual EXCEPT !.place = None].fields = found
        /\ [Actual EXCEPT !.place = None].control = A.control
        /\ [Actual EXCEPT !.place = None].forbidden = A.forbidden
    <3> HIDE DEF found, A
    <3> QED  BY <1>3
  <2> HIDE DEF F, found, A
  <2> QED  BY <2>2, <2>3, <2>4
<1>6. F.fields = [i \in DOMAIN request.fields |->
                     [selector |-> answer.fields[i].selector,
                      identity |-> answer.fields[i].identity]]
  BY DEF Fingerprint
<1>7. DOMAIN plan.content.fields = DOMAIN request.fields
  BY <1>5, <1>6
<1>8. ASSUME NEW i \in DOMAIN request.fields
      PROVE  got.fields[i].matches = 1 /\ got.fields[i].identity = answer.fields[i].identity
  <2> HIDE DEF got
  <2>1. (IF got.fields[i].matches = 1 THEN got.fields[i].identity ELSE None)
          = answer.fields[i].identity
    BY <1>5, <1>6, <1>7
  <2>2. answer.fields[i].identity # None
    BY <1>1, Planned, IdentityIs
  <2> QED  BY <2>1, <2>2
<1>9. /\ F.control = DecideSubmit(answer.controls, request).control
      /\ F.forbidden = DecideSubmit(answer.controls, request).forbidden
  BY DEF Fingerprint
<1> QED  BY <1>5, <1>7, <1>8, <1>9

\* A report with a selector is the report of the one element that selector finds.
LEMMA ReportedNode ==
    ASSUME NEW p \in PageType, NEW fields, NEW css,
           NEW c \in ControlReports(p, fields, css), c.selector # None
    PROVE  \E n \in ControlNodes(p, css) :
              /\ n \in Present(p)
              /\ c = ControlReport(p, n, OwningForm(p, fields), Hinted(p, css))
              /\ c.selector = Selector(p, n) /\ Query(p, c.selector) = {n}
              /\ c.kind = p.nodes[n].kind /\ c.text = p.nodes[n].text
              /\ c.visible = p.nodes[n].visible /\ c.button = ButtonLike(p.nodes[n])
<1>1. PICK n \in ControlNodes(p, css) :
         c = ControlReport(p, n, OwningForm(p, fields), Hinted(p, css))
  BY ControlsAre
<1>2. n \in Present(p)
  BY ControlsFinite
<1>3. /\ c.selector = Selector(p, n)
      /\ c.kind = p.nodes[n].kind /\ c.text = p.nodes[n].text
      /\ c.visible = p.nodes[n].visible /\ c.button = ButtonLike(p.nodes[n])
  BY <1>1 DEF ControlReport
<1>4. Query(p, c.selector) = {n}
  BY <1>2, <1>3, SelectorIs
<1> QED  BY <1>1, <1>2, <1>3, <1>4

\* Each field is the element its locator found.
LEMMA FieldIsReviewed ==
    ASSUME PlanInv, stage = "clear", told.submit, told.confirm = reviewed.token, Intact,
           NEW i \in DOMAIN request.fields
    PROVE  LET css == plan.content.fields[i].selector
           IN  /\ Matches(seen, request.fields[i]) = Query(seen, css)
               /\ Cardinality(Query(page, css)) = 1
               /\ \A m \in Query(page, css), n \in Query(seen, css) :
                     Identity(page, m) = Identity(seen, n) /\ ~ButtonLike(page.nodes[m])
<1> DEFINE css   == plan.content.fields[i].selector
           asked == DriftRequest(plan.content)
           got   == Probe(page, asked)
<1>1. seen \in PageType /\ page \in PageType
  BY DEF PlanInv
<1>2. /\ DOMAIN plan.content.fields = DOMAIN request.fields
      /\ \A j \in DOMAIN request.fields :
            plan.content.fields[j].selector = answer.fields[j].selector
      /\ plan.content.fields[i].value = request.fields[i].value
  BY TokenBinds
<1>3. PICK n \in Present(seen) :
         /\ Matches(seen, request.fields[i]) = {n}
         /\ ~ButtonLike(seen.nodes[n])
         /\ Selector(seen, n) # None
         /\ answer.fields[i].selector = Selector(seen, n)
         /\ answer.fields[i].identity = Identity(seen, n)
  BY Planned
<1>4. Query(seen, css) = {n}
  BY <1>1, <1>2, <1>3, SelectorIs
<1>5. i \in DOMAIN asked.fields /\ Matches(page, asked.fields[i]) = Query(page, css)
  BY <1>1, <1>2, DriftFinds DEF Written
<1>6. got.fields[i] = Report(page, asked.fields[i])
  BY <1>5 DEF Probe
<1>7. got.fields[i].matches = 1 /\ got.fields[i].identity = Identity(seen, n)
  BY <1>3, NoDrift
<1>8. PICK m : Matches(page, asked.fields[i]) = {m}
  <2>1. Report(page, asked.fields[i]).matches = 1
    BY <1>6, <1>7
  <2> HIDE DEF asked, got
  <2> QED  BY <1>1, <2>1, ReportOne
<1>9. Identity(page, m) = Identity(seen, n)
  <2>1. Report(page, asked.fields[i]).identity = Identity(page, m)
    <3> HIDE DEF asked
    <3> QED  BY <1>1, <1>8, ReportOne
  <2> QED  BY <1>6, <1>7, <2>1
<1>10. ~ButtonLike(page.nodes[m])
  <2>1. page.nodes[m].kind = seen.nodes[n].kind
    BY <1>9 DEF Identity
  <2> QED  BY <1>3, <2>1 DEF ButtonLike
<1>11. Query(page, css) = {m} /\ Cardinality(Query(page, css)) = 1
  BY <1>5, <1>8, FS_Singleton
<1> QED  BY <1>2, <1>3, <1>4, <1>9, <1>10, <1>11

\* The control is a shown button of the kind and the text it had when it was reviewed.
LEMMA ControlIsReviewed ==
    ASSUME PlanInv, stage = "clear", told.submit, told.confirm = reviewed.token, Intact,
           plan.content.control # None
    PROVE  LET css == plan.content.control.selector
               control == reviewed.content.control
           IN  /\ css = control.selector /\ css # None
               /\ \E m \in Query(page, css), n \in Query(seen, css) :
                     /\ Query(page, css) = {m} /\ Query(seen, css) = {n}
                     /\ ButtonLike(page.nodes[m]) /\ page.nodes[m].visible
                     /\ page.nodes[m].kind = seen.nodes[n].kind
                     /\ page.nodes[m].text = seen.nodes[n].text
                     /\ page.nodes[m].text = control.text
<1> DEFINE css   == plan.content.control.selector
           asked == DriftRequest(plan.content)
           got   == Probe(page, asked)
           D     == DecideSubmit(answer.controls, request)
           A     == DecideSubmit(got.controls, asked)
<1>1. seen \in PageType /\ page \in PageType
  BY DEF PlanInv
<1>2. /\ reviewed.content.control = D.control
      /\ D.control # None
      /\ plan.content.control # None
      /\ css = D.control.selector
  BY TokenBinds
<1>3. A.control = D.control
  BY NoDrift
<1>4. answer.controls = ControlReports(seen, request.fields, request.submitSelector)
  BY ReviewedIs DEF Written
<1>5. got.controls = ControlReports(page, asked.fields, asked.submitSelector)
  BY DEF Probe
<1> HIDE DEF got, asked
<1>6. PICK d \in answer.controls : Candidates(answer.controls, request) = {d}
  BY <1>1, <1>2, <1>4, DecidedBy
<1>7. /\ D.control = [selector |-> d.selector, kind |-> d.kind, text |-> d.text]
      /\ d.selector # None
  BY <1>1, <1>4, <1>6, DecidedIs
<1>8. PICK c \in got.controls : Candidates(got.controls, asked) = {c}
  <2>1. DecideSubmit(got.controls, asked).control # None
    BY <1>2, <1>3
  <2> QED  BY <1>1, <1>5, <2>1, DecidedBy
<1>9. /\ A.control = [selector |-> c.selector, kind |-> c.kind, text |-> c.text]
      /\ c.selector # None
  BY <1>1, <1>5, <1>8, DecidedIs
<1>10. PICK n \in Present(seen) : /\ Query(seen, d.selector) = {n}
                                  /\ d.kind = seen.nodes[n].kind
                                  /\ d.text = seen.nodes[n].text
  BY <1>1, <1>4, <1>7, ReportedNode
<1>11. PICK m \in Present(page) : /\ Query(page, c.selector) = {m}
                                  /\ c.kind = page.nodes[m].kind /\ c.text = page.nodes[m].text
                                  /\ c.visible = page.nodes[m].visible
                                  /\ c.button = ButtonLike(page.nodes[m])
  BY <1>1, <1>5, <1>9, ReportedNode
<1>12. css = d.selector /\ css = c.selector /\ css # None
  <2> HIDE DEF css
  <2>1. D.control.selector = d.selector
    BY <1>7
  <2>2. A.control.selector = c.selector
    BY <1>9
  <2> QED  BY <1>2, <1>3, <1>7, <2>1, <2>2
<1>13. c.kind = d.kind /\ c.text = d.text /\ d.text = D.control.text
  <2>1. D.control.kind = d.kind /\ D.control.text = d.text
    BY <1>7
  <2>2. A.control.kind = c.kind /\ A.control.text = c.text
    BY <1>9
  <2> QED  BY <1>3, <2>1, <2>2
<1>14. c.button /\ c.visible
  <2>1. asked.submitSelector # None
    BY <1>2, <1>12 DEF asked, DriftRequest
  <2>2. c \in Candidates(got.controls, asked)
    BY <1>8
  <2> QED  BY <2>1, <2>2 DEF Candidates
<1> HIDE DEF css, D, A
<1>15. Query(page, css) = {m} /\ Query(seen, css) = {n}
  BY <1>10, <1>11, <1>12
<1>16. /\ ButtonLike(page.nodes[m]) /\ page.nodes[m].visible
       /\ page.nodes[m].kind = seen.nodes[n].kind
       /\ page.nodes[m].text = seen.nodes[n].text
       /\ page.nodes[m].text = reviewed.content.control.text
  BY <1>2, <1>10, <1>11, <1>13, <1>14
<1> QED  BY <1>2, <1>12, <1>15, <1>16 DEF css

\* No button came up around the fields that was not there when the form was read.
LEMMA ButtonsAreReviewed ==
    ASSUME PlanInv, stage = "clear", told.submit, told.confirm = reviewed.token, Intact,
           plan.content.control # None
    PROVE  ButtonsAround(page, plan.content) \subseteq
              ButtonsAround(seen, plan.content)
                  \cup {[selector |-> reviewed.content.control.selector,
                         text |-> reviewed.content.control.text]}
<1> DEFINE control == reviewed.content.control
           css   == plan.content.control.selector
           asked == DriftRequest(plan.content)
           got   == Probe(page, asked)
           D     == DecideSubmit(answer.controls, request)
           A     == DecideSubmit(got.controls, asked)
           owning == OwningForm(page, asked.fields)
           hinted == Hinted(page, asked.submitSelector)
<1>1. seen \in PageType /\ page \in PageType
  BY DEF PlanInv
<1>2. control = D.control /\ D.control # None /\ css = D.control.selector
  BY TokenBinds
<1>3. A.control = D.control /\ A.forbidden = D.forbidden
  BY NoDrift
<1>4. answer.controls = ControlReports(seen, request.fields, request.submitSelector)
  BY ReviewedIs DEF Written
<1>5. got.controls = ControlReports(page, asked.fields, asked.submitSelector)
  BY DEF Probe
<1>6. OwningForm(seen, asked.fields) = OwningForm(seen, request.fields)
  BY TokenBinds, DriftFinds DEF Written
<1> HIDE DEF got, asked
<1>7. PICK d \in answer.controls : Candidates(answer.controls, request) = {d}
  BY <1>1, <1>2, <1>4, DecidedBy
<1>8. /\ D.control.selector = d.selector /\ d.selector # None
      /\ D.forbidden = Forbidden(answer.controls, d.selector)
  <2>1. /\ D.control = [selector |-> d.selector, kind |-> d.kind, text |-> d.text]
        /\ d.selector # None
    BY <1>1, <1>4, <1>7, DecidedIs
  <2>2. D.forbidden = Forbidden(answer.controls, d.selector)
    BY <1>1, <1>4, <1>7, DecidedForbids
  <2> QED  BY <2>1, <2>2
<1>9. PICK c \in got.controls : Candidates(got.controls, asked) = {c}
  <2>1. DecideSubmit(got.controls, asked).control # None
    BY <1>2, <1>3
  <2> QED  BY <1>1, <1>5, <2>1, DecidedBy
<1>10. /\ A.control.selector = c.selector
       /\ A.forbidden = Forbidden(got.controls, c.selector)
  <2>1. A.control = [selector |-> c.selector, kind |-> c.kind, text |-> c.text]
    BY <1>1, <1>5, <1>9, DecidedIs
  <2>2. A.forbidden = Forbidden(got.controls, c.selector)
    BY <1>1, <1>5, <1>9, DecidedForbids
  <2> QED  BY <2>1, <2>2
<1>11. PICK k \in ControlNodes(seen, request.submitSelector) :
          d = ControlReport(seen, k, OwningForm(seen, request.fields),
                            Hinted(seen, request.submitSelector))
  BY <1>4, ControlsAre
<1> HIDE DEF D, A
\* A control that is not the plan's, and that the hint finds too, there is none.
<1>12. ASSUME NEW n \in Present(seen), Selector(seen, n) # None, Selector(seen, n) # d.selector
       PROVE  n \notin Hinted(seen, request.submitSelector)
  <2> SUFFICES ASSUME n \in Hinted(seen, request.submitSelector)  PROVE FALSE
    OBVIOUS
  <2>1. request.submitSelector # None /\ n \in Query(seen, request.submitSelector)
    BY DEF Hinted
  <2>2. Selector(seen, n) = seen.nodes[n].id /\ Query(seen, seen.nodes[n].id) = {n}
    BY <1>12 DEF Selector
  <2>3. seen.nodes[n].id = request.submitSelector
    BY <2>1 DEF Query
  <2>4. Hinted(seen, request.submitSelector) = {n}
    BY <2>1, <2>2, <2>3 DEF Hinted
  <2>5. d.matchesSubmitSelector
    <3>1. d \in Candidates(answer.controls, request)
      BY <1>7
    <3> QED  BY <2>1, <3>1 DEF Candidates
  <2>6. k = n
    BY <1>11, <2>4, <2>5 DEF ControlReport
  <2> QED  BY <1>11, <1>12, <2>6 DEF ControlReport
<1> SUFFICES ASSUME NEW b \in ButtonsAround(page, plan.content),
                    b # [selector |-> control.selector, text |-> control.text]
             PROVE  b \in ButtonsAround(seen, plan.content)
  OBVIOUS
<1>13. PICK m \in Present(page) :
          /\ IsControl(page.nodes[m]) /\ Selector(page, m) # None
          /\ page.nodes[m].form # None /\ page.nodes[m].form = owning
          /\ b = [selector |-> Selector(page, m), text |-> page.nodes[m].text]
  BY DEF ButtonsAround, asked
<1> DEFINE r == ControlReport(page, m, owning, hinted)
<1>14. /\ r \in got.controls /\ r.inOwningForm
       /\ r.selector = Selector(page, m) /\ r.text = page.nodes[m].text
  <2>1. m \in ControlNodes(page, asked.submitSelector)
    BY <1>13 DEF ControlNodes
  <2>2. r \in got.controls
    BY <1>5, <2>1, ControlsAre
  <2> QED  BY <1>13, <2>2 DEF ControlReport
<1> HIDE DEF r
<1>15. Selector(page, m) # css
  <2> SUFFICES ASSUME Selector(page, m) = css  PROVE FALSE
    OBVIOUS
  <2>1. Query(page, css) = {m}
    BY <1>1, <1>13, SelectorIs
  <2>2. page.nodes[m].text = control.text /\ css = control.selector
    BY <2>1, ControlIsReviewed
  <2> QED  BY <1>13, <2>2
<1>16. css = d.selector /\ css = c.selector
  <2> HIDE DEF css
  <2> QED  BY <1>2, <1>3, <1>8, <1>10
<1>17. b \in D.forbidden
  <2>1. r \in {e \in got.controls : /\ e.inOwningForm \/ e.matchesSubmitSelector
                                    /\ e.selector # None /\ e.selector # c.selector}
    BY <1>13, <1>14, <1>15, <1>16
  <2>2. b = [selector |-> r.selector, text |-> r.text]
    BY <1>13, <1>14
  <2>3. b \in A.forbidden
    BY <1>10, <2>1, <2>2 DEF Forbidden
  <2> QED  BY <1>3, <2>3
<1>18. PICK e \in answer.controls : /\ e.inOwningForm \/ e.matchesSubmitSelector
                                    /\ e.selector # None /\ e.selector # d.selector
                                    /\ b = [selector |-> e.selector, text |-> e.text]
  BY <1>8, <1>17 DEF Forbidden
<1>19. PICK n \in ControlNodes(seen, request.submitSelector) :
          /\ n \in Present(seen)
          /\ e = ControlReport(seen, n, OwningForm(seen, request.fields),
                               Hinted(seen, request.submitSelector))
          /\ e.selector = Selector(seen, n) /\ e.text = seen.nodes[n].text
  BY <1>1, <1>4, <1>18, ReportedNode
<1>20. n \notin Hinted(seen, request.submitSelector)
  BY <1>12, <1>18, <1>19
<1>21. /\ IsControl(seen.nodes[n])
       /\ OwningForm(seen, asked.fields) # None
       /\ seen.nodes[n].form = OwningForm(seen, asked.fields)
  BY <1>6, <1>18, <1>19, <1>20 DEF ControlNodes, ControlReport
<1> QED  BY <1>18, <1>19, <1>21 DEF ButtonsAround, asked

\* A submit that was approved with the token the operator read, and that passed the drift
\* check, is of the reviewed values and selectors, whatever was written into the file; and
\* they find the elements that were reviewed, whatever the page became, if the digests in
\* the file are the ones that were.
THEOREM SubmitIsReviewedHolds == PlanSpec => []SubmitIsReviewed
<1>1. PlanInv => SubmitIsReviewed
  <2> SUFFICES ASSUME PlanInv, stage = "clear", told.submit, told.confirm = reviewed.token
               PROVE  SubmitIsReviewed
    BY DEF SubmitIsReviewed
  <2>1. /\ DOMAIN plan.content.fields = DOMAIN request.fields
        /\ \A i \in DOMAIN request.fields :
              /\ plan.content.fields[i].selector = reviewed.content.fields[i].selector
              /\ plan.content.fields[i].value = request.fields[i].value
        /\ plan.content.control = None <=> reviewed.content.control = None
        /\ plan.content.control # None =>
              plan.content.control.selector = reviewed.content.control.selector
    BY TokenBinds
  <2>2. Intact => FieldsAsReviewed
    BY FieldIsReviewed DEF FieldsAsReviewed
  <2>3. Intact /\ plan.content.control # None => ControlAsReviewed
    BY ControlIsReviewed DEF ControlAsReviewed
  <2>4. Intact /\ plan.content.control # None => ButtonsAsReviewed
    BY ButtonsAreReviewed DEF ButtonsAsReviewed
  <2> QED  BY <2>1, <2>2, <2>3, <2>4 DEF SubmitIsReviewed, Intact
<1> QED  BY PlanInvHolds, <1>1, PTL

--------------------------------------------------------------------------------
(***************************************************************************)
(* A page that did not change.                                              *)
(***************************************************************************)

\* Two probes that name the same element or none differ in the report of that one alone, so
\* they forbid the same other buttons.
LEMMA HintForbids ==
    ASSUME NEW p, NEW n, NEW N, NEW owning, NEW g \in SUBSET {n}, NEW h \in SUBSET {n}
    PROVE  Forbidden({ControlReport(p, x, owning, g) : x \in N}, Selector(p, n))
             \subseteq Forbidden({ControlReport(p, x, owning, h) : x \in N}, Selector(p, n))
<1> DEFINE G == {ControlReport(p, x, owning, g) : x \in N}
           I == {ControlReport(p, x, owning, h) : x \in N}
<1> SUFFICES ASSUME NEW b \in Forbidden(G, Selector(p, n))
             PROVE  b \in Forbidden(I, Selector(p, n))
  OBVIOUS
<1>1. PICK e \in G : /\ e.inOwningForm \/ e.matchesSubmitSelector
                     /\ e.selector # None /\ e.selector # Selector(p, n)
                     /\ b = [selector |-> e.selector, text |-> e.text]
  BY DEF Forbidden
<1>2. e \in I
  <2>1. PICK x \in N : e = ControlReport(p, x, owning, g)
    OBVIOUS
  <2>2. x # n
    BY <1>1, <2>1 DEF ControlReport
  <2>3. ControlReport(p, x, owning, g) = ControlReport(p, x, owning, h)
    BY <2>2 DEF ControlReport
  <2> QED  BY <2>1, <2>3
<1> HIDE DEF G, I
<1> QED  BY <1>1, <1>2 DEF Forbidden

\* The hint of the drift check finds the control that was chosen and forbids the same.
LEMMA ControlUnchanged ==
    ASSUME NEW p \in PageType, NEW q, NEW fields, NEW asked,
           OwningForm(p, asked.fields) = OwningForm(p, fields),
           NEW controls, controls = ControlReports(p, fields, q.submitSelector),
           NEW got, got = ControlReports(p, asked.fields, asked.submitSelector),
           NEW d, Candidates(controls, q) = {d},
           asked.submitText = None, asked.submitSelector = d.selector,
           q.submitSelector = None \/ ~(Cardinality(Query(p, q.submitSelector)) > 1)
    PROVE  /\ DecideSubmit(got, asked).control = DecideSubmit(controls, q).control
           /\ DecideSubmit(got, asked).forbidden = DecideSubmit(controls, q).forbidden
<1> DEFINE owning == OwningForm(p, fields)
           H == Hinted(p, q.submitSelector)
           N == ControlNodes(p, q.submitSelector)
<1>1. d \in controls /\ d.selector # None
  BY DEF Candidates
<1>2. PICK n \in N : /\ n \in Present(p)
                     /\ d = ControlReport(p, n, owning, H)
                     /\ d.selector = Selector(p, n) /\ Query(p, d.selector) = {n}
  <2>1. d \in ControlReports(p, fields, q.submitSelector)
    BY <1>1
  <2> QED  BY <1>1, <2>1, ReportedNode
<1>3. Hinted(p, asked.submitSelector) = {n}
  BY <1>1, <1>2 DEF Hinted
<1>4. d \in Candidates(controls, q)
  OBVIOUS
<1>5. H \in SUBSET {n} /\ ControlNodes(p, asked.submitSelector) = N /\ d.button
  <2>1. CASE q.submitSelector = None
    <3>1. H = {}
      BY <2>1 DEF Hinted
    <3>2. d.kind = "submit"
      BY <1>4, <2>1 DEF Candidates
    <3>3. p.nodes[n].kind = "submit"
      BY <1>2, <3>2 DEF ControlReport
    <3>4. n \in {m \in Present(p) : IsControl(p.nodes[m])} /\ ButtonLike(p.nodes[n])
      BY <1>2, <3>3 DEF IsControl, ButtonLike
    <3>5. N = {m \in Present(p) : IsControl(p.nodes[m])}
      BY <3>1 DEF ControlNodes
    <3>6. ControlNodes(p, asked.submitSelector) = N
      BY <1>3, <3>4, <3>5 DEF ControlNodes
    <3>7. d.button
      BY <1>2, <3>4 DEF ControlReport
    <3> QED  BY <3>1, <3>6, <3>7
  <2>2. CASE q.submitSelector # None
    <3>1. d.matchesSubmitSelector /\ d.button
      BY <1>4, <2>2 DEF Candidates
    <3>2. n \in H /\ H = Query(p, q.submitSelector)
      BY <1>2, <2>2, <3>1 DEF ControlReport, Hinted
    <3>3. H \in SUBSET Nodes /\ IsFiniteSet(H) /\ Cardinality(H) \in Nat
      <4>1. H \in SUBSET Nodes
        BY <3>2, Found
      <4> HIDE DEF H
      <4> QED  BY <4>1, Found, FS_CardinalityType
    <3> HIDE DEF H
    <3>4. Cardinality(H) # 0
      BY <3>2, <3>3, FS_EmptySet
    <3>5. Cardinality(H) = 1
      BY <2>2, <3>2, <3>3, <3>4
    <3>6. H = {n}
      BY <3>2, <3>3, <3>5, FS_Singleton
    <3>7. ControlNodes(p, asked.submitSelector) = N
      BY <1>3, <3>6 DEF ControlNodes, H
    <3> QED  BY <3>1, <3>6, <3>7
  <2> QED  BY <2>1, <2>2
<1> DEFINE c == ControlReport(p, n, owning, {n})
<1>6. /\ c.selector = d.selector /\ c.kind = d.kind /\ c.text = d.text
      /\ c.visible = d.visible /\ c.button = d.button /\ c.matchesSubmitSelector
  BY <1>2 DEF ControlReport
<1>7. got = {ControlReport(p, x, owning, {n}) : x \in N}
  <2> HIDE DEF N, owning
  <2> QED  BY <1>3, <1>5, ControlsAre DEF owning
<1>8. c \in got
  <2> HIDE DEF N, owning
  <2> QED  BY <1>2, <1>7
<1>9. controls = {ControlReport(p, x, owning, H) : x \in N}
  BY ControlsAre
<1>10. Candidates(got, asked) = {c}
  <2>1. ASSUME NEW e \in got, e.matchesSubmitSelector  PROVE e = c
    <3> HIDE DEF N, owning
    <3>1. PICK x \in N : e = ControlReport(p, x, owning, {n})
      BY <1>7
    <3>2. x = n
      BY <2>1, <3>1 DEF ControlReport
    <3> QED  BY <3>1, <3>2 DEF owning
  <2>2. d.visible
    BY <1>4 DEF Candidates
  <2>3. c.matchesSubmitSelector /\ c.button /\ c.visible /\ c.selector # None
    <3> HIDE DEF c
    <3> QED  BY <1>1, <1>5, <1>6, <2>2
  <2> HIDE DEF c
  <2> QED  BY <1>1, <1>8, <2>1, <2>3 DEF Candidates
<1> HIDE DEF c
<1>11. DecideSubmit(controls, q).control
         = [selector |-> d.selector, kind |-> d.kind, text |-> d.text]
  BY DecidedIs
<1>12. DecideSubmit(got, asked).control
         = [selector |-> c.selector, kind |-> c.kind, text |-> c.text]
  BY <1>10, DecidedIs
<1>13. DecideSubmit(controls, q).forbidden = Forbidden(controls, d.selector)
  BY DecidedForbids
<1>14. DecideSubmit(got, asked).forbidden = Forbidden(got, c.selector)
  BY <1>10, DecidedForbids
<1>15. Forbidden(got, c.selector) = Forbidden(controls, d.selector)
  <2>1. {n} \in SUBSET {n}
    OBVIOUS
  <2> HIDE DEF N, owning, H
  <2>2. Forbidden(got, d.selector) \subseteq Forbidden(controls, d.selector)
    BY <1>2, <1>5, <1>7, <1>9, <2>1, HintForbids
  <2>3. Forbidden(controls, d.selector) \subseteq Forbidden(got, d.selector)
    BY <1>2, <1>5, <1>7, <1>9, <2>1, HintForbids
  <2> QED  BY <1>6, <2>2, <2>3
<1> QED  BY <1>6, <1>11, <1>12, <1>13, <1>14, <1>15

\* A plan that was not edited looks for its fields where they were found.
LEMMA UneditedFinds ==
    ASSUME PlanInv, Written, plan = reviewed
    PROVE  LET fields == DriftRequest(plan.content).fields
           IN  /\ DOMAIN plan.content.fields = DOMAIN request.fields
               /\ DOMAIN fields = DOMAIN request.fields
               /\ \A i \in DOMAIN request.fields :
                     /\ plan.content.fields[i].selector = answer.fields[i].selector
                     /\ Matches(seen, fields[i]) = Matches(seen, request.fields[i])
               /\ OwningForm(seen, fields) = OwningForm(seen, request.fields)
<1>1. plan.content.fields = PlannedFields(request, answer)
  BY ReviewedIs
<1>2. /\ DOMAIN plan.content.fields = DOMAIN request.fields
      /\ \A i \in DOMAIN request.fields :
            plan.content.fields[i].selector = answer.fields[i].selector
  BY <1>1 DEF PlannedFields
<1> QED  BY <1>2, DriftFinds

\* What the drift check asks of a page that did not change is what was asked first.
LEMMA DecisionUnchanged ==
    ASSUME PlanInv, Written, plan = reviewed, page = seen,
           plan.content.control = None =>
              request.submitText = None /\ request.submitSelector = None,
           request.submitSelector = None
              \/ ~(Cardinality(Query(seen, request.submitSelector)) > 1)
    PROVE  LET asked == DriftRequest(plan.content)
               got   == Probe(page, asked)
               D     == DecideSubmit(answer.controls, request)
               A     == DecideSubmit(got.controls, asked)
           IN  A.control = D.control /\ A.forbidden = D.forbidden
<1> DEFINE asked == DriftRequest(plan.content)
           got   == Probe(page, asked)
           D     == DecideSubmit(answer.controls, request)
           A     == DecideSubmit(got.controls, asked)
<1>1. seen \in PageType
  BY DEF PlanInv, Written
<1>2. plan.content.control = D.control
  BY ReviewedIs
<1>3. /\ answer.controls = ControlReports(seen, request.fields, request.submitSelector)
      /\ got.controls = ControlReports(seen, asked.fields, asked.submitSelector)
  BY ReviewedIs DEF Probe
<1>4. OwningForm(seen, asked.fields) = OwningForm(seen, request.fields)
  BY UneditedFinds
<1>5. /\ asked.submitText = None
      /\ asked.submitSelector =
            IF plan.content.control = None THEN None ELSE plan.content.control.selector
  BY DEF DriftRequest
<1> HIDE DEF asked, got
<1>6. CASE plan.content.control = None
  <2>1. request.submitText = None /\ request.submitSelector = None
        /\ asked.submitSelector = None
    BY <1>5, <1>6
  <2>2. got.controls = answer.controls
    BY <1>3, <1>4, <2>1 DEF ControlReports
  <2>3. Candidates(got.controls, asked) = Candidates(answer.controls, request)
    BY <1>5, <2>1, <2>2 DEF Candidates
  <2>4. DecideSubmit(got.controls, asked) = DecideSubmit(answer.controls, request)
    BY <2>2, <2>3 DEF DecideSubmit
  <2> QED  BY <2>4 DEF asked, got
<1>7. CASE plan.content.control # None
  <2>1. PICK d \in answer.controls : Candidates(answer.controls, request) = {d}
    BY <1>1, <1>2, <1>3, <1>7, DecidedBy
  <2>2. D.control = [selector |-> d.selector, kind |-> d.kind, text |-> d.text]
    BY <1>1, <1>3, <2>1, DecidedIs
  <2>3. asked.submitSelector = d.selector
    BY <1>2, <1>5, <1>7, <2>2
  <2>4. A.control = D.control /\ A.forbidden = D.forbidden
    BY <1>1, <1>3, <1>4, <1>5, <2>1, <2>3, ControlUnchanged
  <2> QED  BY <2>4 DEF asked, got
<1> QED  BY <1>6, <1>7

\* A page that did not change is not refused for having changed.
THEOREM UnchangedPassesHolds == PlanSpec => []UnchangedPasses
<1>1. PlanInv => UnchangedPasses
  <2> SUFFICES ASSUME PlanInv, stage = "stale", plan = reviewed, page = seen,
                      plan.content.control = None =>
                         request.submitText = None /\ request.submitSelector = None,
                      request.submitSelector = None
                         \/ ~(Cardinality(Query(seen, request.submitSelector)) > 1)
               PROVE  FALSE
    BY DEF UnchangedPasses
  <2> DEFINE asked == DriftRequest(plan.content)
             got   == Probe(page, asked)
             A     == DecideSubmit(got.controls, asked)
             F     == Fingerprint(request, answer)
             found == [i \in DOMAIN plan.content.fields |->
                          [selector |-> plan.content.fields[i].selector,
                           identity |-> IF got.fields[i].matches = 1
                                        THEN got.fields[i].identity ELSE None]]
  <2>1. /\ seen \in PageType /\ answer = Probe(seen, request)
        /\ Drifted(plan.content.fingerprint, Actual)
    BY DEF PlanInv
  <2>2. plan.content.fingerprint = F
    BY ReviewedIs DEF Written
  <2>3. Actual = [place |-> got.place, forms |-> got.forms, fields |-> found,
                  control |-> A.control, forbidden |-> A.forbidden]
    BY DEF Actual, FingerprintFrom, FingerprintFor
  <2>4. got.place = answer.place /\ got.forms = answer.forms
    BY <2>1 DEF Probe
  <2>5. A.control = F.control /\ A.forbidden = F.forbidden
    <3>1. /\ A.control = DecideSubmit(answer.controls, request).control
          /\ A.forbidden = DecideSubmit(answer.controls, request).forbidden
      BY DecisionUnchanged DEF Written
    <3> HIDE DEF A
    <3> QED  BY <3>1 DEF Fingerprint
  <2>6. /\ DOMAIN plan.content.fields = DOMAIN request.fields
        /\ DOMAIN asked.fields = DOMAIN request.fields
        /\ \A i \in DOMAIN request.fields :
              /\ plan.content.fields[i].selector = answer.fields[i].selector
              /\ Matches(seen, asked.fields[i]) = Matches(seen, request.fields[i])
    BY UneditedFinds DEF Written
  <2>7. ASSUME NEW i \in DOMAIN request.fields
        PROVE  found[i] = [selector |-> answer.fields[i].selector,
                           identity |-> answer.fields[i].identity]
    <3>1. PICK n \in Present(seen) : /\ Matches(seen, request.fields[i]) = {n}
                                     /\ answer.fields[i].identity = Identity(seen, n)
      BY Planned
    <3>2. got.fields[i] = Report(seen, asked.fields[i])
      BY <2>6 DEF Probe
    <3> HIDE DEF asked, got
    <3>3. Matches(seen, asked.fields[i]) = {n}
      BY <2>6, <3>1
    <3>4. Report(seen, asked.fields[i]) =
            [matches |-> 1, selector |-> Selector(seen, n),
             button |-> ButtonLike(seen.nodes[n]), identity |-> Identity(seen, n)]
      BY <2>1, <3>3, ReportOne
    <3>5. got.fields[i].matches = 1 /\ got.fields[i].identity = answer.fields[i].identity
      BY <3>1, <3>2, <3>4
    <3> QED  BY <2>6, <3>5
  <2>8. found = F.fields
    <3>1. F.fields = [i \in DOMAIN request.fields |->
                         [selector |-> answer.fields[i].selector,
                          identity |-> answer.fields[i].identity]]
      BY DEF Fingerprint
    <3>2. found = [i \in DOMAIN request.fields |-> found[i]]
      BY <2>6
    <3> HIDE DEF found, F
    <3> QED  BY <2>7, <3>1, <3>2
  <2>9. F = [place |-> answer.place, forms |-> answer.forms, fields |-> F.fields,
             control |-> F.control, forbidden |-> F.forbidden]
    BY DEF Fingerprint
  <2> HIDE DEF found, F, A, got
  <2>10. Actual = F
    BY <2>3, <2>4, <2>5, <2>8, <2>9
  <2> QED  BY <2>1, <2>2, <2>10 DEF Drifted
<1> QED  BY PlanInvHolds, <1>1, PTL

-----------------------------------------------------------------------------
(* `surf explore`: the readings a diagnosis stands on.                      *)

\* What may be read of a candidate.
Reads == {"hit", "miss", "unanswered", "unprobed"}

-----------------------------------------------------------------------------
(* The candidates: a page's unreached frames, in their order, up to the cap. *)

\* A set of positions is finite.
LEMMA PositionsFinite ==
    ASSUME NEW n \in Nat, NEW T \in SUBSET (1 .. n)
    PROVE  IsFiniteSet(T) /\ Cardinality(T) \in Nat
<1>1. IsFiniteSet(1 .. n)
  BY FS_Interval
<1> QED
  BY <1>1, FS_Subset, FS_CardinalityType

LEMMA UnreachedFinite ==
    ASSUME NEW frames \in Seq(FrameType)
    PROVE  /\ IsFiniteSet(Unreached(frames)) /\ Unreached(frames) \subseteq Nat
           /\ \A S \in SUBSET Unreached(frames) : IsFiniteSet(S) /\ Cardinality(S) \in Nat
<1>1. DOMAIN frames = 1 .. Len(frames) /\ Len(frames) \in Nat
  OBVIOUS
<1>2. IsFiniteSet(DOMAIN frames)
  BY <1>1, FS_Interval
<1>3. Unreached(frames) \subseteq DOMAIN frames
  BY DEF Unreached
<1>4. IsFiniteSet(Unreached(frames))
  BY <1>2, <1>3, FS_Subset
<1> QED
  BY <1>1, <1>3, <1>4, FS_Subset, FS_CardinalityType

\* The frames before another are fewer than those before it.
LEMMA Ranked ==
    ASSUME NEW frames \in Seq(FrameType), NEW i \in Unreached(frames), NEW j \in Before(frames, i)
    PROVE  /\ j \in Unreached(frames)
           /\ Cardinality(Before(frames, j)) < Cardinality(Before(frames, i))
<1>1. Before(frames, i) \subseteq Unreached(frames) /\ Before(frames, j) \subseteq Unreached(frames)
  BY DEF Before
<1>2. i \in Nat /\ j \in Nat /\ Before(frames, j) \subseteq Nat
  BY <1>1, UnreachedFinite
<1>3. /\ frames[i].where \in {"dom", "nested"} /\ frames[j].where \in {"dom", "nested"}
      /\ \A k \in Before(frames, j) : frames[k].where \in {"dom", "nested"}
  BY <1>1 DEF Unreached
<1>4. Before(frames, j) \subseteq Before(frames, i)
  BY <1>1, <1>2, <1>3 DEF Before
<1>5. j \notin Before(frames, j)
  BY <1>2 DEF Before
<1>6. IsFiniteSet(Before(frames, i))
  BY <1>1, UnreachedFinite
<1>7. /\ Cardinality(Before(frames, j)) <= Cardinality(Before(frames, i))
      /\ Cardinality(Before(frames, i)) # Cardinality(Before(frames, j))
  BY <1>4, <1>5, <1>6, FS_Subset
<1>8. Cardinality(Before(frames, i)) \in Nat /\ Cardinality(Before(frames, j)) \in Nat
  BY <1>1, UnreachedFinite
<1> QED
  BY <1>1, <1>7, <1>8

\* The rank of a frame names it.
LEMMA RankInjective ==
    ASSUME NEW frames \in Seq(FrameType), NEW i \in Unreached(frames), NEW j \in Unreached(frames),
           Cardinality(Before(frames, i)) = Cardinality(Before(frames, j))
    PROVE  i = j
<1>1. i \in Nat /\ j \in Nat
  BY UnreachedFinite
<1>2. i # j => i \in Before(frames, j) \/ j \in Before(frames, i)
  BY <1>1 DEF Before, Unreached
<1>3. Before(frames, i) \subseteq Unreached(frames) /\ Before(frames, j) \subseteq Unreached(frames)
  BY DEF Before
<1>4. Cardinality(Before(frames, i)) \in Nat /\ Cardinality(Before(frames, j)) \in Nat
  BY <1>3, UnreachedFinite
<1> QED
  BY <1>2, <1>4, Ranked

\* The ranks of the listed frames are the numbers below their number.
LEMMA RanksFill ==
    ASSUME NEW frames \in Seq(FrameType)
    PROVE  /\ IsFiniteSet(Listed(frames)) /\ Cardinality(Listed(frames)) \in Nat
           /\ \A i \in Listed(frames) :
                Cardinality(Before(frames, i)) \in 0 .. Cardinality(Listed(frames)) - 1
           /\ \A r \in 0 .. Cardinality(Listed(frames)) - 1 :
                \E i \in Listed(frames) : Cardinality(Before(frames, i)) = r
<1> DEFINE n == Cardinality(Listed(frames))
           rank == [i \in Listed(frames) |-> Cardinality(Before(frames, i))]
<1>1. Listed(frames) \subseteq Unreached(frames)
  BY DEF Listed
<1>2. IsFiniteSet(Listed(frames)) /\ n \in Nat
  BY <1>1, UnreachedFinite
<1>3. ASSUME NEW i \in Listed(frames)
      PROVE  Cardinality(Before(frames, i)) \in 0 .. n - 1
  <2>1. Before(frames, i) \subseteq Listed(frames) \ {i}
    <3>1. ASSUME NEW j \in Before(frames, i)  PROVE j \in Listed(frames) /\ j # i
      <4>1. i \in Unreached(frames) /\ Cardinality(Before(frames, i)) < MaxCandidates
        BY <1>1 DEF Listed
      <4>2. j \in Unreached(frames) /\ Cardinality(Before(frames, j)) < Cardinality(Before(frames, i))
        BY <4>1, Ranked
      <4>3. Before(frames, i) \subseteq Unreached(frames) /\ Before(frames, j) \subseteq Unreached(frames)
        BY DEF Before
      <4>4. Cardinality(Before(frames, i)) \in Nat /\ Cardinality(Before(frames, j)) \in Nat
        BY <4>3, UnreachedFinite
      <4> QED
        BY <4>1, <4>2, <4>4, MaxCandidatesAssumption DEF Listed
    <3> QED
      BY <3>1
  <2>2. IsFiniteSet(Listed(frames) \ {i}) /\ Cardinality(Listed(frames) \ {i}) = n - 1
    BY <1>2, FS_RemoveElement
  <2>3. Cardinality(Before(frames, i)) <= n - 1 /\ IsFiniteSet(Before(frames, i))
    BY <2>1, <2>2, FS_Subset
  <2> QED
    BY <1>2, <2>3, FS_CardinalityType
<1>4. rank \in Injection(Listed(frames), 0 .. n - 1)
  <2>1. rank \in [Listed(frames) -> 0 .. n - 1]
    BY <1>3
  <2>2. ASSUME NEW i \in Listed(frames), NEW j \in Listed(frames), rank[i] = rank[j]  PROVE i = j
    BY <1>1, <2>2, RankInjective
  <2> QED
    BY <2>1, <2>2 DEF Injection, IsInjective
<1>5. rank \in Surjection(Listed(frames), 0 .. n - 1)
  <2>1. 0 \in Int /\ n - 1 \in Int
    BY <1>2
  <2>2. IsFiniteSet(0 .. n - 1) /\ Cardinality(0 .. n - 1) = n
    BY <1>2, <2>1, FS_Interval
  <2> QED
    BY <1>4, <2>2, FS_Injection
<1> QED
  BY <1>2, <1>3, <1>5 DEF Surjection

\* The candidates are the listed frames, each once.
LEMMA CandidatesListed ==
    ASSUME NEW frames \in Seq(FrameType)
    PROVE  /\ FrameCandidates(frames) \in Seq(Listed(frames))
           /\ \A i \in Listed(frames) :
                \E k \in DOMAIN FrameCandidates(frames) : FrameCandidates(frames)[k] = i
<1> DEFINE n == Cardinality(Listed(frames))
<1>1. n \in Nat
  BY RanksFill
<1>2. ASSUME NEW k \in 1 .. n
      PROVE  /\ FrameCandidates(frames)[k] \in Listed(frames)
             /\ Cardinality(Before(frames, FrameCandidates(frames)[k])) = k - 1
  <2>1. k - 1 \in 0 .. n - 1
    BY <1>1
  <2>2. \E i \in Listed(frames) : Cardinality(Before(frames, i)) = k - 1
    BY <2>1, RanksFill
  <2> QED
    BY <2>2 DEF FrameCandidates
<1>3. FrameCandidates(frames) \in [1 .. n -> Listed(frames)]
  BY <1>2 DEF FrameCandidates
<1>4. ASSUME NEW i \in Listed(frames)
      PROVE  \E k \in 1 .. n : FrameCandidates(frames)[k] = i
  <2> DEFINE k == Cardinality(Before(frames, i)) + 1
  <2>1. k \in 1 .. n /\ k - 1 = Cardinality(Before(frames, i))
    BY <1>1, RanksFill
  <2>2. Listed(frames) \subseteq Unreached(frames)
    BY DEF Listed
  <2>3. FrameCandidates(frames)[k] = i
    BY <1>2, <2>1, <2>2, RankInjective
  <2> QED
    BY <2>1, <2>3
<1> QED
  BY <1>1, <1>3, <1>4

\* An empty list means that there is no frame to list.
LEMMA NoCandidates ==
    ASSUME NEW frames \in Seq(FrameType), FrameCandidates(frames) = <<>>
    PROVE  Unreached(frames) = {}
<1>1. Listed(frames) = {}
  BY CandidatesListed
<1>2. SUFFICES ASSUME Unreached(frames) # {} PROVE FALSE
  OBVIOUS
<1> DEFINE Doms   == {i \in Unreached(frames) : frames[i].where = "dom"}
           Firsts == IF Doms # {} THEN Doms ELSE Unreached(frames)
<1>3. Firsts # {} /\ Firsts \subseteq Unreached(frames) /\ Firsts \subseteq 1 .. Len(frames)
  BY <1>2 DEF Unreached
<1>4. PICK i \in Firsts : \A j \in Firsts : i <= j
  <2> HIDE DEF Firsts
  <2>1. Len(frames) \in Nat /\ Firsts \in SUBSET (1 .. Len(frames))
    BY <1>3
  <2> QED
    BY <1>3, <2>1, Least
<1>5. Before(frames, i) = {}
  <2>1. ASSUME NEW j \in Before(frames, i) PROVE FALSE
    <3>1. j \in Unreached(frames) /\ i \in Nat /\ j \in Nat
      BY <1>3, UnreachedFinite DEF Before
    <3>2. IF frames[j].where = frames[i].where THEN j < i ELSE frames[j].where = "dom"
      BY DEF Before
    <3>3. frames[i].where \in {"dom", "nested"} /\ frames[j].where \in {"dom", "nested"}
      BY <1>3, <3>1 DEF Unreached
    <3>4. frames[j].where = "dom" => j \in Doms
      BY <3>1
    <3>5. j \in Doms => i \in Doms
      BY <1>4
    <3>6. frames[j].where = frames[i].where /\ j < i
      <4>1. frames[j].where = "dom" => frames[i].where = "dom"
        BY <3>4, <3>5
      <4> HIDE DEF Doms
      <4> QED
        BY <3>2, <3>3, <4>1
    <3>7. j \in Firsts
      BY <1>4, <3>1, <3>6
    <3> QED
      BY <1>4, <3>1, <3>6, <3>7
  <2> QED
    BY <2>1
<1>6. i \in Listed(frames)
  <2>1. i \in Unreached(frames) /\ Cardinality(Before(frames, i)) = 0
    BY <1>3, <1>4, <1>5, FS_EmptySet
  <2> QED
    BY <2>1, MaxCandidatesAssumption DEF Listed
<1> QED
  BY <1>1, <1>6

-----------------------------------------------------------------------------
(* What a determination stands on.                                          *)

\* In an inventory that agrees with itself, every visible frame is one that a main-page
\* selector cannot reach: none was dropped, none sits under a closed shadow root.
LEMMA ConsistentShowsAll ==
    ASSUME NEW frames \in Seq(FrameType), ~Inconsistent(frames),
           NEW i \in DOMAIN frames, Visible(frames[i])
    PROVE  i \in Unreached(frames)
<1>1. frames[i] \in FrameType
  OBVIOUS
<1>2. ASSUME frames[i].where = "closed" PROVE FALSE
  <2>1. /\ UnmatchableIframes(frames) \subseteq UnmatchedChildren(frames)
        /\ i \in UnmatchedChildren(frames) /\ i \notin UnmatchableIframes(frames)
        /\ UnmatchedChildren(frames) \subseteq 1 .. Len(frames)
    BY <1>2 DEF UnmatchableIframes, UnmatchedChildren
  <2>2. IsFiniteSet(1 .. Len(frames))
    BY FS_Interval
  <2>3. IsFiniteSet(UnmatchedChildren(frames))
    BY <2>1, <2>2, FS_Subset
  <2>4. /\ IsFiniteSet(UnmatchableIframes(frames))
        /\ Cardinality(UnmatchableIframes(frames)) <= Cardinality(UnmatchedChildren(frames))
        /\ Cardinality(UnmatchedChildren(frames)) # Cardinality(UnmatchableIframes(frames))
    BY <2>1, <2>3, FS_Subset
  <2>5. /\ Cardinality(UnmatchedChildren(frames)) \in Nat
        /\ Cardinality(UnmatchableIframes(frames)) \in Nat
    BY <2>3, <2>4, FS_CardinalityType
  <2> QED
    BY <2>4, <2>5 DEF Inconsistent
<1>3. frames[i].where # "dropped"
  BY DEF Inconsistent, Dropped
<1> QED
  BY <1>1, <1>2, <1>3 DEF Unreached, Visible, FrameType

\* Nothing but a page without frames to list excludes, and only on the page that failed.
LEMMA ExcludedMeans ==
    ASSUME NEW frames, NEW href, NEW failureHref, NEW hint, NEW readings,
           DetermineFrameRootCause(Topology(frames, href), failureHref, hint, readings).value = "excluded"
    PROVE  /\ ~Inconsistent(frames) /\ FrameCandidates(frames) = <<>>
           /\ failureHref = Null \/ failureHref = href
<1> DEFINE t == Topology(frames, href)
<1>1. DecideFromProbe(t, readings).value # "excluded"
  BY DEF DecideFromProbe, Determined, ConfirmedAt
<1>2. DecideFromHint(t, hint).value # "excluded"
  BY DEF DecideFromHint, Determined, ConfirmedAt
<1>3. /\ t.href = href /\ t.inconsistent = Inconsistent(frames)
      /\ t.candidates = FrameCandidates(frames)
  BY DEF Topology
<1> HIDE DEF t
<1> QED
  BY <1>1, <1>2, <1>3 DEF DetermineFrameRootCause, Determined, t

\* Without a hint, nothing but the probe confirms, and only in a consistent inventory.
LEMMA ConfirmedMeans ==
    ASSUME NEW frames, NEW href, NEW failureHref, NEW readings,
           DetermineFrameRootCause(Topology(frames, href), failureHref, Null, readings).value = "confirmed"
    PROVE  /\ ~Inconsistent(frames) /\ readings # Null
           /\ DetermineFrameRootCause(Topology(frames, href), failureHref, Null, readings) =
                 DecideFromProbe(Topology(frames, href), readings)
<1> DEFINE t == Topology(frames, href)
<1>1. t.inconsistent = Inconsistent(frames)
  BY DEF Topology
<1> HIDE DEF t
<1> QED
  BY <1>1 DEF DetermineFrameRootCause, Determined, t

\* A confirmation by true readings: of the listed frames one holds the selector, and it, or
\* a nested frame instead of a nested one, is named.
LEMMA ProbeConfirms ==
    ASSUME NEW frames \in Seq(FrameType), NEW href, NEW readings \in Seq(Reads),
           DOMAIN readings \subseteq DOMAIN FrameCandidates(frames),
           \A k \in DOMAIN readings :
              /\ readings[k] = "hit"  => frames[FrameCandidates(frames)[k]].holds
              /\ readings[k] = "miss" => ~frames[FrameCandidates(frames)[k]].holds,
           NEW verdict, verdict = DecideFromProbe(Topology(frames, href), readings),
           verdict.value = "confirmed"
    PROVE  \E c \in Listed(frames) :
              /\ frames[c].holds
              /\ \A i \in Listed(frames) : frames[i].holds => i = c
              /\ \/ verdict.frame = c
                 \/ /\ frames[c].where = "nested"
                    /\ verdict.frame \in DOMAIN frames /\ frames[verdict.frame].where = "nested"
<1> DEFINE t     == Topology(frames, href)
           cands == FrameCandidates(frames)
           hits  == {k \in DOMAIN readings : readings[k] = "hit"}
           blocked == {k \in DOMAIN cands : k > Len(readings) \/ readings[k] \in {"unprobed", "unanswered"}}
<1>1. t.candidates = cands /\ t.topLevel = {i \in DOMAIN frames : frames[i].where = "dom"}
  BY DEF Topology
<1>2. /\ ~(Cardinality(hits) > 1) /\ hits # {} /\ blocked = {}
      /\ verdict = ConfirmedAt(Named(t, cands[CHOOSE k \in hits : TRUE]))
  <2> HIDE DEF t
  <2> QED
    BY <1>1 DEF DecideFromProbe, Determined, t
<1>3. PICK h : hits = {h}
  <2>1. hits \in SUBSET (1 .. Len(readings)) /\ Len(readings) \in Nat
    OBVIOUS
  <2> HIDE DEF hits
  <2>2. IsFiniteSet(hits) /\ Cardinality(hits) \in Nat
    BY <2>1, PositionsFinite
  <2>3. Cardinality(hits) # 0
    BY <1>2, <2>2, FS_EmptySet
  <2>4. Cardinality(hits) = 1
    BY <1>2, <2>2, <2>3
  <2> QED
    BY <2>2, <2>4, FS_Singleton
<1>4. h \in DOMAIN readings /\ readings[h] = "hit" /\ (CHOOSE k \in hits : TRUE) = h
  BY <1>3
<1>5. cands \in Seq(Listed(frames)) /\ Listed(frames) \subseteq DOMAIN frames
  BY CandidatesListed DEF Listed, Unreached
<1> DEFINE c == cands[h]
<1>6. c \in Listed(frames) /\ frames[c].holds
  BY <1>4, <1>5
<1>7. ASSUME NEW i \in Listed(frames), frames[i].holds PROVE i = c
  <2>1. PICK k \in DOMAIN cands : cands[k] = i
    BY CandidatesListed
  <2>2. k \in Nat /\ k >= 1 /\ k <= Len(readings) /\ readings[k] \notin {"unprobed", "unanswered"}
    BY <1>2, <1>5
  <2>3. k \in DOMAIN readings /\ readings[k] \in Reads
    BY <2>2
  <2>4. readings[k] = "hit"
    BY <1>7, <2>1, <2>2, <2>3 DEF Reads
  <2> QED
    BY <1>3, <2>1, <2>3, <2>4
<1>8. frames[c].where \in {"dom", "nested"}
  BY <1>6 DEF Listed, Unreached
<1>9. verdict.frame = Named(t, c)
  <2>1. verdict.frame = Named(t, cands[CHOOSE k \in hits : TRUE])
    <3> HIDE DEF t, cands, hits
    <3> QED
      BY <1>2 DEF ConfirmedAt
  <2>2. cands[CHOOSE k \in hits : TRUE] = c
    BY <1>4
  <2> HIDE DEF t, cands, hits, c
  <2> QED
    BY <2>1, <2>2
<1>10. CASE frames[c].where = "dom"
  <2>1. c \in t.topLevel
    BY <1>1, <1>5, <1>6, <1>10
  <2>2. Named(t, c) = c
    BY <2>1 DEF Named
  <2> QED
    BY <1>6, <1>7, <1>9, <2>2
<1>11. CASE frames[c].where = "nested"
  <2> DEFINE nested == {k \in DOMAIN cands : cands[k] \notin t.topLevel}
  <2>1. h \in nested /\ nested \in SUBSET (1 .. Len(cands)) /\ Len(cands) \in Nat
    BY <1>1, <1>4, <1>5, <1>11
  <2>2. PICK f \in nested : \A l \in nested : f <= l
    <3> HIDE DEF nested
    <3> QED
      BY <2>1, Least
  <2> DEFINE first == CHOOSE k \in DOMAIN t.candidates :
                        /\ t.candidates[k] \notin t.topLevel
                        /\ \A l \in DOMAIN t.candidates : t.candidates[l] \notin t.topLevel => k <= l
  <2>3. first \in DOMAIN cands /\ cands[first] \notin t.topLevel
    BY <1>1, <2>2
  <2>4. c \notin t.topLevel
    BY <1>1, <1>11
  <2>5. Named(t, c) = cands[first]
    BY <1>1, <2>4 DEF Named
  <2>6. cands[first] \in Listed(frames)
    BY <1>5, <2>3
  <2>7. cands[first] \in DOMAIN frames /\ frames[cands[first]].where = "nested"
    BY <1>1, <1>5, <2>3, <2>6 DEF Listed, Unreached
  <2> QED
    BY <1>6, <1>7, <1>9, <1>11, <2>5, <2>7
<1> QED
  BY <1>8, <1>10, <1>11

-----------------------------------------------------------------------------
(* The invariant.                                                           *)

Probes  == {"state", "dom", "links"}
Where   == {"none", "open", "gate", "probe", "diagnose", "probing", "switching", "close"}
Entry   == [url : Urls, depth : Nat]
Result  == [url : Urls, depth : Nat, required : SUBSET Probes, ok : SUBSET Probes]

RunType == [phase : {"running", "refused", "verified", "partial"}, queue : Seq(Entry),
            scheduled : SUBSET Urls, results : Seq(Result)]
TabType == [at : Where, url : Urls \cup {Null}, depth : Nat, page : Urls \cup {"away", Null},
            href : Urls \cup {"away", Null}, todo : Seq(Probes), ok : SUBSET Probes,
            links : SUBSET Urls, attempt : Nat, result : Result \cup {Null},
            lost : BOOLEAN, closed : BOOLEAN, moves : Nat, moved : SUBSET Where]

Topologies == {Topology(frames, href) : frames \in Seq(FrameType), href \in Urls \cup {"away", Null}}
Grounds    == [topology : Topologies \cup {Null}, href : Urls \cup {"away", Null},
               hint : (SUBSET Nat) \cup {Null}, readings : Seq(Reads) \cup {Null}]
Verdicts   == {DetermineFrameRootCause(g.topology, g.href, g.hint, g.readings) : g \in Grounds}

DiagType == [frames : Seq(FrameType), held : BOOLEAN, topology : Topologies \cup {Null},
             hint : (SUBSET Nat) \cup {Null}, readings : Seq(Reads) \cup {Null},
             stopped : BOOLEAN, foreign : BOOLEAN, verdict : Verdicts \cup {Null}]
BrowserType == [open : Int, noted : Int, answered : SUBSET (Urls \X Probes)]

ExploreTypeOK ==
  /\ opts \in OptionType
  /\ run \in RunType /\ tab \in TabType /\ diag \in DiagType /\ browser \in BrowserType

InHand == tab.at # "none"

\* Every URL a run r scheduled is in one place: a result, the page in hand, the queue.
PlacedIn(r, held) ==
  /\ \A j, k \in DOMAIN r.results : r.results[j].url = r.results[k].url => j = k
  /\ \A j, k \in DOMAIN r.queue : r.queue[j].url = r.queue[k].url => j = k
  /\ \A j \in DOMAIN r.results, k \in DOMAIN r.queue : r.results[j].url # r.queue[k].url
  /\ \A j \in DOMAIN r.results : r.results[j].url \notin held
  /\ \A k \in DOMAIN r.queue : r.queue[k].url \notin held
  /\ r.scheduled = {r.results[j].url : j \in DOMAIN r.results}
                     \cup {r.queue[k].url : k \in DOMAIN r.queue} \cup held

Placed == PlacedIn(run, IF InHand THEN {tab.url} ELSE {})

\* The page limit counts what is queued and what is in hand.
Size(r) == Len(r.results) + Len(r.queue)

Limited == Size(run) <= MaxPages /\ (InHand => Size(run) < MaxPages)

ResultOK(r) ==
  /\ r.required = ProbeKinds(r.depth) /\ r.ok \subseteq r.required
  /\ {r.url} \X r.ok \subseteq browser.answered

RunInv ==
  /\ InHand => run.phase = "running"
  /\ \A k \in DOMAIN run.results : ResultOK(run.results[k])
  /\ run.phase # "refused" => Placed /\ Limited
  /\ run.phase = "verified" =>
       run.queue = <<>> /\ \A k \in DOMAIN run.results : run.results[k].ok = run.results[k].required

TabInv ==
  /\ InHand => tab.url \in Urls
  /\ \A k \in DOMAIN tab.todo : tab.todo[k] \in ProbeKinds(tab.depth)
  /\ tab.ok \subseteq ProbeKinds(tab.depth)
  /\ {tab.url} \X tab.ok \subseteq browser.answered
  /\ tab.result # Null =>
       tab.result.url = tab.url /\ tab.result.depth = tab.depth /\ ResultOK(tab.result)
  /\ tab.closed => diag.stopped /\ tab.at \in {"switching", "close"}

TabsInv ==
  browser.open <= browser.noted + (IF tab.at \in {"none", "open"} \/ tab.closed THEN 0 ELSE 1)

\* The topology of a diagnosis d is the one of the frames it lists.
FramesListed(d) == d.topology = Topology(d.frames, d.topology.href)

\* What was read of the candidates is true of the frames that were listed.
ReadingsTrue(d) ==
  \A k \in DOMAIN d.readings :
    /\ d.readings[k] = "hit"  => d.frames[d.topology.candidates[k]].holds
    /\ d.readings[k] = "miss" => ~d.frames[d.topology.candidates[k]].holds

\* Readings are of the candidates, and true as long as the page stands still and its own
\* tab is read.
ReadingsFit(d, elsewhere) ==
  /\ FramesListed(d) /\ DOMAIN d.readings \subseteq DOMAIN d.topology.candidates
  /\ tab.moved \cap {"probing", "switching"} # {} \/ ReadingsTrue(d) \/ elsewhere

DiagInv ==
  /\ tab.at \in {"none", "open", "gate", "probe"} => diag = NoDiag
  /\ "diagnose" \notin tab.moved => (diag.held <=> Holders # {})
  /\ diag.topology # Null => FramesListed(diag)
  /\ tab.at = "diagnose" => diag.topology = Null /\ diag.readings = Null /\ diag.hint = Null
  /\ tab.at \in {"probing", "switching"} => FramesListed(diag) /\ diag.hint = Null
  /\ tab.at = "probing" => diag.readings = Null
  /\ tab.at = "switching" => diag.readings \in Seq(Reads) /\ ReadingsFit(diag, FALSE)
  /\ tab.at = "close" /\ diag.readings # Null =>
       ReadingsFit(diag, diag.foreign /\ tab.page # tab.url)
  /\ tab.at # "close" => diag.verdict = Null
  /\ diag.verdict # Null =>
       diag.verdict = DetermineFrameRootCause(diag.topology, tab.href, diag.hint, diag.readings)

ExploreInv == ExploreTypeOK /\ RunInv /\ TabInv /\ TabsInv /\ DiagInv

-----------------------------------------------------------------------------
(* The types.                                                               *)

LEMMA ProbeKindsOf ==
    ASSUME NEW depth
    PROVE  ProbeOrder(depth) \in Seq(Probes) /\ ProbeKinds(depth) \subseteq Probes
<1>1. <<"state", "dom", "links">> \in Seq(Probes) /\ <<"state", "dom">> \in Seq(Probes)
  BY DEF Probes
<1>2. ProbeOrder(depth) \in Seq(Probes)
  BY <1>1 DEF ProbeOrder
<1>3. \A k \in DOMAIN ProbeOrder(depth) : ProbeOrder(depth)[k] \in Probes
  BY <1>2
<1> QED
  BY <1>2, <1>3 DEF ProbeKinds

LEMMA FailedIsResult ==
    ASSUME NEW url \in Urls, NEW depth \in Nat
    PROVE  FailedPage(url, depth) \in Result
BY ProbeKindsOf DEF FailedPage, Result

LEMMA OrderType ==
    ASSUME ExploreTypeOK, NEW r \in RunType, NEW added \in SUBSET Urls, NEW order \in Orders(added)
    PROVE  /\ Cardinality(added) \in Nat /\ order \in Seq(added) /\ Len(order) = Cardinality(added)
           /\ Scheduled(r, order) \in RunType
<1>1. Cardinality(added) \in Nat
  BY ExploreAssumption, FS_Subset, FS_CardinalityType
<1>2. order \in [1 .. Cardinality(added) -> added]
  BY DEF Orders
<1>3. order \in Seq(added) /\ Len(order) = Cardinality(added)
  BY <1>1, <1>2
<1>4. [i \in DOMAIN order |-> [url |-> order[i], depth |-> tab.depth + 1]] \in Seq(Entry)
  <2>1. tab.depth \in Nat
    BY DEF ExploreTypeOK, TabType
  <2>2. [i \in 1 .. Len(order) |-> [url |-> order[i], depth |-> tab.depth + 1]]
          \in [1 .. Len(order) -> Entry]
    BY <1>2, <1>3, <2>1 DEF Entry
  <2> QED
    BY <1>3, <2>2
<1>5. {order[i] : i \in DOMAIN order} \subseteq Urls
  BY <1>3
<1> DEFINE more == [i \in DOMAIN order |-> [url |-> order[i], depth |-> tab.depth + 1]]
           urls == {order[i] : i \in DOMAIN order}
<1>6. r.queue \o more \in Seq(Entry) /\ r.scheduled \cup urls \in SUBSET Urls
  BY <1>4, <1>5 DEF RunType
<1>7. Scheduled(r, order) = [r EXCEPT !.scheduled = @ \cup urls, !.queue = @ \o more]
  BY DEF Scheduled
<1> HIDE DEF more, urls
<1>8. Scheduled(r, order) \in RunType
  BY <1>6, <1>7 DEF RunType
<1> QED
  BY <1>1, <1>3, <1>8

LEMMA Numbers == Depth \in Nat /\ MaxPages \in Nat /\ MaxPages <= 66
BY ExploreAssumption

LEMMA PlacesOfTab == {"none", "open", "gate", "probe", "diagnose", "probing", "switching", "close"} \subseteq Where
BY DEF Where

LEMMA ExploreTypeInit == ExploreInit => ExploreTypeOK
<1> SUFFICES ASSUME ExploreInit PROVE ExploreTypeOK
  OBVIOUS
<1>1. <<[url |-> Seed, depth |-> 1]>> \in Seq(Entry)
  BY ExploreAssumption DEF Entry
<1>2. run \in RunType
  BY <1>1, ExploreAssumption DEF ExploreInit, RunType
<1>3. tab \in TabType
  BY DEF ExploreInit, TabType, NoTab, Where
<1>4. diag \in DiagType
  BY DEF ExploreInit, DiagType, NoDiag
<1>5. browser \in BrowserType /\ opts \in OptionType
  BY OptionsAssumption DEF ExploreInit, BrowserType
<1> QED
  BY <1>2, <1>3, <1>4, <1>5 DEF ExploreTypeOK

\* What a diagnosis concludes with.
LEMMA ConcludeType ==
    ASSUME ExploreTypeOK, tab.url \in Urls, NEW d \in DiagType, Conclude(d)
    PROVE  tab' \in TabType /\ diag' \in DiagType
<1>1. tab.href \in Urls \cup {"away", Null} /\ tab.depth \in Nat
  BY DEF ExploreTypeOK, TabType
<1>2. /\ d.topology \in Topologies \cup {Null} /\ d.hint \in (SUBSET Nat) \cup {Null}
      /\ d.readings \in Seq(Reads) \cup {Null}
  BY DEF DiagType
<1>3. DetermineFrameRootCause(d.topology, tab.href, d.hint, d.readings) \in Verdicts
  <2> DEFINE g == [topology |-> d.topology, href |-> tab.href, hint |-> d.hint, readings |-> d.readings]
  <2>1. g \in Grounds
    BY <1>1, <1>2 DEF Grounds
  <2>2. DetermineFrameRootCause(g.topology, g.href, g.hint, g.readings) \in Verdicts
    <3> HIDE DEF g
    <3> QED
      BY <2>1 DEF Verdicts
  <2> QED
    BY <2>2
<1>4. FailedPage(tab.url, tab.depth) \in Result
  BY <1>1, FailedIsResult
<1>5. tab' \in TabType
  BY <1>4 DEF Conclude, Failed, ExploreTypeOK, TabType, Where
<1>6. diag' \in DiagType
  BY <1>3 DEF Conclude, DiagType
<1> QED
  BY <1>5, <1>6

LEMMA ThrownType ==
    ASSUME ExploreTypeOK, tab.url \in Urls
    PROVE  Thrown \in RunType
<1>1. FailedPage(tab.url, tab.depth) \in Result
  BY FailedIsResult DEF ExploreTypeOK, TabType
<1>2. run \in RunType
  BY DEF ExploreTypeOK
<1>3. run.results \in Seq(Result)
  BY <1>2 DEF RunType
<1>4. Append(run.results, FailedPage(tab.url, tab.depth)) \in Seq(Result)
  BY <1>1, <1>3
<1> HIDE DEF RunType
<1>5. [run EXCEPT !.phase = "refused"] \in RunType
  BY <1>2 DEF RunType
<1>6. \A s \in Seq(Result) : [run EXCEPT !.results = s] \in RunType
  BY <1>2 DEF RunType
<1> QED
  BY <1>4, <1>5, <1>6 DEF Thrown

LEMMA LeaveType ==
    ASSUME NEW r \in RunType, Leave(r)
    PROVE  run' \in RunType /\ tab' \in TabType /\ diag' \in DiagType
BY DEF Leave, NoTab, NoDiag, TabType, DiagType, Where

LEMMA ListedType ==
    ASSUME ExploreTypeOK, FramesListed(diag)
    PROVE  /\ diag.topology.candidates = FrameCandidates(diag.frames)
           /\ diag.topology.candidates \in Seq(Nat)
           /\ Listed(diag.frames) \subseteq DOMAIN diag.frames
<1>1. diag.frames \in Seq(FrameType)
  BY DEF ExploreTypeOK, DiagType
<1>2. diag.topology.candidates = FrameCandidates(diag.frames)
  <2>1. Topology(diag.frames, diag.topology.href).candidates = FrameCandidates(diag.frames)
    BY DEF Topology
  <2> QED
    BY <2>1 DEF FramesListed
<1>3. Listed(diag.frames) \subseteq DOMAIN diag.frames
  BY DEF Listed, Unreached
<1>4. FrameCandidates(diag.frames) \in Seq(Listed(diag.frames))
  BY <1>1, CandidatesListed
<1>5. DOMAIN diag.frames \subseteq Nat
  BY <1>1
<1> QED
  BY <1>2, <1>3, <1>4, <1>5

LEMMA TookType ==
    ASSUME diag \in DiagType, diag.readings \in Seq(Reads), NEW reading \in Reads, Took(reading)
    PROVE  diag' \in DiagType
<1>1. Append(diag.readings, reading) \in Seq(Reads)
  OBVIOUS
<1>2. \A readings \in Seq(Reads) : [diag EXCEPT !.readings = readings] \in DiagType
  BY DEF DiagType
<1> QED
  BY <1>1, <1>2 DEF Took

LEMMA TopologyOf ==
    ASSUME NEW frames \in Seq(FrameType), NEW href \in Urls \cup {"away", Null}
    PROVE  Topology(frames, href) \in Topologies
BY DEF Topologies

\* What a diagnosis concludes from: its topology, what a hint matched, what was read.
LEMMA TopologyType ==
    ASSUME ExploreTypeOK,
           NEW read, read = [diag EXCEPT !.topology = Topology(diag.frames, tab.page)]
    PROVE  /\ read \in DiagType
           /\ \A matched \in SUBSET DOMAIN diag.frames : [read EXCEPT !.hint = matched] \in DiagType
<1>1. diag \in DiagType
  BY DEF ExploreTypeOK
<1>2. Topology(diag.frames, tab.page) \in Topologies
  <2>1. diag.frames \in Seq(FrameType)
    BY <1>1 DEF DiagType
  <2>2. tab.page \in Urls \cup {"away", Null}
    BY DEF ExploreTypeOK, TabType
  <2> QED
    BY <2>1, <2>2, TopologyOf
<1>3. read \in DiagType
  <2> HIDE DEF Topologies
  <2> QED
    BY <1>1, <1>2 DEF DiagType
<1>4. \A matched \in SUBSET DOMAIN diag.frames : matched \in SUBSET Nat
  <2>1. diag.frames \in Seq(FrameType)
    BY <1>1 DEF DiagType
  <2> QED
    BY <2>1
<1>5. \A matched \in SUBSET Nat : [read EXCEPT !.hint = matched] \in DiagType
  BY <1>3 DEF DiagType
<1> QED
  BY <1>3, <1>4, <1>5

LEMMA CdpReadingsType ==
    ASSUME ExploreTypeOK, FramesListed(diag),
           NEW readings \in [DOMAIN diag.topology.candidates -> {"hit", "miss", "unanswered"}],
           NEW foreign \in BOOLEAN
    PROVE  [diag EXCEPT !.readings = readings, !.foreign = foreign] \in DiagType
<1>1. diag.topology.candidates \in Seq(Nat)
  BY ListedType
<1>2. readings \in Seq(Reads)
  BY <1>1 DEF Reads
<1> QED
  BY <1>2 DEF ExploreTypeOK, DiagType

LEMMA ExploreTypeNext ==
    ASSUME ExploreTypeOK, InHand => tab.url \in Urls, DiagInv, [ExploreNext]_vars
    PROVE  ExploreTypeOK'
<1> USE DEF ExploreTypeOK
<1>1. CASE NextPage
  <2>1. Head(run.queue) \in Entry /\ Tail(run.queue) \in Seq(Entry)
    BY <1>1 DEF NextPage, RunType
  <2>2. tab' \in TabType
    <3>1. Head(run.queue).url \in Urls /\ Head(run.queue).depth \in Nat
      BY <2>1 DEF Entry
    <3>2. NoTab \in TabType
      BY PlacesOfTab DEF NoTab, TabType
    <3>3. \A url \in Urls, depth \in Nat :
             [NoTab EXCEPT !.at = "open", !.url = url, !.depth = depth] \in TabType
      BY <3>2, PlacesOfTab DEF TabType
    <3> QED
      BY <1>1, <3>1, <3>3 DEF NextPage
  <2>3. run' \in RunType
    BY <1>1, <2>1 DEF NextPage, RunType
  <2> QED
    BY <1>1, <2>2, <2>3 DEF NextPage
<1>2. CASE ReportRun
  <2>1. run' \in RunType
    BY <1>2 DEF ReportRun, RunType
  <2> QED
    BY <1>2, <2>1 DEF ReportRun
<1>3. CASE OpenTab
  <2>1. tab' \in TabType
    <3>1. PICK doc \in Docs : tab' = [tab EXCEPT !.at = "gate", !.page = doc]
      BY <1>3 DEF OpenTab
    <3>2. doc \in Urls \cup {"away", Null}
      BY <1>3, <3>1 DEF Docs, OpenTab, InHand
    <3> QED
      BY <3>1, <3>2, PlacesOfTab DEF TabType
  <2>2. browser' \in BrowserType
    BY <1>3 DEF OpenTab, BrowserType
  <2> QED
    BY <1>3, <2>1, <2>2 DEF OpenTab
<1>4. CASE OpenFails
  <2>1. run' \in RunType /\ tab' \in TabType /\ diag' \in DiagType
    BY <1>4, ThrownType, LeaveType DEF OpenFails, InHand
  <2>2. browser' \in BrowserType
    <3>1. PICK opened \in {0, 1} :
             browser' = [browser EXCEPT !.open = @ + opened, !.noted = @ + opened]
      BY <1>4 DEF OpenFails
    <3>2. browser.open + opened \in Int /\ browser.noted + opened \in Int
      BY DEF BrowserType
    <3>3. \A open, noted \in Int : [browser EXCEPT !.open = open, !.noted = noted] \in BrowserType
      BY DEF BrowserType
    <3> QED
      BY <3>1, <3>2, <3>3
  <2> QED
    BY <1>4, <2>1, <2>2 DEF OpenFails
<1>5. CASE GateSettles
  <2>1. ProbeOrder(tab.depth) \in Seq(Probes)
    BY ProbeKindsOf
  <2>2. tab' \in TabType
    <3>1. PICK known \in BOOLEAN :
             tab' = [tab EXCEPT !.at = "probe", !.todo = ProbeOrder(tab.depth),
                                !.href = IF known THEN tab.page ELSE Null]
      BY <1>5 DEF GateSettles
    <3>2. \A todo \in Seq(Probes), href \in Urls \cup {"away", Null} :
             [tab EXCEPT !.at = "probe", !.todo = todo, !.href = href] \in TabType
      BY PlacesOfTab DEF TabType
    <3>3. (IF known THEN tab.page ELSE Null) \in Urls \cup {"away", Null}
      BY DEF TabType
    <3> QED
      BY <2>1, <3>1, <3>2, <3>3
  <2> QED
    BY <1>5, <2>2 DEF GateSettles
<1>6. CASE GateRefuses
  <2>1. FailedPage(tab.url, tab.depth) \in Result
    BY <1>6, FailedIsResult DEF GateRefuses, InHand, TabType
  <2>2. tab' \in TabType
    <3>1. Failed \in TabType
      BY <2>1, PlacesOfTab DEF Failed, TabType
    <3>2. \A href \in Urls \cup {"away", Null} : [tab EXCEPT !.at = "diagnose", !.href = href] \in TabType
      BY PlacesOfTab DEF TabType
    <3>3. \A known \in BOOLEAN : (IF known THEN tab.page ELSE Null) \in Urls \cup {"away", Null}
      BY DEF TabType
    <3>4. CASE tab' = Failed
      BY <3>1, <3>4
    <3>5. CASE tab' # Failed
      <4>1. PICK known \in BOOLEAN :
               tab' = [tab EXCEPT !.at = "diagnose", !.href = IF known THEN tab.page ELSE Null]
        BY <1>6, <3>5 DEF GateRefuses
      <4> QED
        BY <3>2, <3>3, <4>1
    <3> QED
      BY <3>4, <3>5
  <2>3. diag' \in DiagType
    BY <1>6, PagesAssumption DEF GateRefuses, NoDiag, DiagType
  <2> QED
    BY <1>6, <2>2, <2>3 DEF GateRefuses
<1>7. CASE ProbeVerified
  <2>1. Head(tab.todo) \in Probes /\ Tail(tab.todo) \in Seq(Probes)
    BY <1>7 DEF ProbeVerified, TabType
  <2>2. tab' \in TabType
    <3>1. PICK found \in LinksFound(Head(tab.todo)) :
             tab' = Probed([tab EXCEPT !.ok = @ \cup {Head(tab.todo)}, !.links = @ \cup found])
      BY <1>7 DEF ProbeVerified
    <3>2. found \in SUBSET Urls
      BY DEF LinksFound
    <3>3. \A ok \in SUBSET Probes, links \in SUBSET Urls, todo \in Seq(Probes) :
             [tab EXCEPT !.ok = ok, !.links = links, !.todo = todo, !.attempt = 1] \in TabType
      BY DEF TabType
    <3>4. tab.ok \cup {Head(tab.todo)} \in SUBSET Probes /\ tab.links \cup found \in SUBSET Urls
      BY <2>1, <3>2 DEF TabType
    <3>5. tab' = [tab EXCEPT !.ok = tab.ok \cup {Head(tab.todo)}, !.links = tab.links \cup found,
                             !.todo = Tail(tab.todo), !.attempt = 1]
      BY <3>1 DEF Probed, TabType
    <3> QED
      BY <2>1, <3>3, <3>4, <3>5
  <2>3. browser' \in BrowserType
    BY <1>7, <2>1 DEF ProbeVerified, BrowserType, InHand
  <2> QED
    BY <1>7, <2>2, <2>3 DEF ProbeVerified
<1>8. CASE ProbeFails
  <2>1. Tail(tab.todo) \in Seq(Probes)
    BY <1>8 DEF ProbeFails, TabType
  <2>2. tab' \in TabType
    <3>1. \A todo \in Seq(Probes) : [tab EXCEPT !.todo = todo, !.attempt = 1] \in TabType
      BY DEF TabType
    <3>2. [tab EXCEPT !.attempt = @ + 1] \in TabType
      BY DEF TabType
    <3> QED
      BY <1>8, <2>1, <3>1, <3>2 DEF ProbeFails, Probed
  <2> QED
    BY <1>8, <2>2 DEF ProbeFails
<1>9. CASE Observe
  <2>1. FailedPage(tab.url, tab.depth) \in Result
    BY <1>9, FailedIsResult DEF Observe, InHand, TabType
  <2>2. Explored \in Result
    BY <1>9, ProbeKindsOf DEF Observe, InHand, TabType, Explored, Result
  <2>3. tab' \in TabType
    <3>1. Failed \in TabType
      BY <2>1, PlacesOfTab DEF Failed, TabType
    <3>2. \A r \in Result : [tab EXCEPT !.at = "close", !.result = r] \in TabType
      BY PlacesOfTab DEF TabType
    <3> QED
      BY <1>9, <2>2, <3>1, <3>2 DEF Observe
  <2> QED
    BY <1>9, <2>3 DEF Observe
<1>10. CASE ClosePage
  <2>1. browser' \in BrowserType
    BY <1>10 DEF ClosePage, CloseTab, BrowserType
  <2>2. run' \in RunType /\ tab' \in TabType /\ diag' \in DiagType
    <3>1. CASE Leave(Thrown)
      BY <1>10, <3>1, ThrownType, LeaveType DEF ClosePage, InHand
    <3>2. CASE tab.result # Null
      <4> DEFINE done == [run EXCEPT !.results = Append(@, tab.result)]
      <4>1. tab.result \in Result /\ tab.links \in SUBSET Urls
        BY <3>2 DEF TabType
      <4>2. Append(run.results, tab.result) \in Seq(Result)
        BY <4>1 DEF RunType
      <4>3. done \in RunType
        BY <4>2 DEF RunType
      <4> HIDE DEF done
      <4>4. ASSUME NEW added \in (IF tab.depth < Depth THEN Schedulable(done, tab.links) ELSE {{}}),
                   NEW order \in Orders(added), Leave(Scheduled(done, order))
            PROVE  run' \in RunType /\ tab' \in TabType /\ diag' \in DiagType
        <5>1. added \in SUBSET Urls
          BY <4>1 DEF Schedulable
        <5>2. Scheduled(done, order) \in RunType
          BY <4>3, <5>1, OrderType
        <5> QED
          BY <4>4, <5>2, LeaveType
      <4>5. CASE Leave(Thrown)
        BY <4>5, <3>1
      <4> QED
        BY <1>10, <4>4, <4>5 DEF ClosePage, done
    <3> QED
      BY <1>10, <3>1, <3>2 DEF ClosePage
  <2> QED
    BY <1>10, <2>1, <2>2 DEF ClosePage
<1>11. CASE Diagnose
  <2> DEFINE read == [diag EXCEPT !.topology = Topology(diag.frames, tab.page)]
  <2>1. diag \in DiagType /\ tab.url \in Urls
    BY <1>11 DEF Diagnose, InHand
  <2>2. read \in DiagType
    BY TopologyType
  <2>3. \A matched \in SUBSET DOMAIN diag.frames : [read EXCEPT !.hint = matched] \in DiagType
    BY TopologyType
  <2>4. tab' \in TabType /\ diag' \in DiagType
    <3>1. CASE Conclude(diag)
      BY <2>1, <3>1, ConcludeType
    <3>2. ASSUME NEW matched \in SUBSET DOMAIN diag.frames, Conclude([read EXCEPT !.hint = matched])
          PROVE  tab' \in TabType /\ diag' \in DiagType
      BY <2>1, <2>3, <3>2, ConcludeType
    <3>3. CASE Conclude(read)
      BY <2>1, <2>2, <3>3, ConcludeType
    <3>4. CASE diag' = read /\ Goto("probing")
      BY <2>2, <3>4 DEF Goto, TabType, Where
    <3> QED
      BY <1>11, <3>1, <3>2, <3>3, <3>4 DEF Diagnose
  <2> QED
    BY <1>11, <2>4 DEF Diagnose
<1>12. CASE DiagnoseThrows
  BY <1>12 DEF DiagnoseThrows, TabType, Where
<1>13. CASE ProbeOverCdp
  <2>1. FramesListed(diag) /\ tab.url \in Urls
    BY <1>13 DEF ProbeOverCdp, DiagInv, InHand
  <2>2. ASSUME NEW readings \in [DOMAIN diag.topology.candidates -> {"hit", "miss", "unanswered"}],
               NEW foreign \in BOOLEAN,
               Conclude([diag EXCEPT !.readings = readings, !.foreign = foreign])
        PROVE  tab' \in TabType /\ diag' \in DiagType
    BY <2>1, <2>2, CdpReadingsType, ConcludeType
  <2> QED
    BY <1>13, <2>2 DEF ProbeOverCdp
<1>14. CASE CdpFails
  <2>1. tab' \in TabType
    BY <1>14 DEF CdpFails, Goto, TabType, Where
  <2>2. diag' \in DiagType
    <3>1. \A readings \in Seq(Reads) : [diag EXCEPT !.readings = readings] \in DiagType
      BY DEF DiagType
    <3>2. <<>> \in Seq(Reads)
      OBVIOUS
    <3> QED
      BY <1>14, <3>1, <3>2 DEF CdpFails
  <2> QED
    BY <1>14, <2>1, <2>2 DEF CdpFails
<1>15. CASE SkipCandidate
  <2>1. diag' \in DiagType
    BY <1>15, TookType DEF SkipCandidate, DiagInv, Reads
  <2> QED
    BY <1>15, <2>1 DEF SkipCandidate
<1>16. CASE SwitchInto
  <2>1. diag' \in DiagType
    BY <1>16, TookType DEF SwitchInto, DiagInv, Readings, Reads
  <2> QED
    BY <1>16, <2>1 DEF SwitchInto
<1>17. CASE Unrestored
  <2>1. diag' \in DiagType
    <3>1. Append(diag.readings, "unanswered") \in Seq(Reads)
      BY <1>17 DEF Unrestored, DiagInv, Reads
    <3>2. \A readings \in Seq(Reads) : [diag EXCEPT !.readings = readings, !.stopped = TRUE] \in DiagType
      BY DEF DiagType
    <3> QED
      BY <1>17, <3>1, <3>2 DEF Unrestored
  <2>2. tab' \in TabType
    BY <1>17 DEF Unrestored, TabType
  <2>3. browser' \in BrowserType
    BY <1>17 DEF Unrestored, CloseTab, BrowserType
  <2> QED
    BY <1>17, <2>1, <2>2, <2>3 DEF Unrestored
<1>18. CASE AllProbed
  <2>1. tab' \in TabType /\ diag' \in DiagType
    BY <1>18, ConcludeType DEF AllProbed, InHand
  <2> QED
    BY <1>18, <2>1 DEF AllProbed
<1>19. CASE PageMoves
  <2>1. tab' \in TabType
    <3>1. PICK doc \in Docs :
             tab' = [tab EXCEPT !.page = doc, !.moves = @ + 1, !.moved = @ \cup {tab.at}]
      BY <1>19 DEF PageMoves
    <3>2. doc \in Urls \cup {"away", Null}
      BY <1>19, <3>1 DEF Docs, PageMoves, Reading, InHand
    <3>3. tab.moved \cup {tab.at} \in SUBSET Where /\ tab.moves + 1 \in Nat
      BY DEF TabType
    <3>4. \A shown \in Urls \cup {"away", Null}, moves \in Nat, moved \in SUBSET Where :
             [tab EXCEPT !.page = shown, !.moves = moves, !.moved = moved] \in TabType
      BY DEF TabType
    <3> QED
      BY <3>1, <3>2, <3>3, <3>4
  <2>2. diag' \in DiagType
    BY <1>19, PagesAssumption DEF PageMoves, DiagType
  <2> QED
    BY <1>19, <2>1, <2>2 DEF PageMoves
<1>20. CASE SurfLost
  <2>1. tab' \in TabType
    BY <1>20 DEF SurfLost, TabType
  <2> QED
    BY <1>20, <2>1 DEF SurfLost
<1>21. CASE UNCHANGED vars
  BY <1>21 DEF vars
<1> QED
  BY <1>1, <1>2, <1>3, <1>4, <1>5, <1>6, <1>7, <1>8, <1>9, <1>10, <1>11, <1>12, <1>13, <1>14,
     <1>15, <1>16, <1>17, <1>18, <1>19, <1>20, <1>21 DEF ExploreNext, Ended

-----------------------------------------------------------------------------
(* The queue, the results and the page limit.                               *)

\* The steps of a page in hand, from the tab that is opened to the result.
Visits ==
  \/ OpenTab \/ GateSettles \/ GateRefuses \/ ProbeVerified \/ ProbeFails \/ Observe
  \/ Diagnose \/ DiagnoseThrows \/ ProbeOverCdp \/ CdpFails
  \/ SkipCandidate \/ SwitchInto \/ Unrestored \/ AllProbed \/ PageMoves \/ SurfLost

LEMMA VisitKeeps ==
    ASSUME ExploreTypeOK, Visits
    PROVE  /\ tab.at # "none" /\ tab'.url = tab.url /\ tab'.depth = tab.depth
           /\ tab'.at \notin {"none", "open"} /\ (Unrestored \/ tab'.closed = tab.closed)
           /\ run' = run /\ browser.answered \subseteq browser'.answered
<1>1. tab \in TabType /\ browser \in BrowserType
  BY DEF ExploreTypeOK
<1>2. CASE OpenTab
  BY <1>1, <1>2 DEF OpenTab, TabType, BrowserType
<1>3. CASE GateSettles
  BY <1>1, <1>3 DEF GateSettles, TabType
<1>4. CASE GateRefuses
  BY <1>1, <1>4 DEF GateRefuses, Failed, TabType
<1>5. CASE ProbeVerified
  BY <1>1, <1>5 DEF ProbeVerified, Probed, TabType, BrowserType
<1>6. CASE ProbeFails
  BY <1>1, <1>6 DEF ProbeFails, Probed, TabType
<1>7. CASE Observe
  BY <1>1, <1>7 DEF Observe, Failed, TabType
<1>8. CASE Diagnose
  BY <1>1, <1>8 DEF Diagnose, Conclude, Goto, Failed, TabType
<1>9. CASE DiagnoseThrows
  BY <1>1, <1>9 DEF DiagnoseThrows, TabType
<1>10. CASE ProbeOverCdp
  BY <1>1, <1>10 DEF ProbeOverCdp, Conclude, Failed, TabType
<1>11. CASE CdpFails
  BY <1>1, <1>11 DEF CdpFails, Goto, TabType
<1>12. CASE SkipCandidate \/ SwitchInto
  BY <1>1, <1>12 DEF SkipCandidate, SwitchInto
<1>13. CASE Unrestored
  BY <1>1, <1>13 DEF Unrestored, CloseTab, TabType, BrowserType
<1>14. CASE AllProbed
  BY <1>1, <1>14 DEF AllProbed, Conclude, Failed, TabType
<1>15. CASE PageMoves
  BY <1>1, <1>15 DEF PageMoves, Reading, TabType
<1>16. CASE SurfLost
  BY <1>1, <1>16 DEF SurfLost, Reading, TabType
<1> QED
  BY <1>2, <1>3, <1>4, <1>5, <1>6, <1>7, <1>8, <1>9, <1>10, <1>11, <1>12, <1>13, <1>14, <1>15, <1>16
     DEF Visits

LEMMA SizeType ==
    ASSUME NEW r \in RunType
    PROVE  /\ Size(r) \in Nat
           /\ Len(r.results) \in Nat /\ Len(r.results) <= Size(r)
           /\ Size(r) <= Len(r.results) => r.queue = <<>>
<1> DEFINE a == Len(r.results)
           b == Len(r.queue)
<1>1. a \in Nat /\ b \in Nat /\ Size(r) = a + b /\ (b = 0 => r.queue = <<>>)
  BY DEF RunType, Size
<1> HIDE DEF a, b
<1>2. Size(r) \in Nat /\ a <= Size(r) /\ (Size(r) <= a => b = 0)
  BY <1>1
<1> QED
  BY <1>1, <1>2 DEF a

\* The first entry of the queue becomes the page in hand.
LEMMA TakeKeepsPlaces ==
    ASSUME NEW r \in RunType, r.queue # <<>>, PlacedIn(r, {}),
           NEW s \in RunType, s = [r EXCEPT !.queue = Tail(@)]
    PROVE  PlacedIn(s, {Head(r.queue).url}) /\ Size(s) < Size(r)
<1>1. r.queue \in Seq(Entry) /\ r.results \in Seq(Result)
  BY DEF RunType
<1>2. s.results = r.results /\ s.scheduled = r.scheduled /\ s.queue = Tail(r.queue)
  BY DEF RunType
<1>3. /\ DOMAIN r.queue = 1 .. Len(r.queue) /\ Len(r.queue) \in Nat \ {0}
      /\ DOMAIN s.queue = 1 .. (Len(r.queue) - 1) /\ Len(s.queue) = Len(r.queue) - 1
      /\ \A k \in DOMAIN s.queue : k + 1 \in DOMAIN r.queue /\ s.queue[k] = r.queue[k + 1]
      /\ Head(r.queue) = r.queue[1] /\ 1 \in DOMAIN r.queue
  BY <1>1, <1>2
<1>4. \A j, k \in DOMAIN s.queue : s.queue[j].url = s.queue[k].url => j = k
  <2>1. ASSUME NEW j \in DOMAIN s.queue, NEW k \in DOMAIN s.queue, s.queue[j].url = s.queue[k].url
        PROVE  j = k
    <3>1. j + 1 = k + 1
      BY <1>3, <2>1 DEF PlacedIn
    <3> QED
      BY <1>3, <3>1
  <2> QED
    BY <2>1
<1>5. \A k \in DOMAIN s.queue : s.queue[k].url # Head(r.queue).url
  <2>1. ASSUME NEW k \in DOMAIN s.queue, s.queue[k].url = Head(r.queue).url  PROVE FALSE
    <3>1. k + 1 = 1
      BY <1>3, <2>1 DEF PlacedIn
    <3> QED
      BY <1>3, <3>1
  <2> QED
    BY <2>1
<1>6. {r.queue[k].url : k \in DOMAIN r.queue} =
        {s.queue[k].url : k \in DOMAIN s.queue} \cup {Head(r.queue).url}
  <2>1. ASSUME NEW k \in DOMAIN r.queue
        PROVE  r.queue[k] = Head(r.queue) \/ \E i \in DOMAIN s.queue : s.queue[i] = r.queue[k]
    <3>1. k = 1 \/ (k - 1 \in DOMAIN s.queue /\ (k - 1) + 1 = k)
      BY <1>3
    <3> QED
      BY <1>3, <3>1
  <2>2. ASSUME NEW k \in DOMAIN s.queue
        PROVE  \E i \in DOMAIN r.queue : r.queue[i] = s.queue[k]
    BY <1>3
  <2>3. \E i \in DOMAIN r.queue : r.queue[i] = Head(r.queue)
    BY <1>3
  <2> QED
    BY <2>1, <2>2, <2>3
<1>7. /\ \A j, k \in DOMAIN s.results : s.results[j].url = s.results[k].url => j = k
      /\ \A j \in DOMAIN s.results : s.results[j].url # Head(r.queue).url
      /\ \A j \in DOMAIN s.results, k \in DOMAIN s.queue : s.results[j].url # s.queue[k].url
  BY <1>2, <1>3 DEF PlacedIn
<1>8. s.scheduled = {s.results[j].url : j \in DOMAIN s.results}
                      \cup {s.queue[k].url : k \in DOMAIN s.queue} \cup {Head(r.queue).url}
  BY <1>2, <1>6 DEF PlacedIn
<1>9. Size(s) < Size(r)
  <2> DEFINE a == Len(r.results)
             b == Len(r.queue)
  <2>1. a \in Nat /\ b \in Nat
    BY <1>1
  <2>2. Size(r) = a + b
    BY DEF Size
  <2>3. Size(s) = a + (b - 1)
    BY <1>2, <1>3 DEF Size
  <2> HIDE DEF a, b
  <2> QED
    BY <2>1, <2>2, <2>3
<1> QED
  BY <1>3, <1>4, <1>5, <1>7, <1>8, <1>9 DEF PlacedIn

\* The page in hand becomes a result.
LEMMA ResultKeepsPlaces ==
    ASSUME NEW r \in RunType, NEW url, PlacedIn(r, {url}), NEW result \in Result, result.url = url,
           NEW s \in RunType, s = [r EXCEPT !.results = Append(@, result)]
    PROVE  PlacedIn(s, {}) /\ Size(s) = Size(r) + 1
<1>1. r.queue \in Seq(Entry) /\ r.results \in Seq(Result)
  BY DEF RunType
<1>2. s.queue = r.queue /\ s.scheduled = r.scheduled /\ s.results = Append(r.results, result)
  BY DEF RunType
<1> DEFINE n == Len(r.results)
<1>3. /\ n \in Nat /\ DOMAIN r.results = 1 .. n /\ DOMAIN s.results = 1 .. (n + 1)
      /\ Len(s.results) = n + 1 /\ s.results[n + 1] = result
      /\ \A k \in 1 .. n : s.results[k] = r.results[k]
  BY <1>1, <1>2
<1> HIDE DEF n
<1>4. \A k \in DOMAIN s.results : k \in DOMAIN r.results \/ k = n + 1
  BY <1>3
<1>5. \A j, k \in DOMAIN s.results : s.results[j].url = s.results[k].url => j = k
  BY <1>3, <1>4 DEF PlacedIn
<1>6. \A j \in DOMAIN s.results, k \in DOMAIN s.queue : s.results[j].url # s.queue[k].url
  BY <1>2, <1>3, <1>4 DEF PlacedIn
<1>7. {s.results[j].url : j \in DOMAIN s.results} = {r.results[j].url : j \in DOMAIN r.results} \cup {url}
  BY <1>3, <1>4
<1>8. PlacedIn(s, {})
  BY <1>2, <1>3, <1>5, <1>6, <1>7 DEF PlacedIn
<1>9. Size(s) = Size(r) + 1
  <2> DEFINE b == Len(r.queue)
  <2>1. b \in Nat /\ Size(r) = n + b /\ Size(s) = (n + 1) + b
    BY <1>1, <1>2, <1>3 DEF Size, n
  <2> HIDE DEF b
  <2> QED
    BY <1>3, <2>1
<1> QED
  BY <1>8, <1>9

\* The links of a page join the queue.
LEMMA LinksKeepPlaces ==
    ASSUME ExploreTypeOK, NEW r \in RunType, PlacedIn(r, {}), NEW added \in SUBSET (Urls \ r.scheduled),
           NEW order \in Orders(added)
    PROVE  /\ PlacedIn(Scheduled(r, order), {})
           /\ Scheduled(r, order).results = r.results
           /\ Size(Scheduled(r, order)) = Size(r) + Cardinality(added)
<1> DEFINE s    == Scheduled(r, order)
           more == [i \in DOMAIN order |-> [url |-> order[i], depth |-> tab.depth + 1]]
           n    == Len(r.queue)
           m    == Len(order)
<1>1. /\ order \in Seq(added) /\ m = Cardinality(added) /\ m \in Nat /\ s \in RunType
      /\ \A i, j \in DOMAIN order : order[i] = order[j] => i = j
  <2>1. added \in SUBSET Urls
    OBVIOUS
  <2>2. order \in Seq(added) /\ m = Cardinality(added) /\ m \in Nat /\ s \in RunType
    BY <2>1, OrderType
  <2> QED
    BY <2>2 DEF Orders
<1>2. r.queue \in Seq(Entry) /\ r.results \in Seq(Result) /\ tab.depth \in Nat
  BY DEF RunType, ExploreTypeOK, TabType
<1>3. /\ s.results = r.results /\ s.queue = r.queue \o more
      /\ s.scheduled = r.scheduled \cup {order[i] : i \in DOMAIN order}
  BY DEF Scheduled, RunType
<1>4. /\ DOMAIN order = 1 .. m /\ more \in [1 .. m -> Entry] /\ \A i \in 1 .. m : more[i].url = order[i]
  BY <1>1, <1>2 DEF Entry
<1>5. more \in Seq(Entry) /\ Len(more) = m
  BY <1>1, <1>4
<1> HIDE DEF more
<1>6. /\ n \in Nat /\ DOMAIN r.queue = 1 .. n
      /\ DOMAIN s.queue = 1 .. (n + m) /\ Len(s.queue) = n + m
      /\ \A k \in 1 .. n : s.queue[k] = r.queue[k]
      /\ \A k \in 1 .. m : s.queue[n + k] = more[k]
  <2>1. ASSUME NEW q \in Seq(Entry), NEW w \in Seq(Entry)
        PROVE  /\ Len(q) \in Nat /\ DOMAIN q = 1 .. Len(q) /\ Len(q \o w) = Len(q) + Len(w)
               /\ DOMAIN (q \o w) = 1 .. (Len(q) + Len(w))
               /\ \A k \in 1 .. Len(q) : (q \o w)[k] = q[k]
               /\ \A k \in 1 .. Len(w) : (q \o w)[Len(q) + k] = w[k]
    OBVIOUS
  <2>2. /\ DOMAIN r.queue = 1 .. n /\ n \in Nat /\ Len(r.queue \o more) = n + Len(more)
        /\ DOMAIN (r.queue \o more) = 1 .. (n + Len(more))
        /\ \A k \in 1 .. n : (r.queue \o more)[k] = r.queue[k]
        /\ \A k \in 1 .. Len(more) : (r.queue \o more)[n + k] = more[k]
    BY <1>2, <1>5, <2>1
  <2> HIDE DEF s, n, m
  <2> QED
    BY <1>3, <1>5, <2>2
<1> HIDE DEF s, n, m
<1>7. ASSUME NEW k \in DOMAIN s.queue
      PROVE  \/ k \in 1 .. n
             \/ k - n \in 1 .. m /\ s.queue[k].url = order[k - n]
  <2>1. k \in 1 .. n \/ (k - n \in 1 .. m /\ n + (k - n) = k)
    BY <1>1, <1>6
  <2> QED
    BY <1>4, <1>6, <2>1
<1>8. ASSUME NEW i \in 1 .. m
      PROVE  /\ n + i \in DOMAIN s.queue /\ s.queue[n + i].url = order[i]
             /\ order[i] \in added /\ order[i] \notin r.scheduled
  <2>1. n + i \in DOMAIN s.queue
    BY <1>1, <1>6
  <2> QED
    BY <1>1, <1>4, <1>6, <2>1
<1>9. /\ \A j \in 1 .. n : r.queue[j].url \in r.scheduled
      /\ \A j \in DOMAIN r.results : r.results[j].url \in r.scheduled
  BY <1>6 DEF PlacedIn
<1>10. \A j, k \in DOMAIN s.queue : s.queue[j].url = s.queue[k].url => j = k
  <2>1. ASSUME NEW j \in DOMAIN s.queue, NEW k \in DOMAIN s.queue, s.queue[j].url = s.queue[k].url
        PROVE  j = k
    <3>1. CASE j \in 1 .. n /\ k \in 1 .. n
      BY <1>6, <2>1, <3>1 DEF PlacedIn
    <3>2. CASE j \notin 1 .. n /\ k \notin 1 .. n
      <4>1. j - n \in 1 .. m /\ k - n \in 1 .. m /\ order[j - n] = order[k - n]
        BY <1>7, <2>1, <3>2
      <4>2. j - n = k - n
        BY <1>1, <1>4, <4>1
      <4> QED
        BY <1>1, <1>6, <4>2
    <3>3. CASE j \in 1 .. n /\ k \notin 1 .. n
      BY <1>6, <1>7, <1>8, <1>9, <2>1, <3>3
    <3>4. CASE j \notin 1 .. n /\ k \in 1 .. n
      BY <1>6, <1>7, <1>8, <1>9, <2>1, <3>4
    <3> QED
      BY <3>1, <3>2, <3>3, <3>4
  <2> QED
    BY <2>1
<1>11. ASSUME NEW j \in DOMAIN s.results, NEW k \in DOMAIN s.queue  PROVE s.results[j].url # s.queue[k].url
  <2>1. CASE k \in 1 .. n
    BY <1>3, <1>6, <2>1 DEF PlacedIn
  <2>2. CASE k \notin 1 .. n
    BY <1>3, <1>7, <1>8, <1>9, <2>2
  <2> QED
    BY <2>1, <2>2
<1>12. {s.queue[k].url : k \in DOMAIN s.queue} =
          {r.queue[k].url : k \in DOMAIN r.queue} \cup {order[i] : i \in DOMAIN order}
  <2>1. \A k \in DOMAIN s.queue : \/ \E j \in DOMAIN r.queue : s.queue[k].url = r.queue[j].url
                                  \/ \E i \in DOMAIN order : s.queue[k].url = order[i]
    BY <1>4, <1>6, <1>7
  <2>2. \A j \in DOMAIN r.queue : \E k \in DOMAIN s.queue : s.queue[k].url = r.queue[j].url
    BY <1>1, <1>6
  <2>3. \A i \in DOMAIN order : \E k \in DOMAIN s.queue : s.queue[k].url = order[i]
    BY <1>4, <1>8
  <2> QED
    BY <2>1, <2>2, <2>3
<1>13. s.scheduled = {s.results[j].url : j \in DOMAIN s.results}
                       \cup {s.queue[k].url : k \in DOMAIN s.queue} \cup {}
  <2>1. r.scheduled = {r.results[j].url : j \in DOMAIN r.results}
                        \cup {r.queue[k].url : k \in DOMAIN r.queue}
    BY DEF PlacedIn
  <2>2. {s.results[j].url : j \in DOMAIN s.results} = {r.results[j].url : j \in DOMAIN r.results}
    BY <1>3
  <2> QED
    BY <1>3, <1>12, <2>1, <2>2
<1>14. \A j, k \in DOMAIN s.results : s.results[j].url = s.results[k].url => j = k
  BY <1>3 DEF PlacedIn
<1>15. PlacedIn(s, {})
  BY <1>10, <1>11, <1>13, <1>14 DEF PlacedIn
<1>16. Size(s) = Size(r) + m
  <2> DEFINE a == Len(r.results)
  <2>1. a \in Nat /\ Size(r) = a + n /\ Size(s) = a + (n + m)
    BY <1>2, <1>3, <1>6 DEF Size, n
  <2> HIDE DEF a
  <2> QED
    BY <1>1, <1>6, <2>1
<1> QED
  BY <1>1, <1>3, <1>15, <1>16 DEF s, m

\* A coverage that rounds to 100 is whole: with at most 66 pages, one probe less is 99.
LEMMA CoverageIsWhole ==
    ASSUME NEW results \in Seq(Result), Len(results) <= MaxPages,
           \A k \in DOMAIN results : results[k].ok \subseteq results[k].required,
           Covered(results)
    PROVE  \A k \in DOMAIN results : results[k].ok = results[k].required
<1> DEFINE required == RequiredProbes(results)
           verified == VerifiedProbes(results)
           n        == Len(results)
<1>1. n \in Nat /\ DOMAIN results = 1 .. n
  OBVIOUS
<1>2. IsFiniteSet(Probes) /\ Cardinality(Probes) = 3
  <2>1. IsFiniteSet({"state"}) /\ Cardinality({"state"}) = 1
    BY FS_Singleton
  <2>2. IsFiniteSet({"state"} \cup {"dom"}) /\ Cardinality({"state"} \cup {"dom"}) = 2
    <3>1. "dom" \notin {"state"}
      OBVIOUS
    <3>2. IsFiniteSet({"state"} \cup {"dom"})
      BY <2>1, FS_AddElement
    <3>3. Cardinality({"state"} \cup {"dom"}) = Cardinality({"state"}) + 1
      BY <2>1, <3>1, FS_AddElement
    <3> QED
      BY <2>1, <3>2, <3>3
  <2>3. "links" \notin {"state"} \cup {"dom"}
    OBVIOUS
  <2>4. /\ IsFiniteSet(({"state"} \cup {"dom"}) \cup {"links"})
        /\ Cardinality(({"state"} \cup {"dom"}) \cup {"links"}) = 3
    <3>1. IsFiniteSet(({"state"} \cup {"dom"}) \cup {"links"})
      BY <2>2, FS_AddElement
    <3>2. Cardinality(({"state"} \cup {"dom"}) \cup {"links"}) = Cardinality({"state"} \cup {"dom"}) + 1
      BY <2>2, <2>3, FS_AddElement
    <3> QED
      BY <2>2, <3>1, <3>2
  <2>5. Probes = ({"state"} \cup {"dom"}) \cup {"links"}
    BY DEF Probes
  <2> QED
    BY <2>4, <2>5
<1>3. IsFiniteSet((1 .. n) \X Probes) /\ Cardinality((1 .. n) \X Probes) = n * 3
  <2>1. IsFiniteSet(1 .. n) /\ Cardinality(1 .. n) = n
    BY <1>1, FS_Interval
  <2> QED
    <3>1. Cardinality((1 .. n) \X Probes) = Cardinality(1 .. n) * Cardinality(Probes)
      BY <1>2, <2>1, FS_Product
    <3>2. IsFiniteSet((1 .. n) \X Probes)
      BY <1>2, <2>1, FS_Product
    <3> QED
      BY <1>2, <2>1, <3>1, <3>2
<1>4. verified \subseteq required /\ required \subseteq (1 .. n) \X Probes
  <2>1. required \subseteq (1 .. n) \X Probes
    BY <1>1 DEF RequiredProbes, Probes
  <2>2. ASSUME NEW w \in verified PROVE w \in required
    <3>1. w \in (DOMAIN results) \X {"state", "dom", "links"} /\ w[2] \in results[w[1]].ok
      BY DEF VerifiedProbes
    <3>2. w[2] \in results[w[1]].required
      BY <3>1
    <3> QED
      BY <3>1, <3>2 DEF RequiredProbes
  <2> QED
    BY <2>1, <2>2
<1> HIDE DEF required, verified
<1>5. /\ IsFiniteSet(required) /\ Cardinality(required) <= n * 3
      /\ IsFiniteSet(verified) /\ Cardinality(verified) <= Cardinality(required)
      /\ (Cardinality(verified) = Cardinality(required) => verified = required)
  <2>1. IsFiniteSet(required) /\ Cardinality(required) <= n * 3
    BY <1>3, <1>4, FS_Subset
  <2> QED
    BY <1>4, <2>1, FS_Subset
<1>6. Cardinality(required) \in Nat /\ Cardinality(verified) \in Nat
  BY <1>5, FS_CardinalityType
<1>7. n * 3 <= 198
  BY <1>1, ExploreAssumption
<1>8. 200 * Cardinality(verified) + Cardinality(required) >= 200 * Cardinality(required)
  BY DEF Covered, required, verified
<1>9. verified = required
  <2> DEFINE v == Cardinality(verified)
             r == Cardinality(required)
  <2> HIDE DEF v, r
  <2>1. v \in Nat /\ r \in Nat /\ v <= r /\ r <= 198 /\ 200 * v + r >= 200 * r
    BY <1>1, <1>5, <1>6, <1>7, <1>8 DEF v, r
  <2>2. v = r
    BY <2>1
  <2> QED
    BY <1>5, <2>2 DEF v, r
<1>10. ASSUME NEW k \in DOMAIN results, NEW kind \in results[k].required
       PROVE  kind \in results[k].ok
  <2>1. kind \in {"state", "dom", "links"}
    <3>1. results[k] \in Result
      OBVIOUS
    <3>2. results[k].required \subseteq Probes
      BY <3>1 DEF Result
    <3> QED
      BY <3>2 DEF Probes
  <2> DEFINE w == <<k, kind>>
  <2>2. w \in (DOMAIN results) \X {"state", "dom", "links"} /\ w[1] = k /\ w[2] = kind
    BY <2>1
  <2> HIDE DEF w
  <2>3. w \in required
    <3>1. w[2] \in results[w[1]].required
      BY <2>2
    <3> QED
      BY <2>2, <3>1 DEF required, RequiredProbes
  <2>4. w \in verified
    BY <1>9, <2>3
  <2> QED
    BY <2>2, <2>4 DEF verified, VerifiedProbes
<1> QED
  BY <1>10

LEMMA RunInvNext ==
    ASSUME ExploreTypeOK, ExploreTypeOK', RunInv, TabInv, [ExploreNext]_vars
    PROVE  RunInv'
<1>1. run \in RunType /\ run' \in RunType /\ tab \in TabType /\ tab' \in TabType
  BY DEF ExploreTypeOK
<1>2. run.results \in Seq(Result) /\ run.queue \in Seq(Entry) /\ run'.results \in Seq(Result)
  BY <1>1 DEF RunType
\* The page in hand is left for the run r.
<1>3. ASSUME NEW r \in RunType, Leave(r), browser.answered \subseteq browser'.answered,
             r.phase \in {"running", "refused"},
             \A k \in DOMAIN r.results : ResultOK(r.results[k]),
             r.phase # "refused" => PlacedIn(r, {}) /\ Size(r) <= MaxPages
      PROVE  RunInv'
  <2>1. run' = r /\ tab' = NoTab
    BY <1>3 DEF Leave
  <2>2. ~InHand'
    BY <2>1 DEF InHand, NoTab
  <2>3. \A k \in DOMAIN run'.results : ResultOK(run.results[k])'
    BY <1>3, <2>1 DEF ResultOK
  <2>4. run'.phase # "refused" => Placed' /\ Limited'
    <3>1. Placed' <=> PlacedIn(r, {})
      BY <2>1, <2>2 DEF Placed, PlacedIn
    <3>2. r.phase # "refused" => Limited'
      BY <1>3, <2>1, <2>2 DEF Limited, Size
    <3> QED
      BY <1>3, <2>1, <3>1, <3>2
  <2> QED
    BY <1>3, <2>1, <2>2, <2>3, <2>4 DEF RunInv
<1>4. ASSUME InHand, NEW result \in Result, result.url = tab.url, ResultOK(result)
      PROVE  LET r == [run EXCEPT !.results = Append(@, result)] IN
             /\ r \in RunType /\ r.phase = "running"
             /\ \A k \in DOMAIN r.results : ResultOK(r.results[k])
             /\ PlacedIn(r, {}) /\ Size(r) <= MaxPages
  <2> DEFINE r == [run EXCEPT !.results = Append(@, result)]
  <2>1. Append(run.results, result) \in Seq(Result)
    BY <1>2
  <2>2. r \in RunType /\ r.phase = run.phase /\ r.results = Append(run.results, result)
    BY <1>1, <2>1 DEF RunType
  <2>3. run.phase = "running" /\ PlacedIn(run, {tab.url}) /\ Size(run) < MaxPages
    BY <1>4 DEF RunInv, Placed, Limited
  <2>4. \A k \in DOMAIN r.results : ResultOK(r.results[k])
    <3>1. /\ Len(run.results) \in Nat /\ DOMAIN r.results = 1 .. (Len(run.results) + 1)
          /\ DOMAIN run.results = 1 .. Len(run.results)
          /\ r.results[Len(run.results) + 1] = result
          /\ \A k \in DOMAIN run.results : r.results[k] = run.results[k]
      BY <1>2, <2>2
    <3>2. \A k \in DOMAIN r.results : k \in DOMAIN run.results \/ k = Len(run.results) + 1
      BY <3>1
    <3> HIDE DEF r
    <3> QED
      BY <1>4, <3>1, <3>2 DEF RunInv
  <2>5. PlacedIn(r, {}) /\ Size(r) = Size(run) + 1
    <3> HIDE DEF r
    <3>1. r = [run EXCEPT !.results = Append(@, result)]
      BY DEF r
    <3> QED
      BY <1>1, <1>4, <2>2, <2>3, <3>1, ResultKeepsPlaces
  <2>6. Size(r) <= MaxPages
    <3> HIDE DEF r
    <3> QED
      BY <1>1, <2>3, <2>5, SizeType, Numbers
  <2> QED
    BY <2>2, <2>3, <2>4, <2>5, <2>6
<1>5. ASSUME InHand, Leave(Thrown), browser.answered \subseteq browser'.answered
      PROVE  RunInv'
  <2>1. tab.url \in Urls /\ tab.depth \in Nat
    BY <1>1, <1>5 DEF TabInv, TabType
  <2>2. CASE run.results = <<>>
    <3> DEFINE r == [run EXCEPT !.phase = "refused"]
    <3>1. r \in RunType /\ r.phase = "refused" /\ r.results = run.results
      BY <1>1 DEF RunType
    <3>2. Leave(r)
      BY <1>5, <2>2 DEF Thrown
    <3>3. \A k \in DOMAIN r.results : ResultOK(r.results[k])
      BY <3>1 DEF RunInv
    <3> HIDE DEF r
    <3> QED
      BY <1>3, <1>5, <3>1, <3>2, <3>3
  <2>3. CASE run.results # <<>>
    <3> DEFINE result == FailedPage(tab.url, tab.depth)
               r      == [run EXCEPT !.results = Append(@, result)]
    <3>1. result \in Result
      BY <2>1, FailedIsResult
    <3>2. result.url = tab.url /\ ResultOK(result)
      BY DEF FailedPage, ResultOK
    <3>3. Leave(r)
      BY <1>5, <2>3 DEF Thrown
    <3> HIDE DEF result
    <3>4. /\ r \in RunType /\ r.phase = "running"
          /\ \A k \in DOMAIN r.results : ResultOK(r.results[k])
          /\ PlacedIn(r, {}) /\ Size(r) <= MaxPages
      BY <1>4, <1>5, <3>1, <3>2
    <3> HIDE DEF r
    <3> QED
      BY <1>3, <1>5, <3>3, <3>4
  <2> QED
    BY <2>2, <2>3
<1>6. CASE Visits
  <2>1. /\ InHand /\ InHand' /\ tab'.url = tab.url /\ run' = run
        /\ browser.answered \subseteq browser'.answered
    BY <1>6, VisitKeeps DEF InHand
  <2>2. Placed => Placed'
    BY <2>1 DEF Placed, PlacedIn
  <2>3. Limited => Limited'
    BY <2>1 DEF Limited, Size
  <2>4. (\A k \in DOMAIN run.results : ResultOK(run.results[k]))
           => \A k \in DOMAIN run'.results : ResultOK(run.results[k])'
    BY <2>1 DEF ResultOK
  <2> QED
    BY <2>1, <2>2, <2>3, <2>4 DEF RunInv
<1>7. CASE NextPage
  <2> DEFINE url == Head(run.queue).url
  <2>1. /\ ~InHand /\ run.phase = "running" /\ run.queue # <<>>
        /\ run' = [run EXCEPT !.queue = Tail(@)] /\ browser' = browser
        /\ tab'.at = "open" /\ tab'.url = url
    BY <1>7 DEF NextPage, InHand, NoTab
  <2>2. PlacedIn(run, {}) /\ Size(run) <= MaxPages
    <3>1. Placed /\ Limited
      BY <2>1 DEF RunInv
    <3> QED
      BY <2>1, <3>1 DEF Placed, Limited
  <2>3. run'.phase = "running" /\ run'.results = run.results
    BY <1>1, <2>1 DEF RunType
  <2> HIDE DEF url
  <2>4. PlacedIn(run', {url}) /\ Size(run') < Size(run)
    BY <1>1, <2>1, <2>2, TakeKeepsPlaces DEF url
  <2>5. InHand'
    BY <2>1 DEF InHand
  <2>6. Placed'
    BY <2>1, <2>4, <2>5 DEF Placed, PlacedIn
  <2>7. Limited'
    <3>1. Size(run') < MaxPages /\ Size(run') <= MaxPages
      BY <1>1, <2>2, <2>4, SizeType, Numbers
    <3>2. Size(run)' = Size(run')
      BY DEF Size
    <3> QED
      BY <2>5, <3>1, <3>2 DEF Limited
  <2>8. \A k \in DOMAIN run'.results : ResultOK(run.results[k])'
    BY <2>1, <2>3 DEF RunInv, ResultOK
  <2> QED
    BY <2>3, <2>5, <2>6, <2>7, <2>8 DEF RunInv
<1>8. CASE ReportRun
  <2>1. /\ ~InHand /\ run.phase = "running" /\ tab' = tab /\ browser' = browser
        /\ run.queue = <<>> \/ Len(run.results) = MaxPages
    BY <1>8 DEF ReportRun, InHand
  <2>2. run'.results = run.results /\ run'.queue = run.queue /\ run'.scheduled = run.scheduled
    BY <1>1, <1>8 DEF ReportRun, RunType
  <2>3. run'.phase = "verified" => Covered(run.results)
    BY <1>1, <1>8 DEF ReportRun, RunType
  <2>4. Placed /\ Limited
    BY <2>1 DEF RunInv
  <2>5. Placed' /\ Limited' /\ ~InHand'
    <3>1. InHand' <=> InHand
      BY <2>1 DEF InHand
    <3>2. Placed'
      BY <2>1, <2>2, <2>4, <3>1 DEF Placed, PlacedIn
    <3>3. Limited'
      BY <2>2, <2>4, <3>1 DEF Limited, Size
    <3> QED
      BY <2>1, <3>1, <3>2, <3>3
  <2>6. \A k \in DOMAIN run'.results : ResultOK(run.results[k])'
    BY <2>1, <2>2 DEF RunInv, ResultOK
  <2>7. Len(run.results) <= MaxPages /\ run.queue = <<>>
    <3>1. Size(run) <= MaxPages
      BY <2>4 DEF Limited
    <3>2. Len(run.results) \in Nat /\ Len(run.results) <= Size(run) /\ Size(run) \in Nat
      BY <1>1, SizeType
    <3>3. Len(run.results) = MaxPages => Size(run) <= Len(run.results)
      BY <3>1
    <3> DEFINE n == Len(run.results)
    <3> HIDE DEF n
    <3>4. n \in Nat /\ n <= Size(run) /\ Size(run) \in Nat
      BY <3>2 DEF n
    <3>5. n <= MaxPages
      BY <3>1, <3>4, Numbers
    <3> QED
      BY <1>1, <2>1, <3>3, <3>5, SizeType DEF n
  <2>8. run'.phase = "verified" => \A k \in DOMAIN run.results : run.results[k].ok = run.results[k].required
    <3>1. \A k \in DOMAIN run.results : run.results[k].ok \subseteq run.results[k].required
      BY DEF RunInv, ResultOK
    <3> QED
      BY <1>2, <2>3, <2>7, <3>1, CoverageIsWhole
  <2> QED
    BY <2>2, <2>5, <2>6, <2>7, <2>8 DEF RunInv
<1>9. CASE OpenFails
  <2>1. browser.answered \subseteq browser'.answered
    BY <1>9 DEF OpenFails, ExploreTypeOK, BrowserType
  <2> QED
    BY <1>5, <1>9, <2>1 DEF OpenFails, InHand
<1>10. CASE ClosePage
  <2>1. InHand /\ browser.answered \subseteq browser'.answered
    BY <1>10 DEF ClosePage, CloseTab, InHand, ExploreTypeOK, BrowserType
  <2>2. CASE Leave(Thrown)
    BY <1>5, <2>1, <2>2
  <2>3. CASE ~Leave(Thrown)
    <3> DEFINE done == [run EXCEPT !.results = Append(@, tab.result)]
    <3>1. tab.result # Null
      BY <1>10, <2>3 DEF ClosePage
    <3>2. tab.result \in Result /\ tab.links \in SUBSET Urls
      BY <1>1, <3>1 DEF TabType
    <3>3. tab.result.url = tab.url /\ ResultOK(tab.result)
      BY <3>1 DEF TabInv
    <3>4. /\ done \in RunType /\ done.phase = "running"
          /\ \A k \in DOMAIN done.results : ResultOK(done.results[k])
          /\ PlacedIn(done, {}) /\ Size(done) <= MaxPages
      BY <1>4, <2>1, <3>2, <3>3
    <3>5. PICK added \in (IF tab.depth < Depth THEN Schedulable(done, tab.links) ELSE {{}}) :
             \E order \in Orders(added) : Leave(Scheduled(done, order))
      BY <1>10, <2>3 DEF ClosePage
    <3>6. PICK order \in Orders(added) : Leave(Scheduled(done, order))
      BY <3>5
    <3> HIDE DEF done
    <3>7. added \in SUBSET (Urls \ done.scheduled)
      BY <3>2, <3>5 DEF Schedulable
    <3>8. Size(done) + Cardinality(added) <= MaxPages
      <4>1. Size(done) \in Nat /\ Room(done) = IF Size(done) >= MaxPages THEN 0 ELSE MaxPages - Size(done)
        BY <3>4, SizeType DEF Room, Size
      <4>2. Cardinality(added) \in Nat
        <5>1. added \in SUBSET Urls
          BY <3>7
        <5> QED
          BY <5>1, ExploreAssumption, FS_Subset, FS_CardinalityType
      <4>3. Room(done) \in Nat /\ Room(done) <= MaxPages - Size(done)
        BY <3>4, <4>1, Numbers
      <4>4. added = {} \/ Cardinality(added) <= Room(done)
        BY <3>5, <4>2, <4>3 DEF Schedulable
      <4>5. Cardinality(added) = 0 \/ Cardinality(added) <= Room(done)
        BY <4>4, FS_EmptySet
      <4> QED
        BY <3>4, <4>1, <4>2, <4>3, <4>5, Numbers
    <3> DEFINE r == Scheduled(done, order)
    <3>9. PlacedIn(r, {}) /\ r.results = done.results /\ Size(r) = Size(done) + Cardinality(added)
      BY <3>4, <3>6, <3>7, LinksKeepPlaces
    <3>10. r \in RunType
      <4>1. added \in SUBSET Urls
        BY <3>7
      <4> QED
        BY <3>4, <3>6, <4>1, OrderType
    <3>11. r.phase = "running"
      BY <3>4 DEF Scheduled, RunType
    <3>12. Leave(r)
      BY <3>6
    <3> HIDE DEF r
    <3>13. Size(r) <= MaxPages
      BY <3>8, <3>9
    <3> QED
      BY <1>3, <2>1, <3>4, <3>9, <3>10, <3>11, <3>12, <3>13
  <2> QED
    BY <2>2, <2>3
<1>11. CASE UNCHANGED vars
  <2>1. run' = run /\ tab' = tab /\ browser' = browser
    BY <1>11 DEF vars
  <2>2. (Placed => Placed') /\ (Limited => Limited') /\ (InHand' <=> InHand)
    <3>1. InHand' <=> InHand
      BY <2>1 DEF InHand
    <3>2. Placed => Placed'
      BY <2>1, <3>1 DEF Placed, PlacedIn
    <3>3. Limited => Limited'
      BY <2>1, <3>1 DEF Limited, Size
    <3> QED
      BY <3>1, <3>2, <3>3
  <2>3. (\A k \in DOMAIN run.results : ResultOK(run.results[k]))
           => \A k \in DOMAIN run'.results : ResultOK(run.results[k])'
    BY <2>1 DEF ResultOK
  <2> QED
    BY <2>1, <2>2, <2>3 DEF RunInv
<1> QED
  BY <1>6, <1>7, <1>8, <1>9, <1>10, <1>11 DEF ExploreNext, Visits, Ended

-----------------------------------------------------------------------------
(* The page in hand, and the tabs.                                          *)

LEMMA TabInvNext ==
    ASSUME ExploreTypeOK, ExploreTypeOK', TabInv, [ExploreNext]_vars
    PROVE  TabInv'
<1>1. tab \in TabType /\ run \in RunType /\ diag \in DiagType /\ browser \in BrowserType
  BY DEF ExploreTypeOK
\* A page's steps that leave its probes and its result as they are.
<1>2. ASSUME tab'.url = tab.url, tab'.depth = tab.depth, tab'.todo = tab.todo, tab'.ok = tab.ok,
             tab'.result = tab.result, InHand, browser.answered \subseteq browser'.answered,
             tab'.closed => diag'.stopped /\ tab'.at \in {"switching", "close"}
      PROVE  TabInv'
  <2>1. (\A k \in DOMAIN tab.todo : tab.todo[k] \in ProbeKinds(tab.depth))
           => (\A k \in DOMAIN tab'.todo : tab'.todo[k] \in ProbeKinds(tab'.depth))
    BY <1>2
  <2>2. {tab.url} \X tab.ok \subseteq browser.answered => {tab'.url} \X tab'.ok \subseteq browser'.answered
    BY <1>2
  <2>3. (tab.result # Null =>
           tab.result.url = tab.url /\ tab.result.depth = tab.depth /\ ResultOK(tab.result))
         => (tab'.result # Null =>
               tab'.result.url = tab'.url /\ tab'.result.depth = tab'.depth /\ ResultOK(tab.result)')
    BY <1>2 DEF ResultOK
  <2> QED
    BY <1>2, <2>1, <2>2, <2>3 DEF TabInv
\* The steps that give the page a result: its failed one, or none.
<1>3. ASSUME InHand, tab' = Failed, browser'.answered = browser.answered,
             tab.closed => diag'.stopped
      PROVE  TabInv'
  <2> DEFINE result == FailedPage(tab.url, tab.depth)
  <2>1. /\ tab'.url = tab.url /\ tab'.depth = tab.depth /\ tab'.todo = tab.todo /\ tab'.ok = tab.ok
        /\ tab'.result = result /\ tab'.at = "close" /\ tab'.closed = tab.closed
    BY <1>1, <1>3 DEF Failed, TabType
  <2>2. result.url = tab.url /\ result.depth = tab.depth /\ ResultOK(result)
    BY DEF FailedPage, ResultOK
  <2> HIDE DEF result
  <2>3. ResultOK(result) => ResultOK(tab.result)'
    BY <1>3, <2>1 DEF ResultOK
  <2>4. /\ \A k \in DOMAIN tab'.todo : tab'.todo[k] \in ProbeKinds(tab'.depth)
        /\ tab'.ok \subseteq ProbeKinds(tab'.depth) /\ {tab'.url} \X tab'.ok \subseteq browser'.answered
    BY <1>3, <2>1 DEF TabInv
  <2> QED
    BY <1>3, <2>1, <2>2, <2>3, <2>4 DEF TabInv
\* No page in hand.
<1>4. ASSUME tab' = NoTab  PROVE TabInv'
  <2>1. /\ tab'.at = "none" /\ tab'.todo = <<>> /\ tab'.ok = {} /\ tab'.result = Null /\ tab'.closed = FALSE
    BY <1>4 DEF NoTab
  <2> QED
    BY <2>1 DEF TabInv, InHand
<1>5. CASE NextPage
  <2>1. Head(run.queue).url \in Urls
    <3>1. Head(run.queue) \in Entry
      BY <1>1, <1>5 DEF NextPage, RunType
    <3> QED
      BY <3>1 DEF Entry
  <2>2. /\ tab'.url = Head(run.queue).url /\ tab'.todo = <<>> /\ tab'.ok = {} /\ tab'.result = Null
        /\ tab'.closed = FALSE
    BY <1>5 DEF NextPage, NoTab
  <2> QED
    BY <2>1, <2>2 DEF TabInv
<1>6. CASE ReportRun
  BY <1>6 DEF ReportRun, TabInv, InHand, ResultOK
<1>7. CASE OpenTab
  BY <1>1, <1>2, <1>7 DEF OpenTab, TabInv, InHand, TabType, BrowserType
<1>8. CASE OpenFails
  BY <1>4, <1>8 DEF OpenFails, Leave
<1>9. CASE GateSettles
  <2>1. /\ InHand /\ browser' = browser /\ ~tab.closed
        /\ tab'.url = tab.url /\ tab'.depth = tab.depth /\ tab'.todo = ProbeOrder(tab.depth)
        /\ tab'.ok = tab.ok /\ tab'.result = tab.result /\ tab'.closed = tab.closed
    BY <1>1, <1>9 DEF GateSettles, TabInv, InHand, TabType
  <2>2. \A k \in DOMAIN tab'.todo : tab'.todo[k] \in ProbeKinds(tab'.depth)
    BY <2>1 DEF ProbeKinds
  <2> QED
    BY <2>1, <2>2 DEF TabInv, ResultOK
<1>10. CASE GateRefuses
  <2>1. InHand /\ browser' = browser /\ ~tab.closed
    BY <1>10 DEF GateRefuses, TabInv, InHand
  <2>2. CASE tab' = Failed
    BY <1>3, <2>1, <2>2
  <2>3. CASE tab' # Failed
    <3>1. PICK known \in BOOLEAN :
             tab' = [tab EXCEPT !.at = "diagnose", !.href = IF known THEN tab.page ELSE Null]
      BY <1>10, <2>3 DEF GateRefuses
    <3> QED
      BY <1>1, <1>2, <2>1, <3>1 DEF TabType
  <2> QED
    BY <2>2, <2>3
<1>11. CASE ProbeVerified
  <2> DEFINE kind == Head(tab.todo)
  <2>1. /\ InHand /\ ~tab.closed /\ tab.todo \in Seq(Probes) /\ tab.todo # <<>>
        /\ tab'.url = tab.url /\ tab'.depth = tab.depth /\ tab'.todo = Tail(tab.todo)
        /\ tab'.ok = tab.ok \cup {kind} /\ tab'.result = tab.result /\ tab'.closed = tab.closed
        /\ browser'.answered = browser.answered \cup {<<tab.url, kind>>}
    BY <1>1, <1>11 DEF ProbeVerified, Probed, TabInv, InHand, TabType, BrowserType
  <2>2. kind \in ProbeKinds(tab.depth)
    BY <2>1 DEF TabInv
  <2>3. \A k \in DOMAIN tab'.todo : k + 1 \in DOMAIN tab.todo /\ tab'.todo[k] = tab.todo[k + 1]
    BY <2>1
  <2>4. \A k \in DOMAIN tab'.todo : tab'.todo[k] \in ProbeKinds(tab'.depth)
    BY <2>1, <2>3 DEF TabInv
  <2>5. tab'.ok \subseteq ProbeKinds(tab'.depth)
    BY <2>1, <2>2 DEF TabInv
  <2>6. {tab'.url} \X tab'.ok \subseteq browser'.answered
    BY <2>1 DEF TabInv
  <2>7. tab.result # Null => (ResultOK(tab.result) => ResultOK(tab.result)')
    BY <2>1 DEF ResultOK
  <2> QED
    BY <2>1, <2>4, <2>5, <2>6, <2>7 DEF TabInv
<1>12. CASE ProbeFails
  <2>1. /\ InHand /\ ~tab.closed /\ browser' = browser /\ tab.todo \in Seq(Probes) /\ tab.todo # <<>>
        /\ tab'.url = tab.url /\ tab'.depth = tab.depth /\ tab'.ok = tab.ok
        /\ tab'.result = tab.result /\ tab'.closed = tab.closed
        /\ tab'.todo = tab.todo \/ tab'.todo = Tail(tab.todo)
    BY <1>1, <1>12 DEF ProbeFails, Probed, TabInv, InHand, TabType
  <2>2. CASE tab'.todo = tab.todo
    BY <1>2, <2>1, <2>2
  <2>3. CASE tab'.todo = Tail(tab.todo)
    <3>1. \A k \in DOMAIN tab'.todo : k + 1 \in DOMAIN tab.todo /\ tab'.todo[k] = tab.todo[k + 1]
      BY <2>1, <2>3
    <3>2. \A k \in DOMAIN tab'.todo : tab'.todo[k] \in ProbeKinds(tab'.depth)
      BY <2>1, <3>1 DEF TabInv
    <3> QED
      BY <2>1, <3>2 DEF TabInv, ResultOK
  <2> QED
    BY <2>1, <2>2, <2>3
<1>13. CASE Observe
  <2>1. InHand /\ browser' = browser /\ ~tab.closed
    BY <1>13 DEF Observe, TabInv, InHand
  <2>2. CASE tab' = Failed
    BY <1>3, <2>1, <2>2
  <2>3. CASE tab' = [tab EXCEPT !.at = "close", !.result = Explored]
    <3>1. /\ tab'.url = tab.url /\ tab'.depth = tab.depth /\ tab'.todo = tab.todo /\ tab'.ok = tab.ok
          /\ tab'.result = Explored /\ tab'.closed = tab.closed
      BY <1>1, <2>3 DEF TabType
    <3>2. /\ Explored.url = tab.url /\ Explored.depth = tab.depth
          /\ Explored.required = ProbeKinds(tab.depth) /\ Explored.ok = tab.ok
      BY DEF Explored
    <3>3. ResultOK(tab.result)'
      BY <2>1, <3>1, <3>2 DEF ResultOK, TabInv
    <3> QED
      BY <2>1, <3>1, <3>2, <3>3 DEF TabInv
  <2> QED
    BY <1>13, <2>2, <2>3 DEF Observe
<1>14. CASE ClosePage
  BY <1>4, <1>14 DEF ClosePage, Leave
<1>15. CASE Diagnose
  <2>1. InHand /\ browser' = browser /\ ~tab.closed
    BY <1>15 DEF Diagnose, TabInv, InHand
  <2>2. tab' = Failed \/ tab' = [tab EXCEPT !.at = "probing"]
    BY <1>15 DEF Diagnose, Conclude, Goto
  <2>3. CASE tab' = Failed
    BY <1>3, <2>1, <2>3
  <2>4. CASE tab' = [tab EXCEPT !.at = "probing"]
    BY <1>1, <1>2, <2>1, <2>4 DEF TabType
  <2> QED
    BY <2>2, <2>3, <2>4
<1>16. CASE DiagnoseThrows
  <2>1. /\ InHand /\ browser' = browser /\ ~tab.closed
        /\ tab'.url = tab.url /\ tab'.depth = tab.depth /\ tab'.todo = tab.todo /\ tab'.ok = tab.ok
        /\ tab'.result = Null /\ tab'.closed = tab.closed
    BY <1>1, <1>16 DEF DiagnoseThrows, TabInv, InHand, TabType
  <2> QED
    BY <2>1 DEF TabInv
<1>17. CASE ProbeOverCdp
  <2>1. InHand /\ browser' = browser /\ ~tab.closed
    BY <1>17 DEF ProbeOverCdp, TabInv, InHand
  <2>2. tab' = Failed
    BY <1>17 DEF ProbeOverCdp, Conclude
  <2> QED
    BY <1>3, <2>1, <2>2
<1>18. CASE CdpFails
  BY <1>1, <1>2, <1>18 DEF CdpFails, Goto, TabInv, InHand, TabType, DiagType
<1>19. CASE SkipCandidate \/ SwitchInto
  BY <1>1, <1>2, <1>19 DEF SkipCandidate, SwitchInto, Took, TabInv, InHand, DiagType
<1>20. CASE Unrestored
  <2>1. /\ InHand /\ browser'.answered = browser.answered
        /\ tab'.at = "switching" /\ tab'.url = tab.url /\ tab'.depth = tab.depth
        /\ tab'.todo = tab.todo /\ tab'.ok = tab.ok /\ tab'.result = tab.result
    BY <1>1, <1>20 DEF Unrestored, CloseTab, InHand, TabType, BrowserType
  <2>2. diag'.stopped
    BY <1>1, <1>20 DEF Unrestored, DiagType
  <2> QED
    BY <1>2, <2>1, <2>2
<1>21. CASE AllProbed
  BY <1>1, <1>3, <1>21 DEF AllProbed, Conclude, TabInv, InHand, DiagType
<1>22. CASE PageMoves
  BY <1>1, <1>2, <1>22 DEF PageMoves, Reading, TabInv, InHand, TabType
<1>23. CASE SurfLost
  BY <1>1, <1>2, <1>23 DEF SurfLost, Reading, TabInv, InHand, TabType
<1>24. CASE UNCHANGED vars
  BY <1>24 DEF vars, TabInv, InHand, ResultOK
<1> QED
  BY <1>5, <1>6, <1>7, <1>8, <1>9, <1>10, <1>11, <1>12, <1>13, <1>14, <1>15, <1>16, <1>17, <1>18,
     <1>19, <1>20, <1>21, <1>22, <1>23, <1>24 DEF ExploreNext, Ended

LEMMA TabsInvNext ==
    ASSUME ExploreTypeOK, TabInv, TabsInv, [ExploreNext]_vars
    PROVE  TabsInv'
<1>1. tab \in TabType /\ browser \in BrowserType
  BY DEF ExploreTypeOK
<1>2. browser.open \in Int /\ browser.noted \in Int
  BY <1>1 DEF BrowserType
\* The steps that neither open nor close a tab.
<1>3. ASSUME browser'.open = browser.open, browser'.noted = browser.noted,
             tab'.at \in {"none", "open"} \/ tab'.closed => tab.at \in {"none", "open"} \/ tab.closed
      PROVE  TabsInv'
  BY <1>2, <1>3 DEF TabsInv
<1>4. CASE NextPage \/ ReportRun
  BY <1>3, <1>4 DEF NextPage, ReportRun
<1>5. CASE OpenTab
  <2>1. /\ tab.at = "open" /\ tab'.at = "gate" /\ ~tab'.closed
        /\ browser'.open = browser.open + 1 /\ browser'.noted = browser.noted
    BY <1>1, <1>5 DEF OpenTab, TabInv, TabType, BrowserType
  <2>2. browser.open <= browser.noted
    BY <1>2, <2>1 DEF TabsInv
  <2>3. browser'.open <= browser'.noted + 1
    BY <1>2, <2>1, <2>2
  <2> QED
    BY <2>1, <2>3 DEF TabsInv
<1>6. CASE OpenFails
  <2>1. PICK opened \in {0, 1} :
           browser' = [browser EXCEPT !.open = @ + opened, !.noted = @ + opened]
    BY <1>6 DEF OpenFails
  <2>2. /\ tab.at = "open" /\ tab'.at = "none"
        /\ browser'.open = browser.open + opened /\ browser'.noted = browser.noted + opened
    BY <1>1, <1>6, <2>1 DEF OpenFails, Leave, NoTab, BrowserType
  <2>3. browser.open <= browser.noted
    BY <1>2, <2>2 DEF TabsInv
  <2>4. browser'.open <= browser'.noted /\ browser'.open \in Int /\ browser'.noted \in Int
    BY <1>2, <2>2, <2>3
  <2> QED
    BY <2>2, <2>4 DEF TabsInv
<1>7. CASE ClosePage
  <2>1. tab'.at = "none" /\ tab.at = "close"
    BY <1>7 DEF ClosePage, Leave, NoTab
  <2>2. \/ tab.closed /\ browser' = browser
        \/ browser'.open = browser.open /\ browser'.noted = browser.noted + 1
        \/ browser'.open = browser.open - 1 /\ browser'.noted = browser.noted
    BY <1>1, <1>7 DEF ClosePage, CloseTab, BrowserType
  <2>3. browser.open <= browser.noted + 1 /\ (tab.closed => browser.open <= browser.noted)
    BY <1>2 DEF TabsInv
  <2>4. browser'.open <= browser'.noted /\ browser'.noted \in Int
    BY <1>2, <2>2, <2>3
  <2> QED
    BY <2>1, <2>4 DEF TabsInv
<1>8. CASE Unrestored
  <2>1. tab'.at = "switching" /\ tab'.closed
    BY <1>1, <1>8 DEF Unrestored, TabType
  <2>2. \/ browser'.open = browser.open /\ browser'.noted = browser.noted + 1
        \/ browser'.open = browser.open - 1 /\ browser'.noted = browser.noted
    BY <1>1, <1>8 DEF Unrestored, CloseTab, BrowserType
  <2>3. browser.open <= browser.noted + 1
    BY <1>2 DEF TabsInv
  <2>4. browser'.open <= browser'.noted /\ browser'.noted \in Int
    BY <1>2, <2>2, <2>3
  <2> QED
    BY <2>1, <2>4 DEF TabsInv
<1>9. CASE Visits /\ ~OpenTab /\ ~Unrestored
  <2>1. tab.at \in {"gate", "probe", "diagnose", "probing", "switching"}
    BY <1>9 DEF Visits, GateSettles, GateRefuses, ProbeVerified, ProbeFails, Observe,
       Diagnose, DiagnoseThrows, ProbeOverCdp, CdpFails, SkipCandidate, SwitchInto, AllProbed,
       PageMoves, SurfLost, Reading
  <2>2. tab'.at \notin {"none", "open"} /\ tab'.closed = tab.closed
    BY <1>9, VisitKeeps
  <2>3. browser'.open = browser.open /\ browser'.noted = browser.noted
    BY <1>1, <1>9 DEF Visits, GateSettles, GateRefuses, ProbeVerified, ProbeFails, Observe,
       Diagnose, DiagnoseThrows, ProbeOverCdp, CdpFails, SkipCandidate, SwitchInto, AllProbed,
       PageMoves, SurfLost, BrowserType
  <2> QED
    BY <1>3, <2>1, <2>2, <2>3
<1>10. CASE UNCHANGED vars
  BY <1>3, <1>10 DEF vars
<1> QED
  BY <1>4, <1>5, <1>6, <1>7, <1>8, <1>9, <1>10 DEF ExploreNext, Visits, Ended

-----------------------------------------------------------------------------
(* The diagnosis.                                                           *)

\* Where nothing is diagnosed.
LEMMA NothingDiagnosed ==
    ASSUME diag' = NoDiag, tab'.at \notin {"diagnose", "probing", "switching"}
    PROVE  DiagInv'
<1>1. /\ diag'.frames = <<>> /\ diag'.held = FALSE /\ diag'.topology = Null /\ diag'.readings = Null
      /\ diag'.verdict = Null
  BY DEF NoDiag
<1>2. Holders' = {}
  BY <1>1 DEF Holders
<1> QED
  BY <1>1, <1>2 DEF DiagInv, FramesListed

\* A conclusion from d.
LEMMA ConcludeKeeps ==
    ASSUME ExploreTypeOK, DiagInv, NEW d \in DiagType, Conclude(d),
           d.frames = diag.frames, d.held = diag.held,
           d.topology # Null => FramesListed(d),
           d.readings # Null => ReadingsFit(d, d.foreign /\ tab.page # tab.url)
    PROVE  DiagInv'
<1> DEFINE verdict == DetermineFrameRootCause(d.topology, tab.href, d.hint, d.readings)
<1>1. /\ diag'.frames = d.frames /\ diag'.held = d.held /\ diag'.topology = d.topology
      /\ diag'.hint = d.hint /\ diag'.readings = d.readings /\ diag'.foreign = d.foreign
      /\ diag'.verdict = verdict
  BY DEF Conclude, DiagType
<1>2. /\ tab'.at = "close" /\ tab'.url = tab.url /\ tab'.page = tab.page /\ tab'.href = tab.href
      /\ tab'.moved = tab.moved
  BY DEF Conclude, Failed, ExploreTypeOK, TabType
<1> HIDE DEF verdict
<1>3. Holders' = Holders
  BY <1>1 DEF Holders
<1>4. "diagnose" \notin tab'.moved => (diag'.held <=> Holders' # {})
  BY <1>1, <1>2, <1>3 DEF DiagInv
<1>5. diag'.topology # Null => FramesListed(diag)'
  BY <1>1 DEF FramesListed
<1>6. diag'.readings # Null => ReadingsFit(diag, diag.foreign /\ tab.page # tab.url)'
  BY <1>1, <1>2 DEF ReadingsFit, ReadingsTrue, FramesListed
<1>7. diag'.verdict = DetermineFrameRootCause(diag.topology, tab.href, diag.hint, diag.readings)'
  BY <1>1, <1>2 DEF verdict
<1> QED
  BY <1>2, <1>4, <1>5, <1>6, <1>7 DEF DiagInv

\* One more reading of the candidates in order.
LEMMA TookKeeps ==
    ASSUME ExploreTypeOK, DiagInv, tab.at = "switching", Unread, NEW reading \in Reads,
           reading \in Readings(Candidate) \cup {"unprobed", "unanswered"},
           diag'.readings = Append(diag.readings, reading), diag'.frames = diag.frames,
           diag'.held = diag.held, diag'.topology = diag.topology, diag'.hint = diag.hint,
           diag'.verdict = diag.verdict,
           tab'.at = tab.at, tab'.moved = tab.moved, tab'.href = tab.href
    PROVE  DiagInv'
<1>1. /\ diag.readings \in Seq(Reads) /\ FramesListed(diag) /\ ReadingsFit(diag, FALSE) /\ diag.hint = Null
      /\ diag.verdict = Null
  BY DEF DiagInv
<1> DEFINE n == Len(diag.readings)
           cands == diag.topology.candidates
<1>2. cands \in Seq(Nat)
  BY <1>1, ListedType
<1>3. /\ n \in Nat /\ DOMAIN diag.readings = 1 .. n /\ DOMAIN diag'.readings = 1 .. (n + 1)
      /\ diag'.readings \in Seq(Reads) /\ diag'.readings[n + 1] = reading
      /\ \A k \in 1 .. n : diag'.readings[k] = diag.readings[k]
  BY <1>1
<1>4. DOMAIN diag'.readings \subseteq DOMAIN cands
  <2>1. n < Len(cands) /\ Len(cands) \in Nat /\ DOMAIN cands = 1 .. Len(cands)
    BY <1>2 DEF Unread
  <2> HIDE DEF n, cands
  <2> QED
    BY <1>3, <2>1
<1>5. ASSUME tab.moved \cap {"probing", "switching"} = {}
      PROVE  ReadingsTrue(diag)'
  <2>1. ReadingsTrue(diag)
    BY <1>1, <1>5 DEF ReadingsFit
  <2>2. /\ reading = "hit"  => diag.frames[cands[n + 1]].holds
        /\ reading = "miss" => ~diag.frames[cands[n + 1]].holds
    BY <1>5 DEF Readings, Candidate
  <2> HIDE DEF n
  <2>3. \A k \in DOMAIN diag'.readings : k \in 1 .. n \/ k = n + 1
    BY <1>3
  <2> QED
    BY <1>3, <2>1, <2>2, <2>3 DEF ReadingsTrue
<1>6. FramesListed(diag)'
  BY <1>1 DEF FramesListed
<1>7. ReadingsFit(diag, FALSE)'
  BY <1>4, <1>5, <1>6 DEF ReadingsFit
<1>8. "diagnose" \notin tab'.moved => (diag'.held <=> Holders' # {})
  BY DEF DiagInv, Holders
<1> QED
  BY <1>1, <1>3, <1>6, <1>7, <1>8 DEF DiagInv

LEMMA DiagInvNext ==
    ASSUME ExploreTypeOK, ExploreTypeOK', TabInv, DiagInv, [ExploreNext]_vars
    PROVE  DiagInv'
<1>1. tab \in TabType /\ diag \in DiagType /\ tab' \in TabType /\ diag' \in DiagType
  BY DEF ExploreTypeOK
\* The steps that leave the diagnosis and what it was made from as they are.
<1>2. ASSUME diag' = diag, tab'.at = tab.at, tab'.moved = tab.moved, tab'.href = tab.href,
             tab'.page = tab.page, tab'.url = tab.url
      PROVE  DiagInv'
  <2>1. Holders' = Holders /\ (FramesListed(diag)' <=> FramesListed(diag))
    BY <1>2 DEF Holders, FramesListed
  <2>2. ReadingsFit(diag, FALSE)' <=> ReadingsFit(diag, FALSE)
    BY <1>2 DEF ReadingsFit, ReadingsTrue, FramesListed
  <2>3. ReadingsFit(diag, diag.foreign /\ tab.page # tab.url)'
          <=> ReadingsFit(diag, diag.foreign /\ tab.page # tab.url)
    BY <1>2 DEF ReadingsFit, ReadingsTrue, FramesListed
  <2> QED
    BY <1>2, <2>1, <2>2, <2>3 DEF DiagInv
<1>3. CASE OpenFails \/ ClosePage
  <2>1. diag' = NoDiag /\ tab'.at = "none"
    BY <1>3 DEF OpenFails, ClosePage, Leave, NoTab
  <2> QED
    BY <2>1, NothingDiagnosed
<1>4. CASE NextPage \/ OpenTab \/ GateSettles \/ ProbeVerified \/ ProbeFails \/ Observe
  <2>1. tab.at \in {"none", "open", "gate", "probe"} /\ diag' = diag
    BY <1>4 DEF NextPage, OpenTab, GateSettles, ProbeVerified, ProbeFails, Observe
  <2>2. tab'.at \in {"open", "gate", "probe", "close"}
    BY <1>1, <1>4 DEF NextPage, OpenTab, GateSettles, ProbeVerified, ProbeFails, Observe, NoTab,
       Failed, Probed, TabType
  <2>3. diag' = NoDiag
    BY <2>1 DEF DiagInv
  <2> QED
    BY <2>2, <2>3, NothingDiagnosed
<1>5. CASE ReportRun
  BY <1>2, <1>5 DEF ReportRun
<1>6. CASE GateRefuses
  <2>1. diag = NoDiag /\ tab.at = "gate"
    BY <1>6 DEF GateRefuses, DiagInv
  <2>2. CASE tab' = Failed /\ UNCHANGED diag
    <3>1. tab'.at = "close"
      BY <1>1, <2>2 DEF Failed, TabType
    <3> QED
      BY <2>1, <2>2, <3>1, NothingDiagnosed
  <2>3. CASE ~(tab' = Failed /\ UNCHANGED diag)
    <3>1. PICK known \in BOOLEAN, frames \in Pages :
             /\ tab' = [tab EXCEPT !.at = "diagnose", !.href = IF known THEN tab.page ELSE Null]
             /\ diag' = [NoDiag EXCEPT !.frames = frames,
                           !.held = \E i \in DOMAIN frames : Visible(frames[i]) /\ frames[i].holds]
      BY <1>6, <2>3 DEF GateRefuses
    <3>2. tab'.at = "diagnose"
      BY <1>1, <3>1 DEF TabType
    <3>3. /\ diag'.frames = frames /\ diag'.topology = Null /\ diag'.readings = Null
          /\ diag'.hint = Null /\ diag'.verdict = Null
          /\ diag'.held = \E i \in DOMAIN frames : Visible(frames[i]) /\ frames[i].holds
      BY <3>1 DEF NoDiag
    <3>4. diag'.held <=> Holders' # {}
      BY <3>3 DEF Holders
    <3> QED
      BY <3>2, <3>3, <3>4 DEF DiagInv
  <2> QED
    BY <2>2, <2>3
<1>7. CASE Diagnose
  <2> DEFINE read == [diag EXCEPT !.topology = Topology(diag.frames, tab.page)]
  <2>1. /\ tab.at = "diagnose" /\ diag.topology = Null /\ diag.readings = Null /\ diag.hint = Null
        /\ diag.verdict = Null
    BY <1>7 DEF Diagnose, DiagInv
  <2>2. /\ read.frames = diag.frames /\ read.held = diag.held /\ read.readings = Null
        /\ read.hint = Null /\ read.verdict = Null
        /\ read.topology = Topology(diag.frames, tab.page)
    BY <1>1, <2>1 DEF DiagType
  <2>3. Topology(diag.frames, tab.page).href = tab.page
    BY DEF Topology
  <2>4. read \in DiagType /\ \A matched \in SUBSET DOMAIN diag.frames : [read EXCEPT !.hint = matched] \in DiagType
    BY TopologyType
  <2>5. CASE Conclude(diag)
    BY <1>1, <2>1, <2>5, ConcludeKeeps
  <2> HIDE DEF read
  <2>6. FramesListed(read)
    BY <2>2, <2>3 DEF FramesListed
  <2>7. CASE Conclude(read)
    BY <2>1, <2>2, <2>4, <2>6, <2>7, ConcludeKeeps
  <2>8. ASSUME NEW matched \in SUBSET DOMAIN diag.frames, Conclude([read EXCEPT !.hint = matched])
        PROVE  DiagInv'
    <3> DEFINE d == [read EXCEPT !.hint = matched]
    <3>1. d \in DiagType /\ Conclude(d)
      BY <2>4, <2>8
    <3>2. /\ d.frames = read.frames /\ d.held = read.held /\ d.readings = read.readings
          /\ d.topology = read.topology
      BY <2>4 DEF DiagType
    <3> HIDE DEF d
    <3>3. FramesListed(d)
      BY <2>6, <3>2 DEF FramesListed
    <3> QED
      BY <2>2, <3>1, <3>2, <3>3, ConcludeKeeps
  <2>9. CASE diag' = read /\ Goto("probing")
    <3>1. tab'.at = "probing" /\ tab'.moved = tab.moved
      BY <1>1, <2>9 DEF Goto, TabType
    <3>2. FramesListed(diag)'
      BY <2>6, <2>9 DEF FramesListed
    <3>3. "diagnose" \notin tab'.moved => (diag'.held <=> Holders' # {})
      BY <2>2, <2>9, <3>1 DEF DiagInv, Holders
    <3> QED
      BY <2>2, <2>9, <3>1, <3>2, <3>3 DEF DiagInv
  <2> QED
    BY <1>7, <2>5, <2>7, <2>8, <2>9 DEF Diagnose, read
<1>8. CASE DiagnoseThrows
  <2>1. tab.at = "diagnose" /\ tab'.at = "close" /\ diag' = diag /\ tab'.moved = tab.moved
    BY <1>1, <1>8 DEF DiagnoseThrows, TabType
  <2>2. /\ diag.topology = Null /\ diag.readings = Null /\ diag.verdict = Null
        /\ "diagnose" \notin tab'.moved => (diag'.held <=> Holders' # {})
    BY <2>1 DEF DiagInv, Holders
  <2> QED
    BY <2>1, <2>2 DEF DiagInv
<1>9. CASE ProbeOverCdp
  <2>1. tab.at = "probing" /\ FramesListed(diag)
    BY <1>9 DEF ProbeOverCdp, DiagInv
  <2>2. PICK target \in Bind(tab.url),
             readings \in [DOMAIN diag.topology.candidates -> {"hit", "miss", "unanswered"}] :
          /\ target = "own" => \A k \in DOMAIN readings :
               readings[k] \in Readings(diag.topology.candidates[k])
          /\ Conclude([diag EXCEPT !.readings = readings, !.foreign = (target = "other")])
    BY <1>9 DEF ProbeOverCdp
  <2> DEFINE foreign == (target = "other")
             d == [diag EXCEPT !.readings = readings, !.foreign = foreign]
  <2>3. d \in DiagType /\ Conclude(d)
    BY <2>1, <2>2, CdpReadingsType
  <2>4. /\ d.frames = diag.frames /\ d.held = diag.held /\ d.topology = diag.topology
        /\ d.readings = readings /\ (d.foreign <=> target = "other")
    BY <1>1 DEF DiagType
  <2> HIDE DEF d
  <2>5. FramesListed(d)
    BY <2>1, <2>4 DEF FramesListed
  <2>6. target = "other" => tab.page # tab.url
    BY DEF Bind
  <2>7. CASE target = "own" /\ tab.moved \cap {"probing", "switching"} = {}
    <3>1. ASSUME NEW k \in DOMAIN readings
          PROVE  readings[k] \in {"unanswered",
                   IF diag.frames[diag.topology.candidates[k]].holds THEN "hit" ELSE "miss"}
      BY <2>2, <2>7 DEF Readings
    <3>2. ReadingsTrue(d)
      BY <2>4, <3>1 DEF ReadingsTrue
    <3> QED
      BY <2>3, <2>4, <2>5, <3>2, ConcludeKeeps DEF ReadingsFit
  <2>8. CASE target = "other" \/ tab.moved \cap {"probing", "switching"} # {}
    BY <2>3, <2>4, <2>5, <2>6, <2>8, ConcludeKeeps DEF ReadingsFit
  <2> QED
    BY <2>7, <2>8 DEF Bind
<1>10. CASE CdpFails
  <2>1. /\ tab.at = "probing" /\ FramesListed(diag) /\ diag.hint = Null /\ diag.verdict = Null
        /\ tab'.at = "switching" /\ tab'.moved = tab.moved
    BY <1>1, <1>10 DEF CdpFails, Goto, DiagInv, TabType
  <2>2. /\ diag'.frames = diag.frames /\ diag'.held = diag.held /\ diag'.topology = diag.topology
        /\ diag'.readings = <<>> /\ diag'.hint = diag.hint /\ diag'.verdict = diag.verdict
    BY <1>1, <1>10 DEF CdpFails, DiagType
  <2>3. FramesListed(diag)' /\ ReadingsTrue(diag)' /\ ReadingsFit(diag, FALSE)'
    BY <2>1, <2>2 DEF FramesListed, ReadingsTrue, ReadingsFit
  <2>4. "diagnose" \notin tab'.moved => (diag'.held <=> Holders' # {})
    BY <2>1, <2>2 DEF DiagInv, Holders
  <2>5. diag'.readings \in Seq(Reads)
    BY <2>2
  <2> QED
    BY <2>1, <2>2, <2>3, <2>4, <2>5 DEF DiagInv
<1>11. CASE SkipCandidate
  <2>1. /\ diag'.readings = Append(diag.readings, "unprobed") /\ diag'.frames = diag.frames
        /\ diag'.held = diag.held /\ diag'.topology = diag.topology /\ diag'.hint = diag.hint
        /\ diag'.verdict = diag.verdict
    BY <1>1, <1>11 DEF SkipCandidate, Took, DiagType
  <2>2. "unprobed" \in Reads
    BY DEF Reads
  <2> QED
    BY <1>11, <2>1, <2>2, TookKeeps DEF SkipCandidate
<1>12. CASE SwitchInto
  <2>1. PICK reading \in (IF Live THEN Readings(Candidate) ELSE {"unanswered"}) : Took(reading)
    BY <1>12 DEF SwitchInto
  <2>2. /\ diag'.readings = Append(diag.readings, reading) /\ diag'.frames = diag.frames
        /\ diag'.held = diag.held /\ diag'.topology = diag.topology /\ diag'.hint = diag.hint
        /\ diag'.verdict = diag.verdict
    BY <1>1, <2>1 DEF Took, DiagType
  <2>3. reading \in Reads /\ reading \in Readings(Candidate) \cup {"unprobed", "unanswered"}
    BY DEF Reads, Readings
  <2> QED
    BY <1>12, <2>2, <2>3, TookKeeps DEF SwitchInto
<1>13. CASE Unrestored
  <2>1. /\ diag'.readings = Append(diag.readings, "unanswered") /\ diag'.frames = diag.frames
        /\ diag'.held = diag.held /\ diag'.topology = diag.topology /\ diag'.hint = diag.hint
        /\ diag'.verdict = diag.verdict
    BY <1>1, <1>13 DEF Unrestored, DiagType
  <2>2. tab'.at = tab.at /\ tab'.moved = tab.moved /\ tab'.href = tab.href
    BY <1>1, <1>13 DEF Unrestored, TabType
  <2>3. "unanswered" \in Reads
    BY DEF Reads
  <2> QED
    BY <1>13, <2>1, <2>2, <2>3, TookKeeps DEF Unrestored
<1>14. CASE AllProbed
  <2>1. FramesListed(diag) /\ ReadingsFit(diag, FALSE) /\ Conclude(diag)
    BY <1>14 DEF AllProbed, DiagInv
  <2>2. ReadingsFit(diag, diag.foreign /\ tab.page # tab.url)
    BY <2>1 DEF ReadingsFit
  <2> QED
    BY <1>1, <2>1, <2>2, ConcludeKeeps
<1>15. CASE PageMoves
  <2>1. PICK doc \in Docs, frames \in (IF tab.at = "diagnose" THEN Pages ELSE {diag.frames}) :
          /\ tab' = [tab EXCEPT !.page = doc, !.moves = @ + 1, !.moved = @ \cup {tab.at}]
          /\ diag' = [diag EXCEPT !.frames = frames]
    BY <1>15 DEF PageMoves
  <2>2. tab'.at = tab.at /\ tab'.moved = tab.moved \cup {tab.at} /\ tab'.href = tab.href
    BY <1>1, <2>1 DEF TabType
  <2>3. CASE tab.at = "diagnose"
    <3>1. /\ diag'.topology = diag.topology /\ diag'.readings = diag.readings
          /\ diag'.hint = diag.hint /\ diag'.verdict = diag.verdict
      BY <1>1, <2>1 DEF DiagType
    <3>2. /\ diag.topology = Null /\ diag.readings = Null /\ diag.hint = Null /\ diag.verdict = Null
      BY <2>3 DEF DiagInv
    <3> QED
      BY <2>2, <2>3, <3>1, <3>2 DEF DiagInv
  <2>4. CASE tab.at # "diagnose"
    <3>1. diag' = diag
      BY <1>1, <2>1, <2>4 DEF DiagType
    <3>2. CASE tab.at \in {"gate", "probe"}
      <4>1. diag' = NoDiag
        BY <3>1, <3>2 DEF DiagInv
      <4> QED
        BY <2>2, <3>2, <4>1, NothingDiagnosed
    <3>3. CASE tab.at \in {"probing", "switching"}
      <4>1. "diagnose" \notin tab'.moved => (diag'.held <=> Holders' # {})
        BY <2>2, <3>1 DEF DiagInv, Holders
      <4>2. FramesListed(diag)' <=> FramesListed(diag)
        BY <3>1 DEF FramesListed
      <4>3. ReadingsFit(diag, FALSE) => ReadingsFit(diag, FALSE)'
        BY <2>2, <3>1, <3>3, <4>2 DEF ReadingsFit
      <4> QED
        BY <2>2, <3>1, <3>3, <4>1, <4>2, <4>3 DEF DiagInv
    <3> QED
      BY <1>15, <2>4, <3>2, <3>3 DEF PageMoves, Reading
  <2> QED
    BY <2>3, <2>4
<1>16. CASE SurfLost
  BY <1>1, <1>2, <1>16 DEF SurfLost, TabType
<1>17. CASE UNCHANGED vars
  BY <1>2, <1>17 DEF vars
<1> QED
  BY <1>3, <1>4, <1>5, <1>6, <1>7, <1>8, <1>9, <1>10, <1>11, <1>12, <1>13, <1>14, <1>15, <1>16, <1>17
     DEF ExploreNext, Ended

-----------------------------------------------------------------------------
(* The theorems.                                                            *)

\* The invariant of a run: its types, every scheduled URL in one place within the page
\* limit, the page in hand, the tabs, and what a diagnosis stands on.
THEOREM ExploreInvHolds == ExploreSpec => []ExploreInv
<1>1. ExploreInit => ExploreInv
  <2> SUFFICES ASSUME ExploreInit PROVE ExploreInv
    OBVIOUS
  <2>1. ExploreTypeOK
    BY ExploreTypeInit
  <2>2. /\ tab = NoTab /\ diag = NoDiag /\ browser = [open |-> 0, noted |-> 0, answered |-> {}]
        /\ run = [phase |-> "running", queue |-> <<[url |-> Seed, depth |-> 1]>>,
                  scheduled |-> {Seed}, results |-> <<>>]
    BY DEF ExploreInit
  <2>3. RunInv
    <3> DEFINE first == <<[url |-> Seed, depth |-> 1]>>
    <3>1. Len(first) = 1 /\ DOMAIN first = {1} /\ first[1].url = Seed
      OBVIOUS
    <3> HIDE DEF first
    <3>2. /\ run.phase = "running" /\ run.queue = first /\ run.scheduled = {Seed}
          /\ run.results = <<>> /\ ~InHand
      BY <2>2 DEF first, InHand, NoTab
    <3>3. DOMAIN run.results = {} /\ Len(run.results) = 0
      BY <3>2
    <3>4. Placed
      BY <3>1, <3>2, <3>3 DEF Placed, PlacedIn
    <3>5. Limited
      <4>1. Size(run) = 1
        BY <3>1, <3>2, <3>3 DEF Size
      <4>2. 1 <= MaxPages
        BY ExploreAssumption
      <4> QED
        BY <3>2, <4>1, <4>2 DEF Limited
    <3> QED
      BY <3>2, <3>3, <3>4, <3>5 DEF RunInv
  <2>4. TabInv
    <3>1. /\ tab.at = "none" /\ tab.todo = <<>> /\ tab.ok = {} /\ tab.result = Null /\ tab.closed = FALSE
      BY <2>2 DEF NoTab
    <3> QED
      BY <3>1 DEF TabInv, InHand
  <2>5. TabsInv
    BY <2>2 DEF TabsInv
  <2>6. DiagInv
    <3>1. /\ diag.frames = <<>> /\ diag.held = FALSE /\ diag.topology = Null /\ diag.readings = Null
          /\ diag.verdict = Null /\ tab.at = "none"
      BY <2>2 DEF NoDiag, NoTab
    <3>2. Holders = {}
      BY <3>1 DEF Holders
    <3> QED
      BY <2>2, <3>1, <3>2 DEF DiagInv
  <2> QED
    BY <2>1, <2>3, <2>4, <2>5, <2>6 DEF ExploreInv
<1>2. ExploreInv /\ [ExploreNext]_vars => ExploreInv'
  <2> SUFFICES ASSUME ExploreInv, [ExploreNext]_vars PROVE ExploreInv'
    OBVIOUS
  <2>1. ExploreTypeOK /\ RunInv /\ TabInv /\ TabsInv /\ DiagInv
    BY DEF ExploreInv
  <2>2. ExploreTypeOK'
    BY <2>1, ExploreTypeNext DEF TabInv
  <2>3. RunInv' /\ TabInv' /\ TabsInv' /\ DiagInv'
    BY <2>1, <2>2, RunInvNext, TabInvNext, TabsInvNext, DiagInvNext
  <2> QED
    BY <2>2, <2>3 DEF ExploreInv
<1> QED
  BY <1>1, <1>2, PTL DEF ExploreSpec

\* A run holds at most the one tab it is exploring, whatever surf does.
THEOREM TabsAreClosedHolds == ExploreSpec => []TabsAreClosed
<1>1. ExploreInv => TabsAreClosed
  <2> SUFFICES ASSUME ExploreInv PROVE TabsAreClosed
    OBVIOUS
  <2>1. browser.open \in Int /\ browser.noted \in Int
    BY DEF ExploreInv, ExploreTypeOK, BrowserType
  <2> QED
    BY <2>1 DEF ExploreInv, TabsInv, TabsAreClosed
<1> QED
  BY <1>1, ExploreInvHolds, PTL

\* Coverage is reported as verified only for a run that explored every page it scheduled,
\* once, and had every probe answered.
THEOREM VerifiedIsVisitedHolds == ExploreSpec => []VerifiedIsVisited
<1>1. ExploreInv => VerifiedIsVisited
  <2> SUFFICES ASSUME ExploreInv, run.phase = "verified" PROVE
         /\ {run.results[k].url : k \in DOMAIN run.results} = run.scheduled
         /\ Cardinality(run.scheduled) = Len(run.results)
         /\ \A k \in DOMAIN run.results :
              {run.results[k].url} \X ProbeKinds(run.results[k].depth) \subseteq browser.answered
    BY DEF VerifiedIsVisited
  <2>1. /\ ~InHand /\ Placed /\ run.queue = <<>>
        /\ \A k \in DOMAIN run.results : ResultOK(run.results[k])
        /\ \A k \in DOMAIN run.results : run.results[k].ok = run.results[k].required
    BY DEF ExploreInv, RunInv
  <2>2. PlacedIn(run, {})
    BY <2>1 DEF Placed
  <2> DEFINE urls == {run.results[k].url : k \in DOMAIN run.results}
             n    == Len(run.results)
             url  == [k \in 1 .. n |-> run.results[k].url]
  <2>3. urls = run.scheduled
    BY <2>1, <2>2 DEF PlacedIn
  <2>4. n \in Nat /\ DOMAIN run.results = 1 .. n
    BY DEF ExploreInv, ExploreTypeOK, RunType
  <2>5. url \in Injection(1 .. n, urls)
    <3>1. url \in [1 .. n -> urls]
      BY <2>4
    <3>2. ASSUME NEW j \in 1 .. n, NEW k \in 1 .. n, url[j] = url[k] PROVE j = k
      BY <2>2, <2>4, <3>2 DEF PlacedIn
    <3> QED
      BY <3>1, <3>2 DEF Injection, IsInjective
  <2>6. url \in Surjection(1 .. n, urls)
    <3>1. url \in [1 .. n -> urls] /\ \A u \in urls : \E k \in 1 .. n : url[k] = u
      BY <2>4
    <3> QED
      BY <3>1 DEF Surjection
  <2>7. IsFiniteSet(1 .. n) /\ Cardinality(1 .. n) = n
    BY <2>4, FS_Interval
  <2>8. Cardinality(urls) = n
    <3> HIDE DEF urls, url, n
    <3> QED
      BY <2>5, <2>6, <2>7, FS_Surjection
  <2>9. ASSUME NEW k \in DOMAIN run.results
        PROVE  {run.results[k].url} \X ProbeKinds(run.results[k].depth) \subseteq browser.answered
    BY <2>1 DEF ResultOK
  <2> QED
    BY <2>3, <2>8, <2>9
<1> QED
  BY <1>1, ExploreInvHolds, PTL

\* A selector is called excluded only when no visible frame held it as the gate failed,
\* or the page was replaced since without its URL telling so.
THEOREM ExcludedIsRightHolds == ExploreSpec => []ExcludedIsRight
<1>1. ExploreInv => ExcludedIsRight
  <2> SUFFICES ASSUME ExploreInv, Concluded("excluded"), diag.held
               PROVE  "diagnose" \in tab.moved /\ tab.href \in {Null, diag.topology.href}
    BY DEF ExcludedIsRight
  <2>1. DiagInv /\ diag.frames \in Seq(FrameType)
    BY DEF ExploreInv, ExploreTypeOK, DiagType
  <2>2. /\ diag.verdict.value = "excluded"
        /\ diag.verdict = DetermineFrameRootCause(diag.topology, tab.href, diag.hint, diag.readings)
    BY <2>1 DEF DiagInv, Concluded
  <2>3. FramesListed(diag)
    <3>1. diag.topology # Null
      BY <2>2 DEF DetermineFrameRootCause, Determined
    <3> QED
      BY <2>1, <3>1 DEF DiagInv
  <2> DEFINE href == diag.topology.href
  <2>4. diag.topology = Topology(diag.frames, href)
    BY <2>3 DEF FramesListed
  <2> HIDE DEF href
  <2>5. DetermineFrameRootCause(Topology(diag.frames, href), tab.href, diag.hint, diag.readings).value = "excluded"
    BY <2>2, <2>4
  <2>6. /\ ~Inconsistent(diag.frames) /\ FrameCandidates(diag.frames) = <<>>
        /\ tab.href = Null \/ tab.href = href
    BY <2>5, ExcludedMeans
  <2>7. Holders = {}
    <3>1. Unreached(diag.frames) = {}
      BY <2>1, <2>6, NoCandidates
    <3>2. \A i \in DOMAIN diag.frames : ~Visible(diag.frames[i])
      BY <2>1, <2>6, <3>1, ConsistentShowsAll
    <3> QED
      BY <3>2 DEF Holders
  <2>8. "diagnose" \in tab.moved
    BY <2>1, <2>7 DEF DiagInv
  <2> QED
    BY <2>6, <2>8 DEF href
<1> QED
  BY <1>1, ExploreInvHolds, PTL

\* A frame the probe confirmed holds the selector, alone among the visible frames that made
\* the list.
THEOREM ConfirmedIsOneHolds == ExploreSpec => []ConfirmedIsOne
<1>1. ExploreInv => ConfirmedIsOne
  <2> DEFINE holders == Holders \ (Unreached(diag.frames) \ Listed(diag.frames))
  <2> SUFFICES ASSUME ExploreInv, Concluded("confirmed"), diag.hint = Null,
                      tab.moved \cap {"probing", "switching"} = {},
                      ~(diag.foreign /\ tab.page # tab.url)
               PROVE  \/ holders = {diag.verdict.frame}
                      \/ Cardinality(holders) = 1
                         /\ {diag.frames[i].where : i \in holders \cup {diag.verdict.frame}} = {"nested"}
    BY DEF ConfirmedIsOne
  <2>1. DiagInv /\ diag.frames \in Seq(FrameType) /\ diag.readings \in Seq(Reads) \cup {Null}
    BY DEF ExploreInv, ExploreTypeOK, DiagType
  <2>2. /\ diag.verdict.value = "confirmed" /\ tab.at = "close"
        /\ diag.verdict = DetermineFrameRootCause(diag.topology, tab.href, Null, diag.readings)
    BY <2>1 DEF DiagInv, Concluded
  <2>3. FramesListed(diag)
    <3>1. diag.topology # Null
      BY <2>2 DEF DetermineFrameRootCause, Determined
    <3> QED
      BY <2>1, <3>1 DEF DiagInv
  <2> DEFINE href == diag.topology.href
  <2>4. diag.topology = Topology(diag.frames, href)
    BY <2>3 DEF FramesListed
  <2> HIDE DEF href
  <2>5. DetermineFrameRootCause(Topology(diag.frames, href), tab.href, Null, diag.readings).value = "confirmed"
    BY <2>2, <2>4
  <2>6. /\ ~Inconsistent(diag.frames) /\ diag.readings # Null
        /\ diag.verdict = DecideFromProbe(Topology(diag.frames, href), diag.readings)
    BY <2>2, <2>4, <2>5, ConfirmedMeans
  <2>7. diag.topology.candidates = FrameCandidates(diag.frames)
    BY <2>4 DEF Topology
  <2>8. /\ DOMAIN diag.readings \subseteq DOMAIN FrameCandidates(diag.frames)
        /\ ReadingsTrue(diag)
    BY <2>1, <2>2, <2>6, <2>7 DEF DiagInv, ReadingsFit
  <2>9. PICK c \in Listed(diag.frames) :
          /\ diag.frames[c].holds
          /\ \A i \in Listed(diag.frames) : diag.frames[i].holds => i = c
          /\ \/ diag.verdict.frame = c
             \/ /\ diag.frames[c].where = "nested" /\ diag.verdict.frame \in DOMAIN diag.frames
                /\ diag.frames[diag.verdict.frame].where = "nested"
    <3>1. \A k \in DOMAIN diag.readings :
             /\ diag.readings[k] = "hit"  => diag.frames[FrameCandidates(diag.frames)[k]].holds
             /\ diag.readings[k] = "miss" => ~diag.frames[FrameCandidates(diag.frames)[k]].holds
      BY <2>7, <2>8 DEF ReadingsTrue
    <3> QED
      BY <2>1, <2>2, <2>6, <2>8, <3>1, ProbeConfirms
  <2>10. holders = {c}
    <3>1. c \in Unreached(diag.frames) /\ c \in DOMAIN diag.frames /\ Visible(diag.frames[c])
      BY DEF Listed, Unreached, Visible
    <3>2. ASSUME NEW i \in holders PROVE i = c
      <4>1. i \in DOMAIN diag.frames /\ Visible(diag.frames[i]) /\ diag.frames[i].holds
        BY DEF Holders
      <4>2. i \in Unreached(diag.frames)
        BY <2>1, <2>6, <4>1, ConsistentShowsAll
      <4> QED
        BY <2>9, <4>1, <4>2
    <3> QED
      BY <2>9, <3>1, <3>2 DEF Holders
  <2> HIDE DEF holders
  <2>11. Cardinality(holders) = 1
    BY <2>10, FS_Singleton
  <2>12. CASE diag.verdict.frame = c
    BY <2>10, <2>12
  <2>13. CASE diag.frames[c].where = "nested" /\ diag.frames[diag.verdict.frame].where = "nested"
    BY <2>10, <2>11, <2>13
  <2> QED
    BY <2>9, <2>12, <2>13
<1> QED
  BY <1>1, ExploreInvHolds, PTL

===============================================================================
