------------------------------ MODULE MCSurfPlan ------------------------------
(***************************************************************************)
(* Pages of three elements, a form and maybe another around them.           *)
(***************************************************************************)
EXTENDS SurfPlan, TLC

CONSTANTS n1, n2, n3, A, B

MCNodes == {n1, n2, n3}

\* The form B has no selector of its own.
MCFormSelector == [f \in {A, B} |-> IF f = A THEN "form" ELSE None]

Home == [doc |-> "home", hash |-> ""]
MCPlaces == {Home, [doc |-> "home", hash |-> "top"], [doc |-> "away", hash |-> ""]}
MCOriginOf == [d \in {"home", "away"} |-> IF d = "home" THEN "ours" ELSE "other"]

FieldElements ==
    [kind : {"text", "checkbox"}, id : {"a", "b"}, name : {"mail"}, form : {A, B},
     text : {""}, visible : {TRUE}]

ButtonElements ==
    [kind : {"submit"}, id : {"b", "c"}, name : {""}, form : {A, B},
     text : {"Send", "Drop"}, visible : BOOLEAN]
    \cup [kind : {"button"}, id : {"b", "c"}, name : {""}, form : {A},
          text : {"Send", "Drop"}, visible : {TRUE}]
    \cup [kind : {"role", "link"}, id : {"b"}, name : {""}, form : {None},
          text : {"Send"}, visible : {TRUE}]

MCElements == FieldElements \cup ButtonElements

Email == [kind |-> "text", id |-> "a", name |-> "mail", form |-> A, text |-> "", visible |-> TRUE]

\* A field, a submit button, and one element more; or the page was redirected.
MCFirstPages ==
    {[place |-> Home, forms |-> 1, nodes |-> (n1 :> f @@ n2 :> e @@ n3 :> g)] :
        f \in {Email, [Email EXCEPT !.kind = "checkbox"]},
        e \in {x \in ButtonElements : x.kind = "submit" /\ x.id = "c" /\ x.form = A},
        g \in {x \in MCElements : x.form # B} \cup {None}}
    \cup {[place |-> [doc |-> "away", hash |-> ""], forms |-> 1,
           nodes |-> (n1 :> Email @@ n2 :> None @@ n3 :> None)]}

MCRequests ==
    [url : {Home},
     fields : {<<[by |-> "name", find |-> "mail", value |-> v]>> : v \in {"true"}}
              \cup {<<[by |-> "selector", find |-> "b", value |-> "x"]>>},
     submitText : {"Send"}, submitSelector : {None}]
    \cup [url : {Home},
          fields : {<<[by |-> "name", find |-> "mail", value |-> "true"]>>},
          submitText : {None}, submitSelector : {None, "b", "c"}]
================================================================================
