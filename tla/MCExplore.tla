------------------------------ MODULE MCExplore ------------------------------
(* Three URLs at depth two under a limit of two pages, pages of two frames    *)
(* of every kind the inventories tell apart, one navigation in a visit.       *)
EXTENDS Explore, TLC

CONSTANTS seed, p, q

Dom   == [where |-> "dom", box |-> "full", blank |-> FALSE, mute |-> FALSE,
          inProcess |-> FALSE, holds |-> FALSE]
Blank == [Dom EXCEPT !.blank = TRUE, !.inProcess = TRUE]
Plain == <<Dom, [Dom EXCEPT !.mute = TRUE], [Dom EXCEPT !.box = "line"], Blank,
           [Dom EXCEPT !.where = "dropped"], [Blank EXCEPT !.where = "closed"],
           [Dom EXCEPT !.where = "nested"], [Dom EXCEPT !.where = "nested", !.inProcess = TRUE]>>
Held == [k \in DOMAIN Plain |-> [Plain[k] EXCEPT !.holds = TRUE]]
FrameKinds == Plain \o Held \o <<[Dom EXCEPT !.where = "absent"], [Dom EXCEPT !.box = "pixel"],
                            [Blank EXCEPT !.box = "line"]>>

\* Pages of more frames than the cap.
Crowded == {<<a, b, c>> : a, b, c \in {Dom, [Dom EXCEPT !.holds = TRUE]}}

\* One order of each pair: only the name of a nested frame depends on it, and the one
\* that holds comes last there.
Pairs == {w \in (DOMAIN FrameKinds) \X (DOMAIN FrameKinds) : w[1] <= w[2]}
MCPages == {<<FrameKinds[w[1]], FrameKinds[w[2]]>> : w \in Pairs} \cup Crowded

MCUrls == {seed, p, q}
Linked == Permutations({p, q})

Bare == [selector |-> FALSE, hint |-> FALSE, probe |-> FALSE, a11y |-> "off"]
Ready == [Bare EXCEPT !.selector = TRUE]
MCOptions == {[Bare EXCEPT !.a11y = "required"], [Ready EXCEPT !.probe = TRUE],
              [Ready EXCEPT !.hint = TRUE, !.a11y = "optional"]}
================================================================================
