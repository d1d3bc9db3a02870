---------------------------- MODULE FrameDiagnosis ----------------------------
(***************************************************************************)
(* Why a selector could not be reached: the pure half of the frame         *)
(* diagnosis (frame-topology.ts, frame-root-cause.ts).  `frame.diagnose`   *)
(* answers with three partial inventories of the page's frames - the       *)
(* <iframe>s of the top document, the frames the extension sees, those of  *)
(* the DevTools frame tree - and the determination says what they can and  *)
(* cannot explain.  A page is a sequence of frames, each with what every   *)
(* inventory would say of it; which frame holds the selector is known to   *)
(* the page alone.                                                         *)
(***************************************************************************)
EXTENDS Naturals, Sequences, FiniteSets

CONSTANTS MaxCandidates,   \* MAX_FRAME_CANDIDATES
          Null

ASSUME MaxCandidatesAssumption == MaxCandidates \in Nat \ {0}

\* A frame of the page, or a place where there is none.  "dropped" is counted by
\* surf and not listed, "closed" sits under a closed shadow root, "nested" below
\* another frame.  A blank frame has no URL to be matched by; a mute one has no
\* content script that answers.
FrameType == [where : {"absent", "dom", "dropped", "closed", "nested"},
              box : {"full", "line", "pixel"}, blank : BOOLEAN, mute : BOOLEAN,
              inProcess : BOOLEAN, holds : BOOLEAN]

\* A frame nothing is rendered in (`zeroSize` counts as a pixel); a blank one
\* is hidden by a degenerate box in either dimension.
isHiddenFrame(f) ==
  f.where = "dom" /\ (f.box = "pixel" \/ (f.blank /\ f.box # "full"))

Visible(f) == f.where # "absent" /\ ~isHiddenFrame(f)

\* Frames the extension sees directly below the page that no <iframe> matched,
\* and <iframe>s that have no URL to match on.
UnmatchedChildren(frames) ==
  {i \in DOMAIN frames : frames[i].where = "closed" \/ (frames[i].where = "dom" /\ frames[i].blank)}
UnmatchableIframes(frames) ==
  {i \in DOMAIN frames : frames[i].where = "dom" /\ frames[i].blank}

Dropped(frames) == \E i \in DOMAIN frames : frames[i].where = "dropped"

\* Seeded fault: only surf's own counts are compared with its lists.
InconsistentByCount(frames) == Dropped(frames)

\* What the inventory disagrees with itself about.
Inconsistent(frames) ==
  \/ Dropped(frames)
  \/ Cardinality(UnmatchedChildren(frames)) > Cardinality(UnmatchableIframes(frames))

\* CDP child frames no <iframe> claims: those in the page's process that are not
\* listed in the top document with a URL.
UnmatchedCdpFrames(frames) ==
  {i \in DOMAIN frames : /\ frames[i].where # "absent" /\ frames[i].inProcess
                         /\ ~(frames[i].where = "dom" /\ ~frames[i].blank)}

\* The frames a main-page selector cannot reach and that could hold the target: the
\* <iframe>s that are not hidden and the nested frames.
Unreached(frames) ==
  {i \in DOMAIN frames : frames[i].where \in {"dom", "nested"} /\ ~isHiddenFrame(frames[i])}

\* Those listed before one of them: the <iframe>s come first, then the nested frames.
Before(frames, i) ==
  {j \in Unreached(frames) :
     IF frames[j].where = frames[i].where THEN j < i ELSE frames[j].where = "dom"}

\* The list is cut at the cap.
Listed(frames) == {i \in Unreached(frames) : Cardinality(Before(frames, i)) < MaxCandidates}

\* The candidates, in their order, as indices into the page.
FrameCandidates(frames) ==
  [k \in 1 .. Cardinality(Listed(frames)) |->
     CHOOSE i \in Listed(frames) : Cardinality(Before(frames, i)) = k - 1]

\* contentScriptReachable: known only through an extension frame that matched.
Reachable(f) == ~f.mute /\ (f.where = "nested" \/ ~f.blank)

\* classifyFrameTopology of a diagnosis that answered from `href`.
Topology(frames, href) ==
  [href |-> href, candidates |-> FrameCandidates(frames),
   reachable |-> {i \in DOMAIN frames : Reachable(frames[i])},
   topLevel |-> {i \in DOMAIN frames : frames[i].where = "dom"},
   unmatchedCdp |-> Cardinality(UnmatchedCdpFrames(frames)),
   inconsistent |-> Inconsistent(frames)]

Determined(value)   == [value |-> value, frame |-> Null]
ConfirmedAt(i)      == [value |-> "confirmed", frame |-> i]

\* The candidate a reading names: the first with its DOM index, and nested frames,
\* which have none, share it.
Named(topology, i) ==
  LET nested(k) == topology.candidates[k] \notin topology.topLevel
      first == CHOOSE k \in DOMAIN topology.candidates :
                 nested(k) /\ \A l \in DOMAIN topology.candidates : nested(l) => k <= l
  IN IF i \in topology.topLevel THEN i ELSE topology.candidates[first]

\* Seeded fault: one hit confirms, whether or not every candidate answered.
DecideFromHits(topology, readings) ==
  LET hits == {k \in DOMAIN readings : readings[k] = "hit"} IN
  IF Cardinality(hits) = 1
  THEN ConfirmedAt(Named(topology, topology.candidates[CHOOSE k \in hits : TRUE]))
  ELSE Determined(IF hits = {} THEN "suspected" ELSE "undetermined")

\* The probe may only promote: one hit, with every candidate probed and answering.
DecideFromProbe(topology, readings) ==
  LET hits    == {k \in DOMAIN readings : readings[k] = "hit"}
      blocked == {k \in DOMAIN topology.candidates :
                    k > Len(readings) \/ readings[k] \in {"unprobed", "unanswered"}}
  IN IF Cardinality(hits) > 1 THEN Determined("undetermined")
     ELSE IF hits # {} /\ blocked = {}
     THEN ConfirmedAt(Named(topology, topology.candidates[CHOOSE k \in hits : TRUE]))
     ELSE Determined("suspected")

\* A hint names one candidate that can be read, or it decides nothing.
DecideFromHint(topology, hint) ==
  LET matched == {i \in hint : \E k \in DOMAIN topology.candidates : topology.candidates[k] = i} IN
  IF topology.unmatchedCdp = 0 /\ Cardinality(matched) = 1 /\ matched \subseteq topology.reachable
  THEN ConfirmedAt(CHOOSE i \in matched : TRUE)
  ELSE Determined("undetermined")

\* Seeded fault: whether the page moved since the failure is not asked.
DetermineWithoutHref(topology, failureHref, hint, readings) ==
  IF topology = Null THEN Determined("unavailable")
  ELSE IF topology.inconsistent THEN Determined("undetermined")
  ELSE IF hint # Null THEN DecideFromHint(topology, hint)
  ELSE IF topology.candidates = <<>> THEN Determined("excluded")
  ELSE IF readings # Null /\ topology.unmatchedCdp = 0
  THEN DecideFromProbe(topology, readings)
  ELSE Determined("suspected")

\* determineFrameRootCause; the order of the questions is its contract.
DetermineFrameRootCause(topology, failureHref, hint, readings) ==
  IF topology = Null THEN Determined("unavailable")
  ELSE IF (failureHref # Null /\ failureHref # topology.href) \/ topology.inconsistent
  THEN Determined("undetermined")
  ELSE IF hint # Null THEN DecideFromHint(topology, hint)
  ELSE IF topology.candidates = <<>> THEN Determined("excluded")
  ELSE IF readings # Null /\ topology.unmatchedCdp = 0
  THEN DecideFromProbe(topology, readings)
  ELSE Determined("suspected")
================================================================================
