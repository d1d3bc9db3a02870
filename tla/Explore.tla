------------------------------- MODULE Explore -------------------------------
(***************************************************************************)
(* surf explore (surf-explore-operation.ts): pages are taken from a queue, *)
(* each in a tab of its own that is gated, probed, observed and closed;    *)
(* links of a page are scheduled; the probes that were answered make the   *)
(* coverage.  A gate that cannot reach its selector is diagnosed in the    *)
(* tab that is still open: the frames of the page are read, and, when      *)
(* asked, the selector is looked for in each of them, over DevTools or by  *)
(* switching the tab.  The page may navigate, and surf may be lost, at any *)
(* moment.                                                                 *)
(***************************************************************************)
EXTENDS FrameDiagnosis

CONSTANTS Urls,       \* visit keys of the site
          Seed,       \* the URL the run starts from
          Depth,      \* --depth
          MaxPages,   \* MAX_SURF_EXPLORE_PAGES
          Attempts,   \* SURF_EXPLORE_LINKS_ATTEMPTS
          MaxMoves,   \* bound: navigations of the page in one visit
          Pages,      \* the sequences of frames a page may have
          Options     \* the options a caller may give

ASSUME ExploreAssumption ==
  /\ Seed \in Urls /\ IsFiniteSet(Urls)
  /\ {Depth, MaxPages, Attempts} \subseteq Nat \ {0} /\ MaxMoves \in Nat
  /\ MaxPages <= 66      \* a page has three probes at most, and coverage is a rounded percentage

\* --ready-selector, --frame-hint, --frame-probe and --a11y-snapshot; the hint
\* and the probe are refused without a selector (assertFrameHintUsable).
OptionType == [selector : BOOLEAN, hint : BOOLEAN, probe : BOOLEAN,
               a11y : {"off", "optional", "required"}]
ASSUME PagesAssumption == Pages \subseteq Seq(FrameType)

ASSUME OptionsAssumption ==
  /\ Options \subseteq OptionType
  /\ \A o \in Options : o.hint \/ o.probe => o.selector

VARIABLES opts,      \* the options of this run
          run,       \* the queue, what was scheduled, the page results, how it ended
          tab,       \* the page being explored, and its session
          diag,      \* the frame diagnosis of a gate that failed
          browser    \* history: tabs open and accounted for, and probes really answered

vars == <<opts, run, tab, diag, browser>>

Docs == {tab.url, "away"}       \* the document of the URL, or any other one

ProbeOrder(depth) == IF depth < Depth THEN <<"state", "dom", "links">> ELSE <<"state", "dom">>
ProbeKinds(depth)    == {ProbeOrder(depth)[k] : k \in DOMAIN ProbeOrder(depth)}

NoTab == [at |-> "none", url |-> Null, depth |-> 0, page |-> Null, href |-> Null,
          todo |-> <<>>, ok |-> {}, links |-> {}, attempt |-> 1, result |-> Null,
          lost |-> FALSE, closed |-> FALSE, moves |-> 0, moved |-> {}]
NoDiag == [frames |-> <<>>, held |-> FALSE, topology |-> Null, hint |-> Null,
           readings |-> Null, stopped |-> FALSE, foreign |-> FALSE, verdict |-> Null]

ExploreInit ==
  /\ opts \in Options
  /\ run = [phase |-> "running", queue |-> <<[url |-> Seed, depth |-> 1]>>,
            scheduled |-> {Seed}, results |-> <<>>]
  /\ tab = NoTab
  /\ diag = NoDiag
  /\ browser = [open |-> 0, noted |-> 0, answered |-> {}]

Live == ~tab.lost
Goto(at) == tab' = [tab EXCEPT !.at = at]

-----------------------------------------------------------------------------
(* The run: runSurfExploreOperation.                                        *)

\* Seeded fault: a page that could not be explored requires no probes.
FailedWithoutProbes(url, depth) ==
  [url |-> url, depth |-> depth, required |-> {}, ok |-> {}]

\* failedPage: every probe of the page is required, and none is verified.
FailedPage(url, depth) ==
  [url |-> url, depth |-> depth, required |-> ProbeKinds(depth), ok |-> {}]

\* The caller's catch: without an earlier page the error is the run's.
Thrown ==
  IF run.results = <<>> THEN [run EXCEPT !.phase = "refused"]
  ELSE [run EXCEPT !.results = Append(@, FailedPage(tab.url, tab.depth))]

\* The orders in which a set of links may stand on the page.
Orders(links) ==
  {order \in [1 .. Cardinality(links) -> links] :
     \A i, j \in DOMAIN order : order[i] = order[j] => i = j}

\* The links of an explored page are scheduled once each, in their order, while the page
\* limit allows.
Scheduled(r, order) ==
  [r EXCEPT !.scheduled = @ \cup {order[i] : i \in DOMAIN order},
            !.queue = @ \o [i \in DOMAIN order |-> [url |-> order[i], depth |-> tab.depth + 1]]]

Room(r) == LET used == Len(r.results) + Len(r.queue) IN
           IF used >= MaxPages THEN 0 ELSE MaxPages - used

\* The sets of links that may be scheduled; which ones are cut depends on their order.
Schedulable(r, links) ==
  LET fresh == links \ r.scheduled IN
  {s \in SUBSET fresh : \/ Cardinality(s) = Room(r)
                        \/ s = fresh /\ Cardinality(s) < Room(r)}

NextPage ==
  /\ run.phase = "running" /\ tab.at = "none"
  /\ run.queue # <<>> /\ Len(run.results) < MaxPages
  /\ tab' = [NoTab EXCEPT !.at = "open", !.url = Head(run.queue).url,
                          !.depth = Head(run.queue).depth]
  /\ run' = [run EXCEPT !.queue = Tail(@)]
  /\ UNCHANGED <<opts, diag, browser>>

RequiredProbes(results) ==
  {w \in (DOMAIN results) \X {"state", "dom", "links"} : w[2] \in results[w[1]].required}
VerifiedProbes(results) ==
  {w \in (DOMAIN results) \X {"state", "dom", "links"} : w[2] \in results[w[1]].ok}

\* summarizeCoverage: the percentage of the required probes that were verified rounds to 100.
Covered(results) ==
  LET required == Cardinality(RequiredProbes(results))
      verified == Cardinality(VerifiedProbes(results))
  IN required > 0 /\ 200 * verified + required >= 200 * required

ReportRun ==
  /\ run.phase = "running" /\ tab.at = "none"
  /\ run.queue = <<>> \/ Len(run.results) = MaxPages
  /\ run' = [run EXCEPT !.phase =
       IF "state" \notin run.results[1].ok THEN "refused"
       ELSE IF Covered(run.results) THEN "verified" ELSE "partial"]
  /\ UNCHANGED <<opts, tab, diag, browser>>

-----------------------------------------------------------------------------
(* One page: explorePage over its session.                                  *)

Leave(r) == run' = r /\ tab' = NoTab /\ diag' = NoDiag

OpenTab ==
  /\ tab.at = "open"
  /\ \E doc \in Docs : tab' = [tab EXCEPT !.at = "gate", !.page = doc]
  /\ browser' = [browser EXCEPT !.open = @ + 1]
  /\ UNCHANGED <<opts, run, diag>>

\* tab.new fails, or opens a tab and reports no id: nothing is owned, nothing can be closed.
OpenFails ==
  /\ tab.at = "open"
  /\ \E opened \in {0, 1} :
       browser' = [browser EXCEPT !.open = @ + opened, !.noted = @ + opened]
  /\ Leave(Thrown)
  /\ UNCHANGED opts

GateSettles ==
  /\ tab.at = "gate" /\ Live
  /\ \E known \in BOOLEAN :
       tab' = [tab EXCEPT !.at = "probe", !.todo = ProbeOrder(tab.depth),
                          !.href = IF known THEN tab.page ELSE Null]
  /\ UNCHANGED <<opts, run, diag, browser>>

\* explorePage's catch: the page's result is a failed one, kept if its tab can be closed.
Failed == [tab EXCEPT !.at = "close", !.links = {}, !.result = FailedPage(tab.url, tab.depth)]

\* A gate that could not reach the selector is diagnosed; any other refusal is the page's.
GateRefuses ==
  /\ tab.at = "gate"
  /\ \/ /\ Live /\ opts.selector
        /\ \E known \in BOOLEAN, frames \in Pages :
             /\ tab' = [tab EXCEPT !.at = "diagnose", !.href = IF known THEN tab.page ELSE Null]
             /\ diag' = [NoDiag EXCEPT !.frames = frames,
                           !.held = \E i \in DOMAIN frames : Visible(frames[i]) /\ frames[i].holds]
     \/ tab' = Failed /\ UNCHANGED diag
  /\ UNCHANGED <<opts, run, browser>>

Accepted == {tab.url, tab.href} \ {Null}
Probed(t) == [t EXCEPT !.todo = Tail(@), !.attempt = 1]

\* The answer names a document this page was gated on, and shows something of it.
OnTarget == tab.page \in Accepted

\* The links of its own site that a probe may read.
LinksFound(kind) == IF kind = "links" THEN SUBSET Urls ELSE {{}}

\* A probe answered by a document this page was gated on.
ProbeVerified ==
  /\ tab.at = "probe" /\ tab.todo # <<>> /\ Live /\ OnTarget
  /\ \E found \in LinksFound(Head(tab.todo)) :
       tab' = Probed([tab EXCEPT !.ok = @ \cup {Head(tab.todo)}, !.links = @ \cup found])
  /\ browser' = [browser EXCEPT !.answered = @ \cup {<<tab.url, Head(tab.todo)>>}]
  /\ UNCHANGED <<opts, run, diag>>

\* runProbe catches every refusal: a document that was not gated on revokes what
\* is left of the budget, a transient failure spends it.
ProbeFails ==
  /\ tab.at = "probe" /\ tab.todo # <<>>
  /\ \/ tab' = Probed(tab)
     \/ /\ Live /\ Head(tab.todo) = "links" /\ tab.attempt < Attempts
        /\ tab' = [tab EXCEPT !.attempt = @ + 1]
  /\ UNCHANGED <<opts, run, diag, browser>>

Explored == [url |-> tab.url, depth |-> tab.depth, required |-> ProbeKinds(tab.depth),
             ok |-> tab.ok]

\* The accessibility snapshot: one that could not be taken is recorded as such,
\* and fails the page when the run requires it.
SnapshotRaises(captured) == ~captured /\ opts.a11y = "required"

\* runObservers: nothing is observed on a lost session.
Observe ==
  /\ tab.at = "probe" /\ tab.todo = <<>>
  /\ \E captured \in BOOLEAN :
       tab' = IF tab.lost \/ SnapshotRaises(captured) THEN Failed
              ELSE [tab EXCEPT !.at = "close", !.result = Explored]
  /\ UNCHANGED <<opts, run, diag, browser>>

\* SurfSession.close, when it still owns the tab: closed, or noted as left.
CloseTab(b) == {[b EXCEPT !.open = @ - 1], [b EXCEPT !.noted = @ + 1]}

\* Seeded fault: the tab is closed only behind a page that was explored.
CloseOnResult ==
  /\ tab.at = "close"
  /\ browser' \in IF tab.closed \/ tab.result = Null THEN {browser}
                  ELSE IF tab.lost THEN {[browser EXCEPT !.noted = @ + 1]}
                  ELSE CloseTab(browser)
  /\ Leave(IF tab.result = Null THEN Thrown
           ELSE [run EXCEPT !.results = Append(@, tab.result)])
  /\ UNCHANGED opts

\* The finally: a lost session owns nothing any more and leaves its tab; surf's own
\* transport may fail to close, and the page's result is lost with it.
ClosePage ==
  /\ tab.at = "close"
  /\ browser' \in IF tab.closed THEN {browser}
                  ELSE IF tab.lost THEN {[browser EXCEPT !.noted = @ + 1]}
                  ELSE CloseTab(browser)
  /\ \/ ~tab.closed /\ Leave(Thrown)
     \/ /\ tab.result # Null
        /\ LET done == [run EXCEPT !.results = Append(@, tab.result)] IN
           \E added \in (IF tab.depth < Depth THEN Schedulable(done, tab.links) ELSE {{}}) :
             \E order \in Orders(added) : Leave(Scheduled(done, order))
  /\ UNCHANGED opts

-----------------------------------------------------------------------------
(* The diagnosis, in the tab that is still open.                            *)

Conclude(d) ==
  /\ diag' = [d EXCEPT !.verdict =
                DetermineFrameRootCause(d.topology, tab.href, d.hint, d.readings)]
  /\ tab' = Failed

Diagnose ==
  /\ tab.at = "diagnose" /\ Live
  /\ LET topology == Topology(diag.frames, tab.page)
         read == [diag EXCEPT !.topology = topology]
     IN \/ Conclude(diag)       \* no inventory
        \/ /\ opts.hint
           /\ \E matched \in SUBSET DOMAIN diag.frames : Conclude([read EXCEPT !.hint = matched])
        \/ /\ ~opts.hint
           /\ IF opts.probe /\ topology.candidates # <<>>
              THEN diag' = read /\ Goto("probing")
              ELSE Conclude(read)
  /\ UNCHANGED <<opts, run, browser>>

\* explainUnreachable refuses a lost session, out of the catch it was called in.
DiagnoseThrows ==
  /\ tab.at = "diagnose" /\ tab.lost
  /\ tab' = [tab EXCEPT !.at = "close", !.result = Null]
  /\ UNCHANGED <<opts, run, diag, browser>>

\* What a read of a candidate may answer; on a page that moved since its frames
\* were listed, the place may hold anything.
Readings(i) ==
  IF tab.moved \cap {"probing", "switching"} # {} THEN {"hit", "miss", "unanswered"}
  ELSE {"unanswered", IF diag.frames[i].holds THEN "hit" ELSE "miss"}

\* Seeded fault: of the targets at the URL, the first is read.
BindFirst(href) == {"own", "other"}

\* bindOwnedTarget: the targets at the URL, when there is exactly one; another tab
\* may sit there too.
Bind(href) == {IF tab.page = href THEN "own" ELSE "other"}

\* probeCandidatesOverCdp: one target at the session's URL, every candidate in its
\* own frame, by its id or its place; one that maps to no frame is unanswered.
ProbeOverCdp ==
  /\ tab.at = "probing"
  /\ \E target \in Bind(tab.url) :
       \E readings \in [DOMAIN diag.topology.candidates -> {"hit", "miss", "unanswered"}] :
         /\ target = "own" => \A k \in DOMAIN readings :
              readings[k] \in Readings(diag.topology.candidates[k])
         /\ Conclude([diag EXCEPT !.readings = readings, !.foreign = (target = "other")])
  /\ UNCHANGED <<opts, run, browser>>

\* The DevTools channel is not there, binds no target or fails part-way: surf's probe.
CdpFails ==
  /\ tab.at = "probing"
  /\ Goto("switching")
  /\ diag' = [diag EXCEPT !.readings = <<>>]
  /\ UNCHANGED <<opts, run, browser>>

Candidate == diag.topology.candidates[Len(diag.readings) + 1]
Unread == Len(diag.readings) < Len(diag.topology.candidates)
Took(reading) == diag' = [diag EXCEPT !.readings = Append(@, reading)]

\* What frame.switch by index cannot address, or must not any more.
Unaddressable == diag.stopped \/ Candidate \notin diag.topology.topLevel
                              \/ Candidate \notin diag.topology.reachable

SkipCandidate ==
  /\ tab.at = "switching" /\ Unread /\ Unaddressable
  /\ Took("unprobed")
  /\ UNCHANGED <<opts, run, tab, browser>>

\* inFrame: switched, looked for, restored; any of the calls may fail.
SwitchInto ==
  /\ tab.at = "switching" /\ Unread /\ ~Unaddressable
  /\ \E reading \in (IF Live THEN Readings(Candidate) ELSE {"unanswered"}) : Took(reading)
  /\ UNCHANGED <<opts, run, tab, browser>>

\* frame_context_unrestored: a tab left in a frame is closed, and nothing more is probed.
Unrestored ==
  /\ tab.at = "switching" /\ Unread /\ ~Unaddressable /\ Live
  /\ diag' = [diag EXCEPT !.readings = Append(@, "unanswered"), !.stopped = TRUE]
  /\ tab' = [tab EXCEPT !.closed = TRUE]
  /\ browser' \in CloseTab(browser)
  /\ UNCHANGED <<opts, run>>

AllProbed ==
  /\ tab.at = "switching" /\ ~Unread
  /\ Conclude(diag)
  /\ UNCHANGED <<opts, run, browser>>

-----------------------------------------------------------------------------
(* The page and the browser.                                                *)

Reading == tab.at \in {"gate", "probe", "diagnose", "probing", "switching"}

\* The page navigates or reloads: another document, or the same with other frames.
PageMoves ==
  /\ Reading /\ tab.moves < MaxMoves /\ ~tab.closed
  /\ \E doc \in Docs, frames \in (IF tab.at = "diagnose" THEN Pages ELSE {diag.frames}) :
       /\ tab' = [tab EXCEPT !.page = doc, !.moves = @ + 1, !.moved = @ \cup {tab.at}]
       /\ diag' = [diag EXCEPT !.frames = frames]
  /\ UNCHANGED <<opts, run, browser>>

\* SurfSession.interrupt.
SurfLost ==
  /\ Reading /\ Live /\ ~tab.closed
  /\ tab' = [tab EXCEPT !.lost = TRUE]
  /\ UNCHANGED <<opts, run, diag, browser>>

Ended == run.phase # "running" /\ UNCHANGED vars

ExploreNext ==
  \/ NextPage \/ ReportRun \/ OpenTab \/ OpenFails \/ GateSettles \/ GateRefuses
  \/ ProbeVerified \/ ProbeFails \/ Observe \/ ClosePage
  \/ Diagnose \/ DiagnoseThrows \/ ProbeOverCdp \/ CdpFails
  \/ SkipCandidate \/ SwitchInto \/ Unrestored \/ AllProbed
  \/ PageMoves \/ SurfLost \/ Ended

ExploreSpec == ExploreInit /\ [][ExploreNext]_vars

-----------------------------------------------------------------------------
(* Properties.                                                              *)

Concluded(value) == diag.verdict # Null /\ diag.verdict.value = value

\* `excluded` is the one answer that lets a selector be rewritten: no frame anyone
\* can see held the selector when the gate failed, unless the page was replaced
\* between the failure and the diagnosis without its URL telling so.
ExcludedIsRight ==
  Concluded("excluded") =>
    \/ ~diag.held
    \/ "diagnose" \in tab.moved /\ tab.href \in {Null, diag.topology.href}

Holders == {i \in DOMAIN diag.frames : Visible(diag.frames[i]) /\ diag.frames[i].holds}

\* A frame the probe confirmed holds the selector, and no other visible frame of the
\* page that made the list of candidates does, unless the page moved since its frames
\* were listed, or the tab no longer sits at its URL and another tab that does was read
\* in its place.  Of two nested frames the answer may name the other: no DOM index tells
\* them apart.
ConfirmedIsOne ==
  Concluded("confirmed") /\ diag.hint = Null =>
    LET holders == Holders \ (Unreached(diag.frames) \ Listed(diag.frames)) IN
    \/ holders = {diag.verdict.frame}
    \/ Cardinality(holders) = 1
       /\ {diag.frames[i].where : i \in holders \cup {diag.verdict.frame}} = {"nested"}
    \/ tab.moved \cap {"probing", "switching"} # {}
    \/ diag.foreign /\ tab.page # tab.url

\* What frame-probe-greats-adjudication.md says of a confirmation: a hit proves that the
\* frame is the only one, because every frame that could hold a second copy answered.
\* The page stands still and its own tab is read.
ConfirmedIsSole ==
  Concluded("confirmed") /\ diag.hint = Null /\ tab.moved = {} /\ ~diag.foreign =>
    Cardinality(Holders) = 1

\* Coverage is verified only if every page that was scheduled was explored, once, and
\* every probe its depth asks for was answered in a tab of its own.
VerifiedIsVisited ==
  run.phase = "verified" =>
    /\ {run.results[k].url : k \in DOMAIN run.results} = run.scheduled
    /\ Cardinality(run.scheduled) = Len(run.results)
    /\ \A k \in DOMAIN run.results :
         {run.results[k].url} \X ProbeKinds(run.results[k].depth) \subseteq browser.answered

\* The run holds at most the one tab it is exploring, and leaves none behind but those
\* it could not close: lost with surf, refused by it, or never named by it.
TabsAreClosed == browser.open <= browser.noted + (IF tab.at \in {"none", "open"} THEN 0 ELSE 1)
================================================================================
