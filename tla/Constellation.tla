---------------------------- MODULE Constellation ----------------------------
(***************************************************************************)
(* The constellation's pipelines, browsing contexts, pending changes and   *)
(* joint session histories (constellation/constellation.rs, pipeline.rs,   *)
(* browsingcontext.rs).                                                    *)
(*                                                                         *)
(* The constellation is one thread that handles one message at a time: an  *)
(* action is the handler of one message.  The messages of a pipeline's     *)
(* script thread can be in flight while the constellation does something   *)
(* else, so they arrive in any order with those of others, also after the  *)
(* constellation has told the pipeline to exit; they stop with the         *)
(* pipeline's own PipelineExited.                                          *)
(*                                                                         *)
(* A pipeline's record also holds what its script thread was last told     *)
(* (activity, exiting, unloading) and how far its load is (stage).          *)
(***************************************************************************)
EXTENDS JointSessionHistory, FiniteSets, FiniteSetsExt

CONSTANTS
    None,           \* Option::None
    Tops,           \* top-level browsing contexts
    Frames,         \* nested browsing contexts, one for each iframe
    Urls,           \* urls a page or the embedder asks for
    FailureUrl,     \* about:failure
    States,         \* history state ids
    MaxPipelines,   \* bound: pipelines 1 .. MaxPipelines are ever created
    MaxEntries,     \* bound: diffs in one joint session history
    MaxLength,      \* the pref session_history.max_length
    MaxJump,        \* bound: entries crossed by one traversal
    Traffic         \* bound: the kinds of optional message that are sent

ASSUME BoundsAssumption ==
    /\ MaxPipelines \in Nat /\ MaxEntries \in Nat
    /\ MaxLength \in Nat /\ MaxJump \in Nat
ASSUME ContextsAssumption ==
    Tops \cap Frames = {} /\ IsFiniteSet(Tops \cup Frames)

ContextIds == Tops \cup Frames
PipelineIds == 1 .. (MaxPipelines + MaxJump)   \* one traversal may make MaxJump

VARIABLES
    pipelines,    \* id -> Pipeline
    contexts,     \* id -> BrowsingContext
    pending,      \* pending_changes; a set, as each has a pipeline of its own
    browsers,     \* top-level id -> Browser: its focus and its history
    groups,       \* browsing_context_group_set, as sets of top-level ids
    active,       \* active_browser_id
    shown,        \* the root pipeline of the last frame tree sent
    approvals,    \* pending_approval_navigations
    shuttingDown,
    next,         \* PipelineId::new() returns next
    opened        \* the context ids script and embedder have used

vars == <<pipelines, contexts, pending, browsers, groups, active, shown,
          approvals, shuttingDown, next, opened>>

\* Constellation::run handles messages until shutdown has emptied the map.
Running == ~ shuttingDown \/ DOMAIN pipelines # {}

\* The whole state as one record, so that a handler is a composition of the
\* functions it calls, and the step by which run() handles a message.
Now == [pipelines |-> pipelines, contexts |-> contexts, pending |-> pending,
        browsers |-> browsers, groups |-> groups, active |-> active,
        shown |-> shown, approvals |-> approvals,
        shuttingDown |-> shuttingDown, next |-> next, opened |-> opened]

\* The bounds: a handler that makes pipelines starts with ids to spare, and no
\* history outgrows its bound.  A handler that makes nothing is never held back.
WithinBounds(c) ==
    /\ c.next = next \/ next <= MaxPipelines
    /\ \A t \in DOMAIN c.browsers :
         LET h == c.browsers[t].history
         IN  Len(h.past) + Len(h.future) <= MaxEntries

Becomes(c) ==
    /\ Running /\ WithinBounds(c)
    /\ pipelines' = c.pipelines /\ contexts' = c.contexts
    /\ pending' = c.pending /\ browsers' = c.browsers /\ groups' = c.groups
    /\ active' = c.active /\ shown' = c.shown /\ approvals' = c.approvals
    /\ shuttingDown' = c.shuttingDown /\ next' = c.next /\ opened' = c.opened

Init ==
    /\ pipelines = <<>> /\ contexts = <<>> /\ pending = {}
    /\ browsers = <<>> /\ groups = {} /\ active = None /\ shown = None
    /\ approvals = <<>> /\ shuttingDown = FALSE /\ next = 1 /\ opened = {}

\* f with x mapped to v, and f without the keys in S.
Put(f, x, v) == [y \in DOMAIN f \cup {x} |-> IF y = x THEN v ELSE f[y]]
Drop(f, S) == [y \in DOMAIN f \ S |-> f[y]]

Live(c) == DOMAIN c.pipelines
Open(c) == DOMAIN c.contexts
-----------------------------------------------------------------------------
(* Activity *)

\* The pipeline is in the map and is the current document of an open context.
IsCurrent(c, p) ==
    /\ p \in Live(c)
    /\ c.pipelines[p].context \in Open(c)
    /\ c.contexts[c.pipelines[p].context].pipeline = p

\* The pipelines get_activity's loop visits, starting from p.
Ancestors(c, p) ==
    LET up(q) == IF IsCurrent(c, q)
                   THEN {c.contexts[c.pipelines[q].context].parent} \ {None} ELSE {}
        visit[n \in 0 .. Cardinality(ContextIds)] ==
          IF n = 0 THEN {p}
          ELSE visit[n - 1] \cup UNION {up(q) : q \in visit[n - 1]}
    IN  visit[Cardinality(ContextIds)]

\* Constellation::get_activity
GetActivity(c, p) ==
    IF \E q \in Ancestors(c, p) :
         IsCurrent(c, q) /\ c.contexts[c.pipelines[q].context].parent = None
      THEN "FullyActive"
      ELSE IF IsCurrent(c, p) THEN "Active" ELSE "Inactive"

\* The documents set_activity recurses into: the current ones beneath p.
DocumentsBeneath(c, p) ==
    LET down(q) == {c.contexts[b].pipeline :
                      b \in c.pipelines[q].children \cap Open(c)} \cap Live(c)
        visit[n \in 0 .. Cardinality(ContextIds)] ==
          IF n = 0 THEN {p} \cap Live(c)
          ELSE visit[n - 1] \cup UNION {down(q) : q \in visit[n - 1]}
    IN  visit[Cardinality(ContextIds)]

\* Mutant: the documents beneath p are not told.
SetActivityShallow(c, p, a) ==
    IF p \in Live(c) THEN [c EXCEPT !.pipelines[p].activity = a] ELSE c

\* Constellation::set_activity
SetActivity(c, p, a) ==
    [c EXCEPT !.pipelines =
      [q \in Live(c) |->
         IF q \notin DocumentsBeneath(c, p) THEN c.pipelines[q]
         ELSE [c.pipelines[q] EXCEPT !.activity =
                 IF q # p /\ a = "Inactive" THEN "Active" ELSE a]]]

\* Constellation::update_activity
UpdateActivity(c, p) == SetActivity(c, p, GetActivity(c, p))
-----------------------------------------------------------------------------
(* Histories and the frame tree *)

NewBrowserOf(t) == [focused |-> t, history |-> EmptyHistory]

\* Constellation::get_joint_session_history makes the browser if it is missing.
HistoryOf(c, t) ==
    IF t \in DOMAIN c.browsers THEN c.browsers[t].history ELSE EmptyHistory
SetHistory(c, t, h) ==
    [c EXCEPT !.browsers =
       Put(@, t, [focused |-> IF t \in DOMAIN @ THEN @[t].focused ELSE t,
                  history |-> h])]

\* Constellation::send_frame_tree
SendFrameTree(c, t) ==
    IF t \in Open(c) /\ c.contexts[t].pipeline \in Live(c)
      THEN [c EXCEPT !.active = t, !.shown = c.contexts[t].pipeline]
      ELSE c

\* Mutant: the frame tree is sent only once.
UpdateFrameTreeOnce(c, t) == IF c.active = None THEN SendFrameTree(c, t) ELSE c

\* Constellation::update_frame_tree_if_active
UpdateFrameTree(c, t) ==
    IF c.active \in {None, t} THEN SendFrameTree(c, t) ELSE c
-----------------------------------------------------------------------------
(* Closing *)

\* The pipelines close_browsing_context_children closes for contexts cs.
PipelinesOf(c, cs) ==
    {ch.pipeline : ch \in {x \in c.pending : x.context \in cs}}
      \cup UNION {c.contexts[b].pipelines : b \in cs \cap Open(c)}

ChildrenOf(c, ps) == UNION {c.pipelines[p].children : p \in ps \cap Live(c)}

\* The contexts that close_browsing_context and close_pipeline, which call
\* each other, reach from bs.
Beneath(c, bs) ==
    LET visit[n \in 0 .. Cardinality(ContextIds)] ==
          IF n = 0 THEN ChildrenOf(c, PipelinesOf(c, bs))
          ELSE visit[n - 1] \cup ChildrenOf(c, PipelinesOf(c, visit[n - 1]))
    IN  bs \cup visit[Cardinality(ContextIds)]

\* Constellation::close_pipeline for the pipelines ps and
\* Constellation::close_browsing_context for the contexts bs, with everything
\* beneath them.  A closed pipeline stays in the map, exiting, until its script
\* thread answers.
Close(c, ps, bs) ==
    LET cs     == Beneath(c, bs \cup ChildrenOf(c, ps))
        closed == (ps \cup PipelinesOf(c, cs)) \cap Live(c)
        gone   == cs \cap Open(c)
        tops   == {c.contexts[b].top : b \in gone}
        trim(t) == RemoveEntries(HistoryOf(c, t), gone)
    IN  [c EXCEPT
          !.contexts = [b \in Open(c) \ cs |->
                          [c.contexts[b] EXCEPT !.pipelines = @ \ closed]],
          !.pipelines = [p \in Live(c) |->
                          [c.pipelines[p] EXCEPT
                            !.exiting = @ \/ p \in closed,
                            !.children = {b \in @ : ~ (b \in gone
                                            /\ c.contexts[b].parent = p)}]],
          !.pending = {ch \in @ : ch.pipeline \notin closed},
          !.browsers = [t \in DOMAIN c.browsers \cup tops |->
                          IF t \in tops THEN SetHistory(c, t, trim(t)).browsers[t]
                          ELSE c.browsers[t]]]

\* Constellation::trim_history
TrimHistory(c, t) ==
    LET far == FarPipelines(HistoryOf(c, t), MaxLength) \cap Live(c)
        d   == Close(c, far, {})
        urls == [p \in far |-> c.pipelines[p].url]
    IN  SetHistory(d, t, Discard(HistoryOf(d, t), urls))
-----------------------------------------------------------------------------
(* Creating *)

\* Pipeline::new, and the InProgressLoad of its script thread, which starts as
\* fully active.
NewPipelineRecord(b, t, u) ==
    [context |-> b, top |-> t, children |-> {}, url |-> u, load |-> u,
     state |-> NoState, loaded |-> FALSE, activity |-> "FullyActive",
     exiting |-> FALSE, unloading |-> FALSE, stage |-> "loading"]

\* Mutant: pipelines are made during shutdown too.
NewPipelineAlways(c, b, t, u, spawned) ==
    IF ~ spawned THEN [c EXCEPT !.next = @ + 1]
    ELSE [c EXCEPT !.pipelines = Put(@, c.next, NewPipelineRecord(b, t, u)),
                   !.next = @ + 1]

\* Constellation::new_pipeline: no pipeline is made during shutdown, or when
\* its process or thread cannot be spawned.
NewPipeline(c, b, t, u, spawned) ==
    IF c.shuttingDown \/ ~ spawned THEN [c EXCEPT !.next = @ + 1]
    ELSE [c EXCEPT !.pipelines = Put(@, c.next, NewPipelineRecord(b, t, u)),
                   !.next = @ + 1]

\* Constellation::add_pending_change.  info is None, or the parent pipeline
\* wrapped in a record when the context is still to be made.
AddPendingChange(c, b, t, p, replace, info) ==
    [c EXCEPT !.pending = @ \cup
       {[context |-> b, top |-> t, pipeline |-> p,
         replace |-> replace, info |-> info]}]

\* new_pipeline and add_pending_change together, as handlers call them.
StartLoad(c, b, t, u, replace, info, spawned) ==
    AddPendingChange(NewPipeline(c, b, t, u, spawned), b, t, c.next, replace, info)

\* Mutant: the context is not attached to its parent pipeline.
NewBrowsingContextDetached(c, b, t, p, parent) ==
    IF ~ \E g \in c.groups : t \in g THEN c
    ELSE [c EXCEPT
           !.contexts = Put(@, b, [pipeline |-> p, pipelines |-> {p},
                                   parent |-> parent, top |-> t])]

\* Constellation::new_browsing_context
NewBrowsingContext(c, b, t, p, parent) ==
    IF ~ \E g \in c.groups : t \in g THEN c
    ELSE [c EXCEPT
           !.contexts = Put(@, b, [pipeline |-> p, pipelines |-> {p},
                                   parent |-> parent, top |-> t]),
           !.pipelines = IF parent \in Live(c)
                           THEN [c.pipelines EXCEPT ![parent].children = @ \cup {b}]
                           ELSE @]
-----------------------------------------------------------------------------
(* Session history changes *)

\* The open contexts whose documents are fully active beneath b, b included.
ActiveContextsBeneath(c, b) ==
    IF b \notin Open(c) THEN {}
    ELSE {c.pipelines[p].context : p \in DocumentsBeneath(c, c.contexts[b].pipeline)}

\* The focus moves out of a document that is being replaced.
MoveFocus(c, ch) ==
    LET focused == IF c.active \in DOMAIN c.browsers
                     THEN c.browsers[c.active].focused ELSE None
    IN  IF /\ focused \in {ch.context} \cup ActiveContextsBeneath(c, ch.context)
           /\ ch.top \in DOMAIN c.browsers
          THEN [c EXCEPT !.browsers[ch.top].focused = ch.context] ELSE c

\* Constellation::change_session_history for a context that is open: the
\* history diff, what it closes, and the new current document.
CommitInContext(c, ch) ==
    LET old == c.contexts[ch.context].pipeline
        h   == HistoryOf(c, ch.top)
        c1  == [c EXCEPT !.contexts[ch.context].pipeline = ch.pipeline,
                         !.contexts[ch.context].pipelines = @ \cup {ch.pipeline},
                         !.pipelines = IF old \in Live(c)
                           THEN [@ EXCEPT ![old].unloading = TRUE] ELSE @]
        c2  == SetHistory(c1, ch.top,
                 IF ch.replace # None
                   THEN ReplaceReloader(h, ch.replace, No(ch.pipeline))
                   ELSE PushDiff(h, BrowsingContextDiff(ch.context, No(old),
                                                        No(ch.pipeline))))
        closing == IF ch.replace = None THEN DocumentsAhead(h.future)
                   ELSE IF ch.replace.alive THEN {ch.replace.pipeline} ELSE {}
        owners == IF ch.replace = None THEN StateOwnersAhead(h.future) ELSE {}
        c3  == UpdateActivity(UpdateActivity(c2, old), ch.pipeline)
    IN  IF ~ owners \subseteq Live(c) THEN c3   \* `return warn!`
        ELSE UpdateFrameTree(TrimHistory(Close(c3, closing, {}),
                                         c.contexts[ch.context].top), ch.top)

\* Constellation::change_session_history
ChangeSessionHistory(c, ch) ==
    LET f == MoveFocus(c, ch) IN
    IF ch.context \in Open(f) THEN CommitInContext(f, ch)
    ELSE IF ch.info = None THEN f
    ELSE UpdateFrameTree(
           UpdateActivity(NewBrowsingContext(f, ch.context, ch.top, ch.pipeline,
                                             ch.info.parent),
                          ch.pipeline), ch.top)
-----------------------------------------------------------------------------
(* Traversal *)

\* Constellation::update_browsing_context
UpdateBrowsingContext(c, b, r, spawned) ==
    IF b \notin Open(c) THEN c
    ELSE IF ~ r.alive
      THEN StartLoad(c, b, c.contexts[b].top, r.url, r, None, spawned)
      ELSE LET old == c.contexts[b].pipeline IN
           UpdateActivity(
             UpdateActivity([c EXCEPT !.contexts[b].pipeline = r.pipeline], old),
             r.pipeline)

\* Constellation::update_pipeline, for the documents in the domain of changes.
UpdatePipelines(c, changes) ==
    [c EXCEPT !.pipelines =
       [p \in Live(c) |->
          IF p \in DOMAIN changes
            THEN [c.pipelines[p] EXCEPT !.state = changes[p].state,
                                        !.url = changes[p].url]
            ELSE c.pipelines[p]]]

\* update_browsing_context for the contexts that browsing_context_changes takes
\* somewhere; the order of drain() decides nothing but the new pipelines' ids.
UpdateBrowsingContexts(c, to, spawned) ==
    LET b(i) == SetToSeq(ContextIds)[i]
        drain[i \in 0 .. Cardinality(ContextIds)] ==
          IF i = 0 THEN c
          ELSE IF b(i) \in DOMAIN to
            THEN UpdateBrowsingContext(drain[i - 1], b(i), to[b(i)], spawned)
            ELSE drain[i - 1]
    IN  drain[Cardinality(ContextIds)]

\* Constellation::handle_traverse_history_msg
TraverseHistoryBy(c, t, side, n, spawned) ==
    LET h    == HistoryOf(c, t)
        ds   == Crossed(h, side, n)
        urls == UrlToLoad(ds, side)
        load(r) == IF ~ r.alive /\ r.pipeline \in DOMAIN urls
                     THEN Yes(r.pipeline, urls[r.pipeline]) ELSE r
        changes == ContextChanges(ds, side)
        to   == [b \in DOMAIN changes |-> load(changes[b])]
        c1   == SetHistory(c, t, Traversed(h, side, n))
        c2   == UpdatePipelines(UpdateBrowsingContexts(c1, to, spawned),
                                PipelineChanges(ds, side))
    IN  IF n > Len(Stack(h, side)) THEN SetHistory(c, t, h)
        ELSE UpdateFrameTree(TrimHistory(c2, t), t)
-----------------------------------------------------------------------------
(* Loading *)

\* Constellation::load_url.  A load of a nested context goes through the
\* script thread of its parent and changes nothing here.
LoadUrlFrom(c, t, p, u, replace, spawned) ==
    LET b == c.pipelines[p].context IN
    IF \/ p \notin Live(c)
       \/ b \notin Open(c)
       \/ c.contexts[b].parent # None
       \/ \E ch \in c.pending : ch.context = b
       \/ GetActivity(c, p) = "Inactive"
      THEN c
      ELSE StartLoad(c, b, t, u,
                     IF replace THEN No(c.contexts[b].pipeline) ELSE None,
                     None, spawned)

\* Whether new_pipeline manages to spawn.
SpawnOutcomes == IF "SpawnFailure" \in Traffic THEN BOOLEAN ELSE {TRUE}

\* The script thread of p has made its document, or is still loading it.
Document(p) == p \in DOMAIN pipelines /\ pipelines[p].stage = "document"
Loading(p) == p \in DOMAIN pipelines /\ pipelines[p].stage = "loading"
-----------------------------------------------------------------------------
(* Messages from the embedder and the compositor *)

\* handle_new_top_level_browsing_context
NewBrowser(t, u, spawned) ==
    /\ t \notin opened
    /\ LET c == [Now EXCEPT !.browsers = Put(@, t, NewBrowserOf(t)),
                            !.groups = @ \cup {{t}},
                            !.opened = @ \cup {t}]
       IN  Becomes(StartLoad(c, t, t, u, None, [parent |-> None], spawned))

\* handle_close_top_level_browsing_context, also for script's
\* DiscardTopLevelBrowsingContext.  The group is looked up through the context
\* that was just closed.
CloseBrowserOf(c, t) ==
    LET d == Close(c, {}, {t})
        e == [d EXCEPT !.browsers = Drop(@, {t}),
                       !.active = IF @ = t THEN None ELSE @]
    IN  [e EXCEPT !.groups = IF t \in Open(e) THEN {g \in @ : t \notin g} ELSE @]

CloseBrowser(t) ==
    /\ t \in opened
    /\ Becomes(CloseBrowserOf(Now, t))

\* FromCompositorMsg::LoadUrl
LoadUrl(t, u, spawned) ==
    /\ t \in DOMAIN contexts
    /\ contexts[t].pipeline \in DOMAIN pipelines
    /\ Becomes(LoadUrlFrom(Now, t, contexts[t].pipeline, u, FALSE, spawned))

\* TraverseHistory, from the embedder or from the script thread of a pipeline.
TraverseHistory(t, side, n, spawned) ==
    /\ \/ t \in DOMAIN browsers
       \/ \E p \in DOMAIN pipelines : Document(p) /\ pipelines[p].top = t
    /\ Becomes(TraverseHistoryBy(Now, t, side, n, spawned))

\* SelectBrowser
SelectBrowser(t) ==
    /\ t \in opened
    /\ Becomes(SendFrameTree(Now, t))

\* AllowNavigationResponse
AllowNavigationResponse(p, allowed, spawned) ==
    /\ p \in DOMAIN approvals
    /\ LET c == [Now EXCEPT !.approvals = Drop(@, {p})] IN
       Becomes(IF p \in Live(c) /\ allowed
                 THEN LoadUrlFrom(c, c.pipelines[p].top, p, approvals[p].url,
                                  approvals[p].replace, spawned)
                 ELSE c)

\* handle_panic, for a panic or a failed send reported for a top-level context.
HandlePanic(c, t, spawned) ==
    IF t \notin Open(c) \/ c.contexts[t].pipeline \notin Live(c) THEN c
    ELSE LET d == Close(c, PipelinesOf(c, {t}), {}) IN
         IF c.pipelines[c.contexts[t].pipeline].url = FailureUrl THEN d
         ELSE StartLoad(d, t, t, FailureUrl, None, None, spawned)

Panic(t, spawned) ==
    /\ "Panic" \in Traffic /\ t \in opened
    /\ Becomes(HandlePanic(Now, t, spawned))

\* Mutant: the pending pipelines are forgotten.
ExitForgetsPending ==
    /\ "Exit" \in Traffic /\ ~ shuttingDown
    /\ LET c == [Now EXCEPT !.shuttingDown = TRUE]
       IN  Becomes([Close(c, PipelinesOf([c EXCEPT !.pending = {}], Open(c)), Open(c))
                      EXCEPT !.pending = {}])

\* handle_exit
Exit ==
    /\ "Exit" \in Traffic /\ ~ shuttingDown
    /\ LET c == [Now EXCEPT !.shuttingDown = TRUE]
           all == Open(c) \cup {ch.context : ch \in c.pending}
       IN  Becomes([Close(c, Live(c), all) EXCEPT !.pending = {}])
-----------------------------------------------------------------------------
(* Messages from the script thread of pipeline p; handle_request_from_script *)
(* drops those of a pipeline that is no longer in the map.                   *)

\* handle_script_new_iframe
ScriptNewIFrame(p, b, u) ==
    /\ Document(p) /\ b \notin opened
    /\ LET c == [Now EXCEPT !.opened = @ \cup {b}]
           t == pipelines[p].top
       IN  Becomes(
             IF pipelines[p].context \notin Open(c) THEN c
             ELSE AddPendingChange(
                    [c EXCEPT !.pipelines = Put(@, c.next, NewPipelineRecord(b, t, u)),
                              !.next = @ + 1],
                    b, t, c.next, None, [parent |-> p]))

\* The iframe elements of the document of p: contexts it made and has not
\* removed.
IFrames(p) ==
    {b \in DOMAIN contexts : contexts[b].parent = p}
      \cup {ch.context : ch \in {x \in pending : x.info = [parent |-> p]}}

\* The pipelines that an iframe element of context b may believe it shows: it
\* learns of one at its start, when a load gets its document, and by a
\* traversal.  None stands also for one that has left the map.
OldPipelines(b) ==
    {None} \cup {q \in DOMAIN pipelines : pipelines[q].context = b}

\* handle_script_loaded_url_in_iframe_msg.  old is the pipeline that the iframe
\* element believes it shows.
ScriptLoadedURLInIFrame(p, b, old, u, replace, spawned) ==
    /\ Document(p) /\ b \in IFrames(p)
    /\ pipelines[p].context \in DOMAIN contexts
    /\ b \in DOMAIN contexts
    /\ old \in OldPipelines(b)
    /\ LET unloaded == old \in DOMAIN pipelines /\ ~ pipelines[old].loaded IN
       Becomes(StartLoad(Now, b, pipelines[p].top, u,
                         IF replace \/ unloaded THEN No(contexts[b].pipeline) ELSE None,
                         None, spawned))

\* handle_script_new_auxiliary: window.open() of the document of p.
ScriptNewAuxiliary(p, t, u) ==
    /\ "NewAuxiliary" \in Traffic
    /\ Document(p) /\ t \notin opened
    /\ LET c == [Now EXCEPT !.opened = @ \cup {t}]
           d == [c EXCEPT !.pipelines = Put(@, c.next, NewPipelineRecord(t, t, u)),
                          !.next = @ + 1,
                          !.browsers = Put(@, t, NewBrowserOf(t))]
           top == c.contexts[pipelines[p].context].top
           group == {g \in d.groups : top \in g}
       IN  Becomes(
             IF pipelines[p].context \notin Open(c) THEN c
             ELSE IF group = {} THEN d
             ELSE AddPendingChange(
                    [d EXCEPT !.groups = (@ \ group) \cup {g \cup {t} : g \in group}],
                    t, t, c.next, None, [parent |-> None]))

\* schedule_navigation, for FromScriptMsg::LoadUrl
ScheduleNavigation(p, u, replace) ==
    /\ "Navigation" \in Traffic
    /\ Document(p) /\ p \notin DOMAIN approvals
    /\ Becomes([Now EXCEPT !.approvals = Put(@, p, [url |-> u, replace |-> replace])])

\* The pending change that makes p current, if there is one.
ChangesTo(p) == {ch \in pending : ch.pipeline = p}

\* Mutant: an aborted load is forgotten, its pipeline is not closed.
AbortLoadUrlLeaks(p) ==
    /\ Loading(p)
    /\ LET c == [Now EXCEPT !.pipelines[p].stage = "aborted"] IN
       Becomes(IF ChangesTo(p) = {} THEN c
               ELSE [c EXCEPT !.pending = @ \ ChangesTo(p)])

\* handle_abort_load_url_msg, for a 204 or 205 response
AbortLoadUrl(p) ==
    /\ Loading(p)
    /\ LET c == [Now EXCEPT !.pipelines[p].stage = "aborted"] IN
       Becomes(
         IF ChangesTo(p) = {} THEN c
         ELSE Close([c EXCEPT !.pending = @ \ ChangesTo(p)], {p}, {}))

\* handle_activate_document_msg: the script thread has made the document.
ActivateDocument(p) ==
    /\ Loading(p)
    /\ LET c == [Now EXCEPT !.pipelines[p].stage = "document"] IN
       Becomes(
         IF ChangesTo(p) = {} THEN c
         ELSE LET change == CHOOSE ch \in ChangesTo(p) : TRUE
                  d == [c EXCEPT !.pending = @ \ {change}]
              IN  IF change.info = None /\ change.context \notin Open(d)
                    THEN d ELSE ChangeSessionHistory(d, change))

\* handle_load_complete_msg
LoadComplete(p) ==
    /\ "LoadComplete" \in Traffic
    /\ Document(p) /\ ~ pipelines[p].loaded
    /\ Becomes([Now EXCEPT !.pipelines[p].loaded = TRUE])

\* handle_navigated_to_fragment
NavigatedToFragment(p, u, replace) ==
    /\ "Fragment" \in Traffic
    /\ Document(p)
    /\ LET t == pipelines[p].top
           c == [Now EXCEPT !.pipelines[p].url = u]
       IN  Becomes(IF replace THEN c
                   ELSE SetHistory(c, t, PushDiff(HistoryOf(c, t),
                                           HashDiff(p, pipelines[p].url, u))))

\* handle_push_history_state_msg
PushHistoryState(p, s, u) ==
    /\ "PushState" \in Traffic
    /\ Document(p)
    /\ LET t == pipelines[p].top
           c == [Now EXCEPT !.pipelines[p].url = u, !.pipelines[p].state = s]
       IN  Becomes(SetHistory(c, t, PushDiff(HistoryOf(c, t),
                     PipelineDiff(p, pipelines[p].state, pipelines[p].url, s, u))))

\* handle_replace_history_state_msg
ReplaceState(p, s, u) ==
    /\ "ReplaceState" \in Traffic
    /\ Document(p)
    /\ LET t == pipelines[p].top
           c == [Now EXCEPT !.pipelines[p].url = u, !.pipelines[p].state = s]
       IN  Becomes(SetHistory(c, t, ReplaceHistoryState(HistoryOf(c, t), p, s, u)))

\* handle_discard_document: a document that was told to unload and cannot be
\* kept answers with DiscardDocument.
DiscardDocument(p) ==
    /\ "Discard" \in Traffic
    /\ p \in DOMAIN pipelines /\ pipelines[p].unloading
    /\ LET t == pipelines[p].top
           c == [Now EXCEPT !.pipelines[p].unloading = FALSE]
           h == HistoryOf(c, t)
       IN  Becomes(
             IF t \notin DOMAIN browsers THEN c
             ELSE Close(SetHistory(c, t, ReplaceReloader(h, No(p),
                                           Yes(p, pipelines[p].load))), {p}, {}))

\* handle_remove_iframe_msg: the iframe element leaves its document.
RemoveIFrame(p, b) ==
    /\ Document(p) /\ b \in IFrames(p)
    /\ Becomes(Close(Now, {}, {b}))

\* handle_focus_msg
Focus(p) ==
    /\ "Focus" \in Traffic
    /\ Document(p) /\ pipelines[p].top \in DOMAIN browsers
    /\ Becomes([Now EXCEPT !.browsers[pipelines[p].top].focused =
                             pipelines[p].context])

\* SetFinalUrl, after redirections
SetFinalUrl(p, u) ==
    /\ "Redirect" \in Traffic
    /\ Loading(p)
    /\ Becomes([Now EXCEPT !.pipelines[p].url = u])

\* handle_pipeline_exited: script's answer to ExitPipeline
PipelineExited(p) ==
    /\ p \in DOMAIN pipelines /\ pipelines[p].exiting
    /\ Becomes([Now EXCEPT !.pipelines = Drop(@, {p})])
-----------------------------------------------------------------------------
FromEmbedder ==
    \/ \E t \in Tops, u \in Urls, ok \in SpawnOutcomes :
         NewBrowser(t, u, ok) \/ LoadUrl(t, u, ok)
    \/ \E t \in Tops : CloseBrowser(t) \/ SelectBrowser(t)
    \/ \E t \in Tops, ok \in SpawnOutcomes : Panic(t, ok)
    \/ \E t \in Tops, side \in {"old", "new"}, n \in 1 .. MaxJump,
          ok \in SpawnOutcomes : TraverseHistory(t, side, n, ok)
    \/ \E p \in PipelineIds, allowed \in BOOLEAN, ok \in SpawnOutcomes :
         AllowNavigationResponse(p, allowed, ok)
    \/ Exit

FromScript(p) ==
    \/ \E b \in Frames, u \in Urls : ScriptNewIFrame(p, b, u)
    \/ \E b \in Frames, old \in PipelineIds \cup {None}, u \in Urls, replace \in BOOLEAN,
          ok \in SpawnOutcomes :
         ScriptLoadedURLInIFrame(p, b, old, u, replace, ok)
    \/ \E t \in Tops, u \in Urls : ScriptNewAuxiliary(p, t, u)
    \/ \E u \in Urls, replace \in BOOLEAN :
         ScheduleNavigation(p, u, replace) \/ NavigatedToFragment(p, u, replace)
    \/ \E s \in States, u \in Urls : PushHistoryState(p, s, u) \/ ReplaceState(p, s, u)
    \/ AbortLoadUrl(p)
    \/ ActivateDocument(p)
    \/ LoadComplete(p)
    \/ DiscardDocument(p)
    \/ \E b \in Frames : RemoveIFrame(p, b)
    \/ Focus(p)
    \/ \E u \in Urls : SetFinalUrl(p, u)
    \/ PipelineExited(p)

Next == FromEmbedder \/ \E p \in PipelineIds : FromScript(p)

Spec == Init /\ [][Next]_vars

\* A script thread answers ExitPipeline.
FairSpec == Spec /\ \A p \in PipelineIds : WF_vars(PipelineExited(p))
-----------------------------------------------------------------------------
\* The diffs in the joint session history of t.
HistoryDiffs(t) == Range(browsers[t].history.past) \cup Range(browsers[t].history.future)

\* What update_activity told the script threads is what get_activity computes:
\* no navigation, traversal, closing or iframe leaves a document with a stale
\* idea of whether it is active.  A load is fully active from its start, so this
\* is about pipelines whose document was activated; those that were told to
\* exit, and those beneath them, are not told about changes any more.
ActivityAgrees ==
    \A p \in {q \in DOMAIN pipelines : Document(q)} :
      (\A q \in Ancestors(Now, p) : q \in DOMAIN pipelines /\ ~ pipelines[q].exiting)
        => pipelines[p].activity = GetActivity(Now, p)

\* The tree is consistent: a context is listed by its parent pipeline as long
\* as that is in the map, and a pipeline lists only open contexts of its own.
TreeConsistent ==
    /\ \A b \in DOMAIN contexts :
         contexts[b].parent \in DOMAIN pipelines
           => b \in pipelines[contexts[b].parent].children
    /\ \A p \in DOMAIN pipelines : \A b \in pipelines[p].children :
         b \in DOMAIN contexts /\ contexts[b].parent = p

\* A pipeline of the map is in exactly one of three places: told to exit,
\* waiting in the pending changes, or listed by a context, which is then its
\* own.  So a document that was told to exit is neither activated nor closed
\* again, and no load is dropped from the pending changes without a trace.
\* Contexts list only pipelines of the map.
RegisteredOnce ==
    /\ \A p \in DOMAIN pipelines :
         LET listing == {b \in DOMAIN contexts : p \in contexts[b].pipelines}
             places == {x \in {"exiting", "waiting", "listed"} :
                          \/ x = "exiting" /\ pipelines[p].exiting
                          \/ x = "waiting" /\ ChangesTo(p) # {}
                          \/ x = "listed" /\ listing # {}}
         IN  Cardinality(places) = 1 /\ listing \subseteq {pipelines[p].context}
    /\ \A b \in DOMAIN contexts : contexts[b].pipelines \subseteq DOMAIN pipelines

\* No context is ever led to the document of another one, although all the
\* contexts of a tab share one history and replace_reloader rewrites all of it:
\* the current document of a context, both sides of its diffs, its loads and
\* what they replace are pipelines of that context, and a state or fragment
\* entry is about a document of the history's own tab.
DocumentsStayHome ==
    LET of(b, p) == p \in DOMAIN pipelines => pipelines[p].context = b IN
    /\ \A b \in DOMAIN contexts : of(b, contexts[b].pipeline)
    /\ \A t \in DOMAIN browsers : \A d \in HistoryDiffs(t) :
         IF d.kind = "context"
           THEN of(d.context, d.old.pipeline) /\ of(d.context, d.new.pipeline)
           ELSE d.reloader.pipeline \in DOMAIN pipelines
                  => pipelines[d.reloader.pipeline].top = t
    /\ \A ch \in pending :
         /\ of(ch.context, ch.pipeline)
         /\ ch.replace # None => of(ch.context, ch.replace.pipeline)

\* What refers to a context does not outlive it: neither a diff in a history
\* nor the pending change of a pipeline that can still be activated.
ContextsStayOpen ==
    /\ \A t \in DOMAIN browsers : \A d \in HistoryDiffs(t) :
         d.kind = "context" => d.context \in DOMAIN contexts
    /\ \A ch \in pending :
         ch.info = None /\ ch.pipeline \in DOMAIN pipelines
           => ch.context \in DOMAIN contexts

\* Once handle_exit has run, no message in flight makes a context or leaves a
\* pipeline that was not told to exit, so the loop of run() can end.
ShutdownIsFinal ==
    shuttingDown =>
      /\ DOMAIN contexts = {}
      /\ \A p \in DOMAIN pipelines : pipelines[p].exiting

\* The shutdown ends: the script threads answer, and nothing the constellation
\* still handles makes a pipeline they do not know of.
ShutdownCompletes == shuttingDown ~> (DOMAIN pipelines = {})

\* The compositor shows the current document of the active browser, whatever
\* navigation, traversal or closing came last.
RootIsShown ==
    (active \in DOMAIN contexts /\ contexts[active].pipeline \in DOMAIN pipelines)
      => shown = contexts[active].pipeline

\* The url and the state id of a document are those of its place in the joint
\* session history: where the last of its diffs behind the present leads, and
\* where the next one ahead starts.  This is about documents that only pushState
\* and traversals take from place to place and that were never discarded.
StateMatchesHistory ==
    \A t \in DOMAIN browsers : \A p \in DOMAIN pipelines :
      LET h == browsers[t].history
          mine(d) == d.kind # "context" /\ d.reloader = No(p)
          at == [state |-> pipelines[p].state, url |-> pipelines[p].url]
          i == SelectLastInSeq(h.past, mine)
          j == SelectLastInSeq(h.future, mine)
      IN  /\ i # 0 => h.past[i].new = at
          /\ j # 0 => h.future[j].old = at
-----------------------------------------------------------------------------
(* What the comments in the code say, and the code does not guarantee. *)

\* browsingcontext.rs on pipeline_id: "The pipeline for the current session
\* history entry."  With no load under way in a context, its current document
\* is where the last diff behind the present leads, and where the next starts.
HistoryMatchesCurrent ==
    \A b \in DOMAIN contexts :
      (/\ contexts[b].top \in DOMAIN browsers
       /\ \A ch \in pending : ch.context # b) =>
        LET h == browsers[contexts[b].top].history
            mine(d) == d.kind = "context" /\ d.context = b
            i == SelectLastInSeq(h.past, mine)
            j == SelectLastInSeq(h.future, mine)
        IN  /\ i # 0 => h.past[i].new = No(contexts[b].pipeline)
            /\ j # 0 => h.future[j].old = No(contexts[b].pipeline)

\* browsingcontext.rs on pipelines: "All the pipelines that have been presented
\* or will be presented in this browsing context."  That includes the one that
\* is presented now.
CurrentIsListed ==
    \A b \in DOMAIN contexts : contexts[b].pipeline \in contexts[b].pipelines

\* constellation.rs: "a forest whose roots are top-level browsing context": the
\* document around a nested context is there, and in an open context itself.
RootsAreTopLevel ==
    \A b \in DOMAIN contexts \ Tops :
      /\ contexts[b].parent \in DOMAIN pipelines
      /\ pipelines[contexts[b].parent].context \in DOMAIN contexts

\* handle_close_top_level_browsing_context: "#bcg-remove".  A step that closes
\* the browser of an open top-level context leaves it in no group.
GroupsHoldBrowsers ==
    [][\A t \in DOMAIN browsers \cap DOMAIN contexts :
         t \notin DOMAIN browsers' => \A g \in groups' : t \notin g]_vars
=============================================================================
