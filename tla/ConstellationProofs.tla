------------------------ MODULE ConstellationProofs ------------------------
(***************************************************************************)
(* Shutdown is final: whatever messages are in flight when handle_exit     *)
(* runs, and whatever the script threads, the embedder and the spawning    *)
(* of processes do afterwards, no context is made and no pipeline is left  *)
(* that was not told to exit.                                              *)
(*                                                                         *)
(* The invariant that is inductive, Sound, is stated of the state as one   *)
(* record, as the handlers are.  It adds to ShutdownIsFinal that no        *)
(* pending change leads to a pipeline of the map during shutdown, so that  *)
(* no late ActivateDocument opens a context, and that PipelineId::new()    *)
(* returns ids the map does not hold.  Most functions a handler calls are  *)
(* Quiet: they make nothing.  The others are looked at one by one.         *)
(***************************************************************************)
EXTENDS Constellation, FiniteSetTheorems, LeastNumber, TLAPS

Fields == {"pipelines", "contexts", "pending", "browsers", "groups", "active",
           "shown", "approvals", "shuttingDown", "next", "opened"}

Sound(c) ==
    /\ DOMAIN c = Fields
    /\ c.next \in Nat
    /\ c.shuttingDown \in BOOLEAN
    /\ \A p \in DOMAIN c.pipelines :
         /\ p \in Nat /\ p < c.next
         /\ "exiting" \in DOMAIN c.pipelines[p]
         /\ c.pipelines[p].exiting \in BOOLEAN
    /\ c.shuttingDown =>
         /\ DOMAIN c.contexts = {}
         /\ \A p \in DOMAIN c.pipelines : c.pipelines[p].exiting
         /\ \A ch \in c.pending : ch.pipeline \notin DOMAIN c.pipelines

\* d comes from c without anything being made.
Quiet(c, d) ==
    /\ DOMAIN d = DOMAIN c
    /\ d.next = c.next
    /\ d.shuttingDown = c.shuttingDown
    /\ DOMAIN d.pipelines = DOMAIN c.pipelines
    /\ \A p \in DOMAIN c.pipelines :
         /\ "exiting" \in DOMAIN d.pipelines[p]
         /\ d.pipelines[p].exiting \in BOOLEAN
         /\ c.pipelines[p].exiting => d.pipelines[p].exiting
    /\ DOMAIN d.contexts \subseteq DOMAIN c.contexts
    /\ d.pending \subseteq c.pending

\* A function that makes nothing keeps the invariant.
LEMMA QuietSound ==
    ASSUME NEW c, NEW d, Sound(c), Quiet(c, d)
    PROVE  Sound(d) /\ d.shuttingDown = c.shuttingDown
  BY DEF Sound, Quiet

\* Two such functions, one after the other, make nothing.
LEMMA QuietTrans ==
    ASSUME NEW c, NEW d, NEW e, Quiet(c, d), Quiet(d, e)
    PROVE  Quiet(c, e)
  BY DEF Quiet

\* To do nothing is to make nothing.
LEMMA QuietRefl ==
    ASSUME NEW c, Sound(c)
    PROVE  Quiet(c, c)
  BY DEF Sound, Quiet

\* set_activity makes nothing.
LEMMA SetActivityQuiet ==
    ASSUME NEW c, Sound(c), NEW p, NEW a
    PROVE  Quiet(c, SetActivity(c, p, a))
  BY DEF Sound, Quiet, SetActivity, Fields, Live

\* update_activity makes nothing.
LEMMA UpdateActivityQuiet ==
    ASSUME NEW c, Sound(c), NEW p
    PROVE  Quiet(c, UpdateActivity(c, p))
  BY SetActivityQuiet DEF UpdateActivity

\* Writing a joint session history makes no pipeline and no context.
LEMMA SetHistoryQuiet ==
    ASSUME NEW c, Sound(c), NEW t, NEW h
    PROVE  Quiet(c, SetHistory(c, t, h))
  BY DEF Sound, Quiet, SetHistory, Fields

\* Sending a frame tree makes nothing.
LEMMA UpdateFrameTreeQuiet ==
    ASSUME NEW c, Sound(c), NEW t
    PROVE  Quiet(c, SendFrameTree(c, t)) /\ Quiet(c, UpdateFrameTree(c, t))
  BY DEF Sound, Quiet, SendFrameTree, UpdateFrameTree, Fields, Open, Live

\* close_pipeline and close_browsing_context make nothing, and close at least
\* what they are asked to.
LEMMA CloseQuiet ==
    ASSUME NEW c, Sound(c), NEW ps, NEW bs
    PROVE  Quiet(c, Close(c, ps, bs))
  BY DEF Sound, Quiet, Close, Fields, Open, Live

\* trim_history makes nothing.
LEMMA TrimHistoryQuiet ==
    ASSUME NEW c, Sound(c), NEW t
    PROVE  Quiet(c, TrimHistory(c, t))
  BY CloseQuiet, SetHistoryQuiet, QuietSound, QuietTrans DEF TrimHistory

\* update_pipeline makes nothing.
LEMMA UpdatePipelinesQuiet ==
    ASSUME NEW c, Sound(c), NEW changes
    PROVE  Quiet(c, UpdatePipelines(c, changes))
  BY DEF Sound, Quiet, UpdatePipelines, Fields, Live

\* Moving the focus makes nothing.
LEMMA MoveFocusQuiet ==
    ASSUME NEW c, Sound(c), NEW ch
    PROVE  Quiet(c, MoveFocus(c, ch))
  BY DEF Sound, Quiet, MoveFocus, Fields
-----------------------------------------------------------------------------
(* What makes pipelines, pending changes and contexts. *)

\* new_pipeline makes nothing during shutdown, and the id it uses up is then in
\* no map.
LEMMA NewPipelineSound ==
    ASSUME NEW c, Sound(c), NEW b, NEW t, NEW u, NEW spawned \in BOOLEAN
    PROVE  LET d == NewPipeline(c, b, t, u, spawned)
           IN  /\ Sound(d)
               /\ d.shuttingDown = c.shuttingDown
               /\ d.shuttingDown => c.next \notin DOMAIN d.pipelines
  <1>1. CASE c.shuttingDown \/ ~ spawned
    <2>1. NewPipeline(c, b, t, u, spawned) = [c EXCEPT !.next = c.next + 1]
      BY <1>1 DEF NewPipeline
    <2> QED BY <2>1 DEF Sound, Fields
  <1>2. CASE ~ (c.shuttingDown \/ ~ spawned)
    <2> DEFINE d == [c EXCEPT !.pipelines = Put(c.pipelines, c.next,
                                                NewPipelineRecord(b, t, u)),
                              !.next = c.next + 1]
    <2>1. NewPipeline(c, b, t, u, spawned) = d
      BY <1>2 DEF NewPipeline
    <2>2. /\ DOMAIN d = Fields /\ d.next = c.next + 1
          /\ d.shuttingDown = c.shuttingDown
          /\ d.pipelines = Put(c.pipelines, c.next, NewPipelineRecord(b, t, u))
      BY DEF Sound, Fields
    <2>3. ~ d.shuttingDown
      BY <1>2, <2>2
    <2> HIDE DEF d
    <2>4. ASSUME NEW p \in DOMAIN d.pipelines
          PROVE  /\ p \in Nat /\ p < d.next
                 /\ "exiting" \in DOMAIN d.pipelines[p]
                 /\ d.pipelines[p].exiting \in BOOLEAN
      <3>1. CASE p = c.next
        <4>1. d.pipelines[p] = NewPipelineRecord(b, t, u)
          BY <2>2, <3>1 DEF Put
        <4>2. c.next \in Nat
          BY DEF Sound
        <4>3. "exiting" \in DOMAIN d.pipelines[p] /\ d.pipelines[p].exiting \in BOOLEAN
          BY <4>1 DEF NewPipelineRecord
        <4>4. p \in Nat /\ p < d.next
          BY <2>2, <3>1, <4>2
        <4> QED BY <4>3, <4>4
      <3>2. CASE p # c.next
        <4>1. p \in DOMAIN c.pipelines /\ d.pipelines[p] = c.pipelines[p]
          BY <2>2, <3>2 DEF Put
        <4> QED BY <2>2, <4>1 DEF Sound
      <3> QED BY <3>1, <3>2
    <2>5. Sound(d)
      BY <2>2, <2>3, <2>4 DEF Sound
    <2> QED BY <2>1, <2>2, <2>3, <2>5
  <1> QED BY <1>1, <1>2

\* add_pending_change, during shutdown for a pipeline that was not made.
LEMMA AddPendingChangeSound ==
    ASSUME NEW c, Sound(c), NEW b, NEW t, NEW p, NEW r, NEW i,
           c.shuttingDown => p \notin DOMAIN c.pipelines
    PROVE  LET d == AddPendingChange(c, b, t, p, r, i)
           IN  Sound(d) /\ d.shuttingDown = c.shuttingDown
  BY DEF Sound, AddPendingChange, Fields

\* A handler that starts a load keeps the invariant.
LEMMA StartLoadSound ==
    ASSUME NEW c, Sound(c), NEW b, NEW t, NEW u, NEW r, NEW i,
           NEW spawned \in BOOLEAN
    PROVE  LET d == StartLoad(c, b, t, u, r, i, spawned)
           IN  Sound(d) /\ d.shuttingDown = c.shuttingDown
  BY NewPipelineSound, AddPendingChangeSound DEF StartLoad

\* load_url keeps it.
LEMMA LoadUrlFromSound ==
    ASSUME NEW c, Sound(c), NEW t, NEW p, NEW u, NEW r, NEW spawned \in BOOLEAN
    PROVE  Sound(LoadUrlFrom(c, t, p, u, r, spawned))
  BY StartLoadSound DEF LoadUrlFrom

\* new_browsing_context is called only before shutdown.
LEMMA NewBrowsingContextSound ==
    ASSUME NEW c, Sound(c), ~ c.shuttingDown, NEW b, NEW t, NEW p, NEW parent
    PROVE  Sound(NewBrowsingContext(c, b, t, p, parent))
  BY DEF Sound, NewBrowsingContext, Fields, Live

\* change_session_history, before shutdown.
LEMMA CommitInContextSound ==
    ASSUME NEW c, Sound(c), ~ c.shuttingDown, NEW ch, ch.context \in Open(c)
    PROVE  Sound(CommitInContext(c, ch))
  <1> DEFINE old == c.contexts[ch.context].pipeline
             c1 == [c EXCEPT !.contexts[ch.context].pipeline = ch.pipeline,
                             !.contexts[ch.context].pipelines = @ \cup {ch.pipeline},
                             !.pipelines = IF old \in Live(c)
                               THEN [@ EXCEPT ![old].unloading = TRUE] ELSE @]
  <1>1. Sound(c1)
    BY DEF Sound, Fields, Live
  <1> HIDE DEF c1
  <1> QED BY <1>1, SetHistoryQuiet, UpdateActivityQuiet, CloseQuiet, TrimHistoryQuiet,
             UpdateFrameTreeQuiet, QuietSound DEF CommitInContext, c1

\* change_session_history, also for a context that is still to be made.
LEMMA ChangeSessionHistorySound ==
    ASSUME NEW c, Sound(c), ~ c.shuttingDown, NEW ch
    PROVE  Sound(ChangeSessionHistory(c, ch))
  BY MoveFocusQuiet, CommitInContextSound, NewBrowsingContextSound,
     UpdateActivityQuiet, UpdateFrameTreeQuiet, QuietSound
     DEF ChangeSessionHistory
-----------------------------------------------------------------------------
(* Traversal: update_browsing_context in a loop. *)

\* update_browsing_context either starts a load or makes nothing.
LEMMA UpdateBrowsingContextSound ==
    ASSUME NEW c, Sound(c), NEW b, NEW r, NEW spawned \in BOOLEAN
    PROVE  LET d == UpdateBrowsingContext(c, b, r, spawned)
           IN  Sound(d) /\ d.shuttingDown = c.shuttingDown
  <1>1. CASE b \notin Open(c)
    BY <1>1 DEF UpdateBrowsingContext
  <1>2. CASE b \in Open(c) /\ ~ r.alive
    BY <1>2, StartLoadSound DEF UpdateBrowsingContext
  <1>3. CASE b \in Open(c) /\ r.alive
    <2> DEFINE old == c.contexts[b].pipeline
               d == [c EXCEPT !.contexts[b].pipeline = r.pipeline]
               e == UpdateActivity(d, old)
    <2>1. Quiet(c, d)
      BY DEF Sound, Quiet, Fields
    <2>2. UpdateBrowsingContext(c, b, r, spawned) = UpdateActivity(e, r.pipeline)
      BY <1>3 DEF UpdateBrowsingContext
    <2> HIDE DEF d
    <2> QED BY <2>1, <2>2, UpdateActivityQuiet, QuietSound
  <1> QED BY <1>1, <1>2, <1>3

\* The loop over browsing_context_changes keeps the invariant.  The first turn
\* that did not exist, or did not keep it, would follow one that does.
LEMMA UpdateBrowsingContextsSound ==
    ASSUME NEW c, Sound(c), NEW to, NEW spawned \in BOOLEAN
    PROVE  LET d == UpdateBrowsingContexts(c, to, spawned)
           IN  Sound(d) /\ d.shuttingDown = c.shuttingDown
  <1> DEFINE K == Cardinality(ContextIds)
             b(i) == SetToSeq(ContextIds)[i]
             Turn(d, i) == IF b(i) \in DOMAIN to
                             THEN UpdateBrowsingContext(d, b(i), to[b(i)], spawned)
                             ELSE d
             IsDrain(f, k) == f = [i \in 0 .. k |-> IF i = 0 THEN c
                                                    ELSE Turn(f[i - 1], i)]
             drain == CHOOSE f : IsDrain(f, K)
             Kept(d) == Sound(d) /\ d.shuttingDown = c.shuttingDown
  <1>1. K \in Nat
    BY ContextsAssumption, FS_CardinalityType DEF ContextIds
  <1>2. UpdateBrowsingContexts(c, to, spawned) = drain[K]
    BY Zenon DEF UpdateBrowsingContexts
  <1>3. \A d, i : Kept(d) => Kept(Turn(d, i))
    BY UpdateBrowsingContextSound
  <1>4. Kept(c)
    OBVIOUS
  <1> HIDE DEF K, Turn, Kept
  <1>5. \A k \in Nat : \E f : IsDrain(f, k)
    <2> DEFINE S == {k \in Nat : ~ \E f : IsDrain(f, k)}
    <2>1. SUFFICES ASSUME S # {} PROVE FALSE
      OBVIOUS
    <2>2. PICK m \in S : \A k \in S : m <= k
      BY <2>1, LeastNatural
    <2>3. m # 0
      <3>1. IsDrain([i \in 0 .. 0 |-> c], 0)
        OBVIOUS
      <3> QED BY <2>2, <3>1
    <2>4. m - 1 \in Nat /\ m - 1 \notin S
      <3>1. m \in Nat /\ m - 1 \in Nat /\ ~ (m <= m - 1)
        BY <2>3
      <3> HIDE DEF S
      <3> QED BY <2>2, <3>1
    <2>5. PICK f : IsDrain(f, m - 1)
      BY <2>4
    <2> DEFINE g == [i \in 0 .. m |-> IF i = m THEN Turn(f[m - 1], m) ELSE f[i]]
    <2>6. IsDrain(g, m)
      <3>1. ASSUME NEW i \in 0 .. m
            PROVE  g[i] = IF i = 0 THEN c ELSE Turn(g[i - 1], i)
        <4>1. CASE i = m
          BY <2>3, <2>4, <4>1
        <4>2. CASE i # m
          <5>1. i \in 0 .. (m - 1) /\ (i # 0 => i - 1 \in 0 .. m /\ i - 1 # m)
            BY <4>2, <2>4
          <5> QED BY <4>2, <5>1, <2>5
        <4> QED BY <4>1, <4>2
      <3> QED BY <3>1
    <2> QED BY <2>2, <2>6
  <1>6. IsDrain(drain, K)
    BY <1>1, <1>5
  <1> HIDE DEF drain
  <1>7. Kept(drain[K])
    <2> DEFINE S == {i \in 0 .. K : ~ Kept(drain[i])}
    <2>1. SUFFICES ASSUME S # {} PROVE FALSE
      BY <1>1
    <2>2. PICK m \in S : \A k \in S : m <= k
      <3>1. S \in SUBSET Nat
        BY <1>1
      <3> HIDE DEF S
      <3> QED BY <2>1, <3>1, LeastNatural
    <2>3. m # 0
      BY <1>1, <1>4, <1>6, <2>2
    <2>4. m - 1 \in 0 .. K /\ m - 1 \notin S
      BY <1>1, <2>2, <2>3
    <2>5. drain[m] = Turn(drain[m - 1], m)
      BY <1>6, <2>2, <2>3
    <2> QED BY <1>3, <2>2, <2>4, <2>5
  <1> QED BY <1>2, <1>7 DEF Kept

\* handle_traverse_history_msg keeps the invariant.
LEMMA TraverseHistoryBySound ==
    ASSUME NEW c, Sound(c), NEW t, NEW side, NEW n, NEW spawned \in BOOLEAN
    PROVE  Sound(TraverseHistoryBy(c, t, side, n, spawned))
  BY SetHistoryQuiet, UpdateBrowsingContextsSound, UpdatePipelinesQuiet,
     TrimHistoryQuiet, UpdateFrameTreeQuiet, QuietSound DEF TraverseHistoryBy
-----------------------------------------------------------------------------
(* The messages. *)

Inv == Sound(Now)

\* A handler that leads to a sound record leads to a sound state.
LEMMA BecomesSound ==
    ASSUME NEW STATE c, Sound(c), Becomes(c)
    PROVE  Inv'
  BY DEF Inv, Sound, Now, Becomes, Fields

\* The messages of the embedder and the compositor keep the invariant.
LEMMA FromEmbedderSound ==
    ASSUME Inv, FromEmbedder
    PROVE  Inv'
  <1> USE DEF Inv
  <1>0. \A ok \in SpawnOutcomes : ok \in BOOLEAN
    BY DEF SpawnOutcomes
  <1>1. ASSUME NEW t \in Tops, NEW u \in Urls, NEW ok \in SpawnOutcomes,
               NewBrowser(t, u, ok)
        PROVE  Inv'
    <2> DEFINE c == [Now EXCEPT !.browsers = Put(@, t, NewBrowserOf(t)),
                                !.groups = @ \cup {{t}},
                                !.opened = @ \cup {t}]
    <2>1. Sound(c)
      BY DEF Sound, Now, Fields
    <2>2. Becomes(StartLoad(c, t, t, u, None, [parent |-> None], ok))
      BY <1>1 DEF NewBrowser
    <2> HIDE DEF c
    <2> QED BY <1>0, <2>1, <2>2, StartLoadSound, BecomesSound
  <1>2. ASSUME NEW t \in Tops, NEW u \in Urls, NEW ok \in SpawnOutcomes,
               LoadUrl(t, u, ok)
        PROVE  Inv'
    BY <1>0, <1>2, LoadUrlFromSound, BecomesSound DEF LoadUrl
  <1>3. ASSUME NEW t \in Tops, CloseBrowser(t)
        PROVE  Inv'
    <2> DEFINE d == Close(Now, {}, {t})
               e == [d EXCEPT !.browsers = Drop(@, {t}),
                              !.active = IF @ = t THEN None ELSE @]
               f == [e EXCEPT !.groups = IF t \in Open(e) THEN {g \in @ : t \notin g}
                                         ELSE @]
    <2>1. Sound(d)
      BY CloseQuiet, QuietSound
    <2>2. Becomes(f)
      BY <1>3 DEF CloseBrowser, CloseBrowserOf
    <2> HIDE DEF d
    <2>3. Sound(e)
      BY <2>1 DEF Sound, Fields
    <2> HIDE DEF e
    <2>4. Sound(f)
      BY <2>3 DEF Sound, Fields
    <2> HIDE DEF f
    <2> QED BY <2>2, <2>4, BecomesSound
  <1>4. ASSUME NEW t \in Tops, SelectBrowser(t)
        PROVE  Inv'
    BY <1>4, UpdateFrameTreeQuiet, QuietSound, BecomesSound DEF SelectBrowser
  <1>5. ASSUME NEW t \in Tops, NEW ok \in SpawnOutcomes, Panic(t, ok)
        PROVE  Inv'
    <2>1. Sound(HandlePanic(Now, t, ok))
      BY <1>0, CloseQuiet, QuietSound, StartLoadSound DEF HandlePanic
    <2> QED BY <1>5, <2>1, BecomesSound DEF Panic
  <1>6. ASSUME NEW t \in Tops, NEW side \in {"old", "new"}, NEW n \in 1 .. MaxJump,
               NEW ok \in SpawnOutcomes, TraverseHistory(t, side, n, ok)
        PROVE  Inv'
    BY <1>0, <1>6, TraverseHistoryBySound, BecomesSound DEF TraverseHistory
  <1>7. ASSUME NEW p \in PipelineIds, NEW allowed \in BOOLEAN,
               NEW ok \in SpawnOutcomes, AllowNavigationResponse(p, allowed, ok)
        PROVE  Inv'
    <2> DEFINE c == [Now EXCEPT !.approvals = Drop(@, {p})]
               d == LoadUrlFrom(c, c.pipelines[p].top, p, approvals[p].url,
                                approvals[p].replace, ok)
    <2>1. Sound(c)
      BY DEF Sound, Now, Fields
    <2>2. Sound(d)
      <3> HIDE DEF c
      <3> QED BY <1>0, <2>1, LoadUrlFromSound
    <2>3. Becomes(IF p \in Live(c) /\ allowed THEN d ELSE c)
      BY <1>7 DEF AllowNavigationResponse
    <2> HIDE DEF c, d
    <2> QED BY <2>1, <2>2, <2>3, BecomesSound
  <1>8. ASSUME Exit
        PROVE  Inv'
    <2> DEFINE c == [Now EXCEPT !.shuttingDown = TRUE]
               all == Open(c) \cup {ch.context : ch \in c.pending}
               d == [Close(c, Live(c), all) EXCEPT !.pending = {}]
    <2>1. Becomes(d)
      BY <1>8 DEF Exit
    <2>2. /\ DOMAIN c = Fields /\ c.next \in Nat /\ c.shuttingDown = TRUE
          /\ \A p \in DOMAIN c.pipelines :
               /\ p \in Nat /\ p < c.next
               /\ "exiting" \in DOMAIN c.pipelines[p]
               /\ c.pipelines[p].exiting \in BOOLEAN
      BY DEF Sound, Now, Fields
    <2> HIDE DEF c
    <2>3. Sound(d)
      BY <2>2 DEF Sound, Close, Fields, Beneath, Live, Open
    <2> HIDE DEF d
    <2> QED BY <2>1, <2>3, BecomesSound
  <1> QED BY <1>1, <1>2, <1>3, <1>4, <1>5, <1>6, <1>7, <1>8 DEF FromEmbedder

\* The messages of a script thread keep the invariant.
LEMMA FromScriptSound ==
    ASSUME Inv, NEW p \in PipelineIds, FromScript(p)
    PROVE  Inv'
  <1> USE DEF Inv
  <1>0. \A ok \in SpawnOutcomes : ok \in BOOLEAN
    BY DEF SpawnOutcomes
  <1>1. ASSUME NEW b \in Frames, NEW u \in Urls, ScriptNewIFrame(p, b, u)
        PROVE  Inv'
    <2> DEFINE c == [Now EXCEPT !.opened = @ \cup {b}]
               t == pipelines[p].top
               d == [c EXCEPT !.pipelines = Put(@, c.next, NewPipelineRecord(b, t, u)),
                              !.next = @ + 1]
               e == AddPendingChange(d, b, t, c.next, None, [parent |-> p])
    <2>1. Sound(c) /\ c.shuttingDown = shuttingDown /\ Open(c) = DOMAIN contexts
      BY DEF Sound, Now, Fields, Open
    <2>2. Becomes(IF pipelines[p].context \notin Open(c) THEN c ELSE e)
      BY <1>1 DEF ScriptNewIFrame
    <2> HIDE DEF c
    <2>3. CASE pipelines[p].context \in Open(c)
      <3>1. ~ c.shuttingDown
        BY <2>1, <2>3 DEF Sound, Now, Open
      <3>2. d = NewPipeline(c, b, t, u, TRUE)
        BY <3>1 DEF NewPipeline
      <3> HIDE DEF d, t
      <3>3. Sound(e)
        BY <2>1, <3>1, <3>2, NewPipelineSound, AddPendingChangeSound
      <3> HIDE DEF e
      <3> QED BY <2>2, <2>3, <3>3, BecomesSound
    <2> QED BY <2>1, <2>2, <2>3, BecomesSound
  <1>2. ASSUME NEW b \in Frames, NEW old \in PipelineIds \cup {None}, NEW u \in Urls,
               NEW replace \in BOOLEAN, NEW ok \in SpawnOutcomes,
               ScriptLoadedURLInIFrame(p, b, old, u, replace, ok)
        PROVE  Inv'
    BY <1>0, <1>2, StartLoadSound, BecomesSound DEF ScriptLoadedURLInIFrame
  <1>3. ASSUME NEW t \in Tops, NEW u \in Urls, ScriptNewAuxiliary(p, t, u)
        PROVE  Inv'
    <2> DEFINE c == [Now EXCEPT !.opened = @ \cup {t}]
               n == [c EXCEPT !.pipelines = Put(@, c.next, NewPipelineRecord(t, t, u)),
                              !.next = @ + 1]
               d == [c EXCEPT !.pipelines = Put(@, c.next, NewPipelineRecord(t, t, u)),
                              !.next = @ + 1,
                              !.browsers = Put(@, t, NewBrowserOf(t))]
               top == c.contexts[pipelines[p].context].top
               group == {g \in d.groups : top \in g}
               e == [d EXCEPT !.groups = (@ \ group) \cup {g \cup {t} : g \in group}]
               f == AddPendingChange(e, t, t, c.next, None, [parent |-> None])
    <2>1. Sound(c) /\ c.shuttingDown = shuttingDown /\ Open(c) = DOMAIN contexts
      BY DEF Sound, Now, Fields, Open
    <2>2. Becomes(IF pipelines[p].context \notin Open(c) THEN c
                  ELSE IF group = {} THEN d ELSE f)
      BY <1>3 DEF ScriptNewAuxiliary
    <2> HIDE DEF c
    <2>3. CASE pipelines[p].context \in Open(c)
      <3>1. ~ c.shuttingDown
        BY <2>1, <2>3 DEF Sound, Now, Open
      <3>2. n = NewPipeline(c, t, t, u, TRUE)
        BY <3>1 DEF NewPipeline
      <3>3. d = [n EXCEPT !.browsers = Put(@, t, NewBrowserOf(t))]
        BY <2>1 DEF Sound, Fields
      <3> HIDE DEF n, d
      <3>4. Sound(n) /\ ~ n.shuttingDown
        BY <2>1, <3>1, <3>2, NewPipelineSound
      <3>5. Sound(d) /\ ~ d.shuttingDown
        BY <3>3, <3>4 DEF Sound, Fields
      <3> HIDE DEF group
      <3>6. Sound(e) /\ ~ e.shuttingDown
        BY <3>5 DEF Sound, Fields
      <3> HIDE DEF e
      <3>7. Sound(f)
        BY <3>6, AddPendingChangeSound
      <3> HIDE DEF f
      <3> QED BY <2>2, <2>3, <3>5, <3>7, BecomesSound
    <2> QED BY <2>1, <2>2, <2>3, BecomesSound
  <1>4. ASSUME NEW u \in Urls, NEW replace \in BOOLEAN,
               ScheduleNavigation(p, u, replace)
        PROVE  Inv'
    <2> DEFINE c == [Now EXCEPT !.approvals = Put(@, p, [url |-> u, replace |-> replace])]
    <2>1. Sound(c)
      BY DEF Sound, Now, Fields
    <2>2. Becomes(c)
      BY <1>4 DEF ScheduleNavigation
    <2> HIDE DEF c
    <2> QED BY <2>1, <2>2, BecomesSound
  <1>5. ASSUME NEW u \in Urls, NEW replace \in BOOLEAN,
               NavigatedToFragment(p, u, replace)
        PROVE  Inv'
    <2> DEFINE c == [Now EXCEPT !.pipelines[p].url = u]
               t == pipelines[p].top
               h == PushDiff(HistoryOf(c, t), HashDiff(p, pipelines[p].url, u))
    <2>1. Sound(c)
      BY DEF Sound, Now, Fields
    <2>2. Becomes(IF replace THEN c ELSE SetHistory(c, t, h))
      BY <1>5 DEF NavigatedToFragment
    <2> HIDE DEF c, h, t
    <2> QED BY <2>1, <2>2, SetHistoryQuiet, QuietSound, BecomesSound
  <1>6. ASSUME NEW s \in States, NEW u \in Urls,
               PushHistoryState(p, s, u) \/ ReplaceState(p, s, u)
        PROVE  Inv'
    <2> DEFINE c == [Now EXCEPT !.pipelines[p].url = u, !.pipelines[p].state = s]
               t == pipelines[p].top
               h == PushDiff(HistoryOf(c, t), PipelineDiff(p, pipelines[p].state,
                                                pipelines[p].url, s, u))
               g == ReplaceHistoryState(HistoryOf(c, t), p, s, u)
    <2>1. Sound(c)
      BY DEF Sound, Now, Fields
    <2>2. Becomes(SetHistory(c, t, h)) \/ Becomes(SetHistory(c, t, g))
      BY <1>6 DEF PushHistoryState, ReplaceState
    <2> HIDE DEF c, h, g, t
    <2> QED BY <2>1, <2>2, SetHistoryQuiet, QuietSound, BecomesSound
  <1>7. ASSUME AbortLoadUrl(p)
        PROVE  Inv'
    <2> DEFINE c == [Now EXCEPT !.pipelines[p].stage = "aborted"]
               d == [c EXCEPT !.pending = @ \ ChangesTo(p)]
    <2>1. Sound(c)
      BY DEF Sound, Now, Fields
    <2>2. Becomes(IF ChangesTo(p) = {} THEN c ELSE Close(d, {p}, {}))
      BY <1>7 DEF AbortLoadUrl
    <2> HIDE DEF c
    <2>3. Sound(d)
      BY <2>1 DEF Sound, Fields
    <2> HIDE DEF d
    <2> QED BY <2>1, <2>2, <2>3, CloseQuiet, QuietSound, BecomesSound
  <1>8. ASSUME ActivateDocument(p)
        PROVE  Inv'
    <2> DEFINE c == [Now EXCEPT !.pipelines[p].stage = "document"]
               change == CHOOSE ch \in ChangesTo(p) : TRUE
               d == [c EXCEPT !.pending = @ \ {change}]
               e == ChangeSessionHistory(d, change)
    <2>1. Sound(c) /\ c.shuttingDown = shuttingDown
      BY DEF Sound, Now, Fields
    <2>2. Becomes(IF ChangesTo(p) = {} THEN c
                  ELSE IF change.info = None /\ change.context \notin Open(d)
                    THEN d ELSE e)
      BY <1>8 DEF ActivateDocument
    <2> HIDE DEF c, change
    <2>3. Sound(d) /\ d.shuttingDown = c.shuttingDown
      BY <2>1 DEF Sound, Fields
    <2> HIDE DEF d
    <2>4. CASE ChangesTo(p) = {}
      BY <2>1, <2>2, <2>4, BecomesSound
    <2>5. CASE ChangesTo(p) # {}
      <3>1. ~ shuttingDown
        BY <1>8, <2>5 DEF ActivateDocument, Loading, ChangesTo, Sound, Now
      <3>2. Sound(e)
        BY <2>1, <2>3, <3>1, ChangeSessionHistorySound
      <3> HIDE DEF e
      <3> QED BY <2>2, <2>3, <2>5, <3>2, BecomesSound
    <2> QED BY <2>4, <2>5
  <1>9. ASSUME LoadComplete(p)
        PROVE  Inv'
    <2> DEFINE c == [Now EXCEPT !.pipelines[p].loaded = TRUE]
    <2>1. Sound(c)
      BY DEF Sound, Now, Fields
    <2>2. Becomes(c)
      BY <1>9 DEF LoadComplete
    <2> HIDE DEF c
    <2> QED BY <2>1, <2>2, BecomesSound
  <1>10. ASSUME DiscardDocument(p)
         PROVE  Inv'
    <2> DEFINE c == [Now EXCEPT !.pipelines[p].unloading = FALSE]
               t == pipelines[p].top
               h == ReplaceReloader(HistoryOf(c, t), No(p), Yes(p, pipelines[p].load))
    <2>1. Sound(c)
      BY DEF Sound, Now, Fields
    <2>2. Becomes(IF t \notin DOMAIN browsers THEN c
                  ELSE Close(SetHistory(c, t, h), {p}, {}))
      BY <1>10 DEF DiscardDocument
    <2> HIDE DEF c, h, t
    <2> QED BY <2>1, <2>2, SetHistoryQuiet, CloseQuiet, QuietSound, BecomesSound
  <1>11. ASSUME NEW b \in Frames, RemoveIFrame(p, b)
         PROVE  Inv'
    BY <1>11, CloseQuiet, QuietSound, BecomesSound DEF RemoveIFrame
  <1>12. ASSUME Focus(p)
         PROVE  Inv'
    <2> DEFINE c == [Now EXCEPT !.browsers[pipelines[p].top].focused =
                                  pipelines[p].context]
    <2>1. Sound(c)
      BY DEF Sound, Now, Fields
    <2>2. Becomes(c)
      BY <1>12 DEF Focus
    <2> HIDE DEF c
    <2> QED BY <2>1, <2>2, BecomesSound
  <1>13. ASSUME NEW u \in Urls, SetFinalUrl(p, u)
         PROVE  Inv'
    <2> DEFINE c == [Now EXCEPT !.pipelines[p].url = u]
    <2>1. Sound(c)
      BY DEF Sound, Now, Fields
    <2>2. Becomes(c)
      BY <1>13 DEF SetFinalUrl
    <2> HIDE DEF c
    <2> QED BY <2>1, <2>2, BecomesSound
  <1>14. ASSUME PipelineExited(p)
         PROVE  Inv'
    <2> DEFINE c == [Now EXCEPT !.pipelines = Drop(@, {p})]
    <2>1. Sound(c)
      BY DEF Sound, Now, Fields, Drop
    <2>2. Becomes(c)
      BY <1>14 DEF PipelineExited
    <2> HIDE DEF c
    <2> QED BY <2>1, <2>2, BecomesSound
  <1> QED BY <1>1, <1>2, <1>3, <1>4, <1>5, <1>6, <1>7, <1>8, <1>9, <1>10, <1>11,
             <1>12, <1>13, <1>14 DEF FromScript

\* Once handle_exit has run, whatever messages were in flight and whatever comes
\* later, no context is made, and every pipeline left was told to exit.
THEOREM ShutdownFinal == Spec => []ShutdownIsFinal
  <1>1. Init => Inv
    <2> SUFFICES ASSUME Init PROVE Sound(Now)
      BY DEF Inv
    <2>1. /\ DOMAIN Now.pipelines = {} /\ Now.next \in Nat
          /\ Now.shuttingDown \in BOOLEAN /\ ~ Now.shuttingDown
      <3>1. /\ Now.pipelines = pipelines /\ Now.next = next
            /\ Now.shuttingDown = shuttingDown
        BY DEF Now
      <3>2. DOMAIN pipelines = {} /\ next \in Nat
        BY DEF Init
      <3>3. shuttingDown = FALSE
        BY DEF Init
      <3> QED BY <3>1, <3>2, <3>3, Zenon
    <2>2. DOMAIN Now = Fields
      BY DEF Now, Fields
    <2> QED BY <2>1, <2>2 DEF Sound
  <1>2. Inv /\ [Next]_vars => Inv'
    <2> SUFFICES ASSUME Inv, [Next]_vars PROVE Inv'
      OBVIOUS
    <2>1. CASE Next
      BY <2>1, FromEmbedderSound, FromScriptSound DEF Next
    <2>2. CASE UNCHANGED vars
      BY <2>2 DEF vars, Inv, Sound, Now
    <2> QED BY <2>1, <2>2
  <1>3. Inv => ShutdownIsFinal
    BY DEF Inv, Sound, Now, ShutdownIsFinal
  <1> QED BY <1>1, <1>2, <1>3, PTL DEF Spec
=============================================================================
