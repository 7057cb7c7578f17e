------------------------- MODULE JointSessionHistory -------------------------
(***************************************************************************)
(* The joint session history of one top-level browsing context             *)
(* (constellation/session_history.rs): two stacks of diffs, the past and   *)
(* the future, each with the entry nearest to the present at its end.      *)
(*                                                                         *)
(* A history is a record [past, future].  A diff has two sides, "old" for  *)
(* traversing into the past and "new" for traversing into the future; the  *)
(* sides of a context diff are reloaders, those of the others are the      *)
(* state and the url of one document.                                      *)
(***************************************************************************)
EXTENDS Naturals, Sequences, SequencesExt

CONSTANTS
    NoUrl,      \* the url field of a reloader that needs no LoadData
    NoState     \* history_state_id: None

\* enum NeedsToReload: a live document, or one to load again from its url.
No(p) == [alive |-> TRUE, pipeline |-> p, url |-> NoUrl]
Yes(p, u) == [alive |-> FALSE, pipeline |-> p, url |-> u]

\* Mutant: PartialEq compares the variants only.
SameReloaderVariant(r, q) == r.alive = q.alive

\* PartialEq for NeedsToReload ignores the LoadData.
SameReloader(r, q) == r.alive = q.alive /\ r.pipeline = q.pipeline

\* enum SessionHistoryDiff
BrowsingContextDiff(b, old, new) ==
    [kind |-> "context", context |-> b, old |-> old, new |-> new]
PipelineDiff(p, oldState, oldUrl, newState, newUrl) ==
    [kind |-> "state", reloader |-> No(p),
     old |-> [state |-> oldState, url |-> oldUrl],
     new |-> [state |-> newState, url |-> newUrl]]
HashDiff(p, oldUrl, newUrl) ==
    [kind |-> "hash", reloader |-> No(p),
     old |-> [state |-> NoState, url |-> oldUrl],
     new |-> [state |-> NoState, url |-> newUrl]]

EmptyHistory == [past |-> <<>>, future |-> <<>>]

\* JointSessionHistory::push_diff; the caller takes the old future from h.
PushDiff(h, d) == [past |-> Append(h.past, d), future |-> <<>>]

\* SessionHistoryDiff::replace_reloader: the diff with its reloaders replaced.
MapDiff(d, F(_)) ==
    IF d.kind = "context"
      THEN [d EXCEPT !.old = F(@), !.new = F(@)]
      ELSE [d EXCEPT !.reloader = F(@)]

MapReloaders(h, F(_)) ==
    [past   |-> [i \in DOMAIN h.past   |-> MapDiff(h.past[i], F)],
     future |-> [i \in DOMAIN h.future |-> MapDiff(h.future[i], F)]]

\* JointSessionHistory::replace_reloader
ReplaceReloader(h, old, new) ==
    MapReloaders(h, LAMBDA r : IF SameReloader(r, old) THEN new ELSE r)

\* replace_reloader(No(p), Yes(p, urls[p])) for every p of a set of pipelines.
Discard(h, urls) ==
    MapReloaders(h, LAMBDA r : IF r.alive /\ r.pipeline \in DOMAIN urls
                                 THEN Yes(r.pipeline, urls[r.pipeline])
                                 ELSE r)

\* JointSessionHistory::replace_history_state: `find` takes the first diff of
\* the vector in each stack, the one farthest from the present.
ReplaceHistoryState(h, p, s, u) ==
    LET mine(d) == d.kind = "state" /\ d.reloader = No(p)
        first(q) == SelectInSeq(q, mine)
        at == [state |-> s, url |-> u]
        set(q, side) == IF first(q) = 0 THEN q ELSE [q EXCEPT ![first(q)][side] = at]
    IN  [past |-> set(h.past, "new"), future |-> set(h.future, "old")]

\* Mutant: the entries ahead are kept.
RemoveEntriesBehind(h, cs) ==
    [past |-> SelectSeq(h.past, LAMBDA d : ~ (d.kind = "context" /\ d.context \in cs)),
     future |-> h.future]

\* JointSessionHistory::remove_entries_for_browsing_context, for contexts cs.
RemoveEntries(h, cs) ==
    LET keep(d) == ~ (d.kind = "context" /\ d.context \in cs)
    IN  [past |-> SelectSeq(h.past, keep), future |-> SelectSeq(h.future, keep)]
-----------------------------------------------------------------------------
\* Traversal.  side is "old" for back and "new" for forward.
Stack(h, side) == IF side = "old" THEN h.past ELSE h.future

\* Mutant: the diffs are crossed from the far end.
CrossedInOrder(h, side, n) ==
    LET s == Stack(h, side) IN SubSeq(s, Len(s) - n + 1, Len(s))

\* The n diffs traversed, in the order in which they are crossed.
Crossed(h, side, n) ==
    LET s == Stack(h, side) IN Reverse(SubSeq(s, Len(s) - n + 1, Len(s)))

\* The history once they are crossed (drain, and push onto the other stack).
Traversed(h, side, n) ==
    LET left(s) == SubSeq(s, 1, Len(s) - n)
    IN  IF side = "old"
          THEN [past |-> left(h.past), future |-> h.future \o Crossed(h, side, n)]
          ELSE [past |-> h.past \o Crossed(h, side, n), future |-> left(h.future)]

\* The last diff crossed that satisfies Test decides what a HashMap ends up
\* holding for its key.
LastDiff(ds, Test(_)) == ds[SelectLastInSeq(ds, Test)]

\* browsing_context_changes: the reloader each context is taken to.
ContextChanges(ds, side) ==
    LET diffs == {d \in Range(ds) : d.kind = "context"} IN
    [b \in {d.context : d \in diffs} |->
       LastDiff(ds, LAMBDA d : d.kind = "context" /\ d.context = b)[side]]

\* The diffs of one document, with the reloader the match arms look at.
DocumentDiffs(ds, alive) ==
    {d \in Range(ds) : d.kind # "context" /\ d.reloader.alive = alive}

\* pipeline_changes: a hash diff keeps the state that an earlier diff of the
\* same pipeline put there, and has none otherwise.
PipelineChanges(ds, side) ==
    [p \in {d.reloader.pipeline : d \in DocumentDiffs(ds, TRUE)} |->
       LET of(d) == d \in DocumentDiffs(ds, TRUE) /\ d.reloader.pipeline = p
           state(d) == of(d) /\ d.kind = "state"
       IN  [url |-> LastDiff(ds, of)[side].url,
            state |-> IF \E d \in Range(ds) : state(d)
                        THEN LastDiff(ds, state)[side].state ELSE NoState]]

\* url_to_load: where a discarded document is to be loaded again.
UrlToLoad(ds, side) ==
    [p \in {d.reloader.pipeline : d \in DocumentDiffs(ds, FALSE)} |->
       LastDiff(ds, LAMBDA d : d \in DocumentDiffs(ds, FALSE)
                                 /\ d.reloader.pipeline = p)[side].url]
-----------------------------------------------------------------------------
\* trim_history: the live pipelines more than n entries away from the present,
\* by SessionHistoryDiff::alive_old_pipeline and alive_new_pipeline.
FarPipelines(h, n) ==
    LET far(s, side) ==
          {s[i][side] : i \in {j \in 1 .. (Len(s) - n) : s[j].kind = "context"}}
    IN  {r.pipeline : r \in {x \in far(h.past, "old") \cup far(h.future, "new") :
                               x.alive}}

\* What change_session_history closes when a push clears the future ds: the
\* documents that were ahead, and the owners of the states that were ahead.
DocumentsAhead(ds) ==
    {d.new.pipeline : d \in {x \in Range(ds) : x.kind = "context" /\ x.new.alive}}
StateOwnersAhead(ds) ==
    {d.reloader.pipeline : d \in {x \in Range(ds) : x.kind = "state"
                                                     /\ x.reloader.alive}}
=============================================================================
