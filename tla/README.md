# A TLA+ verification project for Servo's constellation

The constellation is the thread that holds a Servo instance together: it knows
every tab, iframe and document, makes and closes their pipelines, keeps the
session history and runs the timers. This project models it in TLA+, checks the
models with TLC on small instances, and proves a part of what TLC checks with
TLAPS for every value of the constants.

Paths below are relative to `src/components/`.

## 1. The system

| part | state | operations | hard behaviours | what correctness means | here |
|---|---|---|---|---|---|
| timer scheduler (`constellation/timer_scheduler.rs`) | a heap of events, the armed timeout | `check_timers`, `handle_timer_request` | requests arrive while the loop sleeps or is busy | no event early, in order, none forgotten, no sleep past a due event | `TimerScheduler` |
| joint session history (`constellation/session_history.rs`) | two stacks of diffs for each tab | push, replace reloader, replace state, remove entries, traverse | entries of closed contexts, discarded documents, several entries of one document | the history describes the documents it leads to | `JointSessionHistory` |
| pipelines, contexts, navigation (`constellation/constellation.rs`, `pipeline.rs`, `browsingcontext.rs`) | maps of pipelines, contexts, browsers and groups, pending changes, approvals, frame tree | 23 messages from the embedder and script | a load commits after the page moved on; closed documents still send messages; panics; shutdown | parents and children agree, documents know their activity, no pipeline is lost track of, shutdown ends | `Constellation` |
| message ports, broadcast channels (`constellation.rs`, `script/dom/globalscope.rs`) | router maps, ports in transfer and their buffers | transfer, complete, fail, reroute, entangle, remove | transfer racing with messages and removal | each message delivered once and in order | planned |
| event loops (`constellation/event_loop.rs`) | weak references for each host and group | `get_event_loop`, `set_event_loop` | the last owner goes while another looks it up | similar-origin documents share a loop | planned |
| network listener (`constellation/network_listener.rs`) | one fetch | redirects, cancellation | a late response after cancellation | one response for each request | planned |
| script thread (`script/task_queue.rs`, `timers.rs`, `document_loader.rs`) | task queues, script timers, pending loads | queue, throttle, suspend, resume | tasks of inactive documents, starvation | tasks of a source stay in order, none is lost | planned |
| service worker manager (`script/serviceworker_manager.rs`) | registrations, job queues | register, update, resolve | jobs of one scope in flight together | jobs of a scope run one at a time | planned |
| HTTP cache (`net/http_cache.rs`) | entries, waiting consumers | construct, store, invalidate, wake | the producer of a body aborts while others wait | every consumer is woken | planned |
| blob store (`net/filemanager_thread.rs`) | reference counts, tokens | activate, slice, revoke, drop | concurrent decrements | an entry lives as long as it is referred to | planned |
| image cache (`net/image_cache.rs`) | pending loads and listeners | request, decode, notify | listeners added while a load completes | each listener is told once | planned |
| hang monitor (`background_hang_monitor/`) | checkpoints of monitored threads | checkpoint, alerts | thresholds racing with activity | transient before permanent | planned |
| compositor (`compositing/`) | frame tree, touch state | frame tree, touch events | late answers of script to a touch | one meaning for each touch sequence | seen through the frame tree; touch planned |
| layout, style, canvas, WebGPU, media, bluetooth, devtools, webdriver, profilers, configuration, sandboxing, DOM bindings | | | data, devices, the operating system or generated code | | not modelled |

`PROJECT.json` lists every part with the reason where it is not modelled, and
the hazards of the code at their lines.

## 2. Modules

    LeastNumber -------------------.---------------.
    TimerScheduler <- TimerSchedulerProofs          |
         ^-- MCTimerScheduler                       |
    JointSessionHistory <- Constellation <- ConstellationProofs
                                ^-- MCConstellation

**`TimerScheduler`**: the heap, inside the loop of `handle_request`. `loop` is
`check` (calling `check_timers`), `select` (sleeping) or `busy` (handling
another message). The heap is a set; events with equal times leave in any order.
`timeout` is the `Duration` that `check_timers` returned, `event.for_time - now`,
and `armed` the instant at which `after(timeout)` was called: the timeout fires
once the clock has reached `armed + timeout`. `check_timers` takes less than a
tick, so the time between its reading of the clock and `after(timeout)`, by
which the real wake-up may be late, is left out.

**`JointSessionHistory`**: operators only. A history is `[past, future]`, a diff
one of the three variants of `SessionHistoryDiff`, a reloader a `NeedsToReload`.

**`Constellation`**: one action for each message. The thread handles one message
at a time, so a handler is atomic; the interleaving is that of the messages.
The state is passed through the handler as a record `c`, so that an action is
the composition of the functions its handler calls, in their order.

| variable | code |
|---|---|
| `pipelines`, `contexts` | the maps `pipelines`, `browsing_contexts`; a pipeline also records what its script thread was told (`activity`, `exiting`, `unloading`) and how far its load is (`stage`); a load starts as fully active (`script/script_thread.rs:249`) |
| `pending` | `pending_changes`, as a set: each change has a pipeline id of its own and is looked up by it |
| `browsers`, `groups`, `active` | `browsers`, `browsing_context_group_set`, `active_browser_id` |
| `shown` | the root of the last `SetFrameTree` |
| `approvals` | `pending_approval_navigations` |
| `next`, `opened` | ids handed out so far |

A script thread's messages arrive in any order with those of other threads, and
also after its pipeline was told to exit, until its `PipelineExited`.
`close_pipeline` and `close_browsing_context`, which call each other, are one
operator `Close` that takes the closure of what they reach.

What the abstraction leaves out: event loops (sends succeed; a dead script
thread appears as its panic message), window sizes, visibility, devtools and
history-length notifications, the `Reload` message, webdriver, and
`--random-pipeline-closure-probability`. The drain order of a `HashMap` only
decides which new id goes to which load.

## 3. Runs

Every bound is a CONSTANT. `WithinBounds` says what they hold back: a handler
that makes a pipeline once `MaxPipelines` ids are used, and a step after which a
history would have more than `MaxEntries` entries. A handler that makes nothing,
such as a traversal to a live document, is never held back. `Traffic` chooses the optional kinds of message of a
run, so that each run can be deep where its question is. The runs of
`Constellation` do not check for deadlock: `run()` returns after shutdown, and
the bounds stop the rest.

| run | instance | shows |
|---|---|---|
| `timers` | 2 requests, delays 0, 1, 3, clock to 4 | `TypeOK`: the timeout returned is positive; `NeverEarly`, `DueOrder`, `SleepNeverOutlastsTimer`; `EveryTimerFires`: an event that is in the heap is dispatched |
| `tree` | 1 tab, 2 iframes, 4 pipelines, live length 1, panics, discards | `ActivityAgrees`: an activated document was last told the activity `get_activity` computes; `TreeConsistent`: parent pointers and lists of children agree, for parents that are in the map |
| `history` | 1 tab, 1 iframe, 4 pipelines, 2 entries, jumps of 2, live length 1, fragments | `DocumentsStayHome`: diffs, loads and what they replace belong to their own context; `ContextsStayOpen`: no diff or pending change refers to a closed context; `RootIsShown` |
| `requests` | 1 tab, 1 iframe, 3 pipelines, approvals, failing spawns, panics | `RegisteredOnce`: a pipeline of the map is exiting, pending or listed by its context, and only one of these |
| `states` | 1 tab, 2 documents, 2 urls, 2 states, 3 entries, jumps of 2, live length 3 | `StateMatchesHistory` with `pushState` |
| `shutdown` | 2 tabs, 1 iframe, 3 pipelines, `window.open`, failing spawns, redirects, `replaceState` | `ShutdownIsFinal`, `ShutdownCompletes` |

Two iframes are what nesting and siblings need; four pipelines let one document
be replaced, discarded and reloaded; a live length of 0 or 1 makes
`trim_history` act after one or two navigations (`tree` needs 1: with 0 a
replaced document is closed at once and never stays behind, inactive, with live
iframes beneath it); jumps of 2 cross two diffs of
one document, or a diff of a document and the step to the other document.
`LoadComplete` is one of the optional messages: where it is not sent, every load
event is late, and a load of an iframe still comes with and without replacement,
since its element may know of no old pipeline. `states` uses symmetry of urls and state ids, which the model only
copies and compares; it checks an invariant, for which symmetry is sound.

**Fairness.** `timers`: the loop, the handlers and the clock go on (weak);
`select!` chooses among ready channels at random, so the timeout and the request
channel are not passed over for ever (strong). `shutdown`: a script thread that
was told to exit answers (weak, on `PipelineExited` only).

**Disagreements with the comments.** Six runs are expected to be violated. Each
states what a comment says, and its trace shows what the code does:

| run | comment | what happens |
|---|---|---|
| `history_position` | `browsingcontext.rs:64` "The pipeline for the current session history entry." | a reload for a traversal is aborted; the history has moved, the document has not |
| `current_listed` | `browsingcontext.rs:71` "All the pipelines that have been presented or will be presented" | a jump to a discarded document lets `trim_history` close the document on display |
| `stale_frame_tree` | `compositor_thread.rs:80` "Replaces the current frame tree" | a late `pushState` of a closed document makes `change_session_history` return before it sends the tree |
| `forest_roots` | `constellation.rs:30` "a forest whose roots are top-level browsing context" | an iframe activates after its tab was closed |
| `closed_groups` | `constellation.rs:3013` "#bcg-remove" | the group is looked up through the context just removed, and stays |
| `replaced_state` | `session_history.rs:20` "the most recent entries are at the front" | they are at the back, so `replaceState` rewrites the oldest entry of the document |

What the passing runs leave out on purpose, because the property fails with it:

- `RootIsShown` holds in `history`, which has no `pushState`; `stale_frame_tree`
  shows it fail with a late one.
- `StateMatchesHistory` holds in `states`, where `pushState` and traversals alone
  move a document and the history is no longer than its live length. It fails
  with `replaceState` (`replaced_state`); with fragments, since a replacing one
  changes the url and leaves the history as it is, and going back over a fragment
  entry to a pushed state drops the state id; and for a document that was
  discarded and loaded again, which starts without a state id while the entries
  of the old document now name it.
- `RegisteredOnce` says where a pipeline is registered, not that somebody will
  close it: an iframe that activates after its tab was closed (`forest_roots`) is
  listed by its context, which only `handle_exit` closes once its parent is gone.
- `TreeConsistent` exempts a context whose parent has left the map.

## 4. Proofs

**Timer scheduler** (`TimerSchedulerProofs`): `TypeOK`,
`SleepNeverOutlastsTimer`, `NeverEarly` and `DueOrder`, for any set of requests,
any delays in `Nat` and any bound of the clock. `DueOrder` is not inductive by
itself: a request that arrives late could be due before an event already sent.
The invariant `IInv` adds that an event in the heap is due no earlier than its
request asked (`HeapTimely`), that what was sent was due when it was sent
(`SentTimely`), and that nothing in the heap is due before what was sent
(`SentBeforeHeap`). `TypeOK` includes that the timeout is positive: it is the
distance from the clock to the earliest event left, and everything due by the
clock has been popped (`NextTimeoutIsEarliest`). Assumed: `Delays` are naturals,
`MaxTime` is one, and `Never`, the absence of a timeout, is no number.

**Shutdown** (`ConstellationProofs`): `ShutdownFinal`, for any tabs, iframes,
urls, traffic and bounds: after `handle_exit` no message in flight makes a
context or leaves a pipeline that was not told to exit. The invariant `Sound`
adds that ids in use are below `next`, and that after shutdown no pending change
belongs to a pipeline in the map, since such a change would open a context when
its document activates. Each function of the constellation has a lemma: it is
`Quiet` (makes nothing, and undoes no exit) or keeps `Sound`.
Assumed: the bounds are naturals, tabs and iframes are disjoint and finite.

`LeastNumber` has the one fact about naturals both use.

**Only model-checked.** Liveness (`EveryTimerFires`, `ShutdownCompletes`) is out
of the prover's reach. The other invariants of `Constellation` have no proof yet.

## 5. Plan

1. Message ports and broadcast channels: constellation and globals as two
   modules, composed; an abstract queue for each port that they implement.
2. An abstract session history (a list of entries and a position) that
   `JointSessionHistory` implements where no document is discarded.
3. Event loops over the pipelines; that a context whose pipeline could not be
   spawned can be navigated again.
4. Script side: task queue, script timers, document loader.
5. HTTP cache, blob store, service worker manager, hang monitor, touch handler.
6. Proofs: `TreeConsistent`, `RegisteredOnce`, `DocumentsStayHome` and
   `ContextsStayOpen` of `Constellation`; the invariants of the new modules; the refinements.
