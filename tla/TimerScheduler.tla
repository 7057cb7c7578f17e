--------------------------- MODULE TimerScheduler ---------------------------
(***************************************************************************)
(* The constellation's timer scheduler (constellation/timer_scheduler.rs)  *)
(* inside the constellation's select loop (Constellation::handle_request). *)
(*                                                                         *)
(* Each turn of the loop calls check_timers, which dispatches every event  *)
(* that is due and returns the timeout for which the following select may  *)
(* sleep.  While the loop sleeps, or handles some other message, time      *)
(* passes and script threads send timer requests.                          *)
(***************************************************************************)
EXTENDS Integers, Sequences, FiniteSets, FiniteSetsExt, SequencesExt

CONSTANTS
    Requests,   \* the timer requests script threads make, one each
    Delays,     \* the delays, in ticks, they may ask for
    MaxTime,    \* bound on the clock
    Never       \* crossbeam_channel::never(), where check_timers returns None

ASSUME DelaysAssumption == Delays \subseteq Nat
ASSUME MaxTimeAssumption == MaxTime \in Nat
ASSUME NeverAssumption == Never \notin Int

VARIABLES
    now,         \* Instant::now()
    asked,       \* request -> the clock when it was sent and its delay, once sent
    channel,     \* scheduler_receiver
    heap,        \* the BinaryHeap, a set of [request, for_time]
    loop,        \* where the constellation is: "check", "select" or "busy"
    timeout,     \* the Duration check_timers returned last, or Never
    armed,       \* the instant at which after(timeout) was called
    dispatched   \* the events sent, in order, with for_time and the clock

vars == <<now, asked, channel, heap, loop, timeout, armed, dispatched>>

Events == [request : Requests, for_time : Nat]

Init ==
    /\ now = 0
    /\ asked = <<>>
    /\ channel = <<>>
    /\ heap = {}
    /\ loop = "check"
    /\ timeout = Never
    /\ armed = 0
    /\ dispatched = <<>>
-----------------------------------------------------------------------------
\* A script thread sends a TimerEventRequest with a delay of d.
Ask(r, d) ==
    /\ r \notin DOMAIN asked
    /\ asked' = [x \in DOMAIN asked \cup {r} |->
                   IF x = r THEN [at |-> now, delay |-> d] ELSE asked[x]]
    /\ channel' = Append(channel, r)
    /\ UNCHANGED <<now, heap, loop, timeout, armed, dispatched>>

\* Mutant: an event is taken to be due one tick early.
DueEarly(h, t) == {e \in h : e.for_time <= t + 1}

\* The events of the heap that check_timers finds due.
Due(h, t) == {e \in h : e.for_time <= t}

\* Mutant: ScheduledEvent's Ord without its reverse().
PopOrdersMaxFirst(due) ==
    {s \in SetToSeqs(due) :
       \A i, j \in DOMAIN s : i < j => s[i].for_time >= s[j].for_time}

\* The order in which the heap gives up the events: earliest first, with
\* BinaryHeap's arbitrary order between equal times.
PopOrders(due) ==
    {s \in SetToSeqs(due) :
       \A i, j \in DOMAIN s : i < j => s[i].for_time <= s[j].for_time}

\* Mutant: the timeout of the latest event instead of the earliest.
NextTimeoutLatest(rest, t) ==
    IF rest = {} THEN Never ELSE Max({e.for_time : e \in rest}) - t

\* Mutant: no timeout is armed.
NextTimeoutNone(rest, t) == Never

\* Mutant: the operands of `event.for_time - now` swapped.
NextTimeoutSwapped(rest, t) ==
    IF rest = {} THEN Never ELSE t - Min({e.for_time : e \in rest})

\* The Duration check_timers returns once it has read t from the clock and
\* `rest` is left in the heap.  Instant subtraction panics below zero; here the
\* difference would be negative.
NextTimeout(rest, t) ==
    IF rest = {} THEN Never ELSE Min({e.for_time : e \in rest}) - t

\* TimerScheduler::check_timers, and after(timeout), or never(), with what it
\* returns.  The call takes less than a tick.
CheckTimers ==
    /\ loop = "check"
    /\ LET due == Due(heap, now) IN
       /\ \E s \in PopOrders(due) :
            dispatched' = dispatched \o
              [i \in DOMAIN s |-> [request |-> s[i].request,
                                   for_time |-> s[i].for_time,
                                   sent |-> now]]
       /\ heap' = heap \ due
       /\ timeout' = NextTimeout(heap \ due, now)
    /\ armed' = now
    /\ loop' = "select"
    /\ UNCHANGED <<now, asked, channel>>

\* select! receives a timer request: TimerScheduler::handle_timer_request.
HandleTimerRequest ==
    /\ loop = "select"
    /\ channel # <<>>
    /\ LET r == Head(channel) IN
       heap' = heap \cup {[request |-> r, for_time |-> now + asked[r].delay]}
    /\ channel' = Tail(channel)
    /\ loop' = "check"
    /\ UNCHANGED <<now, asked, timeout, armed, dispatched>>

\* select! returns because the scheduler's timeout fired.
Timeout ==
    /\ loop = "select"
    /\ timeout # Never /\ armed + timeout <= now
    /\ loop' = "check"
    /\ UNCHANGED <<now, asked, channel, heap, timeout, armed, dispatched>>

\* select! receives any other message, and its handler runs for a while.
OtherMessage ==
    /\ loop = "select"
    /\ loop' = "busy"
    /\ UNCHANGED <<now, asked, channel, heap, timeout, armed, dispatched>>

OtherMessageDone ==
    /\ loop = "busy"
    /\ loop' = "check"
    /\ UNCHANGED <<now, asked, channel, heap, timeout, armed, dispatched>>

Tick ==
    /\ now < MaxTime
    /\ now' = now + 1
    /\ UNCHANGED <<asked, channel, heap, loop, timeout, armed, dispatched>>

Next ==
    \/ \E r \in Requests, d \in Delays : Ask(r, d)
    \/ CheckTimers
    \/ HandleTimerRequest
    \/ Timeout
    \/ OtherMessage
    \/ OtherMessageDone
    \/ Tick

Spec == Init /\ [][Next]_vars

\* The loop runs for ever, its handlers return, the clock advances, and
\* select! picks among the ready channels at random, so neither the timeout
\* nor the request channel is passed over for ever.
Fairness ==
    /\ WF_vars(CheckTimers)
    /\ WF_vars(OtherMessageDone)
    /\ WF_vars(Tick)
    /\ SF_vars(HandleTimerRequest)
    /\ SF_vars(Timeout)

FairSpec == Spec /\ Fairness
-----------------------------------------------------------------------------
\* The clock, the channel, the heap and the events sent have the shapes the
\* code declares; in particular the Duration that check_timers returns is
\* positive: `event.for_time - now` would panic below zero, and a timeout of
\* zero would make the loop spin, but every event due by `now` was popped.
TypeOK ==
    /\ now \in 0..MaxTime
    /\ DOMAIN asked \subseteq Requests
    /\ \A r \in DOMAIN asked : asked[r] \in [at : 0..MaxTime, delay : Delays]
    /\ channel \in Seq(Requests)
    /\ heap \in SUBSET Events
    /\ loop \in {"check", "select", "busy"}
    /\ timeout \in (Nat \ {0}) \cup {Never}
    /\ armed \in 0..now
    /\ dispatched \in Seq([request : Requests, for_time : Nat, sent : Nat])

\* No timer event is sent before the delay its script thread asked for has
\* passed since it asked (check_timers tests for_time <= now).
NeverEarly ==
    \A i \in DOMAIN dispatched :
      LET a == asked[dispatched[i].request] IN
        dispatched[i].sent >= a.at + a.delay

\* Events leave in the order of their due times over the whole run, not only
\* within one call of check_timers: no request that arrives later can be due
\* before an event that has already gone.
DueOrder ==
    \A i, j \in DOMAIN dispatched :
      i < j => dispatched[i].for_time <= dispatched[j].for_time

\* When the loop sleeps, the timeout it armed runs out no later than the
\* earliest event of the heap is due: a request handled in between always leads through check_timers
\* again, so the sleep never outlasts a due event.
SleepNeverOutlastsTimer ==
    loop = "select" =>
      \A e \in heap : timeout # Never /\ armed + timeout <= e.for_time

\* An event that handle_timer_request has put in the heap, and that is due
\* within the bound of the clock, is dispatched.
EveryTimerFires ==
    \A r \in Requests :
      (\E e \in heap : e.request = r /\ e.for_time <= MaxTime)
        ~> (\E i \in DOMAIN dispatched : dispatched[i].request = r)
=============================================================================
