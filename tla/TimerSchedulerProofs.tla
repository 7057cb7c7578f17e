------------------------ MODULE TimerSchedulerProofs ------------------------
(***************************************************************************)
(* What is proved of the timer scheduler for any set of requests, any      *)
(* delays and any bound of the clock.                                      *)
(***************************************************************************)
EXTENDS TimerScheduler, LeastNumber, FiniteSetTheorems, SequenceTheorems, TLAPS

Sent == [request : Requests, for_time : Nat, sent : Nat]

\* Types, and that what is in the channel was asked for by now.
Typed ==
    /\ TypeOK
    /\ IsFiniteSet(heap)
    /\ \A i \in DOMAIN channel : channel[i] \in DOMAIN asked
    /\ \A r \in DOMAIN asked : asked[r].at <= now

\* An event of the heap is due no earlier than it was asked to be.
HeapTimely ==
    \A e \in heap :
      /\ e.request \in DOMAIN asked
      /\ e.for_time >= asked[e.request].at + asked[e.request].delay

\* An event that was sent was due by then, and not before it was asked to be.
SentTimely ==
    \A i \in DOMAIN dispatched :
      LET s == dispatched[i] IN
      /\ s.request \in DOMAIN asked
      /\ s.for_time >= asked[s.request].at + asked[s.request].delay
      /\ s.for_time <= s.sent /\ s.sent <= now

\* What was sent was due before what is still in the heap.
SentBeforeHeap ==
    \A i \in DOMAIN dispatched : \A e \in heap :
      dispatched[i].for_time <= e.for_time

IInv ==
    /\ Typed /\ HeapTimely /\ SentTimely /\ SentBeforeHeap
    /\ DueOrder /\ SleepNeverOutlastsTimer

\* A non-empty set of naturals has a least element, and Min returns it: what
\* the peek of the scheduler's heap relies on.
LEMMA MinOfNaturals ==
    ASSUME NEW S \in SUBSET Nat, S # {}
    PROVE  Min(S) \in S /\ \A y \in S : Min(S) <= y
  BY LeastNatural DEF Min

\* The timeout check_timers returns is none, or the time that is left, and some
\* is left, until the earliest of the events it has not sent.
LEMMA NextTimeoutIsEarliest ==
    ASSUME NEW h \in SUBSET Events, NEW t \in Nat, \A e \in h : e.for_time > t
    PROVE  /\ NextTimeout(h, t) \in (Nat \ {0}) \cup {Never}
           /\ \A e \in h : /\ NextTimeout(h, t) # Never
                           /\ t + NextTimeout(h, t) <= e.for_time
  <1> DEFINE T == {e.for_time : e \in h}
  <1>1. CASE h = {}
    BY <1>1 DEF NextTimeout
  <1>2. CASE h # {}
    <2>1. T \in SUBSET Nat /\ T # {} /\ \A y \in T : y > t
      BY <1>2 DEF Events
    <2>2. NextTimeout(h, t) = Min(T) - t
      BY <1>2 DEF NextTimeout
    <2> HIDE DEF T
    <2>3. Min(T) \in T /\ \A y \in T : Min(T) <= y
      BY <2>1, MinOfNaturals
    <2>4. /\ NextTimeout(h, t) \in Nat \ {0}
          /\ \A y \in T : t + NextTimeout(h, t) <= y
      <3>1. Min(T) \in Nat /\ Min(T) > t
        BY <2>1, <2>3
      <3>2. NextTimeout(h, t) \in Nat \ {0} /\ t + NextTimeout(h, t) = Min(T)
        BY <2>2, <3>1
      <3> QED BY <2>3, <3>2
    <2>5. NextTimeout(h, t) # Never
      BY <2>4, NeverAssumption
    <2> QED BY <2>4, <2>5 DEF T
  <1> QED BY <1>1, <1>2

\* The events a call of check_timers sends are due ones, in order.
LEMMA PopOrder ==
    ASSUME NEW due \in SUBSET Events, IsFiniteSet(due), NEW s \in PopOrders(due)
    PROVE  /\ s \in Seq(Events)
           /\ \A i \in DOMAIN s : s[i] \in due
           /\ \A i, j \in DOMAIN s : i < j => s[i].for_time <= s[j].for_time
  <1>1. s \in [1 .. Cardinality(due) -> due]
    BY DEF PopOrders, SetToSeqs
  <1>2. Cardinality(due) \in Nat
    BY FS_CardinalityType
  <1> QED BY <1>1, <1>2 DEF PopOrders

\* Times are naturals.
LEMMA Times ==
    ASSUME Typed
    PROVE  /\ now \in Nat /\ heap \in SUBSET Events /\ IsFiniteSet(heap)
           /\ channel \in Seq(Requests) /\ dispatched \in Seq(Sent)
           /\ \A x \in DOMAIN asked : asked[x].at \in Nat /\ asked[x].delay \in Nat
                                        /\ asked[x].at <= now
           /\ \A i \in DOMAIN dispatched : /\ dispatched[i].for_time \in Nat
                                           /\ dispatched[i].sent \in Nat
  <1>1. now \in Nat /\ heap \in SUBSET Events /\ IsFiniteSet(heap)
    BY MaxTimeAssumption DEF Typed, TypeOK
  <1>2. channel \in Seq(Requests) /\ dispatched \in Seq(Sent)
    BY DEF Typed, TypeOK, Sent
  <1>3. ASSUME NEW x \in DOMAIN asked
        PROVE  asked[x].at \in Nat /\ asked[x].delay \in Nat /\ asked[x].at <= now
    <2>1. asked[x] \in [at : 0 .. MaxTime, delay : Delays] /\ asked[x].at <= now
      BY DEF Typed, TypeOK
    <2>2. asked[x].at \in 0 .. MaxTime /\ asked[x].delay \in Delays
      BY <2>1
    <2>3. asked[x].at \in Nat
      BY <2>2, MaxTimeAssumption
    <2>4. asked[x].delay \in Nat
      BY <2>2, DelaysAssumption
    <2> QED BY <2>1, <2>3, <2>4
  <1>4. ASSUME NEW i \in DOMAIN dispatched
        PROVE  dispatched[i].for_time \in Nat /\ dispatched[i].sent \in Nat
    <2>1. dispatched[i] \in Sent
      BY <1>2
    <2> QED BY <2>1 DEF Sent
  <1> QED BY <1>1, <1>2, <1>3, <1>4

\* check_timers keeps the invariant: what it appends to what was sent.
LEMMA CheckTimersKeeps ==
    ASSUME IInv, CheckTimers
    PROVE  IInv'
  <1> DEFINE due == Due(heap, now)
             q(s) == [i \in DOMAIN s |-> [request |-> s[i].request,
                                          for_time |-> s[i].for_time, sent |-> now]]
  <1>1. /\ heap' = heap \ due /\ timeout' = NextTimeout(heap', now) /\ armed' = now
        /\ UNCHANGED <<now, asked, channel>> /\ loop' = "select"
    BY DEF CheckTimers
  <1>2. PICK s \in PopOrders(due) : dispatched' = dispatched \o q(s)
    BY DEF CheckTimers
  <1>3. /\ now \in Nat /\ heap \in SUBSET Events /\ IsFiniteSet(heap)
        /\ dispatched \in Seq(Sent)
        /\ \A r \in DOMAIN asked : asked[r].at \in Nat /\ asked[r].delay \in Nat
    BY Times DEF IInv
  <1>4. due \in SUBSET heap /\ \A e \in due : e.for_time <= now
    BY DEF Due
  <1>5. \A e \in heap' : e \in heap /\ e.for_time > now
    BY <1>1, <1>3 DEF Due, Events
  <1> HIDE DEF due
  <1>6. IsFiniteSet(due) /\ IsFiniteSet(heap')
    BY <1>1, <1>3, <1>4, FS_Subset
  <1>7. /\ s \in Seq(Events)
        /\ \A i \in DOMAIN s : s[i] \in due
        /\ \A i, j \in DOMAIN s : i < j => s[i].for_time <= s[j].for_time
    BY <1>2, <1>3, <1>4, <1>6, PopOrder
  <1>8. q(s) \in Seq(Sent) /\ DOMAIN q(s) = DOMAIN s
    <2>1. \A i \in DOMAIN s : s[i] \in Events
      BY <1>3, <1>4, <1>7
    <2>2. \A i \in DOMAIN s : q(s)[i] \in Sent
      BY <1>3, <2>1 DEF Events, Sent
    <2>3. DOMAIN q(s) = DOMAIN s /\ DOMAIN s = 1 .. Len(s) /\ Len(s) \in Nat
      BY <1>7
    <2>4. q(s) \in [1 .. Len(s) -> Sent]
      BY <2>2, <2>3
    <2> HIDE DEF q
    <2> QED BY <2>3, <2>4
  <1>9. \A k \in DOMAIN dispatched' :
          \/ k \in DOMAIN dispatched /\ dispatched'[k] = dispatched[k]
          \/ /\ k > Len(dispatched) /\ k - Len(dispatched) \in DOMAIN s
             /\ dispatched'[k] = q(s)[k - Len(dispatched)]
    <2> HIDE DEF q
    <2> QED BY <1>2, <1>3, <1>8
  <1>10. dispatched' \in Seq(Sent)
    <2> HIDE DEF q
    <2> QED BY <1>2, <1>3, <1>8
  <1>11. Typed'
    <2>1. heap' \in SUBSET Events
      BY <1>1, <1>3
    <2>2. timeout' \in (Nat \ {0}) \cup {Never} /\ armed' \in 0 .. now'
      BY <1>1, <1>3, <1>5, <2>1, NextTimeoutIsEarliest
    <2> QED BY <1>1, <1>6, <1>10, <2>2 DEF IInv, Typed, TypeOK, Sent
  <1>12. HeapTimely'
    BY <1>1, <1>5 DEF IInv, HeapTimely
  <1>13. \A i \in DOMAIN s :
           /\ q(s)[i].request = s[i].request /\ q(s)[i].for_time = s[i].for_time
           /\ q(s)[i].sent = now
           /\ s[i] \in heap /\ s[i].for_time <= now /\ s[i].for_time \in Nat
    BY <1>3, <1>4, <1>7 DEF Events
  <1> HIDE DEF q
  <1>14. SentTimely'
    BY <1>1, <1>3, <1>9, <1>13 DEF IInv, SentTimely, HeapTimely
  <1>15. SentBeforeHeap'
    BY <1>3, <1>5, <1>9, <1>13 DEF IInv, SentBeforeHeap, Events
  <1>16. DueOrder'
    <2> SUFFICES ASSUME NEW i \in DOMAIN dispatched', NEW j \in DOMAIN dispatched',
                        i < j
                 PROVE  dispatched'[i].for_time <= dispatched'[j].for_time
      BY DEF DueOrder
    <2>0. i \in Nat /\ j \in Nat /\ Len(dispatched) \in Nat
          /\ DOMAIN dispatched = 1 .. Len(dispatched)
      BY <1>3, <1>10
    <2>1. CASE j \in DOMAIN dispatched
      BY <1>9, <2>0, <2>1 DEF IInv, DueOrder
    <2>2. CASE j \notin DOMAIN dispatched /\ i \in DOMAIN dispatched
      BY <1>9, <1>13, <2>0, <2>2 DEF IInv, SentBeforeHeap
    <2>3. CASE j \notin DOMAIN dispatched /\ i \notin DOMAIN dispatched
      <3>1. i - Len(dispatched) < j - Len(dispatched)
        BY <2>0
      <3> QED BY <1>7, <1>9, <1>13, <2>3, <3>1
    <2> QED BY <2>1, <2>2, <2>3
  <1>17. SleepNeverOutlastsTimer'
    <2>1. heap' \in SUBSET Events
      BY <1>1, <1>3
    <2>2. \A e \in heap' : timeout' # Never /\ armed' + timeout' <= e.for_time
      BY <1>1, <1>3, <1>5, <2>1, NextTimeoutIsEarliest
    <2> QED BY <2>2 DEF SleepNeverOutlastsTimer
  <1> QED BY <1>11, <1>12, <1>14, <1>15, <1>16, <1>17 DEF IInv

\* handle_timer_request keeps the invariant: the new event is due no earlier
\* than anything that was sent.
LEMMA HandleTimerRequestKeeps ==
    ASSUME IInv, HandleTimerRequest
    PROVE  IInv'
  <1> DEFINE r == Head(channel)
             e == [request |-> r, for_time |-> now + asked[r].delay]
  <1>1. /\ heap' = heap \cup {e} /\ channel' = Tail(channel) /\ loop' = "check"
        /\ channel # <<>> /\ UNCHANGED <<now, asked, timeout, armed, dispatched>>
    BY DEF HandleTimerRequest
  <1>2. /\ now \in Nat /\ heap \in SUBSET Events /\ IsFiniteSet(heap)
        /\ channel \in Seq(Requests) /\ dispatched \in Seq(Sent)
        /\ \A x \in DOMAIN asked : asked[x].at \in Nat /\ asked[x].delay \in Nat
                                     /\ asked[x].at <= now
    BY Times DEF IInv
  <1>3. r \in DOMAIN asked /\ r \in Requests
    BY <1>1, <1>2 DEF IInv, Typed
  <1>4. e \in Events /\ e.request = r /\ e.for_time = now + asked[r].delay
    BY <1>2, <1>3 DEF Events
  <1> HIDE DEF r, e
  <1>5. IsFiniteSet(heap')
    BY <1>1, <1>2, FS_AddElement
  <1>6. channel' \in Seq(Requests)
        /\ \A i \in DOMAIN channel' : channel'[i] \in DOMAIN asked
    BY <1>1, <1>2 DEF IInv, Typed
  <1>7. Typed'
    BY <1>1, <1>2, <1>4, <1>5, <1>6 DEF IInv, Typed, TypeOK
  <1>8. HeapTimely'
    BY <1>1, <1>2, <1>3, <1>4 DEF IInv, HeapTimely
  <1>9. SentTimely' /\ DueOrder'
    BY <1>1 DEF IInv, SentTimely, DueOrder
  <1>10. SentBeforeHeap'
    <2>1. ASSUME NEW i \in DOMAIN dispatched
          PROVE  dispatched[i].for_time <= e.for_time
      <3>1. dispatched[i].for_time \in Nat /\ dispatched[i].sent \in Nat
        BY Times DEF IInv
      <3>2. dispatched[i].for_time <= now
        BY <1>2, <3>1 DEF IInv, SentTimely
      <3> QED BY <1>2, <1>3, <1>4, <3>1, <3>2
    <2> QED BY <1>1, <2>1 DEF IInv, SentBeforeHeap
  <1>11. SleepNeverOutlastsTimer'
    BY <1>1 DEF SleepNeverOutlastsTimer
  <1> QED BY <1>7, <1>8, <1>9, <1>10, <1>11 DEF IInv

\* Every step keeps the invariant.
LEMMA StepKeeps ==
    ASSUME IInv, [Next]_vars
    PROVE  IInv'
  <1>1. ASSUME NEW r \in Requests, NEW d \in Delays, Ask(r, d)
        PROVE  IInv'
    <2>1. /\ DOMAIN asked' = DOMAIN asked \cup {r} /\ r \notin DOMAIN asked
          /\ \A x \in DOMAIN asked : asked'[x] = asked[x]
          /\ asked'[r] = [at |-> now, delay |-> d]
          /\ channel' = Append(channel, r)
          /\ UNCHANGED <<now, heap, loop, timeout, armed, dispatched>>
      BY <1>1 DEF Ask
    <2>2. /\ now \in 0 .. MaxTime /\ channel \in Seq(Requests)
          /\ \A i \in DOMAIN channel : channel[i] \in DOMAIN asked
      BY DEF IInv, Typed, TypeOK
    <2>3. channel' \in Seq(Requests)
          /\ \A i \in DOMAIN channel' : channel'[i] \in DOMAIN asked'
      BY <2>1, <2>2
    <2>4. \A x \in DOMAIN asked' : /\ asked'[x] \in [at : 0 .. MaxTime, delay : Delays]
                                   /\ asked'[x].at <= now
      <3>1. asked'[r] \in [at : 0 .. MaxTime, delay : Delays] /\ asked'[r].at <= now
        BY <2>1, <2>2, MaxTimeAssumption
      <3> QED BY <2>1, <3>1 DEF IInv, Typed, TypeOK
    <2>5. Typed'
      BY <2>1, <2>3, <2>4 DEF IInv, Typed, TypeOK
    <2>6. HeapTimely' /\ SentTimely'
      BY <2>1 DEF IInv, HeapTimely, SentTimely
    <2>7. SentBeforeHeap' /\ DueOrder' /\ SleepNeverOutlastsTimer'
      BY <2>1 DEF IInv, SentBeforeHeap, DueOrder, SleepNeverOutlastsTimer
    <2> QED BY <2>5, <2>6, <2>7 DEF IInv
  <1>2. CASE CheckTimers
    BY <1>2, CheckTimersKeeps
  <1>3. CASE HandleTimerRequest
    BY <1>3, HandleTimerRequestKeeps
  <1>4. CASE Timeout \/ OtherMessage \/ OtherMessageDone
    BY <1>4 DEF Timeout, OtherMessage, OtherMessageDone, IInv, Typed, TypeOK,
         HeapTimely, SentTimely, SentBeforeHeap, DueOrder, SleepNeverOutlastsTimer
  <1>5. CASE Tick
    <2>1. /\ now' = now + 1 /\ now < MaxTime /\ now \in 0 .. MaxTime
          /\ UNCHANGED <<asked, channel, heap, loop, timeout, armed, dispatched>>
      BY <1>5 DEF Tick, IInv, Typed, TypeOK
    <2>2. now \in Nat /\ now' \in 0 .. MaxTime /\ now <= now'
      BY <2>1, MaxTimeAssumption
    <2>3. \A r \in DOMAIN asked : asked[r].at <= now'
      BY <2>1, <2>2, Times DEF IInv
    <2>4. Typed'
      <3>1. armed' \in 0 .. now'
        BY <2>1, <2>2 DEF IInv, Typed, TypeOK
      <3> QED BY <2>1, <2>2, <2>3, <3>1 DEF IInv, Typed, TypeOK
    <2>5. SentTimely'
      <3>1. \A i \in DOMAIN dispatched : dispatched[i].sent \in Nat
        BY Times DEF IInv
      <3> QED BY <2>1, <2>2, <3>1 DEF IInv, SentTimely
    <2>6. HeapTimely' /\ SentBeforeHeap' /\ DueOrder' /\ SleepNeverOutlastsTimer'
      BY <2>1 DEF IInv, HeapTimely, SentBeforeHeap, DueOrder, SleepNeverOutlastsTimer
    <2> QED BY <2>4, <2>5, <2>6 DEF IInv
  <1>6. CASE UNCHANGED vars
    BY <1>6 DEF vars, IInv, Typed, TypeOK, HeapTimely, SentTimely, SentBeforeHeap,
         DueOrder, SleepNeverOutlastsTimer
  <1> QED BY <1>1, <1>2, <1>3, <1>4, <1>5, <1>6 DEF Next

\* The invariant holds in every state the scheduler reaches.
LEMMA SchedulerInvariant == Spec => []IInv
  <1>1. Init => IInv
    <2> SUFFICES ASSUME Init PROVE IInv
      OBVIOUS
    <2>1. TypeOK
      BY MaxTimeAssumption DEF Init, TypeOK
    <2>2. IsFiniteSet(heap)
      BY FS_EmptySet DEF Init
    <2> QED BY <2>1, <2>2 DEF Init, IInv, Typed, HeapTimely, SentTimely,
              SentBeforeHeap, DueOrder, SleepNeverOutlastsTimer
  <1> QED BY <1>1, StepKeeps, PTL DEF Spec

\* The state of the scheduler is well typed; in particular the Duration returned
\* by check_timers is positive, whatever time passed and whichever requests came
\* before: the subtraction of instants cannot panic and the loop cannot spin on
\* an empty timeout.
THEOREM SchedulerTypes == Spec => []TypeOK
  <1>1. IInv => TypeOK
    BY DEF IInv, Typed
  <1> QED BY <1>1, SchedulerInvariant, PTL

\* The scheduler never sleeps past a timer: whenever the loop is in select!,
\* the timeout returned by check_timers is armed for no later than any event
\* of the heap, whatever requests and messages were handled before.
THEOREM SchedulerSleep == Spec => []SleepNeverOutlastsTimer
  <1>1. IInv => SleepNeverOutlastsTimer
    BY DEF IInv
  <1> QED BY <1>1, SchedulerInvariant, PTL

\* No timer fires before the delay its script thread asked for has passed.
THEOREM SchedulerNeverEarly == Spec => []NeverEarly
  <1>1. IInv => NeverEarly
    <2> SUFFICES ASSUME IInv, NEW i \in DOMAIN dispatched
                 PROVE  LET a == asked[dispatched[i].request]
                        IN  dispatched[i].sent >= a.at + a.delay
      BY DEF NeverEarly
    <2>1. dispatched[i].for_time \in Nat /\ dispatched[i].sent \in Nat
      BY Times DEF IInv
    <2>2. asked[dispatched[i].request].at \in Nat
          /\ asked[dispatched[i].request].delay \in Nat
      BY Times DEF IInv, SentTimely
    <2> QED BY <2>1, <2>2 DEF IInv, SentTimely
  <1> QED BY <1>1, SchedulerInvariant, PTL

\* Over the whole run, timers fire in the order in which they are due.
THEOREM SchedulerDueOrder == Spec => []DueOrder
  <1>1. IInv => DueOrder
    BY DEF IInv
  <1> QED BY <1>1, SchedulerInvariant, PTL
=============================================================================
