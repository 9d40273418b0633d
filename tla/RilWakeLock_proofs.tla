------------------------- MODULE RilWakeLock_proofs -------------------------
(***************************************************************************)
(* Theorems about RilWakeLock, for any number of vendor threads, reports   *)
(* and connections.                                                        *)
(***************************************************************************)
EXTENDS RilWakeLock, TLAPS

\* The timers in the order they will be freed.
Listed == due \o timers

\* No timer is in the lists twice: freeing one leaves no pointer to it there.
Distinct == \A i, j \in 1 .. Len(Listed) : Listed[i] = Listed[j] => i = j

\* Where the event loop is, against what it works on.
LoopShape ==
  /\ loop \in {"top", "select"} => due = <<>>
  /\ loop = "fired" => due # <<>>
  /\ call["loop"] # "idle" => loop = "connect"

TypeInv == TypeOK /\ Distinct /\ LoopShape

LEMMA SeqWithout ==
  ASSUME NEW S, NEW s \in Seq(S), NEW x, \A i \in 1 .. Len(s) : s[i] # x
  PROVE  s \in Seq(S \ {x})
<1>1. Len(s) \in Nat /\ s \in [1 .. Len(s) -> S]
  OBVIOUS
<1>2. s \in [1 .. Len(s) -> S \ {x}]
  BY <1>1
<1> QED BY <1>1, <1>2

LEMMA InitTypeInv == Init => TypeInv
<1> SUFFICES ASSUME Init PROVE TypeInv
  OBVIOUS
<1>1. /\ due = <<>> /\ timers = <<>> /\ ready = <<>>
      /\ live = {} /\ dead = {} /\ last = None
  BY DEF Init
<1>2. /\ due \in Seq(live) /\ timers \in Seq(live) /\ ready \in Seq({"wakeup", "listen"})
      /\ Listed = <<>>
  BY <1>1 DEF Listed
<1>3. /\ call \in [Threads -> {"idle", "send", "cancel", "mark", "schedule", "trigger", "publish"}]
      /\ aim \in [Threads -> {None} \cup Slots] /\ mine \in [Threads -> {None} \cup Slots]
      /\ calls \in [Callers -> 0 .. MaxCalls] /\ connections \in 0 .. MaxConn
      /\ call["loop"] = "idle"
  BY BoundAssumption DEF Init, Threads
<1>4. /\ loop \in {"top", "select", "fire", "fired", "connect"}
      /\ timed \in BOOLEAN /\ pipe \in BOOLEAN /\ wakeLock \in BOOLEAN
  BY Zenon DEF Init
<1>8. announcing \in 0 .. 2
  BY DEF Init
<1>5. TypeOK
  BY <1>1, <1>2, <1>3, <1>4, <1>8 DEF TypeOK
<1>6. Distinct
  BY <1>2 DEF Distinct
<1>7. LoopShape
  BY <1>1, <1>3 DEF LoopShape, Init
<1> QED BY <1>5, <1>6, <1>7 DEF TypeInv

\* A step that leaves the lists, the memory and the loop's place alone.
LEMMA ReportTypeInv ==
  ASSUME TypeInv, NEW t \in Threads,
         BadReport(t) \/ Send(t) \/ ReadLast(t) \/ CancelLast(t) \/ Trigger(t) \/ Publish(t)
  PROVE  TypeInv'
<1>1. call' \in [Threads -> {"idle", "send", "cancel", "mark", "schedule", "trigger", "publish"}]
  BY DEF TypeInv, TypeOK, BadReport, Send, ReadLast, CancelLast, Trigger, Publish, Step
<1>2. call["loop"] = "idle" => call'["loop"] = "idle"
  BY CallerAssumption
     DEF TypeInv, TypeOK, BadReport, Send, ReadLast, CancelLast, Trigger, Publish, Step, Threads
<1>3. UNCHANGED <<loop, due, timers, live, timed, ready, connections, announcing, calls>>
  BY DEF BadReport, Send, ReadLast, CancelLast, Trigger, Publish, looping, reports, scheduled
<1>4. /\ aim' \in [Threads -> {None} \cup Slots] /\ mine' \in [Threads -> {None} \cup Slots]
      /\ last' \in {None} \cup Slots
  BY DEF TypeInv, TypeOK, BadReport, Send, ReadLast, CancelLast, Trigger, Publish, scheduled
<1>5. wakeLock' \in BOOLEAN /\ pipe' \in BOOLEAN
  BY DEF TypeInv, TypeOK, BadReport, Send, ReadLast, CancelLast, Trigger, Publish
<1>6. dead' \subseteq live'
  BY <1>3 DEF TypeInv, TypeOK, BadReport, Send, ReadLast, CancelLast, Trigger, Publish, scheduled
<1>7. TypeOK'
  BY <1>1, <1>3, <1>4, <1>5, <1>6 DEF TypeInv, TypeOK
<1>8. Distinct' /\ LoopShape'
  BY <1>2, <1>3 DEF TypeInv, Distinct, Listed, LoopShape
<1> QED BY <1>7, <1>8 DEF TypeInv

LEMMA GrabTypeInv ==
  ASSUME TypeInv, NEW t \in Threads, Grab(t)
  PROVE  TypeInv'
<1>1. call' \in [Threads -> {"idle", "send", "cancel", "mark", "schedule", "trigger", "publish"}]
  BY DEF TypeInv, TypeOK, Grab, Step
<1>2. call'["loop"] # "idle" => loop = "connect"
  BY CallerAssumption DEF TypeInv, TypeOK, LoopShape, Grab, Step, Threads
<1>3. calls' \in [Callers -> 0 .. MaxCalls] /\ announcing' \in 0 .. 2
  <2>1. CASE t \in Callers /\ calls[t] > 0 /\ calls' = [calls EXCEPT ![t] = @ - 1]
             /\ UNCHANGED announcing
    <3>1. calls[t] - 1 \in 0 .. MaxCalls
      BY <2>1, BoundAssumption DEF TypeInv, TypeOK
    <3> QED BY <2>1, <3>1 DEF TypeInv, TypeOK
  <2>2. CASE announcing > 0 /\ announcing' = announcing - 1 /\ UNCHANGED calls
    BY <2>2 DEF TypeInv, TypeOK
  <2> QED BY <2>1, <2>2 DEF Grab
<1>4. TypeOK'
  <2>1. UNCHANGED <<loop, timed, due, ready, connections, pipe, aim, mine, timers, dead, live, last>>
    BY DEF Grab, scheduled
  <2>2. wakeLock' \in BOOLEAN
    BY DEF Grab
  <2> QED BY <1>1, <1>3, <2>1, <2>2 DEF TypeInv, TypeOK
<1>5. Distinct' /\ LoopShape'
  BY <1>2 DEF TypeInv, Distinct, Listed, LoopShape, Grab, scheduled
<1> QED BY <1>4, <1>5 DEF TypeInv

LEMMA AddTimerTypeInv ==
  ASSUME TypeInv, NEW t \in Threads, AddTimer(t)
  PROVE  TypeInv'
<1>1. call' \in [Threads -> {"idle", "send", "cancel", "mark", "schedule", "trigger", "publish"}]
  BY DEF TypeInv, TypeOK, AddTimer, Step
<1>2. call["loop"] = "idle" => call'["loop"] = "idle"
  BY CallerAssumption DEF TypeInv, TypeOK, AddTimer, Step, Threads
<1>3. PICK w \in Slots \ live :
        /\ mine' = [mine EXCEPT ![t] = w]
        /\ timers' = Append(timers, w) /\ live' = live \cup {w}
  BY DEF AddTimer
<1>4. due \in Seq(live) /\ timers \in Seq(live) /\ due' = due
  BY DEF TypeInv, TypeOK, AddTimer, looping
<1>5. due' \in Seq(live') /\ timers' \in Seq(live')
  BY <1>3, <1>4
<1>6. TypeOK'
  BY <1>1, <1>3, <1>5 DEF TypeInv, TypeOK, AddTimer, looping
<1>7. Distinct'
  <2>1. /\ Len(Listed') = Len(Listed) + 1 /\ Listed'[Len(Listed) + 1] = w
        /\ \A i \in 1 .. Len(Listed) : Listed'[i] = Listed[i] /\ Listed[i] \in live
        /\ Len(Listed) \in Nat
    BY <1>3, <1>4 DEF Listed
  <2> QED BY <2>1, <1>3 DEF TypeInv, Distinct
<1>8. LoopShape'
  BY <1>2 DEF TypeInv, LoopShape, AddTimer, looping
<1> QED BY <1>6, <1>7, <1>8 DEF TypeInv

LEMMA WakeTypeInv ==
  ASSUME TypeInv, Wake
  PROVE  TypeInv'
<1>1. PICK k \in 0 .. Len(timers), dialed \in {0} \cup {n \in {1} : connections > 0} :
        /\ due' = SubSeq(timers, 1, k) /\ timers' = SubSeq(timers, k + 1, Len(timers))
        /\ ready' = (IF pipe THEN <<"wakeup">> ELSE <<>>)
                    \o (IF dialed = 1 THEN <<"listen">> ELSE <<>>)
        /\ connections' = connections - dialed
  BY DEF Wake
<1>2. timers \in Seq(live) /\ due = <<>> /\ live' = live
  BY DEF TypeInv, TypeOK, LoopShape, Wake
<1>3. due' \in Seq(live') /\ timers' \in Seq(live')
  BY <1>1, <1>2
<1>4. ready' \in Seq({"wakeup", "listen"})
  <2>1. <<"wakeup">> \in Seq({"wakeup", "listen"}) /\ <<"listen">> \in Seq({"wakeup", "listen"})
        /\ <<>> \in Seq({"wakeup", "listen"})
    OBVIOUS
  <2>2. \A a, b \in Seq({"wakeup", "listen"}) : a \o b \in Seq({"wakeup", "listen"})
    OBVIOUS
  <2> QED BY <1>1, <2>1, <2>2
<1>5. connections' \in 0 .. MaxConn
  BY <1>1, BoundAssumption DEF TypeInv, TypeOK
<1>6. TypeOK'
  <2>1. UNCHANGED <<announcing, pipe, call, calls, aim, mine, wakeLock, dead, live, last>>
    BY DEF Wake, reports
  <2>2. loop' = "fire" /\ timed' = FALSE
    BY DEF Wake
  <2> QED BY <1>3, <1>4, <1>5, <2>1, <2>2 DEF TypeInv, TypeOK
<1>7. Listed' = Listed
  <2>1. Listed' \in Seq(live) /\ Listed \in Seq(live) /\ Listed = timers
    BY <1>2, <1>3 DEF Listed
  <2>2. k \in Nat /\ Len(timers) \in Nat /\ k <= Len(timers)
    BY <1>2
  <2>3. Len(due') = k /\ \A i \in 1 .. k : due'[i] = timers[i]
    BY <1>1, <1>2, <2>2
  <2>4. /\ Len(timers') = Len(timers) - k
        /\ \A i \in 1 .. Len(timers) - k : timers'[i] = timers[k + i]
    BY <1>1, <1>2, <2>2
  <2>5. Len(Listed') = Len(timers)
    <3>1. Len(Listed') = Len(due') + Len(timers')
      BY <1>3 DEF Listed
    <3> QED BY <2>2, <2>3, <2>4, <3>1
  <2>6. ASSUME NEW i \in 1 .. Len(timers) PROVE Listed'[i] = timers[i]
    <3>1. CASE i <= k
      <4>1. Listed'[i] = due'[i] /\ i \in 1 .. k
        BY <1>3, <2>2, <2>3, <3>1 DEF Listed
      <4> QED BY <2>3, <4>1
    <3>2. CASE i > k
      <4>1. Listed'[i] = timers'[i - k] /\ i - k \in 1 .. Len(timers) - k
        BY <1>3, <2>2, <2>3, <2>4, <3>2 DEF Listed
      <4> QED BY <2>2, <2>4, <4>1
    <3> QED BY <2>2, <3>1, <3>2
  <2> QED BY <2>1, <2>5, <2>6
<1>8. Distinct' /\ LoopShape'
  BY <1>7 DEF TypeInv, Distinct, LoopShape, Wake, reports
<1> QED BY <1>6, <1>8 DEF TypeInv

LEMMA FreeTimerTypeInv ==
  ASSUME TypeInv, FreeTimer
  PROVE  TypeInv'
<1>1. /\ due \in Seq(live) /\ timers \in Seq(live) /\ due # <<>>
      /\ due' = Tail(due) /\ timers' = timers /\ live' = live \ {Head(due)}
  BY DEF TypeInv, TypeOK, LoopShape, FreeTimer
<1>2. /\ Listed \in Seq(live) /\ Listed # <<>> /\ Listed[1] = Head(due)
      /\ Listed' = Tail(Listed)
  BY <1>1 DEF Listed
<1>3. Distinct'
  BY <1>2 DEF TypeInv, Distinct
<1>4. \A i \in 2 .. Len(Listed) : Listed[i] # Head(due)
  BY <1>2 DEF TypeInv, Distinct
<1>5. /\ \A i \in 1 .. Len(due') : due'[i] # Head(due)
      /\ \A i \in 1 .. Len(timers') : timers'[i] # Head(due)
  <2>1. \A i \in 1 .. Len(due') : i + 1 \in 2 .. Len(Listed) /\ due'[i] = Listed[i + 1]
    BY <1>1 DEF Listed
  <2>2. \A i \in 1 .. Len(timers') :
          i + Len(due) \in 2 .. Len(Listed) /\ timers'[i] = Listed[i + Len(due)]
    BY <1>1 DEF Listed
  <2> QED BY <1>4, <2>1, <2>2
<1>6. due' \in Seq(live') /\ timers' \in Seq(live')
  <2>1. due' \in Seq(live) /\ timers' \in Seq(live)
    BY <1>1
  <2> QED BY <1>1, <1>5, <2>1, SeqWithout
<1>7. dead' \subseteq live' /\ live' \subseteq Slots /\ last' \in {None} \cup Slots
  BY DEF TypeInv, TypeOK, FreeTimer
<1>8. TypeOK'
  <2>1. /\ UNCHANGED <<timed, ready, connections, announcing, pipe, call, calls, aim, mine, wakeLock>>
        /\ loop' = "fire"
    BY DEF FreeTimer, reports
  <2> QED BY <1>6, <1>7, <2>1 DEF TypeInv, TypeOK
<1>9. LoopShape'
  BY DEF TypeInv, LoopShape, FreeTimer, reports
<1> QED BY <1>3, <1>8, <1>9 DEF TypeInv

LEMMA LoopTypeInv ==
  ASSUME TypeInv,
         Select \/ Timeout \/ DrainPipe \/ Connect \/ Connected \/ Fired \/ Idle
  PROVE  TypeInv'
<1>1. UNCHANGED <<due, timers, live, dead, last, reports, connections>>
  BY DEF Select, Timeout, DrainPipe, Connect, Connected, Fired, Idle, vars, looping, scheduled
<1>2. ready' \in Seq({"wakeup", "listen"})
  <2>1. ready \in Seq({"wakeup", "listen"})
    BY DEF TypeInv, TypeOK
  <2>2. ready' = ready \/ (ready # <<>> /\ ready' = Tail(ready))
    BY DEF Select, Timeout, DrainPipe, Connect, Connected, Fired, Idle, Firing, vars, looping
  <2> QED BY <2>1, <2>2
<1>3. /\ loop' \in {"top", "select", "fire", "fired", "connect"}
      /\ announcing' \in 0 .. 2
  BY DEF TypeInv, TypeOK, Select, Timeout, DrainPipe, Connect, Connected, Fired, Idle,
         vars, looping
<1>7. timed' \in BOOLEAN /\ pipe' \in BOOLEAN /\ wakeLock' \in BOOLEAN
  BY Zenon DEF TypeInv, TypeOK, Select, Timeout, DrainPipe, Connect, Connected, Fired, Idle,
         vars, looping
<1>4. TypeOK'
  BY <1>1, <1>2, <1>3, <1>7 DEF TypeInv, TypeOK, reports
<1>5. LoopShape'
  BY <1>1 DEF TypeInv, LoopShape, Select, Timeout, DrainPipe, Connect, Connected, Fired,
              Idle, Firing, vars, looping, reports
<1>6. Distinct'
  BY <1>1 DEF TypeInv, Distinct, Listed
<1> QED BY <1>4, <1>5, <1>6 DEF TypeInv

LEMMA NextTypeInv == TypeInv /\ [Next]_vars => TypeInv'
<1> SUFFICES ASSUME TypeInv, [Next]_vars PROVE TypeInv'
  OBVIOUS
<1>1. CASE UNCHANGED vars
  BY <1>1 DEF TypeInv, TypeOK, Distinct, Listed, LoopShape, vars, looping, reports, scheduled
<1>2. ASSUME NEW t \in Threads, Grab(t) \/ Reporting(t) PROVE TypeInv'
  BY <1>2, GrabTypeInv, ReportTypeInv, AddTimerTypeInv DEF Reporting
<1>3. CASE Next
  BY <1>2, <1>3, WakeTypeInv, FreeTimerTypeInv, LoopTypeInv DEF Next, EventLoop, Threads
<1> QED BY <1>1, <1>3

\* ril_event.cpp never has a timer in timer_list or pending_list whose
\* memory was freed, though s_last_wake_timeout_info may point to one.
THEOREM TypeCorrect == Spec => []TypeOK
<1>1. Spec => []TypeInv
  BY InitTypeInv, NextTypeInv, PTL DEF Spec
<1>2. TypeInv => TypeOK
  BY DEF TypeInv
<1> QED BY <1>1, <1>2, PTL

-----------------------------------------------------------------------------
(* The loop does not sleep over a timer, and the wake lock has a release.  *)

\* An element of a queue is at its head or in its tail.
LEMMA TailKeeps ==
  ASSUME NEW S, NEW s \in Seq(S), s # <<>>
  PROVE  \A x \in Elements(s) : x = Head(s) \/ x \in Elements(Tail(s))
<1>1. SUFFICES ASSUME NEW i \in 1 .. Len(s), i # 1
               PROVE  s[i] \in Elements(Tail(s))
  BY DEF Elements
<1>2. i - 1 \in 1 .. Len(Tail(s)) /\ Tail(s)[i - 1] = s[i]
  BY <1>1
<1> QED BY <1>2 DEF Elements

LEMMA NextNoMissedTimer ==
  ASSUME TypeInv, NoMissedTimer, [Next]_vars
  PROVE  NoMissedTimer'
<1> USE DEF NoMissedTimer
<1>1. CASE UNCHANGED vars
  BY <1>1 DEF vars, looping, reports, scheduled
<1>2. ASSUME NEW t \in Threads, Grab(t) \/ Reporting(t) PROVE NoMissedTimer'
  <2>1. CASE AddTimer(t)
    <3>1. CASE t = "loop"
      <4>1. loop' = "connect"
        BY <2>1, <3>1 DEF TypeInv, LoopShape, AddTimer, Step, looping
      <4> QED BY <4>1
    <3>2. CASE t \in Callers
      <4>1. call'[t] = "trigger"
        BY <2>1, <3>2, CallerAssumption DEF TypeInv, TypeOK, AddTimer, Step, Threads
      <4> QED BY <3>2, <4>1
    <3> QED BY <3>1, <3>2 DEF Threads
  <2>2. CASE Trigger(t)
    BY <2>2 DEF Trigger
  <2>3. CASE Grab(t) \/ BadReport(t) \/ Send(t) \/ ReadLast(t) \/ CancelLast(t) \/ Publish(t)
    <3>1. UNCHANGED <<loop, timed, timers, pipe>>
      BY <2>3 DEF Grab, BadReport, Send, ReadLast, CancelLast, Publish, looping, scheduled
    <3>2. \A u \in Callers : call[u] = "trigger" => call'[u] = "trigger"
      BY <2>3 DEF TypeInv, TypeOK, Threads, Step,
                  Grab, BadReport, Send, ReadLast, CancelLast, Publish
    <3> QED BY <3>1, <3>2
  <2> QED BY <1>2, <2>1, <2>2, <2>3 DEF Reporting
<1>3. CASE Select
  BY <1>3, Zenon DEF Select, scheduled
<1>4. CASE Wake \/ Timeout \/ FreeTimer \/ DrainPipe \/ Connect \/ Connected \/ Fired
  BY <1>4 DEF Wake, Timeout, FreeTimer, DrainPipe, Connect, Connected, Fired, Firing
<1>5. CASE Idle
  BY <1>5, <1>1 DEF Idle
<1> QED BY <1>1, <1>2, <1>3, <1>4, <1>5 DEF Next, EventLoop, Threads

\* A lock that the step leaves held keeps its release: a report still on its
\* way, or a timer that waits and that nobody marked.
LEMMA ReportReleaseScheduled ==
  ASSUME TypeInv, ReleaseScheduled, NEW t \in Threads, Grab(t) \/ Reporting(t)
  PROVE  ReleaseScheduled'
<1>1. UNCHANGED <<loop, due>>
  BY DEF Grab, Reporting, BadReport, Send, ReadLast, CancelLast, AddTimer, Trigger, Publish,
         looping
<1>2. CASE Grab(t) \/ Send(t) \/ ReadLast(t) \/ CancelLast(t)
  <2>1. call'[t] \in {"send", "cancel", "mark", "schedule"}
    BY <1>2 DEF TypeInv, TypeOK, Grab, Send, ReadLast, CancelLast, Step
  <2> QED BY <2>1 DEF ReleaseScheduled
<1>3. CASE BadReport(t)
  BY <1>3 DEF BadReport, ReleaseScheduled
<1>4. CASE AddTimer(t)
  <2>1. PICK w \in Slots \ live : timers' = Append(timers, w)
    BY <1>4 DEF AddTimer
  <2>2. timers \in Seq(live)
    BY DEF TypeInv, TypeOK
  <2>3. w \in Elements(timers)'
    <3>1. Len(timers') \in 1 .. Len(timers') /\ timers'[Len(timers')] = w
      BY <2>1, <2>2
    <3> QED BY <3>1 DEF Elements
  <2>4. w \notin dead'
    BY <1>4, <2>1 DEF AddTimer, TypeInv, TypeOK
  <2> QED BY <2>3, <2>4 DEF ReleaseScheduled, Waiting
<1>5. CASE Trigger(t) \/ Publish(t)
  <2>1. UNCHANGED <<timers, dead, wakeLock>>
    BY <1>5 DEF Trigger, Publish, scheduled
  <2>2. \A u \in Threads : call[u] \in {"send", "cancel", "mark", "schedule"}
                           => call'[u] = call[u]
    BY <1>5 DEF TypeInv, TypeOK, Trigger, Publish, Step
  <2>3. Waiting' = Waiting
    BY <1>1, <2>1 DEF Waiting, Elements
  <2> QED BY <2>1, <2>2, <2>3 DEF ReleaseScheduled
<1> QED BY <1>2, <1>3, <1>4, <1>5 DEF Reporting

LEMMA LoopReleaseScheduled ==
  ASSUME TypeInv, ReleaseScheduled,
         \/ Select \/ Wake \/ Timeout \/ FreeTimer \/ DrainPipe \/ Connect \/ Connected
         \/ Fired \/ Idle \/ UNCHANGED vars
  PROVE  ReleaseScheduled'
<1>1. call' = call
  BY DEF Select, Wake, Timeout, FreeTimer, DrainPipe, Connect, Connected, Fired, Idle,
         vars, reports
<1>2. due \in Seq(live) /\ timers \in Seq(live)
  BY DEF TypeInv, TypeOK
<1>3. CASE Wake
  <2>1. UNCHANGED <<dead, wakeLock>> /\ loop # "fired" /\ loop' = "fire" /\ due = <<>>
    BY <1>3 DEF Wake, TypeInv, LoopShape
  <2>2. PICK k \in 0 .. Len(timers) :
          due' = SubSeq(timers, 1, k) /\ timers' = SubSeq(timers, k + 1, Len(timers))
    BY <1>3 DEF Wake
  <2>3. ASSUME NEW i \in 1 .. Len(timers)
        PROVE  timers[i] \in Elements(due)' \cup Elements(timers)'
    <3>1. CASE i <= k
      <4>1. i \in 1 .. Len(due') /\ due'[i] = timers[i]
        BY <1>2, <2>2, <3>1
      <4> QED BY <4>1 DEF Elements
    <3>2. CASE i > k
      <4>1. i - k \in 1 .. Len(timers') /\ timers'[i - k] = timers[i]
        BY <1>2, <2>2, <3>2
      <4> QED BY <4>1 DEF Elements
    <3> QED BY <1>2, <3>1, <3>2
  <2>4. Waiting \subseteq Waiting'
    <3>1. Waiting = Elements(timers)
      BY <2>1 DEF Waiting, Elements
    <3>2. Waiting' = Elements(timers)' \cup Elements(due)'
      BY <2>1 DEF Waiting
    <3>3. Elements(timers) \subseteq Elements(due)' \cup Elements(timers)'
      BY <2>3 DEF Elements
    <3> QED BY <3>1, <3>2, <3>3
  <2> QED BY <1>1, <2>1, <2>4 DEF ReleaseScheduled
<1>4. CASE Timeout
  <2>1. UNCHANGED <<due, timers, dead>> /\ due # <<>> /\ loop = "fire" /\ loop' = "fired"
    BY <1>4 DEF Timeout, scheduled
  <2>2. CASE Head(due) \in dead
    <3>1. wakeLock' => wakeLock
      BY <1>4, Zenon DEF Timeout
    <3>2. \A w \in Waiting : w \notin dead => w \in Waiting'
      BY <1>2, <2>1, <2>2, TailKeeps DEF Waiting, Elements
    <3> QED BY <1>1, <2>1, <3>1, <3>2 DEF ReleaseScheduled
  <2>3. CASE Head(due) \notin dead
    <3>1. ~wakeLock'
      BY <1>4, <2>3, Zenon DEF Timeout
    <3> QED BY <3>1 DEF ReleaseScheduled
  <2> QED BY <2>2, <2>3
<1>5. CASE FreeTimer
  <2>1. /\ due' = Tail(due) /\ loop = "fired" /\ loop' = "fire"
        /\ UNCHANGED <<timers, wakeLock>> /\ dead' \subseteq dead
    BY <1>5 DEF FreeTimer
  <2>2. Waiting' = Waiting
    BY <2>1 DEF Waiting, Elements
  <2> QED BY <1>1, <2>1, <2>2 DEF ReleaseScheduled
<1>6. CASE \/ Select \/ DrainPipe \/ Connect \/ Connected \/ Fired \/ Idle
           \/ UNCHANGED vars
  <2>1. UNCHANGED <<due, timers, dead, wakeLock>> /\ (loop' = "fired" <=> loop = "fired")
    BY <1>6 DEF Select, DrainPipe, Connect, Connected, Fired, Idle, Firing, vars, looping,
                scheduled
  <2>2. Waiting' = Waiting
    BY <2>1 DEF Waiting, Elements
  <2> QED BY <1>1, <2>1, <2>2 DEF ReleaseScheduled
<1> QED BY <1>3, <1>4, <1>5, <1>6

\* ril_event_loop never blocks in select without a timeout while a timer
\* waits that no byte in the pipe announces.
THEOREM TimersAreSeen == Spec => []NoMissedTimer
<1>1. Init => TypeInv /\ NoMissedTimer
  BY InitTypeInv DEF Init, NoMissedTimer
<1>2. TypeInv /\ NoMissedTimer /\ [Next]_vars => TypeInv' /\ NoMissedTimer'
  BY NextTypeInv, NextNoMissedTimer
<1> QED BY <1>1, <1>2, PTL DEF Spec

\* Reports that cancel each other's timers never leave the wake lock without
\* one that will release it.
THEOREM LockHasRelease == Spec => []ReleaseScheduled
<1>1. Init => TypeInv /\ ReleaseScheduled
  BY InitTypeInv DEF Init, ReleaseScheduled
<1>2. TypeInv /\ ReleaseScheduled /\ [Next]_vars => TypeInv' /\ ReleaseScheduled'
  <2>1. ASSUME TypeInv, ReleaseScheduled, [Next]_vars PROVE ReleaseScheduled'
    BY <2>1, ReportReleaseScheduled, LoopReleaseScheduled DEF Next, EventLoop, Threads
  <2> QED BY <2>1, NextTypeInv
<1> QED BY <1>1, <1>2, PTL DEF Spec
=============================================================================
