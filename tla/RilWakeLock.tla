----------------------------- MODULE RilWakeLock -----------------------------
(***************************************************************************)
(* The radio daemon's timers and wake lock (legacy libril: ril_event.cpp,  *)
(* RIL_onUnsolicitedResponse and its timer in ril.cpp).                    *)
(*                                                                         *)
(* A report takes the wake lock, sends its message and then schedules a    *)
(* timer that releases the lock, after it has cancelled the timer of the   *)
(* report before it by a mark. Vendor threads report at any time, and the  *)
(* event loop's own thread when a client connects; the event loop fires    *)
(* timers and frees them. The timer list has a mutex; the pointer to the   *)
(* previous timer and the wake lock have none.                             *)
(***************************************************************************)
EXTENDS Naturals, Sequences, FiniteSets

CONSTANTS Callers,   \* vendor threads that report
          MaxCalls,  \* bound: reports of each
          MaxConn    \* bound: connections, each with two reports on the loop

ASSUME CallerAssumption == IsFiniteSet(Callers) /\ "loop" \notin Callers
ASSUME BoundAssumption  == MaxCalls \in Nat /\ MaxConn \in Nat

Threads == Callers \cup {"loop"}
None    == 0                          \* no timer
Slots   == 1 .. 2 * MaxConn + MaxCalls * Cardinality(Callers)   \* of memory, for timers

VARIABLES
  loop,       \* where the event loop is
  timed,      \* select has a timeout: calcNextTimeout found a timer
  due, ready, \* pending_list: timers that fire, then descriptors
  connections, announcing, \* connections still to come; responses still to send
  pipe,       \* the wakeup pipe has a byte
  call,       \* where a thread is in RIL_onUnsolicitedResponse
  calls,      \* reports still to come
  aim, mine,  \* the previous timer as a thread read it; the one it made
  wakeLock,
  timers,     \* timer_list, soonest first
  dead,       \* timers whose userParam says they are cancelled
  live,       \* slots that hold a timer
  last        \* s_last_wake_timeout_info

looping   == <<loop, timed, due, ready, connections, announcing>>
reports   == <<call, calls, aim, mine>>
scheduled == <<timers, dead, live, last>>
vars      == <<looping, pipe, reports, wakeLock, scheduled>>

Init ==
  /\ loop = "top" /\ timed = FALSE /\ due = <<>> /\ ready = <<>>
  /\ connections = MaxConn /\ announcing = 0 /\ pipe = FALSE
  /\ call = [t \in Threads |-> "idle"] /\ calls = [t \in Callers |-> MaxCalls]
  /\ aim = [t \in Threads |-> None] /\ mine = [t \in Threads |-> None]
  /\ wakeLock = FALSE
  /\ timers = <<>> /\ dead = {} /\ live = {} /\ last = None

-----------------------------------------------------------------------------
(* RIL_onUnsolicitedResponse of a response that wakes, on a vendor thread, *)
(* or on the event loop when onNewCommandConnect calls it.                 *)

Step(t, from, to) == call[t] = from /\ call' = [call EXCEPT ![t] = to]

Grab(t) ==
  /\ Step(t, "idle", "send")
  /\ wakeLock' = TRUE
  /\ \/ /\ t \in Callers /\ calls[t] > 0
        /\ calls' = [calls EXCEPT ![t] = @ - 1]
        /\ UNCHANGED announcing
     \/ /\ t = "loop" /\ loop = "connect" /\ announcing > 0
        /\ announcing' = announcing - 1
        /\ UNCHANGED calls
  /\ UNCHANGED <<loop, timed, due, ready, connections, pipe, aim, mine, scheduled>>

(* Mutant: error_exit keeps the lock.                                      *)
BadReportKeepsLock(t) ==
  /\ t \in Callers /\ Step(t, "send", "idle")
  /\ UNCHANGED <<looping, pipe, calls, aim, mine, wakeLock, scheduled>>

(* The response function refused the data: error_exit.                     *)
BadReport(t) ==
  /\ t \in Callers /\ Step(t, "send", "idle")
  /\ wakeLock' = FALSE
  /\ UNCHANGED <<looping, pipe, calls, aim, mine, scheduled>>

Send(t) ==
  /\ Step(t, "send", "cancel")
  /\ UNCHANGED <<looping, pipe, calls, aim, mine, wakeLock, scheduled>>

(* "Cancel the previous request": nothing keeps the timer from firing and  *)
(* being freed between the two steps.                                      *)
ReadLast(t) ==
  /\ Step(t, "cancel", IF last = None THEN "schedule" ELSE "mark")
  /\ aim' = [aim EXCEPT ![t] = last]
  /\ UNCHANGED <<looping, pipe, calls, mine, wakeLock, scheduled>>

(* Mutant: the timer is freed at once.                                     *)
CancelLastFrees(t) ==
  /\ Step(t, "mark", "schedule")
  /\ dead' = dead \ {aim[t]} /\ aim' = [aim EXCEPT ![t] = None]
  /\ live' = live \ {aim[t]}
  /\ UNCHANGED <<looping, pipe, calls, mine, wakeLock, timers, last>>

(* The slot may hold another timer by now, or none.                        *)
CancelLast(t) ==
  /\ Step(t, "mark", "schedule")
  /\ dead' = dead \cup ({aim[t]} \cap live) /\ aim' = [aim EXCEPT ![t] = None]
  /\ UNCHANGED <<looping, pipe, calls, mine, wakeLock, timers, live, last>>

(* internalRequestTimedCallback: a timer in free memory, and ril_timer_add;*)
(* every timer has the same delay.                                         *)
AddTimer(t) ==
  /\ Step(t, "schedule", IF t = "loop" THEN "publish" ELSE "trigger")
  /\ \E w \in Slots \ live :
       /\ mine' = [mine EXCEPT ![t] = w]
       /\ timers' = Append(timers, w) /\ live' = live \cup {w}
  /\ UNCHANGED <<looping, pipe, calls, aim, wakeLock, dead, last>>

(* triggerEvLoop, on another thread than the loop's.                       *)
Trigger(t) ==
  /\ Step(t, "trigger", "publish")
  /\ pipe' = TRUE
  /\ UNCHANGED <<looping, calls, aim, mine, wakeLock, scheduled>>

Publish(t) ==
  /\ Step(t, "publish", "idle")
  /\ last' = mine[t] /\ mine' = [mine EXCEPT ![t] = None]
  /\ UNCHANGED <<looping, pipe, calls, aim, wakeLock, timers, dead, live>>

Reporting(t) == BadReport(t) \/ Send(t) \/ ReadLast(t) \/ CancelLast(t) \/ AddTimer(t)
                \/ Trigger(t) \/ Publish(t)

-----------------------------------------------------------------------------
(* ril_event_loop.                                                         *)

(* Mutant: select blocks without a timeout.                                *)
SelectStale ==
  /\ loop = "top" /\ loop' = "select"
  /\ UNCHANGED <<timed, due, ready, connections, announcing, pipe, reports, wakeLock, scheduled>>

Select ==
  /\ loop = "top" /\ loop' = "select"
  /\ timed' = (timers # <<>>)
  /\ UNCHANGED <<due, ready, connections, announcing, pipe, reports, wakeLock, scheduled>>

(* select returns for a descriptor or, with a timeout, for a timer;        *)
(* processTimeouts and processReadReadies fill the list.                   *)
Wake ==
  /\ loop = "select" /\ loop' = "fire" /\ timed' = FALSE
  /\ \E k \in 0 .. Len(timers), dialed \in {0} \cup {n \in {1} : connections > 0} :
       /\ pipe \/ dialed = 1 \/ (timed /\ k > 0)
       /\ due' = SubSeq(timers, 1, k) /\ timers' = SubSeq(timers, k + 1, Len(timers))
       /\ ready' = (IF pipe THEN <<"wakeup">> ELSE <<>>)
                   \o (IF dialed = 1 THEN <<"listen">> ELSE <<>>)
       /\ connections' = connections - dialed
  /\ UNCHANGED <<announcing, pipe, reports, wakeLock, dead, live, last>>

(* Mutant: the lock is released by the timer that is known as the last.    *)
TimeoutOfLast ==
  /\ loop = "fire" /\ due # <<>> /\ loop' = "fired"
  /\ wakeLock' = (wakeLock /\ Head(due) # last)
  /\ UNCHANGED <<timed, due, ready, connections, announcing, pipe, reports, scheduled>>

(* userTimerCallback: wakeTimeoutCallback, then the cleanup.               *)
Timeout ==
  /\ loop = "fire" /\ due # <<>> /\ loop' = "fired"
  /\ wakeLock' = (wakeLock /\ Head(due) \in dead)
  /\ UNCHANGED <<timed, due, ready, connections, announcing, pipe, reports, scheduled>>

FreeTimer ==
  /\ loop = "fired" /\ loop' = "fire" /\ due' = Tail(due)
  /\ last' = IF last = Head(due) THEN None ELSE last
  /\ live' = live \ {Head(due)} /\ dead' = dead \ {Head(due)}
  /\ UNCHANGED <<timed, ready, connections, announcing, pipe, reports, wakeLock, timers>>

Firing(what) == loop = "fire" /\ due = <<>> /\ ready # <<>> /\ Head(ready) = what

(* processWakeupCallback.                                                  *)
DrainPipe ==
  /\ Firing("wakeup") /\ pipe' = FALSE /\ ready' = Tail(ready)
  /\ UNCHANGED <<loop, timed, due, connections, announcing, reports, wakeLock, scheduled>>

(* listenCallback, which calls onNewCommandConnect.                        *)
Connect ==
  /\ Firing("listen") /\ loop' = "connect" /\ announcing' = 2 /\ ready' = Tail(ready)
  /\ UNCHANGED <<timed, due, connections, pipe, reports, wakeLock, scheduled>>

Connected ==
  /\ loop = "connect" /\ announcing = 0 /\ call["loop"] = "idle" /\ loop' = "fire"
  /\ UNCHANGED <<timed, due, ready, connections, announcing, pipe, reports, wakeLock, scheduled>>

Fired ==
  /\ loop = "fire" /\ due = <<>> /\ ready = <<>> /\ loop' = "top"
  /\ UNCHANGED <<timed, due, ready, connections, announcing, pipe, reports, wakeLock, scheduled>>

EventLoop == \/ Select \/ Wake \/ Timeout \/ FreeTimer \/ DrainPipe \/ Connect \/ Connected
             \/ Fired \/ Grab("loop") \/ Reporting("loop")

(* select blocks; every report that was to come has come.                  *)
Idle ==
  /\ loop = "select" /\ timers = <<>> /\ ~pipe /\ connections = 0
  /\ \A t \in Callers : call[t] = "idle" /\ calls[t] = 0
  /\ UNCHANGED vars

Next == EventLoop \/ Idle \/ \E t \in Callers : Grab(t) \/ Reporting(t)

Spec == Init /\ [][Next]_vars

(* Threads keep running and timers expire.                                 *)
FairSpec == Spec /\ WF_vars(EventLoop) /\ \A t \in Callers : WF_vars(Reporting(t))

-----------------------------------------------------------------------------
(* Properties.                                                             *)

Elements(s) == {s[i] : i \in 1 .. Len(s)}

(* Timers that have not fired; userTimerCallback of Head(due) has run when *)
(* the loop is at "fired".                                                 *)
Waiting == Elements(timers) \cup Elements(IF loop = "fired" THEN Tail(due) ELSE due)

(* A timer in a list is in memory that was not freed: the mark that        *)
(* cancels it must leave it there.                                         *)
TypeOK ==
  /\ loop \in {"top", "select", "fire", "fired", "connect"} /\ timed \in BOOLEAN
  /\ due \in Seq(live) /\ ready \in Seq({"wakeup", "listen"})
  /\ connections \in 0 .. MaxConn /\ announcing \in 0 .. 2 /\ pipe \in BOOLEAN
  /\ call \in [Threads -> {"idle", "send", "cancel", "mark", "schedule", "trigger", "publish"}]
  /\ calls \in [Callers -> 0 .. MaxCalls]
  /\ aim \in [Threads -> {None} \cup Slots] /\ mine \in [Threads -> {None} \cup Slots]
  /\ wakeLock \in BOOLEAN /\ timers \in Seq(live)
  /\ dead \subseteq live /\ live \subseteq Slots /\ last \in {None} \cup Slots

(* The loop does not sleep without a timeout while a timer waits, unless a *)
(* byte in the pipe wakes it or is about to be written by the thread that  *)
(* added the timer (triggerEvLoop).                                        *)
NoMissedTimer ==
  loop = "select" /\ timers # <<>> => timed \/ pipe \/ \E t \in Callers : call[t] = "trigger"

(* Whenever the lock is held, a timer that nobody cancelled waits to       *)
(* release it, or a report has still to schedule its own: reports that     *)
(* cancel each other's timers, or a timer that took the memory of the one  *)
(* they meant, leave one.                                                  *)
ReleaseScheduled ==
  wakeLock => \/ \E t \in Threads : call[t] \in {"send", "cancel", "mark", "schedule"}
              \/ \E w \in Waiting : w \notin dead

(* The wake lock that a report took is released in the end.                *)
WakeLockReleased == wakeLock ~> ~wakeLock
=============================================================================
