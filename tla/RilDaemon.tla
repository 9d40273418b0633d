------------------------------ MODULE RilDaemon ------------------------------
(***************************************************************************)
(* The radio daemon's library (legacy libril: ril.cpp, ril_event.cpp).     *)
(*                                                                         *)
(* One event loop thread accepts the telephony process on a socket, reads  *)
(* its requests and hands them to the vendor's library. Vendor threads     *)
(* complete requests (RIL_onRequestComplete) and report events             *)
(* (RIL_onUnsolicitedResponse) at any time: they write to whatever         *)
(* connection there is, and keep network time (NITZ) that could not be     *)
(* sent for the next one. Only the request list, the watch table and a     *)
(* write have locks. Timers and the wake lock are in RilWakeLock.          *)
(***************************************************************************)
EXTENDS Naturals, Sequences, FiniteSets

CONSTANTS Requests,    \* requests the telephony process may send
          Kind,        \* what each is: "valid", "malformed", "unsupported"
          Callers,     \* vendor threads that report events
          NitzCaller,  \* the one of them that reports network time
          MaxConn,     \* bound: connections that are tried
          MaxCalls,    \* bound: reports of each vendor thread
          MaxRejects   \* bound: connections refused, failures of accept()

ASSUME RequestAssumption ==
  Kind \in [Requests -> {"valid", "malformed", "unsupported"}]
ASSUME CallerAssumption == "loop" \notin Callers /\ NitzCaller # "loop"
ASSUME BoundAssumption == MaxConn \in Nat /\ MaxCalls \in Nat /\ MaxRejects \in Nat

Conns   == 1 .. MaxConn
Threads == Callers \cup {"loop"}    \* threads that send unsolicited responses
None    == 0                        \* no descriptor, no NITZ copy

VARIABLES
  client,     \* per connection, its other end: "none" yet, "up", "gone" (hung up, or
              \* its connection was refused or closed by the daemon)
  backlog,    \* connections that wait in listen()
  inbox,      \* requests sent and not read yet
  rejects,    \* refusals and failures of accept() still to come
  listening,  \* s_listen_event is in the watch table
  fdCommand,  \* the connection of the command socket, or None
  isOpen,     \* per connection, its descriptor is open
  loop,       \* where the event loop is
  ready,      \* pending_list: the descriptors that are ready
  announcing, \* responses onNewCommandConnect still has to send
  killed,     \* select failed and the daemon killed itself
  owner,      \* the connection a request came from
  pending,    \* s_pendingRequests
  cancelled,  \* requests with `cancelled` set
  reply, replyFd, \* where the completion of a request is; the fd it read
  answers,    \* history: <<request, connection its response was written to>>
  missed,     \* history: what was pending when a connection was closed
  call, callFd,   \* where a thread is in RIL_onUnsolicitedResponse; its fd
  calls,      \* reports still to come
  nitz,       \* s_lastNITZTimeData: serial number of the copy, or None
  serial,     \* history: NITZ times reported so far
  owed,       \* history: the last one whose write failed, not sent since
  overlap     \* history: a NITZ report overlapped a new connection's handler

peer     == <<client, backlog, inbox, rejects>>
socket   == <<listening, fdCommand, isOpen>>
looping  == <<loop, ready, announcing, killed>>
requests == <<owner, pending, cancelled, reply, replyFd, answers, missed>>
reports  == <<call, callFd, calls>>
time     == <<nitz, serial, owed, overlap>>
vars     == <<peer, socket, looping, requests, reports, time>>

InNitz(t) == t = NitzCaller /\ call[t] # "idle"
Connected == fdCommand # None /\ isOpen[fdCommand] /\ client[fdCommand] = "up"

Init ==
  /\ client = [c \in Conns |-> "none"] /\ backlog = {}
  /\ inbox = [c \in Conns |-> <<>>] /\ rejects = MaxRejects
  /\ listening = TRUE /\ fdCommand = None /\ isOpen = [c \in Conns |-> FALSE]
  /\ loop = "top" /\ ready = <<>> /\ announcing = 0 /\ killed = FALSE
  /\ owner = [r \in Requests |-> None] /\ pending = {} /\ cancelled = {}
  /\ reply = [r \in Requests |-> "none"] /\ replyFd = [r \in Requests |-> None]
  /\ answers = {} /\ missed = {}
  /\ call = [t \in Threads |-> "idle"] /\ callFd = [t \in Threads |-> None]
  /\ calls = [t \in Callers |-> MaxCalls]
  /\ nitz = None /\ serial = 0 /\ owed = None /\ overlap = FALSE

-----------------------------------------------------------------------------
(* The telephony process.                                                  *)

Dial(c) ==
  /\ client[c] = "none" /\ \A d \in Conns : d < c => client[d] # "none"
  /\ client' = [client EXCEPT ![c] = "up"] /\ backlog' = backlog \cup {c}
  /\ UNCHANGED <<inbox, rejects, socket, looping, requests, reports, time>>

Ask(c, r) ==
  /\ client[c] = "up" /\ owner[r] = None
  /\ owner' = [owner EXCEPT ![r] = c]
  /\ inbox' = [inbox EXCEPT ![c] = Append(@, r)]
  /\ UNCHANGED <<client, backlog, rejects, socket, looping, pending, cancelled, reply,
                 replyFd, answers, missed, reports, time>>

HangUp(c) ==
  /\ client[c] = "up" /\ client' = [client EXCEPT ![c] = "gone"]
  /\ UNCHANGED <<backlog, inbox, rejects, socket, looping, requests, reports, time>>

Client == \E c \in Conns : Dial(c) \/ HangUp(c) \/ \E r \in Requests : Ask(c, r)

-----------------------------------------------------------------------------
(* sendResponseRaw and blockingWrite.                                      *)

(* Where a write to the descriptor of c goes: a number that was closed is  *)
(* in use again when the next connection was given it.                     *)
Reaches(c) == IF isOpen[c] THEN {c} ELSE {None} \cup {d \in {fdCommand} : d # None /\ isOpen[d]}

Writes(d) == d # None /\ client[d] = "up"

(* A write that fails closes the descriptor; fdCommand keeps its value.    *)
Written(d) == isOpen' = IF d = None \/ Writes(d) THEN isOpen
                        ELSE [isOpen EXCEPT ![d] = FALSE]

-----------------------------------------------------------------------------
(* RIL_onRequestComplete, on a vendor thread.                              *)

(* Mutant: the completion does not look at `cancelled`.                   *)
CompleteUnchecked(r) ==
  /\ ~killed /\ reply[r] = "vendor"
  /\ pending' = pending \ {r}
  /\ reply' = [reply EXCEPT ![r] = IF r \in pending
                                   THEN "send" ELSE "done"]
  /\ UNCHANGED <<peer, socket, looping, owner, cancelled, replyFd, answers, missed,
                 reports, time>>

(* checkAndDequeueRequestInfo; `cancelled` cannot change from then on.     *)
Complete(r) ==
  /\ ~killed /\ reply[r] = "vendor"
  /\ pending' = pending \ {r}
  /\ reply' = [reply EXCEPT ![r] = IF r \in pending /\ r \notin cancelled
                                   THEN "send" ELSE "done"]
  /\ UNCHANGED <<peer, socket, looping, owner, cancelled, replyFd, answers, missed,
                 reports, time>>

(* Mutant: a closed command socket goes unnoticed.                        *)
ReadReplyFdUnchecked(r) ==
  /\ ~killed /\ reply[r] = "send"
  /\ \/ reply' = [reply EXCEPT ![r] = "write"] /\ replyFd' = [replyFd EXCEPT ![r] = fdCommand]
     \/ reply' = [reply EXCEPT ![r] = "oversize"] /\ UNCHANGED replyFd
  /\ UNCHANGED <<peer, socket, looping, owner, pending, cancelled, answers, missed,
                 reports, time>>

(* sendResponseRaw reads fdCommand before it takes the write mutex, and    *)
(* drops a response larger than MAX_COMMAND_BYTES.                         *)
ReadReplyFd(r) ==
  /\ ~killed /\ reply[r] = "send"
  /\ \/ /\ fdCommand = None
        /\ reply' = [reply EXCEPT ![r] = "done"] /\ UNCHANGED replyFd
     \/ /\ fdCommand # None
        /\ reply' = [reply EXCEPT ![r] = "write"]
        /\ replyFd' = [replyFd EXCEPT ![r] = fdCommand]
     \/ /\ fdCommand # None
        /\ reply' = [reply EXCEPT ![r] = "oversize"] /\ UNCHANGED replyFd
  /\ UNCHANGED <<peer, socket, looping, owner, pending, cancelled, answers, missed,
                 reports, time>>

WriteReply(r) ==
  /\ ~killed /\ reply[r] = "write"
  /\ \E d \in Reaches(replyFd[r]) :
       /\ Written(d)
       /\ answers' = IF Writes(d) THEN answers \cup {<<r, d>>} ELSE answers
  /\ reply' = [reply EXCEPT ![r] = "done"] /\ replyFd' = [replyFd EXCEPT ![r] = None]
  /\ UNCHANGED <<peer, listening, fdCommand, looping, owner, pending, cancelled, missed,
                 reports, time>>

Reply == \E r \in Requests : Complete(r) \/ ReadReplyFd(r) \/ WriteReply(r)

-----------------------------------------------------------------------------
(* RIL_onUnsolicitedResponse, on a vendor thread, or on the event loop     *)
(* when onNewCommandConnect calls it.                                      *)

Step(t, from, to) == ~killed /\ call[t] = from /\ call' = [call EXCEPT ![t] = to]

Grab(t) ==
  /\ Step(t, "idle", "send")
  /\ \/ /\ t \in Callers /\ calls[t] > 0
        /\ calls' = [calls EXCEPT ![t] = @ - 1]
        /\ UNCHANGED announcing
     \/ /\ t = "loop" /\ loop = "connect" /\ announcing > 0
        /\ announcing' = announcing - 1
        /\ UNCHANGED calls
  /\ IF t = NitzCaller
     THEN serial' = serial + 1 /\ overlap' = (overlap \/ loop \in {"connect", "connected"})
     ELSE UNCHANGED <<serial, overlap>>
  /\ UNCHANGED <<peer, socket, loop, ready, killed, requests, callFd, nitz, owed>>

(* The response function refused the data (error_exit); or what it made is *)
(* larger than MAX_COMMAND_BYTES and sendResponseRaw drops it. A network   *)
(* time is a short string, so that only the former happens to it.          *)
BadReport(t) ==
  /\ t \in Callers /\ Step(t, "send", "idle")
  /\ UNCHANGED <<peer, socket, looping, requests, callFd, calls, time>>

Unsent(t) == IF InNitz(t) THEN "store" ELSE "idle"

ReadFd(t) ==
  /\ Step(t, "send", IF fdCommand = None THEN Unsent(t) ELSE "write")
  /\ callFd' = [callFd EXCEPT ![t] = fdCommand]
  /\ owed' = IF fdCommand = None /\ InNitz(t) THEN serial ELSE owed
  /\ UNCHANGED <<peer, socket, looping, requests, calls, nitz, serial, overlap>>

WriteReport(t) ==
  call[t] = "write" /\ \E d \in Reaches(callFd[t]) :
    /\ Step(t, "write", IF Writes(d) THEN "idle" ELSE Unsent(t))
    /\ callFd' = [callFd EXCEPT ![t] = None]
    /\ Written(d)
    /\ owed' = IF InNitz(t) THEN IF Writes(d) THEN None ELSE serial ELSE owed
    /\ UNCHANGED <<peer, listening, fdCommand, looping, requests, calls, nitz, serial,
                   overlap>>

(* The copy replaces the one that was kept.                                *)
StoreNitz(t) ==
  /\ Step(t, "store", "idle")
  /\ nitz' = serial
  /\ UNCHANGED <<peer, socket, looping, requests, callFd, calls, serial, owed, overlap>>

Reporting(t) == BadReport(t) \/ ReadFd(t) \/ WriteReport(t) \/ StoreNitz(t)

-----------------------------------------------------------------------------
(* ril_event_loop. A descriptor that blockingWrite closed is still watched *)
(* then: select fails with EBADF and eventLoop kills the daemon.           *)

Readable(c) == c # None /\ (inbox[c] # <<>> \/ client[c] = "gone" \/ ~isOpen[c])

Select ==
  /\ ~killed /\ loop = "top"
  /\ IF fdCommand # None /\ ~isOpen[fdCommand]
     THEN killed' = TRUE /\ UNCHANGED loop
     ELSE loop' = "select" /\ UNCHANGED killed
  /\ UNCHANGED <<peer, socket, ready, announcing, requests, reports, time>>

(* processReadReadies.                                                     *)
Ready == (IF listening /\ backlog # {} THEN <<"listen">> ELSE <<>>)
         \o (IF Readable(fdCommand) THEN <<"commands">> ELSE <<>>)

(* Mutant: the listen event is persistent.                                *)
WakeKeepsListening ==
  /\ ~killed /\ loop = "select" /\ Ready # <<>>
  /\ ready' = Ready /\ loop' = "fire"
  /\ listening' = listening
  /\ UNCHANGED <<peer, fdCommand, isOpen, announcing, killed, requests, reports, time>>

(* The listen event is not persistent and leaves the watch table.          *)
Wake ==
  /\ ~killed /\ loop = "select" /\ Ready # <<>>
  /\ ready' = Ready /\ loop' = "fire"
  /\ listening' = (listening /\ backlog = {})
  /\ UNCHANGED <<peer, fdCommand, isOpen, announcing, killed, requests, reports, time>>

Firing(what) == ~killed /\ loop = "fire" /\ ready # <<>> /\ Head(ready) = what

Fired ==
  /\ ~killed /\ loop = "fire" /\ ready = <<>> /\ loop' = "top"
  /\ UNCHANGED <<peer, socket, ready, announcing, killed, requests, reports, time>>

-----------------------------------------------------------------------------
(* listenCallback.                                                         *)

Accept(c) == Firing("listen") /\ c \in backlog /\ \A d \in backlog : c <= d

AcceptClient(c) ==
  /\ Accept(c) /\ backlog' = backlog \ {c}
  /\ fdCommand' = c /\ isOpen' = [isOpen EXCEPT ![c] = TRUE]
  /\ loop' = "connect" /\ announcing' = 2
  /\ overlap' = (overlap \/ \E t \in Callers : InNitz(t))
  /\ UNCHANGED <<client, inbox, rejects, listening, ready, killed, requests, reports,
                 nitz, serial, owed>>

(* Not the telephony process, or accept() failed.                          *)
RefuseClient(c) ==
  /\ Accept(c) /\ rejects > 0 /\ rejects' = rejects - 1
  /\ \/ /\ backlog' = backlog \ {c}
        /\ client' = [client EXCEPT ![c] = "gone"]
        /\ cancelled' = cancelled \cup pending
     \/ UNCHANGED <<backlog, client, cancelled>>
  /\ listening' = TRUE /\ ready' = Tail(ready) /\ loop' = "fire"
  /\ UNCHANGED <<inbox, fdCommand, isOpen, announcing, killed, owner, pending, reply,
                 replyFd, answers, missed, reports, time>>

(* onNewCommandConnect, after its two responses: the NITZ copy is sent     *)
(* without a look at the result, and freed.                                *)
ResendNitz ==
  /\ ~killed /\ loop = "connect" /\ announcing = 0 /\ call["loop"] = "idle"
  /\ IF nitz = None
     THEN loop' = "fire" /\ ready' = Tail(ready) /\ UNCHANGED <<isOpen, owed>>
     ELSE /\ loop' = "connected"
          /\ \E d \in Reaches(fdCommand) :
               Written(d) /\ owed' = IF Writes(d) THEN None ELSE owed
          /\ UNCHANGED ready
  /\ UNCHANGED <<peer, listening, fdCommand, announcing, killed, requests, reports,
                 nitz, serial, overlap>>

(* Mutant: the pointer to the freed copy is kept.                         *)
FreeNitzOnly ==
  /\ ~killed /\ loop = "connected"
  /\ nitz' = nitz /\ loop' = "fire" /\ ready' = Tail(ready)
  /\ UNCHANGED <<peer, socket, announcing, killed, requests, reports, serial, owed,
                 overlap>>

FreeNitz ==
  /\ ~killed /\ loop = "connected"
  /\ nitz' = None /\ loop' = "fire" /\ ready' = Tail(ready)
  /\ UNCHANGED <<peer, socket, announcing, killed, requests, reports, serial, owed,
                 overlap>>

-----------------------------------------------------------------------------
(* processCommandsCallback: every request that has arrived.                *)

(* processCommandBuffer: a request is listed and dispatched to the vendor; *)
(* one that is too short is ignored, one whose data is bad stays listed,   *)
(* and one of an unknown code is answered at once.                         *)
ProcessRequest(r) ==
  /\ Firing("commands")
  /\ inbox[fdCommand] # <<>> /\ r = Head(inbox[fdCommand])
  /\ inbox' = [inbox EXCEPT ![fdCommand] = Tail(@)]
  /\ IF Kind[r] = "unsupported"
     THEN /\ \E d \in Reaches(fdCommand) :
               /\ Written(d)
               /\ answers' = IF Writes(d) THEN answers \cup {<<r, d>>} ELSE answers
          /\ UNCHANGED <<pending, reply>>
     ELSE /\ pending' = pending \cup {r} \/ (Kind[r] = "malformed" /\ UNCHANGED pending)
          /\ reply' = [reply EXCEPT ![r] = IF Kind[r] = "valid" THEN "vendor" ELSE @]
          /\ UNCHANGED <<isOpen, answers>>
  /\ UNCHANGED <<client, backlog, rejects, listening, fdCommand, looping, owner,
                 cancelled, replyFd, missed, reports, time>>

(* Mutant: EAGAIN is taken for an error.                                  *)
DrainedIsAnError ==
  /\ Firing("commands") /\ ~Readable(fdCommand) /\ ready' = Tail(ready)
  /\ isOpen' = [isOpen EXCEPT ![fdCommand] = FALSE] /\ fdCommand' = None
  /\ listening' = TRUE /\ loop' = "closed"
  /\ UNCHANGED <<peer, announcing, killed, requests, reports, time>>

Drained ==
  /\ Firing("commands") /\ ~Readable(fdCommand) /\ ready' = Tail(ready)
  /\ UNCHANGED <<peer, socket, loop, announcing, killed, requests, reports, time>>

(* End of stream, a descriptor that blockingWrite closed, or a record      *)
(* larger than MAX_COMMAND_BYTES from a client that is still there.        *)
CannotRead(c) ==
  \/ ~isOpen[c]
  \/ client[c] = "gone" /\ inbox[c] = <<>>
  \/ inbox[c] # <<>> /\ Kind[Head(inbox[c])] = "malformed"

(* Mutant: the daemon does not listen again.                              *)
CloseCommandsForGood ==
  /\ Firing("commands") /\ CannotRead(fdCommand)
  /\ isOpen' = [isOpen EXCEPT ![fdCommand] = FALSE]
  /\ client' = [client EXCEPT ![fdCommand] = "gone"]
  /\ inbox' = [inbox EXCEPT ![fdCommand] = <<>>]
  /\ fdCommand' = None /\ listening' = listening
  /\ loop' = "closed" /\ ready' = Tail(ready)
  /\ UNCHANGED <<backlog, rejects, announcing, killed, requests, reports, time>>

(* The command socket is closed: what was not read is lost, and a process  *)
(* that is still there finds its connection ended.                         *)
CloseCommands ==
  /\ Firing("commands") /\ CannotRead(fdCommand)
  /\ isOpen' = [isOpen EXCEPT ![fdCommand] = FALSE]
  /\ client' = [client EXCEPT ![fdCommand] = "gone"]
  /\ inbox' = [inbox EXCEPT ![fdCommand] = <<>>]
  /\ fdCommand' = None /\ listening' = TRUE
  /\ loop' = "closed" /\ ready' = Tail(ready)
  /\ UNCHANGED <<backlog, rejects, announcing, killed, requests, reports, time>>

(* onCommandsSocketClosed, under the list's mutex.                         *)
CancelPending ==
  /\ ~killed /\ loop = "closed" /\ loop' = "fire"
  /\ cancelled' = cancelled \cup pending /\ missed' = missed \cup pending
  /\ UNCHANGED <<peer, socket, ready, announcing, killed, owner, pending, reply,
                 replyFd, answers, reports, time>>

-----------------------------------------------------------------------------

EventLoop ==
  \/ Select \/ Wake \/ Fired \/ ResendNitz \/ FreeNitz
  \/ Drained \/ CloseCommands \/ CancelPending
  \/ Grab("loop") \/ Reporting("loop")
  \/ \E c \in Conns : AcceptClient(c) \/ RefuseClient(c)
  \/ \E r \in Requests : ProcessRequest(r)

Vendor == Reply \/ \E t \in Callers : Grab(t) \/ Reporting(t)

(* The daemon is gone, or everything that was to come has come.            *)
Idle ==
  /\ \/ killed
     \/ /\ loop = "select" /\ \A c \in Conns : client[c] = "gone"
        /\ fdCommand = None /\ backlog = {}
        /\ \A t \in Callers : call[t] = "idle" /\ calls[t] = 0
        /\ \A r \in Requests : reply[r] \in {"none", "done", "oversize"}
  /\ UNCHANGED vars

Next == Client \/ Vendor \/ EventLoop \/ Idle

Spec == Init /\ [][Next]_vars

(* Threads keep running, and the vendor's library completes what it was    *)
(* given; a completion has three steps and no request has two, so that     *)
(* fairness of Reply is fairness of each. Nothing makes the telephony      *)
(* process act.                                                            *)
Fairness ==
  /\ WF_vars(EventLoop)
  /\ \A t \in Callers : WF_vars(Reporting(t))
  /\ WF_vars(Reply)

FairSpec == Spec /\ Fairness

-----------------------------------------------------------------------------
(* Properties.                                                             *)

(* A thread that writes has a descriptor to write to (sendResponseRaw).    *)
TypeOK ==
  /\ client \in [Conns -> {"none", "up", "gone"}] /\ backlog \subseteq Conns
  /\ inbox \in [Conns -> Seq(Requests)] /\ rejects \in 0 .. MaxRejects
  /\ listening \in BOOLEAN /\ fdCommand \in {None} \cup Conns
  /\ isOpen \in [Conns -> BOOLEAN]
  /\ loop \in {"top", "select", "fire", "connect", "connected", "closed"}
  /\ ready \in Seq({"listen", "commands"})
  /\ announcing \in 0 .. 2 /\ killed \in BOOLEAN
  /\ owner \in [Requests -> {None} \cup Conns]
  /\ pending \subseteq Requests /\ cancelled \subseteq Requests /\ missed \subseteq Requests
  /\ reply \in [Requests -> {"none", "vendor", "send", "write", "done", "oversize"}]
  /\ replyFd \in [Requests -> {None} \cup Conns] /\ answers \subseteq Requests \X Conns
  /\ call \in [Threads -> {"idle", "send", "write", "store"}]
  /\ callFd \in [Threads -> {None} \cup Conns] /\ calls \in [Callers -> 0 .. MaxCalls]
  /\ \A r \in Requests : reply[r] = "write" => replyFd[r] # None
  /\ \A t \in Threads : call[t] = "write" => callFd[t] # None
  /\ overlap \in BOOLEAN
  /\ serial \in Nat /\ nitz \in 0 .. serial /\ owed \in 0 .. serial

(* The daemon listens only while it has no client, and has one descriptor  *)
(* of a client at most: listenCallback asserts it, and the listen event is *)
(* not persistent for it (startListen).                                    *)
OneClient ==
  /\ listening => fdCommand = None
  /\ \A c \in Conns : isOpen[c] => c = fdCommand

(* What was pending when a connection was closed is never answered, on     *)
(* whatever connection (onCommandsSocketClosed marks it, the completion    *)
(* looks at the mark).                                                     *)
CancelledStaysSilent == \A r \in missed, c \in Conns : <<r, c>> \notin answers

(* The network time kept for the next client is the last that could not be *)
(* sent and has not been since, and a client that is connected is owed     *)
(* none. The handler of a new connection sends it without a look at the    *)
(* result and frees it: it is lost only with the connection it was written *)
(* to, on whose closed descriptor the loop is about to die. A report that  *)
(* ran beside that handler may break this (s_lastNITZTimeData has no       *)
(* lock).                                                                  *)
ClosedUnderLoop == fdCommand # None /\ ~isOpen[fdCommand]
NitzKept ==
  (\A t \in Callers : ~InNitz(t)) /\ loop \notin {"connect", "connected"} /\ ~overlap =>
    /\ nitz = owed \/ (nitz = None /\ ClosedUnderLoop)
    /\ Connected => owed = None

(* A client that waits in listen() is accepted, unless the one before it   *)
(* stays.                                                                  *)
NextClientServed == \A c \in Conns : c \in backlog ~> (c \notin backlog \/ Connected \/ killed)

(* What the vendor was given is answered, unless the response is larger    *)
(* than MAX_COMMAND_BYTES, or the process that asked hung up or had its    *)
(* connection closed for a record that is too large.                       *)
Answered ==
  \A r \in {q \in Requests : Kind[q] = "valid"} : reply[r] = "vendor" ~>
    \/ \E c \in Conns : <<r, c>> \in answers \/ (c = owner[r] /\ client[c] = "gone")
    \/ reply[r] = "oversize"
    \/ killed

(* "so we dont report responses": a response is written to the connection  *)
(* its request came from.                                                  *)
ResponsesStayHome == \A r \in Requests, c \in Conns : <<r, c>> \in answers => c = owner[r]
=============================================================================
