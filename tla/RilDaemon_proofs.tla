-------------------------- MODULE RilDaemon_proofs --------------------------
(***************************************************************************)
(* Theorems about RilDaemon, for any requests, vendor threads, connections *)
(* and refusals.                                                           *)
(***************************************************************************)
EXTENDS RilDaemon, TLAPS

-----------------------------------------------------------------------------
(* One client at a time.                                                   *)

\* At most one event is ready at a time, as the daemon listens only without a
\* client; from the moment the listen event fires until its callback returns
\* the watch table does not hold it.
ReadyShape ==
  /\ fdCommand \in {None} \cup Conns /\ isOpen \in [Conns -> BOOLEAN]
  /\ ready \in {<<>>, <<"listen">>, <<"commands">>}
  /\ loop \in {"top", "select", "closed"} => ready = <<>>
  /\ loop = "fire" /\ ready = <<"listen">> => ~listening /\ fdCommand = None
  /\ loop \in {"connect", "connected"} => ready = <<"listen">> /\ ~listening
  /\ loop = "fire" /\ ready = <<"commands">> => fdCommand \in Conns

ClientInv == ReadyShape /\ OneClient

\* The variables that ClientInv speaks of.
watching == <<listening, fdCommand, isOpen, loop, ready>>

LEMMA InitClient == Init => ClientInv
  BY DEF Init, ClientInv, ReadyShape, OneClient, None

\* A write closes a descriptor at most.
LEMMA WriteClient ==
  ASSUME ClientInv, NEW d, Written(d), UNCHANGED <<listening, fdCommand, loop, ready>>
  PROVE  ClientInv'
<1>1. isOpen' \in [Conns -> BOOLEAN] /\ \A c \in Conns : isOpen'[c] => isOpen[c]
  BY DEF Written, ClientInv, ReadyShape
<1> QED BY <1>1 DEF ClientInv, ReadyShape, OneClient

LEMMA NoneNoConn == None \notin Conns
  BY DEF None, Conns

LEMMA WakeClient ==
  ASSUME ClientInv, Wake
  PROVE  ClientInv'
<1>1. /\ loop' = "fire" /\ UNCHANGED <<fdCommand, isOpen>>
      /\ listening' = (listening /\ backlog = {}) /\ Ready # <<>> /\ ready' = Ready
  BY DEF Wake
<1>2. CASE listening /\ backlog # {}
  <2>1. fdCommand = None /\ ~Readable(fdCommand)
    BY <1>2 DEF ClientInv, OneClient, Readable
  <2>2. Ready = <<"listen">> \o <<>>
    BY <1>2, <2>1, Zenon DEF Ready
  <2>3. Ready = <<"listen">>
    BY <2>2
  <2>4. ~listening'
    BY <1>1, <1>2, Zenon
  <2> QED BY <1>1, <2>1, <2>3, <2>4 DEF ClientInv, ReadyShape, OneClient
<1>3. CASE ~(listening /\ backlog # {})
  <2>1. Readable(fdCommand) /\ Ready = <<"commands">>
    <3>1. CASE ~Readable(fdCommand)
      <4>1. Ready = <<>> \o <<>>
        BY <1>3, <3>1, Zenon DEF Ready
      <4> QED BY <1>1, <4>1
    <3>2. CASE Readable(fdCommand)
      <4>1. Ready = <<>> \o <<"commands">>
        BY <1>3, <3>2, Zenon DEF Ready
      <4> QED BY <3>2, <4>1
    <3> QED BY <3>1, <3>2
  <2>2. fdCommand \in Conns
    BY <2>1 DEF Readable, ClientInv, ReadyShape
  <2>3. ~listening'
    BY <1>1, <2>2, NoneNoConn DEF ClientInv, OneClient
  <2> QED BY <1>1, <2>1, <2>2, <2>3 DEF ClientInv, ReadyShape, OneClient
<1> QED BY <1>2, <1>3

LEMMA ListenClient ==
  ASSUME ClientInv, NEW c \in Conns, AcceptClient(c) \/ RefuseClient(c)
  PROVE  ClientInv'
<1>1. loop = "fire" /\ ready = <<"listen">>
  BY DEF AcceptClient, RefuseClient, Accept, Firing, ClientInv, ReadyShape
<1>2. ~listening /\ fdCommand = None /\ \A d \in Conns : ~isOpen[d]
  BY <1>1, NoneNoConn DEF ClientInv, ReadyShape, OneClient
<1>3. CASE AcceptClient(c)
  <2>1. /\ fdCommand' = c /\ isOpen' = [isOpen EXCEPT ![c] = TRUE] /\ loop' = "connect"
        /\ UNCHANGED <<listening, ready>>
    BY <1>3 DEF AcceptClient
  <2> QED BY <1>1, <1>2, <2>1 DEF ClientInv, ReadyShape, OneClient
<1>4. CASE RefuseClient(c)
  <2>1. /\ UNCHANGED <<fdCommand, isOpen>> /\ ready' = Tail(ready) /\ loop' = "fire"
    BY <1>4 DEF RefuseClient
  <2>2. ready' = <<>>
    BY <1>1, <2>1
  <2> QED BY <1>2, <2>1, <2>2 DEF ClientInv, ReadyShape, OneClient
<1> QED BY <1>3, <1>4

LEMMA ConnectClient ==
  ASSUME ClientInv, ResendNitz \/ FreeNitz
  PROVE  ClientInv'
<1>1. loop \in {"connect", "connected"} /\ ready = <<"listen">> /\ ~listening
  BY DEF ResendNitz, FreeNitz, ClientInv, ReadyShape
<1>2. Tail(ready) = <<>>
  BY <1>1
<1>3. UNCHANGED <<listening, fdCommand>>
  BY DEF ResendNitz, FreeNitz, socket
<1>4. CASE UNCHANGED isOpen /\ loop' = "fire" /\ ready' = Tail(ready)
  BY <1>1, <1>2, <1>3, <1>4 DEF ClientInv, ReadyShape, OneClient
<1>5. CASE loop' = "connected" /\ UNCHANGED ready /\ \E d \in Reaches(fdCommand) : Written(d)
  <2>1. isOpen' \in [Conns -> BOOLEAN] /\ \A c \in Conns : isOpen'[c] => isOpen[c]
    BY <1>5 DEF Written, ClientInv, ReadyShape
  <2> QED BY <1>1, <1>3, <1>5, <2>1 DEF ClientInv, ReadyShape, OneClient
<1> QED BY <1>4, <1>5 DEF ResendNitz, FreeNitz, socket

LEMMA CommandsClient ==
  ASSUME ClientInv, Drained \/ CloseCommands
  PROVE  ClientInv'
<1>1. loop = "fire" /\ ready = <<"commands">> /\ fdCommand \in Conns /\ ready' = Tail(ready)
  BY DEF Drained, CloseCommands, Firing, ClientInv, ReadyShape
<1>2. ready' = <<>>
  BY <1>1
<1>3. CASE Drained
  BY <1>1, <1>2, <1>3 DEF Drained, socket, ClientInv, ReadyShape, OneClient
<1>4. CASE CloseCommands
  <2>1. /\ isOpen' = [isOpen EXCEPT ![fdCommand] = FALSE] /\ fdCommand' = None /\ loop' = "closed"
    BY <1>4 DEF CloseCommands
  <2>2. isOpen' \in [Conns -> BOOLEAN] /\ \A c \in Conns : ~isOpen'[c]
    BY <1>1, <2>1 DEF ClientInv, ReadyShape, OneClient
  <2> QED BY <1>2, <2>1, <2>2 DEF ClientInv, ReadyShape, OneClient
<1> QED BY <1>3, <1>4

\* Steps of the loop that only move it.
LEMMA LoopClient ==
  ASSUME ClientInv, Select \/ Fired \/ CancelPending
  PROVE  ClientInv'
<1>1. UNCHANGED <<listening, fdCommand, isOpen, ready>>
  BY DEF Select, Fired, CancelPending, socket
<1>2. ready = <<>> /\ loop' \in {"top", "select", "fire"}
  BY DEF Select, Fired, CancelPending, ClientInv, ReadyShape
<1> QED BY <1>1, <1>2 DEF ClientInv, ReadyShape, OneClient

LEMMA NextClient == ClientInv /\ [Next]_vars => ClientInv'
<1> SUFFICES ASSUME ClientInv, [Next]_vars PROVE ClientInv'
  OBVIOUS
<1>1. CASE UNCHANGED watching
  BY <1>1 DEF watching, ClientInv, ReadyShape, OneClient
<1>2. CASE Client
  BY <1>1, <1>2 DEF Client, Dial, HangUp, Ask, socket, looping, watching
<1>3. ASSUME NEW t \in Threads, Grab(t) \/ Reporting(t) PROVE ClientInv'
  <2>1. CASE Grab(t) \/ BadReport(t) \/ ReadFd(t) \/ StoreNitz(t)
    BY <1>1, <2>1 DEF Grab, BadReport, ReadFd, StoreNitz, socket, looping, watching
  <2>2. CASE WriteReport(t)
    <3>1. UNCHANGED <<listening, fdCommand, loop, ready>> /\ \E d : Written(d)
      BY <2>2 DEF WriteReport, looping
    <3> QED BY <3>1, WriteClient
  <2> QED BY <1>3, <2>1, <2>2 DEF Reporting
<1>4. ASSUME NEW r \in Requests, Complete(r) \/ ReadReplyFd(r) \/ WriteReply(r)
      PROVE  ClientInv'
  <2>1. CASE Complete(r) \/ ReadReplyFd(r)
    BY <1>1, <2>1 DEF Complete, ReadReplyFd, socket, looping, watching
  <2>2. CASE WriteReply(r)
    <3>1. UNCHANGED <<listening, fdCommand, loop, ready>> /\ \E d : Written(d)
      BY <2>2 DEF WriteReply, looping
    <3> QED BY <3>1, WriteClient
  <2> QED BY <1>4, <2>1, <2>2
<1>5. ASSUME NEW r \in Requests, ProcessRequest(r) PROVE ClientInv'
  <2>1. UNCHANGED <<listening, fdCommand, loop, ready>>
    BY <1>5 DEF ProcessRequest, looping
  <2>2. UNCHANGED isOpen \/ \E d : Written(d)
    BY <1>5 DEF ProcessRequest
  <2> QED BY <1>1, <2>1, <2>2, WriteClient DEF watching
<1>6. CASE EventLoop
  BY <1>3, <1>5, <1>6, WakeClient, ListenClient, ConnectClient, CommandsClient, LoopClient
     DEF EventLoop, Threads
<1>7. CASE Vendor
  BY <1>3, <1>4, <1>7 DEF Vendor, Reply, Threads
<1>8. CASE Idle \/ UNCHANGED vars
  BY <1>1, <1>8 DEF Idle, vars, socket, looping, watching
<1> QED BY <1>2, <1>6, <1>7, <1>8 DEF Next

LEMMA AlwaysClient == Spec => []ClientInv
  BY InitClient, NextClient, PTL DEF Spec

\* What the assertion of listenCallback relies on: the daemon does not listen
\* while it has a client, and never has two open descriptors.
THEOREM OneConnection == Spec => []OneClient
<1>1. ClientInv => OneClient
  BY DEF ClientInv
<1> QED BY <1>1, AlwaysClient, PTL

-----------------------------------------------------------------------------
(* Cancelled requests.                                                     *)

\* Requests to which nothing has happened yet but that they were sent.
Fresh == {r \in Requests : /\ r \notin pending /\ r \notin missed /\ reply[r] = "none"
                           /\ \A c \in Conns : <<r, c>> \notin answers}

\* A request that was not read is in the queue of the connection that sent it,
\* and only once: processCommandBuffer lists it once.
QueueOf(c) == \A i \in 1 .. Len(inbox[c]) : inbox[c][i] \in Fresh /\ owner[inbox[c][i]] = c
OnceIn(c)  == \A i, j \in 1 .. Len(inbox[c]) : inbox[c][i] = inbox[c][j] => i = j

Unread ==
  /\ owner \in [Requests -> {None} \cup Conns] /\ inbox \in [Conns -> Seq(Requests)]
  /\ reply \in [Requests -> {"none", "vendor", "send", "write", "done", "oversize"}]
  /\ \A r \in Requests : owner[r] = None => r \in Fresh
  /\ \A c \in Conns : QueueOf(c) /\ OnceIn(c)

\* A request is taken off the list before its answer is sent, and one that the
\* close of a connection found in the list is marked.
Dequeued ==
  /\ missed \subseteq cancelled /\ missed \subseteq Requests /\ pending \subseteq Requests
  /\ \A r \in Requests : reply[r] \in {"send", "write"} => r \notin pending /\ r \notin missed
  /\ \A r \in Requests, c \in Conns : <<r, c>> \in answers => r \notin pending /\ r \notin missed

SilenceInv == Unread /\ Dequeued

\* The variables that SilenceInv speaks of.
listed == <<owner, inbox, pending, cancelled, reply, answers, missed>>

LEMMA InitSilence == Init => SilenceInv
<1> SUFFICES ASSUME Init PROVE SilenceInv
  OBVIOUS
<1>1. Fresh = Requests
  BY DEF Init, Fresh
<1>2. \A c \in Conns : inbox[c] = <<>>
  BY DEF Init
<1>3. \A c \in Conns : QueueOf(c) /\ OnceIn(c)
  BY <1>2 DEF QueueOf, OnceIn
<1> QED BY <1>1, <1>3 DEF Init, SilenceInv, Unread, Dequeued, None

\* Requests that lie in a queue that a step left alone, and stayed fresh.
LEMMA QueueKept ==
  ASSUME NEW c \in Conns, QueueOf(c), OnceIn(c), inbox'[c] = inbox[c],
         \A i \in 1 .. Len(inbox[c]) :
           inbox[c][i] \in Fresh' /\ owner'[inbox[c][i]] = owner[inbox[c][i]]
  PROVE  QueueOf(c)' /\ OnceIn(c)'
  BY DEF QueueOf, OnceIn

LEMMA AskSilence ==
  ASSUME SilenceInv, NEW c \in Conns, NEW r \in Requests, Ask(c, r)
  PROVE  SilenceInv'
<1>1. /\ owner[r] = None /\ owner' = [owner EXCEPT ![r] = c]
      /\ inbox' = [inbox EXCEPT ![c] = Append(inbox[c], r)]
      /\ UNCHANGED <<pending, cancelled, reply, answers, missed>>
  BY DEF Ask
<1>2. /\ owner' \in [Requests -> {None} \cup Conns] /\ inbox' \in [Conns -> Seq(Requests)]
      /\ owner'[r] = c /\ \A q \in Requests : q # r => owner'[q] = owner[q]
      /\ inbox'[c] = Append(inbox[c], r) /\ \A d \in Conns : d # c => inbox'[d] = inbox[d]
      /\ r \in Fresh /\ inbox[c] \in Seq(Requests)
  BY <1>1 DEF SilenceInv, Unread
<1>3. Fresh' = Fresh
  BY <1>1 DEF Fresh
<1>4. \A d \in Conns : \A i \in 1 .. Len(inbox[d]) :
        inbox[d][i] \in Requests /\ inbox[d][i] # r /\ inbox[d][i] \in Fresh
        /\ owner[inbox[d][i]] = d
  <2>1. \A d \in Conns : QueueOf(d)
    BY DEF SilenceInv, Unread
  <2>2. Fresh \subseteq Requests
    BY DEF Fresh
  <2> QED BY <1>1, <2>1, <2>2, NoneNoConn DEF QueueOf
<1>5. /\ Len(inbox'[c]) = Len(inbox[c]) + 1 /\ inbox'[c][Len(inbox[c]) + 1] = r
      /\ \A i \in 1 .. Len(inbox[c]) : inbox'[c][i] = inbox[c][i]
      /\ Len(inbox[c]) \in Nat
  BY <1>2
<1>6. \A i \in 1 .. Len(inbox'[c]) : i \in 1 .. Len(inbox[c]) \/ i = Len(inbox[c]) + 1
  BY <1>5
<1>7. QueueOf(c)'
  <2> SUFFICES ASSUME NEW i \in 1 .. Len(inbox'[c])
               PROVE  inbox'[c][i] \in Fresh' /\ owner'[inbox'[c][i]] = c
    BY DEF QueueOf
  <2>1. CASE i \in 1 .. Len(inbox[c])
    BY <1>2, <1>3, <1>4, <1>5, <2>1
  <2>2. CASE i = Len(inbox[c]) + 1
    BY <1>2, <1>3, <1>5, <2>2
  <2> QED BY <1>6, <2>1, <2>2
<1>8. OnceIn(c)'
  <2> SUFFICES ASSUME NEW i \in 1 .. Len(inbox'[c]), NEW j \in 1 .. Len(inbox'[c]),
                      inbox'[c][i] = inbox'[c][j]
               PROVE  i = j
    BY DEF OnceIn
  <2>1. CASE i \in 1 .. Len(inbox[c]) /\ j \in 1 .. Len(inbox[c])
    BY <1>5, <2>1 DEF SilenceInv, Unread, OnceIn
  <2>2. CASE i = Len(inbox[c]) + 1 \/ j = Len(inbox[c]) + 1
    <3>1. CASE i = Len(inbox[c]) + 1
      BY <1>4, <1>5, <1>6, <3>1
    <3>2. CASE j = Len(inbox[c]) + 1
      BY <1>4, <1>5, <1>6, <3>2
    <3> QED BY <2>2, <3>1, <3>2
  <2> QED BY <1>6, <2>1, <2>2
<1>9. ASSUME NEW d \in Conns, d # c PROVE QueueOf(d)' /\ OnceIn(d)'
  BY <1>2, <1>3, <1>4, <1>9, QueueKept DEF SilenceInv, Unread
<1>10. Unread'
  <2>1. \A d \in Conns : QueueOf(d)' /\ OnceIn(d)'
    BY <1>7, <1>8, <1>9
  <2>2. \A q \in Requests : owner'[q] = None => q \in Fresh'
    BY <1>2, <1>3, NoneNoConn DEF SilenceInv, Unread
  <2> QED BY <1>1, <1>2, <2>1, <2>2 DEF SilenceInv, Unread
<1>11. Dequeued'
  BY <1>1 DEF SilenceInv, Dequeued
<1> QED BY <1>10, <1>11 DEF SilenceInv

\* A step of the completion of r: r is not in a queue, and no other request
\* is touched.
LEMMA ReplySilence ==
  ASSUME SilenceInv, NEW r \in Requests, Complete(r) \/ ReadReplyFd(r) \/ WriteReply(r)
  PROVE  SilenceInv'
<1>1. /\ reply[r] \in {"vendor", "send", "write"} /\ UNCHANGED <<owner, inbox, cancelled, missed>>
      /\ reply' \in [Requests -> {"none", "vendor", "send", "write", "done", "oversize"}]
      /\ \A q \in Requests : q # r => reply'[q] = reply[q]
  BY DEF Complete, ReadReplyFd, WriteReply, peer, SilenceInv, Unread
<1>2. /\ \A q : q # r => (q \in pending' <=> q \in pending)
      /\ \A q, c : q # r => (<<q, c>> \in answers' <=> <<q, c>> \in answers)
  BY DEF Complete, ReadReplyFd, WriteReply
<1>3. \A q \in Requests : q # r => (q \in Fresh' <=> q \in Fresh)
  BY <1>1, <1>2 DEF Fresh
<1>4. r \notin Fresh
  BY <1>1 DEF Fresh
<1>5. Fresh \subseteq Requests
  BY DEF Fresh
<1>6. Unread'
  <2>1. ASSUME NEW c \in Conns PROVE QueueOf(c)' /\ OnceIn(c)'
    <3>1. QueueOf(c) /\ OnceIn(c)
      BY DEF SilenceInv, Unread
    <3>2. \A i \in 1 .. Len(inbox[c]) : inbox[c][i] \in Fresh'
      BY <1>3, <1>4, <1>5, <3>1 DEF QueueOf
    <3> QED BY <1>1, <3>1, <3>2, QueueKept
  <2>2. \A q \in Requests : owner'[q] = None => q \in Fresh'
    BY <1>1, <1>3, <1>4 DEF SilenceInv, Unread
  <2> QED BY <1>1, <2>1, <2>2 DEF SilenceInv, Unread
<1>7. CASE Complete(r)
  <2>1. /\ pending' = pending \ {r} /\ answers' = answers /\ reply[r] = "vendor"
        /\ reply'[r] = "send" => r \in pending /\ r \notin cancelled
        /\ reply'[r] \in {"send", "done"}
    BY <1>7 DEF Complete, SilenceInv, Unread
  <2> QED BY <1>1, <1>6, <2>1 DEF SilenceInv, Dequeued
<1>8. CASE ReadReplyFd(r) \/ WriteReply(r)
  <2>1. reply[r] \in {"send", "write"} /\ pending' = pending
    BY <1>8 DEF ReadReplyFd, WriteReply
  <2>2. r \notin pending /\ r \notin missed
    BY <2>1 DEF SilenceInv, Dequeued
  <2> QED BY <1>1, <1>2, <1>6, <2>1, <2>2 DEF SilenceInv, Dequeued
<1> QED BY <1>7, <1>8

LEMMA ProcessSilence ==
  ASSUME SilenceInv, ClientInv, NEW r \in Requests, ProcessRequest(r)
  PROVE  SilenceInv'
<1>1. fdCommand \in Conns /\ inbox[fdCommand] # <<>> /\ r = Head(inbox[fdCommand])
  BY DEF ProcessRequest, Firing, ClientInv, ReadyShape
<1> DEFINE queue == inbox[fdCommand]
<1>2. /\ inbox' = [inbox EXCEPT ![fdCommand] = Tail(queue)]
      /\ UNCHANGED <<owner, cancelled, missed>>
  BY DEF ProcessRequest
<1>3. queue \in Seq(Requests) /\ r \in Fresh /\ owner[r] = fdCommand
  <2>1. queue \in Seq(Requests)
    BY <1>1 DEF SilenceInv, Unread
  <2>2. 1 \in 1 .. Len(queue) /\ queue[1] = r
    BY <1>1, <2>1
  <2> QED BY <1>1, <2>1, <2>2 DEF SilenceInv, Unread, QueueOf
<1>4. /\ inbox' \in [Conns -> Seq(Requests)]
      /\ inbox'[fdCommand] = Tail(queue)
      /\ \A d \in Conns : d # fdCommand => inbox'[d] = inbox[d]
  BY <1>1, <1>2, <1>3 DEF SilenceInv, Unread
<1>5. \/ /\ UNCHANGED <<pending, reply>> /\ \E d : answers' = answers \cup {<<r, d>>}
      \/ /\ UNCHANGED <<pending, reply, answers>>
      \/ /\ pending' = pending \cup {r} \/ UNCHANGED pending
         /\ UNCHANGED answers
         /\ reply' = [reply EXCEPT ![r] = "vendor"] \/ reply' = [reply EXCEPT ![r] = reply[r]]
  BY DEF ProcessRequest
<1>6. /\ reply' \in [Requests -> {"none", "vendor", "send", "write", "done", "oversize"}]
      /\ \A q \in Requests : q # r => reply'[q] = reply[q]
      /\ reply'[r] \in {"none", "vendor"}
      /\ \A q : q # r => (q \in pending' <=> q \in pending)
      /\ \A q, c : q # r => (<<q, c>> \in answers' <=> <<q, c>> \in answers)
      /\ \/ r \notin pending'
         \/ \A c \in Conns : <<r, c>> \notin answers'
  BY <1>3, <1>5 DEF SilenceInv, Unread, Fresh
<1>7. \A q \in Requests : q # r => (q \in Fresh' <=> q \in Fresh)
  BY <1>2, <1>6 DEF Fresh
<1>8. Fresh \subseteq Requests
  BY DEF Fresh
<1>9. ASSUME NEW d \in Conns, d # fdCommand PROVE QueueOf(d)' /\ OnceIn(d)'
  <2>1. QueueOf(d) /\ OnceIn(d)
    BY DEF SilenceInv, Unread
  <2>2. \A i \in 1 .. Len(inbox[d]) : inbox[d][i] \in Fresh'
    BY <1>3, <1>7, <1>8, <1>9, <2>1 DEF QueueOf
  <2>3. inbox'[d] = inbox[d]
    BY <1>4, <1>9
  <2> QED BY <1>2, <2>1, <2>2, <2>3, QueueKept
<1>10. /\ Len(Tail(queue)) = Len(queue) - 1 /\ Len(queue) \in Nat
       /\ \A i \in 1 .. Len(Tail(queue)) :
            i + 1 \in 1 .. Len(queue) /\ i \in Nat /\ Tail(queue)[i] = queue[i + 1]
       /\ 1 \in 1 .. Len(queue) /\ queue[1] = r
  BY <1>1, <1>3
<1>11. /\ \A i \in 1 .. Len(queue) : queue[i] \in Fresh /\ owner[queue[i]] = fdCommand
       /\ \A i, j \in 1 .. Len(queue) : queue[i] = queue[j] => i = j
  BY <1>1 DEF SilenceInv, Unread, QueueOf, OnceIn
<1>12. QueueOf(fdCommand)'
  <2> SUFFICES ASSUME fdCommand' = fdCommand, NEW i \in 1 .. Len(Tail(queue))
               PROVE  Tail(queue)[i] \in Fresh' /\ owner'[Tail(queue)[i]] = fdCommand
    BY <1>4 DEF QueueOf, ProcessRequest
  <2>1. i + 1 \in 1 .. Len(queue) /\ i + 1 # 1 /\ Tail(queue)[i] = queue[i + 1]
    BY <1>10
  <2>2. queue[i + 1] # r /\ queue[i + 1] \in Fresh /\ owner[queue[i + 1]] = fdCommand
    BY <1>10, <1>11, <2>1
  <2> QED BY <1>2, <1>7, <1>8, <2>1, <2>2
<1>13. OnceIn(fdCommand)'
  <2>1. fdCommand' = fdCommand
    BY DEF ProcessRequest
  <2> SUFFICES ASSUME NEW i \in 1 .. Len(Tail(queue)), NEW j \in 1 .. Len(Tail(queue)),
                      Tail(queue)[i] = Tail(queue)[j]
               PROVE  i = j
    BY <1>4, <2>1 DEF OnceIn
  <2>2. i + 1 = j + 1
    BY <1>10, <1>11
  <2> QED BY <1>10, <2>2
<1>14. Unread'
  <2>1. fdCommand' = fdCommand
    BY DEF ProcessRequest
  <2>2. \A d \in Conns : QueueOf(d)' /\ OnceIn(d)'
    BY <1>1, <1>9, <1>12, <1>13, <2>1 DEF QueueOf, OnceIn
  <2>3. \A q \in Requests : owner'[q] = None => q \in Fresh'
    BY <1>1, <1>2, <1>3, <1>7, NoneNoConn DEF SilenceInv, Unread
  <2> QED BY <1>2, <1>4, <1>6, <2>2, <2>3 DEF SilenceInv, Unread
<1>15. Dequeued'
  BY <1>2, <1>3, <1>6 DEF SilenceInv, Dequeued, Fresh
<1> QED BY <1>14, <1>15 DEF SilenceInv

\* Steps that touch none of it.
LEMMA OtherSilence ==
  ASSUME SilenceInv, UNCHANGED <<owner, inbox, pending, reply, answers>>,
         cancelled \subseteq cancelled',
         \/ missed' = missed
         \/ missed' = missed \cup pending /\ cancelled' = cancelled \cup pending
  PROVE  SilenceInv'
<1>1. Fresh' = Fresh
  BY DEF Fresh
<1>2. ASSUME NEW c \in Conns PROVE QueueOf(c)' /\ OnceIn(c)'
  BY <1>1, <1>2 DEF SilenceInv, Unread, QueueOf, OnceIn
<1>3. Unread'
  BY <1>1, <1>2 DEF SilenceInv, Unread
<1>4. Dequeued'
  BY DEF SilenceInv, Dequeued
<1> QED BY <1>3, <1>4 DEF SilenceInv

\* What is lost with a connection that is closed was not read.
LEMMA CloseSilence ==
  ASSUME SilenceInv, ClientInv, CloseCommands
  PROVE  SilenceInv'
<1>1. /\ fdCommand \in Conns /\ inbox' = [inbox EXCEPT ![fdCommand] = <<>>]
      /\ UNCHANGED <<owner, pending, cancelled, reply, answers, missed>>
  BY DEF CloseCommands, Firing, ClientInv, ReadyShape, requests
<1>2. Fresh' = Fresh
  BY <1>1 DEF Fresh
<1>3. /\ inbox' \in [Conns -> Seq(Requests)] /\ inbox'[fdCommand] = <<>>
      /\ \A c \in Conns : c # fdCommand => inbox'[c] = inbox[c]
  BY <1>1 DEF SilenceInv, Unread
<1>4. ASSUME NEW c \in Conns, c # fdCommand PROVE QueueOf(c)' /\ OnceIn(c)'
  <2>1. QueueOf(c) /\ OnceIn(c)
    BY DEF SilenceInv, Unread
  <2>2. \A i \in 1 .. Len(inbox[c]) : inbox[c][i] \in Fresh'
    BY <1>2, <2>1 DEF QueueOf
  <2>. QED
    BY <1>1, <1>3, <1>4, <2>1, <2>2, QueueKept
<1>5. ASSUME NEW c \in Conns, c = fdCommand PROVE QueueOf(c)' /\ OnceIn(c)'
  BY <1>3, <1>5 DEF QueueOf, OnceIn
<1>6. Unread'
  <2>1. \A c \in Conns : QueueOf(c)' /\ OnceIn(c)'
    BY <1>4, <1>5
  <2>. QED
    BY <1>1, <1>2, <1>3, <2>1 DEF SilenceInv, Unread
<1>7. Dequeued'
  BY <1>1 DEF SilenceInv, Dequeued
<1>. QED
  BY <1>6, <1>7 DEF SilenceInv

LEMMA NextSilence == SilenceInv /\ ClientInv /\ [Next]_vars => SilenceInv'
<1> SUFFICES ASSUME SilenceInv, ClientInv, [Next]_vars PROVE SilenceInv'
  OBVIOUS
<1>1. CASE UNCHANGED listed
  BY <1>1, OtherSilence DEF listed
<1>2. ASSUME NEW t \in Threads, Grab(t) \/ Reporting(t) PROVE SilenceInv'
  BY <1>1, <1>2 DEF Grab, Reporting, BadReport, ReadFd, WriteReport, StoreNitz, peer, requests,
                    listed
<1>3. ASSUME NEW c \in Conns, Dial(c) \/ HangUp(c) \/ AcceptClient(c) PROVE SilenceInv'
  BY <1>1, <1>3 DEF Dial, HangUp, AcceptClient, requests, listed
<1>4. CASE \/ Select \/ Wake \/ Fired \/ ResendNitz \/ FreeNitz \/ Drained
           \/ Idle \/ UNCHANGED vars
  BY <1>1, <1>4 DEF Select, Wake, Fired, ResendNitz, FreeNitz, Drained, Idle,
                    vars, peer, requests, listed
<1>5. ASSUME NEW c \in Conns, RefuseClient(c) PROVE SilenceInv'
  <2>1. /\ UNCHANGED <<owner, inbox, pending, reply, answers, missed>>
        /\ cancelled \subseteq cancelled'
    BY <1>5 DEF RefuseClient
  <2> QED BY <2>1, OtherSilence
<1>6. CASE CancelPending
  <2>1. /\ UNCHANGED <<owner, inbox, pending, reply, answers>>
        /\ cancelled' = cancelled \cup pending /\ missed' = missed \cup pending
    BY <1>6 DEF CancelPending, peer
  <2> QED BY <2>1, OtherSilence
<1>7. CASE EventLoop
  BY <1>2, <1>3, <1>4, <1>5, <1>6, <1>7, ProcessSilence, CloseSilence
     DEF EventLoop, Threads
<1>8. CASE Vendor
  BY <1>2, <1>8, ReplySilence DEF Vendor, Reply, Threads
<1>9. CASE Client
  BY <1>3, <1>9, AskSilence DEF Client
<1> QED BY <1>4, <1>7, <1>8, <1>9 DEF Next

\* onCommandsSocketClosed and checkAndDequeueRequestInfo together: what was in
\* the list when a connection was closed is never answered to anyone.
THEOREM CancelledIsSilent == Spec => []CancelledStaysSilent
<1>1. Spec => []SilenceInv
  BY InitSilence, NextSilence, AlwaysClient, PTL DEF Spec
<1>2. SilenceInv => CancelledStaysSilent
  BY DEF SilenceInv, Dequeued, CancelledStaysSilent
<1> QED BY <1>1, <1>2, PTL

-----------------------------------------------------------------------------
(* Types.                                                                  *)

\* Next as a list of the steps of each thread.
LEMMA DaemonSteps ==
  ASSUME [Next]_vars
  PROVE  \/ \E c \in Conns : Dial(c) \/ HangUp(c) \/ \E r \in Requests : Ask(c, r)
         \/ \E r \in Requests : Complete(r) \/ ReadReplyFd(r) \/ WriteReply(r)
         \/ \E t \in Threads : Grab(t) \/ BadReport(t) \/ ReadFd(t) \/ WriteReport(t)
                                 \/ StoreNitz(t)
         \/ Select \/ Wake \/ Fired \/ ResendNitz \/ FreeNitz
         \/ Drained \/ CloseCommands \/ CancelPending
         \/ \E c \in Conns : AcceptClient(c) \/ RefuseClient(c)
         \/ \E r \in Requests : ProcessRequest(r)
         \/ UNCHANGED vars
<1>1. CASE Client
  BY <1>1 DEF Client
<1>2. CASE Vendor
  BY <1>2 DEF Vendor, Reply, Reporting, Threads
<1>3. CASE EventLoop
  BY <1>3 DEF EventLoop, Reporting, Threads
<1>. QED
  BY <1>1, <1>2, <1>3 DEF Next, Idle

PeerType ==
  /\ client \in [Conns -> {"none", "up", "gone"}] /\ backlog \subseteq Conns
  /\ inbox \in [Conns -> Seq(Requests)] /\ rejects \in 0 .. MaxRejects
  /\ owner \in [Requests -> {None} \cup Conns]

LoopType ==
  /\ listening \in BOOLEAN
  /\ loop \in {"top", "select", "fire", "connect", "connected", "closed"}
  /\ announcing \in 0 .. 2 /\ killed \in BOOLEAN

ReplyType ==
  /\ pending \subseteq Requests /\ cancelled \subseteq Requests /\ missed \subseteq Requests
  /\ reply \in [Requests -> {"none", "vendor", "send", "write", "done", "oversize"}]
  /\ replyFd \in [Requests -> {None} \cup Conns] /\ answers \subseteq Requests \X Conns
  /\ \A r \in Requests : reply[r] = "write" => replyFd[r] # None

ReportType ==
  /\ call \in [Threads -> {"idle", "send", "write", "store"}]
  /\ callFd \in [Threads -> {None} \cup Conns] /\ calls \in [Callers -> 0 .. MaxCalls]
  /\ \A t \in Threads : call[t] = "write" => callFd[t] # None

TimeType ==
  /\ overlap \in BOOLEAN
  /\ serial \in Nat /\ nitz \in 0 .. serial /\ owed \in 0 .. serial

TypeInv == PeerType /\ LoopType /\ ReplyType /\ ReportType /\ TimeType

LEMMA InitTypes == Init => TypeInv
<1>. SUFFICES ASSUME Init PROVE TypeInv
  OBVIOUS
<1>1. PeerType
  <2>1. inbox \in [Conns -> Seq(Requests)]
    BY DEF Init
  <2>2. client \in [Conns -> {"none", "up", "gone"}] /\ owner \in [Requests -> {None} \cup Conns]
    BY DEF Init
  <2>3. backlog \subseteq Conns
    BY DEF Init
  <2>4. rejects \in 0 .. MaxRejects
    BY BoundAssumption DEF Init
  <2>. QED
    BY <2>1, <2>2, <2>3, <2>4 DEF PeerType
<1>2. LoopType
  <2>1. listening \in BOOLEAN /\ killed \in BOOLEAN
    BY Zenon DEF Init
  <2>2. /\ loop \in {"top", "select", "fire", "connect", "connected", "closed"}
        /\ announcing \in 0 .. 2
    BY DEF Init
  <2>. QED
    BY <2>1, <2>2 DEF LoopType
<1>3. ReplyType
  <2>1. /\ reply \in [Requests -> {"none", "vendor", "send", "write", "done", "oversize"}]
        /\ replyFd \in [Requests -> {None} \cup Conns]
        /\ \A r \in Requests : reply[r] = "none"
    BY DEF Init
  <2>2. pending = {} /\ cancelled = {} /\ missed = {} /\ answers = {}
    BY DEF Init
  <2>. QED
    BY <2>1, <2>2, Zenon DEF ReplyType
<1>4. ReportType
  BY BoundAssumption DEF Init, ReportType
<1>5. TimeType
  <2>1. overlap \in BOOLEAN
    BY Zenon DEF Init
  <2>2. serial = 0 /\ nitz = 0 /\ owed = 0
    BY DEF Init, None
  <2>. QED
    BY <2>1, <2>2 DEF TimeType
<1>. QED
  BY <1>1, <1>2, <1>3, <1>4, <1>5 DEF TypeInv

LEMMA NextPeer ==
  ASSUME TypeInv, ClientInv, [Next]_vars
  PROVE  PeerType'
<1>. USE DEF TypeInv, PeerType
<1>1. CASE UNCHANGED <<client, backlog, inbox, rejects, owner>>
  BY <1>1
<1>2. ASSUME NEW c \in Conns, Dial(c) \/ HangUp(c) PROVE PeerType'
  BY <1>2 DEF Dial, HangUp, requests
<1>3. ASSUME NEW c \in Conns, NEW r \in Requests, Ask(c, r) PROVE PeerType'
  BY <1>3 DEF Ask
<1>4. ASSUME NEW c \in Conns, AcceptClient(c) PROVE PeerType'
  BY <1>4 DEF AcceptClient, requests
<1>5. ASSUME NEW c \in Conns, RefuseClient(c) PROVE PeerType'
  <2>1. rejects' \in 0 .. MaxRejects
    BY <1>5, BoundAssumption DEF RefuseClient
  <2>2. backlog' \subseteq Conns /\ client' \in [Conns -> {"none", "up", "gone"}]
    BY <1>5 DEF RefuseClient
  <2>. QED
    BY <1>5, <2>1, <2>2 DEF RefuseClient
<1>6. ASSUME NEW r \in Requests, ProcessRequest(r) PROVE PeerType'
  <2>1. fdCommand \in Conns
    BY <1>6 DEF ProcessRequest, Firing, ClientInv, ReadyShape
  <2>2. /\ inbox[fdCommand] \in Seq(Requests) /\ inbox[fdCommand] # <<>>
        /\ inbox' = [inbox EXCEPT ![fdCommand] = Tail(inbox[fdCommand])]
        /\ UNCHANGED <<client, backlog, rejects, owner>>
    BY <1>6, <2>1 DEF ProcessRequest
  <2>3. Tail(inbox[fdCommand]) \in Seq(Requests)
    BY <2>2
  <2>. QED
    BY <2>1, <2>2, <2>3
<1>7. ASSUME NEW r \in Requests, Complete(r) \/ ReadReplyFd(r) \/ WriteReply(r)
      PROVE  UNCHANGED <<client, backlog, inbox, rejects, owner>>
  BY <1>7 DEF Complete, ReadReplyFd, WriteReply, peer
<1>8. ASSUME NEW t \in Threads,
             Grab(t) \/ BadReport(t) \/ ReadFd(t) \/ WriteReport(t) \/ StoreNitz(t)
      PROVE  UNCHANGED <<client, backlog, inbox, rejects, owner>>
  BY <1>8 DEF Grab, BadReport, ReadFd, WriteReport, StoreNitz, peer, requests
<1>9. CASE \/ Select \/ Wake \/ Fired \/ ResendNitz \/ FreeNitz \/ Drained
           \/ CancelPending \/ UNCHANGED vars
  BY <1>1, <1>9 DEF Select, Wake, Fired, ResendNitz, FreeNitz, Drained,
                    CancelPending, vars, peer, requests
<1>10. CASE CloseCommands
  <2>1. fdCommand \in Conns
    BY <1>10 DEF CloseCommands, Firing, ClientInv, ReadyShape
  <2>2. /\ client' = [client EXCEPT ![fdCommand] = "gone"]
        /\ inbox' = [inbox EXCEPT ![fdCommand] = <<>>]
        /\ UNCHANGED <<backlog, rejects, owner>>
    BY <1>10 DEF CloseCommands, requests
  <2>. QED
    BY <2>1, <2>2
<1>. QED
  BY <1>1, <1>2, <1>3, <1>4, <1>5, <1>6, <1>7, <1>8, <1>9, <1>10, DaemonSteps

LEMMA NextLoop ==
  ASSUME TypeInv, [Next]_vars
  PROVE  LoopType'
<1>. USE DEF TypeInv, LoopType
<1>1. CASE UNCHANGED <<listening, loop, announcing, killed>>
  BY <1>1
<1>2. ASSUME NEW c \in Conns,
             Dial(c) \/ HangUp(c) \/ \E r \in Requests : Ask(c, r)
      PROVE  UNCHANGED <<listening, loop, announcing, killed>>
  BY <1>2 DEF Dial, HangUp, Ask, socket, looping
<1>3. ASSUME NEW c \in Conns, AcceptClient(c) \/ RefuseClient(c) PROVE LoopType'
  <2>1. CASE AcceptClient(c)
    BY <2>1 DEF AcceptClient
  <2>2. CASE RefuseClient(c)
    BY <2>2 DEF RefuseClient
  <2>. QED
    BY <1>3, <2>1, <2>2
<1>4. ASSUME NEW r \in Requests,
             \/ Complete(r) \/ ReadReplyFd(r) \/ WriteReply(r)
             \/ ProcessRequest(r)
      PROVE  UNCHANGED <<listening, loop, announcing, killed>>
  BY <1>4 DEF Complete, ReadReplyFd, WriteReply, ProcessRequest, socket, looping
<1>5. ASSUME NEW t \in Threads, Grab(t) PROVE LoopType'
  BY <1>5 DEF Grab, socket
<1>6. ASSUME NEW t \in Threads, BadReport(t) \/ ReadFd(t) \/ WriteReport(t) \/ StoreNitz(t)
      PROVE  UNCHANGED <<listening, loop, announcing, killed>>
  BY <1>6 DEF BadReport, ReadFd, WriteReport, StoreNitz, socket, looping
<1>7. CASE Select \/ Wake \/ Fired \/ ResendNitz \/ FreeNitz
  BY <1>7 DEF Select, Wake, Fired, ResendNitz, FreeNitz, socket
<1>8. CASE Drained \/ CloseCommands \/ CancelPending \/ UNCHANGED vars
  BY <1>8 DEF Drained, CloseCommands, CancelPending, socket, vars, looping
<1>. QED
  BY <1>1, <1>2, <1>3, <1>4, <1>5, <1>6, <1>7, <1>8, DaemonSteps

\* A write goes to a connection, or nowhere.
LEMMA ReachesConns ==
  ASSUME ClientInv, NEW c \in {None} \cup Conns, c # None
  PROVE  Reaches(c) \subseteq {None} \cup Conns
  BY DEF Reaches, ClientInv, ReadyShape

LEMMA NextReply ==
  ASSUME TypeInv, ClientInv, [Next]_vars
  PROVE  ReplyType'
<1>. USE DEF TypeInv, ReplyType
<1>1. CASE UNCHANGED <<pending, cancelled, missed, reply, replyFd, answers>>
  BY <1>1
<1>2. ASSUME NEW c \in Conns,
             Dial(c) \/ HangUp(c) \/ \E r \in Requests : Ask(c, r)
      PROVE  UNCHANGED <<pending, cancelled, missed, reply, replyFd, answers>>
  BY <1>2 DEF Dial, HangUp, Ask, requests
<1>3. ASSUME NEW c \in Conns, AcceptClient(c) \/ RefuseClient(c) PROVE ReplyType'
  BY <1>3 DEF AcceptClient, RefuseClient, requests
<1>4. ASSUME NEW r \in Requests, Complete(r) PROVE ReplyType'
  BY <1>4 DEF Complete
<1>5. ASSUME NEW r \in Requests, ReadReplyFd(r) PROVE ReplyType'
  BY <1>5 DEF ReadReplyFd, ClientInv, ReadyShape
<1>6. ASSUME NEW r \in Requests, WriteReply(r) PROVE ReplyType'
  <2>1. replyFd[r] \in {None} \cup Conns /\ replyFd[r] # None
    BY <1>6 DEF WriteReply
  <2>2. answers' \subseteq Requests \X Conns
    BY <1>6, <2>1, ReachesConns DEF WriteReply, Writes
  <2>. QED
    BY <1>6, <2>2 DEF WriteReply
<1>7. ASSUME NEW r \in Requests, ProcessRequest(r) PROVE ReplyType'
  <2>1. fdCommand \in Conns /\ fdCommand # None
    BY <1>7, NoneNoConn DEF ProcessRequest, Firing, ClientInv, ReadyShape
  <2>2. answers' \subseteq Requests \X Conns
    BY <1>7, <2>1, ReachesConns DEF ProcessRequest, Writes
  <2>3. /\ pending' \subseteq Requests
        /\ reply' \in [Requests -> {"none", "vendor", "send", "write", "done", "oversize"}]
        /\ \A q \in Requests : reply'[q] = "write" => reply[q] = "write"
        /\ UNCHANGED <<cancelled, missed, replyFd>>
    BY <1>7 DEF ProcessRequest
  <2>. QED
    BY <2>2, <2>3
<1>8. ASSUME NEW t \in Threads,
             Grab(t) \/ BadReport(t) \/ ReadFd(t) \/ WriteReport(t) \/ StoreNitz(t)
      PROVE  UNCHANGED <<pending, cancelled, missed, reply, replyFd, answers>>
  BY <1>8 DEF Grab, BadReport, ReadFd, WriteReport, StoreNitz, requests
<1>9. CASE CancelPending
  BY <1>9 DEF CancelPending
<1>10. CASE \/ Select \/ Wake \/ Fired \/ ResendNitz \/ FreeNitz \/ Drained \/ CloseCommands
            \/ UNCHANGED vars
  BY <1>1, <1>10 DEF Select, Wake, Fired, ResendNitz, FreeNitz, Drained, CloseCommands,
                     vars, requests
<1>. QED
  BY <1>1, <1>2, <1>3, <1>4, <1>5, <1>6, <1>7, <1>8, <1>9, <1>10, DaemonSteps

LEMMA NextReport ==
  ASSUME TypeInv, ClientInv, [Next]_vars
  PROVE  ReportType'
<1>. USE DEF TypeInv, ReportType
<1>1. CASE UNCHANGED reports
  BY <1>1 DEF reports
<1>2. ASSUME NEW c \in Conns,
             \/ Dial(c) \/ HangUp(c) \/ \E r \in Requests : Ask(c, r)
             \/ AcceptClient(c) \/ RefuseClient(c)
      PROVE  UNCHANGED reports
  BY <1>2 DEF Dial, HangUp, Ask, AcceptClient, RefuseClient
<1>3. ASSUME NEW r \in Requests,
             \/ Complete(r) \/ ReadReplyFd(r) \/ WriteReply(r)
             \/ ProcessRequest(r)
      PROVE  UNCHANGED reports
  BY <1>3 DEF Complete, ReadReplyFd, WriteReply, ProcessRequest
<1>4. CASE \/ Select \/ Wake \/ Fired \/ ResendNitz \/ FreeNitz \/ Drained \/ CloseCommands
           \/ CancelPending \/ UNCHANGED vars
  BY <1>1, <1>4 DEF Select, Wake, Fired, ResendNitz, FreeNitz, Drained, CloseCommands,
                    CancelPending, vars
<1>5. ASSUME NEW t \in Threads, Grab(t) PROVE ReportType'
  <2>1. calls' \in [Callers -> 0 .. MaxCalls]
    BY <1>5, BoundAssumption DEF Grab
  <2>2. call' = [call EXCEPT ![t] = "send"] /\ UNCHANGED callFd
    BY <1>5 DEF Grab, Step
  <2>. QED
    BY <2>1, <2>2
<1>6. ASSUME NEW t \in Threads, BadReport(t) \/ StoreNitz(t) PROVE ReportType'
  <2>1. call' = [call EXCEPT ![t] = "idle"] /\ UNCHANGED <<callFd, calls>>
    BY <1>6 DEF BadReport, StoreNitz, Step
  <2>. QED
    BY <2>1
<1>7. ASSUME NEW t \in Threads, ReadFd(t) PROVE ReportType'
  <2>1. /\ \/ fdCommand = None /\ call' = [call EXCEPT ![t] = "store"]
           \/ fdCommand = None /\ call' = [call EXCEPT ![t] = "idle"]
           \/ fdCommand # None /\ call' = [call EXCEPT ![t] = "write"]
        /\ callFd' = [callFd EXCEPT ![t] = fdCommand] /\ UNCHANGED calls
    BY <1>7 DEF ReadFd, Step, Unsent
  <2>2. fdCommand \in {None} \cup Conns
    BY DEF ClientInv, ReadyShape
  <2>. QED
    BY <2>1, <2>2
<1>8. ASSUME NEW t \in Threads, WriteReport(t) PROVE ReportType'
  <2>1. /\ \/ call' = [call EXCEPT ![t] = "store"]
           \/ call' = [call EXCEPT ![t] = "idle"]
        /\ callFd' = [callFd EXCEPT ![t] = None] /\ UNCHANGED calls
    BY <1>8 DEF WriteReport, Step, Unsent
  <2>. QED
    BY <2>1
<1>. QED
  BY <1>1, <1>2, <1>3, <1>4, <1>5, <1>6, <1>7, <1>8, DaemonSteps

LEMMA NextTime ==
  ASSUME TypeInv, [Next]_vars
  PROVE  TimeType'
<1>. USE DEF TypeInv, TimeType
<1>1. CASE UNCHANGED time
  BY <1>1 DEF time
<1>2. ASSUME NEW c \in Conns,
             Dial(c) \/ HangUp(c) \/ (\E r \in Requests : Ask(c, r)) \/ RefuseClient(c)
      PROVE  UNCHANGED time
  BY <1>2 DEF Dial, HangUp, Ask, RefuseClient
<1>3. ASSUME NEW c \in Conns, AcceptClient(c) PROVE TimeType'
  <2>1. overlap' \in BOOLEAN /\ UNCHANGED <<nitz, serial, owed>>
    BY <1>3 DEF AcceptClient
  <2>. QED
    BY <2>1
<1>4. ASSUME NEW r \in Requests,
             \/ Complete(r) \/ ReadReplyFd(r) \/ WriteReply(r)
             \/ ProcessRequest(r)
      PROVE  UNCHANGED time
  BY <1>4 DEF Complete, ReadReplyFd, WriteReply, ProcessRequest
<1>5. CASE \/ Select \/ Wake \/ Fired \/ Drained \/ CloseCommands \/ CancelPending
           \/ UNCHANGED vars
  BY <1>1, <1>5 DEF Select, Wake, Fired, Drained, CloseCommands, CancelPending, vars
<1>6. CASE ResendNitz \/ FreeNitz
  BY <1>6 DEF ResendNitz, FreeNitz, None
<1>7. ASSUME NEW t \in Threads, Grab(t) PROVE TimeType'
  <2>1. CASE t = NitzCaller
    <3>1. serial' = serial + 1 /\ overlap' \in BOOLEAN /\ UNCHANGED <<nitz, owed>>
      BY <1>7, <2>1 DEF Grab
    <3>. QED
      BY <3>1
  <2>2. CASE t # NitzCaller
    BY <1>7, <2>2 DEF Grab
  <2>. QED
    BY <2>1, <2>2
<1>8. ASSUME NEW t \in Threads,
             BadReport(t) \/ ReadFd(t) \/ WriteReport(t) \/ StoreNitz(t)
      PROVE  TimeType'
  <2>1. /\ UNCHANGED <<serial, overlap>> /\ nitz' \in {nitz, serial}
        /\ owed' \in {owed, serial, None}
    BY <1>8 DEF BadReport, ReadFd, WriteReport, StoreNitz, time
  <2>. QED
    BY <2>1 DEF None
<1>. QED
  BY <1>1, <1>2, <1>3, <1>4, <1>5, <1>6, <1>7, <1>8, DaemonSteps

LEMMA NextTypes == TypeInv /\ ClientInv /\ [Next]_vars => TypeInv'
  BY NextPeer, NextLoop, NextReply, NextReport, NextTime DEF TypeInv

LEMMA AlwaysType == Spec => []TypeInv
  BY InitTypes, NextTypes, AlwaysClient, PTL DEF Spec

\* The variables of the radio daemon keep their types, and a thread that is
\* about to write read a descriptor (sendResponseRaw returns when there is none).
THEOREM TypeCorrect == Spec => []TypeOK
<1>1. ClientInv /\ TypeInv => TypeOK
  <2>. SUFFICES ASSUME ClientInv, TypeInv PROVE TypeOK
    OBVIOUS
  <2>1. ready \in Seq({"listen", "commands"})
    <3>1. ready = <<>> \/ ready = <<"listen">> \/ ready = <<"commands">>
      BY DEF ClientInv, ReadyShape
    <3>2. <<>> \in Seq({"listen", "commands"})
      OBVIOUS
    <3>3. /\ <<"listen">> \in Seq({"listen", "commands"})
          /\ <<"commands">> \in Seq({"listen", "commands"})
      OBVIOUS
    <3>. QED
      BY <3>1, <3>2, <3>3, Zenon
  <2>2. fdCommand \in {None} \cup Conns /\ isOpen \in [Conns -> BOOLEAN]
    BY DEF ClientInv, ReadyShape
  <2>. QED
    BY <2>1, <2>2, ZenonT(60)
       DEF TypeInv, PeerType, LoopType, ReplyType, ReportType, TimeType, TypeOK
<1>. QED
  BY <1>1, AlwaysClient, AlwaysType, PTL

-----------------------------------------------------------------------------
(* The network time.                                                       *)

Arriving == loop \in {"connect", "connected"}    \* a new client is being told
Phase(p) == NitzCaller \in Callers /\ call[NitzCaller] = p
Silent   == NitzCaller \in Callers => call[NitzCaller] = "idle"

\* A connection that was accepted, or waits to be, was dialled.
Dialled ==
  /\ \A c \in backlog : client[c] # "none"
  /\ fdCommand # None => client[fdCommand] # "none"

\* The handler of a new client freed a time that the client did not get: it
\* closed the descriptor, and the loop is on its way to die of that.
Leaving == loop = "top" \/ (loop = "fire" /\ ready = <<>>)
Lost    == nitz = None /\ ClosedUnderLoop /\ Leaving

\* NitzKept, followed through the steps of a report and of a new client's
\* handler: between a write that failed and the store, the copy is older than
\* what is owed; in the handler the client is not told yet. A report that
\* writes holds the descriptor of the client there is.
KeptInv ==
  /\ Arriving => Silent /\ fdCommand # None
  /\ loop = "connect" => nitz = owed
  /\ loop = "connected" => owed = None \/ ClosedUnderLoop
  /\ ~Arriving /\ Phase("store") => owed = serial /\ ~Connected
  /\ ~Arriving /\ ~Phase("store") => /\ nitz = owed \/ Lost
                                     /\ Connected => owed = None
  /\ ~Arriving /\ Phase("write") => fdCommand \in {None, callFd[NitzCaller]}

NitzInv == Dialled /\ (~overlap => KeptInv)

LEMMA InitNitz == Init => NitzInv
<1>. SUFFICES ASSUME Init PROVE NitzInv
  OBVIOUS
<1>1. /\ backlog = {} /\ fdCommand = None /\ loop = "top" /\ nitz = None /\ owed = None
      /\ call = [t \in Threads |-> "idle"]
  BY DEF Init
<1>2. NitzCaller \in Callers => call[NitzCaller] = "idle"
  BY <1>1 DEF Threads
<1>3. ~Connected
  BY <1>1 DEF Connected
<1>. QED
  BY <1>1, <1>2, <1>3 DEF NitzInv, Dialled, KeptInv, Arriving, Phase, Silent

\* No step but the acceptance of a client makes the daemon connected.
Fades ==
  /\ fdCommand' \in {fdCommand, None} /\ backlog' \subseteq backlog
  /\ \A c \in Conns : isOpen'[c] => isOpen[c]
  /\ \A c \in Conns : client[c] # "none" => client'[c] \in {client[c], "gone"}

LEMMA FadesDialled ==
  ASSUME TypeInv, ClientInv, Dialled, Fades
  PROVE  Dialled' /\ (Connected' => Connected)
<1>1. fdCommand \in {None} \cup Conns /\ backlog \subseteq Conns
  BY DEF ClientInv, ReadyShape, TypeInv, PeerType
<1>2. Dialled'
  BY <1>1 DEF Fades, Dialled
<1>3. Connected' => Connected
  BY <1>1 DEF Fades, Dialled, Connected
<1>. QED
  BY <1>2, <1>3

\* A step that leaves the copy, the reports of the network time and the place
\* of the handler alone.
LEMMA KeptStill ==
  ASSUME KeptInv, Connected' => Connected, fdCommand' \in {fdCommand, None},
         UNCHANGED <<nitz, owed, serial>>, Lost => Lost',
         Arriving => /\ fdCommand' = fdCommand
                     /\ ClosedUnderLoop => ClosedUnderLoop',
         loop' = loop \/ (~Arriving /\ ~Arriving'),
         NitzCaller \in Callers => /\ call'[NitzCaller] = call[NitzCaller]
                                   /\ callFd'[NitzCaller] = callFd[NitzCaller]
  PROVE  KeptInv'
<1>1. Arriving' = Arriving /\ Silent' = Silent
  BY DEF Arriving, Silent
<1>2. /\ Phase("store")' <=> Phase("store")
      /\ Phase("write")' <=> Phase("write")
  BY DEF Phase
<1>3. /\ loop' = "connect" <=> loop = "connect"
      /\ loop' = "connected" <=> loop = "connected"
  BY DEF Arriving
<1>4. Phase("write") => callFd'[NitzCaller] = callFd[NitzCaller]
  BY DEF Phase
<1>5. CASE Arriving
  BY <1>1, <1>3, <1>5 DEF KeptInv
<1>6. CASE ~Arriving
  <2>1. loop' \notin {"connect", "connected"}
    BY <1>1, <1>6 DEF Arriving
  <2>2. Phase("store")' => owed' = serial' /\ ~Connected'
    BY <1>2, <1>6 DEF KeptInv
  <2>3. ~Phase("store")' => (nitz' = owed' \/ Lost') /\ (Connected' => owed' = None)
    BY <1>2, <1>6 DEF KeptInv
  <2>4. Phase("write")' => fdCommand' \in {None, callFd'[NitzCaller]}
    BY <1>2, <1>4, <1>6 DEF KeptInv
  <2>. QED
    BY <1>1, <1>6, <2>1, <2>2, <2>3, <2>4 DEF KeptInv
<1>. QED
  BY <1>5, <1>6

\* Writes only close descriptors.
LEMMA WrittenFades ==
  ASSUME ClientInv, NEW d, Written(d)
  PROVE  \A c \in Conns : isOpen'[c] => isOpen[c]
  BY DEF Written, ClientInv, ReadyShape

LEMMA AcceptNitz ==
  ASSUME TypeInv, ClientInv, NitzInv, NEW c \in Conns, AcceptClient(c)
  PROVE  NitzInv'
<1>1. /\ c \in backlog /\ backlog' = backlog \ {c} /\ fdCommand' = c /\ loop = "fire"
      /\ loop' = "connect" /\ overlap' = (overlap \/ \E t \in Callers : InNitz(t))
      /\ UNCHANGED <<client, nitz, owed, reports>>
  BY DEF AcceptClient, Accept, Firing
<1>2. Dialled'
  BY <1>1 DEF NitzInv, Dialled
<1>3. ASSUME ~overlap' PROVE KeptInv'
  <2>1. ~overlap /\ KeptInv
    BY <1>1, <1>3 DEF NitzInv
  <2>2. Silent
    BY <1>1, <1>3 DEF Silent, InNitz
  <2>3. ~Lost
    BY DEF AcceptClient, Accept, Firing, Lost, Leaving
  <2>4. nitz = owed
    BY <1>1, <2>1, <2>2, <2>3 DEF KeptInv, Arriving, Phase, Silent
  <2>. QED
    BY <1>1, <2>2, <2>4, NoneNoConn DEF KeptInv, Arriving, Silent, reports
<1>. QED
  BY <1>2, <1>3 DEF NitzInv

LEMMA HandlerNitz ==
  ASSUME TypeInv, ClientInv, NitzInv, ResendNitz \/ FreeNitz
  PROVE  NitzInv'
<1>1. /\ UNCHANGED <<client, backlog, fdCommand, overlap, reports>>
      /\ loop \in {"connect", "connected"}
  BY DEF ResendNitz, FreeNitz, peer, socket, time
<1>2. Dialled'
  BY <1>1 DEF NitzInv, Dialled
<1>3. ASSUME ~overlap' PROVE KeptInv'
  <2>1. KeptInv /\ Silent /\ fdCommand # None
    BY <1>1, <1>3 DEF NitzInv, KeptInv, Arriving
  <2>2. Silent' /\ ~Phase("store")' /\ ~Phase("write")'
    BY <1>1, <2>1 DEF Silent, Phase, reports
  <2>3. fdCommand \in {None} \cup Conns /\ ready = <<"listen">>
    BY <1>1 DEF ClientInv, ReadyShape
  <2>4. CASE ResendNitz /\ nitz = None
    <3>1. loop' = "fire" /\ nitz' = None /\ owed' = None
      BY <2>1, <2>4 DEF ResendNitz, KeptInv
    <3>. QED
      BY <2>2, <3>1 DEF KeptInv, Arriving
  <2>5. CASE ResendNitz /\ nitz # None
    <3>1. PICK d \in Reaches(fdCommand) :
            /\ Written(d) /\ owed' = IF Writes(d) THEN None ELSE owed
            /\ loop' = "connected" /\ UNCHANGED fdCommand
      BY <1>1, <2>5 DEF ResendNitz
    <3>2. owed' = None \/ ~isOpen'[fdCommand]
      BY <2>1, <2>3, <3>1 DEF Reaches, Written, ClientInv, ReadyShape, None
    <3>. QED
      BY <2>1, <2>2, <3>1, <3>2 DEF KeptInv, Arriving, ClosedUnderLoop
  <2>6. CASE FreeNitz
    <3>1. /\ loop' = "fire" /\ nitz' = None /\ ready' = <<>>
          /\ UNCHANGED <<fdCommand, isOpen, owed, client>>
          /\ owed = None \/ ClosedUnderLoop
      BY <2>1, <2>3, <2>6 DEF FreeNitz, KeptInv, socket, peer
    <3>2. nitz' = owed' \/ Lost'
      BY <3>1 DEF Lost, Leaving, ClosedUnderLoop
    <3>3. Connected' => owed' = None
      BY <3>1 DEF Connected, ClosedUnderLoop
    <3>. QED
      BY <2>2, <3>1, <3>2, <3>3 DEF KeptInv, Arriving
  <2>. QED
    BY <2>4, <2>5, <2>6
<1>. QED
  BY <1>2, <1>3 DEF NitzInv

\* The steps of the report of the network time itself.
LEMMA ReportNitz ==
  ASSUME TypeInv, ClientInv, NitzInv, NitzCaller \in Callers,
         \/ Grab(NitzCaller) \/ BadReport(NitzCaller) \/ ReadFd(NitzCaller)
         \/ WriteReport(NitzCaller) \/ StoreNitz(NitzCaller),
         Lost /\ UNCHANGED nitz => Lost'
  PROVE  ~overlap' => KeptInv'
<1>. DEFINE t == NitzCaller
<1>. SUFFICES ASSUME ~overlap' PROVE KeptInv'
  OBVIOUS
<1>1. t \in Threads /\ t # "loop" /\ call \in [Threads -> {"idle", "send", "write", "store"}]
  BY CallerAssumption DEF Threads, TypeInv, ReportType
<1>2. ASSUME Grab(t) PROVE KeptInv'
  <2>1. /\ call[t] = "idle" /\ call'[t] = "send" /\ loop' = loop
        /\ overlap' = (overlap \/ loop \in {"connect", "connected"})
        /\ UNCHANGED <<fdCommand, isOpen, client, nitz, owed>>
    BY <1>1, <1>2 DEF Grab, Step, peer, socket
  <2>2. ~Arriving /\ ~Arriving' /\ ~overlap /\ KeptInv
    BY <2>1 DEF Arriving, NitzInv
  <2>3. (nitz = owed \/ Lost) /\ (Connected => owed = None)
    BY <2>1, <2>2 DEF KeptInv, Phase
  <2>. QED
    BY <2>1, <2>2, <2>3 DEF KeptInv, Phase, Connected, Arriving
<1>3. ASSUME ~Grab(t) PROVE ~overlap /\ KeptInv /\ ~Arriving /\ ~Arriving' /\ loop' = loop
  <2>1. call[t] # "idle" /\ UNCHANGED <<loop, overlap>>
    BY <1>3 DEF BadReport, ReadFd, WriteReport, StoreNitz, Step, looping, time
  <2>2. ~overlap /\ KeptInv
    BY <2>1 DEF NitzInv
  <2>. QED
    BY <2>1, <2>2 DEF KeptInv, Silent, Arriving
<1>4. ASSUME BadReport(t), ~Grab(t) PROVE KeptInv'
  <2>1. /\ call[t] = "send" /\ call'[t] = "idle"
        /\ UNCHANGED <<fdCommand, isOpen, client, nitz, owed>>
    BY <1>1, <1>4 DEF BadReport, Step, peer, socket, time
  <2>2. (nitz = owed \/ Lost) /\ (Connected => owed = None)
    BY <1>3, <1>4, <2>1 DEF KeptInv, Phase
  <2>. QED
    BY <1>3, <1>4, <2>1, <2>2 DEF KeptInv, Phase, Connected, Arriving
<1>5. ASSUME ReadFd(t), ~Grab(t) PROVE KeptInv'
  <2>1. /\ call[t] = "send"
        /\ callFd'[t] = fdCommand
        /\ UNCHANGED <<fdCommand, isOpen, client, nitz, serial>>
    BY <1>1, <1>5 DEF ReadFd, Step, peer, socket, TypeInv, ReportType
  <2>2. (nitz = owed \/ Lost) /\ (Connected => owed = None)
    BY <1>3, <1>5, <2>1 DEF KeptInv, Phase
  <2>3. CASE fdCommand = None
    <3>1. call'[t] = "store" /\ owed' = serial
      BY <1>1, <1>5, <2>1, <2>3 DEF ReadFd, Step, Unsent, InNitz
    <3>. QED
      BY <1>3, <1>5, <2>1, <2>3, <3>1 DEF KeptInv, Phase, Connected, Arriving
  <2>4. CASE fdCommand # None
    <3>1. call'[t] = "write" /\ owed' = owed
      BY <1>1, <1>5, <2>1, <2>4 DEF ReadFd, Step
    <3>. QED
      BY <1>3, <1>5, <2>1, <2>2, <3>1 DEF KeptInv, Phase, Connected, Arriving
  <2>. QED
    BY <2>3, <2>4
<1>6. ASSUME WriteReport(t), ~Grab(t) PROVE KeptInv'
  <2>1. call[t] = "write" /\ callFd[t] \in Conns
    BY <1>1, <1>6 DEF WriteReport, TypeInv, ReportType
  <2>2. PICK d \in Reaches(callFd[t]) :
          /\ call' = [call EXCEPT ![t] = IF Writes(d) THEN "idle" ELSE Unsent(t)]
          /\ Written(d) /\ owed' = IF Writes(d) THEN None ELSE serial
    BY <1>6, <2>1 DEF WriteReport, Step, InNitz
  <2>3. /\ nitz = owed \/ ~Connected
        /\ Connected => owed = None
        /\ fdCommand \in {None, callFd[t]}
    BY <1>3, <1>6, <2>1 DEF KeptInv, Phase, Lost, ClosedUnderLoop, Connected
  <2>4. UNCHANGED <<fdCommand, client, nitz, serial>>
    BY <1>6 DEF WriteReport, peer
  <2>5. d # None => isOpen[d] /\ d = fdCommand
    BY <2>1, <2>2 DEF Reaches, ClientInv, ReadyShape, OneClient
  <2>6. d = None => ~Connected
    BY <2>1, <2>2, <2>3, NoneNoConn DEF Reaches, Connected
  <2>7. Connected' => Connected
    BY <2>2, <2>4, WrittenFades DEF Connected, ClientInv, ReadyShape
  <2>8. CASE Writes(d)
    <3>1. Connected /\ call'[t] = "idle" /\ owed' = None
      BY <1>1, <2>2, <2>5, <2>8 DEF Writes, Connected
    <3>. QED
      BY <1>3, <1>6, <2>3, <2>4, <3>1 DEF KeptInv, Phase, Arriving
  <2>9. CASE ~Writes(d)
    <3>1. ~Connected
      BY <2>5, <2>6, <2>9 DEF Writes, Connected
    <3>2. call'[t] = "store" /\ owed' = serial
      BY <1>1, <2>1, <2>2, <2>9 DEF Unsent, InNitz
    <3>. QED
      BY <1>3, <1>6, <2>4, <2>7, <3>1, <3>2 DEF KeptInv, Phase, Arriving
  <2>. QED
    BY <2>8, <2>9
<1>7. ASSUME StoreNitz(t), ~Grab(t) PROVE KeptInv'
  <2>1. /\ call[t] = "store" /\ call'[t] = "idle" /\ nitz' = serial
        /\ UNCHANGED <<fdCommand, isOpen, client, owed, serial>>
    BY <1>1, <1>7 DEF StoreNitz, Step, peer, socket
  <2>2. owed = serial /\ ~Connected
    BY <1>3, <1>7, <2>1 DEF KeptInv, Phase
  <2>. QED
    BY <1>3, <1>7, <2>1, <2>2 DEF KeptInv, Phase, Connected, Arriving
<1>. QED
  BY <1>2, <1>4, <1>5, <1>6, <1>7

\* Nobody but the reporter of the network time keeps a copy.
Keeper == \A t \in Threads : call[t] = "store" => t = NitzCaller

LEMMA InitKeeper == Init => Keeper
  BY DEF Init, Keeper

LEMMA NextKeeper == TypeInv /\ Keeper /\ [Next]_vars => Keeper'
<1>. SUFFICES ASSUME TypeInv, Keeper, [Next]_vars PROVE Keeper'
  OBVIOUS
<1>. USE DEF Keeper
<1>1. CASE UNCHANGED reports
  BY <1>1 DEF reports
<1>2. ASSUME NEW t \in Threads,
             Grab(t) \/ BadReport(t) \/ ReadFd(t) \/ WriteReport(t) \/ StoreNitz(t)
      PROVE  Keeper'
  <2>1. PICK to : call' = [call EXCEPT ![t] = to] /\ (to = "store" => InNitz(t))
    BY <1>2 DEF Grab, BadReport, ReadFd, WriteReport, StoreNitz, Step, Unsent
  <2>2. call'[t] = to /\ \A u \in Threads : u # t => call'[u] = call[u]
    BY <2>1 DEF TypeInv, ReportType
  <2>. QED
    BY <2>1, <2>2 DEF InNitz
<1>3. ASSUME NEW c \in Conns,
             \/ Dial(c) \/ HangUp(c) \/ \E r \in Requests : Ask(c, r)
             \/ AcceptClient(c) \/ RefuseClient(c)
      PROVE  UNCHANGED reports
  BY <1>3 DEF Dial, HangUp, Ask, AcceptClient, RefuseClient
<1>4. ASSUME NEW r \in Requests,
             \/ Complete(r) \/ ReadReplyFd(r) \/ WriteReply(r)
             \/ ProcessRequest(r)
      PROVE  UNCHANGED reports
  BY <1>4 DEF Complete, ReadReplyFd, WriteReply, ProcessRequest
<1>5. CASE \/ Select \/ Wake \/ Fired \/ ResendNitz \/ FreeNitz \/ Drained \/ CloseCommands
           \/ CancelPending \/ UNCHANGED vars
  BY <1>1, <1>5 DEF Select, Wake, Fired, ResendNitz, FreeNitz, Drained, CloseCommands,
                    CancelPending, vars
<1>. QED
  BY <1>1, <1>2, <1>3, <1>4, <1>5, DaemonSteps

\* The steps of every other report.
LEMMA OthersReport ==
  ASSUME TypeInv, Keeper, NEW t \in Threads, t # NitzCaller,
         Grab(t) \/ BadReport(t) \/ ReadFd(t) \/ WriteReport(t) \/ StoreNitz(t)
  PROVE  /\ UNCHANGED <<owed, serial, overlap, loop, nitz>>
         /\ NitzCaller \in Callers => /\ call'[NitzCaller] = call[NitzCaller]
                                      /\ callFd'[NitzCaller] = callFd[NitzCaller]
<1>1. ~StoreNitz(t)
  BY DEF StoreNitz, Step, Keeper
<1>2. UNCHANGED <<owed, serial, overlap, loop, nitz>>
  BY <1>1 DEF Grab, BadReport, ReadFd, WriteReport, InNitz, time, looping
<1>3. /\ \E to : call' = [call EXCEPT ![t] = to]
      /\ callFd' = callFd \/ \E d : callFd' = [callFd EXCEPT ![t] = d]
  BY <1>1 DEF Grab, BadReport, ReadFd, WriteReport, Step
<1>4. ASSUME NitzCaller \in Callers
      PROVE  call'[NitzCaller] = call[NitzCaller] /\ callFd'[NitzCaller] = callFd[NitzCaller]
  BY <1>3, <1>4 DEF TypeInv, ReportType, Threads
<1>. QED
  BY <1>2, <1>4

\* Every step but the acceptance of a client and the end of its handler.
Beside ==
  \/ \E c \in Conns : Dial(c) \/ HangUp(c) \/ RefuseClient(c) \/ \E r \in Requests : Ask(c, r)
  \/ \E r \in Requests : Complete(r) \/ ReadReplyFd(r) \/ WriteReply(r) \/ ProcessRequest(r)
  \/ \E t \in Threads : Grab(t) \/ BadReport(t) \/ ReadFd(t) \/ WriteReport(t) \/ StoreNitz(t)
  \/ Select \/ Wake \/ Fired \/ Drained \/ CloseCommands \/ CancelPending
  \/ UNCHANGED vars

LEMMA BesideFades ==
  ASSUME TypeInv, ClientInv, Dialled, Beside
  PROVE  /\ Dialled' /\ (Connected' => Connected) /\ fdCommand' \in {fdCommand, None}
         /\ \A c \in Conns : isOpen'[c] => isOpen[c]
<1>1. CASE UNCHANGED <<client, backlog, fdCommand, isOpen>>
  BY <1>1 DEF Dialled, Connected
<1>2. ASSUME NEW c \in Conns, Dial(c) PROVE Dialled' /\ (Connected' => Connected)
  <2>1. /\ client[c] = "none" /\ client' = [client EXCEPT ![c] = "up"]
        /\ backlog' = backlog \cup {c} /\ UNCHANGED <<fdCommand, isOpen>>
    BY <1>2 DEF Dial, socket
  <2>2. \A d \in Conns : client[d] # "none" => client'[d] = client[d]
    BY <2>1 DEF TypeInv, PeerType
  <2>3. fdCommand \in {None} \cup Conns /\ backlog \subseteq Conns /\ client'[c] = "up"
    BY <2>1 DEF ClientInv, ReadyShape, TypeInv, PeerType
  <2>. QED
    BY <2>1, <2>2, <2>3 DEF Dialled, Connected
<1>3. ASSUME NEW c \in Conns, HangUp(c) \/ RefuseClient(c) PROVE Fades
  <2>1. /\ UNCHANGED <<fdCommand, isOpen>> /\ backlog' \subseteq backlog
        /\ client' = client \/ client' = [client EXCEPT ![c] = "gone"]
    BY <1>3 DEF HangUp, RefuseClient, socket
  <2>. QED
    BY <2>1 DEF Fades, TypeInv, PeerType
<1>4. ASSUME NEW c \in Conns, NEW r \in Requests, Ask(c, r)
      PROVE  UNCHANGED <<client, backlog, fdCommand, isOpen>>
  BY <1>4 DEF Ask, socket
<1>5. ASSUME NEW r \in Requests,
             \/ Complete(r) \/ ReadReplyFd(r) \/ WriteReply(r)
             \/ ProcessRequest(r)
      PROVE  Fades
  <2>1. /\ UNCHANGED <<client, backlog, fdCommand>>
        /\ UNCHANGED isOpen \/ \E d : Written(d)
    BY <1>5 DEF Complete, ReadReplyFd, WriteReply, ProcessRequest, peer, socket
  <2>. QED
    BY <2>1, WrittenFades DEF Fades
<1>6. ASSUME NEW t \in Threads,
             Grab(t) \/ BadReport(t) \/ ReadFd(t) \/ WriteReport(t) \/ StoreNitz(t)
      PROVE  Fades
  <2>1. /\ UNCHANGED <<client, backlog, fdCommand>>
        /\ UNCHANGED isOpen \/ \E d : Written(d)
    BY <1>6 DEF Grab, BadReport, ReadFd, WriteReport, StoreNitz, peer, socket
  <2>. QED
    BY <2>1, WrittenFades DEF Fades
<1>7. CASE Select \/ Wake \/ Fired \/ Drained \/ CancelPending \/ UNCHANGED vars
  BY <1>1, <1>7 DEF Select, Wake, Fired, Drained, CancelPending, peer, socket, vars
<1>8. ASSUME CloseCommands PROVE Fades
  <2>1. fdCommand \in Conns
    BY <1>8 DEF CloseCommands, Firing, ClientInv, ReadyShape
  <2>2. /\ isOpen' = [isOpen EXCEPT ![fdCommand] = FALSE]
        /\ client' = [client EXCEPT ![fdCommand] = "gone"]
        /\ fdCommand' = None /\ UNCHANGED backlog
    BY <1>8 DEF CloseCommands
  <2>. QED
    BY <2>1, <2>2 DEF Fades, ClientInv, ReadyShape, TypeInv, PeerType
<1>9. Fades => fdCommand' \in {fdCommand, None} /\ \A c \in Conns : isOpen'[c] => isOpen[c]
  BY DEF Fades
<1>10. \A c \in Conns : Dial(c) => UNCHANGED <<fdCommand, isOpen>>
  BY DEF Dial, socket
<1>. QED
  BY <1>1, <1>2, <1>3, <1>4, <1>5, <1>6, <1>7, <1>8, <1>9, <1>10, FadesDialled DEF Beside

\* A loop that is about to die of a descriptor that it still watches does.
LEMMA BesideLost ==
  ASSUME TypeInv, ClientInv, Dialled, Beside
  PROVE  /\ Lost /\ UNCHANGED nitz => Lost'
         /\ Arriving => /\ fdCommand' = fdCommand
                        /\ ClosedUnderLoop => ClosedUnderLoop'
<1>. DEFINE Still == UNCHANGED <<loop, ready, fdCommand>>
            Turned == /\ fdCommand' = fdCommand \/ (~Arriving /\ ~Leaving)
                      /\ Leaving /\ ClosedUnderLoop => Leaving'
<1>1. Still => Turned
  BY DEF Leaving
<1>2. ASSUME NEW c \in Conns,
             Dial(c) \/ HangUp(c) \/ \E r \in Requests : Ask(c, r)
      PROVE  Still
  BY <1>2 DEF Dial, HangUp, Ask, socket, looping
<1>3. ASSUME NEW r \in Requests,
             \/ Complete(r) \/ ReadReplyFd(r) \/ WriteReply(r)
             \/ ProcessRequest(r)
      PROVE  Still
  BY <1>3 DEF Complete, ReadReplyFd, WriteReply, ProcessRequest, socket, looping
<1>4. ASSUME NEW t \in Threads,
             Grab(t) \/ BadReport(t) \/ ReadFd(t) \/ WriteReport(t) \/ StoreNitz(t)
      PROVE  Still
  BY <1>4 DEF Grab, BadReport, ReadFd, WriteReport, StoreNitz, socket, looping
<1>5. ASSUME \/ \E c \in Conns : RefuseClient(c)
             \/ Drained \/ CloseCommands \/ Wake \/ CancelPending
      PROVE  Turned
  BY <1>5 DEF RefuseClient, Drained, CloseCommands, Wake, CancelPending, Accept, Firing,
              Arriving, Leaving, socket
<1>6. ASSUME Select PROVE Turned
  BY <1>6 DEF Select, socket, ClosedUnderLoop, Leaving
<1>7. ASSUME Fired PROVE Turned
  BY <1>7 DEF Fired, socket, Leaving
<1>8. ASSUME UNCHANGED vars PROVE Turned
  BY <1>8 DEF vars, socket, looping, Leaving
<1>9. Turned
  <2>. HIDE DEF Still, Turned
  <2>. QED
    BY <1>1, <1>2, <1>3, <1>4, <1>5, <1>6, <1>7, <1>8 DEF Beside
<1>10. fdCommand' = fdCommand /\ ClosedUnderLoop => ClosedUnderLoop'
  BY BesideFades DEF ClosedUnderLoop, ClientInv, ReadyShape
<1>. QED
  BY <1>9, <1>10 DEF Lost

LEMMA BesideNitz ==
  ASSUME TypeInv, ClientInv, Keeper, NitzInv, Beside
  PROVE  NitzInv'
<1>1. Dialled' /\ (Connected' => Connected) /\ fdCommand' \in {fdCommand, None}
  BY BesideFades DEF NitzInv
<1>. DEFINE Same == /\ UNCHANGED <<nitz, owed, serial, overlap>>
                    /\ loop' = loop \/ (~Arriving /\ ~Arriving')
                    /\ NitzCaller \in Callers => /\ call'[NitzCaller] = call[NitzCaller]
                                                 /\ callFd'[NitzCaller] = callFd[NitzCaller]
<1>2. Same => NitzInv'
  BY <1>1, KeptStill, BesideLost DEF NitzInv
<1>. HIDE DEF Same
<1>3. ASSUME NEW c \in Conns,
             Dial(c) \/ HangUp(c) \/ RefuseClient(c) \/ \E r \in Requests : Ask(c, r)
      PROVE  Same
  BY <1>3 DEF Same, Dial, HangUp, RefuseClient, Ask, Accept, Firing, time, reports, looping,
              Arriving
<1>4. ASSUME NEW r \in Requests,
             \/ Complete(r) \/ ReadReplyFd(r) \/ WriteReply(r)
             \/ ProcessRequest(r)
      PROVE  Same
  BY <1>4 DEF Same, Complete, ReadReplyFd, WriteReply, ProcessRequest, time, reports, looping
<1>5. ASSUME NEW t \in Threads, t # NitzCaller,
             Grab(t) \/ BadReport(t) \/ ReadFd(t) \/ WriteReport(t) \/ StoreNitz(t)
      PROVE  Same
  BY <1>5, OthersReport DEF Same
<1>6. ASSUME NEW t \in Threads, t = NitzCaller,
             Grab(t) \/ BadReport(t) \/ ReadFd(t) \/ WriteReport(t) \/ StoreNitz(t)
      PROVE  NitzInv'
  <2>1. Lost /\ UNCHANGED nitz => Lost'
    BY BesideLost DEF NitzInv
  <2>. QED
    BY <1>1, <1>6, <2>1, ReportNitz, CallerAssumption DEF Threads, NitzInv
<1>7. ASSUME \/ Select \/ Wake \/ Fired \/ Drained \/ CloseCommands \/ CancelPending
             \/ UNCHANGED vars
      PROVE  Same
  BY <1>7 DEF Same, Select, Wake, Fired, Drained, CloseCommands, CancelPending, Firing,
              time, reports, looping, vars, Arriving
<1>. QED
  BY <1>2, <1>3, <1>4, <1>5, <1>6, <1>7 DEF Beside

LEMMA NextNitz == TypeInv /\ ClientInv /\ Keeper /\ NitzInv /\ [Next]_vars => NitzInv'
  BY AcceptNitz, HandlerNitz, BesideNitz, DaemonSteps DEF Beside

\* RIL_onUnsolicitedResponse keeps a network time that it could not send and
\* onNewCommandConnect sends it and frees it: as long as no report of it runs
\* beside that handler, the copy is exactly the time that is owed.
THEOREM NitzIsKept == Spec => []NitzKept
<1>1. Spec => []Keeper
  BY InitKeeper, NextKeeper, AlwaysType, PTL DEF Spec
<1>2. Spec => []NitzInv
  BY <1>1, InitNitz, NextNitz, AlwaysType, AlwaysClient, PTL DEF Spec
<1>3. NitzInv => NitzKept
  BY DEF NitzInv, KeptInv, Arriving, Phase, InNitz, Lost, NitzKept
<1>. QED
  BY <1>2, <1>3, PTL
=============================================================================
