---------------------- MODULE Camera3Accounting_proofs ----------------------
(***************************************************************************)
(* Proof that the pipeline of Camera3Pipeline loses no buffer and returns  *)
(* none twice, and that its queues stay ordered and within their arrays,   *)
(* for every value of the constants.                                       *)
(***************************************************************************)
EXTENDS Camera3Pipeline_proofs

-----------------------------------------------------------------------------
(* Queues of frames.                                                       *)

Elements(q) == {q[i] : i \in 1 .. Len(q)}
Ascending(q) == \A i, j \in 1 .. Len(q) : i < j => q[i] < q[j]

(* The tail of an ascending queue has lost its head and nothing else.      *)
LEMMA TailElements ==
  ASSUME NEW q \in Seq(Frames), q # <<>>, Ascending(q)
  PROVE  /\ Ascending(Tail(q)) /\ Len(Tail(q)) = Len(q) - 1
         /\ Head(q) \in Elements(q)
         /\ Elements(Tail(q)) = Elements(q) \ {Head(q)}
         /\ \A f \in Elements(Tail(q)) : Head(q) < f
<1>1. /\ Len(q) \in Nat \ {0} /\ Head(q) = q[1] /\ Len(Tail(q)) = Len(q) - 1
      /\ \A i \in 1 .. Len(q) - 1 : Tail(q)[i] = q[i + 1]
  OBVIOUS
<1>2. Ascending(Tail(q))
  BY <1>1 DEF Ascending
<1>3. \A i \in 1 .. Len(q) : q[i] \in Nat
  <2>1. \A i \in 1 .. Len(q) : q[i] \in Frames
    BY ElementOfSeq
  <2>. QED
    BY <2>1, BoundsAssumption DEF Frames
<1>4. \A f \in Elements(Tail(q)) : f \in Elements(q) /\ Head(q) < f
  BY <1>1 DEF Elements, Ascending
<1>5. ASSUME NEW f \in Elements(q), f # Head(q) PROVE f \in Elements(Tail(q))
  <2>1. PICK i \in 1 .. Len(q) : f = q[i]
    BY DEF Elements
  <2>2. i - 1 \in 1 .. Len(Tail(q)) /\ Tail(q)[i - 1] = q[i]
    BY <1>1, <1>5, <2>1
  <2>. QED
    BY <2>1, <2>2 DEF Elements
<1>6. Head(q) \in Elements(q) /\ Head(q) \in Nat
  BY <1>1, <1>3 DEF Elements
<1>7. Head(q) \notin Elements(Tail(q))
  BY <1>4, <1>6
<1>8. Elements(Tail(q)) = Elements(q) \ {Head(q)}
  BY <1>4, <1>5, <1>7
<1>. QED
  BY <1>1, <1>2, <1>4, <1>6, <1>8

(* A frame later than all of them goes to the end.                         *)
LEMMA AppendElements ==
  ASSUME NEW q \in Seq(Frames), NEW f \in Frames, Ascending(q),
         \A g \in Elements(q) : g < f
  PROVE  /\ Ascending(Append(q, f)) /\ Len(Append(q, f)) = Len(q) + 1
         /\ Elements(Append(q, f)) = Elements(q) \cup {f}
<1>1. /\ Len(q) \in Nat /\ Len(Append(q, f)) = Len(q) + 1
      /\ Append(q, f)[Len(q) + 1] = f
      /\ \A i \in 1 .. Len(q) : Append(q, f)[i] = q[i]
  OBVIOUS
<1>2. \A i \in 1 .. Len(q) : q[i] < f
  BY DEF Elements
<1>3. Ascending(Append(q, f))
  BY <1>1, <1>2 DEF Ascending
<1>4. Elements(Append(q, f)) \subseteq Elements(q) \cup {f}
  BY <1>1 DEF Elements
<1>5. Elements(q) \subseteq Elements(Append(q, f))
  BY <1>1 DEF Elements
<1>6. f \in Elements(Append(q, f))
  BY <1>1 DEF Elements
<1>. QED
  BY <1>1, <1>3, <1>4, <1>5, <1>6

-----------------------------------------------------------------------------
(* Accounting, as a relation between the queued buffers q, the buffers h   *)
(* of each thread, the accepted ones a and the returned ones r.            *)

Accounted(q, h, a, r) ==
  /\ r \subseteq a /\ q \subseteq a /\ q \cap r = {}
  /\ \A t \in Threads : h[t] \subseteq a /\ h[t] \cap r = {} /\ h[t] \cap q = {}
  /\ \A t, u \in Threads : t # u => h[t] \cap h[u] = {}
  /\ \A b \in a : b \in r \/ b \in q \/ \E t \in Threads : b \in h[t]

(* A queued buffer is returned.                                            *)
LEMMA QueuedReturned ==
  ASSUME NEW q, NEW h, NEW a, NEW r, Accounted(q, h, a, r), NEW b \in q
  PROVE  Accounted(q \ {b}, h, a, r \cup {b})
BY DEF Accounted

(* A queued buffer is taken into the empty hands of a thread.              *)
LEMMA QueuedHeld ==
  ASSUME NEW q, NEW h, NEW g, NEW a, NEW r, Accounted(q, h, a, r), NEW b \in q,
         NEW t \in Threads, h[t] = {}, g[t] = {b},
         \A u \in Threads : u # t => g[u] = h[u]
  PROVE  Accounted(q \ {b}, g, a, r)
BY DEF Accounted

(* A held buffer is returned.                                              *)
LEMMA HeldReturned ==
  ASSUME NEW q, NEW h, NEW g, NEW a, NEW r, Accounted(q, h, a, r),
         NEW t \in Threads, NEW b \in h[t], g[t] = h[t] \ {b},
         \A u \in Threads : u # t => g[u] = h[u]
  PROVE  Accounted(q, g, a, r \cup {b})
BY DEF Accounted

(* All that a thread holds is returned.                                    *)
LEMMA AllReturned ==
  ASSUME NEW q, NEW h, NEW g, NEW a, NEW r, Accounted(q, h, a, r),
         NEW t \in Threads, g[t] = {},
         \A u \in Threads : u # t => g[u] = h[u]
  PROVE  Accounted(q, g, a, r \cup h[t])
BY DEF Accounted

(* A held buffer is queued.                                                *)
LEMMA HeldQueued ==
  ASSUME NEW q, NEW h, NEW g, NEW a, NEW r, Accounted(q, h, a, r),
         NEW t \in Threads, NEW b \in h[t], g[t] = h[t] \ {b},
         \A u \in Threads : u # t => g[u] = h[u]
  PROVE  Accounted(q \cup {b}, g, a, r)
BY DEF Accounted

(* New buffers are accepted and returned at once.                          *)
LEMMA NewReturned ==
  ASSUME NEW q, NEW h, NEW a, NEW r, Accounted(q, h, a, r), NEW n, n \cap a = {}
  PROVE  Accounted(q, h, a \cup n, r \cup n)
BY DEF Accounted

(* New buffers are accepted, some queued and the others held.              *)
LEMMA NewQueued ==
  ASSUME NEW q, NEW h, NEW g, NEW a, NEW r, Accounted(q, h, a, r),
         NEW n, NEW m, (n \cup m) \cap a = {}, n \cap m = {},
         NEW t \in Threads, h[t] = {}, g[t] = m,
         \A u \in Threads : u # t => g[u] = h[u]
  PROVE  Accounted(q \cup n, g, a \cup (n \cup m), r)
BY DEF Accounted

-----------------------------------------------------------------------------
(* The inductive invariant.                                                *)

Limit(s) == IF s = "jpeg" THEN MaxJpeg ELSE MaxPending

Accounts == Accounted(QueuedBuffers, held, accepted, returned)

(* The hands of a thread are empty unless it hands over a request or has a *)
(* buffer to return, of which it then holds one at most.                   *)
Carrying == Returning \cup {"shutter", "enqueue"}
Holders ==
  /\ \A b \in accepted : b[2] <= frame
  /\ \A t \in Threads : /\ pc[t] \notin Carrying => held[t] = {}
                        /\ pc[t] \in Returning => \A b, c \in held[t] : b = c

AccountingInv == QueuesOrdered /\ Accounts /\ Holders

LEMMA OrderedQueues ==
  QueuesOrdered <=> \A s \in Streams : Ascending(queue[s]) /\ Len(queue[s]) <= Limit(s)
BY DEF QueuesOrdered, Ascending, Limit, Streams

LEMMA OrderedQueuesNext ==
  QueuesOrdered' <=> \A s \in Streams : Ascending(queue'[s]) /\ Len(queue'[s]) <= Limit(s)
BY DEF QueuesOrdered, Ascending, Limit, Streams

(* TakeHead removes one buffer from the queues.                            *)
LEMMA Taken ==
  ASSUME TypeOK, QueuesOrdered, NEW s \in Streams, TakeHead(s)
  PROVE  /\ <<s, Head(queue[s])>> \in QueuedBuffers
         /\ QueuedBuffers' = QueuedBuffers \ {<<s, Head(queue[s])>>}
         /\ QueuesOrdered'
<1>1. /\ queue[s] \in Seq(Frames) /\ queue[s] # <<>> /\ Ascending(queue[s])
      /\ Len(queue[s]) <= Limit(s)
  BY OrderedQueues DEF TypeOK, TakeHead
<1>2. queue'[s] = Tail(queue[s]) /\ \A u \in Streams : u # s => queue'[u] = queue[u]
  BY DEF TypeOK, TakeHead
<1>3. /\ Ascending(queue'[s]) /\ Len(queue'[s]) = Len(queue[s]) - 1
      /\ Head(queue[s]) \in Elements(queue[s])
      /\ Elements(queue'[s]) = Elements(queue[s]) \ {Head(queue[s])}
  BY <1>1, <1>2, TailElements
<1>4. \A u \in Streams : Queued(u) = Elements(queue[u]) /\ Queued(u)' = Elements(queue'[u])
  BY DEF Queued, Elements
<1>5. /\ Head(queue[s]) \in Queued(s) /\ Queued(s)' = Queued(s) \ {Head(queue[s])}
      /\ \A u \in Streams : u # s => Queued(u)' = Queued(u)
  BY <1>2, <1>3, <1>4
<1>6. Len(queue[s]) \in Nat /\ Limit(s) \in Nat
  BY <1>1, BoundsAssumption DEF Limit
<1>7. QueuesOrdered'
  <2>1. Len(queue'[s]) <= Limit(s)
    BY <1>1, <1>3, <1>6
  <2>2. \A u \in Streams : Ascending(queue'[u]) /\ Len(queue'[u]) <= Limit(u)
    BY <1>2, <1>3, <2>1, OrderedQueues
  <2>. QED
    BY <2>2, OrderedQueuesNext
<1>8. <<s, Head(queue[s])>> \in QueuedBuffers
  BY <1>5 DEF QueuedBuffers
<1>9. QueuedBuffers' = QueuedBuffers \ {<<s, Head(queue[s])>>}
  BY <1>5 DEF QueuedBuffers
<1>. QED
  BY <1>7, <1>8, <1>9

(* Appending a later frame to a queue with room adds one.                  *)
LEMMA Put ==
  ASSUME TypeOK, QueuesOrdered, NEW s \in Streams, NEW f \in Frames,
         queue' = [queue EXCEPT ![s] = Append(@, f)], Len(queue[s]) < Limit(s),
         \A g \in Queued(s) : g < f
  PROVE  QueuedBuffers' = QueuedBuffers \cup {<<s, f>>} /\ QueuesOrdered'
<1>1. queue[s] \in Seq(Frames) /\ Ascending(queue[s])
  BY OrderedQueues DEF TypeOK
<1>2. queue'[s] = Append(queue[s], f) /\ \A u \in Streams : u # s => queue'[u] = queue[u]
  BY DEF TypeOK
<1>3. \A u \in Streams : Queued(u) = Elements(queue[u]) /\ Queued(u)' = Elements(queue'[u])
  BY DEF Queued, Elements
<1>4. /\ Ascending(queue'[s]) /\ Len(queue'[s]) = Len(queue[s]) + 1
      /\ Elements(queue'[s]) = Elements(queue[s]) \cup {f}
  BY <1>1, <1>2, <1>3, AppendElements
<1>5. /\ Queued(s)' = Queued(s) \cup {f}
      /\ \A u \in Streams : u # s => Queued(u)' = Queued(u)
  BY <1>2, <1>3, <1>4
<1>6. Len(queue[s]) \in Nat /\ Limit(s) \in Nat
  BY <1>1, BoundsAssumption DEF Limit
<1>7. QueuesOrdered'
  BY <1>2, <1>4, <1>6, OrderedQueues, OrderedQueuesNext
<1>8. QueuedBuffers' = QueuedBuffers \cup {<<s, f>>}
  BY <1>5 DEF QueuedBuffers
<1>. QED
  BY <1>7, <1>8

(* Nothing changes the queues but TakeHead and Append.                     *)
LEMMA Untouched ==
  ASSUME QueuesOrdered, UNCHANGED queue
  PROVE  QueuedBuffers' = QueuedBuffers /\ QueuesOrdered'
BY DEF QueuesOrdered, QueuedBuffers, Queued

(* A thread that carries buffers only leaves that part of its program with *)
(* empty hands.                                                            *)
LEMMA HoldersStay ==
  ASSUME Holders, UNCHANGED <<held, accepted, frame>>,
         \A t \in Threads : \/ pc'[t] = pc[t]
                            \/ pc[t] \notin Carrying \/ held[t] = {}
                            \/ pc'[t] \in {"shutter", "enqueue"}
  PROVE  Holders'
BY DEF Holders, Carrying, Returning

(* The head of a queue comes back in error, or nothing changes.            *)
LEMMA HeadReturned ==
  ASSUME TypeOK, AccountingInv, NEW s \in Streams, UNCHANGED <<held, accepted>>,
         \/ TakeHead(s) /\ ReturnError({<<s, Head(queue[s])>>})
         \/ UNCHANGED <<queue, returned>>
  PROVE  QueuesOrdered' /\ Accounts'
<1>1. CASE TakeHead(s) /\ ReturnError({<<s, Head(queue[s])>>})
  <2>1. /\ <<s, Head(queue[s])>> \in QueuedBuffers
        /\ QueuedBuffers' = QueuedBuffers \ {<<s, Head(queue[s])>>}
        /\ QueuesOrdered'
    BY <1>1, Taken DEF AccountingInv
  <2>2. returned' = returned \cup {<<s, Head(queue[s])>>}
    BY <1>1 DEF ReturnError
  <2>. QED
    BY <2>1, <2>2, QueuedReturned DEF AccountingInv, Accounts
<1>2. CASE UNCHANGED <<queue, returned>>
  BY <1>2, Untouched DEF AccountingInv, Accounts
<1>. QED
  BY <1>1, <1>2

-----------------------------------------------------------------------------
(* The invariant, one lemma per group of actions.                          *)

LEMMA InitAccounting == Init => AccountingInv
<1> SUFFICES ASSUME Init PROVE AccountingInv
  OBVIOUS
<1>1. \A s \in Streams : Len(queue[s]) = 0
  BY DEF Init
<1>2. QueuesOrdered
  BY <1>1, BoundsAssumption DEF QueuesOrdered, Streams
<1>3. QueuedBuffers = {}
  BY <1>1 DEF QueuedBuffers, Queued
<1>4. Accounts
  BY <1>3 DEF Init, Accounts, Accounted
<1>5. Holders
  BY DEF Init, Holders, Threads
<1>. QED
  BY <1>2, <1>4, <1>5 DEF AccountingInv

(* A new request's frame is later than everything accepted before.         *)
LEMMA NewFrame ==
  ASSUME TypeOK, Holders, NEW outs, outs \subseteq Streams, NewRequest(outs)
  PROVE  /\ frame' = frame + 1 /\ frame + 1 \in Frames
         /\ accepted' = accepted \cup (outs \X {frame + 1})
         /\ (outs \X {frame + 1}) \cap accepted = {}
         /\ \A b \in accepted : b[2] < frame + 1
         /\ \A b \in accepted' : b[2] <= frame'
<1>1. frame \in 0 .. MaxFrame /\ accepted \subseteq Streams \X Frames
  BY DEF TypeOK, Buffers
<1>2. frame' = frame + 1 /\ frame + 1 \in Frames
  BY <1>1, BoundsAssumption DEF NewRequest, Frames
<1>3. accepted' = accepted \cup (outs \X {frame + 1})
  BY DEF NewRequest
<1>4. \A b \in accepted : b[2] \in Nat /\ b[2] <= frame
  BY <1>1, BoundsAssumption DEF Holders, Frames
<1>5. \A b \in accepted : b[2] < frame + 1
  BY <1>1, <1>4
<1>6. \A b \in outs \X {frame + 1} : b[2] = frame + 1
  OBVIOUS
<1>7. (outs \X {frame + 1}) \cap accepted = {}
  BY <1>1, <1>5, <1>6
<1>8. \A b \in accepted' : b[2] <= frame'
  BY <1>1, <1>2, <1>3, <1>5, <1>4, <1>6
<1>. QED
  BY <1>2, <1>3, <1>5, <1>7, <1>8

LEMMA RejectAccounting ==
  ASSUME TypeOK, AccountingInv, NEW outs \in Outputs, RejectRequest(outs)
  PROVE  AccountingInv'
<1>. DEFINE new == outs \X {frame + 1}
<1>1. NewRequest(outs) /\ outs \subseteq Streams
  BY InputAssumption DEF RejectRequest
<1>2. /\ accepted' = accepted \cup new /\ new \cap accepted = {}
      /\ \A b \in accepted' : b[2] <= frame'
  BY <1>1, NewFrame DEF AccountingInv
<1>3. returned' = returned \cup new /\ UNCHANGED <<queue, held, pc>>
  BY DEF RejectRequest
<1>4. QueuedBuffers' = QueuedBuffers /\ QueuesOrdered'
  BY <1>3, Untouched DEF AccountingInv
<1>5. Accounted(QueuedBuffers, held, accepted \cup new, returned \cup new)
  BY <1>2, NewReturned DEF AccountingInv, Accounts
<1>6. Accounts'
  BY <1>2, <1>3, <1>4, <1>5 DEF Accounts
<1>7. Holders'
  BY <1>2, <1>3 DEF AccountingInv, Holders, Carrying, Returning
<1>. QED
  BY <1>4, <1>6, <1>7 DEF AccountingInv

LEMMA ReserveAccounting ==
  ASSUME TypeOK, AccountingInv, NEW outs \in Outputs, ReserveJpeg(outs)
  PROVE  AccountingInv'
<1>. DEFINE new  == IF "jpeg" \in outs THEN {<<"jpeg", frame + 1>>} ELSE {}
            rest == (outs \ {"jpeg"}) \X {frame + 1}
<1>1. NewRequest(outs) /\ outs \subseteq Streams
  BY InputAssumption DEF ReserveJpeg
<1>2. /\ frame' = frame + 1 /\ frame + 1 \in Frames
      /\ accepted' = accepted \cup (outs \X {frame + 1})
      /\ (outs \X {frame + 1}) \cap accepted = {}
      /\ \A b \in accepted : b[2] < frame + 1
      /\ \A b \in accepted' : b[2] <= frame'
  BY <1>1, NewFrame DEF AccountingInv
<1>3. outs \X {frame + 1} = new \cup rest /\ new \cap rest = {}
  OBVIOUS
<1>4. /\ held'["req"] = rest /\ \A u \in Threads : u # "req" => held'[u] = held[u]
      /\ pc'["req"] = "shutter" /\ \A u \in Threads : u # "req" => pc'[u] = pc[u]
      /\ "req" \in Threads /\ UNCHANGED returned
  BY DEF ReserveJpeg, Goto, TypeOK, PcOK, Threads
<1>5. held["req"] = {}
  BY <1>1, <1>4 DEF NewRequest, AccountingInv, Holders, Carrying, Returning
<1>6. QueuedBuffers' = QueuedBuffers \cup new /\ QueuesOrdered'
  <2>1. CASE "jpeg" \in outs
    <3>1. \A g \in Queued("jpeg") : g < frame + 1
      <4>1. ASSUME NEW g \in Queued("jpeg") PROVE <<"jpeg", g>> \in accepted
        BY <4>1 DEF QueuedBuffers, Streams, AccountingInv, Accounts, Accounted
      <4>. QED
        BY <1>2, <4>1
    <3>2. /\ queue' = [queue EXCEPT !["jpeg"] = Append(@, frame + 1)]
          /\ Len(queue["jpeg"]) < Limit("jpeg") /\ "jpeg" \in Streams
      BY <2>1 DEF ReserveJpeg, CanReserveJpeg, Limit, Streams
    <3>. QED
      BY <1>2, <2>1, <3>1, <3>2, Put DEF AccountingInv
  <2>2. CASE "jpeg" \notin outs
    BY <2>2, Untouched DEF ReserveJpeg, AccountingInv
  <2>. QED
    BY <2>1, <2>2
<1>7. Accounted(QueuedBuffers \cup new, held', accepted \cup (new \cup rest), returned)
  <2>1. (new \cup rest) \cap accepted = {} /\ "req" \in Threads
    BY <1>2, <1>3 DEF Threads
  <2>2. /\ Accounted(QueuedBuffers, held, accepted, returned)
        /\ held["req"] = {} /\ held'["req"] = rest
        /\ \A u \in Threads : u # "req" => held'[u] = held[u]
    BY <1>4, <1>5 DEF AccountingInv, Accounts
  <2>3. new \cap rest = {}
    BY <1>3
  <2>. HIDE DEF new, rest
  <2>. QED
    BY <2>1, <2>2, <2>3, NewQueued
<1>8. Accounts'
  BY <1>2, <1>3, <1>4, <1>6, <1>7 DEF Accounts
<1>9. Holders'
  BY <1>2, <1>4 DEF AccountingInv, Holders, Carrying, Returning
<1>. QED
  BY <1>6, <1>8, <1>9 DEF AccountingInv

LEMMA EnqueueAccounting ==
  ASSUME TypeOK, AccountingInv, NEW s \in {"preview", "video"}, EnqueueStream(s)
  PROVE  AccountingInv'
<1>. DEFINE b == <<s, frame>>
<1>1. /\ s \in Streams /\ "req" \in Threads /\ b \in held["req"] /\ frame \in Frames
      /\ Limit(s) = MaxPending
  BY DEF EnqueueStream, HandStream, TypeOK, Streams, Threads, Buffers, Limit
<1>2. /\ held'["req"] = held["req"] \ {b}
      /\ \A u \in Threads : u # "req" => held'[u] = held[u]
      /\ pc["req"] = "enqueue" /\ UNCHANGED <<pc, accepted, frame>>
  BY <1>1 DEF EnqueueStream, HandStream, TypeOK, results, input, ReturnError
<1>3. Holders'
  BY <1>2 DEF AccountingInv, Holders, Carrying, Returning
<1>4. CASE /\ Len(queue[s]) < MaxPending
           /\ queue' = [queue EXCEPT ![s] = Append(@, frame)]
           /\ UNCHANGED results
  <2>1. \A g \in Queued(s) : g < frame
    <3>1. ASSUME NEW g \in Queued(s) PROVE <<s, g>> \in QueuedBuffers
      BY <1>1 DEF QueuedBuffers
    <3>2. ASSUME NEW g \in Queued(s) PROVE g <= frame /\ g # frame /\ g \in Frames
      <4>1. <<s, g>> \in accepted /\ <<s, g>> \notin held["req"]
        BY <1>1, <3>1 DEF AccountingInv, Accounts, Accounted
      <4>. QED
        BY <1>1, <4>1 DEF AccountingInv, Holders, TypeOK, Buffers
    <3>. QED
      BY <1>1, <3>2, BoundsAssumption DEF Frames
  <2>2. QueuedBuffers' = QueuedBuffers \cup {b} /\ QueuesOrdered'
    BY <1>1, <1>4, <2>1, Put DEF AccountingInv
  <2>3. Accounted(QueuedBuffers \cup {b}, held', accepted, returned)
    <3>. HIDE DEF b
    <3>. QED
      BY <1>1, <1>2, HeldQueued DEF AccountingInv, Accounts
  <2>4. Accounts'
    BY <1>2, <1>4, <2>2, <2>3 DEF Accounts, results
  <2>. QED
    BY <1>3, <2>2, <2>4 DEF AccountingInv
<1>5. CASE ReturnError({b}) /\ UNCHANGED queue
  <2>1. QueuedBuffers' = QueuedBuffers /\ QueuesOrdered'
    BY <1>5, Untouched DEF AccountingInv
  <2>2. Accounted(QueuedBuffers, held', accepted, returned \cup {b})
    <3>. HIDE DEF b
    <3>. QED
      BY <1>1, <1>2, HeldReturned DEF AccountingInv, Accounts
  <2>3. Accounts'
    BY <1>2, <1>5, <2>1, <2>2 DEF Accounts, ReturnError
  <2>. QED
    BY <1>3, <2>1, <2>3 DEF AccountingInv
<1>. QED
  BY <1>4, <1>5 DEF EnqueueStream, AppendStream

(* A step that leaves the buffers where they are, or returns the head of a *)
(* queue in error, and moves no thread away with a buffer in its hands.    *)
LEMMA StepAccounting ==
  ASSUME TypeOK, AccountingInv, NEW s \in Streams, UNCHANGED <<held, accepted, frame>>,
         \/ TakeHead(s) /\ ReturnError({<<s, Head(queue[s])>>})
         \/ UNCHANGED <<queue, returned>>,
         \A t \in Threads : \/ pc'[t] = pc[t]
                            \/ pc[t] \notin Carrying \/ held[t] = {}
                            \/ pc'[t] \in {"shutter", "enqueue"}
  PROVE  AccountingInv'
<1>1. QueuesOrdered' /\ Accounts'
  BY HeadReturned
<1>2. Holders'
  BY HoldersStay DEF AccountingInv
<1>. QED
  BY <1>1, <1>2 DEF AccountingInv

(* A thread with empty hands takes the head of a queue to return it.       *)
LEMMA TakenAccounting ==
  ASSUME TypeOK, AccountingInv, NEW s \in Streams, NEW t \in Threads, NEW to \in Returning,
         pc[t] \notin Carrying, TakeHead(s), Goto(t, to),
         held' = [held EXCEPT ![t] = {<<s, Head(queue[s])>>}],
         UNCHANGED <<accepted, returned, frame>>
  PROVE  AccountingInv'
<1>. DEFINE b == <<s, Head(queue[s])>>
<1>1. b \in QueuedBuffers /\ QueuedBuffers' = QueuedBuffers \ {b} /\ QueuesOrdered'
  BY Taken DEF AccountingInv
<1>2. /\ t \in Threads /\ held[t] = {} /\ held'[t] = {b} /\ pc'[t] = to
      /\ \A u \in Threads : u # t => held'[u] = held[u] /\ pc'[u] = pc[u]
  BY DEF AccountingInv, Holders, TypeOK, PcOK, Goto
<1>3. Accounted(QueuedBuffers, held, accepted, returned)
  BY DEF AccountingInv, Accounts
<1>4. Holders'
  BY <1>2 DEF AccountingInv, Holders, Carrying, Returning
<1>5. Accounted(QueuedBuffers \ {b}, held', accepted, returned)
  <2>1. /\ b \in QueuedBuffers /\ t \in Threads /\ held[t] = {} /\ held'[t] = {b}
        /\ \A u \in Threads : u # t => held'[u] = held[u]
    BY <1>1, <1>2
  <2>. HIDE DEF b
  <2>. QED
    BY <1>3, <2>1, QueuedHeld, ZenonT(60)
<1>6. Accounts'
  BY <1>1, <1>5 DEF Accounts
<1>. QED
  BY <1>1, <1>4, <1>6 DEF AccountingInv

(* A thread that fails the head of a queue, outside the drains.            *)
LEMMA FailHeadAccounting ==
  ASSUME TypeOK, AccountingInv, NEW t \in Threads, NEW s \in Streams, NEW at,
         NEW back \in Returning, NEW next, FailHead(t, s, at, back, next), at \notin Carrying
  PROVE  AccountingInv'
<1>. USE DEF input, results
<1>1. UNCHANGED <<accepted, returned, frame>> /\ pc[t] \notin Carrying
  BY DEF FailHead
<1>2. CASE TakeHead(s) /\ held' = [held EXCEPT ![t] = {<<s, Head(queue[s])>>}] /\ Goto(t, back)
  BY <1>1, <1>2, TakenAccounting
<1>3. CASE Goto(t, next) /\ UNCHANGED <<queue, held>>
  <2>1. \A u \in Threads : u # t => pc'[u] = pc[u]
    BY <1>3 DEF Goto, TypeOK, PcOK
  <2>. QED
    BY <1>1, <1>3, <2>1, StepAccounting
<1>. QED
  BY <1>2, <1>3 DEF FailHead

(* It returns what it holds.                                               *)
LEMMA GiveBackAccounting ==
  ASSUME TypeOK, AccountingInv, NEW t \in Threads, NEW at, NEW next, GiveBack(t, at, next)
  PROVE  AccountingInv'
<1>. USE DEF input
<1>1. /\ returned' = returned \cup held[t] /\ UNCHANGED <<accepted, queue, frame>>
      /\ held'[t] = {} /\ \A u \in Threads : u # t => held'[u] = held[u] /\ pc'[u] = pc[u]
  BY DEF GiveBack, ReturnError, Goto, TypeOK, PcOK
<1>2. QueuedBuffers' = QueuedBuffers /\ QueuesOrdered'
  BY <1>1, Untouched DEF AccountingInv
<1>3. Accounted(QueuedBuffers, held', accepted, returned \cup held[t])
  <2>1. Accounted(QueuedBuffers, held, accepted, returned)
    BY DEF AccountingInv, Accounts
  <2>. QED
    BY <1>1, <2>1, AllReturned, ZenonT(60)
<1>4. Accounts'
  BY <1>1, <1>2, <1>3 DEF Accounts
<1>5. Holders'
  BY <1>1 DEF AccountingInv, Holders
<1>. QED
  BY <1>2, <1>4, <1>5 DEF AccountingInv

LEMMA RequestAccounting == TypeOK /\ AccountingInv /\ ProcessRequest => AccountingInv'
<1> SUFFICES ASSUME TypeOK, AccountingInv, ProcessRequest PROVE AccountingInv'
  OBVIOUS
<1>. USE DEF input, results
<1>1. "jpeg" \in Streams
  BY DEF Streams
<1>2. CASE SendShutter
  <2>1. /\ UNCHANGED <<held, accepted, frame, queue, returned>>
        /\ pc'["req"] = "enqueue" /\ \A t \in Threads : t # "req" => pc'[t] = pc[t]
    BY <1>2 DEF SendShutter, Goto, TypeOK, PcOK, Threads
  <2>. QED
    BY <1>1, <2>1, StepAccounting
<1>3. CASE EndRequest
  <2>1. /\ UNCHANGED <<held, accepted, frame, queue, returned>> /\ held["req"] = {}
        /\ \A t \in Threads : t # "req" => pc'[t] = pc[t]
    BY <1>3 DEF EndRequest, Goto, TypeOK, PcOK, Threads
  <2>. QED
    BY <1>1, <2>1, StepAccounting
<1>. QED
  BY <1>2, <1>3, RejectAccounting, ReserveAccounting, EnqueueAccounting DEF ProcessRequest

LEMMA CaptureAccounting ==
  \A t \in Capturers : TypeOK /\ AccountingInv /\ StartNextJpeg(t) => AccountingInv'
<1> SUFFICES ASSUME NEW t \in Capturers, TypeOK, AccountingInv, StartNextJpeg(t)
             PROVE  AccountingInv'
  OBVIOUS
<1>. USE DEF input, results
<1>1. "jpeg" \in Streams
  BY DEF Streams
<1>2. t \in Threads /\ {"start", "begin", "take", "fail"} \cap Carrying = {}
      /\ "giveBack" \in Returning
  BY DEF Capturers, Threads, Carrying, Returning
<1>3. CASE StartNext(t) \/ BeginJpeg(t) \/ TakePicture(t)
  <2>1. UNCHANGED <<held, accepted, frame, queue, returned>> /\ pc[t] \notin Carrying
        /\ \E to : Goto(t, to)
    BY <1>2, <1>3 DEF StartNext, BeginJpeg, TakePicture
  <2>2. \A u \in Threads : u # t => pc'[u] = pc[u]
    BY <2>1 DEF Goto, TypeOK, PcOK
  <2>. QED
    BY <1>1, <2>1, <2>2, StepAccounting
<1>4. CASE GiveUpJpeg(t)
  BY <1>1, <1>2, <1>4, FailHeadAccounting DEF GiveUpJpeg
<1>5. CASE ReturnFailed(t)
  BY <1>2, <1>5, GiveBackAccounting DEF ReturnFailed
<1>. QED
  BY <1>3, <1>4, <1>5 DEF StartNextJpeg

(* The drains of the worker and of flush.                                  *)
LEMMA DrainAccounting ==
  ASSUME TypeOK, AccountingInv, NEW t \in {"worker", "ctl"}, NEW s \in Streams,
         NEW at, at \notin Carrying, NEW next, Drain(t, s, at, next)
  PROVE  AccountingInv'
<1>. USE DEF input, results
<1>1. UNCHANGED <<held, accepted, frame>> /\ pc[t] \notin Carrying
  BY DEF Drain, ReturnError
<1>2. \/ TakeHead(s) /\ ReturnError({<<s, Head(queue[s])>>})
      \/ UNCHANGED <<queue, returned>>
  BY DEF Drain
<1>3. \A u \in Threads : u # t => pc'[u] = pc[u]
  BY DEF Drain, Goto, TypeOK, PcOK
<1>. QED
  BY <1>1, <1>2, <1>3, StepAccounting

LEMMA WorkerAccounting ==
  TypeOK /\ AccountingInv /\ (Worker \/ SpuriousWakeup) => AccountingInv'
<1> SUFFICES ASSUME TypeOK, AccountingInv, Worker \/ SpuriousWakeup PROVE AccountingInv'
  OBVIOUS
<1>. USE DEF input, results
<1>1. "preview" \in Streams /\ "video" \in Streams /\ "jpeg" \in Streams
  BY DEF Streams
<1>2. CASE WorkerWake \/ StartPreview \/ PreviewStarted \/ StartRecording
  <2>1. UNCHANGED <<held, accepted, frame, queue, returned>> /\ pc["worker"] \notin Carrying
    BY <1>2 DEF WorkerWake, StartPreview, PreviewStarted, StartRecording, Carrying, Returning
  <2>2. \E to : Goto("worker", to)
    BY <1>2 DEF WorkerWake, StartPreview, PreviewStarted, StartRecording
  <2>3. \A u \in Threads : u # "worker" => pc'[u] = pc[u]
    BY <2>2 DEF Goto, TypeOK, PcOK, Threads
  <2>. QED
    BY <1>1, <2>1, <2>3, StepAccounting
<1>3. CASE WorkerSleep \/ SpuriousWakeup
  <2>1. UNCHANGED <<held, accepted, frame, queue, returned, pc>>
    BY <1>3 DEF WorkerSleep, SpuriousWakeup
  <2>. QED
    BY <1>1, <2>1, StepAccounting
<1>4. {"failPreview", "failVideo", "failJpeg", "failRecording"} \cap Carrying = {}
  BY DEF Carrying, Returning
<1>. QED
  BY <1>1, <1>2, <1>3, <1>4, DrainAccounting DEF Worker

LEMMA ControlAccounting ==
  TypeOK /\ WorkerInv /\ AccountingInv
    /\ (Flush \/ ConfigureStreams \/ Close \/ FlushSteps) => AccountingInv'
<1> SUFFICES ASSUME TypeOK, WorkerInv, AccountingInv,
                    Flush \/ ConfigureStreams \/ Close \/ FlushSteps
             PROVE  AccountingInv'
  OBVIOUS
<1>. USE DEF input, results
<1>1. "preview" \in Streams /\ "video" \in Streams /\ "jpeg" \in Streams
  BY DEF Streams
<1>2. CASE FlushDrain
  <2>1. {"drainPreview", "drainVideo", "drainJpeg"} \cap Carrying = {}
    BY DEF Carrying, Returning
  <2>. QED
    BY <1>1, <1>2, <2>1, DrainAccounting DEF FlushDrain
<1>3. CASE \/ Flush \/ ConfigureStreams \/ Close
           \/ FlushJoin \/ CancelPicture \/ StopRecording \/ StopPreview
           \/ FlushDone \/ ConfigureApply \/ DeleteDevice
  <2>1. UNCHANGED <<held, accepted, frame, queue, returned>>
    BY <1>3 DEF Flush, ConfigureStreams, Close, FlushCall, FlushJoin, CancelPicture,
                StopRecording, StopPreview, FlushDone, ConfigureApply, DeleteDevice
  <2>2. \A u \in Threads : pc'[u] = pc[u] \/ pc[u] \notin Carrying
    <3>1. \A u \in Threads \ {"ctl", "worker"} : pc'[u] = pc[u]
      BY <1>3 DEF Flush, ConfigureStreams, Close, FlushCall, FlushJoin, CancelPicture,
                  StopRecording, StopPreview, FlushDone, ConfigureApply, DeleteDevice,
                  Goto, TypeOK, PcOK, Threads
    <3>2. pc["ctl"] \notin Carrying
      BY DEF TypeOK, PcOK, Carrying, Returning
    <3>3. pc'["worker"] = pc["worker"] \/ pc["worker"] \in {"exited", "none"}
      <4>1. CASE FlushJoin
        BY <4>1 DEF FlushJoin, WorkerInv
      <4>2. CASE ConfigureApply
        BY <4>2 DEF ConfigureApply, WorkerInv, Stopped
      <4>3. CASE \/ Flush \/ ConfigureStreams \/ Close \/ CancelPicture \/ StopRecording
                 \/ StopPreview \/ FlushDone \/ DeleteDevice
        BY <4>3 DEF Flush, ConfigureStreams, Close, FlushCall, CancelPicture, StopRecording,
                    StopPreview, FlushDone, DeleteDevice, Goto, TypeOK, PcOK, Threads
      <4>. QED
        BY <1>3, <4>1, <4>2, <4>3
    <3>. QED
      BY <3>1, <3>2, <3>3 DEF Carrying, Returning
  <2>. QED
    BY <1>1, <2>1, <2>2, StepAccounting
<1>. QED
  BY <1>2, <1>3 DEF FlushSteps

-----------------------------------------------------------------------------
(* The callbacks that carry a buffer.                                      *)

(* The copying thread returns what it holds, which is one buffer.          *)
LEMMA CopyAccounting ==
  ASSUME TypeOK, AccountingInv, NEW t \in Threads, NEW next \in {"idle", "start"},
         CopyImage(t, next)
  PROVE  AccountingInv'
<1>. USE DEF input
<1>1. PICK b \in held[t] : /\ ReturnError({b}) \/ ReturnImage(b[1], b[2])
                           /\ held' = [held EXCEPT ![t] = {}]
                           /\ Goto(t, next)
  BY DEF CopyImage
<1>2. t \in Threads /\ b = <<b[1], b[2]>>
  BY <1>1 DEF TypeOK, Threads, Buffers
<1>3. returned' = returned \cup {b} /\ UNCHANGED <<accepted, queue, frame>>
  BY <1>1, <1>2 DEF ReturnError, ReturnImage, CopyImage
<1>4. /\ held[t] = {b} /\ held'[t] = {} /\ held'[t] = held[t] \ {b}
      /\ \A u \in Threads : u # t => held'[u] = held[u] /\ pc'[u] = pc[u]
  BY <1>1, <1>2 DEF CopyImage, AccountingInv, Holders, Returning, TypeOK, PcOK, Goto
<1>5. QueuedBuffers' = QueuedBuffers /\ QueuesOrdered'
  BY <1>3, Untouched DEF AccountingInv
<1>6. Accounted(QueuedBuffers, held', accepted, returned \cup {b})
  <2>1. Accounted(QueuedBuffers, held, accepted, returned)
    BY DEF AccountingInv, Accounts
  <2>. QED
    BY <1>1, <1>2, <1>4, <2>1, HeldReturned, ZenonT(60)
<1>7. Accounts'
  BY <1>3, <1>5, <1>6 DEF Accounts
<1>8. Holders'
  BY <1>3, <1>4 DEF AccountingInv, Holders
<1>. QED
  BY <1>5, <1>7, <1>8 DEF AccountingInv

LEMMA CallbackAccounting == TypeOK /\ AccountingInv /\ Callbacks => AccountingInv'
<1> SUFFICES ASSUME TypeOK, AccountingInv, Callbacks PROVE AccountingInv'
  OBVIOUS
<1>. USE DEF input, results
<1>1. /\ "preview" \in Streams /\ "video" \in Streams /\ "jpeg" \in Streams
      /\ {"pcb", "vcb", "jcb", "ncb"} \subseteq Threads
      /\ {"idle", "errorPreview", "errorVideo"} \cap Carrying = {}
      /\ {"copy", "backJpeg", "backPreview", "backVideo"} \subseteq Returning
  BY DEF Streams, Threads, Carrying, Returning
<1>2. CASE PreviewFrame \/ VideoFrame
  BY <1>1, <1>2, TakenAccounting DEF PreviewFrame, VideoFrame, StreamFrame
<1>3. CASE CopyImage("pcb", "idle") \/ CopyImage("vcb", "idle") \/ CopyImage("jcb", "start")
  BY <1>1, <1>3, CopyAccounting
<1>4. ASSUME NEW t \in {"jcb", "ncb"}, pc[t] = "idle", UNCHANGED <<accepted, returned, frame>>,
             NEW to, Goto(t, to), NEW back \in Returning,
             \/ /\ TakeHead("jpeg") /\ to = back
                /\ held' = [held EXCEPT ![t] = {<<"jpeg", Head(queue["jpeg"])>>}]
             \/ UNCHANGED <<queue, held>>
      PROVE  AccountingInv'
  <2>1. t \in Threads /\ pc[t] \notin Carrying /\ \A u \in Threads : u # t => pc'[u] = pc[u]
    BY <1>1, <1>4 DEF Goto, TypeOK, PcOK
  <2>2. CASE /\ TakeHead("jpeg") /\ to = back
             /\ held' = [held EXCEPT ![t] = {<<"jpeg", Head(queue["jpeg"])>>}]
    BY <1>1, <1>4, <2>1, <2>2, TakenAccounting
  <2>3. CASE UNCHANGED <<queue, held>>
    BY <1>1, <1>4, <2>1, <2>3, StepAccounting
  <2>. QED
    BY <1>4, <2>2, <2>3
<1>5. CASE JpegImage
  <2>1. pc["jcb"] = "idle" /\ UNCHANGED <<accepted, returned, frame>>
    BY <1>5 DEF JpegImage
  <2>. QED
    BY <1>1, <1>4, <1>5, <2>1 DEF JpegImage
<1>6. CASE EngineError
  <2>1. pc["ncb"] = "idle" /\ UNCHANGED <<accepted, returned, frame>>
    BY <1>6 DEF EngineError
  <2>. QED
    BY <1>1, <1>4, <1>6, <2>1 DEF EngineError
<1>7. CASE NotifySteps
  BY <1>1, <1>7, FailHeadAccounting, GiveBackAccounting
     DEF NotifySteps, ErrorPreview, ErrorVideo, ReturnErrored
<1>. QED
  BY <1>2, <1>3, <1>5, <1>6, <1>7 DEF Callbacks

-----------------------------------------------------------------------------
(* The theorems.                                                           *)

LEMMA NextAccounting == TypeOK /\ WorkerInv /\ AccountingInv /\ [Next]_vars => AccountingInv'
<1> SUFFICES ASSUME TypeOK, WorkerInv, AccountingInv, [Next]_vars PROVE AccountingInv'
  OBVIOUS
<1>1. CASE UNCHANGED vars
  <2>1. UNCHANGED <<held, accepted, frame, queue, returned, pc>> /\ "jpeg" \in Streams
    BY <1>1 DEF vars, input, results, Streams
  <2>. QED
    BY <2>1, StepAccounting
<1>. QED
  BY <1>1, RequestAccounting, CaptureAccounting, WorkerAccounting, CallbackAccounting,
     ControlAccounting DEF Next, Terminated

LEMMA AlwaysAccounting == Spec => []AccountingInv
BY InitAccounting, NextAccounting, TypeCorrect, AlwaysWorker, PTL DEF Spec

(* No buffer is lost and none returned twice, for any number of requests,  *)
(* any interleaving of the seven threads and any bound of the queues.      *)
THEOREM BuffersAccounted == Spec => []BufferAccounting
<1>1. AccountingInv => BufferAccounting
  <2> SUFFICES ASSUME Accounted(QueuedBuffers, held, accepted, returned)
               PROVE  BufferAccounting
    BY DEF AccountingInv, Accounts
  <2>1. \A b : b \in HeldBuffers <=> \E t \in Threads : b \in held[t]
    BY DEF HeldBuffers
  <2>2. QueuedBuffers \cap HeldBuffers = {}
    BY <2>1 DEF Accounted
  <2>3. accepted \ returned = QueuedBuffers \cup HeldBuffers
    BY <2>1 DEF Accounted
  <2>. QED
    BY <2>2, <2>3 DEF Accounted, BufferAccounting
<1>. QED
  BY <1>1, AlwaysAccounting, PTL

(* The queues stay in submission order and within their arrays.            *)
THEOREM QueuesStayOrdered == Spec => []QueuesOrdered
<1>1. AccountingInv => QueuesOrdered
  BY DEF AccountingInv
<1>. QED
  BY <1>1, AlwaysAccounting, PTL
=============================================================================
