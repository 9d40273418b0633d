------------------------ MODULE Camera3Results_proofs ------------------------
(***************************************************************************)
(* Proofs about what the pipeline of Camera3Pipeline hands back: shutters  *)
(* come before buffers, images in the order of their frames, flush returns *)
(* what was queued, no still picture is stranded or given to the wrong     *)
(* request, and the whole implements BufferContract.                       *)
(***************************************************************************)
EXTENDS Camera3Accounting_proofs

-----------------------------------------------------------------------------
(* What a step of the pipeline does to the buffers: its actions have eight *)
(* effects.                                                                *)

Carrier(s) == IF s = "preview" THEN "pcb" ELSE IF s = "video" THEN "vcb" ELSE "jcb"
Carriers   == {"pcb", "vcb", "jcb"}

(* The head of a queue comes back in error, within a drain.                *)
HeadBack(s) ==
  /\ TakeHead(s) /\ ReturnError({<<s, Head(queue[s])>>})
  /\ UNCHANGED <<held, frame, closed>>

(* A thread takes the head of a queue, to copy an image into it (the       *)
(* callbacks of its stream) or to return it in error.                      *)
TakeUp(t, s) ==
  /\ TakeHead(s) /\ pc[t] \notin Carrying
  /\ t \in Carriers => t = Carrier(s)
  /\ t = "req" => s = "jpeg"
  /\ held' = [held EXCEPT ![t] = {<<s, Head(queue[s])>>}]
  /\ UNCHANGED <<results, frame, closed>>

(* A callback hands its buffer back, or a thread what it failed.           *)
HandBack(t) == \/ t \in Carriers /\ \E next : CopyImage(t, next)
               \/ \E at \in Returning : \E next : GiveBack(t, at, next)

Steady == /\ UNCHANGED <<queue, held, frame, accepted, returned, rejected, lastImage>>
          /\ shutter \subseteq shutter'

Effect == \/ \E outs \in Outputs : RejectRequest(outs) \/ ReserveJpeg(outs)
          \/ \E s \in {"preview", "video"} : EnqueueStream(s)
          \/ \E s \in Streams : HeadBack(s) \/ \E t \in Threads : TakeUp(t, s)
          \/ \E t \in Threads : HandBack(t)
          \/ Steady

LEMMA DrainEffect ==
  ASSUME NEW t, NEW s \in Streams, NEW at, NEW next, Drain(t, s, at, next)
  PROVE  Effect
BY DEF Drain, Effect, HeadBack, Steady, input, shape, results

LEMMA FailHeadEffect ==
  ASSUME NEW t \in Threads, NEW s \in Streams, NEW at, NEW back, NEW next,
         FailHead(t, s, at, back, next), at \notin Carrying,
         t \in Carriers => t = Carrier(s), t = "req" => s = "jpeg"
  PROVE  Effect
<1>1. CASE TakeHead(s) /\ held' = [held EXCEPT ![t] = {<<s, Head(queue[s])>>}]
  <2>1. TakeUp(t, s)
    BY <1>1 DEF FailHead, TakeUp, input, shape
  <2>. QED
    BY <2>1 DEF Effect
<1>2. CASE UNCHANGED <<queue, held>>
  BY <1>2 DEF FailHead, Effect, Steady, input, results
<1>. QED
  BY <1>1, <1>2 DEF FailHead

LEMMA CaptureEffect ==
  ASSUME NEW t \in Capturers, StartNextJpeg(t)
  PROVE  Effect
<1>. USE DEF input, shape, results
<1>1. CASE GiveUpJpeg(t)
  <2>1. /\ t \in Threads /\ "jpeg" \in Streams /\ "fail" \notin Carrying
        /\ t \in Carriers => t = Carrier("jpeg")
    BY DEF Capturers, Threads, Streams, Carrying, Returning, Carriers, Carrier
  <2>. QED
    BY <1>1, <2>1, FailHeadEffect DEF GiveUpJpeg
<1>2. CASE ReturnFailed(t)
  BY <1>2 DEF ReturnFailed, Effect, HandBack, Returning, Capturers, Threads
<1>3. CASE StartNext(t) \/ BeginJpeg(t) \/ TakePicture(t)
  BY <1>3 DEF StartNext, BeginJpeg, TakePicture, Effect, Steady
<1>. QED
  BY <1>1, <1>2, <1>3 DEF StartNextJpeg

LEMMA CallbackEffect == Callbacks => Effect
<1> SUFFICES ASSUME Callbacks PROVE Effect
  OBVIOUS
<1>. USE DEF input, shape, results
<1>1. ASSUME NEW s \in Streams, NEW needs, StreamFrame(s, needs, Carrier(s)) PROVE Effect
  <2>1. TakeUp(Carrier(s), s) /\ Carrier(s) \in Threads
    BY <1>1 DEF StreamFrame, TakeUp, Carrier, Carrying, Returning, Threads, Streams
  <2>. QED
    BY <2>1 DEF Effect
<1>2. CASE PreviewFrame \/ VideoFrame
  BY <1>1, <1>2 DEF PreviewFrame, VideoFrame, Carrier, Streams
<1>3. CASE CopyImage("pcb", "idle") \/ CopyImage("vcb", "idle") \/ CopyImage("jcb", "start")
  BY <1>3 DEF Effect, HandBack, Carriers, Threads
<1>4. CASE JpegImage
  <2>1. CASE TakeHead("jpeg") /\ held' = [held EXCEPT !["jcb"] = {<<"jpeg", Head(queue["jpeg"])>>}]
    <3>1. TakeUp("jcb", "jpeg") /\ "jcb" \in Threads /\ "jpeg" \in Streams
      BY <1>4, <2>1 DEF JpegImage, TakeUp, Carrier, Carrying, Returning, Threads, Streams
    <3>. QED
      BY <3>1 DEF Effect
  <2>2. CASE UNCHANGED <<queue, held>>
    BY <1>4, <2>2 DEF JpegImage, Effect, Steady
  <2>. QED
    BY <1>4, <2>1, <2>2 DEF JpegImage
<1>5. CASE EngineError
  <2>1. CASE TakeHead("jpeg") /\ held' = [held EXCEPT !["ncb"] = {<<"jpeg", Head(queue["jpeg"])>>}]
    <3>1. TakeUp("ncb", "jpeg") /\ "ncb" \in Threads /\ "jpeg" \in Streams
      BY <1>5, <2>1 DEF EngineError, TakeUp, Carriers, Carrying, Returning, Threads, Streams
    <3>. QED
      BY <3>1 DEF Effect
  <2>2. CASE UNCHANGED <<queue, held>>
    BY <1>5, <2>2 DEF EngineError, Effect, Steady
  <2>. QED
    BY <1>5, <2>1, <2>2 DEF EngineError
<1>6. CASE ErrorPreview \/ ErrorVideo
  <2>1. /\ "ncb" \in Threads \ Carriers /\ {"preview", "video"} \subseteq Streams
        /\ {"errorPreview", "errorVideo"} \cap Carrying = {}
    BY DEF Threads, Carriers, Streams, Carrying, Returning
  <2>. QED
    BY <1>6, <2>1, FailHeadEffect DEF ErrorPreview, ErrorVideo
<1>7. CASE ReturnErrored
  BY <1>7 DEF ReturnErrored, Effect, HandBack, Returning, Threads
<1>. QED
  BY <1>2, <1>3, <1>4, <1>5, <1>6, <1>7 DEF Callbacks, NotifySteps

LEMMA ControlEffect == Flush \/ ConfigureStreams \/ Close \/ FlushSteps => Effect
<1> SUFFICES ASSUME Flush \/ ConfigureStreams \/ Close \/ FlushSteps PROVE Effect
  OBVIOUS
<1>. USE DEF input, shape, results
<1>1. CASE FlushDrain
  BY <1>1, DrainEffect DEF FlushDrain, Streams
<1>2. CASE \/ Flush \/ ConfigureStreams \/ Close
           \/ FlushJoin \/ CancelPicture \/ StopRecording \/ StopPreview
           \/ FlushDone \/ ConfigureApply \/ DeleteDevice
  <2>1. Steady
    BY <1>2 DEF Flush, ConfigureStreams, Close, FlushCall, FlushJoin, CancelPicture,
                StopRecording, StopPreview, FlushDone, ConfigureApply, DeleteDevice, Steady
  <2>. QED
    BY <2>1 DEF Effect
<1>. QED
  BY <1>1, <1>2 DEF FlushSteps

LEMMA NextEffect == [Next]_vars => Effect
<1> SUFFICES ASSUME [Next]_vars PROVE Effect
  OBVIOUS
<1>. USE DEF input, shape, results
<1>1. CASE ProcessRequest
  <2>1. CASE SendShutter \/ EndRequest
    BY <2>1 DEF SendShutter, EndRequest, Effect, Steady
  <2>. QED
    BY <1>1, <2>1 DEF ProcessRequest, Effect
<1>2. CASE Worker \/ SpuriousWakeup
  <2>1. CASE \/ WorkerSleep \/ WorkerWake \/ SpuriousWakeup
             \/ StartPreview \/ PreviewStarted \/ StartRecording
    BY <2>1 DEF WorkerSleep, WorkerWake, SpuriousWakeup, StartPreview, PreviewStarted,
                StartRecording, Effect, Steady
  <2>. QED
    BY <1>2, <2>1, DrainEffect DEF Worker, Streams
<1>3. CASE UNCHANGED vars
  BY <1>3 DEF vars, Effect, Steady
<1>. QED
  BY <1>1, <1>2, <1>3, CaptureEffect, CallbackEffect, ControlEffect DEF Next, Terminated

-----------------------------------------------------------------------------
(* Whose buffers each thread holds.                                        *)

(* A drain moves its own thread and no other.                              *)
LEMMA DrainMoves ==
  ASSUME TypeOK, NEW t \in Threads, NEW s, NEW at, NEW next, Drain(t, s, at, next)
  PROVE  /\ UNCHANGED <<flags, shape, carry, input, disturbed, shutter, held>>
         /\ \A u \in Threads : u # t => pc'[u] = pc[u]
BY DEF Drain, ReturnError, results, Goto, TypeOK, PcOK

(* No thread but its own moves the req thread or touches what it holds.    *)
LEMMA RequestAlone ==
  TypeOK /\ [Next]_vars
    => \/ ProcessRequest \/ StartNextJpeg("req")
       \/ pc'["req"] = pc["req"] /\ held'["req"] = held["req"] /\ UNCHANGED <<frame, request>>
<1>. DEFINE Goal == /\ pc'["req"] = pc["req"] /\ held'["req"] = held["req"]
                    /\ UNCHANGED <<frame, request>>
<1> SUFFICES ASSUME TypeOK, [Next]_vars, ~ProcessRequest, ~StartNextJpeg("req") PROVE Goal
  OBVIOUS
<1>. USE DEF input
<1>0. ASSUME NEW t \in Threads \ {"req"}, NEW to, Goto(t, to), UNCHANGED input,
             UNCHANGED held \/ \E h : held' = [held EXCEPT ![t] = h]
      PROVE  Goal
  <2>1. pc'["req"] = pc["req"]
    BY <1>0 DEF Goto, TypeOK, PcOK, Threads
  <2>2. held'["req"] = held["req"]
    BY <1>0 DEF TypeOK, Threads
  <2>. QED
    BY <1>0, <2>1, <2>2
<1>1. ASSUME NEW t \in {"worker", "ctl"}, NEW s, NEW at, NEW next, Drain(t, s, at, next)
      PROVE  Goal
  BY <1>1, DrainMoves DEF Threads
<1>2. ASSUME NEW t \in Threads \ {"req"}, NEW s, NEW at, NEW back, NEW next,
             FailHead(t, s, at, back, next)
      PROVE  Goal
  BY <1>0, <1>2 DEF FailHead
<1>3. ASSUME NEW t \in Threads \ {"req"}, NEW at, NEW next, GiveBack(t, at, next)
      PROVE  Goal
  BY <1>0, <1>3 DEF GiveBack
<1>4. ASSUME NEW t \in Capturers \ {"req"}, StartNextJpeg(t) PROVE Goal
  <2>1. t \in Threads \ {"req"}
    BY DEF Capturers, Threads
  <2>2. CASE StartNext(t) \/ BeginJpeg(t) \/ TakePicture(t)
    <3>1. \E to : Goto(t, to)
      BY <2>2 DEF StartNext, BeginJpeg, TakePicture
    <3>2. UNCHANGED <<input, held>>
      BY <2>2 DEF StartNext, BeginJpeg, TakePicture
    <3>. QED
      BY <1>0, <2>1, <3>1, <3>2
  <2>. QED
    BY <1>2, <1>3, <1>4, <2>1, <2>2 DEF StartNextJpeg, GiveUpJpeg, ReturnFailed
<1>5. CASE Worker \/ SpuriousWakeup
  <2>1. CASE WorkerSleep \/ SpuriousWakeup
    BY <2>1 DEF WorkerSleep, SpuriousWakeup
  <2>2. CASE WorkerWake \/ StartPreview \/ PreviewStarted \/ StartRecording
    <3>1. \E to : Goto("worker", to)
      BY <2>2 DEF WorkerWake, StartPreview, PreviewStarted, StartRecording
    <3>2. UNCHANGED <<input, held>>
      BY <2>2 DEF WorkerWake, StartPreview, PreviewStarted, StartRecording
    <3>. QED
      BY <1>0, <3>1, <3>2 DEF Threads
  <2>. QED
    BY <1>1, <1>5, <2>1, <2>2 DEF Worker
<1>6. CASE Callbacks
  <2>1. ASSUME NEW s, NEW needs, NEW t \in {"pcb", "vcb"}, StreamFrame(s, needs, t) PROVE Goal
    BY <1>0, <2>1 DEF StreamFrame, Threads
  <2>2. ASSUME NEW t \in Carriers, NEW next, CopyImage(t, next) PROVE Goal
    BY <1>0, <2>2 DEF CopyImage, Carriers, Threads
  <2>3. CASE JpegImage \/ EngineError
    <3>1. \E t \in {"jcb", "ncb"} : /\ \E to : Goto(t, to)
                                    /\ UNCHANGED held \/ \E h : held' = [held EXCEPT ![t] = h]
      BY <2>3 DEF JpegImage, EngineError
    <3>2. UNCHANGED input
      BY <2>3 DEF JpegImage, EngineError
    <3>. QED
      BY <1>0, <3>1, <3>2 DEF Threads
  <2>4. CASE NotifySteps
    BY <1>2, <1>3, <2>4 DEF NotifySteps, ErrorPreview, ErrorVideo, ReturnErrored, Threads
  <2>. QED
    BY <1>6, <2>1, <2>2, <2>3, <2>4 DEF Callbacks, PreviewFrame, VideoFrame, Carriers
<1>7. CASE Flush \/ ConfigureStreams \/ Close \/ FlushSteps
  <2>1. CASE FlushDrain
    BY <1>1, <2>1 DEF FlushDrain
  <2>2. CASE FlushJoin \/ ConfigureApply
    BY <2>2 DEF FlushJoin, ConfigureApply, Goto, TypeOK, PcOK, Threads
  <2>3. CASE \/ Flush \/ ConfigureStreams \/ Close
             \/ CancelPicture \/ StopRecording \/ StopPreview \/ FlushDone \/ DeleteDevice
    BY <1>0, <2>3 DEF Flush, ConfigureStreams, Close, FlushCall, CancelPicture,
                      StopRecording, StopPreview, FlushDone, DeleteDevice, Threads
  <2>. QED
    BY <1>7, <2>1, <2>2, <2>3 DEF FlushSteps
<1>8. CASE UNCHANGED vars
  BY <1>8 DEF vars
<1>. QED
  BY <1>4, <1>5, <1>6, <1>7, <1>8 DEF Next, Terminated

(* The req thread holds the stream buffers of its request, or a still      *)
(* picture that failed; a callback what it took from the queue of its      *)
(* stream.                                                                 *)
RequestHands ==
  /\ pc["req"] = "giveBack" => held["req"] \subseteq {"jpeg"} \X Frames
  /\ pc["req"] \in {"shutter", "enqueue"}
        => held["req"] \subseteq {"preview", "video"} \X {frame}
Hands ==
  /\ RequestHands
  /\ \A s \in Streams : held[Carrier(s)] \subseteq {s} \X Frames

LEMMA CarrierFacts ==
  /\ \A s \in Streams : Carrier(s) \in Carriers
  /\ \A s, u \in Streams : Carrier(s) = Carrier(u) => s = u
  /\ \A t \in Carriers : \E s \in Streams : t = Carrier(s)
  /\ Carriers \subseteq Threads /\ "req" \in Threads /\ "req" \notin Carriers
BY DEF Carrier, Carriers, Streams, Threads

(* The head of a queue, as a buffer.                                       *)
LEMMA HeadBuffer ==
  ASSUME TypeOK, AccountingInv, NEW s \in Streams, TakeHead(s)
  PROVE  /\ Head(queue[s]) \in Frames /\ <<s, Head(queue[s])>> \in QueuedBuffers
         /\ QueuedBuffers' = QueuedBuffers \ {<<s, Head(queue[s])>>}
         /\ \A f \in Queued(s)' : Head(queue[s]) < f
<1>1. queue[s] \in Seq(Frames) /\ queue[s] # <<>> /\ Ascending(queue[s])
  BY OrderedQueues DEF TypeOK, TakeHead, AccountingInv
<1>2. queue'[s] = Tail(queue[s])
  BY DEF TypeOK, TakeHead
<1>3. \A f \in Elements(Tail(queue[s])) : Head(queue[s]) < f
  BY <1>1, TailElements
<1>4. Queued(s)' = Elements(Tail(queue[s]))
  BY <1>2 DEF Queued, Elements
<1>5. Head(queue[s]) \in Frames
  BY <1>1
<1>. QED
  BY <1>3, <1>4, <1>5, Taken DEF AccountingInv

(* What a thread hands back is the one buffer it holds: in error, or a     *)
(* callback with its image.                                                *)
LEMMA HandedBack ==
  ASSUME TypeOK, AccountingInv, NEW t \in Threads, HandBack(t)
  PROVE  /\ pc[t] \in Returning /\ \A b, c \in held[t] : b = c
         /\ held' = [held EXCEPT ![t] = {}]
         /\ returned' = returned \cup held[t]
         /\ UNCHANGED <<queue, frame, accepted, shutter, rejected, closed>>
         /\ \/ UNCHANGED lastImage
            \/ t \in Carriers /\ \E b \in held[t] : ReturnImage(b[1], b[2])
<1>1. ASSUME pc[t] \in Returning PROVE \A b, c \in held[t] : b = c
  BY <1>1 DEF AccountingInv, Holders
<1>2. CASE t \in Carriers /\ \E next : CopyImage(t, next)
  <2>1. PICK next : CopyImage(t, next)
    BY <1>2
  <2>2. PICK b \in held[t] : /\ ReturnError({b}) \/ ReturnImage(b[1], b[2])
                             /\ held' = [held EXCEPT ![t] = {}]
    BY <2>1 DEF CopyImage
  <2>3. pc[t] \in Returning
    BY <2>1 DEF CopyImage, Returning
  <2>4. held[t] = {b}
    BY <1>1, <2>2, <2>3
  <2>5. b = <<b[1], b[2]>>
    <3>1. b \in Streams \X Frames
      BY <2>2 DEF TypeOK, Buffers
    <3>. QED
      BY <3>1
  <2>6. returned' = returned \cup held[t] /\ UNCHANGED <<accepted, shutter, rejected>>
    BY <2>2, <2>4, <2>5 DEF ReturnError, ReturnImage
  <2>7. UNCHANGED lastImage \/ \E c \in held[t] : ReturnImage(c[1], c[2])
    BY <2>2 DEF ReturnError
  <2>8. UNCHANGED <<queue, frame, closed>>
    BY <2>1 DEF CopyImage, input, shape
  <2>. QED
    BY <1>1, <1>2, <2>2, <2>3, <2>6, <2>7, <2>8
<1>3. ASSUME NEW at \in Returning, NEW next, GiveBack(t, at, next)
      PROVE  /\ pc[t] \in Returning
             /\ held' = [held EXCEPT ![t] = {}] /\ returned' = returned \cup held[t]
             /\ UNCHANGED <<queue, frame, accepted, shutter, rejected, closed, lastImage>>
  BY <1>3 DEF GiveBack, ReturnError, input, shape
<1>. QED
  BY <1>1, <1>2, <1>3 DEF HandBack

(* Appending a frame to a queue adds at most that buffer.                  *)
LEMMA Appended ==
  ASSUME TypeOK, NEW s \in Streams, NEW f \in Frames,
         queue' = [queue EXCEPT ![s] = Append(@, f)]
  PROVE  QueuedBuffers' \subseteq QueuedBuffers \cup {<<s, f>>}
<1>1. queue[s] \in Seq(Frames) /\ queue'[s] = Append(queue[s], f)
  BY DEF TypeOK
<1>2. Queued(s)' \subseteq Queued(s) \cup {f}
  BY <1>1 DEF Queued
<1>3. \A u \in Streams : u # s => Queued(u)' = Queued(u)
  BY DEF Queued, TypeOK
<1>. QED
  BY <1>2, <1>3 DEF QueuedBuffers

(* The stream buffers that the req thread has not queued yet.              *)
Fresh == {b \in held["req"] : b[1] # "jpeg"}

(* The req thread queues a buffer it holds, or returns it.                 *)
LEMMA Enqueued ==
  ASSUME TypeOK, AccountingInv, NEW s \in {"preview", "video"}, EnqueueStream(s)
  PROVE  /\ <<s, frame>> \in Fresh /\ pc["req"] = "enqueue"
         /\ held'["req"] \subseteq held["req"]
         /\ \A t \in Threads : t # "req" => held'[t] = held[t]
         /\ Fresh' \subseteq Fresh
         /\ QueuedBuffers' \subseteq QueuedBuffers \cup {<<s, frame>>}
         /\ returned \subseteq returned' /\ returned' \subseteq returned \cup {<<s, frame>>}
         /\ UNCHANGED <<frame, lastImage, accepted, shutter, rejected>>
<1>1. /\ s \in Streams /\ frame \in Frames /\ <<s, frame>> \in held["req"]
      /\ pc["req"] = "enqueue" /\ <<s, frame>> \in Fresh
  BY CarrierFacts DEF EnqueueStream, HandStream, TypeOK, Buffers, Streams, Fresh
<1>2. held'["req"] \subseteq held["req"] /\ \A t \in Threads : t # "req" => held'[t] = held[t]
  BY CarrierFacts DEF EnqueueStream, HandStream, TypeOK
<1>3. QueuedBuffers' \subseteq QueuedBuffers \cup {<<s, frame>>}
  BY <1>1, Appended, Untouched DEF EnqueueStream, AppendStream, AccountingInv
<1>4. /\ returned \subseteq returned' /\ returned' \subseteq returned \cup {<<s, frame>>}
      /\ UNCHANGED <<frame, lastImage, accepted, shutter, rejected>>
  BY DEF EnqueueStream, HandStream, ReturnError, results, input
<1>5. Fresh' \subseteq Fresh
  BY <1>2 DEF Fresh
<1>. QED
  BY <1>1, <1>2, <1>3, <1>4, <1>5

LEMMA NextRequestHands ==
  TypeOK /\ AccountingInv /\ RequestHands /\ [Next]_vars => RequestHands'
<1> SUFFICES ASSUME TypeOK, AccountingInv, RequestHands, [Next]_vars PROVE RequestHands'
  OBVIOUS
<1>. USE CarrierFacts
<1>0. ASSUME NEW to, Goto("req", to) PROVE pc'["req"] = to
  BY <1>0 DEF Goto, TypeOK, PcOK
<1>1. ASSUME NEW outs \in Outputs, RejectRequest(outs) PROVE RequestHands'
  BY <1>1 DEF RejectRequest, NewRequest, RequestHands
<1>2. ASSUME NEW outs \in Outputs, ReserveJpeg(outs) PROVE RequestHands'
  <2>1. /\ held' = [held EXCEPT !["req"] = (outs \ {"jpeg"}) \X {frame + 1}]
        /\ frame' = frame + 1 /\ outs \subseteq Streams /\ pc'["req"] = "shutter"
    BY <1>0, <1>2, InputAssumption DEF ReserveJpeg, NewRequest
  <2>2. held'["req"] = (outs \ {"jpeg"}) \X {frame'}
    BY <2>1 DEF TypeOK
  <2>3. outs \ {"jpeg"} \subseteq {"preview", "video"}
    BY <2>1 DEF Streams
  <2>. QED
    BY <2>1, <2>2, <2>3 DEF RequestHands
<1>3. CASE SendShutter
  <2>1. pc["req"] = "shutter" /\ pc'["req"] = "enqueue" /\ UNCHANGED <<held, frame>>
    BY <1>0, <1>3 DEF SendShutter, input
  <2>. QED
    BY <2>1 DEF RequestHands
<1>4. ASSUME NEW s \in {"preview", "video"}, EnqueueStream(s) PROVE RequestHands'
  <2>1. pc["req"] = "enqueue" /\ UNCHANGED <<pc, frame>> /\ held'["req"] \subseteq held["req"]
    BY <1>4, Enqueued DEF EnqueueStream, HandStream
  <2>. QED
    BY <2>1 DEF RequestHands
<1>5. CASE EndRequest
  <2>1. pc'["req"] \in {"start", "idle"}
    BY <1>0, <1>5 DEF EndRequest
  <2>. QED
    BY <2>1 DEF RequestHands
<1>6. CASE StartNextJpeg("req")
  <2>1. CASE StartNext("req") \/ BeginJpeg("req") \/ TakePicture("req") \/ ReturnFailed("req")
    <3>1. \E to \in {"begin", "take", "fail", Home("req")} : Goto("req", to)
      BY <2>1 DEF StartNext, BeginJpeg, TakePicture, ReturnFailed, GiveBack
    <3>. QED
      BY <1>0, <3>1 DEF Home, RequestHands
  <2>2. CASE GiveUpJpeg("req")
    <3>1. CASE TakeHead("jpeg") /\ held' = [held EXCEPT !["req"] = {<<"jpeg", Head(queue["jpeg"])>>}]
               /\ Goto("req", "giveBack")
      <4>1. Head(queue["jpeg"]) \in Frames
        BY <3>1, HeadBuffer DEF Streams
      <4>2. held'["req"] = {<<"jpeg", Head(queue["jpeg"])>>} /\ pc'["req"] = "giveBack"
        BY <1>0, <3>1 DEF TypeOK
      <4>. QED
        BY <4>1, <4>2 DEF RequestHands
    <3>2. CASE Goto("req", Home("req"))
      BY <1>0, <3>2 DEF Home, RequestHands
    <3>. QED
      BY <2>2, <3>1, <3>2 DEF GiveUpJpeg, FailHead
  <2>. QED
    BY <1>6, <2>1, <2>2 DEF StartNextJpeg
<1>7. CASE pc'["req"] = pc["req"] /\ held'["req"] = held["req"] /\ UNCHANGED <<frame, request>>
  BY <1>7 DEF RequestHands
<1>. QED
  BY <1>1, <1>2, <1>3, <1>4, <1>5, <1>6, <1>7, RequestAlone DEF ProcessRequest

LEMMA NextHands == TypeOK /\ AccountingInv /\ Hands /\ [Next]_vars => Hands'
<1> SUFFICES ASSUME TypeOK, AccountingInv, Hands, [Next]_vars PROVE Hands'
  OBVIOUS
<1>. USE CarrierFacts
<1>. DEFINE Goal == \A s \in Streams : held'[Carrier(s)] \subseteq {s} \X Frames
<1>1. ASSUME NEW outs \in Outputs, RejectRequest(outs) \/ ReserveJpeg(outs) PROVE Goal
  <2>1. \A t \in Carriers : held'[t] = held[t]
    BY <1>1 DEF RejectRequest, ReserveJpeg, TypeOK
  <2>. QED
    BY <2>1 DEF Hands
<1>2. ASSUME NEW s \in {"preview", "video"}, EnqueueStream(s) PROVE Goal
  <2>1. \A t \in Carriers : held'[t] = held[t]
    BY <1>2, Enqueued
  <2>. QED
    BY <2>1 DEF Hands
<1>3. ASSUME NEW s \in Streams, HeadBack(s) PROVE Goal
  BY <1>3 DEF HeadBack, Hands
<1>4. ASSUME NEW s \in Streams, NEW t \in Threads, TakeUp(t, s) PROVE Goal
  <2>1. /\ held'[t] = {<<s, Head(queue[s])>>}
        /\ \A u \in Threads : u # t => held'[u] = held[u]
        /\ t \in Carriers => t = Carrier(s)
    BY <1>4 DEF TakeUp, TypeOK
  <2>2. Head(queue[s]) \in Frames
    BY <1>4, HeadBuffer DEF TakeUp
  <2>3. held'[t] \subseteq {s} \X Frames
    BY <2>1, <2>2
  <2>. QED
    BY <2>1, <2>3 DEF Hands
<1>5. ASSUME NEW t \in Threads, HandBack(t) PROVE Goal
  <2>1. held' = [held EXCEPT ![t] = {}]
    BY <1>5, HandedBack
  <2>2. held'[t] = {} /\ \A u \in Threads : u # t => held'[u] = held[u]
    BY <2>1 DEF TypeOK
  <2>. QED
    BY <2>2 DEF Hands
<1>6. ASSUME Steady PROVE Goal
  BY <1>6 DEF Steady, Hands
<1>7. Goal
  <2>. HIDE DEF Goal
  <2>. QED
    BY <1>1, <1>2, <1>3, <1>4, <1>5, <1>6, NextEffect DEF Effect
<1>8. RequestHands'
  BY NextRequestHands DEF Hands
<1>. QED
  BY <1>7, <1>8 DEF Hands

-----------------------------------------------------------------------------
(* Shutters before buffers.                                                *)

Announced(b) == b[1] # "jpeg" => b[2] \in shutter \cup rejected

(* Every preview or video buffer that is queued or was taken out of its    *)
(* queue has been announced too, and the req thread queues only once it    *)
(* has sent the shutter.                                                   *)
ShutterInv ==
  /\ \A b \in returned : Announced(b)
  /\ \A b \in QueuedBuffers : Announced(b)
  /\ \A t \in Threads \ {"req"} : \A b \in held[t] : Announced(b)
  /\ pc["req"] = "enqueue" => frame \in shutter

LEMMA EnqueueAfterShutter ==
  ASSUME TypeOK, pc["req"] = "enqueue" => frame \in shutter, shutter \subseteq shutter',
         [Next]_vars
  PROVE  (pc["req"] = "enqueue" => frame \in shutter)'
<1>1. CASE ProcessRequest
  <2>1. CASE SendShutter
    BY <2>1 DEF SendShutter, input
  <2>2. ASSUME NEW outs \in Outputs, RejectRequest(outs) \/ ReserveJpeg(outs)
        PROVE  pc'["req"] # "enqueue"
    BY <2>2 DEF RejectRequest, ReserveJpeg, NewRequest, Goto, TypeOK, PcOK, Threads
  <2>3. ASSUME NEW s, EnqueueStream(s) PROVE pc["req"] = "enqueue" /\ UNCHANGED frame
    BY <2>3 DEF EnqueueStream, HandStream, input
  <2>4. CASE EndRequest
    BY <2>4 DEF EndRequest, Goto, TypeOK, PcOK, Threads
  <2>. QED
    BY <1>1, <2>1, <2>2, <2>3, <2>4 DEF ProcessRequest
<1>2. CASE StartNextJpeg("req")
  <2>1. \E to \in {"begin", "take", "fail", "giveBack", Home("req")} : Goto("req", to)
    BY <1>2 DEF StartNextJpeg, StartNext, BeginJpeg, TakePicture, GiveUpJpeg, FailHead,
                ReturnFailed, GiveBack
  <2>. QED
    BY <2>1 DEF Goto, Home, TypeOK, PcOK, Threads
<1>. QED
  BY <1>1, <1>2, RequestAlone

LEMMA NextShutter ==
  TypeOK /\ AccountingInv /\ Hands /\ ShutterInv /\ [Next]_vars => ShutterInv'
<1> SUFFICES ASSUME TypeOK, AccountingInv, Hands, ShutterInv, [Next]_vars PROVE ShutterInv'
  OBVIOUS
<1>. DEFINE Early == /\ \A b \in returned : Announced(b)
                     /\ \A b \in QueuedBuffers : Announced(b)
                     /\ \A t \in Threads \ {"req"} : \A b \in held[t] : Announced(b)
<1>1. ASSUME NEW outs \in Outputs, RejectRequest(outs)
      PROVE  Early' /\ shutter \subseteq shutter'
  <2>1. /\ returned' = returned \cup (outs \X {frame + 1})
        /\ rejected' = rejected \cup {frame + 1} /\ UNCHANGED <<held, shutter, queue>>
    BY <1>1 DEF RejectRequest
  <2>2. QueuedBuffers' = QueuedBuffers
    BY <2>1, Untouched DEF AccountingInv
  <2>. QED
    BY <2>1, <2>2 DEF ShutterInv, Announced
<1>2. ASSUME NEW outs \in Outputs, ReserveJpeg(outs)
      PROVE  Early' /\ shutter \subseteq shutter'
  <2>1. /\ \A t \in Threads \ {"req"} : held'[t] = held[t]
        /\ UNCHANGED <<returned, shutter, rejected>>
    BY <1>2, CarrierFacts DEF ReserveJpeg, TypeOK
  <2>2. \A s \in Streams : s # "jpeg" => queue'[s] = queue[s]
    BY <1>2 DEF ReserveJpeg, TypeOK
  <2>3. \A b \in QueuedBuffers' : b[1] = "jpeg" \/ b \in QueuedBuffers
    BY <2>2 DEF QueuedBuffers, Queued
  <2>. QED
    BY <2>1, <2>3 DEF ShutterInv, Announced
<1>3. ASSUME NEW s \in {"preview", "video"}, EnqueueStream(s)
      PROVE  Early' /\ shutter \subseteq shutter'
  <2>1. frame \in shutter /\ UNCHANGED <<shutter, rejected>>
    BY <1>3, Enqueued DEF ShutterInv
  <2>. QED
    BY <1>3, <2>1, Enqueued DEF ShutterInv, Announced
<1>4. ASSUME NEW s \in Streams, HeadBack(s) PROVE Early' /\ shutter \subseteq shutter'
  <2>1. /\ <<s, Head(queue[s])>> \in QueuedBuffers /\ QueuedBuffers' \subseteq QueuedBuffers
        /\ UNCHANGED <<held, shutter, rejected>>
        /\ returned' = returned \cup {<<s, Head(queue[s])>>}
    BY <1>4, HeadBuffer DEF HeadBack, ReturnError
  <2>. QED
    BY <2>1 DEF ShutterInv, Announced
<1>5. ASSUME NEW s \in Streams, NEW t \in Threads, TakeUp(t, s)
      PROVE  Early' /\ shutter \subseteq shutter'
  <2>1. /\ <<s, Head(queue[s])>> \in QueuedBuffers /\ QueuedBuffers' \subseteq QueuedBuffers
        /\ UNCHANGED <<returned, shutter, rejected>>
    BY <1>5, HeadBuffer DEF TakeUp, results
  <2>2. \A u \in Threads : held'[u] = held[u] \/ held'[u] = {<<s, Head(queue[s])>>}
    BY <1>5 DEF TakeUp, TypeOK
  <2>. QED
    BY <2>1, <2>2 DEF ShutterInv, Announced
<1>6. ASSUME NEW t \in Threads, HandBack(t) PROVE Early' /\ shutter \subseteq shutter'
  <2>1. /\ held' = [held EXCEPT ![t] = {}] /\ returned' = returned \cup held[t]
        /\ UNCHANGED <<queue, shutter, rejected>> /\ pc[t] \in Returning
    BY <1>6, HandedBack
  <2>2. QueuedBuffers' = QueuedBuffers
    BY <2>1, Untouched DEF AccountingInv
  <2>3. \A u \in Threads : held'[u] = held[u] \/ held'[u] = {}
    BY <2>1 DEF TypeOK
  <2>4. \A b \in held[t] : Announced(b)
    <3>1. CASE t = "req"
      <4>1. pc["req"] = "giveBack"
        BY <2>1, <3>1 DEF Returning, TypeOK, PcOK, CaptureSteps
      <4>. QED
        BY <3>1, <4>1 DEF Hands, RequestHands, Announced
    <3>2. CASE t # "req"
      BY <3>2 DEF ShutterInv
    <3>. QED
      BY <3>1, <3>2
  <2>. QED
    BY <2>1, <2>2, <2>3, <2>4 DEF ShutterInv, Announced
<1>7. ASSUME Steady PROVE Early' /\ shutter \subseteq shutter'
  <2>1. QueuedBuffers' = QueuedBuffers
    BY <1>7, Untouched DEF AccountingInv, Steady
  <2>2. UNCHANGED <<returned, held, rejected>> /\ shutter \subseteq shutter'
    BY <1>7 DEF Steady
  <2>. QED
    BY <2>1, <2>2 DEF ShutterInv, Announced
<1>8. Early' /\ shutter \subseteq shutter'
  <2>. HIDE DEF Early
  <2>. QED
    BY <1>1, <1>2, <1>3, <1>4, <1>5, <1>6, <1>7, NextEffect DEF Effect
<1>. QED
  BY <1>8, EnqueueAfterShutter DEF ShutterInv

-----------------------------------------------------------------------------
(* Images in the order of their frames.                                    *)

Waiting == QueuedBuffers \cup Fresh
Pending == Waiting \cup UNION {held[t] : t \in Carriers}

(* No image of a stream is later than a buffer that waits or that a        *)
(* callback of the stream has taken, and the latter is earlier than those  *)
(* that wait. What other threads took gets no image.                       *)
OrderInv ==
  /\ \A s \in Streams : lastImage[s] <= frame
  /\ \A b \in Pending : lastImage[b[1]] < b[2]
  /\ \A t \in Carriers : \A b \in held[t], c \in Waiting : b[1] = c[1] => b[2] < c[2]

(* Frames are numbers, and an owned buffer is queued or in a thread's      *)
(* hands.                                                                  *)
LEMMA OwnedFacts ==
  ASSUME TypeOK, AccountingInv, Hands
  PROVE  /\ \A b \in accepted : /\ b[1] \in Streams /\ b[2] \in Frames /\ b[2] \in Nat
                                /\ b = <<b[1], b[2]>> /\ b[2] <= frame
         /\ \A s \in Streams : lastImage[s] \in Nat
         /\ frame \in Nat
         /\ Waiting \subseteq accepted /\ Waiting \cap returned = {}
         /\ \A t \in Threads : held[t] \subseteq accepted /\ held[t] \cap returned = {}
         /\ Pending \subseteq accepted
         /\ \A b \in accepted \ returned :
               b \in QueuedBuffers \/ \E t \in Threads : b \in held[t]
<1>1. MaxFrame \in Nat /\ frame \in Nat /\ Frames \subseteq Nat
  <2>1. frame \in 0 .. MaxFrame
    BY DEF TypeOK
  <2>. QED
    BY <2>1, BoundsAssumption DEF Frames
<1>2. \A b \in accepted : /\ b[1] \in Streams /\ b[2] \in Frames /\ b[2] \in Nat
                          /\ b = <<b[1], b[2]>> /\ b[2] <= frame
  <2>1. accepted \subseteq Streams \X Frames
    BY DEF TypeOK, Buffers
  <2>2. \A b \in accepted : b[2] <= frame
    BY DEF AccountingInv, Holders
  <2>3. ASSUME NEW b \in accepted
        PROVE  b[1] \in Streams /\ b[2] \in Frames /\ b = <<b[1], b[2]>>
    BY <2>1, <2>3
  <2>. QED
    BY <1>1, <2>2, <2>3
<1>3. \A s \in Streams : lastImage[s] \in Nat
  BY <1>1 DEF TypeOK
<1>4. Accounted(QueuedBuffers, held, accepted, returned)
  BY DEF AccountingInv, Accounts
<1>5. Waiting \subseteq accepted /\ Waiting \cap returned = {}
  BY <1>4, CarrierFacts DEF Waiting, Fresh, Accounted
<1>6. \A t \in Threads : held[t] \subseteq accepted /\ held[t] \cap returned = {}
  BY <1>4 DEF Accounted
<1>7. Pending \subseteq accepted
  BY <1>5, <1>6, CarrierFacts DEF Pending
<1>8. \A b \in accepted \ returned : b \in QueuedBuffers \/ \E t \in Threads : b \in held[t]
  BY <1>4 DEF Accounted
<1>. QED
  BY <1>1, <1>2, <1>3, <1>5, <1>6, <1>7, <1>8

LEMMA InitOrder == Init => Hands /\ ShutterInv /\ OrderInv
<1> SUFFICES ASSUME Init PROVE Hands /\ ShutterInv /\ OrderInv
  OBVIOUS
<1>1. \A t \in Threads : held[t] = {}
  BY DEF Init
<1>2. QueuedBuffers = {}
  BY DEF Init, QueuedBuffers, Queued
<1>3. Hands
  BY <1>1, CarrierFacts DEF Hands, RequestHands
<1>4. ShutterInv
  BY <1>1, <1>2, CarrierFacts DEF Init, ShutterInv, Threads
<1>5. OrderInv
  BY <1>1, <1>2, CarrierFacts DEF Init, OrderInv, Pending, Waiting, Fresh
<1>. QED
  BY <1>3, <1>4, <1>5

LEMMA ReserveOrder ==
  ASSUME TypeOK, AccountingInv, Hands, OrderInv, NEW outs \in Outputs,
         RejectRequest(outs) \/ ReserveJpeg(outs)
  PROVE  OrderInv'
<1>. DEFINE new == outs \X {frame + 1}
<1>1. NewRequest(outs) /\ outs \subseteq Streams
  BY InputAssumption DEF RejectRequest, ReserveJpeg
<1>2. /\ frame' = frame + 1 /\ frame + 1 \in Frames /\ accepted' = accepted \cup new
      /\ \A b \in accepted : b[2] < frame + 1
  BY <1>1, NewFrame DEF AccountingInv
<1>3. UNCHANGED lastImage /\ \A t \in Carriers : held'[t] = held[t]
  BY CarrierFacts DEF RejectRequest, ReserveJpeg, TypeOK
<1>4. \A s \in Streams : lastImage[s] < frame + 1
  BY OwnedFacts DEF OrderInv
<1>5. \A s \in Streams : lastImage'[s] <= frame'
  BY <1>2, <1>3, <1>4, OwnedFacts
<1>6. Waiting' \subseteq Waiting \cup new
  <2>1. CASE RejectRequest(outs)
    <3>1. UNCHANGED <<queue, held>>
      BY <2>1 DEF RejectRequest
    <3>. QED
      BY <3>1, Untouched DEF AccountingInv, Waiting, Fresh
  <2>2. CASE ReserveJpeg(outs)
    <3>1. held'["req"] \subseteq new
      BY <2>2, CarrierFacts DEF ReserveJpeg, TypeOK
    <3>2. QueuedBuffers' \subseteq QueuedBuffers \cup new
      <4>1. CASE "jpeg" \in outs
        <5>1. /\ queue' = [queue EXCEPT !["jpeg"] = Append(@, frame + 1)]
              /\ "jpeg" \in Streams /\ <<"jpeg", frame + 1>> \in new
          BY <1>1, <2>2, <4>1 DEF ReserveJpeg
        <5>2. QueuedBuffers' \subseteq QueuedBuffers \cup {<<"jpeg", frame + 1>>}
          BY <1>2, <5>1, Appended
        <5>. QED
          BY <5>1, <5>2
      <4>2. CASE "jpeg" \notin outs
        BY <2>2, <4>2, Untouched DEF ReserveJpeg, AccountingInv
      <4>. QED
        BY <4>1, <4>2
    <3>. QED
      BY <3>1, <3>2 DEF Waiting, Fresh
  <2>. QED
    BY <2>1, <2>2
<1>7. \A b \in Pending' : lastImage'[b[1]] < b[2]
  <2>1. Pending' \subseteq Pending \cup new
    BY <1>3, <1>6 DEF Pending
  <2>2. \A b \in new : lastImage[b[1]] < b[2]
    BY <1>1, <1>4
  <2>. QED
    BY <1>3, <2>1, <2>2 DEF OrderInv
<1>8. \A t \in Carriers : \A b \in held'[t], c \in Waiting' : b[1] = c[1] => b[2] < c[2]
  <2>1. SUFFICES ASSUME NEW t \in Carriers, NEW b \in held[t], NEW c \in Waiting \cup new,
                        b[1] = c[1]
                 PROVE  b[2] < c[2]
    BY <1>3, <1>6
  <2>2. CASE c \in Waiting
    BY <2>1, <2>2 DEF OrderInv
  <2>3. CASE c \in new
    <3>1. b \in accepted /\ c[2] = frame + 1
      BY <2>3, OwnedFacts, CarrierFacts
    <3>. QED
      BY <1>2, <3>1
  <2>. QED
    BY <2>2, <2>3
<1>. QED
  BY <1>5, <1>7, <1>8 DEF OrderInv

(* A step that hands out no image, accepts nothing and lets nothing wait   *)
(* that did not.                                                           *)
LEMMA KeepOrder ==
  ASSUME OrderInv, UNCHANGED <<lastImage, frame>>,
         Waiting' \subseteq Waiting, \A t \in Carriers : held'[t] \subseteq held[t]
  PROVE  OrderInv'
<1>1. Pending' \subseteq Pending
  BY DEF Pending
<1>. QED
  BY <1>1 DEF OrderInv

LEMMA TakeUpOrder ==
  ASSUME TypeOK, AccountingInv, Hands, OrderInv, NEW s \in Streams, NEW t \in Threads,
         TakeUp(t, s)
  PROVE  OrderInv'
<1>. DEFINE b == <<s, Head(queue[s])>>
<1>1. /\ b \in QueuedBuffers /\ QueuedBuffers' = QueuedBuffers \ {b}
      /\ \A f \in Queued(s)' : Head(queue[s]) < f
  BY HeadBuffer DEF TakeUp
<1>2. /\ \A u \in Threads : u # t => held'[u] = held[u]
      /\ held'[t] = {b} /\ (t \in Carriers => t = Carrier(s)) /\ (t = "req" => s = "jpeg")
      /\ UNCHANGED <<returned, accepted, lastImage, frame>>
  BY DEF TakeUp, TypeOK, results
<1>3. Fresh' \subseteq Fresh
  BY <1>2, CarrierFacts DEF Fresh
<1>4. Waiting' \subseteq Waiting
  BY <1>1, <1>3 DEF Waiting
<1>5. ASSUME NEW c \in Waiting', c[1] = s PROVE b[2] < c[2]
  <2>1. CASE c \in QueuedBuffers'
    <3>1. c[2] \in Queued(s)'
      BY <1>5, <2>1 DEF QueuedBuffers
    <3>. QED
      BY <1>1, <3>1
  <2>2. CASE c \in Fresh
    <3>1. c \in held["req"] /\ c[1] # "jpeg"
      BY <2>2 DEF Fresh
    <3>2. pc["req"] \in Carrying
      BY <3>1, CarrierFacts DEF AccountingInv, Holders
    <3>3. pc["req"] \in {"giveBack", "shutter", "enqueue"}
      BY <3>2 DEF Carrying, Returning, TypeOK, PcOK, CaptureSteps
    <3>4. c[2] = frame /\ c = <<c[1], c[2]>>
      BY <3>1, <3>3 DEF Hands, RequestHands
    <3>5. b \in accepted /\ b[2] <= frame /\ b[2] \in Nat /\ frame \in Nat
      BY <1>1, OwnedFacts DEF Waiting
    <3>6. b \notin held["req"]
      BY <1>1, CarrierFacts DEF AccountingInv, Accounts, Accounted
    <3>7. b[2] # frame
      BY <1>5, <3>1, <3>4, <3>6
    <3>. QED
      BY <3>4, <3>5, <3>7
  <2>. QED
    BY <1>3, <2>1, <2>2 DEF Waiting
<1>6. \A u \in Carriers : \A d \in held'[u], c \in Waiting' : d[1] = c[1] => d[2] < c[2]
  <2>1. SUFFICES ASSUME NEW u \in Carriers, NEW d \in held'[u], NEW c \in Waiting',
                        d[1] = c[1]
                 PROVE  d[2] < c[2]
    OBVIOUS
  <2>2. CASE u = t
    BY <1>2, <1>5, <2>1, <2>2
  <2>3. CASE u # t
    BY <1>2, <1>4, <2>1, <2>3, CarrierFacts DEF OrderInv
  <2>. QED
    BY <2>2, <2>3
<1>7. Pending' \subseteq Pending
  <2>1. \A u \in Carriers : held'[u] \subseteq held[u] \cup {b}
    BY <1>2, CarrierFacts
  <2>. QED
    BY <1>1, <1>4, <2>1 DEF Pending, Waiting
<1>. QED
  BY <1>2, <1>6, <1>7 DEF OrderInv

LEMMA HandBackOrder ==
  ASSUME TypeOK, AccountingInv, Hands, OrderInv, NEW t \in Threads, HandBack(t)
  PROVE  OrderInv'
<1>1. /\ \A b, c \in held[t] : b = c
      /\ held' = [held EXCEPT ![t] = {}]
      /\ UNCHANGED <<queue, frame, accepted>>
  BY HandedBack
<1>2. /\ \A u \in Threads : u # t => held'[u] = held[u]
      /\ held'[t] = {}
  BY <1>1 DEF TypeOK
<1>3. Waiting' \subseteq Waiting /\ \A u \in Carriers : held'[u] \subseteq held[u]
  <2>1. QueuedBuffers' = QueuedBuffers
    BY <1>1, Untouched DEF AccountingInv
  <2>. QED
    BY <1>2, <2>1, CarrierFacts DEF Waiting, Fresh
<1>4. CASE UNCHANGED lastImage
  BY <1>1, <1>3, <1>4, KeepOrder
<1>5. ASSUME t \in Carriers, NEW b \in held[t], ReturnImage(b[1], b[2]) PROVE OrderInv'
  <2>0. held[t] = {b} /\ b[1] \in Streams /\ b \in accepted
    BY <1>1, <1>5, OwnedFacts
  <2>1. /\ lastImage'[b[1]] = b[2]
        /\ \A s \in Streams : s # b[1] => lastImage'[s] = lastImage[s]
    BY <1>5, <2>0 DEF ReturnImage, TypeOK
  <2>2. b[2] <= frame
    BY <2>0, OwnedFacts
  <2>3. ASSUME NEW c \in Pending' PROVE lastImage'[c[1]] < c[2]
    <3>1. c \in Pending
      BY <1>3 DEF Pending
    <3>2. c[1] \in Streams
      BY <3>1, OwnedFacts
    <3>3. CASE c[1] # b[1]
      BY <2>1, <3>1, <3>2, <3>3 DEF OrderInv
    <3>4. CASE c[1] = b[1]
      <4>1. \A u \in Carriers : c \in held[u] => u = t
        <5>1. SUFFICES ASSUME NEW u \in Carriers, c \in held[u] PROVE u = t
          OBVIOUS
        <5>2. PICK s \in Streams : t = Carrier(s)
          BY <1>5, CarrierFacts
        <5>3. PICK v \in Streams : u = Carrier(v)
          BY CarrierFacts
        <5>4. b[1] = s /\ c[1] = v
          BY <1>5, <5>1, <5>2, <5>3 DEF Hands
        <5>. QED
          BY <3>4, <5>2, <5>3, <5>4
      <4>2. c \in Waiting
        <5>1. \A u \in Carriers : c \notin held'[u]
          BY <1>2, <4>1, CarrierFacts
        <5>. QED
          BY <1>3, <2>3, <5>1 DEF Pending
      <4>. QED
        BY <1>5, <2>1, <3>4, <4>2 DEF OrderInv
    <3>. QED
      BY <3>3, <3>4
  <2>4. \A s \in Streams : lastImage'[s] <= frame'
    BY <1>1, <2>1, <2>2 DEF OrderInv
  <2>. QED
    BY <1>3, <2>3, <2>4 DEF OrderInv
<1>. QED
  BY <1>4, <1>5, HandedBack

LEMMA NextOrder ==
  TypeOK /\ AccountingInv /\ Hands /\ OrderInv /\ [Next]_vars => OrderInv'
<1> SUFFICES ASSUME TypeOK, AccountingInv, Hands, OrderInv, [Next]_vars PROVE OrderInv'
  OBVIOUS
<1>1. ASSUME NEW s \in {"preview", "video"}, EnqueueStream(s) PROVE OrderInv'
  <2>1. Waiting' \subseteq Waiting
    BY <1>1, Enqueued DEF Waiting
  <2>2. \A t \in Carriers : held'[t] \subseteq held[t]
    BY <1>1, Enqueued, CarrierFacts
  <2>. QED
    BY <1>1, <2>1, <2>2, Enqueued, KeepOrder
<1>2. ASSUME NEW s \in Streams, HeadBack(s) PROVE OrderInv'
  <2>1. UNCHANGED <<lastImage, frame, held>> /\ QueuedBuffers' \subseteq QueuedBuffers
    BY <1>2, HeadBuffer DEF HeadBack, ReturnError
  <2>. QED
    BY <2>1, KeepOrder DEF Waiting, Fresh
<1>3. CASE Steady
  <2>1. QueuedBuffers' = QueuedBuffers
    BY <1>3, Untouched DEF AccountingInv, Steady
  <2>. QED
    BY <1>3, <2>1, KeepOrder DEF Steady, Waiting, Fresh
<1>. QED
  BY <1>1, <1>2, <1>3, ReserveOrder, TakeUpOrder, HandBackOrder, NextEffect DEF Effect

-----------------------------------------------------------------------------
(* The engine streams exactly what the flags say, but for the preview that *)
(* the worker has started and not yet recorded, and its frame callbacks    *)
(* run only while it streams: flush, which waits for the callback of each  *)
(* stream it stops, leaves none of them with a buffer.                     *)

EngineInv ==
  /\ "recording" \in engine => recordingStarted
  /\ "preview" \in engine => previewStarted \/ pc["worker"] = "started"
  /\ pc["pcb"] = "copy" => "preview" \in engine
  /\ pc["vcb"] = "copy" => "recording" \in engine

LEMMA EngineStay ==
  ASSUME EngineInv, UNCHANGED <<engine, previewStarted, recordingStarted>>,
         pc["worker"] = "started" => pc'["worker"] = "started",
         pc'["pcb"] = "copy" => pc["pcb"] = "copy" \/ "preview" \in engine,
         pc'["vcb"] = "copy" => pc["vcb"] = "copy" \/ "recording" \in engine
  PROVE  EngineInv'
BY DEF EngineInv

(* A step of another thread.                                               *)
LEMMA EngineOther ==
  ASSUME TypeOK, EngineInv, NEW t \in Threads, NEW to, Goto(t, to),
         UNCHANGED <<engine, previewStarted, recordingStarted>>,
         t = "worker" => pc[t] # "started", t \in {"pcb", "vcb"} => to # "copy"
  PROVE  EngineInv'
<1>1. pc'[t] = to /\ \A u \in Threads : u # t => pc'[u] = pc[u]
  BY DEF Goto, TypeOK, PcOK
<1>2. {"worker", "pcb", "vcb"} \subseteq Threads
  BY DEF Threads
<1>. QED
  BY <1>1, <1>2, EngineStay

LEMMA EngineSame ==
  ASSUME EngineInv, UNCHANGED <<pc, engine, previewStarted, recordingStarted>>
  PROVE  EngineInv'
BY EngineStay

LEMMA EngineDrain ==
  ASSUME TypeOK, EngineInv, NEW t \in {"worker", "ctl"}, NEW s, NEW at, NEW next,
         Drain(t, s, at, next), at # "started"
  PROVE  EngineInv'
<1>1. UNCHANGED <<engine, previewStarted, recordingStarted>> /\ t \in Threads /\ pc[t] = at
  BY DEF Drain, flags, legacy, Threads
<1>2. UNCHANGED pc \/ Goto(t, next)
  BY DEF Drain
<1>. QED
  BY <1>1, <1>2, EngineSame, EngineOther

LEMMA NextEngine == TypeOK /\ WorkerInv /\ EngineInv /\ [Next]_vars => EngineInv'
<1> SUFFICES ASSUME TypeOK, WorkerInv, EngineInv, [Next]_vars PROVE EngineInv'
  OBVIOUS
<1>. USE DEF flags, legacy
<1>1. CASE ProcessRequest
  <2>1. UNCHANGED <<engine, previewStarted, recordingStarted>>
    BY <1>1 DEF ProcessRequest, RejectRequest, ReserveJpeg, NewRequest, SendShutter,
                EnqueueStream, HandStream, EndRequest
  <2>2. UNCHANGED pc \/ \E to : Goto("req", to)
    BY <1>1 DEF ProcessRequest, RejectRequest, ReserveJpeg, NewRequest, SendShutter,
                EnqueueStream, HandStream, EndRequest
  <2>. QED
    BY <2>1, <2>2, EngineSame, EngineOther DEF Threads
<1>2. ASSUME NEW t \in Capturers, StartNextJpeg(t) PROVE EngineInv'
  <2>1. UNCHANGED <<engine, previewStarted, recordingStarted>> /\ pc[t] # "started"
    BY <1>2 DEF StartNextJpeg, StartNext, BeginJpeg, TakePicture, GiveUpJpeg, FailHead,
                ReturnFailed, GiveBack
  <2>2. \E to : Goto(t, to)
    BY <1>2 DEF StartNextJpeg, StartNext, BeginJpeg, TakePicture, GiveUpJpeg, FailHead,
                ReturnFailed, GiveBack
  <2>3. t \in Threads \ {"pcb", "vcb"}
    BY DEF Capturers, Threads
  <2>. QED
    BY <2>1, <2>2, <2>3, EngineOther
<1>3. CASE Worker \/ SpuriousWakeup
  <2>0. CASE WorkerSleep \/ SpuriousWakeup
    BY <2>0, EngineSame DEF WorkerSleep, SpuriousWakeup
  <2>1. CASE WorkerWake
    BY <2>1, EngineOther DEF WorkerWake, Threads
  <2>2. CASE StartPreview
    <3>1. CASE engine' = engine \cup {"preview"} /\ Goto("worker", "started")
      <4>1. pc'["worker"] = "started" /\ pc'["pcb"] = pc["pcb"] /\ pc'["vcb"] = pc["vcb"]
        BY <3>1 DEF Goto, TypeOK, PcOK, Threads
      <4>2. UNCHANGED <<previewStarted, recordingStarted>>
        BY <2>2 DEF StartPreview
      <4>. QED
        BY <3>1, <4>1, <4>2 DEF EngineInv
    <3>2. CASE UNCHANGED engine /\ Goto("worker", "failPreview")
      BY <2>2, <3>2, EngineOther DEF StartPreview, Threads
    <3>. QED
      BY <2>2, <3>1, <3>2 DEF StartPreview
  <2>3. CASE PreviewStarted
    <3>1. pc'["pcb"] = pc["pcb"] /\ pc'["vcb"] = pc["vcb"]
      BY <2>3 DEF PreviewStarted, Goto, TypeOK, PcOK, Threads
    <3>2. previewStarted' = TRUE /\ UNCHANGED <<engine, recordingStarted>>
      BY <2>3 DEF PreviewStarted
    <3>. QED
      BY <3>1, <3>2 DEF EngineInv
  <2>4. CASE StartRecording
    <3>1. CASE UNCHANGED <<engine, recordingStarted>>
      BY <2>4, <3>1, EngineOther DEF StartRecording, Threads
    <3>2. CASE engine' = engine \cup {"recording"} /\ recordingStarted' = TRUE
      <4>1. pc'["pcb"] = pc["pcb"] /\ pc'["vcb"] = pc["vcb"] /\ pc["worker"] = "record"
        BY <2>4 DEF StartRecording, Goto, TypeOK, PcOK, Threads
      <4>2. UNCHANGED previewStarted
        BY <2>4 DEF StartRecording
      <4>. QED
        BY <3>2, <4>1, <4>2 DEF EngineInv
    <3>. QED
      BY <2>4, <3>1, <3>2 DEF StartRecording
  <2>. QED
    BY <1>3, <2>0, <2>1, <2>2, <2>3, <2>4, EngineDrain DEF Worker
<1>4. CASE Callbacks
  <2>1. UNCHANGED <<engine, previewStarted, recordingStarted>>
    BY <1>4 DEF Callbacks, PreviewFrame, VideoFrame, StreamFrame, CopyImage, JpegImage,
                EngineError, NotifySteps, ErrorPreview, ErrorVideo, FailHead, ReturnErrored,
                GiveBack
  <2>2. CASE PreviewFrame
    <3>1. "preview" \in engine /\ \A u \in {"worker", "vcb"} : pc'[u] = pc[u]
      BY <2>2 DEF PreviewFrame, StreamFrame, Goto, TypeOK, PcOK, Threads
    <3>. QED
      BY <2>1, <3>1, EngineStay
  <2>3. CASE VideoFrame
    <3>1. "recording" \in engine /\ \A u \in {"worker", "pcb"} : pc'[u] = pc[u]
      BY <2>3 DEF VideoFrame, StreamFrame, Goto, TypeOK, PcOK, Threads
    <3>. QED
      BY <2>1, <3>1, EngineStay
  <2>4. CASE \/ CopyImage("pcb", "idle") \/ CopyImage("vcb", "idle")
             \/ CopyImage("jcb", "start") \/ JpegImage \/ EngineError \/ NotifySteps
    <3>1. ASSUME NEW t \in Carriers, NEW to, to # "copy", CopyImage(t, to) PROVE EngineInv'
      BY <2>1, <3>1, CarrierFacts, EngineOther DEF CopyImage, Carriers
    <3>2. CASE JpegImage
      <4>1. \E to : Goto("jcb", to)
        BY <3>2 DEF JpegImage
      <4>. QED
        BY <2>1, <4>1, EngineOther DEF Threads
    <3>3. CASE EngineError
      <4>1. \E to : Goto("ncb", to)
        BY <3>3 DEF EngineError
      <4>. QED
        BY <2>1, <4>1, EngineOther DEF Threads
    <3>4. CASE NotifySteps
      <4>1. \E to : Goto("ncb", to)
        BY <3>4 DEF NotifySteps, ErrorPreview, ErrorVideo, FailHead, ReturnErrored, GiveBack
      <4>. QED
        BY <2>1, <4>1, EngineOther DEF Threads
    <3>. QED
      BY <2>4, <3>1, <3>2, <3>3, <3>4 DEF Carriers
  <2>. QED
    BY <1>4, <2>2, <2>3, <2>4 DEF Callbacks
<1>5. CASE Flush \/ ConfigureStreams \/ Close
  <2>1. \E to : Goto("ctl", to) /\ UNCHANGED <<engine, previewStarted, recordingStarted>>
    BY <1>5 DEF Flush, ConfigureStreams, Close, FlushCall
  <2>. QED
    BY <2>1, EngineOther DEF Threads
<1>6. CASE FlushSteps
  <2>1. CASE FlushJoin
    <3>1. pc["worker"] \in {"none", "exited"}
      BY <2>1 DEF FlushJoin, WorkerInv
    <3>2. pc'["pcb"] = pc["pcb"] /\ pc'["vcb"] = pc["vcb"]
      BY <2>1 DEF FlushJoin, TypeOK, PcOK, Threads
    <3>3. UNCHANGED <<engine, previewStarted, recordingStarted>>
      BY <2>1 DEF FlushJoin
    <3>. QED
      BY <3>1, <3>2, <3>3, EngineStay
  <2>2. CASE CancelPicture \/ FlushDone \/ DeleteDevice
    <3>1. \E to : Goto("ctl", to) /\ UNCHANGED <<engine, previewStarted, recordingStarted>>
      BY <2>2 DEF CancelPicture, FlushDone, DeleteDevice
    <3>. QED
      BY <3>1, EngineOther DEF Threads
  <2>3. CASE StopRecording
    <3>1. \A u \in {"worker", "pcb", "vcb"} : pc'[u] = pc[u]
      BY <2>3 DEF StopRecording, Goto, TypeOK, PcOK, Threads
    <3>2. /\ recordingStarted => pc["vcb"] = "idle"
          /\ engine' = IF recordingStarted THEN engine \ {"recording"} ELSE engine
          /\ UNCHANGED previewStarted
      BY <2>3 DEF StopRecording
    <3>. QED
      BY <3>1, <3>2 DEF EngineInv
  <2>4. CASE StopPreview
    <3>1. \A u \in {"worker", "pcb", "vcb"} : pc'[u] = pc[u]
      BY <2>4 DEF StopPreview, Goto, TypeOK, PcOK, Threads
    <3>2. /\ previewStarted => pc["pcb"] = "idle"
          /\ engine' = IF previewStarted THEN engine \ {"preview"} ELSE engine
          /\ UNCHANGED recordingStarted
      BY <2>4 DEF StopPreview
    <3>. QED
      BY <3>1, <3>2 DEF EngineInv
  <2>5. CASE ConfigureApply
    <3>1. pc["worker"] = "none"
      BY <2>5 DEF ConfigureApply, WorkerInv, Stopped
    <3>2. pc'["pcb"] = pc["pcb"] /\ pc'["vcb"] = pc["vcb"]
      BY <2>5 DEF ConfigureApply, Goto, TypeOK, PcOK, Threads
    <3>3. UNCHANGED <<engine, previewStarted, recordingStarted>>
      BY <2>5 DEF ConfigureApply
    <3>. QED
      BY <3>1, <3>2, <3>3, EngineStay
  <2>6. CASE FlushDrain
    BY <2>6, EngineDrain DEF FlushDrain
  <2>. QED
    BY <1>6, <2>1, <2>2, <2>3, <2>4, <2>5, <2>6 DEF FlushSteps
<1>7. CASE UNCHANGED vars
  BY <1>7, EngineSame DEF vars
<1>. QED
  BY <1>1, <1>2, <1>3, <1>4, <1>5, <1>6, <1>7 DEF Next, Terminated

-----------------------------------------------------------------------------
(* What the drains of flush leave behind.                                  *)

ControlSteps == Flush \/ ConfigureStreams \/ Close \/ FlushSteps

(* No thread but its own moves the ctl thread or touches what it keeps.    *)
LEMMA ControlAlone ==
  TypeOK /\ [Next]_vars
    => ControlSteps \/ (pc'["ctl"] = pc["ctl"] /\ UNCHANGED <<shape, flushing>>)
<1> SUFFICES ASSUME TypeOK, [Next]_vars, ~ControlSteps
             PROVE  pc'["ctl"] = pc["ctl"] /\ UNCHANGED <<shape, flushing>>
  OBVIOUS
<1>. USE DEF flags
<1>0. ASSUME NEW t \in Threads \ {"ctl"}, UNCHANGED pc \/ \E to : Goto(t, to)
      PROVE  pc'["ctl"] = pc["ctl"]
  BY <1>0 DEF Goto, TypeOK, PcOK, Threads
<1>1. CASE ProcessRequest
  <2>1. UNCHANGED <<shape, flushing>> /\ (UNCHANGED pc \/ \E to : Goto("req", to))
    BY <1>1 DEF ProcessRequest, RejectRequest, ReserveJpeg, NewRequest, SendShutter,
                EnqueueStream, HandStream, EndRequest
  <2>. QED
    BY <1>0, <2>1 DEF Threads
<1>2. ASSUME NEW t \in Capturers, StartNextJpeg(t)
      PROVE  pc'["ctl"] = pc["ctl"] /\ UNCHANGED <<shape, flushing>>
  <2>1. UNCHANGED <<shape, flushing>> /\ \E to : Goto(t, to)
    BY <1>2 DEF StartNextJpeg, StartNext, BeginJpeg, TakePicture, GiveUpJpeg, FailHead,
                ReturnFailed, GiveBack
  <2>. QED
    BY <1>0, <2>1 DEF Threads, Capturers
<1>3. CASE Worker \/ SpuriousWakeup
  <2>0. CASE WorkerSleep \/ SpuriousWakeup
    BY <2>0 DEF WorkerSleep, SpuriousWakeup
  <2>1. CASE WorkerWake \/ StartPreview \/ PreviewStarted \/ StartRecording
    <3>1. UNCHANGED <<shape, flushing>> /\ \E to : Goto("worker", to)
      BY <2>1 DEF WorkerWake, StartPreview, PreviewStarted, StartRecording
    <3>. QED
      BY <1>0, <3>1 DEF Threads
  <2>2. ASSUME NEW s, NEW at, NEW next, Drain("worker", s, at, next)
        PROVE  pc'["ctl"] = pc["ctl"] /\ UNCHANGED <<shape, flushing>>
    BY <2>2, DrainMoves DEF Threads
  <2>. QED
    BY <1>3, <2>0, <2>1, <2>2 DEF Worker
<1>4. CASE Callbacks
  <2>1. UNCHANGED <<shape, flushing>>
    BY <1>4 DEF Callbacks, PreviewFrame, VideoFrame, StreamFrame, CopyImage, JpegImage,
                EngineError, NotifySteps, ErrorPreview, ErrorVideo, FailHead, ReturnErrored,
                GiveBack
  <2>2. \E t \in {"pcb", "vcb", "jcb", "ncb"} : \E to : Goto(t, to)
    BY <1>4 DEF Callbacks, PreviewFrame, VideoFrame, StreamFrame, CopyImage, JpegImage,
                EngineError, NotifySteps, ErrorPreview, ErrorVideo, FailHead, ReturnErrored,
                GiveBack
  <2>. QED
    BY <1>0, <2>1, <2>2 DEF Threads
<1>5. CASE UNCHANGED vars
  BY <1>5 DEF vars
<1>. QED
  BY <1>1, <1>2, <1>3, <1>4, <1>5 DEF Next, Terminated, ControlSteps

(* The steps of the ctl thread after its drain of stream s.                *)
Past(s) == IF s = "preview" THEN {"drainVideo", "drainJpeg", "unflush", "delete"}
           ELSE IF s = "video" THEN {"drainJpeg", "unflush", "delete"}
           ELSE {"unflush", "delete"}

(* flush ends with no still picture queued, since none is reserved while   *)
(* `flushing`; and a closing device, which takes no requests, drains every *)
(* queue for good.                                                         *)
DrainedInv ==
  /\ pc["ctl"] = "unflush" => queue["jpeg"] = <<>>
  /\ pc["ctl"] = "delete" => operation = "close"
  /\ operation = "close" => pc["req"] = "idle"
  /\ operation = "none" <=> pc["ctl"] = "idle"
  /\ operation = "close" => \A s \in Streams : pc["ctl"] \in Past(s) => queue[s] = <<>>

(* An empty queue is only filled by a request.                             *)
LEMMA StayEmpty ==
  ASSUME TypeOK, AccountingInv, [Next]_vars, NEW s \in Streams, queue[s] = <<>>
  PROVE  \/ queue'[s] = <<>>
         \/ pc["req"] = "enqueue" /\ s # "jpeg"
         \/ s = "jpeg" /\ ~flushing /\ operation \in {"none", "flush"}
<1>1. ASSUME NEW u \in Streams, TakeHead(u) PROVE queue'[s] = <<>>
  BY <1>1 DEF TakeHead, TypeOK
<1>2. ASSUME NEW outs \in Outputs, ReserveJpeg(outs)
      PROVE  queue'[s] = <<>> \/ (s = "jpeg" /\ ~flushing /\ operation \in {"none", "flush"})
  BY <1>2 DEF ReserveJpeg, NewRequest, CanReserveJpeg, TypeOK
<1>3. ASSUME NEW u \in {"preview", "video"}, EnqueueStream(u)
      PROVE  queue'[s] = <<>> \/ (pc["req"] = "enqueue" /\ s # "jpeg")
  BY <1>3 DEF EnqueueStream, HandStream, AppendStream, TypeOK
<1>4. ASSUME UNCHANGED queue PROVE queue'[s] = <<>>
  BY <1>4
<1>. QED
  BY <1>1, <1>2, <1>3, <1>4, NextEffect
     DEF Effect, HeadBack, TakeUp, HandBack, CopyImage, GiveBack, RejectRequest, Steady

LEMMA DrainedOthers ==
  ASSUME TypeOK, AccountingInv, WorkerInv, DrainedInv, [Next]_vars,
         pc'["ctl"] = pc["ctl"], UNCHANGED <<shape, flushing>>
  PROVE  DrainedInv'
<1>1. UNCHANGED operation
  BY DEF shape
<1>2. operation = "close" => pc'["req"] = "idle"
  <2>1. SUFFICES ASSUME operation = "close", ProcessRequest \/ StartNextJpeg("req")
                 PROVE  pc'["req"] = "idle"
    BY RequestAlone DEF DrainedInv
  <2>2. pc["req"] = "idle"
    BY <2>1 DEF DrainedInv
  <2>. QED
    BY <2>1, <2>2
       DEF ProcessRequest, RejectRequest, ReserveJpeg, NewRequest, SendShutter,
           EnqueueStream, HandStream, EndRequest, StartNextJpeg, StartNext, BeginJpeg,
           TakePicture, GiveUpJpeg, FailHead, ReturnFailed, GiveBack
<1>3. pc["ctl"] = "unflush" => queue'["jpeg"] = <<>>
  <2>1. SUFFICES ASSUME pc["ctl"] = "unflush" PROVE queue'["jpeg"] = <<>>
    OBVIOUS
  <2>2. flushing /\ queue["jpeg"] = <<>> /\ "jpeg" \in Streams
    BY <2>1 DEF WorkerInv, Flushing, DrainedInv, Streams
  <2>. QED
    BY <2>2, StayEmpty
<1>4. operation = "close" => \A s \in Streams : pc["ctl"] \in Past(s) => queue'[s] = <<>>
  <2>1. SUFFICES ASSUME operation = "close", NEW s \in Streams, pc["ctl"] \in Past(s)
                 PROVE  queue'[s] = <<>>
    OBVIOUS
  <2>2. queue[s] = <<>> /\ pc["req"] = "idle"
    BY <2>1 DEF DrainedInv
  <2>. QED
    BY <2>1, <2>2, StayEmpty
<1>. QED
  BY <1>1, <1>2, <1>3, <1>4 DEF DrainedInv

(* Where a step of the ctl thread takes it.                                *)
LEMMA ControlMoves ==
  ASSUME TypeOK, DrainedInv, ControlSteps
  PROVE  /\ pc'["req"] = pc["req"]
         /\ \/ /\ pc'["ctl"] \notin UNION {Past(s) : s \in Streams}
               /\ operation' = "none" <=> pc'["ctl"] = "idle"
               /\ operation' = "close" => operation = "close" \/ pc["req"] = "idle"
            \/ /\ pc["ctl"] = "unflush" /\ pc'["ctl"] = "delete"
               /\ operation = "close" /\ UNCHANGED <<operation, queue>>
            \/ FlushDrain
<1>1. {"ctl", "req", "worker"} \subseteq Threads
  BY DEF Threads
<1>2. \A to : Goto("ctl", to) => pc'["ctl"] = to /\ pc'["req"] = pc["req"]
  BY <1>1 DEF Goto, TypeOK, PcOK
<1>3. UNION {Past(s) : s \in Streams} = {"drainVideo", "drainJpeg", "unflush", "delete"}
  BY DEF Past, Streams
<1>4. CASE Flush \/ ConfigureStreams \/ Close
  BY <1>2, <1>3, <1>4 DEF Flush, ConfigureStreams, Close, FlushCall
<1>5. CASE FlushJoin
  <2>1. pc'["ctl"] = "cancel" /\ pc'["req"] = pc["req"] /\ UNCHANGED operation
    BY <1>1, <1>5 DEF FlushJoin, TypeOK, PcOK
  <2>2. operation # "none"
    BY <1>5 DEF FlushJoin, DrainedInv
  <2>. QED
    BY <1>3, <2>1, <2>2
<1>6. CASE CancelPicture \/ StopRecording \/ StopPreview
  <2>1. operation # "none" /\ UNCHANGED operation
    BY <1>6 DEF CancelPicture, StopRecording, StopPreview, DrainedInv, shape
  <2>2. \E to \in {"stopRecording", "stopPreview", "drainPreview"} : Goto("ctl", to)
    BY <1>6 DEF CancelPicture, StopRecording, StopPreview
  <2>. QED
    BY <1>2, <1>3, <2>1, <2>2
<1>7. CASE FlushDone
  <2>1. /\ operation' = IF operation = "flush" THEN "none" ELSE operation
        /\ Goto("ctl", AfterFlush(operation)) /\ pc["ctl"] = "unflush" /\ UNCHANGED queue
    BY <1>7 DEF FlushDone
  <2>2. operation \in {"flush", "configure", "close"}
    BY <2>1 DEF DrainedInv, TypeOK
  <2>3. CASE operation = "flush"
    BY <1>2, <1>3, <2>1, <2>3 DEF AfterFlush
  <2>4. CASE operation = "configure"
    BY <1>2, <1>3, <2>1, <2>4 DEF AfterFlush
  <2>5. CASE operation = "close"
    BY <1>2, <2>1, <2>5 DEF AfterFlush
  <2>. QED
    BY <2>2, <2>3, <2>4, <2>5
<1>8. CASE ConfigureApply
  <2>1. pc'["ctl"] = "idle" /\ pc'["req"] = pc["req"]
    BY <1>1, <1>2, <1>8 DEF ConfigureApply, TypeOK, PcOK
  <2>. QED
    BY <1>3, <1>8, <2>1 DEF ConfigureApply
<1>9. CASE DeleteDevice
  BY <1>2, <1>3, <1>9 DEF DeleteDevice
<1>10. CASE FlushDrain
  BY <1>10, <1>1, DrainMoves DEF FlushDrain
<1>. QED
  BY <1>4, <1>5, <1>6, <1>7, <1>8, <1>9, <1>10 DEF ControlSteps, FlushSteps

(* The three drains of flush, in their order.                              *)
DrainOf(s, at, next) ==
  \/ s = "preview" /\ at = "drainPreview" /\ next = "drainVideo"
  \/ s = "video" /\ at = "drainVideo" /\ next = "drainJpeg"
  \/ s = "jpeg" /\ at = "drainJpeg" /\ next = "unflush"

LEMMA FlushDrains ==
  ASSUME FlushDrain
  PROVE  \E s \in Streams : \E at, next : DrainOf(s, at, next) /\ Drain("ctl", s, at, next)
BY DEF FlushDrain, DrainOf, Streams

LEMMA DrainPast ==
  ASSUME NEW s \in Streams, NEW at, NEW next, DrainOf(s, at, next), NEW u \in Streams,
         next \in Past(u)
  PROVE  u = s \/ at \in Past(u)
BY DEF DrainOf, Past, Streams

LEMMA DrainedDrain ==
  ASSUME TypeOK, DrainedInv, FlushDrain
  PROVE  DrainedInv'
<1>1. PICK s \in Streams : \E at, next : DrainOf(s, at, next) /\ Drain("ctl", s, at, next)
  BY FlushDrains
<1>2. PICK at, next : DrainOf(s, at, next) /\ Drain("ctl", s, at, next)
  BY <1>1
<1>3. "ctl" \in Threads /\ "req" \in Threads /\ "jpeg" \in Streams
  BY DEF Threads, Streams
<1>4. UNCHANGED operation /\ pc'["req"] = pc["req"] /\ pc["ctl"] = at
  BY <1>2, <1>3, DrainMoves DEF Drain, shape
<1>5. at \in {"drainPreview", "drainVideo", "drainJpeg"} /\ operation # "none"
  BY <1>2, <1>4 DEF DrainOf, DrainedInv
<1>6. CASE TakeHead(s) /\ UNCHANGED pc
  <2>1. \A u \in Streams : queue[u] = <<>> => queue'[u] = <<>>
    BY <1>6 DEF TakeHead, TypeOK
  <2>. QED
    BY <1>3, <1>4, <1>6, <2>1 DEF DrainedInv
<1>7. CASE queue[s] = <<>> /\ Goto("ctl", next) /\ UNCHANGED queue
  <2>1. pc'["ctl"] = next
    BY <1>3, <1>7 DEF Goto, TypeOK, PcOK
  <2>2. next \notin {"idle", "delete"} /\ (next = "unflush" => s = "jpeg")
    BY <1>2 DEF DrainOf
  <2>3. operation = "close" => \A u \in Streams : next \in Past(u) => queue[u] = <<>>
    BY <1>2, <1>4, <1>7, DrainPast DEF DrainedInv
  <2>. QED
    BY <1>4, <1>5, <1>7, <2>1, <2>2, <2>3 DEF DrainedInv
<1>. QED
  BY <1>2, <1>6, <1>7 DEF Drain

LEMMA NextDrained ==
  TypeOK /\ AccountingInv /\ WorkerInv /\ DrainedInv /\ [Next]_vars => DrainedInv'
<1> SUFFICES ASSUME TypeOK, AccountingInv, WorkerInv, DrainedInv, [Next]_vars
             PROVE  DrainedInv'
  OBVIOUS
<1>1. CASE ControlSteps
  <2>1. pc'["req"] = pc["req"]
    BY <1>1, ControlMoves
  <2>2. CASE /\ pc'["ctl"] \notin UNION {Past(s) : s \in Streams}
             /\ operation' = "none" <=> pc'["ctl"] = "idle"
             /\ operation' = "close" => operation = "close" \/ pc["req"] = "idle"
    <3>1. \A s \in Streams : pc'["ctl"] \notin Past(s)
      BY <2>2
    <3>2. pc'["ctl"] \notin {"unflush", "delete"}
      BY <3>1 DEF Past, Streams
    <3>. QED
      BY <2>1, <2>2, <3>1, <3>2 DEF DrainedInv
  <2>3. CASE /\ pc["ctl"] = "unflush" /\ pc'["ctl"] = "delete"
             /\ operation = "close" /\ UNCHANGED <<operation, queue>>
    <3>1. \A s \in Streams : queue[s] = <<>>
      BY <2>3 DEF DrainedInv, Past
    <3>. QED
      BY <2>1, <2>3, <3>1 DEF DrainedInv
  <2>. QED
    BY <1>1, <2>2, <2>3, ControlMoves, DrainedDrain
<1>. QED
  BY <1>1, ControlAlone, DrainedOthers

-----------------------------------------------------------------------------
(* flush returns what was queued.                                          *)

(* The snapshot of flush is made of queued buffers: none is accepted or    *)
(* queued again later, so what a drain has left behind stays out of its    *)
(* queue, though the req thread may be adding new buffers to it.           *)
SnapshotInv ==
  /\ snapshot \subseteq accepted
  /\ snapshot \cap Fresh = {}
  /\ \A s \in Streams : pc["ctl"] \in Past(s) => snapshot \cap ({s} \X Queued(s)) = {}

(* Buffers are queued by the request they came with, and only then.        *)
LEMMA QueueGains ==
  ASSUME TypeOK, AccountingInv, Hands, [Next]_vars
  PROVE  /\ accepted \subseteq accepted'
         /\ Fresh' \cap accepted \subseteq Fresh
         /\ QueuedBuffers' \cap accepted \subseteq QueuedBuffers \cup Fresh
<1>. DEFINE Goal == /\ accepted \subseteq accepted'
                    /\ Fresh' \cap accepted \subseteq Fresh
                    /\ QueuedBuffers' \cap accepted \subseteq QueuedBuffers \cup Fresh
<1>1. ASSUME NEW outs \in Outputs, RejectRequest(outs) PROVE Goal
  <2>1. accepted \subseteq accepted' /\ UNCHANGED <<held, queue>>
    BY <1>1 DEF RejectRequest, NewRequest
  <2>. QED
    BY <2>1, Untouched DEF AccountingInv, Fresh
<1>2. ASSUME NEW outs \in Outputs, ReserveJpeg(outs) PROVE Goal
  <2>1. NewRequest(outs) /\ outs \subseteq Streams
    BY <1>2, InputAssumption DEF ReserveJpeg
  <2>2. /\ accepted \subseteq accepted' /\ (outs \X {frame + 1}) \cap accepted = {}
        /\ frame + 1 \in Frames
    BY <2>1, NewFrame DEF AccountingInv
  <2>3. Fresh' \subseteq outs \X {frame + 1}
    BY <1>2, CarrierFacts DEF ReserveJpeg, TypeOK, Fresh
  <2>4. QueuedBuffers' \subseteq QueuedBuffers \cup (outs \X {frame + 1})
    <3>1. CASE "jpeg" \in outs
      <4>1. /\ queue' = [queue EXCEPT !["jpeg"] = Append(@, frame + 1)]
            /\ "jpeg" \in Streams /\ <<"jpeg", frame + 1>> \in outs \X {frame + 1}
        BY <1>2, <2>1, <3>1 DEF ReserveJpeg
      <4>2. QueuedBuffers' \subseteq QueuedBuffers \cup {<<"jpeg", frame + 1>>}
        BY <2>2, <4>1, Appended
      <4>. QED
        BY <4>1, <4>2
    <3>2. CASE "jpeg" \notin outs
      BY <1>2, <3>2, Untouched DEF ReserveJpeg, AccountingInv
    <3>. QED
      BY <3>1, <3>2
  <2>. QED
    BY <2>2, <2>3, <2>4
<1>3. ASSUME NEW s \in {"preview", "video"}, EnqueueStream(s) PROVE Goal
  BY <1>3, Enqueued
<1>4. ASSUME NEW s \in Streams, HeadBack(s) PROVE Goal
  BY <1>4, HeadBuffer DEF HeadBack, ReturnError, Fresh
<1>5. ASSUME NEW s \in Streams, NEW t \in Threads, TakeUp(t, s) PROVE Goal
  <2>1. Fresh' \subseteq Fresh /\ UNCHANGED accepted
    BY <1>5, CarrierFacts DEF TakeUp, TypeOK, results, Fresh
  <2>2. QueuedBuffers' \subseteq QueuedBuffers
    BY <1>5, HeadBuffer DEF TakeUp
  <2>. QED
    BY <2>1, <2>2
<1>6. ASSUME NEW t \in Threads, HandBack(t) PROVE Goal
  <2>1. held' = [held EXCEPT ![t] = {}] /\ UNCHANGED <<queue, accepted>>
    BY <1>6, HandedBack
  <2>2. Fresh' \subseteq Fresh
    BY <2>1, CarrierFacts DEF TypeOK, Fresh
  <2>. QED
    BY <2>1, <2>2, Untouched DEF AccountingInv
<1>7. ASSUME Steady PROVE Goal
  <2>1. QueuedBuffers' = QueuedBuffers
    BY <1>7, Untouched DEF AccountingInv, Steady
  <2>. QED
    BY <1>7, <2>1 DEF Steady, Fresh
<1>. HIDE DEF Goal
<1>8. Goal
  BY <1>1, <1>2, <1>3, <1>4, <1>5, <1>6, <1>7, NextEffect DEF Effect
<1>. QED
  BY <1>8 DEF Goal

(* While flush stays where it is, nothing of its snapshot is queued again. *)
LEMMA SnapshotOthers ==
  ASSUME TypeOK, AccountingInv, Hands, SnapshotInv, [Next]_vars, UNCHANGED snapshot,
         \A s \in Streams : pc'["ctl"] \in Past(s) =>
            snapshot \cap ({s} \X Queued(s)) = {}
  PROVE  SnapshotInv'
<1>1. snapshot \subseteq accepted' /\ snapshot \cap Fresh' = {}
  BY QueueGains DEF SnapshotInv
<1>2. ASSUME NEW s \in Streams, pc'["ctl"] \in Past(s), NEW f \in Queued(s)',
             <<s, f>> \in snapshot
      PROVE  FALSE
  <2>1. <<s, f>> \in QueuedBuffers'
    BY <1>2 DEF QueuedBuffers
  <2>2. <<s, f>> \in QueuedBuffers
    BY <1>2, <2>1, QueueGains DEF SnapshotInv
  <2>3. f \in Queued(s)
    BY <2>2 DEF QueuedBuffers
  <2>. QED
    BY <1>2, <2>3
<1>. QED
  BY <1>1, <1>2 DEF SnapshotInv

LEMMA NextSnapshot ==
  /\ TypeOK /\ AccountingInv /\ Hands /\ DrainedInv /\ SnapshotInv /\ [Next]_vars
  => SnapshotInv'
<1> SUFFICES ASSUME TypeOK, AccountingInv, Hands, DrainedInv, SnapshotInv, [Next]_vars
             PROVE  SnapshotInv'
  OBVIOUS
<1>1. CASE pc'["ctl"] = pc["ctl"] /\ UNCHANGED snapshot
  BY <1>1, SnapshotOthers DEF SnapshotInv
<1>2. CASE FlushJoin
  <2>1. pc'["ctl"] = "cancel" /\ snapshot' = QueuedBuffers /\ UNCHANGED <<accepted, held>>
    BY <1>2 DEF FlushJoin, TypeOK, PcOK, Threads, results
  <2>2. QueuedBuffers \subseteq accepted /\ QueuedBuffers \cap Fresh = {}
    BY CarrierFacts DEF AccountingInv, Accounts, Accounted, Fresh
  <2>3. \A s \in Streams : "cancel" \notin Past(s)
    BY DEF Past
  <2>. QED
    BY <2>1, <2>2, <2>3 DEF SnapshotInv, Fresh
<1>3. CASE FlushDone
  <2>1. snapshot' = {}
    BY <1>3 DEF FlushDone
  <2>. QED
    BY <2>1 DEF SnapshotInv
<1>4. CASE FlushDrain
  <2>1. PICK s \in Streams : \E at, next : DrainOf(s, at, next) /\ Drain("ctl", s, at, next)
    BY <1>4, FlushDrains
  <2>2. PICK at, next : DrainOf(s, at, next) /\ Drain("ctl", s, at, next)
    BY <2>1
  <2>3. UNCHANGED snapshot /\ pc["ctl"] = at
    BY <2>2 DEF Drain, shape
  <2>4. CASE UNCHANGED pc
    BY <1>1, <2>3, <2>4
  <2>5. CASE queue[s] = <<>> /\ Goto("ctl", next)
    <3>1. pc'["ctl"] = next /\ Queued(s) = {}
      BY <2>5 DEF Goto, TypeOK, PcOK, Threads, Queued
    <3>2. \A u \in Streams : pc'["ctl"] \in Past(u) => snapshot \cap ({u} \X Queued(u)) = {}
      BY <2>2, <2>3, <3>1, DrainPast DEF SnapshotInv
    <3>. QED
      BY <2>3, <3>2, SnapshotOthers
  <2>. QED
    BY <2>2, <2>4, <2>5 DEF Drain
<1>5. CASE \/ Flush \/ ConfigureStreams \/ Close
           \/ CancelPicture \/ StopRecording \/ StopPreview \/ ConfigureApply \/ DeleteDevice
  <2>1. UNCHANGED snapshot
    BY <1>5 DEF Flush, ConfigureStreams, Close, FlushCall, CancelPicture, StopRecording,
                StopPreview, ConfigureApply, DeleteDevice, shape
  <2>2. pc'["ctl"] \in {"idle", "join", "apply", "stopRecording", "stopPreview",
                        "drainPreview"}
    BY <1>5 DEF Flush, ConfigureStreams, Close, FlushCall, CancelPicture, StopRecording,
                StopPreview, ConfigureApply, DeleteDevice, Goto, TypeOK, PcOK, Threads
  <2>3. \A s \in Streams : pc'["ctl"] \notin Past(s)
    BY <2>2 DEF Past
  <2>. QED
    BY <2>1, <2>3, SnapshotOthers
<1>. QED
  BY <1>1, <1>2, <1>3, <1>4, <1>5, ControlAlone DEF ControlSteps, FlushSteps, shape

-----------------------------------------------------------------------------
(* The theorems.                                                           *)

ResultsInv == Hands /\ ShutterInv /\ OrderInv /\ EngineInv /\ DrainedInv /\ SnapshotInv

LEMMA AlwaysResults == Spec => []ResultsInv
<1>1. Init => EngineInv /\ DrainedInv /\ SnapshotInv
  BY DEF Init, EngineInv, DrainedInv, SnapshotInv, Past, Threads, Fresh
<1>2. Init => ResultsInv
  BY <1>1, InitOrder DEF ResultsInv
<1>3. TypeOK /\ AccountingInv /\ WorkerInv /\ ResultsInv /\ [Next]_vars => ResultsInv'
  BY NextHands, NextShutter, NextOrder, NextEngine, NextDrained, NextSnapshot DEF ResultsInv
<1>. QED
  BY <1>2, <1>3, TypeCorrect, AlwaysAccounting, AlwaysWorker, PTL DEF Spec

(* No path of the HAL (a full queue, a callback, a failing start, an       *)
(* engine error, flush) hands a preview or video buffer back before the    *)
(* shutter of its frame has been sent.                                     *)
THEOREM ShutterComesFirst == Spec => []ShutterBeforeStream
<1>1. ResultsInv => ShutterBeforeStream
  BY DEF ResultsInv, ShutterInv, Announced, ShutterBeforeStream
<1>. QED
  BY <1>1, AlwaysResults, PTL

(* When flush clears `flushing`, every buffer that was queued when it set  *)
(* it has been returned, but for those that a callback or a request flush  *)
(* does not wait for had taken before the drains and is returning.         *)
THEOREM FlushReturnsAll == Spec => []FlushReturnsQueued
<1>1. TypeOK /\ AccountingInv /\ WorkerInv /\ ResultsInv => FlushReturnsQueued
  <2> SUFFICES ASSUME TypeOK, AccountingInv, WorkerInv, ResultsInv, pc["ctl"] = "unflush",
                      NEW b \in snapshot, b \notin returned
               PROVE  \E t \in Unwaited : b \in held[t] /\ pc[t] \in Returning
    BY DEF FlushReturnsQueued
  <2>1. b \in accepted \ returned /\ b \notin Fresh
    BY DEF ResultsInv, SnapshotInv
  <2>2. b \notin QueuedBuffers
    BY DEF ResultsInv, SnapshotInv, Past, QueuedBuffers, Streams
  <2>3. PICK t \in Threads : b \in held[t]
    BY <2>1, <2>2, OwnedFacts DEF ResultsInv
  <2>4. pc[t] \in Carrying
    BY <2>3 DEF AccountingInv, Holders
  <2>5. pc["pcb"] = "idle" /\ pc["vcb"] = "idle" /\ pc["worker"] = "none"
    BY DEF ResultsInv, EngineInv, WorkerInv, Flushing, Stopped, TypeOK, PcOK
  <2>6. t \in Unwaited
    BY <2>4, <2>5 DEF Unwaited, Carrying, Returning, Threads
  <2>7. CASE t = "req"
    <3>1. b[1] = "jpeg"
      BY <2>1, <2>3, <2>7 DEF Fresh
    <3>2. pc["req"] \in {"shutter", "enqueue"} => b[1] # "jpeg"
      BY <2>3, <2>7 DEF ResultsInv, Hands, RequestHands
    <3>. QED
      BY <2>3, <2>4, <2>6, <2>7, <3>1, <3>2 DEF Carrying
  <2>8. CASE t \in {"jcb", "ncb"}
    <3>1. pc[t] \notin {"shutter", "enqueue"}
      BY <2>8 DEF TypeOK, PcOK, CaptureSteps
    <3>. QED
      BY <2>3, <2>4, <2>6, <3>1 DEF Carrying
  <2>. QED
    BY <2>6, <2>7, <2>8 DEF Unwaited
<1>. QED
  BY <1>1, TypeCorrect, AlwaysAccounting, AlwaysWorker, AlwaysResults, PTL

-----------------------------------------------------------------------------
(* The refinement: what each effect is of BufferContract.                  *)

Owned == accepted \ returned

(* The device closes owning nothing.                                       *)
LEMMA ClosesEmpty ==
  ASSUME TypeOK, AccountingInv, WorkerInv, ResultsInv, DeleteDevice
  PROVE  Owned = {}
<1>1. /\ pc["ctl"] = "delete" /\ \A t \in {"pcb", "vcb", "jcb", "ncb"} : pc[t] = "idle"
  BY DEF DeleteDevice
<1>2. operation = "close" /\ pc["req"] = "idle"
  BY <1>1 DEF ResultsInv, DrainedInv
<1>3. \A s \in Streams : queue[s] = <<>>
  BY <1>1, <1>2 DEF ResultsInv, DrainedInv, Past
<1>4. QueuedBuffers = {}
  BY <1>3 DEF QueuedBuffers, Queued
<1>5. pc["worker"] = "none"
  BY <1>1 DEF WorkerInv, Flushing, Stopped
<1>6. \A t \in Threads : held[t] = {}
  BY <1>1, <1>2, <1>5 DEF AccountingInv, Holders, Carrying, Returning, Threads
<1>. QED
  BY <1>4, <1>6, OwnedFacts DEF ResultsInv, Owned

LEMMA ClosedStays == TypeOK /\ [Next]_vars => DeleteDevice \/ UNCHANGED closed
<1> SUFFICES ASSUME TypeOK, [Next]_vars, ~DeleteDevice PROVE UNCHANGED closed
  OBVIOUS
<1>1. CASE Flush \/ ConfigureStreams \/ Close
  BY <1>1 DEF Flush, ConfigureStreams, Close, FlushCall
<1>2. CASE FlushJoin \/ CancelPicture \/ StopRecording \/ StopPreview \/ FlushDone
           \/ ConfigureApply
  BY <1>2 DEF FlushJoin, CancelPicture, StopRecording, StopPreview, FlushDone,
              ConfigureApply, shape
<1>3. CASE FlushDrain
  BY <1>3 DEF FlushDrain, Drain, shape
<1>. QED
  BY <1>1, <1>2, <1>3, ControlAlone DEF ControlSteps, FlushSteps, shape

LEMMA AcceptStep ==
  ASSUME TypeOK, AccountingInv, NEW outs \in Outputs,
         RejectRequest(outs) \/ ReserveJpeg(outs)
  PROVE  Contract!Accept
<1>. DEFINE new == outs \X {frame + 1}
<1>1. NewRequest(outs) /\ outs \in SUBSET Streams
  BY InputAssumption DEF RejectRequest, ReserveJpeg
<1>2. /\ frame + 1 \in Frames /\ accepted' = accepted \cup new /\ new \cap accepted = {}
  BY <1>1, NewFrame DEF AccountingInv
<1>3. returned \subseteq accepted
  BY DEF AccountingInv, Accounts, Accounted
<1>4. ~closed /\ UNCHANGED <<lastImage, closed>>
  BY <1>1 DEF NewRequest, shape, RejectRequest, ReserveJpeg
<1>5. \/ returned' = returned \cup new /\ Owned' = Owned
      \/ returned' = returned /\ Owned' = Owned \cup new
  BY <1>2, <1>3 DEF RejectRequest, ReserveJpeg, Owned
<1>6. new \cap (Owned \cup returned) = {}
  BY <1>2, <1>3 DEF Owned
<1>. QED
  BY <1>1, <1>2, <1>4, <1>5, <1>6 DEF Contract!Accept, Owned

(* One owned buffer comes back, in error or with a newer image.            *)
LEMMA ReturnStep ==
  ASSUME NEW b \in Owned, returned' = returned \cup {b}, UNCHANGED <<accepted, closed>>,
         \/ UNCHANGED lastImage
         \/ lastImage[b[1]] < b[2] /\ lastImage' = [lastImage EXCEPT ![b[1]] = b[2]]
  PROVE  Contract!ReturnError \/ Contract!ReturnImage
<1>1. Owned' = Owned \ {b}
  BY DEF Owned
<1>. QED
  BY <1>1 DEF Contract!ReturnError, Contract!ReturnImage, Owned

LEMMA ContractStep ==
  ASSUME TypeOK, AccountingInv, WorkerInv, ResultsInv, [Next]_vars
  PROVE  [Contract!CNext]_(Contract!cvars)
<1>1. ASSUME NEW s \in {"preview", "video"}, EnqueueStream(s)
      PROVE  Contract!CNext \/ UNCHANGED Contract!cvars
  <2>1. /\ <<s, frame>> \in Owned /\ UNCHANGED <<accepted, lastImage, closed>>
        /\ returned' = returned \/ returned' = returned \cup {<<s, frame>>}
    BY <1>1, OwnedFacts, CarrierFacts
       DEF EnqueueStream, HandStream, ReturnError, results, shape, Owned, ResultsInv
  <2>2. CASE returned' = returned
    BY <2>1, <2>2 DEF Contract!cvars
  <2>3. CASE returned' = returned \cup {<<s, frame>>}
    BY <2>1, <2>3, ReturnStep DEF Contract!CNext
  <2>. QED
    BY <2>1, <2>2, <2>3
<1>2. ASSUME NEW s \in Streams, HeadBack(s) PROVE Contract!CNext
  <2>1. <<s, Head(queue[s])>> \in QueuedBuffers
    BY <1>2, HeadBuffer DEF HeadBack
  <2>2. <<s, Head(queue[s])>> \in Owned
    BY <2>1, OwnedFacts DEF Owned, Waiting, ResultsInv
  <2>. QED
    BY <1>2, <2>2, ReturnStep DEF HeadBack, ReturnError, Contract!CNext
<1>3. ASSUME NEW s \in Streams, NEW t \in Threads, TakeUp(t, s)
      PROVE  UNCHANGED Contract!cvars
  BY <1>3 DEF TakeUp, results, Contract!cvars
<1>4. ASSUME NEW t \in Threads, HandBack(t) PROVE Contract!CNext \/ UNCHANGED Contract!cvars
  <2>1. /\ \A b, c \in held[t] : b = c
        /\ returned' = returned \cup held[t] /\ UNCHANGED <<accepted, closed>>
        /\ \/ UNCHANGED lastImage
           \/ t \in Carriers /\ \E b \in held[t] : ReturnImage(b[1], b[2])
    BY <1>4, HandedBack
  <2>2. CASE held[t] = {}
    BY <2>1, <2>2 DEF Contract!cvars
  <2>3. ASSUME NEW b \in held[t] PROVE Contract!CNext
    <3>1. held[t] = {b} /\ b \in Owned
      BY <2>1, OwnedFacts DEF Owned, ResultsInv
    <3>2. CASE UNCHANGED lastImage
      BY <2>1, <3>1, <3>2, ReturnStep DEF Contract!CNext
    <3>3. CASE t \in Carriers /\ ReturnImage(b[1], b[2])
      <4>1. lastImage[b[1]] < b[2]
        BY <3>3 DEF ResultsInv, OrderInv, Pending
      <4>. QED
        BY <2>1, <3>1, <3>3, <4>1, ReturnStep DEF ReturnImage, Contract!CNext
    <3>. QED
      BY <2>1, <3>1, <3>2, <3>3
  <2>. QED
    BY <2>2, <2>3
<1>5. CASE Steady
  <2>1. CASE DeleteDevice
    <3>1. Owned = {} /\ closed' = TRUE
      BY <2>1, ClosesEmpty DEF DeleteDevice
    <3>. QED
      BY <1>5, <3>1 DEF Steady, Owned, Contract!CloseDevice, Contract!CNext
  <2>2. CASE UNCHANGED closed
    BY <1>5, <2>2 DEF Steady, Contract!cvars
  <2>. QED
    BY <2>1, <2>2, ClosedStays
<1>6. ASSUME NEW outs \in Outputs, RejectRequest(outs) \/ ReserveJpeg(outs)
      PROVE  Contract!CNext
  BY <1>6, AcceptStep DEF Contract!CNext
<1>. QED
  BY <1>1, <1>2, <1>3, <1>4, <1>5, <1>6, NextEffect DEF Effect

(* The pipeline implements BufferContract: with any number of requests,    *)
(* flushes, reconfigurations and errors, every buffer is returned at most  *)
(* once, good images of a stream come back in the order of their frames,   *)
(* and close leaves nothing with the HAL.                                  *)
THEOREM PipelineImplementsContract == Spec => ImplementsContract
<1>1. Init => Contract!CInit
  BY DEF Init, Contract!CInit
<1>. QED
  BY <1>1, ContractStep, TypeCorrect, AlwaysAccounting, AlwaysWorker, AlwaysResults, PTL
     DEF Spec, ImplementsContract, Contract!CSpec

-----------------------------------------------------------------------------
(* Still pictures.                                                         *)

(* Where a thread is between a cause to look at the JPEG queue and the end *)
(* of the capture it may begin; and where the worker is before it tells    *)
(* that the preview runs.                                                  *)
Looking  == {"shutter", "enqueue", "copy", "backJpeg", "record", "failRecording", "start",
             "begin", "take", "fail", "giveBack"}
PreStart == {"wait", "starting", "started", "failPreview", "failVideo", "failJpeg"}

(* The steps that have nothing to do with still pictures.                  *)
Quiet ==
  /\ queue'["jpeg"] = queue["jpeg"]
  /\ UNCHANGED <<jpegActive, captures, carry, flushing, previewStarted, disturbed, request>>
  /\ \A t \in Capturers : pc'[t] = pc[t] \/ {pc[t], pc'[t]} \cap Looking = {}
  /\ pc'["worker"] \in PreStart => pc["worker"] \in PreStart \/ pc["ctl"] = "apply"

StillEffect ==
  \/ Quiet
  \/ \E outs \in Outputs : ReserveJpeg(outs)
  \/ SendShutter \/ EndRequest
  \/ \E t \in Capturers : StartNextJpeg(t)
  \/ PreviewStarted \/ StartRecording
  \/ Drain("worker", "video", "failRecording", "start")
  \/ Drain("worker", "jpeg", "failJpeg", "exited")
  \/ JpegImage \/ CopyImage("jcb", "start")
  \/ EngineError \/ GiveBack("ncb", "backJpeg", "start")
  \/ FlushJoin \/ CancelPicture \/ StopPreview \/ FlushDone \/ DeleteDevice
  \/ Drain("ctl", "jpeg", "drainJpeg", "unflush")

(* A thread moves within the part of its program that does not look.       *)
LEMMA QuietMove ==
  ASSUME TypeOK, NEW t \in Threads, NEW to, UNCHANGED pc \/ Goto(t, to),
         t \in Capturers => {pc[t], to} \cap Looking = {},
         t = "worker" => to \notin PreStart \/ pc[t] \in PreStart,
         queue'["jpeg"] = queue["jpeg"],
         UNCHANGED <<jpegActive, captures, carry, flushing, previewStarted, disturbed,
                     request>>
  PROVE  Quiet
<1>1. CASE UNCHANGED pc
  BY <1>1 DEF Quiet
<1>2. CASE Goto(t, to)
  <2>1. pc'[t] = to /\ \A u \in Threads : u # t => pc'[u] = pc[u]
    BY <1>2 DEF Goto, TypeOK, PcOK
  <2>2. Capturers \subseteq Threads /\ "worker" \in Threads
    BY DEF Capturers, Threads
  <2>. QED
    BY <2>1, <2>2 DEF Quiet
<1>. QED
  BY <1>1, <1>2

(* The heads of the other queues are none of its business.                 *)
LEMMA OtherQueue ==
  ASSUME TypeOK, NEW s \in {"preview", "video"},
         TakeHead(s) \/ UNCHANGED <<queue, jpegActive>>
  PROVE  queue'["jpeg"] = queue["jpeg"] /\ UNCHANGED jpegActive
BY DEF TakeHead, TypeOK, Streams

LEMMA QuietDrain ==
  ASSUME TypeOK, NEW t \in {"worker", "ctl"}, NEW s \in {"preview", "video"}, NEW at,
         NEW next, Drain(t, s, at, next), {at, next} \cap Looking = {},
         at \in PreStart \/ next \notin PreStart
  PROVE  Quiet
<1>1. queue'["jpeg"] = queue["jpeg"] /\ UNCHANGED jpegActive
  BY OtherQueue DEF Drain
<1>2. UNCHANGED <<captures, carry, flushing, previewStarted, disturbed, request>>
  BY DEF Drain, legacy, flags, input
<1>3. t \in Threads /\ pc[t] = at /\ (UNCHANGED pc \/ Goto(t, next))
  BY DEF Drain, Threads
<1>. QED
  BY <1>1, <1>2, <1>3, QuietMove

LEMMA StillRequest == TypeOK /\ ProcessRequest => StillEffect
<1> SUFFICES ASSUME TypeOK, ProcessRequest PROVE StillEffect
  OBVIOUS
<1>. USE DEF legacy, flags, input
<1>1. ASSUME NEW outs \in Outputs, RejectRequest(outs) PROVE Quiet
  BY <1>1 DEF RejectRequest, NewRequest, Quiet
<1>2. ASSUME NEW s \in {"preview", "video"}, EnqueueStream(s) PROVE Quiet
  <2>1. queue'["jpeg"] = queue["jpeg"]
    BY <1>2 DEF EnqueueStream, AppendStream, TypeOK, Streams
  <2>. QED
    BY <1>2, <2>1 DEF EnqueueStream, HandStream, Quiet
<1>. QED
  BY <1>1, <1>2 DEF ProcessRequest, StillEffect

LEMMA StillWorker == TypeOK /\ (Worker \/ SpuriousWakeup) => StillEffect
<1> SUFFICES ASSUME TypeOK, Worker \/ SpuriousWakeup PROVE StillEffect
  OBVIOUS
<1>. USE DEF legacy, flags, input
<1>1. "worker" \in Threads
  BY DEF Threads
<1>2. CASE WorkerWake
  <2>1. /\ pc["worker"] = "wait" /\ \E to \in {"exited", "starting"} : Goto("worker", to)
        /\ UNCHANGED <<queue, jpegActive, captures, carry, flushing, previewStarted,
                       disturbed, request>>
    BY <1>2 DEF WorkerWake
  <2>2. Quiet
    BY <1>1, <2>1, QuietMove DEF Looking, PreStart
  <2>. QED
    BY <2>2 DEF StillEffect
<1>3. CASE StartPreview
  <2>1. /\ pc["worker"] = "starting"
        /\ \E to \in {"started", "failPreview"} : Goto("worker", to)
        /\ UNCHANGED <<queue, jpegActive, captures, carry, flushing, previewStarted,
                       disturbed, request>>
    BY <1>3 DEF StartPreview
  <2>2. Quiet
    BY <1>1, <2>1, QuietMove DEF Looking, PreStart
  <2>. QED
    BY <2>2 DEF StillEffect
<1>4. CASE Drain("worker", "preview", "failPreview", "failVideo")
  BY <1>4, QuietDrain DEF Looking, PreStart, StillEffect
<1>5. CASE Drain("worker", "video", "failVideo", "failJpeg")
  BY <1>5, QuietDrain DEF Looking, PreStart, StillEffect
<1>6. CASE WorkerSleep \/ SpuriousWakeup
  BY <1>6 DEF WorkerSleep, SpuriousWakeup, Quiet, StillEffect
<1>. QED
  BY <1>2, <1>3, <1>4, <1>5, <1>6 DEF Worker, StillEffect

LEMMA StillCallback == TypeOK /\ Callbacks => StillEffect
<1> SUFFICES ASSUME TypeOK, Callbacks PROVE StillEffect
  OBVIOUS
<1>. USE DEF legacy, flags, input, bounds
<1>1. {"pcb", "vcb"} \cap Capturers = {} /\ {"pcb", "vcb", "ncb"} \subseteq Threads
  BY DEF Threads, Capturers
<1>2. ASSUME NEW s \in {"preview", "video"}, NEW t \in {"pcb", "vcb"}, NEW needs,
             StreamFrame(s, needs, t)
      PROVE  Quiet
  <2>1. /\ TakeHead(s) /\ Goto(t, "copy")
        /\ UNCHANGED <<captures, carry, flushing, previewStarted, disturbed, request>>
    BY <1>2 DEF StreamFrame
  <2>. QED
    BY <1>1, <2>1, OtherQueue, QuietMove
<1>3. ASSUME NEW t \in {"pcb", "vcb"}, CopyImage(t, "idle") PROVE Quiet
  <2>1. /\ Goto(t, "idle")
        /\ UNCHANGED <<queue, jpegActive, captures, carry, flushing, previewStarted,
                       disturbed, request>>
    BY <1>3 DEF CopyImage
  <2>. QED
    BY <1>1, <2>1, QuietMove
<1>4. ASSUME NEW s \in {"preview", "video"}, NEW at, NEW back, NEW next,
             FailHead("ncb", s, at, back, next), {at, back, next} \cap Looking = {}
      PROVE  Quiet
  <2>1. /\ TakeHead(s) \/ UNCHANGED <<queue, jpegActive>>
        /\ \E to \in {back, next} : Goto("ncb", to) /\ pc["ncb"] = at
        /\ UNCHANGED <<captures, carry, flushing, previewStarted, disturbed, request>>
    BY <1>4 DEF FailHead
  <2>2. queue'["jpeg"] = queue["jpeg"] /\ UNCHANGED jpegActive
    BY <2>1, OtherQueue
  <2>. QED
    BY <1>1, <1>4, <2>1, <2>2, QuietMove
<1>5. ASSUME NEW at, NEW next, GiveBack("ncb", at, next), {at, next} \cap Looking = {}
      PROVE  Quiet
  <2>1. /\ Goto("ncb", next) /\ pc["ncb"] = at
        /\ UNCHANGED <<queue, jpegActive, captures, carry, flushing, previewStarted,
                       disturbed, request>>
    BY <1>5 DEF GiveBack
  <2>. QED
    BY <1>1, <1>5, <2>1, QuietMove
<1>6. PreviewFrame \/ VideoFrame => Quiet
  BY <1>2 DEF PreviewFrame, VideoFrame
<1>7. ErrorPreview \/ ErrorVideo => Quiet
  BY <1>4 DEF ErrorPreview, ErrorVideo, Looking
<1>8. ReturnErrored => Quiet \/ GiveBack("ncb", "backJpeg", "start")
  BY <1>5 DEF ReturnErrored, Looking
<1>. QED
  BY <1>3, <1>6, <1>7, <1>8 DEF Callbacks, NotifySteps, StillEffect

LEMMA StillControl == TypeOK /\ WorkerInv /\ ControlSteps => StillEffect
<1> SUFFICES ASSUME TypeOK, WorkerInv, ControlSteps PROVE StillEffect
  OBVIOUS
<1>. USE DEF legacy, flags, input
<1>1. "ctl" \in Threads \ Capturers /\ "worker" \in Threads /\ Capturers \subseteq Threads
  BY DEF Threads, Capturers
<1>2. CASE Flush \/ ConfigureStreams \/ Close \/ StopRecording
  <2>1. /\ \E to : Goto("ctl", to)
        /\ UNCHANGED <<queue, jpegActive, captures, carry, flushing, previewStarted,
                       disturbed, request>>
    BY <1>2 DEF Flush, ConfigureStreams, Close, FlushCall, StopRecording
  <2>. QED
    BY <1>1, <2>1, QuietMove DEF StillEffect
<1>3. CASE ConfigureApply
  <2>1. /\ pc["ctl"] = "apply"
        /\ UNCHANGED <<queue, jpegActive, captures, carry, flushing, previewStarted,
                       disturbed, request>>
    BY <1>3 DEF ConfigureApply
  <2>2. CASE Goto("ctl", "idle")
    BY <1>1, <2>1, <2>2, QuietMove DEF StillEffect
  <2>3. CASE pc' = [pc EXCEPT !["ctl"] = "idle", !["worker"] = "wait"]
    <3>1. \A t \in Capturers : t # "worker" => pc'[t] = pc[t]
      BY <1>1, <2>3 DEF TypeOK, PcOK
    <3>2. pc["worker"] = "none" /\ pc'["worker"] = "wait"
      BY <1>1, <2>1, <2>3 DEF WorkerInv, Stopped, TypeOK, PcOK
    <3>3. Quiet
      BY <2>1, <3>1, <3>2 DEF Quiet, Looking
    <3>. QED
      BY <3>3 DEF StillEffect
  <2>. QED
    BY <1>3, <2>2, <2>3 DEF ConfigureApply
<1>4. CASE FlushDrain
  <2>1. CASE Drain("ctl", "preview", "drainPreview", "drainVideo")
    BY <2>1, QuietDrain DEF Looking, PreStart, StillEffect
  <2>2. CASE Drain("ctl", "video", "drainVideo", "drainJpeg")
    BY <2>2, QuietDrain DEF Looking, PreStart, StillEffect
  <2>. QED
    BY <1>4, <2>1, <2>2 DEF FlushDrain, StillEffect
<1>. QED
  BY <1>2, <1>3, <1>4 DEF ControlSteps, FlushSteps, StillEffect

LEMMA NextStill == TypeOK /\ WorkerInv /\ [Next]_vars => StillEffect
<1>1. UNCHANGED vars => StillEffect
  BY DEF vars, flags, legacy, input, StillEffect, Quiet
<1>. QED
  BY <1>1, StillRequest, StillWorker, StillCallback, StillControl
     DEF Next, Terminated, ControlSteps, StillEffect

LEMMA Moved ==
  ASSUME TypeOK, NEW t \in Threads, NEW to, Goto(t, to)
  PROVE  pc'[t] = to /\ \A u \in Threads : u # t => pc'[u] = pc[u]
BY DEF Goto, TypeOK, PcOK

LEMMA CapturerFacts ==
  /\ Capturers \subseteq Threads /\ {"req", "worker", "jcb", "ncb"} = Capturers
  /\ "ctl" \in Threads \ Capturers
BY DEF Capturers, Threads

(* A turn of start_next_jpeg_capture.                                      *)
LEMMA CaptureTurn ==
  ASSUME TypeOK, NEW t \in Capturers, StartNextJpeg(t)
  PROVE  /\ \A u \in Threads : u # t => pc'[u] = pc[u]
         /\ pc[t] \in {"start", "begin", "take", "fail", "giveBack"}
         /\ pc'[t] \in {"begin", "take", "fail", "giveBack", Home(t)}
         /\ UNCHANGED <<flushing, previewStarted, disturbed, request>>
<1>. USE DEF StartNextJpeg, StartNext, BeginJpeg, TakePicture, GiveUpJpeg, FailHead,
             ReturnFailed, GiveBack
<1>1. \E to \in {"begin", "take", "fail", "giveBack", Home(t)} : Goto(t, to)
  OBVIOUS
<1>2. pc[t] \in {"start", "begin", "take", "fail", "giveBack"}
  OBVIOUS
<1>3. UNCHANGED <<flushing, previewStarted, disturbed, request>>
  BY DEF flags, input
<1>. QED
  BY <1>1, <1>2, <1>3, Moved, CapturerFacts

LEMMA HomeOf == \A t \in Capturers : Home(t) \in {"exited", "idle"}
BY DEF Home

(* No worker that has yet to announce the preview finds it announced.      *)
StartInv == pc["worker"] \in PreStart => ~previewStarted

LEMMA NextStart == TypeOK /\ WorkerInv /\ StartInv /\ [Next]_vars => StartInv'
<1> SUFFICES ASSUME TypeOK, WorkerInv, StartInv, [Next]_vars, pc'["worker"] \in PreStart
             PROVE  ~previewStarted'
  BY DEF StartInv
<1>. USE DEF flags
<1>1. "worker" \in Threads /\ "worker" \in Capturers
  BY DEF Threads, Capturers
<1>2. CASE Quiet
  <2>1. pc["worker"] \in PreStart \/ pc["ctl"] = "apply"
    BY <1>2 DEF Quiet
  <2>2. ~previewStarted
    BY <2>1 DEF StartInv, WorkerInv, Stopped
  <2>. QED
    BY <1>2, <2>2 DEF Quiet
<1>3. ASSUME NEW t \in {"req", "jcb", "ncb", "ctl"}, NEW to, UNCHANGED pc \/ Goto(t, to),
             previewStarted' => previewStarted
      PROVE  ~previewStarted'
  BY <1>1, <1>3, Moved DEF StartInv, Threads
<1>4. ASSUME NEW outs \in Outputs, ReserveJpeg(outs) PROVE ~previewStarted'
  BY <1>3, <1>4 DEF ReserveJpeg, NewRequest
<1>5. CASE SendShutter \/ EndRequest
  BY <1>3, <1>5 DEF SendShutter, EndRequest
<1>6. ASSUME NEW t \in Capturers, StartNextJpeg(t) PROVE ~previewStarted'
  <2>1. t # "worker"
    BY <1>6, CaptureTurn, HomeOf DEF PreStart
  <2>. QED
    BY <1>1, <1>6, <2>1, CaptureTurn DEF StartInv
<1>7. CASE PreviewStarted \/ StartRecording
  <2>1. \E to \in {"record", "start", "failRecording"} : Goto("worker", to)
    BY <1>7 DEF PreviewStarted, StartRecording
  <2>. QED
    BY <1>1, <2>1, Moved DEF PreStart
<1>8. CASE \/ Drain("worker", "video", "failRecording", "start")
           \/ Drain("worker", "jpeg", "failJpeg", "exited")
  <2>1. /\ \/ UNCHANGED pc
           \/ \E to \in {"start", "exited"} : Goto("worker", to)
        /\ UNCHANGED previewStarted
    BY <1>8 DEF Drain
  <2>. QED
    BY <1>1, <2>1, Moved DEF PreStart, StartInv
<1>9. CASE JpegImage
  BY <1>3, <1>9 DEF JpegImage
<1>10. CASE CopyImage("jcb", "start")
  BY <1>3, <1>10 DEF CopyImage
<1>11. CASE EngineError \/ GiveBack("ncb", "backJpeg", "start")
  BY <1>3, <1>11 DEF EngineError, GiveBack
<1>12. CASE FlushJoin
  BY <1>1, <1>12 DEF FlushJoin, TypeOK, PcOK, PreStart
<1>13. CASE CancelPicture \/ FlushDone \/ DeleteDevice
  BY <1>3, <1>13 DEF CancelPicture, FlushDone, DeleteDevice
<1>14. CASE StopPreview
  BY <1>14 DEF StopPreview
<1>15. CASE Drain("ctl", "jpeg", "drainJpeg", "unflush")
  BY <1>3, <1>15 DEF Drain
<1>. QED
  BY <1>2, <1>4, <1>5, <1>6, <1>7, <1>8, <1>9, <1>10, <1>11, <1>12, <1>13, <1>14, <1>15,
     NextStill DEF StillEffect

-----------------------------------------------------------------------------
(* An active capture is pursued.                                           *)

(* A step that begins no capture, delivers none and ends no pursuit.       *)
LEMMA StillPursued ==
  ASSUME TypeOK, ActiveIsPursued, jpegActive' => jpegActive, UNCHANGED flushing,
         captures # <<>> => captures' # <<>>,
         \A t \in Capturers : pc[t] \in {"take", "fail"} => pc'[t] = pc[t]
  PROVE  ActiveIsPursued'
BY DEF ActiveIsPursued

(* The ends of a capture.                                                  *)
LEMMA TakenInactive == TakeHead("jpeg") => jpegActive' = FALSE
BY DEF TakeHead

LEMMA PursuedCapture ==
  ASSUME TypeOK, ActiveImpliesQueued, ActiveIsPursued, NEW t \in Capturers, StartNextJpeg(t)
  PROVE  ActiveIsPursued'
<1>. USE DEF flags, legacy
<1>1. t \in Threads
  BY CapturerFacts
<1>2. CASE StartNext(t) \/ (BeginJpeg(t) /\ UNCHANGED jpegActive)
  <2>1. UNCHANGED <<jpegActive, captures, flushing>> /\ pc[t] \notin {"take", "fail"}
    BY <1>2 DEF StartNext, BeginJpeg
  <2>2. \A u \in Capturers : pc[u] \in {"take", "fail"} => pc'[u] = pc[u]
    BY <2>1, CaptureTurn, CapturerFacts
  <2>. QED
    BY <2>1, <2>2, StillPursued
<1>3. CASE BeginJpeg(t) /\ ~UNCHANGED jpegActive
  <2>1. Goto(t, "take")
    BY <1>3 DEF BeginJpeg
  <2>. QED
    BY <1>1, <2>1, Moved DEF ActiveIsPursued
<1>4. CASE TakePicture(t)
  <2>1. CASE Goto(t, "fail")
    BY <1>1, <2>1, Moved DEF ActiveIsPursued
  <2>2. CASE captures' = Append(captures, carry[t])
    <3>1. captures \in Seq(Frames)
      BY DEF TypeOK
    <3>2. captures' # <<>>
      BY <2>2, <3>1
    <3>. QED
      BY <3>2 DEF ActiveIsPursued
  <2>. QED
    BY <1>4, <2>1, <2>2 DEF TakePicture
<1>5. CASE GiveUpJpeg(t)
  <2>1. jpegActive' = FALSE \/ (jpegActive' = jpegActive /\ queue["jpeg"] = <<>>)
    <3>1. TakeHead("jpeg") \/ (queue["jpeg"] = <<>> /\ jpegActive' = jpegActive)
      BY <1>5 DEF GiveUpJpeg, FailHead
    <3>. QED
      BY <3>1, TakenInactive
  <2>2. ~jpegActive'
    BY <2>1 DEF ActiveImpliesQueued
  <2>. QED
    BY <2>2 DEF ActiveIsPursued
<1>6. CASE ReturnFailed(t)
  <2>1. UNCHANGED <<jpegActive, captures, flushing>> /\ pc[t] \notin {"take", "fail"}
    BY <1>6 DEF ReturnFailed, GiveBack
  <2>2. \A u \in Capturers : pc[u] \in {"take", "fail"} => pc'[u] = pc[u]
    BY <2>1, CaptureTurn, CapturerFacts
  <2>. QED
    BY <2>1, <2>2, StillPursued
<1>. QED
  BY <1>2, <1>3, <1>4, <1>5, <1>6 DEF StartNextJpeg

LEMMA NextPursued ==
  TypeOK /\ WorkerInv /\ DrainedInv /\ ActiveImpliesQueued /\ ActiveIsPursued /\ [Next]_vars
    => ActiveIsPursued'
<1> SUFFICES ASSUME TypeOK, WorkerInv, DrainedInv, ActiveImpliesQueued, ActiveIsPursued,
                    [Next]_vars
             PROVE  ActiveIsPursued'
  OBVIOUS
<1>. USE DEF flags, legacy
<1>1. CASE Quiet
  <2>1. \A t \in Capturers : pc[t] \in {"take", "fail"} => pc'[t] = pc[t]
    BY <1>1 DEF Quiet, Looking
  <2>. QED
    BY <1>1, <2>1, StillPursued DEF Quiet
<1>2. ASSUME NEW t \in Threads, NEW to, UNCHANGED pc \/ Goto(t, to),
             pc[t] \notin {"take", "fail"},
             UNCHANGED <<flushing, captures>>, jpegActive' => jpegActive
      PROVE  ActiveIsPursued'
  <2>1. \A u \in Capturers : pc[u] \in {"take", "fail"} => pc'[u] = pc[u]
    BY <1>2, Moved, CapturerFacts
  <2>. QED
    BY <1>2, <2>1, StillPursued
<1>3. {"req", "worker", "jcb", "ncb", "ctl"} \subseteq Threads
  BY DEF Threads
<1>4. ASSUME NEW outs \in Outputs, ReserveJpeg(outs) PROVE ActiveIsPursued'
  BY <1>2, <1>3, <1>4 DEF ReserveJpeg, NewRequest
<1>5. CASE SendShutter \/ EndRequest
  <2>1. /\ \E to : Goto("req", to)
        /\ pc["req"] \in {"shutter", "enqueue"} /\ UNCHANGED <<flushing, captures, jpegActive>>
    BY <1>5 DEF SendShutter, EndRequest
  <2>. QED
    BY <1>2, <1>3, <2>1
<1>6. CASE PreviewStarted \/ StartRecording
  <2>1. /\ \E to : Goto("worker", to)
        /\ pc["worker"] \in {"started", "record"}
        /\ UNCHANGED <<flushing, captures, jpegActive>>
    BY <1>6 DEF PreviewStarted, StartRecording
  <2>. QED
    BY <1>2, <1>3, <2>1
<1>7. ASSUME NEW t \in {"worker", "ctl"}, NEW s \in Streams, NEW at,
             at \notin {"take", "fail"}, NEW next, Drain(t, s, at, next)
      PROVE  ActiveIsPursued'
  <2>1. pc[t] = at /\ (UNCHANGED pc \/ Goto(t, next)) /\ UNCHANGED <<flushing, captures>>
    BY <1>7 DEF Drain
  <2>2. jpegActive' => jpegActive
    <3>1. TakeHead(s) => jpegActive' = FALSE \/ jpegActive' = jpegActive
      BY DEF TakeHead
    <3>. QED
      BY <1>7, <3>1 DEF Drain
  <2>. QED
    BY <1>2, <1>3, <1>7, <2>1, <2>2
<1>8. CASE JpegImage \/ EngineError
  <2>1. ~jpegActive'
    BY <1>8, TakenInactive DEF JpegImage, EngineError, ActiveImpliesQueued
  <2>. QED
    BY <2>1 DEF ActiveIsPursued
<1>9. CASE CopyImage("jcb", "start") \/ GiveBack("ncb", "backJpeg", "start")
  <2>1. /\ \E t \in {"jcb", "ncb"} : Goto(t, "start") /\ pc[t] \in {"copy", "backJpeg"}
        /\ UNCHANGED <<flushing, captures, jpegActive>>
    BY <1>9 DEF CopyImage, GiveBack
  <2>. QED
    BY <1>2, <1>3, <2>1
<1>10. CASE FlushJoin
  BY <1>10 DEF FlushJoin, ActiveIsPursued
<1>11. CASE CancelPicture \/ StopPreview
  <2>1. flushing /\ UNCHANGED flushing
    BY <1>11 DEF CancelPicture, StopPreview, WorkerInv, Flushing
  <2>. QED
    BY <2>1 DEF ActiveIsPursued
<1>12. CASE FlushDone \/ DeleteDevice
  <2>1. queue["jpeg"] = <<>>
    BY <1>12 DEF FlushDone, DeleteDevice, DrainedInv, Past, Streams
  <2>2. ~jpegActive'
    BY <1>12, <2>1 DEF FlushDone, DeleteDevice, ActiveImpliesQueued
  <2>. QED
    BY <2>2 DEF ActiveIsPursued
<1>13. \/ Drain("worker", "video", "failRecording", "start")
       \/ Drain("worker", "jpeg", "failJpeg", "exited")
       \/ Drain("ctl", "jpeg", "drainJpeg", "unflush")
       => ActiveIsPursued'
  BY <1>7 DEF Streams
<1>. QED
  BY <1>1, <1>4, <1>5, <1>6, <1>8, <1>9, <1>10, <1>11, <1>12, <1>13, PursuedCapture, NextStill
     DEF StillEffect

-----------------------------------------------------------------------------
(* No queued picture is left alone.                                        *)

(* A step of one thread that fills no queue and ends no capture, and       *)
(* leaves the thread where it still looks at the JPEG queue.               *)
LEMMA StillLooked ==
  ASSUME TypeOK, NoStrandedJpeg, queue["jpeg"] # <<>>, ~jpegActive, ~flushing,
         previewStarted, NEW t \in Threads, NEW to, UNCHANGED pc \/ Goto(t, to),
         UNCHANGED request \/ t = "req",
         t \in Capturers => ~OnTheWay(t) \/ OnTheWay(t)'
  PROVE  \E u \in Capturers : OnTheWay(u)'
<1>1. PICK u \in Capturers : OnTheWay(u)
  BY DEF NoStrandedJpeg
<1>2. CASE u = t
  BY <1>1, <1>2
<1>3. CASE u # t
  <2>1. pc'[u] = pc[u]
    BY <1>3, Moved, CapturerFacts
  <2>2. UNCHANGED request \/ pc[u] \notin {"shutter", "enqueue"}
    BY <1>1, <1>3 DEF TypeOK, PcOK, Capturers, CaptureSteps
  <2>3. OnTheWay(u)'
    BY <1>1, <2>1, <2>2 DEF OnTheWay
  <2>. QED
    BY <2>3
<1>. QED
  BY <1>2, <1>3

LEMMA StrandedCapture ==
  ASSUME TypeOK, NoStrandedJpeg, NEW t \in Capturers, StartNextJpeg(t)
  PROVE  NoStrandedJpeg'
<1> SUFFICES ASSUME previewStarted', queue'["jpeg"] # <<>>, ~jpegActive', ~flushing'
             PROVE  \E u \in Capturers : OnTheWay(u)'
  BY DEF NoStrandedJpeg
<1>. USE DEF flags, legacy
<1>1. t \in Threads
  BY CapturerFacts
<1>2. ~flushing /\ previewStarted /\ UNCHANGED request
  BY CaptureTurn
<1>3. CASE StartNext(t)
  <2>1. Goto(t, "begin")
    BY <1>2, <1>3 DEF StartNext
  <2>2. OnTheWay(t)'
    BY <1>1, <2>1, Moved DEF OnTheWay
  <2>. QED
    BY <2>2
<1>4. CASE BeginJpeg(t)
  BY <1>2, <1>4 DEF BeginJpeg
<1>5. CASE TakePicture(t)
  <2>1. /\ pc[t] = "take" /\ queue["jpeg"] # <<>> /\ ~jpegActive
        /\ \E to : Goto(t, to)
    BY <1>5 DEF TakePicture
  <2>2. ~OnTheWay(t)
    BY <2>1 DEF OnTheWay
  <2>. QED
    BY <1>1, <1>2, <2>1, <2>2, StillLooked
<1>6. CASE GiveUpJpeg(t) \/ ReturnFailed(t)
  <2>1. \/ Goto(t, "begin")
        \/ Goto(t, "giveBack")
        \/ queue' = queue /\ queue["jpeg"] = <<>>
    <3>1. CASE GiveUpJpeg(t)
      BY <3>1 DEF GiveUpJpeg, FailHead
    <3>2. CASE ReturnFailed(t)
      BY <3>2 DEF ReturnFailed, GiveBack
    <3>. QED
      BY <1>6, <3>1, <3>2
  <2>2. Goto(t, "begin") \/ Goto(t, "giveBack") => OnTheWay(t)'
    BY <1>1, Moved DEF OnTheWay
  <2>. QED
    BY <2>1, <2>2
<1>. QED
  BY <1>3, <1>4, <1>5, <1>6 DEF StartNextJpeg

LEMMA NextStranded ==
  TypeOK /\ WorkerInv /\ StartInv /\ DrainedInv /\ NoStrandedJpeg /\ [Next]_vars
    => NoStrandedJpeg'
<1> SUFFICES ASSUME TypeOK, WorkerInv, StartInv, DrainedInv, NoStrandedJpeg, [Next]_vars,
                    previewStarted', queue'["jpeg"] # <<>>, ~jpegActive', ~flushing'
             PROVE  \E u \in Capturers : OnTheWay(u)'
  BY DEF NoStrandedJpeg
<1>. USE DEF flags, legacy
<1>1. CASE Quiet
  <2>1. PICK u \in Capturers : OnTheWay(u)
    BY <1>1 DEF Quiet, NoStrandedJpeg
  <2>2. pc[u] \in Looking /\ UNCHANGED request
    BY <1>1, <2>1 DEF OnTheWay, Looking, Quiet
  <2>3. pc'[u] = pc[u]
    BY <1>1, <2>2 DEF Quiet
  <2>4. OnTheWay(u)'
    BY <2>1, <2>2, <2>3 DEF OnTheWay
  <2>. QED
    BY <2>4
<1>2. {"req", "worker", "jcb", "ncb", "ctl"} \subseteq Threads
      /\ {"req", "worker", "jcb", "ncb"} \subseteq Capturers
  BY DEF Threads, Capturers
<1>3. ASSUME NEW outs \in Outputs, ReserveJpeg(outs) PROVE \E u \in Capturers : OnTheWay(u)'
  <2>1. Goto("req", "shutter") /\ request' = outs /\ pc["req"] = "idle"
    BY <1>3 DEF ReserveJpeg, NewRequest
  <2>2. CASE "jpeg" \in outs
    <3>1. OnTheWay("req")'
      BY <1>2, <2>1, <2>2, Moved DEF OnTheWay
    <3>. QED
      BY <1>2, <3>1
  <2>3. CASE "jpeg" \notin outs
    <3>1. UNCHANGED <<queue, jpegActive, flushing, previewStarted>>
      BY <1>3, <2>3 DEF ReserveJpeg, NewRequest
    <3>2. ~OnTheWay("req")
      BY <2>1 DEF OnTheWay
    <3>. QED
      BY <1>2, <2>1, <3>1, <3>2, StillLooked
  <2>. QED
    BY <2>2, <2>3
<1>4. CASE SendShutter \/ EndRequest
  <2>1. UNCHANGED <<queue, jpegActive, flushing, previewStarted>>
    BY <1>4 DEF SendShutter, EndRequest
  <2>2. PICK to : Goto("req", to)
    BY <1>4 DEF SendShutter, EndRequest
  <2>3. OnTheWay("req") => OnTheWay("req")'
    <3>1. CASE SendShutter
      <4>1. pc["req"] = "shutter" /\ Goto("req", "enqueue") /\ UNCHANGED request
        BY <3>1 DEF SendShutter, input
      <4>. QED
        BY <1>2, <4>1, Moved DEF OnTheWay
    <3>2. CASE EndRequest
      <4>1. /\ pc["req"] = "enqueue"
            /\ Goto("req", IF "jpeg" \in request THEN "start" ELSE "idle")
        BY <3>2 DEF EndRequest
      <4>. QED
        BY <1>2, <4>1, Moved DEF OnTheWay
    <3>. QED
      BY <1>4, <3>1, <3>2
  <2>. QED
    BY <1>2, <2>1, <2>2, <2>3, StillLooked
<1>5. ASSUME NEW t \in Capturers, StartNextJpeg(t) PROVE \E u \in Capturers : OnTheWay(u)'
  BY <1>5, StrandedCapture DEF NoStrandedJpeg
<1>6. ASSUME NEW t \in Capturers,
             NEW to \in {"record", "failRecording", "start", "copy", "backJpeg"}, Goto(t, to)
      PROVE  \E u \in Capturers : OnTheWay(u)'
  <2>1. t \in Threads
    BY CapturerFacts
  <2>2. OnTheWay(t)'
    BY <1>6, <2>1, Moved DEF OnTheWay
  <2>. QED
    BY <2>2
<1>7. CASE PreviewStarted \/ StartRecording
  <2>1. \E to \in {"record", "failRecording", "start"} : Goto("worker", to)
    BY <1>7 DEF PreviewStarted, StartRecording
  <2>. QED
    BY <1>2, <1>6, <2>1
<1>8. CASE Drain("worker", "video", "failRecording", "start")
  <2>1. CASE Goto("worker", "start")
    BY <1>2, <1>6, <2>1
  <2>2. CASE UNCHANGED pc
    <3>1. pc["worker"] = "failRecording"
      BY <1>8 DEF Drain
    <3>2. OnTheWay("worker")'
      BY <2>2, <3>1 DEF OnTheWay
    <3>. QED
      BY <1>2, <3>2
  <2>. QED
    BY <1>8, <2>1, <2>2 DEF Drain
<1>9. CASE Drain("worker", "jpeg", "failJpeg", "exited")
  BY <1>9 DEF Drain, StartInv, PreStart
<1>10. CASE JpegImage
  <2>1. Goto("jcb", "copy") \/ Goto("jcb", "start")
    BY <1>10 DEF JpegImage
  <2>. QED
    BY <1>2, <1>6, <2>1
<1>11. CASE CopyImage("jcb", "start") \/ GiveBack("ncb", "backJpeg", "start")
  <2>1. Goto("jcb", "start") \/ Goto("ncb", "start")
    BY <1>11 DEF CopyImage, GiveBack
  <2>. QED
    BY <1>2, <1>6, <2>1
<1>12. CASE EngineError
  <2>1. Goto("ncb", "backJpeg")
    BY <1>12 DEF EngineError
  <2>. QED
    BY <1>2, <1>6, <2>1
<1>13. CASE FlushJoin
  BY <1>13 DEF FlushJoin
<1>14. CASE \/ CancelPicture \/ StopPreview
            \/ Drain("ctl", "jpeg", "drainJpeg", "unflush")
  BY <1>14 DEF CancelPicture, StopPreview, Drain, WorkerInv, Flushing
<1>15. CASE FlushDone \/ DeleteDevice
  BY <1>15 DEF FlushDone, DeleteDevice, DrainedInv, Past, Streams
<1>. QED
  BY <1>1, <1>3, <1>4, <1>5, <1>7, <1>8, <1>9, <1>10, <1>11, <1>12, <1>13, <1>14, <1>15,
     NextStill DEF StillEffect

-----------------------------------------------------------------------------
(* Images and requests.                                                    *)

(* Before a flush or an error disturbs the JPEG queue at most one thread   *)
(* asks for a picture, for the request at the head, and only while the     *)
(* engine has none to deliver; the one it then delivers is of that head.   *)
(* A capture needs the preview, so the worker, whose failing start also    *)
(* drains the JPEG queue, is never beside one.                             *)
Calm ==
  /\ ~flushing
  /\ captures # <<>> => jpegActive /\ captures = <<Head(queue["jpeg"])>>
  /\ \A t \in Capturers : pc[t] \in {"take", "fail"} => captures = <<>> /\ jpegActive
  /\ \A t \in Capturers : pc[t] = "take" => carry[t] = Head(queue["jpeg"])
  /\ \A t, u \in Capturers :
        pc[t] \in {"take", "fail"} /\ pc[u] \in {"take", "fail"} => t = u
  /\ jpegActive => previewStarted
  /\ \A t \in Capturers : pc[t] \in {"begin", "giveBack"} => previewStarted
ImageInv == disturbed \/ Calm

LEMMA StillDisturbed == StillEffect /\ disturbed => disturbed'
<1> SUFFICES ASSUME StillEffect, disturbed PROVE disturbed'
  OBVIOUS
<1>1. ASSUME NEW outs \in Outputs, ReserveJpeg(outs) PROVE disturbed'
  BY <1>1 DEF ReserveJpeg, NewRequest
<1>2. ASSUME NEW t \in Capturers, StartNextJpeg(t) PROVE disturbed'
  BY <1>2, CaptureTurn DEF StartNextJpeg, StartNext, BeginJpeg, TakePicture, GiveUpJpeg,
                           FailHead, ReturnFailed, GiveBack
<1>3. \A t, s, at, next : Drain(t, s, at, next) => disturbed'
  BY DEF Drain
<1>4. Quiet \/ SendShutter \/ EndRequest \/ PreviewStarted \/ StartRecording => disturbed'
  BY DEF Quiet, SendShutter, EndRequest, PreviewStarted, StartRecording
<1>5. ASSUME JpegImage \/ CopyImage("jcb", "start") \/ EngineError
             \/ GiveBack("ncb", "backJpeg", "start")
      PROVE  disturbed'
  BY <1>5 DEF JpegImage, CopyImage, EngineError, GiveBack
<1>6. FlushJoin \/ CancelPicture \/ StopPreview \/ FlushDone \/ DeleteDevice => disturbed'
  BY DEF FlushJoin, CancelPicture, StopPreview, FlushDone, DeleteDevice
<1>. QED
  BY <1>1, <1>2, <1>3, <1>4, <1>5, <1>6 DEF StillEffect

(* A step of a thread that asks for no picture, next to no change of the   *)
(* JPEG queue: it may at most add a picture at its end.                    *)
LEMMA StillCalm ==
  ASSUME TypeOK, ActiveImpliesQueued, Calm, NEW t \in Threads, NEW to,
         UNCHANGED pc \/ Goto(t, to), to \notin {"begin", "take", "fail", "giveBack"},
         UNCHANGED <<jpegActive, captures, carry, flushing>>,
         previewStarted => previewStarted',
         queue["jpeg"] # <<>> => queue'["jpeg"] # <<>> /\ Head(queue'["jpeg"]) = Head(queue["jpeg"])
  PROVE  Calm'
<1>1. \A u \in Capturers :
         pc'[u] \in {"begin", "take", "fail", "giveBack"} => pc'[u] = pc[u]
  BY Moved, CapturerFacts
<1>2. captures' # <<>> => jpegActive' /\ captures' = <<Head(queue'["jpeg"])>>
  BY DEF Calm, ActiveImpliesQueued
<1>3. \A u \in Capturers : pc'[u] = "take" => carry'[u] = Head(queue'["jpeg"])
  BY <1>1 DEF Calm, ActiveImpliesQueued
<1>4. \A u \in Capturers : pc'[u] \in {"take", "fail"} => captures' = <<>> /\ jpegActive'
  BY <1>1 DEF Calm
<1>5. \A u, v \in Capturers :
        pc'[u] \in {"take", "fail"} /\ pc'[v] \in {"take", "fail"} => u = v
  BY <1>1 DEF Calm
<1>. QED
  BY <1>1, <1>2, <1>3, <1>4, <1>5 DEF Calm

(* The head leaves with its capture, which nobody else is about.           *)
LEMMA TakenCalm ==
  ASSUME TypeOK, Calm, NEW t \in Threads, NEW to, UNCHANGED pc \/ Goto(t, to),
         to \notin {"take", "fail"}, to \in {"begin", "giveBack"} => previewStarted,
         \A u \in Capturers : pc[u] \in {"take", "fail"} => u = t /\ ~UNCHANGED pc,
         captures' = <<>>, ~jpegActive', UNCHANGED <<flushing, previewStarted>>
  PROVE  Calm'
<1>1. \A u \in Capturers : pc'[u] \notin {"take", "fail"}
  BY Moved, CapturerFacts
<1>2. \A u \in Capturers : pc'[u] \in {"begin", "giveBack"} => previewStarted
  BY Moved, CapturerFacts DEF Calm
<1>. QED
  BY <1>1, <1>2 DEF Calm

LEMMA CalmCapture ==
  ASSUME TypeOK, ActiveImpliesQueued, Calm, NEW t \in Capturers, StartNextJpeg(t)
  PROVE  Calm'
<1>. USE DEF flags, legacy
<1>1. t \in Threads /\ Home(t) \notin {"begin", "take", "fail", "giveBack"}
  BY CapturerFacts, HomeOf
<1>2. CASE StartNext(t)
  <2>1. CASE previewStarted
    <3>1. /\ Goto(t, "begin")
          /\ UNCHANGED <<queue, jpegActive, captures, carry, flushing, previewStarted>>
      BY <1>2, <2>1 DEF StartNext
    <3>2. \A u \in Capturers : pc'[u] = pc[u] \/ pc'[u] = "begin"
      BY <1>1, <3>1, Moved, CapturerFacts
    <3>. QED
      BY <2>1, <3>1, <3>2 DEF Calm
  <2>2. CASE ~previewStarted
    <3>1. /\ Goto(t, Home(t))
          /\ UNCHANGED <<queue, jpegActive, captures, carry, flushing, previewStarted>>
      BY <1>2, <2>2 DEF StartNext
    <3>. QED
      BY <1>1, <3>1, StillCalm
  <2>. QED
    BY <2>1, <2>2
<1>3. CASE BeginJpeg(t)
  <2>1. UNCHANGED <<queue, captures, flushing, previewStarted>> /\ pc[t] = "begin"
    BY <1>3 DEF BeginJpeg
  <2>2. CASE ~flushing /\ ~jpegActive /\ queue["jpeg"] # <<>>
    <3>1. jpegActive' /\ Goto(t, "take") /\ carry' = [carry EXCEPT ![t] = Head(queue["jpeg"])]
      BY <1>3, <2>2 DEF BeginJpeg
    <3>2. carry'[t] = Head(queue["jpeg"])
      BY <1>1, <3>1 DEF TypeOK
    <3>3. captures = <<>> /\ \A u \in Capturers : pc[u] \notin {"take", "fail"}
      BY <2>2 DEF Calm
    <3>4. previewStarted
      BY <2>1 DEF Calm
    <3>5. /\ pc'[t] = "take"
          /\ \A u \in Capturers : u # t => pc'[u] = pc[u]
      BY <1>1, <3>1, Moved, CapturerFacts
    <3>. QED
      BY <2>1, <3>1, <3>2, <3>3, <3>4, <3>5 DEF Calm
  <2>3. CASE ~(~flushing /\ ~jpegActive /\ queue["jpeg"] # <<>>)
    <3>1. Goto(t, Home(t)) /\ UNCHANGED <<jpegActive, carry>>
      BY <1>3, <2>3 DEF BeginJpeg
    <3>. QED
      BY <1>1, <2>1, <3>1, StillCalm
  <2>. QED
    BY <2>2, <2>3
<1>4. CASE TakePicture(t)
  <2>1. /\ UNCHANGED <<queue, jpegActive, flushing, previewStarted>> /\ pc[t] = "take"
        /\ \/ captures' = Append(captures, carry[t]) /\ Goto(t, Home(t))
           \/ UNCHANGED captures /\ Goto(t, "fail")
    BY <1>4 DEF TakePicture
  <2>2. /\ captures = <<>> /\ jpegActive /\ carry[t] = Head(queue["jpeg"]) /\ previewStarted
        /\ \A u \in Capturers : pc[u] \in {"take", "fail"} => u = t
    BY <2>1 DEF Calm
  <2>3. CASE captures' = Append(captures, carry[t]) /\ Goto(t, Home(t))
    <3>1. captures' = <<Head(queue["jpeg"])>>
      BY <2>2, <2>3
    <3>2. \A u \in Capturers : pc'[u] \notin {"take", "fail"}
      BY <1>1, <2>2, <2>3, Moved, CapturerFacts
    <3>. QED
      BY <2>1, <2>2, <3>1, <3>2 DEF Calm
  <2>4. CASE UNCHANGED captures /\ Goto(t, "fail")
    <3>1. pc'[t] = "fail" /\ \A u \in Capturers : u # t => pc'[u] = pc[u]
      BY <1>1, <2>4, Moved, CapturerFacts
    <3>. QED
      BY <2>1, <2>2, <2>4, <3>1 DEF Calm
  <2>. QED
    BY <2>1, <2>3, <2>4
<1>5. CASE GiveUpJpeg(t)
  <2>1. /\ captures = <<>> /\ jpegActive /\ queue["jpeg"] # <<>> /\ previewStarted
        /\ \A u \in Capturers : pc[u] \in {"take", "fail"} => u = t
    BY <1>5 DEF GiveUpJpeg, FailHead, Calm, ActiveImpliesQueued
  <2>2. /\ TakeHead("jpeg") /\ Goto(t, "giveBack") /\ pc[t] = "fail"
        /\ UNCHANGED <<captures, flushing, previewStarted>>
    BY <1>5, <2>1 DEF GiveUpJpeg, FailHead
  <2>3. ~jpegActive'
    BY <2>2, TakenInactive
  <2>4. ~UNCHANGED pc
    BY <1>1, <2>2, Moved
  <2>. QED
    BY <1>1, <2>1, <2>2, <2>3, <2>4, TakenCalm
<1>6. CASE ReturnFailed(t)
  <2>1. /\ pc[t] = "giveBack" /\ Goto(t, "begin")
        /\ UNCHANGED <<queue, jpegActive, captures, carry, flushing, previewStarted>>
    BY <1>6 DEF ReturnFailed, GiveBack
  <2>2. previewStarted
    BY <2>1 DEF Calm
  <2>3. \A u \in Capturers : pc'[u] = pc[u] \/ pc'[u] = "begin"
    BY <1>1, <2>1, Moved, CapturerFacts
  <2>. QED
    BY <2>1, <2>2, <2>3 DEF Calm
<1>. QED
  BY <1>2, <1>3, <1>4, <1>5, <1>6 DEF StartNextJpeg

LEMMA NextImage ==
  TypeOK /\ WorkerInv /\ StartInv /\ DrainedInv /\ ActiveImpliesQueued /\ ImageInv
    /\ [Next]_vars => ImageInv'
<1> SUFFICES ASSUME TypeOK, WorkerInv, StartInv, DrainedInv, ActiveImpliesQueued, ImageInv,
                    [Next]_vars, ~disturbed'
             PROVE  Calm'
  BY DEF ImageInv
<1>. USE DEF flags, legacy
<1>0. StillEffect /\ ~disturbed /\ Calm /\ ~flushing
  BY NextStill, StillDisturbed DEF ImageInv, Calm
<1>1. {"req", "worker", "jcb", "ncb", "ctl"} \subseteq Threads
      /\ {"req", "worker", "jcb", "ncb"} \subseteq Capturers
  BY DEF Threads, Capturers
<1>2. CASE Quiet
  <2>1. \A t \in Capturers :
           pc'[t] \in {"begin", "take", "fail", "giveBack"} => pc'[t] = pc[t]
    BY <1>2 DEF Quiet, Looking
  <2>2. /\ queue'["jpeg"] = queue["jpeg"]
        /\ UNCHANGED <<jpegActive, captures, carry, flushing, previewStarted>>
    BY <1>2 DEF Quiet
  <2>. QED
    BY <1>0, <2>1, <2>2 DEF Calm
<1>3. ASSUME NEW outs \in Outputs, ReserveJpeg(outs) PROVE Calm'
  <2>1. /\ Goto("req", "shutter")
        /\ UNCHANGED <<jpegActive, captures, carry, flushing, previewStarted>>
        /\ queue' = IF "jpeg" \in outs
                    THEN [queue EXCEPT !["jpeg"] = Append(@, frame + 1)] ELSE queue
    BY <1>3 DEF ReserveJpeg, NewRequest
  <2>2. queue["jpeg"] \in Seq(Frames) /\ frame + 1 \in Frames
    <3>1. frame \in 0 .. MaxFrame /\ frame < MaxFrame /\ MaxFrame \in Nat
      BY <1>3, BoundsAssumption DEF ReserveJpeg, NewRequest, TypeOK
    <3>2. frame + 1 \in Frames
      BY <3>1 DEF Frames
    <3>. QED
      BY <3>2 DEF TypeOK, Streams
  <2>3. queue'["jpeg"] = queue["jpeg"] \/ queue'["jpeg"] = Append(queue["jpeg"], frame + 1)
    BY <2>1 DEF TypeOK, Streams
  <2>4. queue["jpeg"] # <<>> =>
          queue'["jpeg"] # <<>> /\ Head(queue'["jpeg"]) = Head(queue["jpeg"])
    BY <2>2, <2>3
  <2>. QED
    BY <1>0, <1>1, <2>1, <2>4, StillCalm
<1>4. ASSUME NEW t \in {"req", "worker", "jcb", "ncb", "ctl"},
             NEW to, to \notin {"begin", "take", "fail", "giveBack"}, UNCHANGED pc \/ Goto(t, to),
             UNCHANGED <<jpegActive, captures, carry, flushing>>,
             previewStarted => previewStarted', queue'["jpeg"] = queue["jpeg"]
      PROVE  Calm'
  BY <1>0, <1>1, <1>4, StillCalm
<1>5. CASE SendShutter \/ EndRequest
  <2>1. /\ \E to \in {"enqueue", "start", "idle"} : Goto("req", to)
        /\ UNCHANGED <<jpegActive, captures, carry, flushing, queue, previewStarted>>
    BY <1>5 DEF SendShutter, EndRequest
  <2>. QED
    BY <1>4, <2>1
<1>6. CASE PreviewStarted \/ StartRecording
  <2>1. /\ \E to \in {"record", "start", "failRecording"} : Goto("worker", to)
        /\ UNCHANGED <<jpegActive, captures, carry, flushing, queue>>
        /\ previewStarted => previewStarted'
    BY <1>6 DEF PreviewStarted, StartRecording
  <2>. QED
    BY <1>4, <2>1
<1>7. CASE Drain("worker", "video", "failRecording", "start")
  <2>1. /\ UNCHANGED pc \/ Goto("worker", "start")
        /\ UNCHANGED <<captures, carry, flushing, previewStarted>>
        /\ queue'["jpeg"] = queue["jpeg"] /\ UNCHANGED jpegActive
    BY <1>7, OtherQueue DEF Drain
  <2>. QED
    BY <1>4, <2>1
<1>8. CASE Drain("worker", "jpeg", "failJpeg", "exited")
  <2>1. ~previewStarted
    BY <1>8 DEF Drain, StartInv, PreStart
  <2>2. ~jpegActive /\ captures = <<>> /\ \A t \in Capturers : pc[t] \notin {"take", "fail"}
    BY <1>0, <2>1 DEF Calm
  <2>3. /\ UNCHANGED pc \/ Goto("worker", "exited")
        /\ UNCHANGED <<captures, carry, flushing, previewStarted>>
    BY <1>8 DEF Drain
  <2>4. ~jpegActive'
    BY <1>8, <2>2, TakenInactive DEF Drain
  <2>. QED
    <3>1. \A u \in Capturers : pc[u] \in {"take", "fail"} => u = "worker" /\ ~UNCHANGED pc
      BY <2>2
    <3>2. captures' = <<>> /\ UNCHANGED <<flushing, previewStarted>>
      BY <2>2, <2>3
    <3>3. "worker" \in Threads /\ "exited" \notin {"take", "fail", "begin"}
      BY DEF Threads
    <3>. QED
      BY <1>0, <2>3, <2>4, <3>1, <3>2, <3>3, TakenCalm
<1>9. CASE JpegImage
  <2>1. /\ jpegActive /\ captures = <<Head(queue["jpeg"])>>
        /\ \A t \in Capturers : pc[t] \notin {"take", "fail"}
    BY <1>0, <1>9 DEF JpegImage, Calm
  <2>2. captures' = <<>>
    BY <1>9, <2>1 DEF JpegImage
  <2>3. queue["jpeg"] # <<>>
    BY <2>1 DEF ActiveImpliesQueued
  <2>4. TakeHead("jpeg") /\ Goto("jcb", "copy") /\ UNCHANGED <<flushing, previewStarted>>
    BY <1>9, <2>3 DEF JpegImage
  <2>5. ~jpegActive'
    BY <2>4, TakenInactive
  <2>. QED
    BY <1>0, <1>1, <2>1, <2>2, <2>4, <2>5, TakenCalm
<1>10. CASE CopyImage("jcb", "start") \/ GiveBack("ncb", "backJpeg", "start")
  <2>1. /\ Goto("jcb", "start") \/ Goto("ncb", "start")
        /\ UNCHANGED <<jpegActive, captures, carry, flushing, queue, previewStarted>>
    BY <1>10 DEF CopyImage, GiveBack
  <2>. QED
    BY <1>4, <2>1
<1>11. CASE EngineError
  <2>1. /\ queue["jpeg"] = <<>> /\ Goto("ncb", "errorPreview")
        /\ captures' \in {captures} \cup {Tail(c) : c \in {captures} \ {<<>>}}
        /\ UNCHANGED <<queue, jpegActive, carry, flushing, previewStarted>>
    BY <1>11 DEF EngineError
  <2>2. ~jpegActive /\ captures = <<>>
    BY <1>0, <2>1 DEF Calm, ActiveImpliesQueued
  <2>3. UNCHANGED captures
    BY <2>1, <2>2
  <2>. QED
    BY <1>0, <1>1, <2>1, <2>3, StillCalm
<1>12. CASE FlushJoin
  BY <1>12 DEF FlushJoin
<1>13. CASE \/ CancelPicture \/ StopPreview \/ FlushDone
            \/ Drain("ctl", "jpeg", "drainJpeg", "unflush")
  BY <1>0, <1>13 DEF CancelPicture, StopPreview, FlushDone, Drain, WorkerInv, Flushing
<1>14. CASE DeleteDevice
  <2>1. queue["jpeg"] = <<>>
    BY <1>14 DEF DeleteDevice, DrainedInv, Past, Streams
  <2>2. ~jpegActive /\ captures = <<>>
    BY <1>0, <2>1 DEF Calm, ActiveImpliesQueued
  <2>3. /\ Goto("ctl", "idle") /\ captures' = <<>>
        /\ UNCHANGED <<queue, jpegActive, carry, flushing, previewStarted>>
    BY <1>14 DEF DeleteDevice
  <2>. QED
    BY <1>4, <2>2, <2>3
<1>15. ASSUME NEW t \in Capturers, StartNextJpeg(t) PROVE Calm'
  BY <1>0, <1>15, CalmCapture
<1>. QED
  BY <1>0, <1>2, <1>3, <1>5, <1>6, <1>7, <1>8, <1>9, <1>10, <1>11, <1>12, <1>13, <1>14,
     <1>15 DEF StillEffect

-----------------------------------------------------------------------------
(* The theorems about still pictures.                                      *)

PicturesInv == StartInv /\ ActiveIsPursued /\ NoStrandedJpeg /\ ImageInv

LEMMA InitPictures == Init => PicturesInv
<1> SUFFICES ASSUME Init PROVE PicturesInv
  OBVIOUS
<1>1. ~previewStarted /\ ~jpegActive /\ ~flushing /\ captures = <<>>
  BY DEF Init
<1>2. \A t \in Capturers : pc[t] \in {"none", "idle"}
  BY DEF Init, Capturers, Threads
<1>. QED
  BY <1>1, <1>2 DEF PicturesInv, StartInv, ActiveIsPursued, NoStrandedJpeg, ImageInv, Calm

LEMMA AlwaysPictures == Spec => []PicturesInv
<1>1. TypeOK /\ WorkerInv /\ ResultsInv /\ ActiveImpliesQueued /\ PicturesInv /\ [Next]_vars
        => PicturesInv'
  BY NextStart, NextPursued, NextStranded, NextImage DEF ResultsInv, PicturesInv
<1>. QED
  BY <1>1, InitPictures, TypeCorrect, AlwaysWorker, AlwaysResults, ActiveCaptureQueued, PTL
     DEF Spec

(* An active capture is not forgotten: the engine has its picture to       *)
(* deliver, a thread is about to ask for one, or a flush will clear it.    *)
THEOREM ActivePictureIsPursued == Spec => []ActiveIsPursued
<1>1. PicturesInv => ActiveIsPursued
  BY DEF PicturesInv
<1>. QED
  BY <1>1, AlwaysPictures, PTL

(* No wakeup of still pictures is lost: a queued picture that no capture   *)
(* is active for has a thread that will look at the queue, or a flush.     *)
THEOREM NoPictureStranded == Spec => []NoStrandedJpeg
<1>1. PicturesInv => NoStrandedJpeg
  BY DEF PicturesInv
<1>. QED
  BY <1>1, AlwaysPictures, PTL

(* Until a flush or an engine error, the image the engine delivers next    *)
(* belongs to the request that will be given it.                           *)
THEOREM ImagesMatchRequests == Spec => []ImageMatchesRequest
<1>1. TypeOK /\ ActiveImpliesQueued /\ PicturesInv => ImageMatchesRequest
  BY DEF PicturesInv, ImageInv, Calm, ActiveImpliesQueued, ImageMatchesRequest
<1>. QED
  BY <1>1, TypeCorrect, ActiveCaptureQueued, AlwaysPictures, PTL
=============================================================================
