----------------------- MODULE Camera3Pipeline_proofs -----------------------
(***************************************************************************)
(* Proofs about Camera3Pipeline for every value of its constants.          *)
(***************************************************************************)
EXTENDS Camera3Pipeline, SequenceTheorems, TLAPS

(* A thread that starts captures may be anywhere in that loop or leave it. *)
LEMMA CapturePc ==
  ASSUME PcOK, NEW t \in Capturers, NEW to \in CaptureSteps \cup {Home(t)}, Goto(t, to)
  PROVE  PcOK'
<1>1. t \in Threads
  BY DEF Capturers, Threads
<1>2. pc' = [u \in Threads |-> pc'[u]]
  BY <1>1 DEF PcOK, Goto
<1>3. pc'[t] = to /\ \A u \in Threads : u # t => pc'[u] = pc[u]
  BY <1>1 DEF PcOK, Goto
<1>4. CASE t = "req"
  BY <1>2, <1>3, <1>4 DEF PcOK, Threads, Home
<1>5. CASE t = "worker"
  BY <1>2, <1>3, <1>5 DEF PcOK, Threads, Home
<1>6. CASE t = "jcb"
  BY <1>2, <1>3, <1>6 DEF PcOK, Threads, Home
<1>7. CASE t = "ncb"
  BY <1>2, <1>3, <1>7 DEF PcOK, Threads, Home
<1>. QED
  BY <1>4, <1>5, <1>6, <1>7 DEF Capturers

(* Taking the head of a queue yields a frame and leaves typed queues.      *)
LEMMA TakeHeadType ==
  ASSUME TypeOK, NEW s \in Streams, TakeHead(s)
  PROVE  /\ queue' \in [Streams -> Seq(Frames)]
         /\ jpegActive' \in BOOLEAN
         /\ Head(queue[s]) \in Frames
         /\ {<<s, Head(queue[s])>>} \subseteq Buffers
<1>1. queue[s] \in Seq(Frames) /\ queue[s] # <<>>
  BY DEF TypeOK, TakeHead
<1>2. Head(queue[s]) \in Frames /\ Tail(queue[s]) \in Seq(Frames)
  BY <1>1, HeadTailProperties
<1>3. queue' \in [Streams -> Seq(Frames)] /\ jpegActive' \in BOOLEAN
  BY <1>2 DEF TypeOK, TakeHead
<1>4. <<s, Head(queue[s])>> \in Buffers
  BY <1>2 DEF Buffers
<1>. QED
  BY <1>2, <1>3, <1>4

(* Moving a thread elsewhere than to "take" or "shutter" keeps CarryOK.     *)
LEMMA GotoCarry ==
  ASSUME TypeOK, NEW t \in Threads, NEW to, to \notin {"take", "shutter"}, Goto(t, to),
         UNCHANGED <<carry, frame>>
  PROVE  CarryOK'
<1>1. \A u \in Threads : pc'[u] = IF u = t THEN to ELSE pc[u]
  BY DEF TypeOK, PcOK, Goto
<1>. QED
  BY <1>1 DEF TypeOK, CarryOK, Capturers, Threads

(* So does not moving any thread.                                          *)
LEMMA StayPut ==
  ASSUME TypeOK, UNCHANGED <<pc, carry, frame>>
  PROVE  PcOK' /\ CarryOK'
<1>1. PcOK'
  BY DEF TypeOK, PcOK
<1>2. CarryOK'
  BY DEF TypeOK, CarryOK
<1>. QED
  BY <1>1, <1>2

(* A draining loop returns a typed buffer or moves on.                     *)
LEMMA DrainType ==
  ASSUME TypeOK, NEW t \in Threads, NEW s \in Streams, NEW at, NEW next,
         Drain(t, s, at, next), next \notin {"take", "shutter"}, Goto(t, next) => PcOK'
  PROVE  TypeOK'
<1>. USE DEF flags, shape, legacy, input, bounds, results
<1>0. UNCHANGED <<carry, frame>>
  BY DEF Drain
<1>1. CASE TakeHead(s) /\ ReturnError({<<s, Head(queue[s])>>}) /\ UNCHANGED pc
  <2>1. /\ queue' \in [Streams -> Seq(Frames)]
        /\ jpegActive' \in BOOLEAN
        /\ {<<s, Head(queue[s])>>} \subseteq Buffers
    BY <1>1, TakeHeadType
  <2>2. returned' \subseteq Buffers /\ UNCHANGED <<accepted, shutter, rejected, lastImage>>
    BY <1>1, <2>1 DEF ReturnError, TypeOK
  <2>3. PcOK' /\ CarryOK'
    BY <1>0, <1>1, StayPut
  <2>. QED
    <3>1. UNCHANGED <<flags, shape, legacy, held, carry, input, bounds, disturbed>>
      BY DEF Drain
    <3>. QED
      BY <2>1, <2>2, <2>3, <3>1 DEF TypeOK
<1>2. CASE queue[s] = <<>> /\ Goto(t, next) /\ UNCHANGED <<queue, jpegActive, results>>
  <2>1. PcOK' /\ CarryOK'
    BY <1>0, <1>2, GotoCarry
  <2>. QED
    BY <1>2, <2>1 DEF TypeOK, Drain
<1>. QED
  BY <1>1, <1>2 DEF Drain

(* A thread that fails the head of a queue holds a buffer or moves on.     *)
LEMMA FailHeadType ==
  ASSUME TypeOK, NEW t \in Threads, NEW s \in Streams, NEW at, NEW back, NEW next,
         FailHead(t, s, at, back, next),
         back \notin {"take", "shutter"}, next \notin {"take", "shutter"},
         Goto(t, back) => PcOK', Goto(t, next) => PcOK'
  PROVE  TypeOK'
<1>. USE DEF flags, shape, legacy, input, bounds, results
<1>0. UNCHANGED <<flags, shape, legacy, carry, input, bounds, results, disturbed>>
  BY DEF FailHead
<1>1. CASE TakeHead(s) /\ held' = [held EXCEPT ![t] = {<<s, Head(queue[s])>>}] /\ Goto(t, back)
  <2>1. /\ queue' \in [Streams -> Seq(Frames)]
        /\ jpegActive' \in BOOLEAN
        /\ {<<s, Head(queue[s])>>} \subseteq Buffers
    BY <1>1, TakeHeadType
  <2>2. held' \in [Threads -> SUBSET Buffers]
    BY <1>1, <2>1 DEF TypeOK
  <2>3. PcOK' /\ CarryOK'
    BY <1>0, <1>1, GotoCarry
  <2>. QED
    BY <1>0, <2>1, <2>2, <2>3 DEF TypeOK
<1>2. CASE queue[s] = <<>> /\ Goto(t, next) /\ UNCHANGED <<queue, jpegActive, held>>
  <2>1. PcOK' /\ CarryOK'
    BY <1>0, <1>2, GotoCarry
  <2>. QED
    BY <1>0, <1>2, <2>1 DEF TypeOK
<1>. QED
  BY <1>1, <1>2 DEF FailHead

(* Then it gives back what it holds.                                       *)
LEMMA GiveBackType ==
  ASSUME TypeOK, NEW t \in Threads, NEW at, NEW next, GiveBack(t, at, next),
         next \notin {"take", "shutter"}, Goto(t, next) => PcOK'
  PROVE  TypeOK'
<1>. USE DEF flags, shape, legacy, input, bounds, results
<1>0. UNCHANGED <<queue, jpegActive, flags, shape, legacy, carry, input, bounds, disturbed>>
  BY DEF GiveBack
<1>1. PcOK' /\ CarryOK'
  BY <1>0, GotoCarry DEF GiveBack
<1>2. returned' \subseteq Buffers /\ UNCHANGED <<accepted, shutter, rejected, lastImage>>
  BY DEF GiveBack, ReturnError, TypeOK
<1>3. held' \in [Threads -> SUBSET Buffers]
  BY DEF GiveBack, TypeOK
<1>. QED
  BY <1>0, <1>1, <1>2, <1>3 DEF TypeOK

-----------------------------------------------------------------------------
(* Type correctness, one lemma per group of actions.                       *)

LEMMA InitType == Init => TypeOK
<1> SUFFICES ASSUME Init PROVE TypeOK
  OBVIOUS
<1>1. <<>> \in Seq(Frames)
  OBVIOUS
<1>2. PcOK /\ CarryOK
  BY DEF Init, PcOK, CarryOK, Threads, Capturers
<1>3. /\ queue \in [Streams -> Seq(Frames)]
      /\ held \in [Threads -> SUBSET Buffers] /\ carry \in [Threads -> 0 .. MaxFrame]
      /\ lastImage \in [Streams -> 0 .. MaxFrame] /\ captures \in Seq(Frames)
      /\ frame \in 0 .. MaxFrame /\ control \in 0 .. MaxControl /\ errors \in 0 .. MaxErrors
  BY <1>1, BoundsAssumption DEF Init
<1>. QED
  BY <1>2, <1>3 DEF Init, TypeOK

LEMMA RequestType == TypeOK /\ ProcessRequest => TypeOK'
<1> SUFFICES ASSUME TypeOK, ProcessRequest PROVE TypeOK'
  OBVIOUS
<1>. USE DEF flags, shape, legacy, input, bounds, results
<1>1. ASSUME NEW outs \in Outputs, NewRequest(outs)
      PROVE  /\ outs \subseteq Streams
             /\ frame' \in 0 .. MaxFrame /\ frame + 1 \in Frames /\ frame' = frame + 1
             /\ outs \X {frame + 1} \subseteq Buffers
             /\ accepted' \subseteq Buffers
             /\ (outs \ {"jpeg"}) \X {frame + 1} \subseteq Buffers
  <2>1. outs \subseteq Streams
    BY InputAssumption
  <2>2. frame' \in 0 .. MaxFrame /\ frame + 1 \in Frames /\ frame' = frame + 1
    BY <1>1, BoundsAssumption DEF NewRequest, TypeOK, Frames
  <2>3. outs \X {frame + 1} \subseteq Buffers
    BY <2>1, <2>2 DEF Buffers
  <2>4. accepted' \subseteq Buffers
    BY <1>1, <2>3 DEF NewRequest, TypeOK
  <2>. QED
    BY <2>1, <2>2, <2>3, <2>4
<1>2. ASSUME NEW outs \in Outputs, RejectRequest(outs) PROVE TypeOK'
  <2>1. NewRequest(outs)
    BY <1>2 DEF RejectRequest
  <2>2. returned' \subseteq Buffers /\ rejected' \subseteq Frames
    BY <1>1, <1>2, <2>1 DEF RejectRequest, TypeOK
  <2>3. PcOK'
    BY <1>2 DEF RejectRequest, TypeOK, PcOK
  <2>4. CarryOK'
    BY <1>2, <2>1 DEF RejectRequest, NewRequest, TypeOK, CarryOK
  <2>5. UNCHANGED <<queue, jpegActive, flags, shape, legacy, held, carry, request, bounds,
                    shutter, lastImage, disturbed>>
    BY <1>2, <2>1 DEF RejectRequest, NewRequest
  <2>6. accepted' \subseteq Buffers /\ frame' \in 0 .. MaxFrame
    BY <1>1, <2>1
  <2>. QED
    BY <2>2, <2>3, <2>4, <2>5, <2>6 DEF TypeOK, flags, shape, legacy, bounds
<1>3. ASSUME NEW outs \in Outputs, ReserveJpeg(outs) PROVE TypeOK'
  <2>1. NewRequest(outs)
    BY <1>3 DEF ReserveJpeg
  <2>2. queue' \in [Streams -> Seq(Frames)]
    <3>1. "jpeg" \in Streams /\ queue["jpeg"] \in Seq(Frames)
      BY DEF TypeOK, Streams
    <3>2. Append(queue["jpeg"], frame + 1) \in Seq(Frames)
      BY <1>1, <2>1, <3>1, AppendProperties
    <3>. QED
      BY <1>3, <3>2 DEF ReserveJpeg, TypeOK
  <2>3. held' \in [Threads -> SUBSET Buffers]
    BY <1>1, <1>3, <2>1 DEF ReserveJpeg, TypeOK
  <2>4. PcOK'
    BY <1>3 DEF ReserveJpeg, TypeOK, PcOK, Goto, Threads
  <2>5. CarryOK'
    BY <1>1, <1>3, <2>1
       DEF ReserveJpeg, NewRequest, TypeOK, PcOK, CarryOK, Goto, Threads, Capturers
  <2>6. UNCHANGED <<jpegActive, flags, shape, legacy, carry, bounds, returned, rejected,
                    shutter, lastImage, disturbed>>
    BY <1>3, <2>1 DEF ReserveJpeg, NewRequest
  <2>7. /\ accepted' \subseteq Buffers /\ frame' \in 0 .. MaxFrame
        /\ request' \subseteq Streams
    BY <1>1, <1>3, <2>1 DEF ReserveJpeg
  <2>. QED
    BY <2>2, <2>3, <2>4, <2>5, <2>6, <2>7 DEF TypeOK, flags, shape, legacy, bounds
<1>4. CASE SendShutter
  <2>1. shutter' \subseteq Frames
    BY <1>4 DEF SendShutter, TypeOK, CarryOK
  <2>2. PcOK'
    BY <1>4 DEF SendShutter, TypeOK, PcOK, Goto, Threads
  <2>3. CarryOK'
    BY <1>4, GotoCarry DEF SendShutter, Threads
  <2>. QED
    BY <1>4, <2>1, <2>2, <2>3 DEF SendShutter, TypeOK
<1>5. ASSUME NEW s \in {"preview", "video"}, EnqueueStream(s) PROVE TypeOK'
  <2>0. /\ held' = [held EXCEPT !["req"] = @ \ {<<s, frame>>}] /\ <<s, frame>> \in held["req"]
        /\ UNCHANGED <<jpegActive, flushing, stop, previewStarted, recordingStarted, joinable,
                       shape, legacy, pc, carry, input, bounds, disturbed>>
    BY <1>5 DEF EnqueueStream, HandStream
  <2>1. s \in Streams /\ "req" \in Threads /\ <<s, frame>> \in Buffers /\ frame \in Frames
    BY <2>0 DEF TypeOK, Streams, Threads, Buffers
  <2>2. queue' \in [Streams -> Seq(Frames)] /\ asleep' \in BOOLEAN
    <3>1. Append(queue[s], frame) \in Seq(Frames)
      BY <2>1, AppendProperties DEF TypeOK
    <3>2. CASE AppendStream(s)
      BY <2>1, <3>1, <3>2 DEF AppendStream, TypeOK
    <3>3. CASE UNCHANGED <<queue, asleep>>
      BY <3>3 DEF TypeOK
    <3>. QED
      BY <1>5, <3>2, <3>3 DEF EnqueueStream
  <2>3. held' \in [Threads -> SUBSET Buffers]
    BY <2>0, <2>1 DEF TypeOK
  <2>4. returned' \subseteq Buffers /\ UNCHANGED <<accepted, shutter, rejected, lastImage>>
    BY <1>5, <2>1 DEF EnqueueStream, TypeOK, ReturnError
  <2>5. PcOK' /\ CarryOK'
    BY <2>0, StayPut
  <2>. QED
    BY <2>0, <2>2, <2>3, <2>4, <2>5 DEF TypeOK
<1>6. CASE EndRequest
  <2>1. PcOK'
    BY <1>6 DEF EndRequest, TypeOK, PcOK, Goto, Threads, CaptureSteps
  <2>2. CarryOK'
    BY <1>6, GotoCarry DEF EndRequest, Threads
  <2>. QED
    BY <1>6, <2>1, <2>2 DEF EndRequest, TypeOK
<1>. QED
  BY <1>2, <1>3, <1>4, <1>5, <1>6 DEF ProcessRequest

LEMMA CaptureType == \A t \in Capturers : TypeOK /\ StartNextJpeg(t) => TypeOK'
<1> SUFFICES ASSUME NEW t \in Capturers, TypeOK, StartNextJpeg(t) PROVE TypeOK'
  OBVIOUS
<1>. USE DEF flags, shape, legacy, input, bounds, results
<1>a. t \in Threads /\ "jpeg" \in Streams
  BY DEF Capturers, Threads, Streams
<1>h. Home(t) \notin {"take", "shutter"}
  BY DEF Home
<1>1. CASE StartNext(t)
  <2>1. PcOK'
    BY <1>1, CapturePc DEF StartNext, TypeOK, CaptureSteps
  <2>2. CarryOK'
    BY <1>1, <1>a, <1>h, GotoCarry DEF StartNext
  <2>. QED
    BY <1>1, <2>1, <2>2 DEF StartNext, TypeOK
<1>2. CASE BeginJpeg(t)
  <2>1. PcOK'
    BY <1>2, CapturePc DEF BeginJpeg, TypeOK, CaptureSteps
  <2>2. CASE ~flushing /\ ~jpegActive /\ queue["jpeg"] # <<>>
    <3>1. Head(queue["jpeg"]) \in Frames
      BY <1>a, <2>2, HeadTailProperties DEF TypeOK
    <3>2. carry' \in [Threads -> 0 .. MaxFrame]
      <4>1. carry \in [Threads -> 0 .. MaxFrame] /\ Head(queue["jpeg"]) \in 0 .. MaxFrame
        BY <3>1, BoundsAssumption DEF TypeOK, Frames
      <4>2. carry' = [carry EXCEPT ![t] = Head(queue["jpeg"])]
        BY <1>2, <2>2 DEF BeginJpeg
      <4>. QED
        BY <4>1, <4>2
    <3>3. CarryOK'
      <4>1. pc' = [pc EXCEPT ![t] = "take"]
            /\ carry' = [carry EXCEPT ![t] = Head(queue["jpeg"])] /\ frame' = frame
        BY <1>2, <2>2 DEF BeginJpeg, Goto
      <4>2. \A u \in Threads : u # t => pc'[u] = pc[u] /\ carry'[u] = carry[u]
        BY <4>1 DEF TypeOK, PcOK
      <4>3. carry'[t] \in Frames /\ pc'[t] = "take"
        BY <1>a, <3>1, <4>1 DEF TypeOK, PcOK
      <4>. QED
        BY <4>1, <4>2, <4>3 DEF TypeOK, CarryOK, Capturers, Threads
    <3>. QED
      BY <1>2, <2>1, <2>2, <3>2, <3>3 DEF BeginJpeg, TypeOK
  <2>3. CASE ~(~flushing /\ ~jpegActive /\ queue["jpeg"] # <<>>)
    <3>1. CarryOK'
      BY <1>2, <1>a, <1>h, <2>3, GotoCarry DEF BeginJpeg
    <3>. QED
      BY <1>2, <2>1, <2>3, <3>1 DEF BeginJpeg, TypeOK
  <2>. QED
    BY <2>2, <2>3
<1>3. CASE TakePicture(t)
  <2>1. PcOK'
    BY <1>3, CapturePc DEF TakePicture, TypeOK, CaptureSteps
  <2>2. captures' \in Seq(Frames)
    <3>1. carry[t] \in Frames
      BY <1>3 DEF TakePicture, TypeOK, CarryOK
    <3>2. Append(captures, carry[t]) \in Seq(Frames)
      BY <3>1, AppendProperties DEF TypeOK
    <3>. QED
      BY <1>3, <3>2 DEF TakePicture, TypeOK
  <2>3. carry' \in [Threads -> 0 .. MaxFrame]
    <3>1. carry \in [Threads -> 0 .. MaxFrame] /\ 0 \in 0 .. MaxFrame
      BY BoundsAssumption DEF TypeOK
    <3>2. carry' = [carry EXCEPT ![t] = 0]
      BY <1>3 DEF TakePicture
    <3>. QED
      BY <3>1, <3>2
  <2>4. CarryOK'
    <3>1. \A u \in Threads : u # t => pc'[u] = pc[u] /\ carry'[u] = carry[u]
      BY <1>3 DEF TakePicture, Goto, TypeOK, PcOK
    <3>2. pc'[t] \notin {"take", "shutter"} /\ frame' = frame
      BY <1>3, <1>a, <1>h DEF TakePicture, Goto, TypeOK, PcOK
    <3>. QED
      BY <3>1, <3>2 DEF TypeOK, CarryOK, Capturers, Threads
  <2>. QED
    BY <1>3, <2>1, <2>2, <2>3, <2>4 DEF TakePicture, TypeOK
<1>p. ASSUME NEW to \in CaptureSteps \cup {Home(t)}, Goto(t, to) PROVE PcOK'
  BY <1>p, CapturePc DEF TypeOK
<1>4. CASE GiveUpJpeg(t)
  <2>1. (Goto(t, "giveBack") => PcOK') /\ (Goto(t, Home(t)) => PcOK')
    BY <1>p DEF CaptureSteps
  <2>. QED
    BY <1>4, <1>a, <1>h, <2>1, FailHeadType DEF GiveUpJpeg
<1>5. CASE ReturnFailed(t)
  <2>1. Goto(t, "begin") => PcOK'
    BY <1>p DEF CaptureSteps
  <2>. QED
    BY <1>5, <1>a, <2>1, GiveBackType DEF ReturnFailed
<1>. QED
  BY <1>1, <1>2, <1>3, <1>4, <1>5 DEF StartNextJpeg

LEMMA WorkerType == TypeOK /\ (Worker \/ SpuriousWakeup) => TypeOK'
<1> SUFFICES ASSUME TypeOK, Worker \/ SpuriousWakeup PROVE TypeOK'
  OBVIOUS
<1>. USE DEF flags, shape, legacy, input, bounds, results
<1>a. "worker" \in Threads /\ "preview" \in Streams /\ "video" \in Streams /\ "jpeg" \in Streams
  BY DEF Threads, Streams
<1>p. ASSUME NEW to \in {"starting", "started", "record", "failPreview", "failVideo",
                         "failJpeg", "failRecording", "exited", "start"},
             Goto("worker", to)
      PROVE  PcOK'
  BY <1>p DEF TypeOK, PcOK, Goto, Threads, CaptureSteps
<1>1. CASE WorkerWake
  <2>1. PcOK'
    BY <1>1, <1>p DEF WorkerWake
  <2>2. CarryOK'
    BY <1>1, <1>a, GotoCarry DEF WorkerWake
  <2>. QED
    BY <1>1, <2>1, <2>2 DEF WorkerWake, TypeOK
<1>2. CASE StartPreview
  <2>1. PcOK'
    BY <1>2, <1>p DEF StartPreview
  <2>2. CarryOK'
    BY <1>2, <1>a, GotoCarry DEF StartPreview
  <2>3. engine' \subseteq {"preview", "recording"}
    BY <1>2 DEF StartPreview, TypeOK
  <2>. QED
    BY <1>2, <2>1, <2>2, <2>3 DEF StartPreview, TypeOK
<1>3. CASE PreviewStarted
  <2>1. PcOK'
    BY <1>3, <1>p DEF PreviewStarted
  <2>2. CarryOK'
    BY <1>3, <1>a, GotoCarry DEF PreviewStarted
  <2>. QED
    BY <1>3, <2>1, <2>2 DEF PreviewStarted, TypeOK
<1>4. CASE StartRecording
  <2>1. PcOK'
    BY <1>4, <1>p DEF StartRecording
  <2>2. CarryOK'
    BY <1>4, <1>a, GotoCarry DEF StartRecording
  <2>3. engine' \subseteq {"preview", "recording"} /\ recordingStarted' \in BOOLEAN
    BY <1>4 DEF StartRecording, TypeOK
  <2>. QED
    BY <1>4, <2>1, <2>2, <2>3 DEF StartRecording, TypeOK
<1>5. CASE Drain("worker", "preview", "failPreview", "failVideo")
  BY <1>5, <1>a, <1>p, DrainType
<1>6. CASE Drain("worker", "video", "failVideo", "failJpeg")
  BY <1>6, <1>a, <1>p, DrainType
<1>7. CASE Drain("worker", "jpeg", "failJpeg", "exited")
  BY <1>7, <1>a, <1>p, DrainType
<1>8. CASE Drain("worker", "video", "failRecording", "start")
  BY <1>8, <1>a, <1>p, DrainType
<1>9. CASE WorkerSleep \/ SpuriousWakeup
  <2>1. /\ asleep' \in BOOLEAN
        /\ UNCHANGED <<queue, jpegActive, flushing, stop, previewStarted, recordingStarted,
                       joinable, shape, legacy, pc, held, carry, input, bounds, results,
                       disturbed>>
    BY <1>9 DEF WorkerSleep, SpuriousWakeup
  <2>2. PcOK' /\ CarryOK'
    BY <2>1, StayPut
  <2>. QED
    BY <2>1, <2>2 DEF TypeOK
<1>. QED
  BY <1>1, <1>2, <1>3, <1>4, <1>5, <1>6, <1>7, <1>8, <1>9 DEF Worker

LEMMA CallbackType == TypeOK /\ Callbacks => TypeOK'
<1> SUFFICES ASSUME TypeOK, Callbacks PROVE TypeOK'
  OBVIOUS
<1>. USE DEF flags, shape, legacy, input, bounds, results
<1>1. ASSUME NEW s \in Streams, NEW needs, NEW t \in {"pcb", "vcb"}, StreamFrame(s, needs, t)
      PROVE  TypeOK'
  <2>1. /\ queue' \in [Streams -> Seq(Frames)] /\ jpegActive' \in BOOLEAN
        /\ {<<s, Head(queue[s])>>} \subseteq Buffers
    BY <1>1, TakeHeadType DEF StreamFrame
  <2>2. PcOK'
    BY <1>1 DEF StreamFrame, TypeOK, PcOK, Goto, Threads
  <2>3. CarryOK'
    BY <1>1, GotoCarry DEF StreamFrame, Threads
  <2>4. held' \in [Threads -> SUBSET Buffers]
    BY <1>1, <2>1 DEF StreamFrame, TypeOK
  <2>. QED
    BY <1>1, <2>1, <2>2, <2>3, <2>4 DEF StreamFrame, TypeOK
<1>2. ASSUME NEW t \in {"pcb", "vcb", "jcb"}, NEW next, CopyImage(t, next),
             next = IF t = "jcb" THEN "start" ELSE "idle"
      PROVE  TypeOK'
  <2>1. PICK b \in held[t] : /\ ReturnError({b}) \/ ReturnImage(b[1], b[2])
                             /\ held' = [held EXCEPT ![t] = {}]
                             /\ Goto(t, next)
    BY <1>2 DEF CopyImage
  <2>2. t \in Threads /\ b \in Buffers /\ b[1] \in Streams /\ b[2] \in Frames /\ b = <<b[1], b[2]>>
    BY <1>2, <2>1 DEF TypeOK, Threads, Buffers
  <2>3. /\ returned' \subseteq Buffers /\ lastImage' \in [Streams -> 0 .. MaxFrame]
        /\ UNCHANGED <<accepted, shutter, rejected>>
    <3>1. b[2] \in 0 .. MaxFrame
      BY <2>2, BoundsAssumption DEF Frames
    <3>. QED
      BY <2>1, <2>2, <3>1 DEF ReturnError, ReturnImage, TypeOK
  <2>4. PcOK'
    BY <1>2, <2>1 DEF TypeOK, PcOK, Goto, Threads, CaptureSteps
  <2>5. CarryOK'
    <3>1. next \notin {"take", "shutter"} /\ UNCHANGED <<carry, frame>>
      BY <1>2 DEF CopyImage
    <3>. QED
      BY <2>1, <2>2, <3>1, GotoCarry
  <2>6. held' \in [Threads -> SUBSET Buffers]
    BY <2>1, <2>2 DEF TypeOK
  <2>. QED
    BY <1>2, <2>3, <2>4, <2>5, <2>6 DEF CopyImage, TypeOK
<1>3. CASE JpegImage
  <2>1. captures' \in Seq(Frames)
    BY <1>3, HeadTailProperties DEF JpegImage, TypeOK
  <2>2. PcOK'
    BY <1>3 DEF JpegImage, TypeOK, PcOK, Goto, Threads, CaptureSteps
  <2>3. CarryOK'
    BY <1>3, GotoCarry DEF JpegImage, Threads
  <2>4. /\ queue' \in [Streams -> Seq(Frames)] /\ jpegActive' \in BOOLEAN
        /\ held' \in [Threads -> SUBSET Buffers]
    <3>1. CASE TakeHead("jpeg") /\ held' = [held EXCEPT !["jcb"] = {<<"jpeg", Head(queue["jpeg"])>>}]
      <4>1. /\ queue' \in [Streams -> Seq(Frames)] /\ jpegActive' \in BOOLEAN
            /\ {<<"jpeg", Head(queue["jpeg"])>>} \subseteq Buffers
        BY <3>1, TakeHeadType DEF Streams
      <4>. QED
        BY <3>1, <4>1 DEF TypeOK
    <3>2. CASE UNCHANGED <<queue, jpegActive, held>>
      BY <3>2 DEF TypeOK
    <3>. QED
      BY <1>3, <3>1, <3>2 DEF JpegImage
  <2>. QED
    BY <1>3, <2>1, <2>2, <2>3, <2>4 DEF JpegImage, TypeOK
<1>4. CASE EngineError
  <2>1. captures' \in Seq(Frames)
    <3>1. captures # <<>> => Tail(captures) \in Seq(Frames)
      BY HeadTailProperties DEF TypeOK
    <3>2. captures' = captures \/ (captures # <<>> /\ captures' = Tail(captures))
      BY <1>4 DEF EngineError
    <3>. QED
      BY <3>1, <3>2 DEF TypeOK
  <2>2. PcOK'
    BY <1>4 DEF EngineError, TypeOK, PcOK, Goto, Threads, CaptureSteps
  <2>3. CarryOK'
    BY <1>4, GotoCarry DEF EngineError, Threads
  <2>4. errors' \in 0 .. MaxErrors /\ disturbed' \in BOOLEAN
    <3>1. errors \in 0 .. MaxErrors /\ errors > 0 /\ errors' = errors - 1
      BY <1>4 DEF EngineError, TypeOK
    <3>2. disturbed' = TRUE \/ disturbed' = (disturbed \/ captures # <<>>)
      BY <1>4 DEF EngineError
    <3>3. disturbed' \in BOOLEAN
      BY <3>2, Zenon
    <3>. QED
      BY <3>1, <3>3, BoundsAssumption
  <2>5. /\ queue' \in [Streams -> Seq(Frames)] /\ jpegActive' \in BOOLEAN
        /\ held' \in [Threads -> SUBSET Buffers]
    <3>1. CASE TakeHead("jpeg") /\ held' = [held EXCEPT !["ncb"] = {<<"jpeg", Head(queue["jpeg"])>>}]
      <4>1. /\ queue' \in [Streams -> Seq(Frames)] /\ jpegActive' \in BOOLEAN
            /\ {<<"jpeg", Head(queue["jpeg"])>>} \subseteq Buffers
        BY <3>1, TakeHeadType DEF Streams
      <4>. QED
        BY <3>1, <4>1 DEF TypeOK
    <3>2. CASE UNCHANGED <<queue, jpegActive, held>>
      BY <3>2 DEF TypeOK
    <3>. QED
      BY <1>4, <3>1, <3>2 DEF EngineError
  <2>. QED
    <3>1. UNCHANGED <<flags, shape, engine, carry, input, control, results>>
      BY <1>4 DEF EngineError
    <3>. QED
      BY <2>1, <2>2, <2>3, <2>4, <2>5, <3>1 DEF TypeOK
<1>5. CASE NotifySteps
  <2>1. ASSUME NEW to \in {"backPreview", "backVideo", "errorVideo", "start", "idle"},
               Goto("ncb", to)
        PROVE  PcOK'
    <3>1. /\ pc' = [u \in Threads |-> pc'[u]]
          /\ pc'["ncb"] = to /\ \A u \in Threads \ {"ncb"} : pc'[u] = pc[u]
      BY <2>1 DEF TypeOK, PcOK, Goto, Threads
    <3>2. to \in {"idle", "errorPreview", "errorVideo", "backJpeg", "backPreview",
                  "backVideo"} \cup CaptureSteps
      BY DEF CaptureSteps
    <3>. QED
      BY <3>1, <3>2 DEF TypeOK, PcOK, Threads
  <2>2. "ncb" \in Threads /\ "preview" \in Streams /\ "video" \in Streams
    BY DEF Threads, Streams
  <2>3. CASE ErrorPreview
    BY <2>1, <2>2, <2>3, FailHeadType DEF ErrorPreview
  <2>4. CASE ErrorVideo
    BY <2>1, <2>2, <2>4, FailHeadType DEF ErrorVideo
  <2>5. CASE ReturnErrored
    BY <2>1, <2>2, <2>5, GiveBackType DEF ReturnErrored
  <2>. QED
    BY <1>5, <2>3, <2>4, <2>5 DEF NotifySteps
<1>. QED
  BY <1>1, <1>2, <1>3, <1>4, <1>5 DEF Callbacks, PreviewFrame, VideoFrame, Streams

LEMMA ControlType ==
  TypeOK /\ (Flush \/ ConfigureStreams \/ Close \/ FlushSteps) => TypeOK'
<1> SUFFICES ASSUME TypeOK, Flush \/ ConfigureStreams \/ Close \/ FlushSteps PROVE TypeOK'
  OBVIOUS
<1>. USE DEF flags, shape, legacy, input, bounds, results
<1>a. "ctl" \in Threads /\ "preview" \in Streams /\ "video" \in Streams /\ "jpeg" \in Streams
  BY DEF Threads, Streams
<1>p. ASSUME NEW to \in {"idle", "join", "cancel", "stopRecording", "stopPreview",
                         "drainPreview", "drainVideo", "drainJpeg", "unflush", "apply",
                         "delete"},
             Goto("ctl", to)
      PROVE  PcOK'
  BY <1>p DEF TypeOK, PcOK, Goto, Threads
<1>1. ASSUME NEW op \in {"flush", "configure", "close"}, NEW to \in {"join", "apply"},
             FlushCall(op, to), session' \in BOOLEAN, control' \in 0 .. MaxControl
      PROVE  TypeOK'
  <2>1. PcOK'
    BY <1>1, <1>p DEF FlushCall
  <2>2. CarryOK'
    BY <1>1, <1>a, GotoCarry DEF FlushCall
  <2>3. asleep' \in BOOLEAN
    BY <1>1, Zenon DEF FlushCall
  <2>4. stop' \in BOOLEAN
    BY <1>1, Zenon DEF FlushCall
  <2>5. /\ operation' = op
        /\ UNCHANGED <<queue, jpegActive, flushing, previewStarted, recordingStarted, joinable,
                       configured, closed, cancelJpeg, snapshot, legacy, held, carry, input,
                       errors, results, disturbed>>
    BY <1>1 DEF FlushCall
  <2>. QED
    BY <1>1, <2>1, <2>2, <2>3, <2>4, <2>5 DEF TypeOK
<1>2. CASE Flush
  <2>1. control \in 0 .. MaxControl /\ control > 0 /\ control' = control - 1
    BY <1>2 DEF Flush, TypeOK
  <2>2. session' \in BOOLEAN
    BY <1>2 DEF Flush, TypeOK
  <2>. QED
    BY <1>1, <1>2, <2>1, <2>2, BoundsAssumption DEF Flush
<1>3. CASE ConfigureStreams
  <2>1. control \in 0 .. MaxControl /\ control > 0 /\ control' = control - 1
    BY <1>3 DEF ConfigureStreams, TypeOK
  <2>2. session' \in BOOLEAN
    BY <1>3 DEF ConfigureStreams, TypeOK
  <2>. QED
    BY <1>1, <1>3, <2>1, <2>2, BoundsAssumption DEF ConfigureStreams
<1>4. CASE Close
  <2>1. control' \in 0 .. MaxControl /\ session' \in BOOLEAN
    BY <1>4 DEF Close, TypeOK
  <2>. QED
    BY <1>1, <1>4, <2>1 DEF Close
<1>5. CASE FlushJoin
  <2>1. PcOK'
    BY <1>5 DEF FlushJoin, TypeOK, PcOK, Threads
  <2>2. CarryOK'
    BY <1>5 DEF FlushJoin, TypeOK, PcOK, CarryOK, Threads, Capturers
  <2>3. snapshot' \subseteq Buffers
    <3>1. \A s \in Streams : Queued(s) \subseteq Frames
      BY ElementOfSeq DEF TypeOK, Queued
    <3>. QED
      BY <1>5, <3>1 DEF FlushJoin, QueuedBuffers, Buffers
  <2>. QED
    BY <1>5, <2>1, <2>2, <2>3 DEF FlushJoin, TypeOK
<1>6. CASE CancelPicture
  <2>1. PcOK'
    BY <1>6, <1>p DEF CancelPicture
  <2>2. CarryOK'
    BY <1>6, <1>a, GotoCarry DEF CancelPicture
  <2>3. captures' \in Seq(Frames)
    BY <1>6 DEF CancelPicture, TypeOK
  <2>. QED
    BY <1>6, <2>1, <2>2, <2>3 DEF CancelPicture, TypeOK
<1>7. CASE StopRecording
  <2>1. PcOK'
    BY <1>7, <1>p DEF StopRecording
  <2>2. CarryOK'
    BY <1>7, <1>a, GotoCarry DEF StopRecording
  <2>3. engine' \subseteq {"preview", "recording"}
    BY <1>7 DEF StopRecording, TypeOK
  <2>. QED
    <3>1. /\ recordingStarted' \in BOOLEAN
          /\ UNCHANGED <<queue, jpegActive, flushing, stop, previewStarted, joinable, asleep,
                         shape, captures, held, carry, input, bounds, results, disturbed>>
      BY <1>7 DEF StopRecording
    <3>. QED
      BY <2>1, <2>2, <2>3, <3>1 DEF TypeOK
<1>8. CASE StopPreview
  <2>1. PcOK'
    BY <1>8, <1>p DEF StopPreview
  <2>2. CarryOK'
    BY <1>8, <1>a, GotoCarry DEF StopPreview
  <2>3. engine' \subseteq {"preview", "recording"}
    BY <1>8 DEF StopPreview, TypeOK
  <2>. QED
    <3>1. /\ previewStarted' \in BOOLEAN
          /\ UNCHANGED <<queue, jpegActive, flushing, stop, recordingStarted, joinable, asleep,
                         shape, captures, held, carry, input, bounds, results, disturbed>>
      BY <1>8 DEF StopPreview
    <3>. QED
      BY <2>1, <2>2, <2>3, <3>1 DEF TypeOK
<1>9. CASE FlushDrain
  <2>1. CASE Drain("ctl", "preview", "drainPreview", "drainVideo")
    BY <2>1, <1>a, <1>p, DrainType
  <2>2. CASE Drain("ctl", "video", "drainVideo", "drainJpeg")
    BY <2>2, <1>a, <1>p, DrainType
  <2>3. CASE Drain("ctl", "jpeg", "drainJpeg", "unflush")
    BY <2>3, <1>a, <1>p, DrainType
  <2>. QED
    BY <1>9, <2>1, <2>2, <2>3 DEF FlushDrain
<1>10. CASE FlushDone
  <2>1. AfterFlush(operation) \in {"apply", "delete", "idle"}
    BY DEF AfterFlush, TypeOK
  <2>2. PcOK'
    BY <1>10, <1>p, <2>1 DEF FlushDone
  <2>3. CarryOK'
    BY <1>10, <1>a, <2>1, GotoCarry DEF FlushDone
  <2>. QED
    <3>1. UNCHANGED <<queue, jpegActive, stop, previewStarted, recordingStarted, joinable,
                      asleep, legacy, held, carry, input, bounds, results, disturbed>>
      BY <1>10 DEF FlushDone
    <3>2. /\ flushing' \in BOOLEAN /\ session' \in BOOLEAN /\ closed' \in BOOLEAN
          /\ cancelJpeg' \in BOOLEAN /\ configured' \subseteq Streams
          /\ snapshot' \subseteq Buffers
          /\ operation' \in {"none", "flush", "configure", "close"}
      BY <1>10 DEF FlushDone, TypeOK
    <3>. QED
      BY <2>2, <2>3, <3>1, <3>2 DEF TypeOK
<1>11. CASE ConfigureApply
  <2>1. PcOK'
    BY <1>11 DEF ConfigureApply, TypeOK, PcOK, Goto, Threads
  <2>2. CarryOK'
    <3>1. /\ UNCHANGED <<carry, frame>>
          /\ \A u \in Capturers : pc'[u] = pc[u] \/ pc'[u] = "wait"
          /\ pc'["req"] = pc["req"]
      BY <1>11 DEF ConfigureApply, TypeOK, PcOK, Goto, Threads, Capturers
    <3>. QED
      BY <3>1 DEF TypeOK, CarryOK
  <2>3. /\ configured' \subseteq Streams /\ session' \in BOOLEAN
        /\ stop' \in BOOLEAN /\ joinable' \in BOOLEAN
    BY <1>11, InputAssumption DEF ConfigureApply, TypeOK
  <2>. QED
    BY <1>11, <2>1, <2>2, <2>3 DEF ConfigureApply, TypeOK
<1>12. CASE DeleteDevice
  <2>1. PcOK'
    BY <1>12, <1>p DEF DeleteDevice
  <2>2. CarryOK'
    BY <1>12, <1>a, GotoCarry DEF DeleteDevice
  <2>3. captures' \in Seq(Frames)
    BY <1>12 DEF DeleteDevice
  <2>. QED
    BY <1>12, <2>1, <2>2, <2>3 DEF DeleteDevice, TypeOK
<1>. QED
  BY <1>2, <1>3, <1>4, <1>5, <1>6, <1>7, <1>8, <1>9, <1>10, <1>11, <1>12 DEF FlushSteps

(* The HAL's state stays well typed whatever its threads, the engine and   *)
(* the framework do.                                                       *)
THEOREM TypeCorrect == Spec => []TypeOK
<1>1. Init => TypeOK
  BY InitType
<1>2. TypeOK /\ [Next]_vars => TypeOK'
  <2> SUFFICES ASSUME TypeOK, [Next]_vars PROVE TypeOK'
    OBVIOUS
  <2>1. CASE UNCHANGED vars
    <3>1. PcOK' /\ CarryOK'
      BY <2>1, StayPut DEF vars, input
    <3>. QED
      BY <2>1, <3>1 DEF TypeOK, vars, flags, shape, legacy, input, bounds, results
  <2>. QED
    BY <2>1, RequestType, CaptureType, WorkerType, CallbackType, ControlType
       DEF Next, Terminated
<1>. QED
  BY <1>1, <1>2, PTL DEF Spec

-----------------------------------------------------------------------------
(* An active capture has its request queued.                               *)

(* Taking a head keeps the invariant: the JPEG queue's head ends the       *)
(* capture, another queue's head does not touch it.                        *)
LEMMA TakeHeadActive ==
  ASSUME TypeOK, ActiveImpliesQueued, NEW s \in Streams, TakeHead(s)
  PROVE  ActiveImpliesQueued'
<1>1. CASE s = "jpeg"
  BY <1>1 DEF TakeHead, ActiveImpliesQueued
<1>2. CASE s # "jpeg"
  <2>1. queue'["jpeg"] = queue["jpeg"] /\ jpegActive' = jpegActive
    BY <1>2 DEF TakeHead, TypeOK, Streams
  <2>. QED
    BY <2>1 DEF ActiveImpliesQueued
<1>. QED
  BY <1>1, <1>2

(* Every step takes a head, appends to a queue, marks a queued request     *)
(* active, or leaves queues and capture alone.                             *)
LEMMA ActiveStep ==
  ASSUME TypeOK, ActiveImpliesQueued, Next
  PROVE  ActiveImpliesQueued'
<1>1. CASE \E s \in Streams : TakeHead(s)
  BY <1>1, TakeHeadActive
<1>2. CASE UNCHANGED <<queue, jpegActive>>
  BY <1>2 DEF ActiveImpliesQueued
<1>3. CASE \E s \in Streams, f \in Frames : /\ queue' = [queue EXCEPT ![s] = Append(@, f)]
                                            /\ UNCHANGED jpegActive
  <2>1. PICK s \in Streams, f \in Frames : /\ queue' = [queue EXCEPT ![s] = Append(@, f)]
                                           /\ UNCHANGED jpegActive
    BY <1>3
  <2>2. queue[s] \in Seq(Frames) /\ Append(queue[s], f) # <<>>
    BY <2>1, AppendProperties DEF TypeOK
  <2>3. queue'["jpeg"] = queue["jpeg"] \/ queue'["jpeg"] # <<>>
    BY <2>1, <2>2 DEF TypeOK, Streams
  <2>. QED
    BY <2>1, <2>3 DEF ActiveImpliesQueued
<1>4. CASE \E t \in Capturers : BeginJpeg(t)
  BY <1>4 DEF BeginJpeg, ActiveImpliesQueued
<1>5. ProcessRequest => \/ UNCHANGED <<queue, jpegActive>>
                        \/ \E s \in Streams, f \in Frames :
                              /\ queue' = [queue EXCEPT ![s] = Append(@, f)]
                              /\ UNCHANGED jpegActive
  <2>1. ASSUME NEW outs \in Outputs, ReserveJpeg(outs)
        PROVE  \/ UNCHANGED <<queue, jpegActive>>
               \/ \E s \in Streams, f \in Frames :
                     /\ queue' = [queue EXCEPT ![s] = Append(@, f)]
                     /\ UNCHANGED jpegActive
    <3>1. frame + 1 \in Frames /\ "jpeg" \in Streams
      BY <2>1, BoundsAssumption DEF ReserveJpeg, NewRequest, TypeOK, Frames, Streams
    <3>. QED
      BY <2>1, <3>1 DEF ReserveJpeg
  <2>2. ASSUME NEW s \in {"preview", "video"}, EnqueueStream(s)
        PROVE  \/ UNCHANGED <<queue, jpegActive>>
               \/ \E r \in Streams, f \in Frames :
                     /\ queue' = [queue EXCEPT ![r] = Append(@, f)]
                     /\ UNCHANGED jpegActive
    <3>1. frame \in Frames /\ s \in Streams
      BY <2>2 DEF EnqueueStream, HandStream, TypeOK, Buffers, Streams, Threads
    <3>. QED
      BY <2>2, <3>1 DEF EnqueueStream, HandStream, AppendStream
  <2>. QED
    BY <2>1, <2>2 DEF ProcessRequest, RejectRequest, SendShutter, EndRequest
<1>6. ASSUME NEW t \in Capturers, StartNextJpeg(t)
      PROVE  UNCHANGED <<queue, jpegActive>> \/ BeginJpeg(t) \/ TakeHead("jpeg")
  BY <1>6 DEF StartNextJpeg, StartNext, TakePicture, GiveUpJpeg, ReturnFailed, FailHead, GiveBack
<1>7. ASSUME NEW t, NEW s \in Streams, NEW at, NEW next, Drain(t, s, at, next)
      PROVE  UNCHANGED <<queue, jpegActive>> \/ TakeHead(s)
  BY <1>7 DEF Drain
<1>8. Worker \/ SpuriousWakeup => UNCHANGED <<queue, jpegActive>> \/ \E s \in Streams : TakeHead(s)
  BY <1>7 DEF Worker, WorkerSleep, SpuriousWakeup, WorkerWake, StartPreview, PreviewStarted,
         StartRecording, Streams
<1>9. Callbacks => UNCHANGED <<queue, jpegActive>> \/ \E s \in Streams : TakeHead(s)
  BY DEF Callbacks, PreviewFrame, VideoFrame, StreamFrame, CopyImage, JpegImage, EngineError,
         NotifySteps, ErrorPreview, ErrorVideo, ReturnErrored, FailHead, GiveBack, Streams
<1>10. Flush \/ ConfigureStreams \/ Close => UNCHANGED <<queue, jpegActive>>
  BY DEF Flush, ConfigureStreams, Close, FlushCall
<1>11. FlushSteps => UNCHANGED <<queue, jpegActive>> \/ \E s \in Streams : TakeHead(s)
  BY <1>7 DEF FlushSteps, FlushJoin, CancelPicture, StopRecording, StopPreview, FlushDrain,
         FlushDone, ConfigureApply, DeleteDevice, Streams
<1>12. Terminated => UNCHANGED <<queue, jpegActive>>
  BY DEF Terminated, vars
<1>13. "jpeg" \in Streams
  BY DEF Streams
<1>. QED
  BY <1>1, <1>2, <1>3, <1>4, <1>5, <1>6, <1>8, <1>9, <1>10, <1>11, <1>12, <1>13 DEF Next

(* jpeg_capture_active never outlives the queue: m86_take_jpeg_request is  *)
(* the only removal, and it clears the flag whoever calls it.              *)
THEOREM ActiveCaptureQueued == Spec => []ActiveImpliesQueued
<1>1. Init => ActiveImpliesQueued
  BY DEF Init, ActiveImpliesQueued
<1>2. TypeOK /\ ActiveImpliesQueued /\ [Next]_vars => ActiveImpliesQueued'
  BY ActiveStep DEF vars, ActiveImpliesQueued
<1>. QED
  BY <1>1, <1>2, TypeCorrect, PTL DEF Spec

-----------------------------------------------------------------------------
(* The worker and flush.                                                   *)

Flushing == {"cancel", "stopRecording", "stopPreview", "drainPreview", "drainVideo",
             "drainJpeg", "unflush"}
Stopped  == {"drainPreview", "drainVideo", "drainJpeg", "unflush", "apply", "delete"}

(* What makes WorkerQuiesced inductive: where the ctl thread and the       *)
(* worker are determines which of their flags can be set.                  *)
WorkerInv ==
  /\ joinable <=> pc["worker"] # "none"
  /\ flushing <=> pc["ctl"] \in Flushing
  /\ pc["ctl"] \in Flushing \cup Stopped => pc["worker"] = "none"
  /\ pc["ctl"] \in Stopped \cup {"stopPreview"} => ~recordingStarted
  /\ pc["ctl"] \in Stopped => ~previewStarted
  /\ pc["worker"] = "started" => "preview" \in engine
  /\ pc["worker"] = "record" => previewStarted
  /\ recordingStarted => previewStarted /\ "recording" \in engine
  /\ previewStarted => "preview" \in engine

(* A step that moves neither thread, or moves the worker within the part   *)
(* of its program that changes no flag, keeps the invariant.               *)
LEMMA Bystander ==
  ASSUME WorkerInv, UNCHANGED <<joinable, flushing, previewStarted, recordingStarted, engine>>,
         pc'["ctl"] = pc["ctl"],
         \/ pc'["worker"] = pc["worker"]
         \/ pc["worker"] # "none" /\ pc'["worker"] \notin {"none", "started", "record"}
  PROVE  WorkerInv'
BY DEF WorkerInv

(* Moving a thread other than the two is such a step.                      *)
LEMMA OtherThread ==
  ASSUME TypeOK, WorkerInv, NEW t \in Threads \ {"worker", "ctl"}, NEW to, Goto(t, to),
         UNCHANGED <<joinable, flushing, previewStarted, recordingStarted, engine>>
  PROVE  WorkerInv'
<1>1. pc'["ctl"] = pc["ctl"] /\ pc'["worker"] = pc["worker"]
  BY DEF Goto, TypeOK, PcOK, Threads
<1>. QED
  BY <1>1, Bystander

LEMMA WorkerInvRequest == TypeOK /\ WorkerInv /\ ProcessRequest => WorkerInv'
<1> SUFFICES ASSUME TypeOK, WorkerInv, ProcessRequest PROVE WorkerInv'
  OBVIOUS
<1>. USE DEF flags, shape, legacy, input, bounds, results
<1>1. "req" \in Threads \ {"worker", "ctl"}
  BY DEF Threads
<1>2. ASSUME NEW outs \in Outputs, RejectRequest(outs) PROVE WorkerInv'
  BY <1>2, Bystander DEF RejectRequest, NewRequest
<1>3. ASSUME NEW outs \in Outputs, ReserveJpeg(outs) PROVE WorkerInv'
  BY <1>1, <1>3, OtherThread DEF ReserveJpeg, NewRequest
<1>4. CASE SendShutter
  BY <1>1, <1>4, OtherThread DEF SendShutter
<1>5. ASSUME NEW s \in {"preview", "video"}, EnqueueStream(s) PROVE WorkerInv'
  BY <1>5, Bystander DEF EnqueueStream, HandStream
<1>6. CASE EndRequest
  BY <1>1, <1>6, OtherThread DEF EndRequest
<1>. QED
  BY <1>2, <1>3, <1>4, <1>5, <1>6 DEF ProcessRequest

LEMMA WorkerInvCapture ==
  \A t \in Capturers : TypeOK /\ WorkerInv /\ StartNextJpeg(t) => WorkerInv'
<1> SUFFICES ASSUME NEW t \in Capturers, TypeOK, WorkerInv, StartNextJpeg(t) PROVE WorkerInv'
  OBVIOUS
<1>. USE DEF flags, shape, legacy, input, bounds, results
<1>1. UNCHANGED <<joinable, flushing, previewStarted, recordingStarted, engine>>
  BY DEF StartNextJpeg, StartNext, BeginJpeg, TakePicture, GiveUpJpeg, ReturnFailed, FailHead,
         GiveBack
<1>2. /\ pc[t] \in CaptureSteps
      /\ \E to \in CaptureSteps \cup {Home(t)} : Goto(t, to)
  BY DEF StartNextJpeg, StartNext, BeginJpeg, TakePicture, GiveUpJpeg, ReturnFailed, FailHead,
         GiveBack, CaptureSteps
<1>3. CASE t # "worker"
  BY <1>1, <1>2, <1>3, OtherThread DEF Capturers, Threads
<1>4. CASE t = "worker"
  <2>1. /\ pc'["ctl"] = pc["ctl"] /\ pc["worker"] # "none"
        /\ pc'["worker"] \notin {"none", "started", "record"}
    BY <1>2, <1>4 DEF Goto, TypeOK, PcOK, Threads, CaptureSteps, Home
  <2>. QED
    BY <1>1, <2>1, Bystander
<1>. QED
  BY <1>3, <1>4

LEMMA WorkerInvWorker == TypeOK /\ WorkerInv /\ (Worker \/ SpuriousWakeup) => WorkerInv'
<1> SUFFICES ASSUME TypeOK, WorkerInv, Worker \/ SpuriousWakeup PROVE WorkerInv'
  OBVIOUS
<1>. USE DEF flags, shape, legacy, input, bounds, results
<1>g. ASSUME NEW to, Goto("worker", to) PROVE pc'["worker"] = to /\ pc'["ctl"] = pc["ctl"]
  BY <1>g DEF Goto, TypeOK, PcOK, Threads
<1>1. CASE WorkerWake
  <2>1. pc'["worker"] \in {"exited", "starting"} /\ pc'["ctl"] = pc["ctl"]
    BY <1>1, <1>g DEF WorkerWake
  <2>. QED
    BY <1>1, <2>1, Bystander DEF WorkerWake
<1>2. CASE StartPreview
  <2>1. CASE engine' = engine \cup {"preview"} /\ Goto("worker", "started")
    <3>1. pc'["worker"] = "started" /\ pc'["ctl"] = pc["ctl"]
      BY <1>g, <2>1
    <3>. QED
      BY <1>2, <2>1, <3>1 DEF StartPreview, WorkerInv
  <2>2. CASE UNCHANGED engine /\ Goto("worker", "failPreview")
    <3>1. pc'["worker"] = "failPreview" /\ pc'["ctl"] = pc["ctl"]
      BY <1>g, <2>2
    <3>. QED
      BY <1>2, <2>2, <3>1, Bystander DEF StartPreview
  <2>. QED
    BY <1>2, <2>1, <2>2 DEF StartPreview
<1>3. CASE PreviewStarted
  <2>1. pc'["worker"] = "record" /\ pc'["ctl"] = pc["ctl"]
    BY <1>3, <1>g DEF PreviewStarted
  <2>. QED
    BY <1>3, <2>1 DEF PreviewStarted, WorkerInv
<1>4. CASE StartRecording
  <2>1. pc'["worker"] \in {"start", "failRecording"} /\ pc'["ctl"] = pc["ctl"]
    BY <1>4, <1>g DEF StartRecording
  <2>2. UNCHANGED <<joinable, flushing, previewStarted>>
    BY <1>4 DEF StartRecording
  <2>3. \/ UNCHANGED <<engine, recordingStarted>>
        \/ engine' = engine \cup {"recording"} /\ recordingStarted' = TRUE
    BY <1>4 DEF StartRecording
  <2>4. pc["worker"] = "record"
    BY <1>4 DEF StartRecording
  <2>. QED
    BY <2>1, <2>2, <2>3, <2>4 DEF WorkerInv, Flushing
<1>5. ASSUME NEW s \in Streams, NEW at, at # "none",
             NEW next \in {"failVideo", "failJpeg", "exited", "start"},
             Drain("worker", s, at, next)
      PROVE  WorkerInv'
  <2>1. /\ pc["worker"] # "none" /\ pc'["ctl"] = pc["ctl"]
        /\ pc'["worker"] = pc["worker"] \/ pc'["worker"] = next
    BY <1>5, <1>g DEF Drain
  <2>. QED
    BY <1>5, <2>1, Bystander DEF Drain
<1>6. CASE WorkerSleep \/ SpuriousWakeup
  BY <1>6, Bystander DEF WorkerSleep, SpuriousWakeup
<1>. QED
  BY <1>1, <1>2, <1>3, <1>4, <1>5, <1>6 DEF Worker, Streams

LEMMA WorkerInvCallback == TypeOK /\ WorkerInv /\ Callbacks => WorkerInv'
<1> SUFFICES ASSUME TypeOK, WorkerInv, Callbacks PROVE WorkerInv'
  OBVIOUS
<1>. USE DEF flags, shape, legacy, input, bounds, results
<1>1. UNCHANGED <<joinable, flushing, previewStarted, recordingStarted, engine>>
  BY DEF Callbacks, PreviewFrame, VideoFrame, StreamFrame, CopyImage, JpegImage, EngineError,
         NotifySteps, ErrorPreview, ErrorVideo, ReturnErrored, FailHead, GiveBack
<1>2. \E t \in {"pcb", "vcb", "jcb", "ncb"} :
         \E to \in {"copy", "idle", "start", "errorPreview", "errorVideo", "backJpeg",
                    "backPreview", "backVideo"} : Goto(t, to)
  BY DEF Callbacks, PreviewFrame, VideoFrame, StreamFrame, CopyImage, JpegImage, EngineError,
         NotifySteps, ErrorPreview, ErrorVideo, ReturnErrored, FailHead, GiveBack
<1>3. {"pcb", "vcb", "jcb", "ncb"} \subseteq Threads \ {"worker", "ctl"}
  BY DEF Threads
<1>. QED
  BY <1>1, <1>2, <1>3, OtherThread

LEMMA WorkerInvControl ==
  TypeOK /\ WorkerInv /\ (Flush \/ ConfigureStreams \/ Close \/ FlushSteps) => WorkerInv'
<1> SUFFICES ASSUME TypeOK, WorkerInv, Flush \/ ConfigureStreams \/ Close \/ FlushSteps
             PROVE  WorkerInv'
  OBVIOUS
<1>. USE DEF flags, shape, legacy, input, bounds, results, Flushing, Stopped
<1>g. ASSUME NEW to, Goto("ctl", to) PROVE pc'["ctl"] = to /\ pc'["worker"] = pc["worker"]
  BY <1>g DEF Goto, TypeOK, PcOK, Threads
<1>1. CASE Flush \/ Close
  <2>1. pc'["ctl"] = "join" /\ pc'["worker"] = pc["worker"] /\ pc["ctl"] = "idle"
    BY <1>1, <1>g DEF Flush, Close, FlushCall
  <2>. QED
    BY <1>1, <2>1 DEF Flush, Close, FlushCall, WorkerInv
<1>2. CASE ConfigureStreams
  <2>1. /\ pc'["worker"] = pc["worker"] /\ pc["ctl"] = "idle"
        /\ pc'["ctl"] = IF joinable \/ previewStarted \/ recordingStarted
                        THEN "join" ELSE "apply"
    BY <1>2, <1>g DEF ConfigureStreams, FlushCall
  <2>2. UNCHANGED <<joinable, flushing, previewStarted, recordingStarted, engine>>
    BY <1>2 DEF ConfigureStreams, FlushCall
  <2>. QED
    BY <2>1, <2>2 DEF WorkerInv
<1>3. CASE FlushJoin
  <2>1. pc'["ctl"] = "cancel" /\ pc'["worker"] = "none"
    BY <1>3 DEF FlushJoin, TypeOK, PcOK, Threads
  <2>. QED
    BY <1>3, <2>1 DEF FlushJoin, WorkerInv
<1>4. CASE CancelPicture
  <2>1. pc'["ctl"] = "stopRecording" /\ pc'["worker"] = pc["worker"]
    BY <1>4, <1>g DEF CancelPicture
  <2>. QED
    BY <1>4, <2>1 DEF CancelPicture, WorkerInv
<1>5. CASE StopRecording
  <2>1. pc'["ctl"] = "stopPreview" /\ pc'["worker"] = pc["worker"]
    BY <1>5, <1>g DEF StopRecording
  <2>. QED
    BY <1>5, <2>1 DEF StopRecording, WorkerInv
<1>6. CASE StopPreview
  <2>1. pc'["ctl"] = "drainPreview" /\ pc'["worker"] = pc["worker"]
    BY <1>6, <1>g DEF StopPreview
  <2>. QED
    BY <1>6, <2>1 DEF StopPreview, WorkerInv
<1>7. CASE FlushDrain
  <2>1. /\ pc["ctl"] \in {"drainPreview", "drainVideo", "drainJpeg"}
        /\ pc'["ctl"] \in {"drainPreview", "drainVideo", "drainJpeg", "unflush"}
        /\ pc'["worker"] = pc["worker"]
    BY <1>7, <1>g DEF FlushDrain, Drain
  <2>2. UNCHANGED <<joinable, flushing, previewStarted, recordingStarted, engine>>
    BY <1>7 DEF FlushDrain, Drain
  <2>. QED
    BY <2>1, <2>2 DEF WorkerInv
<1>8. CASE FlushDone
  <2>1. pc'["ctl"] \in {"apply", "delete", "idle"} /\ pc'["worker"] = pc["worker"]
    BY <1>8, <1>g DEF FlushDone, AfterFlush, TypeOK
  <2>. QED
    BY <1>8, <2>1 DEF FlushDone, WorkerInv
<1>9. CASE ConfigureApply
  <2>1. /\ pc'["ctl"] = "idle"
        /\ \/ pc'["worker"] = pc["worker"] /\ UNCHANGED joinable
           \/ pc'["worker"] = "wait" /\ joinable' = TRUE
    BY <1>9, <1>g DEF ConfigureApply, TypeOK, PcOK, Threads
  <2>2. UNCHANGED <<flushing, previewStarted, recordingStarted, engine>>
    BY <1>9 DEF ConfigureApply
  <2>3. pc["ctl"] = "apply"
    BY <1>9 DEF ConfigureApply
  <2>4. CASE pc'["worker"] = pc["worker"] /\ UNCHANGED joinable
    BY <2>1, <2>2, <2>3, <2>4 DEF WorkerInv
  <2>5. CASE pc'["worker"] = "wait" /\ joinable' = TRUE
    BY <2>1, <2>2, <2>3, <2>5 DEF WorkerInv
  <2>. QED
    BY <2>1, <2>4, <2>5
<1>10. CASE DeleteDevice
  <2>1. pc'["ctl"] = "idle" /\ pc'["worker"] = pc["worker"]
    BY <1>10, <1>g DEF DeleteDevice
  <2>. QED
    BY <1>10, <2>1 DEF DeleteDevice, WorkerInv
<1>. QED
  BY <1>1, <1>2, <1>3, <1>4, <1>5, <1>6, <1>7, <1>8, <1>9, <1>10 DEF FlushSteps

LEMMA AlwaysWorker == Spec => []WorkerInv
<1>1. Init => WorkerInv
  BY DEF Init, WorkerInv, Flushing, Stopped, Threads
<1>2. TypeOK /\ WorkerInv /\ [Next]_vars => WorkerInv'
  <2> SUFFICES ASSUME TypeOK, WorkerInv, [Next]_vars PROVE WorkerInv'
    OBVIOUS
  <2>1. CASE UNCHANGED vars
    BY <2>1, Bystander DEF vars, flags, legacy
  <2>. QED
    BY <2>1, WorkerInvRequest, WorkerInvCapture, WorkerInvWorker, WorkerInvCallback,
       WorkerInvControl DEF Next, Terminated
<1>. QED
  BY <1>1, <1>2, TypeCorrect, PTL DEF Spec

(* The condition variable: a worker asleep has missed no request and no    *)
(* stop.                                                                   *)
SleepInv == asleep => pc["worker"] = "wait" /\ NothingToStart

(* A step that wakes nobody must leave the predicate of the wait alone.    *)
LEMMA SleepsOn ==
  ASSUME SleepInv, asleep' => asleep, stop' => stop,
         pc["worker"] = "wait" => pc'["worker"] = "wait",
         queue["preview"] = <<>> => queue'["preview"] = <<>>,
         queue["video"] = <<>> => queue'["video"] = <<>>
  PROVE  SleepInv'
BY DEF SleepInv, NothingToStart

(* Taking a head leaves an empty queue empty.                              *)
LEMMA TakeHeadEmpty ==
  ASSUME TypeOK, NEW s \in Streams, TakeHead(s), NEW r \in Streams, queue[r] = <<>>
  PROVE  queue'[r] = <<>>
BY DEF TakeHead, TypeOK

LEMMA SleepRequest == TypeOK /\ SleepInv /\ ProcessRequest => SleepInv'
<1> SUFFICES ASSUME TypeOK, SleepInv, ProcessRequest PROVE SleepInv'
  OBVIOUS
<1>. USE DEF flags, shape, legacy, input, bounds, results
<1>g. ASSUME NEW to, Goto("req", to) PROVE pc'["worker"] = pc["worker"]
  BY <1>g DEF Goto, TypeOK, PcOK, Threads
<1>1. ASSUME NEW outs \in Outputs, RejectRequest(outs) PROVE SleepInv'
  BY <1>1, SleepsOn DEF RejectRequest, NewRequest
<1>2. ASSUME NEW outs \in Outputs, ReserveJpeg(outs) PROVE SleepInv'
  <2>1. queue'["preview"] = queue["preview"] /\ queue'["video"] = queue["video"]
    BY <1>2 DEF ReserveJpeg, TypeOK, Streams
  <2>. QED
    BY <1>2, <1>g, <2>1, SleepsOn DEF ReserveJpeg, NewRequest
<1>3. CASE SendShutter \/ EndRequest
  BY <1>3, <1>g, SleepsOn DEF SendShutter, EndRequest
<1>4. ASSUME NEW s \in {"preview", "video"}, EnqueueStream(s) PROVE SleepInv'
  <2>1. CASE AppendStream(s)
    BY <2>1 DEF AppendStream, SleepInv
  <2>2. CASE UNCHANGED <<queue, asleep>>
    BY <1>4, <2>2, SleepsOn DEF EnqueueStream, HandStream
  <2>. QED
    BY <1>4, <2>1, <2>2 DEF EnqueueStream
<1>. QED
  BY <1>1, <1>2, <1>3, <1>4 DEF ProcessRequest

LEMMA SleepCapture == \A t \in Capturers : TypeOK /\ SleepInv /\ StartNextJpeg(t) => SleepInv'
<1> SUFFICES ASSUME NEW t \in Capturers, TypeOK, SleepInv, StartNextJpeg(t) PROVE SleepInv'
  OBVIOUS
<1>. USE DEF flags, shape, legacy, input, bounds, results
<1>1. UNCHANGED <<asleep, stop>> /\ (TakeHead("jpeg") \/ UNCHANGED queue)
  BY DEF StartNextJpeg, StartNext, BeginJpeg, TakePicture, GiveUpJpeg, ReturnFailed, FailHead,
         GiveBack
<1>2. /\ pc[t] \in CaptureSteps
      /\ \E to \in CaptureSteps \cup {Home(t)} : Goto(t, to)
  BY DEF StartNextJpeg, StartNext, BeginJpeg, TakePicture, GiveUpJpeg, ReturnFailed, FailHead,
         GiveBack, CaptureSteps
<1>3. pc["worker"] = "wait" => pc'["worker"] = "wait"
  BY <1>2 DEF Goto, TypeOK, PcOK, Capturers, Threads, CaptureSteps
<1>4. \A r \in Streams : queue[r] = <<>> => queue'[r] = <<>>
  BY <1>1, TakeHeadEmpty DEF Streams
<1>. QED
  BY <1>1, <1>3, <1>4, SleepsOn DEF Streams

LEMMA SleepWorker == TypeOK /\ SleepInv /\ (Worker \/ SpuriousWakeup) => SleepInv'
<1> SUFFICES ASSUME TypeOK, SleepInv, Worker \/ SpuriousWakeup PROVE SleepInv'
  OBVIOUS
<1>. USE DEF flags, shape, legacy, input, bounds, results
<1>1. CASE WorkerSleep
  BY <1>1 DEF WorkerSleep, SleepInv, NothingToStart
<1>2. CASE SpuriousWakeup
  BY <1>2 DEF SpuriousWakeup, SleepInv
<1>3. CASE WorkerWake
  BY <1>3 DEF WorkerWake, SleepInv
<1>4. CASE StartPreview \/ PreviewStarted \/ StartRecording
  BY <1>4 DEF StartPreview, PreviewStarted, StartRecording, SleepInv
<1>5. ASSUME NEW s \in Streams, NEW at, at # "wait", NEW next, Drain("worker", s, at, next)
      PROVE  SleepInv'
  BY <1>5 DEF Drain, SleepInv
<1>. QED
  BY <1>1, <1>2, <1>3, <1>4, <1>5 DEF Worker, Streams

LEMMA SleepCallback == TypeOK /\ SleepInv /\ Callbacks => SleepInv'
<1> SUFFICES ASSUME TypeOK, SleepInv, Callbacks PROVE SleepInv'
  OBVIOUS
<1>. USE DEF flags, shape, legacy, input, bounds, results
<1>1. /\ UNCHANGED <<asleep, stop>>
      /\ (\E s \in Streams : TakeHead(s)) \/ UNCHANGED queue
  BY DEF Callbacks, PreviewFrame, VideoFrame, StreamFrame, CopyImage, JpegImage, EngineError,
         NotifySteps, ErrorPreview, ErrorVideo, ReturnErrored, FailHead, GiveBack, Streams
<1>2. \E t \in {"pcb", "vcb", "jcb", "ncb"} : \E to : Goto(t, to)
  BY DEF Callbacks, PreviewFrame, VideoFrame, StreamFrame, CopyImage, JpegImage, EngineError,
         NotifySteps, ErrorPreview, ErrorVideo, ReturnErrored, FailHead, GiveBack
<1>3. pc'["worker"] = pc["worker"]
  BY <1>2 DEF Goto, TypeOK, PcOK, Threads
<1>4. \A r \in Streams : queue[r] = <<>> => queue'[r] = <<>>
  BY <1>1, TakeHeadEmpty
<1>. QED
  BY <1>1, <1>3, <1>4, SleepsOn DEF Streams

LEMMA SleepControl ==
  TypeOK /\ WorkerInv /\ SleepInv /\ (Flush \/ ConfigureStreams \/ Close \/ FlushSteps)
     => SleepInv'
<1> SUFFICES ASSUME TypeOK, WorkerInv, SleepInv,
                    Flush \/ ConfigureStreams \/ Close \/ FlushSteps
             PROVE  SleepInv'
  OBVIOUS
<1>. USE DEF flags, shape, legacy, input, bounds, results
<1>g. ASSUME NEW to, Goto("ctl", to) PROVE pc'["worker"] = pc["worker"]
  BY <1>g DEF Goto, TypeOK, PcOK, Threads
<1>1. ASSUME NEW op, NEW to, FlushCall(op, to) PROVE SleepInv'
  <2>1. pc'["worker"] = pc["worker"] /\ UNCHANGED queue
    BY <1>1, <1>g DEF FlushCall
  <2>2. CASE to = "join"
    BY <1>1, <2>2 DEF FlushCall, SleepInv
  <2>3. CASE to # "join"
    BY <1>1, <2>1, <2>3, SleepsOn DEF FlushCall, TypeOK
  <2>. QED
    BY <2>2, <2>3
<1>2. CASE FlushJoin
  <2>1. ~asleep
    BY <1>2 DEF FlushJoin, SleepInv, WorkerInv
  <2>. QED
    BY <1>2, <2>1 DEF FlushJoin, SleepInv
<1>3. CASE CancelPicture \/ StopRecording \/ StopPreview \/ FlushDone \/ DeleteDevice
  <2>1. UNCHANGED <<queue, stop, asleep>> /\ \E to : Goto("ctl", to)
    BY <1>3 DEF CancelPicture, StopRecording, StopPreview, FlushDone, DeleteDevice
  <2>. QED
    BY <1>g, <2>1, SleepsOn
<1>4. CASE FlushDrain
  <2>1. UNCHANGED <<stop, asleep>> /\ ((\E to : Goto("ctl", to)) \/ UNCHANGED pc)
    BY <1>4 DEF FlushDrain, Drain
  <2>2. (\E s \in Streams : TakeHead(s)) \/ UNCHANGED queue
    BY <1>4 DEF FlushDrain, Drain, Streams
  <2>3. \A r \in Streams : queue[r] = <<>> => queue'[r] = <<>>
    BY <2>2, TakeHeadEmpty
  <2>. QED
    BY <1>g, <2>1, <2>3, SleepsOn DEF Streams
<1>5. CASE ConfigureApply
  <2>1. UNCHANGED <<queue, asleep>> /\ (stop' => stop)
    BY <1>5 DEF ConfigureApply
  <2>2. pc'["worker"] = pc["worker"] \/ pc'["worker"] = "wait"
    BY <1>5, <1>g DEF ConfigureApply, TypeOK, PcOK, Threads
  <2>. QED
    BY <2>1, <2>2, SleepsOn
<1>. QED
  BY <1>1, <1>2, <1>3, <1>4, <1>5 DEF FlushSteps, Flush, ConfigureStreams, Close

LEMMA AlwaysSleep == Spec => []SleepInv
<1>1. Init => SleepInv
  BY DEF Init, SleepInv
<1>2. TypeOK /\ WorkerInv /\ SleepInv /\ [Next]_vars => SleepInv'
  <2> SUFFICES ASSUME TypeOK, WorkerInv, SleepInv, [Next]_vars PROVE SleepInv'
    OBVIOUS
  <2>1. CASE UNCHANGED vars
    BY <2>1, SleepsOn DEF vars, flags
  <2>. QED
    BY <2>1, SleepRequest, SleepCapture, SleepWorker, SleepCallback, SleepControl
       DEF Next, Terminated
<1>. QED
  BY <1>1, <1>2, TypeCorrect, AlwaysWorker, PTL DEF Spec

(* One worker at most, none during a flush, and flags that never promise   *)
(* what the engine is not doing: flush joins before it stops anything and  *)
(* stops recording before preview, the worker starts them the other way.   *)
(* And a worker asleep misses neither a request nor the stop.              *)
THEOREM WorkerStaysQuiesced == Spec => []WorkerQuiesced
<1>1. WorkerInv /\ SleepInv => WorkerQuiesced
  BY DEF WorkerInv, SleepInv, WorkerQuiesced, Flushing
<1>. QED
  BY <1>1, AlwaysWorker, AlwaysSleep, PTL
=============================================================================
