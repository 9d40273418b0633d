--------------------------- MODULE Camera3Pipeline ---------------------------
(***************************************************************************)
(* The request pipeline of the m86 camera3 HAL (camera_m86_module.cpp):    *)
(* three bounded queues of pending output buffers, the worker that starts  *)
(* the legacy preview on the first request, the callbacks of the engine    *)
(* that complete buffers, and flush, configure_streams and close, all of   *)
(* them running on threads of their own under one pending_lock that is     *)
(* dropped between any two steps.                                          *)
(***************************************************************************)
EXTENDS Naturals, Sequences, FiniteSets

CONSTANTS Configurations, \* the stream lists the framework configures
          Outputs,     \* the sets of streams its requests fill
          MaxFrame,    \* bound: requests the framework submits
          MaxPending,  \* M86_MAX_PENDING_PREVIEW_REQUESTS
          MaxJpeg,     \* M86_MAX_PENDING_JPEG_REQUESTS
          MaxControl,  \* bound: calls of flush and configure_streams
          MaxErrors    \* bound: CAMERA_MSG_ERROR messages of the engine

Streams == {"preview", "video", "jpeg"}

ASSUME InputAssumption == Configurations \subseteq SUBSET Streams
                          /\ Outputs \subseteq SUBSET Streams
ASSUME BoundsAssumption == /\ MaxFrame \in Nat /\ MaxPending \in Nat \ {0}
                           /\ MaxJpeg \in Nat \ {0}
                           /\ MaxControl \in Nat /\ MaxErrors \in Nat

Frames  == 1 .. MaxFrame
Buffers == Streams \X Frames

(* req: process_capture_request; ctl: flush, configure_streams and close;  *)
(* worker: the preview start thread; pcb, vcb, jcb, ncb: the engine's      *)
(* preview, recording, compressed image and notify callbacks.              *)
Threads   == {"req", "ctl", "worker", "pcb", "vcb", "jcb", "ncb"}
Capturers == {"req", "worker", "jcb", "ncb"}  \* run start_next_jpeg_capture

VARIABLES
  queue,       \* pending, video_pending and pending_jpeg: frames, oldest first
  jpegActive,  \* jpeg_capture_active
  flushing, stop, previewStarted, recordingStarted, joinable,
  asleep,      \* the worker is inside pthread_cond_wait(pending_cond)
  configured,  \* the configured_*_stream pointers that are not null
  session,     \* the last configure_streams succeeded: requests may come
  closed,      \* the device was closed
  engine,      \* what the legacy engine is running
  captures,    \* pictures the engine has been asked for and not delivered
  pc,          \* where each thread is
  held,        \* buffers a thread took out of a queue, or has not queued yet
  carry,       \* the frame a thread is about to call takePicture for
  frame,       \* number of the last request
  request,     \* output streams of the request being processed
  operation,   \* what the ctl thread runs
  cancelJpeg,  \* flush's local cancel_jpeg
  snapshot,    \* history: the buffers that were queued when flush set `flushing`
  control, errors,             \* calls and engine errors still to come
  accepted, returned,          \* buffers handed over and handed back
  shutter, rejected,           \* frames with a shutter, with a request error
  lastImage,   \* per stream, the frame of the last image delivered
  disturbed    \* a flush or an engine error has touched the JPEG queue

flags   == <<flushing, stop, previewStarted, recordingStarted, joinable, asleep>>
shape   == <<configured, session, closed, operation, cancelJpeg, snapshot>>
legacy  == <<engine, captures>>
input   == <<frame, request>>
bounds  == <<control, errors>>
results == <<accepted, returned, shutter, rejected, lastImage>>
vars == <<queue, jpegActive, flags, shape, legacy, pc, held, carry, input, bounds,
          results, disturbed>>

Home(t) == IF t = "worker" THEN "exited" ELSE "idle"
Goto(t, to) == pc' = [pc EXCEPT ![t] = to]
Queued(s) == {queue[s][i] : i \in 1 .. Len(queue[s])}
QueuedBuffers == UNION {{s} \X Queued(s) : s \in Streams}

Init ==
  /\ queue = [s \in Streams |-> <<>>] /\ jpegActive = FALSE
  /\ flushing = FALSE /\ stop = FALSE /\ joinable = FALSE
  /\ previewStarted = FALSE /\ recordingStarted = FALSE /\ asleep = FALSE
  /\ configured = {} /\ session = FALSE /\ closed = FALSE
  /\ operation = "none" /\ cancelJpeg = FALSE /\ snapshot = {}
  /\ engine = {} /\ captures = <<>>
  /\ pc = [t \in Threads |-> IF t = "worker" THEN "none" ELSE "idle"]
  /\ held = [t \in Threads |-> {}] /\ carry = [t \in Threads |-> 0]
  /\ frame = 0 /\ request = {}
  /\ control = MaxControl /\ errors = MaxErrors
  /\ accepted = {} /\ returned = {} /\ shutter = {} /\ rejected = {}
  /\ lastImage = [s \in Streams |-> 0] /\ disturbed = FALSE

-----------------------------------------------------------------------------
(* Helpers of several handlers.                                            *)

(* Mutant: the removal leaves jpeg_capture_active set.                     *)
TakeHeadStaysActive(s) ==
  /\ queue[s] # <<>>
  /\ queue' = [queue EXCEPT ![s] = Tail(@)]
  /\ UNCHANGED jpegActive

(* Remove the oldest entry; m86_take_jpeg_request also ends the capture.   *)
TakeHead(s) ==
  /\ queue[s] # <<>>
  /\ queue' = [queue EXCEPT ![s] = Tail(@)]
  /\ jpegActive' = IF s = "jpeg" THEN FALSE ELSE jpegActive

(* process_capture_result with buffers in CAMERA3_BUFFER_STATUS_ERROR.     *)
ReturnError(back) ==
  /\ returned' = returned \cup back
  /\ UNCHANGED <<accepted, shutter, rejected, lastImage>>

(* process_capture_result with a copied image.                             *)
ReturnImage(s, f) ==
  /\ returned' = returned \cup {<<s, f>>}
  /\ lastImage' = [lastImage EXCEPT ![s] = f]
  /\ UNCHANGED <<accepted, shutter, rejected>>

(* One turn of a loop that dequeues and returns in error, or its end.      *)
Drain(t, s, at, next) ==
  /\ pc[t] = at
  /\ \/ /\ TakeHead(s)
        /\ ReturnError({<<s, Head(queue[s])>>})
        /\ UNCHANGED pc
     \/ /\ queue[s] = <<>>
        /\ Goto(t, next)
        /\ UNCHANGED <<queue, jpegActive, results>>
  /\ UNCHANGED <<flags, shape, legacy, held, carry, input, bounds, disturbed>>

(* The same away from the drains, where others run between the dequeue     *)
(* under pending_lock and the return outside it: the thread holds the      *)
(* oldest buffer of s, or finds none; then it gives back what it holds.    *)
FailHead(t, s, at, back, next) ==
  /\ pc[t] = at
  /\ \/ /\ TakeHead(s)
        /\ held' = [held EXCEPT ![t] = {<<s, Head(queue[s])>>}]
        /\ Goto(t, back)
     \/ /\ queue[s] = <<>>
        /\ Goto(t, next)
        /\ UNCHANGED <<queue, jpegActive, held>>
  /\ UNCHANGED <<flags, shape, legacy, carry, input, bounds, results, disturbed>>

GiveBack(t, at, next) ==
  /\ pc[t] = at
  /\ ReturnError(held[t])
  /\ held' = [held EXCEPT ![t] = {}]
  /\ Goto(t, next)
  /\ UNCHANGED <<queue, jpegActive, flags, shape, legacy, carry, input, bounds, disturbed>>

-----------------------------------------------------------------------------
(* m86_device_process_capture_request.                                     *)

NewRequest(outs) ==
  /\ session /\ ~closed /\ operation \in {"none", "flush"}
  /\ pc["req"] = "idle" /\ frame < MaxFrame
  /\ outs # {} /\ outs \subseteq configured
  /\ frame' = frame + 1
  /\ accepted' = accepted \cup (outs \X {frame + 1})
  /\ UNCHANGED <<flags, shape, legacy, carry, bounds, disturbed>>

CanReserveJpeg == ~flushing /\ Len(queue["jpeg"]) < MaxJpeg

(* An acquire fence failed, or a JPEG was asked for and cannot be queued:  *)
(* the whole request comes back at once.                                   *)
RejectRequest(outs) ==
  /\ NewRequest(outs)
  /\ returned' = returned \cup (outs \X {frame + 1})
  /\ rejected' = rejected \cup {frame + 1}
  /\ UNCHANGED <<queue, jpegActive, pc, held, request, shutter, lastImage>>

(* The JPEG is queued first, before the shutter of its request is sent.    *)
ReserveJpeg(outs) ==
  /\ NewRequest(outs)
  /\ "jpeg" \in outs => CanReserveJpeg
  /\ queue' = IF "jpeg" \in outs
              THEN [queue EXCEPT !["jpeg"] = Append(@, frame + 1)] ELSE queue
  /\ held' = [held EXCEPT !["req"] = (outs \ {"jpeg"}) \X {frame + 1}]
  /\ request' = outs
  /\ Goto("req", "shutter")
  /\ UNCHANGED <<jpegActive, returned, rejected, shutter, lastImage>>

SendShutter ==
  /\ pc["req"] = "shutter"
  /\ shutter' = shutter \cup {frame}
  /\ Goto("req", "enqueue")
  /\ UNCHANGED <<queue, jpegActive, flags, shape, legacy, held, carry, input, bounds,
                 accepted, returned, rejected, lastImage, disturbed>>

(* m86_enqueue_stream_request with the signal it gives under the lock.     *)
AppendStream(s) ==
  /\ queue' = [queue EXCEPT ![s] = Append(@, frame)]
  /\ asleep' = FALSE

(* A stream buffer of the request leaves its hands.                        *)
HandStream(s) ==
  /\ pc["req"] = "enqueue" /\ <<s, frame>> \in held["req"]
  /\ s = "video" => <<"preview", frame>> \notin held["req"]
  /\ held' = [held EXCEPT !["req"] = @ \ {<<s, frame>>}]
  /\ UNCHANGED <<jpegActive, flushing, stop, previewStarted, recordingStarted, joinable,
                 shape, legacy, pc, carry, input, bounds, disturbed>>

(* Mutant: a buffer that finds its queue full is dropped.                  *)
EnqueueStreamDrops(s) ==
  /\ HandStream(s)
  /\ IF Len(queue[s]) < MaxPending THEN AppendStream(s) ELSE UNCHANGED <<queue, asleep>>
  /\ UNCHANGED results

(* Mutant: the bound of the array is off by one.                           *)
EnqueueStreamPastEnd(s) ==
  /\ HandStream(s)
  /\ \/ Len(queue[s]) <= MaxPending /\ AppendStream(s) /\ UNCHANGED results
     \/ /\ Len(queue[s]) > MaxPending
        /\ ReturnError({<<s, frame>>})
        /\ UNCHANGED <<queue, asleep>>

(* Mutant: the buffers are queued while the shutter is still to be sent.   *)
EnqueueBeforeShutter(s) ==
  /\ pc["req"] \in {"shutter", "enqueue"} /\ <<s, frame>> \in held["req"]
  /\ Len(queue[s]) < MaxPending /\ AppendStream(s)
  /\ held' = [held EXCEPT !["req"] = @ \ {<<s, frame>>}]
  /\ UNCHANGED <<jpegActive, flushing, stop, previewStarted, recordingStarted, joinable,
                 shape, legacy, pc, carry, input, bounds, results, disturbed>>

(* Mutant: the worker is not signalled.                                    *)
EnqueueStreamNoSignal(s) ==
  /\ HandStream(s)
  /\ Len(queue[s]) < MaxPending
  /\ queue' = [queue EXCEPT ![s] = Append(@, frame)]
  /\ UNCHANGED <<asleep, results>>

(* Preview before video; a full queue returns the buffer in error.         *)
EnqueueStream(s) ==
  /\ HandStream(s)
  /\ \/ Len(queue[s]) < MaxPending /\ AppendStream(s) /\ UNCHANGED results
     \/ /\ Len(queue[s]) >= MaxPending
        /\ ReturnError({<<s, frame>>})
        /\ UNCHANGED <<queue, asleep>>

(* Mutant: process_capture_request leaves the capture to somebody else.    *)
EndRequestNoStart ==
  /\ pc["req"] = "enqueue" /\ held["req"] = {}
  /\ Goto("req", "idle")
  /\ request' = {}
  /\ UNCHANGED <<queue, jpegActive, flags, shape, legacy, held, carry, frame, bounds,
                 results, disturbed>>

EndRequest ==
  /\ pc["req"] = "enqueue" /\ held["req"] = {}
  /\ Goto("req", IF "jpeg" \in request THEN "start" ELSE "idle")
  /\ request' = {}
  /\ UNCHANGED <<queue, jpegActive, flags, shape, legacy, held, carry, frame, bounds,
                 results, disturbed>>

ProcessRequest ==
  \/ \E outs \in Outputs : RejectRequest(outs) \/ ReserveJpeg(outs)
  \/ SendShutter
  \/ \E s \in {"preview", "video"} : EnqueueStream(s)
  \/ EndRequest

-----------------------------------------------------------------------------
(* m86_start_next_jpeg_capture, run by four threads.                       *)

StartNext(t) ==
  /\ pc[t] = "start"
  /\ Goto(t, IF previewStarted THEN "begin" ELSE Home(t))
  /\ UNCHANGED <<queue, jpegActive, flags, shape, legacy, held, carry, input, bounds,
                 results, disturbed>>

(* Mutant: a capture begins while another is active.                       *)
BeginJpegTwice(t) ==
  /\ pc[t] = "begin"
  /\ IF ~flushing /\ queue["jpeg"] # <<>>
     THEN /\ jpegActive' = TRUE
          /\ carry' = [carry EXCEPT ![t] = Head(queue["jpeg"])]
          /\ Goto(t, "take")
     ELSE /\ Goto(t, Home(t))
          /\ UNCHANGED <<jpegActive, carry>>
  /\ UNCHANGED <<queue, flags, shape, legacy, held, input, bounds, results, disturbed>>

BeginJpeg(t) ==
  /\ pc[t] = "begin"
  /\ IF ~flushing /\ ~jpegActive /\ queue["jpeg"] # <<>>
     THEN /\ jpegActive' = TRUE
          /\ carry' = [carry EXCEPT ![t] = Head(queue["jpeg"])]
          /\ Goto(t, "take")
     ELSE /\ Goto(t, Home(t))
          /\ UNCHANGED <<jpegActive, carry>>
  /\ UNCHANGED <<queue, flags, shape, legacy, held, input, bounds, results, disturbed>>

(* Mutant: a failed takePicture is forgotten.                              *)
TakePictureForgets(t) ==
  /\ pc[t] = "take"
  /\ carry' = [carry EXCEPT ![t] = 0]
  /\ captures' \in {captures} \cup {Append(captures, carry[t]) : e \in engine}
  /\ Goto(t, Home(t))
  /\ UNCHANGED <<queue, jpegActive, flags, shape, engine, held, input, bounds, results,
                 disturbed>>

(* takePicture, which fails unless the engine is previewing, and may fail. *)
TakePicture(t) ==
  /\ pc[t] = "take"
  /\ carry' = [carry EXCEPT ![t] = 0]
  /\ \/ /\ "preview" \in engine
        /\ captures' = Append(captures, carry[t])
        /\ Goto(t, Home(t))
     \/ /\ Goto(t, "fail")
        /\ UNCHANGED captures
  /\ UNCHANGED <<queue, jpegActive, flags, shape, engine, held, input, bounds, results,
                 disturbed>>

(* The failed capture gives up the head of the queue, whichever it is now. *)
GiveUpJpeg(t) == FailHead(t, "jpeg", "fail", "giveBack", Home(t))

(* Mutant: after a failure the loop ends, though more requests may wait.   *)
ReturnFailedStops(t) == GiveBack(t, "giveBack", Home(t))

(* Mutant: takePicture is retried without beginning the next request.      *)
ReturnFailedRetries(t) == GiveBack(t, "giveBack", "take")

(* It comes back in error, and the loop begins the next one.               *)
ReturnFailed(t) == GiveBack(t, "giveBack", "begin")

StartNextJpeg(t) == StartNext(t) \/ BeginJpeg(t) \/ TakePicture(t) \/ GiveUpJpeg(t)
                    \/ ReturnFailed(t)

-----------------------------------------------------------------------------
(* m86_preview_start_worker.                                               *)

(* The predicate of the wait, read under pending_lock.                     *)
NothingToStart == queue["preview"] = <<>> /\ queue["video"] = <<>> /\ ~stop

(* pthread_cond_wait: the predicate is tested and the wait begins under    *)
(* one lock; a signal, a broadcast or a spurious wakeup ends it and the    *)
(* predicate is tested again.                                              *)
WorkerSleep ==
  /\ pc["worker"] = "wait" /\ ~asleep
  /\ NothingToStart
  /\ asleep' = TRUE
  /\ UNCHANGED <<queue, jpegActive, flushing, stop, previewStarted, recordingStarted,
                 joinable, shape, legacy, pc, held, carry, input, bounds, results, disturbed>>

SpuriousWakeup ==
  /\ asleep
  /\ asleep' = FALSE
  /\ UNCHANGED <<queue, jpegActive, flushing, stop, previewStarted, recordingStarted,
                 joinable, shape, legacy, pc, held, carry, input, bounds, results, disturbed>>

WorkerWake ==
  /\ pc["worker"] = "wait" /\ ~asleep
  /\ ~NothingToStart
  /\ Goto("worker", IF stop THEN "exited" ELSE "starting")
  /\ UNCHANGED <<queue, jpegActive, flags, shape, legacy, held, carry, input, bounds,
                 results, disturbed>>

StartPreview ==
  /\ pc["worker"] = "starting"
  /\ \/ engine' = engine \cup {"preview"} /\ Goto("worker", "started")
     \/ UNCHANGED engine /\ Goto("worker", "failPreview")
  /\ UNCHANGED <<queue, jpegActive, flags, shape, captures, held, carry, input, bounds,
                 results, disturbed>>

PreviewStarted ==
  /\ pc["worker"] = "started"
  /\ previewStarted' = TRUE
  /\ Goto("worker", "record")
  /\ UNCHANGED <<queue, jpegActive, flushing, stop, recordingStarted, joinable, asleep,
                 shape, legacy, held, carry, input, bounds, results, disturbed>>

(* m86_start_recording_if_needed; a failure drains the video queue.        *)
StartRecording ==
  /\ pc["worker"] = "record"
  /\ \/ /\ "video" \notin configured \/ recordingStarted
        /\ Goto("worker", "start")
        /\ UNCHANGED <<engine, recordingStarted>>
     \/ /\ "video" \in configured /\ ~recordingStarted
        /\ \/ /\ engine' = engine \cup {"recording"}
              /\ recordingStarted' = TRUE
              /\ Goto("worker", "start")
           \/ /\ Goto("worker", "failRecording")
              /\ UNCHANGED <<engine, recordingStarted>>
  /\ UNCHANGED <<queue, jpegActive, flushing, stop, previewStarted, joinable, asleep,
                 shape, captures, held, carry, input, bounds, results, disturbed>>

Worker ==
  \/ WorkerSleep \/ WorkerWake \/ StartPreview \/ PreviewStarted \/ StartRecording
  \/ Drain("worker", "preview", "failPreview", "failVideo")
  \/ Drain("worker", "video", "failVideo", "failJpeg")
  \/ Drain("worker", "jpeg", "failJpeg", "exited")
  \/ Drain("worker", "video", "failRecording", "start")

-----------------------------------------------------------------------------
(* The engine's callbacks.                                                 *)

(* m86_preview_window_deliver and m86_data_timestamp_cb take the oldest    *)
(* request of their stream; a frame nobody waits for is dropped.           *)
StreamFrame(s, needs, t) ==
  /\ needs \in engine /\ pc[t] = "idle"
  /\ TakeHead(s)
  /\ held' = [held EXCEPT ![t] = {<<s, Head(queue[s])>>}]
  /\ Goto(t, "copy")
  /\ UNCHANGED <<flags, shape, legacy, carry, input, bounds, results, disturbed>>

(* The copy succeeds or the buffer comes back in error.                    *)
CopyImage(t, next) ==
  /\ pc[t] = "copy"
  /\ \E b \in held[t] :
        /\ ReturnError({b}) \/ ReturnImage(b[1], b[2])
        /\ held' = [held EXCEPT ![t] = {}]
        /\ Goto(t, next)
  /\ UNCHANGED <<queue, jpegActive, flags, shape, legacy, carry, input, bounds, disturbed>>

(* m86_data_cb(CAMERA_MSG_COMPRESSED_IMAGE): the head takes the image.     *)
JpegImage ==
  /\ captures # <<>> /\ pc["jcb"] = "idle"
  /\ captures' = Tail(captures)
  /\ \/ /\ TakeHead("jpeg")
        /\ held' = [held EXCEPT !["jcb"] = {<<"jpeg", Head(queue["jpeg"])>>}]
        /\ Goto("jcb", "copy")
     \/ /\ queue["jpeg"] = <<>>
        /\ Goto("jcb", "start")
        /\ UNCHANGED <<queue, jpegActive, held>>
  /\ UNCHANGED <<flags, shape, engine, carry, input, bounds, results, disturbed>>

(* m86_notify_cb(CAMERA_MSG_ERROR), while the engine exists: a pending     *)
(* JPEG fails, or else one preview and then one video request. The engine  *)
(* may also give up a picture it was asked for.                            *)
EngineError ==
  /\ ~closed /\ errors > 0 /\ pc["ncb"] = "idle"
  /\ errors' = errors - 1
  /\ captures' \in {captures} \cup {Tail(c) : c \in {captures} \ {<<>>}}
  /\ \/ /\ TakeHead("jpeg")
        /\ held' = [held EXCEPT !["ncb"] = {<<"jpeg", Head(queue["jpeg"])>>}]
        /\ disturbed' = TRUE
        /\ Goto("ncb", "backJpeg")
     \/ /\ queue["jpeg"] = <<>>
        /\ disturbed' = (disturbed \/ captures # <<>>)
        /\ Goto("ncb", "errorPreview")
        /\ UNCHANGED <<queue, jpegActive, held>>
  /\ UNCHANGED <<flags, shape, engine, carry, input, control, results>>

ErrorPreview == FailHead("ncb", "preview", "errorPreview", "backPreview", "errorVideo")
ErrorVideo   == FailHead("ncb", "video", "errorVideo", "backVideo", "idle")

(* The notify thread returns what it holds, outside the lock.              *)
ReturnErrored == \/ GiveBack("ncb", "backJpeg", "start")
                 \/ GiveBack("ncb", "backPreview", "errorVideo")
                 \/ GiveBack("ncb", "backVideo", "idle")

NotifySteps == ErrorPreview \/ ErrorVideo \/ ReturnErrored

PreviewFrame == StreamFrame("preview", "preview", "pcb")
VideoFrame   == StreamFrame("video", "recording", "vcb")

Callbacks ==
  \/ PreviewFrame \/ CopyImage("pcb", "idle")
  \/ VideoFrame \/ CopyImage("vcb", "idle")
  \/ JpegImage \/ CopyImage("jcb", "start")
  \/ EngineError \/ NotifySteps

-----------------------------------------------------------------------------
(* m86_device_flush, also run by configure_streams and close.              *)

(* Mutant: the worker is not woken.                                        *)
FlushCallNoBroadcast(op, to) ==
  /\ pc["ctl"] = "idle" /\ ~closed
  /\ operation' = op
  /\ Goto("ctl", to)
  /\ stop' = (stop \/ to = "join")
  /\ UNCHANGED <<queue, jpegActive, flushing, previewStarted, recordingStarted, joinable,
                 asleep, configured, closed, cancelJpeg, snapshot, legacy, held, carry,
                 input, errors, results, disturbed>>

(* A flush (to = "join") sets `stop` and broadcasts under the lock.        *)
FlushCall(op, to) ==
  /\ pc["ctl"] = "idle" /\ ~closed
  /\ operation' = op
  /\ Goto("ctl", to)
  /\ stop' = (stop \/ to = "join")
  /\ asleep' = (asleep /\ to # "join")
  /\ UNCHANGED <<queue, jpegActive, flushing, previewStarted, recordingStarted, joinable,
                 configured, closed, cancelJpeg, snapshot, legacy, held, carry, input,
                 errors, results, disturbed>>

Flush ==
  /\ control > 0 /\ session
  /\ FlushCall("flush", "join")
  /\ control' = control - 1
  /\ UNCHANGED session

(* The framework reconfigures with no request in progress and every buffer *)
(* returned.                                                               *)
ConfigureStreams ==
  /\ control > 0 /\ pc["req"] = "idle" /\ accepted = returned
  /\ FlushCall("configure",
               IF joinable \/ previewStarted \/ recordingStarted THEN "join" ELSE "apply")
  /\ control' = control - 1
  /\ session' = FALSE

Close ==
  /\ pc["req"] = "idle"
  /\ FlushCall("close", "join")
  /\ session' = FALSE
  /\ UNCHANGED control

(* pthread_join, then `flushing` and cancel_jpeg under the lock.           *)
FlushJoin ==
  /\ pc["ctl"] = "join"
  /\ joinable => pc["worker"] = "exited"
  /\ pc' = [pc EXCEPT !["ctl"] = "cancel", !["worker"] = "none"]
  /\ joinable' = FALSE
  /\ flushing' = TRUE
  /\ cancelJpeg' = jpegActive
  /\ snapshot' = QueuedBuffers
  /\ disturbed' = TRUE
  /\ UNCHANGED <<queue, jpegActive, stop, previewStarted, recordingStarted, asleep,
                 configured, session, closed, operation, legacy, held, carry, input, bounds,
                 results>>

CancelPicture ==
  /\ pc["ctl"] = "cancel"
  /\ captures' = IF cancelJpeg THEN <<>> ELSE captures
  /\ Goto("ctl", "stopRecording")
  /\ UNCHANGED <<queue, jpegActive, flags, shape, engine, held, carry, input, bounds,
                 results, disturbed>>

(* Mutant: recording_started is not cleared.                               *)
StopRecordingKeepsFlag ==
  /\ pc["ctl"] = "stopRecording"
  /\ recordingStarted => pc["vcb"] = "idle"
  /\ engine' = IF recordingStarted THEN engine \ {"recording"} ELSE engine
  /\ Goto("ctl", "stopPreview")
  /\ UNCHANGED <<queue, jpegActive, flags, shape, captures, held, carry, input, bounds,
                 results, disturbed>>

(* The engine stops a stream when its callback is not running.             *)
StopRecording ==
  /\ pc["ctl"] = "stopRecording"
  /\ recordingStarted => pc["vcb"] = "idle"
  /\ engine' = IF recordingStarted THEN engine \ {"recording"} ELSE engine
  /\ recordingStarted' = FALSE
  /\ Goto("ctl", "stopPreview")
  /\ UNCHANGED <<queue, jpegActive, flushing, stop, previewStarted, joinable, asleep,
                 shape, captures, held, carry, input, bounds, results, disturbed>>

StopPreview ==
  /\ pc["ctl"] = "stopPreview"
  /\ previewStarted => pc["pcb"] = "idle"
  /\ engine' = IF previewStarted THEN engine \ {"preview"} ELSE engine
  /\ previewStarted' = FALSE
  /\ Goto("ctl", "drainPreview")
  /\ UNCHANGED <<queue, jpegActive, flushing, stop, recordingStarted, joinable, asleep,
                 shape, captures, held, carry, input, bounds, results, disturbed>>

(* Mutants: flush does not drain the video queue; nor the JPEG queue.      *)
FlushDrainNoVideo ==
  \/ Drain("ctl", "preview", "drainPreview", "drainJpeg")
  \/ Drain("ctl", "jpeg", "drainJpeg", "unflush")
FlushDrainNoJpeg ==
  \/ Drain("ctl", "preview", "drainPreview", "drainVideo")
  \/ Drain("ctl", "video", "drainVideo", "unflush")

FlushDrain ==
  \/ Drain("ctl", "preview", "drainPreview", "drainVideo")
  \/ Drain("ctl", "video", "drainVideo", "drainJpeg")
  \/ Drain("ctl", "jpeg", "drainJpeg", "unflush")

AfterFlush(op) == CASE op = "configure" -> "apply"
                    [] op = "close"     -> "delete"
                    [] OTHER            -> "idle"

FlushDone ==
  /\ pc["ctl"] = "unflush"
  /\ flushing' = FALSE
  /\ snapshot' = {}
  /\ operation' = IF operation = "flush" THEN "none" ELSE operation
  /\ Goto("ctl", AfterFlush(operation))
  /\ UNCHANGED <<queue, jpegActive, stop, previewStarted, recordingStarted, joinable,
                 asleep, configured, session, closed, cancelJpeg, legacy, held, carry,
                 input, bounds, results, disturbed>>

(* The rest of configure_streams: the list is rejected, the engine refuses *)
(* the parameters, the worker cannot be created, or all is well.           *)
ConfigureApply ==
  /\ pc["ctl"] = "apply"
  /\ \/ UNCHANGED <<configured, session, stop, joinable>> /\ Goto("ctl", "idle")
     \/ /\ \E S \in Configurations : "preview" \in S /\ configured' = S
        /\ \/ UNCHANGED <<session, stop, joinable>> /\ Goto("ctl", "idle")
           \/ stop' = FALSE /\ UNCHANGED <<session, joinable>> /\ Goto("ctl", "idle")
           \/ /\ stop' = FALSE /\ joinable' = TRUE /\ session' = TRUE
              /\ pc' = [pc EXCEPT !["ctl"] = "idle", !["worker"] = "wait"]
  /\ operation' = "none"
  /\ UNCHANGED <<queue, jpegActive, flushing, previewStarted, recordingStarted, asleep,
                 closed, cancelJpeg, snapshot, legacy, held, carry, input, bounds, results,
                 disturbed>>

(* Deleting the engine ends its callbacks; nothing runs afterwards.        *)
DeleteDevice ==
  /\ pc["ctl"] = "delete"
  /\ \A t \in {"pcb", "vcb", "jcb", "ncb"} : pc[t] = "idle"
  /\ closed' = TRUE
  /\ operation' = "none"
  /\ captures' = <<>>
  /\ Goto("ctl", "idle")
  /\ UNCHANGED <<queue, jpegActive, flags, configured, session, cancelJpeg, snapshot, engine,
                 held, carry, input, bounds, results, disturbed>>

FlushSteps == FlushJoin \/ CancelPicture \/ StopRecording \/ StopPreview \/ FlushDrain
              \/ FlushDone \/ ConfigureApply \/ DeleteDevice

Terminated == closed /\ UNCHANGED vars

Next == \/ ProcessRequest
        \/ \E t \in Capturers : StartNextJpeg(t)
        \/ Worker \/ SpuriousWakeup
        \/ Callbacks
        \/ Flush \/ ConfigureStreams \/ Close
        \/ FlushSteps
        \/ Terminated

Spec == Init /\ [][Next]_vars

-----------------------------------------------------------------------------
(* Types.                                                                  *)

CaptureSteps == {"start", "begin", "take", "fail", "giveBack"}
PcOK ==
  /\ pc = [t \in Threads |-> pc[t]]
  /\ pc["req"] \in {"idle", "shutter", "enqueue"} \cup CaptureSteps
  /\ pc["worker"] \in {"none", "wait", "starting", "started", "record", "failPreview",
                       "failVideo", "failJpeg", "failRecording", "exited"}
                      \cup CaptureSteps
  /\ pc["ctl"] \in {"idle", "join", "cancel", "stopRecording", "stopPreview",
                    "drainPreview", "drainVideo", "drainJpeg", "unflush", "apply",
                    "delete"}
  /\ pc["pcb"] \in {"idle", "copy"} /\ pc["vcb"] \in {"idle", "copy"}
  /\ pc["jcb"] \in {"idle", "copy"} \cup CaptureSteps
  /\ pc["ncb"] \in {"idle", "errorPreview", "errorVideo", "backJpeg", "backPreview",
                    "backVideo"} \cup CaptureSteps

CarryOK ==
  /\ pc["req"] = "shutter" => frame \in Frames
  /\ \A t \in Capturers : pc[t] = "take" => carry[t] \in Frames

(* Every variable of the HAL keeps its type, every thread stays in its own *)
(* program, and a thread about to call takePicture has a request for it.   *)
TypeOK ==
  /\ queue \in [Streams -> Seq(Frames)]
  /\ jpegActive \in BOOLEAN /\ flushing \in BOOLEAN /\ stop \in BOOLEAN
  /\ previewStarted \in BOOLEAN /\ recordingStarted \in BOOLEAN /\ joinable \in BOOLEAN
  /\ asleep \in BOOLEAN
  /\ session \in BOOLEAN /\ closed \in BOOLEAN /\ cancelJpeg \in BOOLEAN
  /\ disturbed \in BOOLEAN /\ snapshot \subseteq Buffers
  /\ configured \subseteq Streams /\ engine \subseteq {"preview", "recording"}
  /\ captures \in Seq(Frames)
  /\ PcOK /\ CarryOK
  /\ held \in [Threads -> SUBSET Buffers] /\ carry \in [Threads -> 0 .. MaxFrame]
  /\ frame \in 0 .. MaxFrame /\ request \subseteq Streams
  /\ operation \in {"none", "flush", "configure", "close"}
  /\ control \in 0 .. MaxControl /\ errors \in 0 .. MaxErrors
  /\ accepted \subseteq Buffers /\ returned \subseteq Buffers
  /\ shutter \subseteq Frames /\ rejected \subseteq Frames
  /\ lastImage \in [Streams -> 0 .. MaxFrame]

-----------------------------------------------------------------------------
(* Safety.                                                                 *)

HeldBuffers   == UNION {held[t] : t \in Threads}

(* A buffer of a request is in exactly one place until it is returned, and *)
(* never returned twice: whatever callbacks, flush, failing starts and     *)
(* engine errors do, none of the paths that dequeue, hand over and return  *)
(* a buffer loses it or returns it again.                                  *)
BufferAccounting ==
  /\ QueuedBuffers \cap HeldBuffers = {}
  /\ \A t, u \in Threads : t # u => held[t] \cap held[u] = {}
  /\ returned \subseteq accepted
  /\ accepted \ returned = QueuedBuffers \cup HeldBuffers

(* Requests wait in submission order and no queue exceeds its array, so    *)
(* the modular head and tail arithmetic never overwrites an entry.         *)
QueuesOrdered ==
  /\ \A s \in Streams : \A i, j \in 1 .. Len(queue[s]) :
        i < j => queue[s][i] < queue[s][j]
  /\ Len(queue["preview"]) <= MaxPending /\ Len(queue["video"]) <= MaxPending
  /\ Len(queue["jpeg"]) <= MaxJpeg

(* The capture marked active always has its request at the head of the     *)
(* queue: no removal path (image, error, failed takePicture, flush, failed *)
(* preview) empties the queue and leaves jpeg_capture_active set, which    *)
(* would block every later still picture.                                  *)
ActiveImpliesQueued == jpegActive => queue["jpeg"] # <<>>

(* No lost wakeup of still pictures: while the preview runs, a queued JPEG *)
(* that no capture is active for has a thread on its way to begin it, or a *)
(* flush on its way to return it. Nobody polls: start_next_jpeg_capture is *)
(* only called after a request, an image, an error or the preview start.   *)
OnTheWay(t) ==
  \/ pc[t] \in {"start", "begin", "fail", "giveBack", "record", "failRecording", "copy",
                "backJpeg"}
  \/ pc[t] \in {"shutter", "enqueue"} /\ "jpeg" \in request
NoStrandedJpeg ==
  (previewStarted /\ queue["jpeg"] # <<>> /\ ~jpegActive /\ ~flushing)
     => \E t \in Capturers : OnTheWay(t)

(* An active capture is not forgotten either: the engine has a picture to  *)
(* deliver, a thread is about to ask for one, or a flush will clear it.    *)
ActiveIsPursued ==
  (jpegActive /\ ~flushing) => \/ captures # <<>>
                               \/ \E t \in Capturers : pc[t] = "take"
                               \/ \E t \in Capturers : pc[t] = "fail"

(* There is a worker exactly when one is joinable, so none is leaked or    *)
(* joined twice; from the join of flush until it clears `flushing` no      *)
(* worker can start the engine again; the flags never promise a stream     *)
(* the engine is not running, nor recording without preview, whichever way *)
(* the worker starts them and flush stops them; and a worker asleep on the *)
(* condition variable has missed no request and no stop.                   *)
WorkerQuiesced ==
  /\ joinable <=> pc["worker"] # "none"
  /\ flushing => pc["worker"] = "none"
  /\ recordingStarted => previewStarted /\ "recording" \in engine
  /\ previewStarted => "preview" \in engine
  /\ asleep => pc["worker"] = "wait" /\ NothingToStart

(* As long as no flush and no engine error has disturbed the JPEG queue,   *)
(* the image the engine delivers next was taken for the request at the     *)
(* head, the one m86_take_jpeg_request gives it to.                        *)
ImageMatchesRequest ==
  (~disturbed /\ captures # <<>>)
     => queue["jpeg"] # <<>> /\ Head(captures) = Head(queue["jpeg"])

(* A preview or video buffer comes back after the shutter of its frame,    *)
(* unless the whole request was rejected.                                  *)
ShutterBeforeStream ==
  \A b \in returned : b[1] # "jpeg" => b[2] \in shutter \cup rejected

(* The same for every buffer, as m86_send_request_shutter_and_metadata's   *)
(* comment has it: publish shutter synchronously, then return buffers.     *)
ShutterBeforeBuffer == \A b \in returned : b[2] \in shutter \cup rejected

(* By the end of flush every buffer that was queued when it set `flushing` *)
(* has been returned, or is being returned by a thread that flush does not *)
(* wait for and that had dequeued it before the drains: the JPEG callback, *)
(* the notify callback, or a request whose takePicture failed. None is     *)
(* left in a queue, nor with the worker or the stream callbacks.           *)
Unwaited  == {"jcb", "ncb", "req"}
Returning == {"copy", "giveBack", "backJpeg", "backPreview", "backVideo"}
FlushReturnsQueued ==
  pc["ctl"] = "unflush" =>
     \A b \in snapshot \ returned : \E t \in Unwaited : b \in held[t] /\ pc[t] \in Returning

(* The HAL implements the buffer contract: what it owns is what it was     *)
(* given and has not returned, images of a stream come back in the order   *)
(* of their frames, and the device closes owning nothing.                  *)
Contract == INSTANCE BufferContract WITH owned <- accepted \ returned
ImplementsContract == Contract!CSpec

-----------------------------------------------------------------------------
(* Fairness: every thread that can take a step eventually does, and the    *)
(* engine delivers frames while it streams and the pictures it was asked   *)
(* for. Requests, calls of the framework and engine errors are not owed.   *)

Fairness ==
  /\ WF_vars(\/ SendShutter \/ EndRequest \/ StartNextJpeg("req")
             \/ \E s \in {"preview", "video"} : EnqueueStream(s))
  /\ WF_vars(Worker \/ StartNextJpeg("worker"))
  /\ WF_vars(PreviewFrame \/ CopyImage("pcb", "idle"))
  /\ WF_vars(VideoFrame \/ CopyImage("vcb", "idle"))
  /\ WF_vars(JpegImage \/ CopyImage("jcb", "start") \/ StartNextJpeg("jcb"))
  /\ WF_vars(NotifySteps \/ StartNextJpeg("ncb"))
  /\ WF_vars(FlushSteps)

FairSpec == Spec /\ Fairness

(* flush, configure_streams and close return: the worker they join cannot  *)
(* sleep through `stop`, and the drains end.                               *)
ControlReturns == (pc["ctl"] # "idle") ~> (pc["ctl"] = "idle")

(* With a worker, a queued preview or video buffer is returned unless a    *)
(* flush stops the session or the engine refused to start that stream.     *)
Refused(s) == /\ pc["worker"] = "exited"
              /\ IF s = "video" THEN ~recordingStarted ELSE ~previewStarted
StreamServed ==
  \A s \in {"preview", "video"}, f \in Frames :
     (joinable /\ f \in Queued(s)) ~> (<<s, f>> \in returned \/ stop \/ Refused(s))

(* Once the preview runs, a queued still picture is returned, with its     *)
(* image or in error, unless a flush stops the session (and returns it).   *)
JpegServed ==
  \A f \in Frames :
     (previewStarted /\ f \in Queued("jpeg")) ~> (<<"jpeg", f>> \in returned)
=============================================================================
