--------------------------- MODULE PreviewWindow ---------------------------
(***************************************************************************)
(* The HAL1 preview window of camera_m86_module.cpp: a table of gralloc    *)
(* buffers the legacy engine dequeues, fills and enqueues, and which is    *)
(* reallocated when the engine changes count, geometry or usage.  Every    *)
(* callback holds window->lock for its whole body and is one action; only  *)
(* enqueue_buffer drops the lock, to copy the image, and is two.  What the *)
(* copy does with the pending requests is Camera3Pipeline's StreamFrame.   *)
(*                                                                         *)
(* The engine is external: it owns at most EngineBuffers at a time (the    *)
(* comment at 1430: it dequeues num_preview_buffers of them), sets a       *)
(* geometry before it dequeues, enqueues from one thread, and changes the  *)
(* window only while it owns no buffer, though it may repeat a setting at  *)
(* any time.  stopPreview waits for an enqueue; what the engine still holds*)
(* then is forgotten, not cancelled.                                       *)
(***************************************************************************)
EXTENDS Naturals, FiniteSets

CONSTANTS MinBuffers, MaxBuffers, \* M86_PREVIEW_WINDOW_MIN/MAX_BUFFERS: 12, 16
          EngineBuffers,          \* num_preview_buffers: 12
          FirstCount,             \* buffer_count after init: 4
          Counts, Geometries, Usages, \* what the engine asks for
          FirstUsage, Unset

ASSUME SizeAssumption ==
  /\ MinBuffers \in Nat \ {0} /\ MaxBuffers \in Nat /\ MinBuffers <= MaxBuffers
  /\ EngineBuffers \in 1 .. MinBuffers
  /\ Counts \subseteq Nat \ {0} /\ FirstCount \in Nat \ {0}

ASSUME SettingAssumption ==
  FirstUsage \in Usages /\ Unset \notin Geometries

VARIABLES
  count, geometry, usage, \* buffer_count; width, height and format; usage
  allocated,              \* allocated_count, _width, _height, _format, _usage
  handle,                 \* buffers[i].handle: the allocation and the picture in it
  busy,                   \* buffers[i].busy
  batch,                  \* distinguishes an allocation from the one before
  engine,                 \* "off", "on", "closed"
  held,                   \* slots the engine has dequeued
  copying                 \* the enqueue in progress: the slot and its picture

vars == <<count, geometry, usage, allocated, handle, busy, batch, engine, held, copying>>

settings == <<count, geometry, usage>>
table    == <<allocated, handle, busy, batch>>
actors   == <<engine, held, copying>>

Slots == 1 .. MaxBuffers
None  == [none |-> TRUE]
Images == 0 .. 1

Buffers == [batch : 0 .. 1, geometry : Geometries \cup {Unset}, usage : Usages, image : Images]
Layouts == [count : MinBuffers .. MaxBuffers, geometry : Geometries \cup {Unset}, usage : Usages]

-----------------------------------------------------------------------------
(* Allocation. *)

\* Mutant: only the table's size is enforced, not the engine's need.
ClampToTable(c) == IF c > MaxBuffers THEN MaxBuffers ELSE c

Clamp(c) ==
  CASE c < MinBuffers -> MinBuffers
    [] c > MaxBuffers -> MaxBuffers
    [] OTHER          -> c

Layout(c, g, u) == [count |-> Clamp(c), geometry |-> g, usage |-> u]

\* Mutant: a change of usage alone keeps the buffers.
CurrentButUsage(want) ==
  allocated # None /\ allocated.count = want.count
    /\ allocated.geometry = want.geometry /\ handle[1] # None

\* Mutant: the buffers are always replaced.
NeverCurrent(want) == FALSE /\ want # None

\* The buffers in place are the ones asked for.
Current(want) == allocated = want /\ handle[1] # None

\* Mutant: a slot keeps its mark when its buffer is freed.
FreeKeepsBusy ==
  /\ handle' = [i \in Slots |-> None]
  /\ busy' = busy
  /\ allocated' = None
  /\ UNCHANGED batch

FreeBuffers ==
  /\ handle' = [i \in Slots |-> None]
  /\ busy' = [i \in Slots |-> FALSE]
  /\ allocated' = None
  /\ UNCHANGED batch

NewBuffer(want) ==
  [batch |-> 1 - batch, geometry |-> want.geometry, usage |-> want.usage, image |-> 0]

\* Gralloc may fail at any buffer: then none is left.
AllocBuffers(want) ==
  \/ Current(want) /\ UNCHANGED table
  \/ /\ ~Current(want)
     /\ \/ FreeBuffers
        \/ /\ batch' = 1 - batch
           /\ handle' = [i \in Slots |-> IF i <= want.count THEN NewBuffer(want) ELSE None]
           /\ busy' = [i \in Slots |-> FALSE]
           /\ allocated' = want

-----------------------------------------------------------------------------
(* The callbacks the engine configures the window with. *)

Owned == held \cup copying.slots

\* External: the settings are repeated, or nothing is owned.
MayChange(c, g, u) == engine = "on" /\ (Owned = {} \/ <<c, g, u>> = settings)

SetBufferCount(c) ==
  /\ MayChange(c, geometry, usage)
  /\ count' = c
  /\ IF geometry = Unset THEN UNCHANGED table ELSE AllocBuffers(Layout(c, geometry, usage))
  /\ UNCHANGED <<geometry, usage, actors>>

\* buffer_count is positive from init on, so there is always an allocation.
SetBuffersGeometry(g) ==
  /\ MayChange(count, g, usage)
  /\ geometry' = g
  /\ AllocBuffers(Layout(count, g, usage))
  /\ UNCHANGED <<count, usage, actors>>

SetUsage(u) ==
  /\ MayChange(count, geometry, u)
  /\ usage' = u
  /\ IF geometry = Unset THEN UNCHANGED table ELSE AllocBuffers(Layout(count, geometry, u))
  /\ UNCHANGED <<count, geometry, actors>>

-----------------------------------------------------------------------------
(* The callbacks a frame goes through. *)

Free == {i \in Slots : handle[i] # None /\ ~busy[i]}

HandOut(i) ==
  /\ busy' = [busy EXCEPT ![i] = TRUE]
  /\ held' = held \cup {i}
  /\ UNCHANGED <<handle, allocated, batch>>

\* dequeue_buffer with buffers in place: the first free one, or -ENOMEM,
\* which changes nothing.
DequeueBuffer ==
  /\ engine = "on" /\ geometry # Unset
  /\ Cardinality(Owned) < EngineBuffers
  /\ handle[1] # None
  /\ \E i \in Free : (\A j \in Free : i <= j) /\ HandOut(i)
  /\ UNCHANGED <<settings, engine, copying>>

\* dequeue_buffer after a failed allocation or the worker's clearing:
\* allocate first, then the first buffer of the new ones.
DequeueAllocates ==
  /\ engine = "on" /\ geometry # Unset
  /\ Cardinality(Owned) < EngineBuffers
  /\ handle[1] = None
  /\ LET want == Layout(count, geometry, usage) IN
       \/ FreeBuffers /\ UNCHANGED held
       \/ /\ batch' = 1 - batch
          /\ handle' = [i \in Slots |-> IF i <= want.count THEN NewBuffer(want) ELSE None]
          /\ busy' = [i \in Slots |-> i = 1]
          /\ allocated' = want
          /\ held' = held \cup {1}
  /\ UNCHANGED <<settings, engine, copying>>

\* External: the engine writes a picture into a buffer it holds.
Fill(i) ==
  /\ engine = "on" /\ i \in held /\ handle[i] # None
  /\ handle' = [handle EXCEPT ![i].image = 1 - @]
  /\ UNCHANGED <<allocated, busy, batch, settings, actors>>

\* Mutant: the slot is free before its image is copied.
EnqueueClearsFirst(i) ==
  /\ engine = "on" /\ i \in held /\ copying.slots = {} /\ handle[i] # None
  /\ held' = held \ {i}
  /\ copying' = [slots |-> {i}, image |-> handle[i].image]
  /\ busy' = [busy EXCEPT ![i] = FALSE]
  /\ UNCHANGED <<settings, allocated, handle, batch, engine>>

\* enqueue_buffer up to the unlock: the slot of this handle is found.
EnqueueBuffer(i) ==
  /\ engine = "on" /\ i \in held /\ copying.slots = {} /\ handle[i] # None
  /\ held' = held \ {i}
  /\ copying' = [slots |-> {i}, image |-> handle[i].image]
  /\ UNCHANGED <<settings, table, engine>>

\* m86_preview_window_deliver has returned, whatever became of the copy.
FinishEnqueue ==
  /\ copying.slots # {}
  /\ busy' = [i \in Slots |-> busy[i] /\ i \notin copying.slots]
  /\ copying' = [slots |-> {}, image |-> 0]
  /\ UNCHANGED <<settings, allocated, handle, batch, engine, held>>

CancelBuffer(i) ==
  /\ engine = "on" /\ i \in held /\ handle[i] # None
  /\ busy' = [busy EXCEPT ![i] = FALSE]
  /\ held' = held \ {i}
  /\ UNCHANGED <<settings, allocated, handle, batch, engine, copying>>

-----------------------------------------------------------------------------
(* Sessions. *)

\* Mutant: the buffers of the last session are kept.
StartKeepsBuffers ==
  /\ engine = "off" /\ engine' = "on"
  /\ UNCHANGED <<table, settings, held, copying>>

\* m86_preview_start_worker: the window starts a session with no buffers,
\* so a slot the last session left busy is free again.
StartPreview ==
  /\ engine = "off" /\ engine' = "on"
  /\ FreeBuffers
  /\ UNCHANGED <<settings, held, copying>>

\* External: stopPreview, or a startPreview that failed half way.
StopPreview ==
  /\ engine = "on" /\ copying.slots = {}
  /\ engine' = "off" /\ held' = {}
  /\ UNCHANGED <<settings, table, copying>>

\* m86_device_close: the window's buffers go after the engine.
Close ==
  /\ engine = "off" /\ engine' = "closed"
  /\ FreeBuffers
  /\ UNCHANGED <<settings, held, copying>>

\* A new device has a new window, as after Init.
Open ==
  /\ engine = "closed" /\ engine' = "off"
  /\ count' = FirstCount /\ geometry' = Unset /\ usage' = FirstUsage
  /\ UNCHANGED <<table, held, copying>>

Init ==
  /\ count = FirstCount /\ geometry = Unset /\ usage = FirstUsage
  /\ allocated = None /\ batch = 0
  /\ handle = [i \in Slots |-> None]
  /\ busy = [i \in Slots |-> FALSE]
  /\ engine = "off" /\ held = {}
  /\ copying = [slots |-> {}, image |-> 0]

Next ==
  \/ \E c \in Counts : SetBufferCount(c)
  \/ \E g \in Geometries : SetBuffersGeometry(g)
  \/ \E u \in Usages : SetUsage(u)
  \/ DequeueBuffer \/ DequeueAllocates \/ FinishEnqueue
  \/ \E i \in Slots : Fill(i) \/ EnqueueBuffer(i) \/ CancelBuffer(i)
  \/ StartPreview \/ StopPreview \/ Close \/ Open

Spec == Init /\ [][Next]_vars

-----------------------------------------------------------------------------
(* Properties. *)

\* Types, and that only a slot with a buffer is busy: a table that is freed
\* (m86_preview_window_free_buffers_locked) keeps no mark of its old buffers.
TypeOK ==
  /\ count \in Counts \cup {FirstCount}
  /\ geometry \in Geometries \cup {Unset}
  /\ usage \in Usages
  /\ allocated \in Layouts \cup {None}
  /\ handle \in [Slots -> Buffers \cup {None}]
  /\ busy \in [Slots -> BOOLEAN]
  /\ \A i \in Slots : busy[i] => handle[i] # None
  /\ batch \in 0 .. 1
  /\ engine \in {"off", "on", "closed"}
  /\ held \subseteq Slots
  /\ copying \in [slots : SUBSET Slots, image : Images]

\* enqueue_buffer copies outside the lock (1540): the picture it copies is
\* neither overwritten by the engine nor freed under it, so the stream gets
\* one whole frame.
FrameIntact ==
  \A i \in copying.slots :
    handle[i] # None /\ handle[i].image = copying.image

\* A buffer in the engine's hands has the geometry and usage the engine set
\* last, whatever allocations failed or were skipped in between (1447).
BuffersMatch ==
  engine = "on" => \A i \in Owned :
    handle[i] # None /\ handle[i].geometry = geometry /\ handle[i].usage = usage

\* The comment at 1430: the engine can dequeue num_preview_buffers through
\* this window, in every session, whatever count it asked for and however
\* the last session ended.
EnoughBuffers ==
  engine = "on" /\ handle[1] # None /\ Cardinality(Owned) < EngineBuffers => Free # {}

\* No callback, not even a setting the engine repeats while frames are in
\* flight, replaces a buffer the engine holds (1447).
HeldStay ==
  [][\A i \in held \cap held' :
       handle'[i] # None /\ handle'[i].batch = handle[i].batch]_vars
=============================================================================
