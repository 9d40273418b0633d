------------------------ MODULE PreviewWindow_proofs ------------------------
(***************************************************************************)
(* Theorems about PreviewWindow, for any size of the table and of the      *)
(* engine's pool, and any settings.                                        *)
(***************************************************************************)
EXTENDS PreviewWindow, FiniteSetTheorems, TLAPS

Asked == Layout(count, geometry, usage)

\* The table is empty, or it is the allocation that the settings ask for.
TableFits ==
  /\ allocated # None => geometry # Unset /\ allocated = Asked /\ engine # "closed"
  /\ \A i \in Slots : handle[i] # None <=> allocated # None /\ i <= allocated.count
  /\ \A i \in Slots : handle[i] # None =>
       handle[i].geometry = geometry /\ handle[i].usage = usage

\* In a session, the busy slots are the engine's and the one being copied.
BusyIsOwned ==
  /\ engine = "on" => \A i \in Slots : busy[i] <=> i \in Owned
  /\ engine # "on" => Owned = {}
  /\ held \cap copying.slots = {}

WindowInv == TypeOK /\ TableFits /\ BusyIsOwned /\ FrameIntact

LEMMA NoneIsNothing == None \notin Buffers /\ None \notin Layouts
<1>1. DOMAIN None = {"none"}
  BY DEF None
<1>2. \A b \in Buffers : DOMAIN b = {"batch", "geometry", "usage", "image"}
  BY DEF Buffers
<1>3. \A l \in Layouts : DOMAIN l = {"count", "geometry", "usage"}
  BY DEF Layouts
<1> QED BY <1>1, <1>2, <1>3

LEMMA LayoutTypes ==
  ASSUME NEW c \in Counts \cup {FirstCount}, NEW g \in Geometries \cup {Unset}, NEW u \in Usages
  PROVE  /\ Layout(c, g, u) \in Layouts
         /\ Layout(c, g, u).count \in MinBuffers .. MaxBuffers
         /\ 1 \in Slots /\ 1 <= Layout(c, g, u).count
         /\ Layout(c, g, u).geometry = g /\ Layout(c, g, u).usage = u
  BY SizeAssumption DEF Layout, Layouts, Clamp, Slots

\* What is owned has a buffer, so the table is in place and is what the
\* settings ask for: a setting repeated keeps it.
LEMMA RepeatedKeeps ==
  ASSUME WindowInv, engine = "on", Owned # {}
  PROVE  Current(Asked)
<1>1. PICK i \in Slots : i \in Owned /\ handle[i] # None
  BY DEF WindowInv, TypeOK, BusyIsOwned, Owned
<1>2. allocated = Asked /\ allocated # None
  BY <1>1 DEF WindowInv, TableFits
<1>3. handle[1] # None
  BY <1>2, LayoutTypes DEF WindowInv, TypeOK, TableFits, Asked
<1> QED BY <1>2, <1>3 DEF Current

\* The table after an allocation for settings c, g and u.
LEMMA Allocated ==
  ASSUME WindowInv, engine = "on",
         NEW c \in Counts \cup {FirstCount}, NEW g \in Geometries, NEW u \in Usages,
         Owned = {} \/ <<c, g, u>> = settings,
         count' = c, geometry' = g, usage' = u, UNCHANGED actors,
         AllocBuffers(Layout(c, g, u))
  PROVE  WindowInv' /\ (Owned # {} => UNCHANGED table)
<1> DEFINE want == Layout(c, g, u)
<1>1. /\ want \in Layouts /\ want.count \in MinBuffers .. MaxBuffers /\ 1 <= want.count
      /\ want.geometry = g /\ want.usage = u /\ want # None /\ g # Unset
      /\ 1 \in Slots
  BY LayoutTypes, NoneIsNothing, SettingAssumption
<1>2. Asked' = want
  BY DEF Asked
<1>3. UNCHANGED <<engine, held, copying>> /\ Owned' = Owned
  BY DEF actors, Owned
<1>4. CASE Current(want) /\ UNCHANGED table
  <2>1. UNCHANGED <<allocated, handle, busy, batch>> /\ allocated = want /\ allocated # None
    BY <1>1, <1>4 DEF table, Current
  <2>2. TypeOK'
    BY <1>3, <2>1 DEF WindowInv, TypeOK
  <2>3. TableFits'
    <3>1. allocated = Asked /\ geometry # Unset
      BY <2>1 DEF WindowInv, TableFits
    <3>2. geometry = g /\ usage = u
      <4>1. Asked.geometry = geometry /\ Asked.usage = usage
        BY LayoutTypes DEF WindowInv, TypeOK, Asked
      <4> QED BY <1>1, <2>1, <3>1, <4>1
    <3> QED BY <1>1, <1>2, <1>3, <2>1, <3>1, <3>2 DEF WindowInv, TableFits
  <2>4. BusyIsOwned' /\ FrameIntact'
    BY <1>3, <2>1 DEF WindowInv, BusyIsOwned, FrameIntact
  <2> QED BY <1>4, <2>2, <2>3, <2>4 DEF WindowInv
<1>5. CASE ~Current(want)
  <2>1. Owned = {} /\ held = {} /\ copying.slots = {}
    BY <1>5, RepeatedKeeps DEF settings, Asked, Owned
  <2>2. FrameIntact'
    BY <1>3, <2>1 DEF FrameIntact
  <2>3. CASE FreeBuffers
    <3>1. /\ allocated' = None /\ batch' = batch
          /\ \A i \in Slots : handle'[i] = None /\ busy'[i] = FALSE
          /\ handle' \in [Slots -> Buffers \cup {None}] /\ busy' \in [Slots -> BOOLEAN]
      BY <2>3 DEF FreeBuffers
    <3>2. TypeOK'
      BY <1>3, <3>1 DEF WindowInv, TypeOK
    <3>3. TableFits' /\ BusyIsOwned'
      BY <1>3, <2>1, <3>1 DEF WindowInv, TableFits, BusyIsOwned
    <3> QED BY <2>1, <2>2, <3>2, <3>3 DEF WindowInv
  <2>4. CASE ~FreeBuffers
    <3>1. /\ batch' = 1 - batch /\ allocated' = want
          /\ handle' = [i \in Slots |-> IF i <= want.count THEN NewBuffer(want) ELSE None]
          /\ busy' = [i \in Slots |-> FALSE]
      BY <1>5, <2>4 DEF AllocBuffers
    <3>2. /\ NewBuffer(want) \in Buffers /\ NewBuffer(want) # None
          /\ NewBuffer(want).geometry = g /\ NewBuffer(want).usage = u
      BY <1>1, NoneIsNothing DEF NewBuffer, Buffers, Images, WindowInv, TypeOK
    <3>3. /\ \A i \in Slots : (handle'[i] # None <=> i <= want.count)
                              /\ (handle'[i] # None => handle'[i] = NewBuffer(want))
                              /\ busy'[i] = FALSE
          /\ handle' \in [Slots -> Buffers \cup {None}] /\ busy' \in [Slots -> BOOLEAN]
          /\ batch' \in 0 .. 1
      BY <3>1, <3>2 DEF WindowInv, TypeOK
    <3>4. TypeOK'
      BY <1>1, <1>3, <3>1, <3>3 DEF WindowInv, TypeOK
    <3>5. TableFits' /\ BusyIsOwned'
      BY <1>1, <1>2, <1>3, <2>1, <3>1, <3>2, <3>3 DEF WindowInv, TableFits, BusyIsOwned
    <3> QED BY <2>1, <2>2, <3>4, <3>5 DEF WindowInv
  <2> QED BY <2>3, <2>4
<1> QED BY <1>4, <1>5 DEF AllocBuffers

\* Before the first geometry nothing is allocated, and a count or a usage
\* only goes into the settings.
LEMMA Unallocated ==
  ASSUME WindowInv, engine = "on", geometry = Unset,
         count' \in Counts \cup {FirstCount}, usage' \in Usages,
         UNCHANGED <<geometry, table, actors>>
  PROVE  WindowInv' /\ Owned = {}
<1>1. allocated = None /\ \A i \in Slots : handle[i] = None /\ i \notin Owned
  BY DEF WindowInv, TypeOK, TableFits, BusyIsOwned
<1>2. Owned = {}
  BY <1>1 DEF WindowInv, TypeOK, Owned, BusyIsOwned
<1>3. UNCHANGED <<geometry, allocated, handle, busy, batch, engine, held, copying, Owned>>
  BY DEF table, actors, Owned
<1>4. TypeOK'
  BY <1>3 DEF WindowInv, TypeOK
<1>5. TableFits' /\ BusyIsOwned' /\ FrameIntact'
  BY <1>1, <1>3 DEF WindowInv, TableFits, BusyIsOwned, FrameIntact
<1> QED BY <1>2, <1>4, <1>5 DEF WindowInv

-----------------------------------------------------------------------------
(* One lemma per group of actions: each keeps the invariant and, where the *)
(* engine holds a buffer before and after, that buffer.                    *)

HeldStayStep ==
  \A i \in held \cap held' : handle'[i] # None /\ handle'[i].batch = handle[i].batch

\* A step that keeps the table keeps every buffer in it that is held.
LEMMA TableKept ==
  ASSUME WindowInv, UNCHANGED handle
  PROVE  HeldStayStep
<1>1. \A i \in held : i \in Slots /\ busy[i] /\ handle[i] # None
  BY DEF WindowInv, TypeOK, BusyIsOwned, Owned
<1> QED BY <1>1 DEF HeldStayStep

LEMMA SettingSteps ==
  ASSUME WindowInv,
         \/ \E c \in Counts : SetBufferCount(c)
         \/ \E g \in Geometries : SetBuffersGeometry(g)
         \/ \E u \in Usages : SetUsage(u)
  PROVE  WindowInv' /\ HeldStayStep
<1>1. SUFFICES WindowInv' /\ (Owned # {} => UNCHANGED handle)
  BY <1>1, TableKept DEF HeldStayStep, Owned
<1>2. /\ count \in Counts \cup {FirstCount} /\ geometry \in Geometries \cup {Unset}
      /\ usage \in Usages
  BY DEF WindowInv, TypeOK
<1>3. ASSUME NEW c \in Counts, SetBufferCount(c)
      PROVE  WindowInv' /\ (Owned # {} => UNCHANGED table)
  <2>1. /\ engine = "on" /\ (Owned = {} \/ <<c, geometry, usage>> = settings)
        /\ count' = c /\ geometry' = geometry /\ usage' = usage /\ UNCHANGED actors
    BY <1>3 DEF SetBufferCount, MayChange
  <2>2. CASE geometry = Unset
    BY <1>2, <1>3, <2>1, <2>2, Unallocated DEF SetBufferCount
  <2>3. CASE geometry # Unset
    BY <1>2, <1>3, <2>1, <2>3, Allocated DEF SetBufferCount
  <2> QED BY <2>2, <2>3
<1>4. ASSUME NEW g \in Geometries, SetBuffersGeometry(g)
      PROVE  WindowInv' /\ (Owned # {} => UNCHANGED table)
  <2>1. /\ engine = "on" /\ (Owned = {} \/ <<count, g, usage>> = settings)
        /\ count' = count /\ geometry' = g /\ usage' = usage /\ UNCHANGED actors
        /\ AllocBuffers(Layout(count, g, usage))
    BY <1>4 DEF SetBuffersGeometry, MayChange
  <2> QED BY <1>2, <2>1, Allocated
<1>5. ASSUME NEW u \in Usages, SetUsage(u)
      PROVE  WindowInv' /\ (Owned # {} => UNCHANGED table)
  <2>1. /\ engine = "on" /\ (Owned = {} \/ <<count, geometry, u>> = settings)
        /\ count' = count /\ geometry' = geometry /\ usage' = u /\ UNCHANGED actors
    BY <1>5 DEF SetUsage, MayChange
  <2>2. CASE geometry = Unset
    BY <1>2, <1>5, <2>1, <2>2, Unallocated DEF SetUsage
  <2>3. CASE geometry # Unset
    BY <1>2, <1>5, <2>1, <2>3, Allocated DEF SetUsage
  <2> QED BY <2>2, <2>3
<1> QED BY <1>3, <1>4, <1>5 DEF table

LEMMA DequeueStep ==
  ASSUME WindowInv, DequeueBuffer
  PROVE  WindowInv' /\ HeldStayStep
<1>1. PICK i \in Slots : /\ handle[i] # None /\ ~busy[i]
                         /\ busy' = [busy EXCEPT ![i] = TRUE] /\ held' = held \cup {i}
  BY DEF DequeueBuffer, Free, HandOut
<1>2. /\ UNCHANGED <<count, geometry, usage, allocated, handle, batch, copying>>
      /\ engine = "on" /\ engine' = "on"
  BY DEF DequeueBuffer, HandOut, settings
<1>3. busy' \in [Slots -> BOOLEAN] /\ \A j \in Slots : busy'[j] <=> busy[j] \/ j = i
  BY <1>1 DEF WindowInv, TypeOK
<1>4. \A j \in Slots : busy[j] <=> j \in Owned
  BY <1>2 DEF WindowInv, BusyIsOwned
<1>5. TypeOK'
  BY <1>1, <1>2, <1>3 DEF WindowInv, TypeOK
<1>6. TableFits' /\ FrameIntact'
  BY <1>2 DEF WindowInv, TableFits, FrameIntact, Asked
<1>7. BusyIsOwned'
  BY <1>1, <1>2, <1>3, <1>4 DEF WindowInv, BusyIsOwned, Owned
<1>8. HeldStayStep
  BY <1>2, TableKept
<1> QED BY <1>5, <1>6, <1>7, <1>8 DEF WindowInv

LEMMA DequeueAllocatesStep ==
  ASSUME WindowInv, DequeueAllocates
  PROVE  WindowInv' /\ HeldStayStep
<1> DEFINE want == Layout(count, geometry, usage)
<1>1. /\ UNCHANGED <<count, geometry, usage, copying>> /\ geometry \in Geometries
      /\ engine = "on" /\ engine' = "on" /\ handle[1] = None
  BY DEF DequeueAllocates, settings, WindowInv, TypeOK
<1>2. /\ want \in Layouts /\ want.count \in MinBuffers .. MaxBuffers /\ 1 <= want.count
      /\ want.geometry = geometry /\ want.usage = usage /\ want # None /\ geometry # Unset
      /\ 1 \in Slots /\ Asked' = want
  BY <1>1, LayoutTypes, NoneIsNothing, SettingAssumption DEF WindowInv, TypeOK, Asked
<1>3. Owned = {} /\ held = {} /\ copying.slots = {}
  BY <1>1, <1>2, RepeatedKeeps DEF Current, Owned
<1>4. FrameIntact' /\ HeldStayStep
  BY <1>1, <1>3 DEF FrameIntact, HeldStayStep
<1>5. CASE FreeBuffers /\ UNCHANGED held
  <2>1. /\ allocated' = None /\ batch' = batch
        /\ \A i \in Slots : handle'[i] = None /\ busy'[i] = FALSE
        /\ handle' \in [Slots -> Buffers \cup {None}] /\ busy' \in [Slots -> BOOLEAN]
    BY <1>5 DEF FreeBuffers
  <2>2. TypeOK'
    BY <1>1, <1>5, <2>1 DEF WindowInv, TypeOK
  <2>3. TableFits' /\ BusyIsOwned'
    BY <1>1, <1>3, <1>5, <2>1 DEF WindowInv, TableFits, BusyIsOwned, Owned
  <2> QED BY <1>4, <2>2, <2>3 DEF WindowInv
<1>6. CASE /\ batch' = 1 - batch
           /\ handle' = [i \in Slots |-> IF i <= want.count THEN NewBuffer(want) ELSE None]
           /\ busy' = [i \in Slots |-> i = 1]
           /\ allocated' = want
           /\ held' = held \cup {1}
  <2>1. /\ NewBuffer(want) \in Buffers /\ NewBuffer(want) # None
        /\ NewBuffer(want).geometry = geometry /\ NewBuffer(want).usage = usage
    BY <1>2, NoneIsNothing DEF NewBuffer, Buffers, Images, WindowInv, TypeOK
  <2>2. /\ \A i \in Slots : (handle'[i] # None <=> i <= want.count)
                            /\ (handle'[i] # None => handle'[i] = NewBuffer(want))
        /\ handle' \in [Slots -> Buffers \cup {None}] /\ batch' \in 0 .. 1
    BY <1>6, <2>1 DEF WindowInv, TypeOK
  <2>3. busy' \in [Slots -> BOOLEAN] /\ \A i \in Slots : busy'[i] <=> i = 1
    BY <1>6
  <2>4. TypeOK'
    BY <1>1, <1>2, <1>3, <1>6, <2>2, <2>3 DEF WindowInv, TypeOK
  <2>5. TableFits' /\ BusyIsOwned'
    BY <1>1, <1>2, <1>3, <1>6, <2>1, <2>2, <2>3 DEF WindowInv, TableFits, BusyIsOwned, Owned
  <2> QED BY <1>4, <2>4, <2>5 DEF WindowInv
<1> QED BY <1>5, <1>6 DEF DequeueAllocates

LEMMA FillStep ==
  ASSUME WindowInv, NEW i \in Slots, Fill(i)
  PROVE  WindowInv' /\ HeldStayStep
<1>1. /\ i \in held /\ i \notin copying.slots /\ handle[i] # None
      /\ handle' = [handle EXCEPT ![i].image = 1 - handle[i].image]
      /\ UNCHANGED <<allocated, busy, batch, count, geometry, usage, engine, held, copying>>
  BY DEF Fill, settings, actors, WindowInv, BusyIsOwned
<1>2. handle[i] \in Buffers /\ handle' \in [Slots -> Buffers \cup {None}]
  BY <1>1 DEF WindowInv, TypeOK, Buffers, Images
<1>3. /\ \A j \in Slots \ {i} : handle'[j] = handle[j]
      /\ handle'[i] \in Buffers /\ handle'[i].batch = handle[i].batch
      /\ handle'[i].geometry = handle[i].geometry /\ handle'[i].usage = handle[i].usage
  BY <1>1, <1>2 DEF WindowInv, TypeOK, Buffers, Images
<1>4. \A j \in Slots : handle'[j] # None <=> handle[j] # None
  BY <1>1, <1>3, NoneIsNothing
<1>5. TypeOK'
  BY <1>1, <1>2, <1>4 DEF WindowInv, TypeOK
<1>6. TableFits' /\ BusyIsOwned'
  BY <1>1, <1>3, <1>4 DEF WindowInv, TableFits, BusyIsOwned, Owned, Asked
<1>7. FrameIntact'
  BY <1>1, <1>3 DEF WindowInv, TypeOK, FrameIntact
<1>8. HeldStayStep
  <2>1. ASSUME NEW j \in held PROVE handle'[j] # None /\ handle'[j].batch = handle[j].batch
    <3>1. j \in Slots /\ handle[j] # None
      BY <1>1 DEF WindowInv, TypeOK, BusyIsOwned, Owned, Fill
    <3> QED BY <1>3, <1>4, <3>1
  <2> QED BY <2>1 DEF HeldStayStep
<1> QED BY <1>5, <1>6, <1>7, <1>8 DEF WindowInv

LEMMA EnqueueStep ==
  ASSUME WindowInv, NEW i \in Slots, EnqueueBuffer(i)
  PROVE  WindowInv' /\ HeldStayStep
<1>1. /\ engine = "on" /\ i \in held /\ copying.slots = {} /\ handle[i] # None
      /\ held' = held \ {i} /\ copying' = [slots |-> {i}, image |-> handle[i].image]
      /\ UNCHANGED <<count, geometry, usage, allocated, handle, busy, batch, engine>>
  BY DEF EnqueueBuffer, settings, table
<1>2. handle[i].image \in Images
  BY <1>1 DEF WindowInv, TypeOK, Buffers
<1>3. TypeOK' /\ FrameIntact'
  BY <1>1, <1>2 DEF WindowInv, TypeOK, FrameIntact
<1>4. TableFits' /\ BusyIsOwned'
  BY <1>1 DEF WindowInv, TableFits, BusyIsOwned, Owned, Asked
<1> QED BY <1>1, <1>3, <1>4, TableKept DEF WindowInv

LEMMA ReleaseStep ==
  ASSUME WindowInv, FinishEnqueue \/ \E i \in Slots : CancelBuffer(i)
  PROVE  WindowInv' /\ HeldStayStep
<1>1. UNCHANGED <<count, geometry, usage, allocated, handle, batch, engine>>
  BY DEF FinishEnqueue, CancelBuffer, settings
<1>2. CASE FinishEnqueue
  <2>1. /\ held' = held /\ copying' = [slots |-> {}, image |-> 0]
        /\ \A i \in Slots : busy'[i] <=> busy[i] /\ i \notin copying.slots
        /\ busy' \in [Slots -> BOOLEAN] /\ engine = "on"
    BY <1>2 DEF FinishEnqueue, WindowInv, TypeOK, BusyIsOwned, Owned
  <2>2. TypeOK' /\ FrameIntact'
    BY <1>1, <2>1 DEF WindowInv, TypeOK, FrameIntact, Images
  <2>3. TableFits' /\ BusyIsOwned'
    BY <1>1, <2>1 DEF WindowInv, TableFits, BusyIsOwned, Owned, Asked
  <2> QED BY <1>1, <2>2, <2>3, TableKept DEF WindowInv
<1>3. ASSUME NEW i \in Slots, CancelBuffer(i) PROVE WindowInv' /\ HeldStayStep
  <2>1. /\ held' = held \ {i} /\ copying' = copying /\ i \in held /\ engine = "on"
        /\ \A j \in Slots : busy'[j] <=> busy[j] /\ j # i
        /\ busy' \in [Slots -> BOOLEAN]
    BY <1>3 DEF CancelBuffer, WindowInv, TypeOK
  <2>2. TypeOK' /\ FrameIntact'
    BY <1>1, <2>1 DEF WindowInv, TypeOK, FrameIntact
  <2>3. TableFits' /\ BusyIsOwned'
    BY <1>1, <2>1 DEF WindowInv, TableFits, BusyIsOwned, Owned, Asked
  <2> QED BY <1>1, <2>2, <2>3, TableKept DEF WindowInv
<1> QED BY <1>2, <1>3

LEMMA SessionStep ==
  ASSUME WindowInv, StartPreview \/ StopPreview \/ Close \/ Open
  PROVE  WindowInv' /\ HeldStayStep
<1>1. CASE StartPreview \/ Close
  <2>1. /\ allocated' = None /\ batch' = batch
        /\ \A i \in Slots : handle'[i] = None /\ busy'[i] = FALSE
        /\ handle' \in [Slots -> Buffers \cup {None}] /\ busy' \in [Slots -> BOOLEAN]
    BY <1>1 DEF StartPreview, Close, FreeBuffers
  <2>2. /\ UNCHANGED <<count, geometry, usage, held, copying>> /\ engine' \in {"on", "closed"}
        /\ engine # "on"
    BY <1>1 DEF StartPreview, Close, settings
  <2>3. held = {} /\ copying.slots = {}
    BY <2>2 DEF WindowInv, BusyIsOwned, Owned
  <2>4. TypeOK' /\ FrameIntact' /\ HeldStayStep
    BY <2>1, <2>2, <2>3 DEF WindowInv, TypeOK, FrameIntact, HeldStayStep
  <2>5. TableFits' /\ BusyIsOwned'
    BY <2>1, <2>2, <2>3 DEF WindowInv, TableFits, BusyIsOwned, Owned
  <2> QED BY <2>4, <2>5 DEF WindowInv
<1>2. CASE StopPreview
  <2>1. /\ copying.slots = {} /\ engine' = "off" /\ held' = {}
        /\ UNCHANGED <<count, geometry, usage, allocated, handle, busy, batch, copying>>
    BY <1>2 DEF StopPreview, settings, table
  <2>2. TypeOK' /\ FrameIntact' /\ HeldStayStep
    BY <2>1 DEF WindowInv, TypeOK, FrameIntact, HeldStayStep
  <2>3. TableFits' /\ BusyIsOwned'
    BY <2>1 DEF WindowInv, TableFits, BusyIsOwned, Owned, Asked
  <2> QED BY <2>2, <2>3 DEF WindowInv
<1>3. CASE Open
  <2>1. /\ engine = "closed" /\ engine' = "off" /\ count' = FirstCount /\ geometry' = Unset
        /\ usage' = FirstUsage
        /\ UNCHANGED <<allocated, handle, busy, batch, held, copying>>
    BY <1>3 DEF Open, table
  <2>2. allocated = None /\ held = {} /\ copying.slots = {}
    BY <2>1 DEF WindowInv, TableFits, BusyIsOwned, Owned
  <2>3. TypeOK' /\ FrameIntact' /\ HeldStayStep
    BY <2>1, <2>2, SettingAssumption DEF WindowInv, TypeOK, FrameIntact, HeldStayStep
  <2>4. TableFits' /\ BusyIsOwned'
    BY <2>1, <2>2 DEF WindowInv, TableFits, BusyIsOwned, Owned
  <2> QED BY <2>3, <2>4 DEF WindowInv
<1> QED BY <1>1, <1>2, <1>3

LEMMA InitWindow == Init => WindowInv
<1> SUFFICES ASSUME Init PROVE WindowInv
  OBVIOUS
<1>1. /\ count = FirstCount /\ geometry = Unset /\ usage = FirstUsage
      /\ allocated = None /\ batch = 0 /\ engine = "off" /\ held = {}
      /\ copying = [slots |-> {}, image |-> 0]
      /\ handle = [i \in Slots |-> None] /\ busy = [i \in Slots |-> FALSE]
  BY DEF Init
<1>2. \A i \in Slots : handle[i] = None /\ ~busy[i]
  BY <1>1
<1>3. handle \in [Slots -> Buffers \cup {None}] /\ busy \in [Slots -> BOOLEAN]
  BY <1>1
<1>4. TypeOK
  BY <1>1, <1>2, <1>3, SettingAssumption DEF TypeOK, Images
<1>5. TableFits /\ BusyIsOwned /\ FrameIntact
  BY <1>1, <1>2 DEF TableFits, BusyIsOwned, Owned, FrameIntact
<1> QED BY <1>4, <1>5 DEF WindowInv

LEMMA NextWindow ==
  ASSUME WindowInv, [Next]_vars
  PROVE  WindowInv' /\ HeldStayStep
<1>1. CASE UNCHANGED vars
  <2>1. UNCHANGED <<count, geometry, usage, allocated, handle, busy, batch, engine, held, copying>>
    BY <1>1 DEF vars
  <2>2. TypeOK' /\ FrameIntact'
    BY <2>1 DEF WindowInv, TypeOK, FrameIntact
  <2>3. TableFits' /\ BusyIsOwned'
    BY <2>1 DEF WindowInv, TableFits, BusyIsOwned, Owned, Asked
  <2> QED BY <2>1, <2>2, <2>3, TableKept DEF WindowInv
<1>2. CASE Next
  BY <1>2, SettingSteps, DequeueStep, DequeueAllocatesStep, FillStep, EnqueueStep, ReleaseStep,
     SessionStep DEF Next
<1> QED BY <1>1, <1>2

\* The table has a free buffer as long as the engine owns fewer than its pool:
\* if none is free, the owned slots are all the allocated ones.
LEMMA RoomForEngine == WindowInv => EnoughBuffers
<1> SUFFICES ASSUME WindowInv, engine = "on", handle[1] # None, Free = {}
             PROVE  ~(Cardinality(Owned) < EngineBuffers)
  BY DEF EnoughBuffers
<1>1. /\ allocated.count \in MinBuffers .. MaxBuffers
      /\ \A i \in Slots : handle[i] # None <=> i <= allocated.count
  <2>1. 1 \in Slots
    BY SizeAssumption DEF Slots
  <2>2. allocated # None /\ allocated \in Layouts \cup {None}
    BY <2>1 DEF WindowInv, TypeOK, TableFits
  <2> QED BY <2>2 DEF WindowInv, TableFits, Layouts
<1>2. 1 .. allocated.count \subseteq Owned
  BY <1>1, SizeAssumption DEF WindowInv, BusyIsOwned, Free, Slots
<1>3. Owned \subseteq Slots /\ IsFiniteSet(Slots)
  <2>1. Owned \subseteq Slots
    BY DEF WindowInv, TypeOK, Owned
  <2>2. 1 \in Int /\ MaxBuffers \in Int
    BY SizeAssumption
  <2>3. IsFiniteSet(1 .. MaxBuffers)
    BY <2>2, FS_Interval
  <2> QED BY <2>1, <2>3 DEF Slots
<1>4. IsFiniteSet(Owned)
  BY <1>3, FS_Subset
<1>5. Cardinality(1 .. allocated.count) = allocated.count
  BY <1>1, SizeAssumption, FS_Interval
<1>6. /\ Cardinality(1 .. allocated.count) <= Cardinality(Owned)
      /\ Cardinality(Owned) \in Nat
  BY <1>2, <1>4, FS_Subset, FS_CardinalityType
<1> QED BY <1>1, <1>5, <1>6, SizeAssumption

-----------------------------------------------------------------------------
(* The theorems. *)

LEMMA AlwaysWindow == Spec => []WindowInv
  BY InitWindow, NextWindow, PTL DEF Spec

\* No slot is marked busy without a buffer, in any session.
THEOREM TypeCorrect == Spec => []TypeOK
<1>1. WindowInv => TypeOK
  BY DEF WindowInv
<1> QED BY <1>1, AlwaysWindow, PTL

\* The image that enqueue_buffer copies without the lock is whole.
THEOREM CopiesAreWhole == Spec => []FrameIntact
<1>1. WindowInv => FrameIntact
  BY DEF WindowInv
<1> QED BY <1>1, AlwaysWindow, PTL

\* The engine's buffers have the settings it asked for last.
THEOREM SettingsApplied == Spec => []BuffersMatch
<1>1. WindowInv => BuffersMatch
  BY DEF WindowInv, TypeOK, TableFits, BusyIsOwned, BuffersMatch, Owned
<1> QED BY <1>1, AlwaysWindow, PTL

\* num_preview_buffers can be dequeued whatever was asked for before.
THEOREM DequeuesSucceed == Spec => []EnoughBuffers
  BY RoomForEngine, AlwaysWindow, PTL

\* No buffer is replaced in the engine's hands.
THEOREM HeldBuffersStay == Spec => HeldStay
<1>1. WindowInv /\ [Next]_vars => [HeldStayStep]_vars
  BY NextWindow
<1>2. [HeldStayStep]_vars <=> [\A i \in held \cap held' :
         handle'[i] # None /\ handle'[i].batch = handle[i].batch]_vars
  BY DEF HeldStayStep
<1> QED BY <1>1, <1>2, AlwaysWindow, PTL DEF Spec, HeldStay
=============================================================================
