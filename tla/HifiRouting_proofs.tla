-------------------------- MODULE HifiRouting_proofs --------------------------
(***************************************************************************)
(* Proofs about HifiRouting: what the mixer thread believes, what the      *)
(* wrapper records and what the vendor HAL applies agree for any number of *)
(* settings, tracks, patches, restarts and refused calls.                  *)
(***************************************************************************)
EXTENDS HifiRouting, TLAPS

-----------------------------------------------------------------------------
(* The event queue.                                                        *)

Events       == {"recompute", "patch"} \X BOOLEAN
At(q, kind)  == {i \in 1 .. Len(q) : q[i][1] = kind}
Once(q, kind) == \A i, j \in At(q, kind) : i = j

LEMMA EventFacts ==
  /\ \A b \in BOOLEAN : /\ <<"recompute", b>> \in Events /\ <<"patch", b>> \in Events
                        /\ <<"recompute", b>>[1] = "recompute" /\ <<"patch", b>>[1] = "patch"
  /\ \A e \in Events : e[1] \in {"recompute", "patch"} /\ e[2] \in BOOLEAN
BY DEF Events

LEMMA AppendAt ==
  ASSUME NEW q \in Seq(Events), NEW e \in Events, NEW kind
  PROVE  /\ Append(q, e) \in Seq(Events)
         /\ e[1] = kind => At(Append(q, e), kind) = At(q, kind) \cup {Len(q) + 1}
         /\ e[1] # kind => At(Append(q, e), kind) = At(q, kind)
<1>1. /\ Append(q, e) \in Seq(Events) /\ Len(Append(q, e)) = Len(q) + 1 /\ Len(q) \in Nat
      /\ \A i \in 1 .. Len(q) : Append(q, e)[i] = q[i]
      /\ Append(q, e)[Len(q) + 1] = e
  OBVIOUS
<1>2. ASSUME NEW i
      PROVE  i \in At(Append(q, e), kind)
               <=> i \in At(q, kind) \/ (i = Len(q) + 1 /\ e[1] = kind)
  <2>1. i \in 1 .. Len(q) + 1 <=> i \in 1 .. Len(q) \/ i = Len(q) + 1
    BY <1>1
  <2>2. ~(Len(q) + 1 \in 1 .. Len(q))
    BY <1>1
  <2>. QED
    BY <1>1, <2>1, <2>2 DEF At
<1>. QED
  BY <1>1, <1>2

LEMMA TailAt ==
  ASSUME NEW q \in Seq(Events), q # <<>>, NEW kind
  PROVE  /\ Head(q) \in Events /\ Tail(q) \in Seq(Events)
         /\ \A i \in At(Tail(q), kind) : i + 1 \in At(q, kind) /\ i + 1 # 1
         /\ \A i \in At(q, kind) : i = 1 \/ i - 1 \in At(Tail(q), kind)
         /\ 1 \in At(q, kind) <=> Head(q)[1] = kind
<1>1. /\ Head(q) \in Events /\ Tail(q) \in Seq(Events) /\ Len(q) \in Nat \ {0}
      /\ Len(Tail(q)) = Len(q) - 1 /\ Head(q) = q[1]
      /\ \A i \in 1 .. Len(Tail(q)) : Tail(q)[i] = q[i + 1]
  OBVIOUS
<1>2. ASSUME NEW i \in At(Tail(q), kind) PROVE i + 1 \in At(q, kind) /\ i + 1 # 1
  BY <1>1, <1>2 DEF At
<1>3. ASSUME NEW i \in At(q, kind), i # 1 PROVE i - 1 \in At(Tail(q), kind)
  <2>1. i - 1 \in 1 .. Len(Tail(q)) /\ (i - 1) + 1 = i
    BY <1>1, <1>3 DEF At
  <2>2. Tail(q)[i - 1] = q[i]
    BY <1>1, <2>1
  <2>. QED
    BY <1>3, <2>1, <2>2 DEF At
<1>4. 1 \in At(q, kind) <=> Head(q)[1] = kind
  BY <1>1 DEF At
<1>. QED
  BY <1>1, <1>2, <1>3, <1>4

(* An event that is queued once is gone when it has been handled, and the  *)
(* handling of another leaves it queued.                                   *)
LEMMA HandledOnce ==
  ASSUME NEW q \in Seq(Events), q # <<>>, NEW kind, Once(q, kind)
  PROVE  /\ Once(Tail(q), kind)
         /\ Head(q)[1] = kind => At(Tail(q), kind) = {}
         /\ Head(q)[1] # kind => (At(Tail(q), kind) = {} <=> At(q, kind) = {})
<1>0. \A i \in At(Tail(q), kind) : i \in Int
  BY DEF At
<1>1. ASSUME NEW i \in At(Tail(q), kind), NEW j \in At(Tail(q), kind) PROVE i = j
  <2>1. i + 1 = j + 1
    BY <1>1, TailAt DEF Once
  <2>. QED
    BY <1>0, <2>1
<1>. QED
  BY <1>1, TailAt DEF Once

(* At most one event of each kind waits, since a second recompute is       *)
(* coalesced and the policy manager waits for the answer to its patch.     *)
Waiting(q) == q \in Seq(Events) /\ Once(q, "recompute") /\ Once(q, "patch")
QueueOK ==
  /\ Waiting(events)
  /\ recomputeQueued \in BOOLEAN /\ forceQueued \in BOOLEAN
  /\ recomputeQueued <=> At(events, "recompute") # {}
  /\ forceQueued => recomputeQueued

LEMMA RequestQueue ==
  ASSUME NEW q, Waiting(q), NEW force \in BOOLEAN, QueueOK,
         recomputeQueued <=> At(q, "recompute") # {}, Request(q, force)
  PROVE  QueueOK' /\ recomputeQueued' /\ (forceQueued' <=> forceQueued \/ force)
<1>1. recomputeQueued' = TRUE /\ forceQueued' = (forceQueued \/ force)
  BY DEF Request
<1>2. CASE recomputeQueued
  <2>1. events' = q
    BY <1>2 DEF Request
  <2>. QED
    BY <1>1, <1>2, <2>1 DEF QueueOK
<1>3. CASE ~recomputeQueued
  <2>1. events' = Append(q, <<"recompute", force>>)
    BY <1>3 DEF Request
  <2>2. At(q, "recompute") = {} /\ <<"recompute", force>> \in Events
    BY <1>3, EventFacts
  <2>3. /\ events' \in Seq(Events) /\ At(events', "patch") = At(q, "patch")
        /\ At(events', "recompute") = {Len(q) + 1}
    <3>. DEFINE e == <<"recompute", force>>
    <3>1. e[1] = "recompute" /\ e \in Events /\ q \in Seq(Events)
      BY EventFacts DEF Waiting
    <3>. HIDE DEF e
    <3>2. /\ Append(q, e) \in Seq(Events) /\ At(Append(q, e), "patch") = At(q, "patch")
          /\ At(Append(q, e), "recompute") = At(q, "recompute") \cup {Len(q) + 1}
      BY <3>1, AppendAt
    <3>. QED
      BY <2>1, <2>2, <3>2 DEF e
  <2>4. Once(events', "recompute") /\ Once(events', "patch")
    BY <2>3 DEF Once, Waiting
  <2>. QED
    BY <1>1, <2>3, <2>4 DEF QueueOK, Waiting
<1>. QED
  BY <1>2, <1>3

(* What an event leaves behind when it is taken.                           *)
LEMMA Taken ==
  ASSUME QueueOK, events # <<>>
  PROVE  /\ Waiting(Tail(events))
         /\ Head(events)[1] = "recompute" => At(Tail(events), "recompute") = {}
         /\ Head(events)[1] = "patch" =>
              /\ At(Tail(events), "patch") = {}
              /\ recomputeQueued <=> At(Tail(events), "recompute") # {}
BY HandledOnce, TailAt DEF QueueOK, Waiting

LEMMA NextQueue == QueueOK /\ [Next]_vars => QueueOK'
<1> SUFFICES ASSUME QueueOK, [Next]_vars PROVE QueueOK'
  OBVIOUS
<1>1. CASE UNCHANGED queues
  BY <1>1 DEF queues, QueueOK
<1>2. ASSUME NEW force \in BOOLEAN, Request(events, force) PROVE QueueOK'
  BY <1>2, RequestQueue DEF QueueOK
<1>3. CASE HandlePatch
  <2>1. events # <<>> /\ Head(events)[1] = "patch"
    BY <1>3 DEF HandlePatch
  <2>2. CASE Request(Tail(events), FALSE)
    BY <2>1, <2>2, Taken, RequestQueue
  <2>3. CASE events' = Tail(events) /\ UNCHANGED <<recomputeQueued, forceQueued>>
    BY <2>1, <2>3, Taken DEF QueueOK
  <2>. QED
    BY <1>3, <2>2, <2>3 DEF HandlePatch
<1>4. CASE Recompute
  <2>1. /\ events # <<>> /\ Head(events)[1] = "recompute" /\ events' = Tail(events)
        /\ recomputeQueued' = FALSE /\ forceQueued' = FALSE
    BY <1>4 DEF Recompute
  <2>. QED
    BY <2>1, Taken DEF QueueOK
<1>5. ASSUME NEW w \in BOOLEAN, SendPatch(w) PROVE QueueOK'
  <2>1. /\ events' = Append(events, <<"patch", w>>) /\ NoPatch
        /\ UNCHANGED <<recomputeQueued, forceQueued>>
    BY <1>5 DEF SendPatch
  <2>2. At(events, "patch") = {} /\ <<"patch", w>> \in Events
    BY <2>1, EventFacts DEF NoPatch, At
  <2>3. /\ events' \in Seq(Events) /\ At(events', "patch") = {Len(events) + 1}
        /\ At(events', "recompute") = At(events, "recompute")
    <3>. DEFINE e == <<"patch", w>>
    <3>1. e[1] = "patch" /\ e \in Events /\ events \in Seq(Events)
      BY EventFacts DEF QueueOK, Waiting
    <3>. HIDE DEF e
    <3>2. /\ Append(events, e) \in Seq(Events)
          /\ At(Append(events, e), "recompute") = At(events, "recompute")
          /\ At(Append(events, e), "patch") = At(events, "patch") \cup {Len(events) + 1}
      BY <3>1, AppendAt
    <3>. QED
      BY <2>1, <2>2, <3>2 DEF e
  <2>4. Once(events', "recompute") /\ Once(events', "patch")
    BY <2>3 DEF Once, QueueOK, Waiting
  <2>. QED
    BY <2>1, <2>3, <2>4 DEF QueueOK, Waiting
<1>6. CASE StopMixer
  <2>1. events' = <<>> /\ recomputeQueued' = FALSE /\ forceQueued' = FALSE
    BY <1>6 DEF StopMixer
  <2>2. At(events', "recompute") = {} /\ At(events', "patch") = {} /\ events' \in Seq(Events)
    BY <2>1 DEF At
  <2>. QED
    BY <2>1, <2>2 DEF QueueOK, Waiting, Once
<1>7. CASE SetParameters
  BY <1>1, <1>2, <1>7
     DEF SetParameters, BeginSet, SetUser, SetGain, StoreEnabled, StoreGain, EndSet
<1>8. ASSUME NEW t \in Tracks, StartTrack(t) PROVE QueueOK'
  BY <1>2, <1>8 DEF StartTrack
<1>9. CASE RemoveTracks
  BY <1>2, <1>9 DEF RemoveTracks
<1>10. FinishReconfigure \/ Write \/ (\E w \in BOOLEAN : OpenOutput(w)) \/ UNCHANGED vars
         => UNCHANGED queues
  BY DEF FinishReconfigure, Write, OpenOutput, vars
<1>11. CloseOutput \/ Restart => StopMixer
  BY DEF CloseOutput, Restart
<1>. QED
  BY <1>1, <1>3, <1>4, <1>5, <1>6, <1>7, <1>8, <1>9, <1>10, <1>11 DEF Next, Mixer

-----------------------------------------------------------------------------
(* Types.                                                                  *)

(* Without an output there is no mixer thread, no track and no route.      *)
ClosedInv ==
  ~open => /\ events = <<>> /\ active = {} /\ mixer = "idle"
           /\ ~hifiRoute /\ ~wired /\ ~outWired

LEMMA NextClosed == QueueOK /\ ClosedInv /\ [Next]_vars => ClosedInv'
<1> SUFFICES ASSUME QueueOK, ClosedInv, [Next]_vars, ~open'
             PROVE  /\ events' = <<>> /\ active' = {} /\ mixer' = "idle"
                    /\ ~hifiRoute' /\ ~wired' /\ ~outWired'
  BY DEF ClosedInv
<1>. USE DEF wrapper, queues
<1>1. CASE StopMixer /\ mixer' = "idle"
  BY <1>1 DEF StopMixer
<1>2. CloseOutput \/ Restart => StopMixer /\ mixer' = "idle"
  BY DEF CloseOutput, Restart
<1>3. CASE UNCHANGED <<events, active, mixer, hifiRoute, wired, outWired, open>>
  BY <1>3 DEF ClosedInv
<1>4. CASE SetParameters
  <2>1. UNCHANGED <<active, mixer, hifiRoute, wired, outWired, open>>
    BY <1>4 DEF SetParameters, BeginSet, SetUser, SetGain, StoreEnabled, StoreGain, EndSet
  <2>2. UNCHANGED events
    BY <1>4, <2>1
       DEF SetParameters, BeginSet, SetUser, SetGain, StoreEnabled, StoreGain, EndSet
  <2>. QED
    BY <1>3, <2>1, <2>2
<1>5. ASSUME open, UNCHANGED wrapper PROVE FALSE
  BY <1>5
<1>6. \A w \in BOOLEAN : OpenOutput(w) => open'
  BY DEF OpenOutput
<1>7. RemoveTracks \/ Mixer => open /\ UNCHANGED open
  <2>1. RemoveTracks => active # {} /\ UNCHANGED open
    BY DEF RemoveTracks
  <2>2. HandlePatch => events # <<>> /\ UNCHANGED open
    BY DEF HandlePatch
  <2>3. Recompute => events # <<>> /\ UNCHANGED open
    BY DEF Recompute
  <2>4. FinishReconfigure => mixer # "idle" /\ UNCHANGED open
    BY DEF FinishReconfigure
  <2>. QED
    BY <2>1, <2>2, <2>3, <2>4 DEF Mixer, ClosedInv
<1>8. /\ \A t \in Tracks : StartTrack(t) => open /\ UNCHANGED wrapper
      /\ \A w \in BOOLEAN : SendPatch(w) => open /\ UNCHANGED wrapper
      /\ Write => open /\ UNCHANGED wrapper
  BY DEF StartTrack, SendPatch, Write
<1>9. UNCHANGED vars => UNCHANGED <<events, active, mixer, hifiRoute, wired, outWired, open>>
  BY DEF vars
<1>. QED
  BY <1>1, <1>2, <1>3, <1>4, <1>5, <1>6, <1>7, <1>8, <1>9 DEF Next

(* The types of the rest.                                                  *)
RateType == Rates \cup {NormalRate}
Bounded  == {"sets", "patches", "sessions", "tracks", "failures"}
LeftType == [Bounded -> Nat]
PolicyType ==
  /\ property \in [enabled : {"unset", "0", "1"}, gain : 0 .. 3]
  /\ hifiUser \in BOOLEAN /\ hifiGain \in 0 .. 3
  /\ setter \in {"idle", "user", "gain", "storeEnabled", "storeGain", "request"}
  /\ ask \in [enabled : {"on", "off", "absent"}, form : {"good", "bad", "absent"},
              gain : Int]
  /\ unstored \in BOOLEAN
RouteType ==
  /\ hifiRoute \in BOOLEAN /\ wired \in BOOLEAN /\ open \in BOOLEAN
  /\ dac \in BOOLEAN /\ vendorRate \in RateType /\ vendorGain \in 0 .. 3
  /\ active \subseteq Tracks /\ outWired \in BOOLEAN
  /\ routeActive \in BOOLEAN /\ sampleRate \in RateType
  /\ standby \in BOOLEAN /\ mixer \in {"idle", "gain"} /\ granted \in BOOLEAN
  /\ stuck \in BOOLEAN /\ refused \in BOOLEAN

LEMMA SpendType ==
  ASSUME left \in LeftType, NEW what, Spend(what)
  PROVE  left' \in LeftType
<1>1. CASE what \in Bounded
  <2>1. left[what] \in Nat /\ left[what] > 0
    BY <1>1 DEF Spend, LeftType
  <2>2. left[what] - 1 \in Nat
    BY <2>1
  <2>. QED
    BY <2>2 DEF Spend, LeftType
<1>2. CASE what \notin Bounded
  <2>1. [left EXCEPT ![what] = @ - 1] = left
    BY <1>2 DEF LeftType
  <2>. QED
    BY <2>1 DEF Spend
<1>. QED
  BY <1>1, <1>2

LEMMA NextLeft == left \in LeftType /\ [Next]_vars => left' \in LeftType
<1> SUFFICES ASSUME left \in LeftType, [Next]_vars, left' # left
             PROVE  \E what : Spend(what)
  BY SpendType
<1>1. SetParameters => \E what : Spend(what)
  BY DEF SetParameters, BeginSet, SetUser, SetGain, StoreEnabled, StoreGain, EndSet
<1>2. (\E t \in Tracks : StartTrack(t)) => \E what : Spend(what)
  BY DEF StartTrack
<1>3. ~RemoveTracks /\ ~Write
  BY DEF RemoveTracks, Write
<1>4. (\E w \in BOOLEAN : SendPatch(w) \/ OpenOutput(w)) => \E what : Spend(what)
  BY DEF SendPatch, OpenOutput
<1>5. HandlePatch => \E what : Spend(what)
  BY DEF HandlePatch
<1>6. Recompute => \E what : Spend(what)
  BY DEF Recompute, Reconfigure
<1>7. FinishReconfigure => \E what : Spend(what)
  BY DEF FinishReconfigure
<1>8. CloseOutput \/ Restart => \E what : Spend(what)
  BY DEF CloseOutput, Restart
<1>. QED
  BY <1>1, <1>2, <1>3, <1>4, <1>5, <1>6, <1>7, <1>8 DEF Next, Mixer, vars

LEMMA ClampType == \A g \in Int : ClampGain(g) \in 0 .. 3
BY DEF ClampGain

(* Only the binder thread and a restart touch the policy.                  *)
LEMMA PolicyAlone ==
  [Next]_vars => \/ SetParameters \/ Restart
                 \/ UNCHANGED <<property, hifiUser, hifiGain, setter, ask, unstored>>
<1>. USE DEF setting, wrapper
<1>1. ASSUME NEW t \in Tracks, StartTrack(t)
      PROVE  UNCHANGED <<property, hifiUser, hifiGain, setter, ask, unstored>>
  BY <1>1 DEF StartTrack
<1>2. ASSUME NEW w \in BOOLEAN, SendPatch(w) \/ OpenOutput(w)
      PROVE  UNCHANGED <<property, hifiUser, hifiGain, setter, ask, unstored>>
  BY <1>2 DEF SendPatch, OpenOutput
<1>3. RemoveTracks \/ HandlePatch \/ FinishReconfigure \/ CloseOutput
        => UNCHANGED <<property, hifiUser, hifiGain, setter, ask, unstored>>
  BY DEF RemoveTracks, HandlePatch, FinishReconfigure, CloseOutput
<1>4. Recompute => UNCHANGED <<property, hifiUser, hifiGain, setter, ask, unstored>>
  BY DEF Recompute
<1>5. Write => UNCHANGED <<property, hifiUser, hifiGain, setter, ask, unstored>>
  BY DEF Write
<1>. QED
  BY <1>1, <1>2, <1>3, <1>4, <1>5 DEF Next, Mixer, vars

LEMMA NextPolicyType == PolicyType /\ [Next]_vars => PolicyType'
<1> SUFFICES ASSUME PolicyType, [Next]_vars PROVE PolicyType'
  OBVIOUS
<1>. USE DEF wrapper, setting
<1>1. CASE UNCHANGED <<property, hifiUser, hifiGain, setter, ask, unstored>>
  BY <1>1 DEF PolicyType
<1>2. CASE BeginSet
  <2>1. /\ ask' \in [enabled : {"on", "off", "absent"}, form : {"good", "bad", "absent"},
                     gain : GainRequests]
        /\ setter' = "user" /\ UNCHANGED <<property, hifiUser, hifiGain, unstored>>
    BY <1>2 DEF BeginSet
  <2>2. ask' \in [enabled : {"on", "off", "absent"}, form : {"good", "bad", "absent"},
                  gain : Int]
    BY <2>1, GainAssumption
  <2>. QED
    BY <2>1, <2>2 DEF PolicyType
<1>3. CASE SetUser
  <2>1. /\ setter' = "gain" /\ UNCHANGED <<property, hifiGain, ask, unstored>>
        /\ hifiUser' = IF ask.enabled = "absent" THEN hifiUser ELSE ask.enabled = "on"
    BY <1>3 DEF SetUser
  <2>2. hifiUser' \in BOOLEAN
    BY <2>1 DEF PolicyType
  <2>. QED
    BY <2>1, <2>2 DEF PolicyType
<1>4. CASE SetGain
  <2>1. setter' \in {"request", "storeEnabled"} /\ UNCHANGED <<property, hifiUser, ask>>
    BY <1>4 DEF SetGain
  <2>2. unstored' \in BOOLEAN
    BY <1>4 DEF SetGain, PolicyType
  <2>3. ClampGain(ask.gain) \in 0 .. 3
    BY ClampType DEF PolicyType
  <2>4. hifiGain' \in 0 .. 3
    BY <1>4, <2>3 DEF SetGain, PolicyType
  <2>. QED
    BY <2>1, <2>2, <2>4 DEF PolicyType
<1>5. CASE StoreEnabled
  <2>1. setter' = "storeGain" /\ UNCHANGED <<hifiUser, hifiGain, ask>> /\ unstored' \in BOOLEAN
    BY <1>5 DEF StoreEnabled
  <2>2. \E v \in {"0", "1"} : property' \in {property, [property EXCEPT !.enabled = v]}
    BY <1>5 DEF StoreEnabled
  <2>3. property' \in [enabled : {"unset", "0", "1"}, gain : 0 .. 3]
    BY <2>2 DEF PolicyType
  <2>. QED
    BY <2>1, <2>3 DEF PolicyType
<1>6. CASE StoreGain
  <2>1. setter' = "request" /\ UNCHANGED <<hifiUser, hifiGain, ask>>
    BY <1>6 DEF StoreGain
  <2>2. unstored' \in BOOLEAN
    BY <1>6 DEF StoreGain, PolicyType
  <2>3. property' \in {property, [property EXCEPT !.gain = hifiGain]}
    BY <1>6 DEF StoreGain
  <2>4. property' \in [enabled : {"unset", "0", "1"}, gain : 0 .. 3]
    BY <2>3 DEF PolicyType
  <2>. QED
    BY <2>1, <2>2, <2>4 DEF PolicyType
<1>7. CASE EndSet
  BY <1>7 DEF EndSet, PolicyType
<1>8. CASE Restart
  <2>1. /\ UNCHANGED <<property, ask>> /\ setter' = "idle" /\ unstored' = FALSE
        /\ hifiUser' = (property.enabled # "0") /\ hifiGain' = property.gain
    BY <1>8 DEF Restart
  <2>2. hifiUser' \in BOOLEAN /\ hifiGain' \in 0 .. 3
    BY <2>1 DEF PolicyType
  <2>. QED
    BY <2>1, <2>2 DEF PolicyType
<1>. QED
  BY <1>1, <1>2, <1>3, <1>4, <1>5, <1>6, <1>7, <1>8, PolicyAlone DEF SetParameters

(* What the tracks want.                                                   *)
LEMMA DesiredFacts ==
  /\ Desired \in BOOLEAN /\ DesiredRate \in RateType
  /\ Desired => DesiredRate \in Rates /\ MediaDemand = {DesiredRate}
  /\ ~Desired => DesiredRate = NormalRate
<1>1. Desired => \E r \in Rates : MediaDemand = {r}
  BY DEF Desired
<1>2. Desired => DesiredRate \in Rates /\ MediaDemand = {DesiredRate}
  BY <1>1 DEF DesiredRate
<1>3. ~Desired => DesiredRate = NormalRate
  BY DEF DesiredRate
<1>4. Desired \in BOOLEAN
  BY DEF Desired
<1>. QED
  BY <1>2, <1>3, <1>4 DEF RateType

LEMMA NextRouteType == PolicyType /\ RouteType /\ QueueOK /\ [Next]_vars => RouteType'
<1> SUFFICES ASSUME PolicyType, RouteType, QueueOK, [Next]_vars PROVE RouteType'
  OBVIOUS
<1>. USE DEF wrapper, vendor, belief, history
<1>1. CASE SetParameters \/ (\E w \in BOOLEAN : SendPatch(w)) \/ UNCHANGED vars
  <2>1. UNCHANGED <<wrapper, vendor, active, outWired, belief, standby, mixer, granted,
                    history>> =>
          RouteType'
    BY DEF RouteType
  <2>2. /\ UNCHANGED <<hifiRoute, wired, open, vendor, active, outWired, belief, standby>>
        /\ UNCHANGED <<mixer, granted, history>>
    <3>1. SetParameters =>
            /\ UNCHANGED <<hifiRoute, wired, open, vendor, active, outWired, belief, standby>>
            /\ UNCHANGED <<mixer, granted, history>>
      BY DEF SetParameters, BeginSet, SetUser, SetGain, StoreEnabled, StoreGain, EndSet
    <3>2. \A w \in BOOLEAN : SendPatch(w) =>
            /\ UNCHANGED <<hifiRoute, wired, open, vendor, active, outWired, belief, standby>>
            /\ UNCHANGED <<mixer, granted, history>>
      BY DEF SendPatch
    <3>. QED
      BY <1>1, <3>1, <3>2 DEF vars
  <2>. QED
    BY <2>2 DEF RouteType
<1>2. ASSUME NEW t \in Tracks, StartTrack(t) PROVE RouteType'
  BY <1>2 DEF StartTrack, RouteType
<1>3. CASE RemoveTracks
  BY <1>3 DEF RemoveTracks, RouteType
<1>4. CASE Write
  <2>1. standby' \in BOOLEAN
    BY <1>4 DEF Write
  <2>2. UNCHANGED <<wrapper, vendor, active, outWired, belief, mixer, granted, history>>
    BY <1>4 DEF Write
  <2>. QED
    BY <2>1, <2>2 DEF RouteType
<1>5. CASE HandlePatch
  <2>1. outWired' \in BOOLEAN
    <3>1. events # <<>> /\ events \in Seq(Events) /\ outWired' = Head(events)[2]
      BY <1>5 DEF HandlePatch, QueueOK, Waiting
    <3>2. Head(events) \in Events
      BY <3>1
    <3>. QED
      BY <3>1, <3>2, EventFacts
  <2>2. /\ UNCHANGED <<hifiRoute, open, vendorRate, active, belief, standby, mixer, granted>>
        /\ UNCHANGED stuck
    BY <1>5 DEF HandlePatch
  <2>3. wired' \in {wired, outWired'} /\ vendorGain' \in {vendorGain, hifiGain}
    BY <1>5 DEF HandlePatch
  <2>4. refused' \in {refused, TRUE}
    BY <1>5 DEF HandlePatch
  <2>5. dac' \in BOOLEAN
    <3>1. dac' = dac \/ dac' = (hifiUser /\ hifiRoute /\ wired')
      BY <1>5 DEF HandlePatch
    <3>2. (hifiUser /\ hifiRoute /\ wired') \in BOOLEAN
      BY Zenon
    <3>. QED
      BY <3>1, <3>2 DEF RouteType
  <2>. QED
    <3>1. wired' \in BOOLEAN /\ refused' \in BOOLEAN
      BY <2>1, <2>3, <2>4 DEF RouteType
    <3>2. vendorGain' \in 0 .. 3
      BY <2>3 DEF RouteType, PolicyType
    <3>. QED
      BY <2>1, <2>2, <2>5, <3>1, <3>2 DEF RouteType
<1>6. CASE Recompute
  <2>1. UNCHANGED <<wrapper, vendorGain, active, outWired, belief>>
    BY <1>6 DEF Recompute
  <2>. DEFINE force == Head(events)[2] \/ forceQueued
  <2>2. CASE UNCHANGED <<dac, vendorRate, standby, mixer, granted, history>>
    BY <2>1, <2>2 DEF RouteType
  <2>3. CASE Reconfigure(force)
    <3>1. standby' \in BOOLEAN
      <4>1. standby' = (standby \/ force) \/ standby' = TRUE
        BY <2>3 DEF Reconfigure
      <4>2. (standby \/ force) \in BOOLEAN
        BY Zenon
      <4>. QED
        BY <4>1, <4>2
    <3>2. dac' \in BOOLEAN
      <4>1. dac' = dac \/ dac' = FALSE \/ dac' = (hifiUser /\ Desired /\ wired)
        BY <2>3 DEF Reconfigure
      <4>2. (hifiUser /\ Desired /\ wired) \in BOOLEAN
        BY Zenon
      <4>. QED
        BY <4>1, <4>2 DEF RouteType
    <3>3. vendorRate' \in RateType
      <4>1. vendorRate' \in {vendorRate, NormalRate, DesiredRate}
        BY <2>3 DEF Reconfigure
      <4>. QED
        BY <4>1, DesiredFacts DEF RouteType, RateType
    <3>4. granted' \in BOOLEAN
      <4>1. granted' = granted \/ granted' = FALSE \/ granted' = Desired
        BY <2>3 DEF Reconfigure
      <4>. QED
        BY <4>1, DesiredFacts DEF RouteType
    <3>6. mixer' \in {mixer, "gain"}
      BY <2>3 DEF Reconfigure
    <3>5. stuck' \in {stuck, TRUE} /\ refused' \in {refused, TRUE}
      BY <2>3 DEF Reconfigure
    <3>. QED
      BY <2>1, <3>1, <3>2, <3>3, <3>4, <3>5, <3>6 DEF RouteType
  <2>. QED
    BY <1>6, <2>2, <2>3 DEF Recompute
<1>7. CASE FinishReconfigure
  <2>1. /\ hifiRoute' = granted /\ routeActive' = granted /\ sampleRate' = vendorRate
        /\ stuck' = FALSE /\ mixer' = "idle"
        /\ UNCHANGED <<wired, open, dac, vendorRate, active, outWired, standby, granted>>
        /\ vendorGain' \in {vendorGain, hifiGain} /\ refused' \in {refused, TRUE}
    BY <1>7 DEF FinishReconfigure
  <2>. QED
    BY <2>1 DEF RouteType, PolicyType
<1>8. ASSUME NEW w \in BOOLEAN, OpenOutput(w) PROVE RouteType'
  <2>1. /\ open' = TRUE /\ wired' = w /\ outWired' = FALSE
        /\ vendorRate' = NormalRate /\ sampleRate' = NormalRate /\ routeActive' = FALSE
        /\ UNCHANGED <<hifiRoute, active, standby, mixer, granted>>
    BY <1>8 DEF OpenOutput
  <2>2. /\ vendorGain' \in {vendorGain, hifiGain} /\ stuck' \in BOOLEAN /\ refused' \in BOOLEAN
    BY <1>8 DEF OpenOutput
  <2>3. dac' \in BOOLEAN
    <3>1. dac' = dac \/ dac' = (hifiUser /\ hifiRoute /\ w)
      BY <1>8 DEF OpenOutput
    <3>2. (hifiUser /\ hifiRoute /\ w) \in BOOLEAN
      BY Zenon
    <3>. QED
      BY <3>1, <3>2 DEF RouteType
  <2>. QED
    BY <2>1, <2>2, <2>3 DEF RouteType, PolicyType, RateType
<1>9. CASE CloseOutput \/ Restart
  <2>1. /\ open' = FALSE /\ wired' = FALSE /\ hifiRoute' = FALSE /\ active' = {}
        /\ outWired' = FALSE /\ standby' = TRUE
    BY <1>9 DEF CloseOutput, Restart, StopMixer
  <2>2. /\ UNCHANGED <<dac, vendorRate, belief, granted, history>>
        /\ mixer' \in {mixer, "idle"} /\ vendorGain' \in {vendorGain, property.gain}
    BY <1>9 DEF CloseOutput, Restart
  <2>3. property.gain \in 0 .. 3
    BY DEF PolicyType
  <2>. QED
    BY <2>1, <2>2, <2>3 DEF RouteType
<1>. QED
  BY <1>1, <1>2, <1>3, <1>4, <1>5, <1>6, <1>7, <1>8, <1>9 DEF Next, Mixer

TypeInv == PolicyType /\ RouteType /\ QueueOK /\ ClosedInv /\ left \in LeftType

LEMMA InitType == Init => TypeInv
<1> SUFFICES ASSUME Init PROVE TypeInv
  OBVIOUS
<1>1. PolicyType
  <2>1. property \in [enabled : {"unset", "0", "1"}, gain : {0}]
    BY DEF Init
  <2>2. property.enabled \in {"unset", "0", "1"} /\ property.gain = 0
    BY <2>1
  <2>3. property \in [enabled : {"unset", "0", "1"}, gain : 0 .. 3]
    BY <2>1
  <2>4. ask \in [enabled : {"on", "off", "absent"}, form : {"good", "bad", "absent"},
                 gain : Int]
    BY DEF Init
  <2>5. hifiUser = (property.enabled # "0") /\ hifiGain = 0
    BY <2>2 DEF Init
  <2>6. hifiUser \in BOOLEAN /\ hifiGain \in 0 .. 3
    BY <2>5
  <2>7. setter = "idle" /\ unstored = FALSE
    BY DEF Init
  <2>. QED
    BY <2>3, <2>4, <2>6, <2>7 DEF PolicyType
<1>2. RouteType
  <2>1. property.gain = 0 /\ vendorGain = property.gain
    BY DEF Init
  <2>2. vendorGain \in 0 .. 3
    BY <2>1
  <2>3. /\ hifiRoute = FALSE /\ wired = FALSE /\ open = FALSE /\ dac = FALSE
        /\ outWired = FALSE /\ routeActive = FALSE /\ standby = TRUE /\ granted = FALSE
        /\ stuck = FALSE /\ refused = FALSE
    BY DEF Init
  <2>4. /\ vendorRate = NormalRate /\ sampleRate = NormalRate /\ active = {}
        /\ mixer = "idle"
    BY DEF Init
  <2>. QED
    BY <2>2, <2>3, <2>4 DEF RouteType, RateType
<1>3. QueueOK
  <2>1. events = <<>> /\ recomputeQueued = FALSE /\ forceQueued = FALSE
    BY DEF Init
  <2>2. At(events, "recompute") = {} /\ At(events, "patch") = {} /\ events \in Seq(Events)
    BY <2>1 DEF At
  <2>. QED
    BY <2>1, <2>2 DEF QueueOK, Waiting, Once
<1>4. ClosedInv
  BY DEF Init, ClosedInv
<1>5. left \in LeftType
  BY CountAssumption DEF Init, LeftType, Bounded
<1>. QED
  BY <1>1, <1>2, <1>3, <1>4, <1>5 DEF TypeInv

LEMMA TypeImplied == TypeInv => TypeOK
<1> SUFFICES ASSUME TypeInv PROVE TypeOK
  OBVIOUS
<1>1. Recomputes = At(events, "recompute")
  BY DEF Recomputes, At
<1>2. events \in Seq({"recompute", "patch"} \X BOOLEAN)
  BY DEF TypeInv, QueueOK, Waiting, Events
<1>3. \A i, j \in Recomputes : i = j
  BY <1>1 DEF TypeInv, QueueOK, Waiting, Once
<1>4. recomputeQueued = (Recomputes # {})
  <2>1. recomputeQueued \in BOOLEAN /\ (recomputeQueued <=> Recomputes # {})
    BY <1>1 DEF TypeInv, QueueOK
  <2>. QED
    BY <2>1
<1>5. mixer = "gain" => open
  BY DEF TypeInv, ClosedInv
<1>. QED
  BY <1>2, <1>3, <1>4, <1>5
     DEF TypeInv, TypeOK, PolicyType, RouteType, RateType, QueueOK, LeftType, Bounded

LEMMA AlwaysType == Spec => []TypeInv
<1>1. TypeInv /\ [Next]_vars => TypeInv'
  BY NextPolicyType, NextRouteType, NextQueue, NextClosed, NextLeft DEF TypeInv
<1>. QED
  BY <1>1, InitType, PTL DEF Spec

(* Every variable keeps its type, a gain the user asks for is clamped to   *)
(* the vendor's range, no reconfigure outlives its output, and a recompute *)
(* is queued exactly when the flag that coalesces the next one says so.    *)
THEOREM TypeCorrect == Spec => []TypeOK
BY AlwaysType, TypeImplied, PTL

-----------------------------------------------------------------------------
(* The policy and its properties.                                          *)

UserStored == hifiUser = (property.enabled # "0")
GainStored == hifiGain = property.gain

(* Unless a write failed or was not reached, what the call has already     *)
(* written is what is in memory, and so is what it does not change.        *)
PolicyInv ==
  ~unstored => /\ setter \notin {"storeEnabled", "storeGain"} => GainStored
               /\ setter \in {"idle", "user", "storeGain", "request"} => UserStored
               /\ setter = "gain" /\ ask.enabled = "absent" => UserStored

LEMMA NextPolicy == TypeInv /\ PolicyInv /\ [Next]_vars => PolicyInv'
<1> SUFFICES ASSUME TypeInv, PolicyInv, [Next]_vars, ~unstored'
             PROVE  /\ setter' \notin {"storeEnabled", "storeGain"} => GainStored'
                    /\ setter' \in {"idle", "user", "storeGain", "request"} => UserStored'
                    /\ setter' = "gain" /\ ask'.enabled = "absent" => UserStored'
  BY DEF PolicyInv
<1>. USE DEF wrapper, setting
<1>1. CASE UNCHANGED <<property, hifiUser, hifiGain, setter, ask, unstored>>
  BY <1>1 DEF PolicyInv, UserStored, GainStored
<1>2. CASE BeginSet
  BY <1>2 DEF BeginSet, PolicyInv, UserStored, GainStored
<1>3. CASE SetUser
  <2>1. /\ setter = "user" /\ setter' = "gain" /\ UNCHANGED <<property, hifiGain, ask, unstored>>
        /\ ask.enabled = "absent" => hifiUser' = hifiUser
    BY <1>3 DEF SetUser
  <2>. QED
    BY <2>1 DEF PolicyInv, UserStored, GainStored
<1>4. CASE SetGain
  <2>1. setter = "gain" /\ UNCHANGED <<property, hifiUser, ask>>
    BY <1>4 DEF SetGain
  <2>2. CASE /\ unstored' = (unstored \/ ask.enabled # "absent") /\ setter' = "request"
             /\ UNCHANGED hifiGain
    <3>1. ~unstored /\ ask.enabled = "absent"
      BY <2>2
    <3>. QED
      BY <2>1, <2>2, <3>1 DEF PolicyInv, UserStored, GainStored
  <2>3. CASE setter' = "storeEnabled"
    BY <2>3
  <2>. QED
    BY <1>4, <2>2, <2>3 DEF SetGain
<1>5. CASE StoreEnabled
  <2>1. /\ setter' = "storeGain" /\ UNCHANGED hifiUser
        /\ property' = [property EXCEPT !.enabled = IF hifiUser THEN "1" ELSE "0"]
    BY <1>5 DEF StoreEnabled
  <2>2. property'.enabled = IF hifiUser THEN "1" ELSE "0"
    BY <2>1 DEF TypeInv, PolicyType
  <2>3. hifiUser \in BOOLEAN
    BY DEF TypeInv, PolicyType
  <2>4. UserStored'
    BY <2>1, <2>2, <2>3 DEF UserStored
  <2>. QED
    BY <2>1, <2>4
<1>6. CASE StoreGain
  <2>1. /\ setter = "storeGain" /\ setter' = "request" /\ UNCHANGED <<hifiUser, hifiGain, unstored>>
        /\ property' = [property EXCEPT !.gain = hifiGain]
    BY <1>6 DEF StoreGain
  <2>2. property'.gain = hifiGain /\ property'.enabled = property.enabled
    BY <2>1 DEF TypeInv, PolicyType
  <2>3. UserStored
    BY <2>1 DEF PolicyInv
  <2>. QED
    BY <2>1, <2>2, <2>3 DEF UserStored, GainStored
<1>7. CASE EndSet
  BY <1>7 DEF EndSet, PolicyInv, UserStored, GainStored
<1>8. CASE Restart
  BY <1>8 DEF Restart, UserStored, GainStored
<1>. QED
  BY <1>1, <1>2, <1>3, <1>4, <1>5, <1>6, <1>7, <1>8, PolicyAlone DEF SetParameters

(* A restart of the audio processes brings back the policy the last set    *)
(* left in memory, unless it was interrupted or could not store it all.    *)
THEOREM RestartsKeepPolicy == Spec => RestartKeepsPolicy
<1>1. Init => PolicyInv
  BY DEF Init, PolicyInv, UserStored, GainStored
<1>2. TypeInv /\ PolicyInv
        => (Restart /\ setter = "idle" /\ ~unstored => hifiUser' = hifiUser /\ hifiGain' = hifiGain)
  <2> SUFFICES ASSUME TypeInv, PolicyInv, Restart, setter = "idle", ~unstored
               PROVE  hifiUser' = hifiUser /\ hifiGain' = hifiGain
    OBVIOUS
  <2>1. UserStored /\ GainStored
    BY DEF PolicyInv
  <2>2. hifiUser' = (property.enabled # "0") /\ hifiGain' = property.gain
    BY DEF Restart
  <2>. QED
    BY <2>1, <2>2 DEF UserStored, GainStored
<1>. QED
  BY <1>1, <1>2, NextPolicy, AlwaysType, PTL DEF Spec, RestartKeepsPolicy

-----------------------------------------------------------------------------
(* What the steps do to the route.                                         *)

(* The steps of others, which leave the route and the vendor HAL alone.    *)
Bystander == \/ SetParameters \/ (\E t \in Tracks : StartTrack(t)) \/ RemoveTracks
             \/ (\E w \in BOOLEAN : SendPatch(w)) \/ Write \/ UNCHANGED vars
Aside == /\ UNCHANGED <<hifiRoute, wired, open, dac, vendorRate, vendorGain, outWired>>
         /\ UNCHANGED <<routeActive, sampleRate, mixer, granted, stuck, refused>>

(* The outcomes of a recompute: nothing to do, done, rolled back, refused. *)
Skipped    == /\ ~forceQueued /\ Desired = routeActive /\ DesiredRate = sampleRate
              /\ UNCHANGED <<dac, vendorRate, mixer, granted, stuck, refused>>
Granted    == /\ dac' = (hifiUser /\ Desired /\ wired) /\ vendorRate' = DesiredRate
              /\ granted' = Desired /\ mixer' = "gain" /\ UNCHANGED <<stuck, refused>>
RolledBack == /\ Desired /\ dac' = FALSE /\ granted' = FALSE /\ mixer' = "gain"
              /\ vendorRate' = NormalRate /\ refused' = TRUE /\ UNCHANGED stuck
Refused    == /\ stuck' = TRUE /\ refused' = TRUE
              /\ UNCHANGED <<dac, vendorRate, granted, mixer>>

(* The outcomes of a patch: the wrapper knows of it, or it was refused.    *)
Plugged   == /\ wired' = outWired' /\ Request(Tail(events), FALSE)
             /\ dac' = dac \/ dac' = (hifiUser /\ hifiRoute /\ wired')
             /\ \/ refused' = TRUE
                \/ /\ vendorGain' = hifiGain /\ dac' = (hifiUser /\ hifiRoute /\ wired')
                   /\ UNCHANGED refused
Unplugged == /\ refused' = TRUE /\ events' = Tail(events)
             /\ UNCHANGED <<wired, vendorGain, dac, recomputeQueued, forceQueued>>

LEMMA RecomputeOutcome ==
  ASSUME TypeInv, Recompute
  PROVE  /\ mixer = "idle" /\ open /\ events # <<>> /\ Head(events)[1] = "recompute"
         /\ events' = Tail(events) /\ recomputeQueued' = FALSE /\ forceQueued' = FALSE
         /\ UNCHANGED <<property, hifiUser, hifiRoute, hifiGain, wired, open>>
         /\ UNCHANGED <<vendorGain, active, outWired, routeActive, sampleRate, setter>>
         /\ Skipped \/ Granted \/ RolledBack \/ Refused
<1>. USE DEF wrapper, belief, setting, history
<1>1. /\ mixer = "idle" /\ events # <<>> /\ Head(events)[1] = "recompute"
      /\ events' = Tail(events) /\ recomputeQueued' = FALSE /\ forceQueued' = FALSE
      /\ UNCHANGED <<property, hifiUser, hifiRoute, hifiGain, wired, open>>
      /\ UNCHANGED <<vendorGain, active, outWired, routeActive, sampleRate, setter>>
  BY DEF Recompute
<1>2. open
  BY <1>1 DEF TypeInv, ClosedInv
<1>. DEFINE force == Head(events)[2] \/ forceQueued
<1>3. CASE /\ ~force /\ Desired = routeActive /\ DesiredRate = sampleRate
           /\ UNCHANGED <<dac, vendorRate, standby, mixer, granted, history, left>>
  <2>1. ~forceQueued
    BY <1>3
  <2>. QED
    BY <1>1, <1>2, <1>3, <2>1 DEF Skipped
<1>4. CASE Reconfigure(force)
  <2>1. Granted \/ RolledBack \/ Refused
    BY <1>4 DEF Reconfigure, Granted, RolledBack, Refused
  <2>. QED
    BY <1>1, <1>2, <2>1
<1>. QED
  BY <1>3, <1>4 DEF Recompute

LEMMA PatchOutcome ==
  ASSUME TypeInv, HandlePatch
  PROVE  /\ mixer = "idle" /\ open /\ events # <<>> /\ Head(events)[1] = "patch"
         /\ UNCHANGED <<property, hifiUser, hifiRoute, hifiGain, open, vendorRate, active>>
         /\ UNCHANGED <<routeActive, sampleRate, mixer, granted, setter, stuck>>
         /\ Plugged \/ Unplugged
<1>. USE DEF wrapper, belief, setting
<1>1. /\ mixer = "idle" /\ events # <<>> /\ Head(events)[1] = "patch"
      /\ UNCHANGED <<property, hifiUser, hifiRoute, hifiGain, open, vendorRate, active>>
      /\ UNCHANGED <<routeActive, sampleRate, mixer, granted, setter, stuck>>
  BY DEF HandlePatch
<1>2. open
  BY <1>1 DEF TypeInv, ClosedInv
<1>3. Plugged \/ Unplugged
  BY DEF HandlePatch, Plugged, Unplugged
<1>. QED
  BY <1>1, <1>2, <1>3

LEMMA OpenOutcome ==
  ASSUME TypeInv, NEW w \in BOOLEAN, OpenOutput(w)
  PROVE  /\ ~open /\ open' /\ mixer = "idle" /\ setter = "idle" /\ wired' = w /\ ~outWired'
         /\ vendorRate' = NormalRate /\ sampleRate' = NormalRate /\ routeActive' = FALSE
         /\ UNCHANGED <<property, hifiUser, hifiRoute, hifiGain, active, events>>
         /\ UNCHANGED <<recomputeQueued, forceQueued, mixer, setter>>
         /\ hifiRoute = FALSE /\ active = {} /\ events = <<>>
         /\ \/ ~stuck' /\ ~refused' /\ vendorGain' = hifiGain /\ ~dac'
            \/ stuck' /\ refused'
<1>1. hifiRoute = FALSE /\ active = {} /\ events = <<>> /\ mixer = "idle" /\ ~open
  BY DEF OpenOutput, TypeInv, ClosedInv, RouteType
<1>2. /\ open' /\ setter = "idle" /\ wired' = w /\ ~outWired'
      /\ vendorRate' = NormalRate /\ sampleRate' = NormalRate /\ routeActive' = FALSE
      /\ UNCHANGED <<property, hifiUser, hifiRoute, hifiGain, active, events>>
      /\ UNCHANGED <<recomputeQueued, forceQueued, mixer, setter>>
  BY DEF OpenOutput, queues, setting
<1>3. \/ ~stuck' /\ ~refused' /\ vendorGain' = hifiGain /\ ~dac'
      \/ stuck' /\ refused'
  BY <1>1 DEF OpenOutput
<1>. QED
  BY <1>1, <1>2, <1>3

LEMMA RouteSteps ==
  [Next]_vars => \/ Bystander \/ HandlePatch \/ Recompute \/ FinishReconfigure
                 \/ \E w \in BOOLEAN : OpenOutput(w)
                 \/ ~open' /\ mixer' = "idle"
<1>1. CloseOutput \/ Restart => ~open' /\ mixer' = "idle"
  BY DEF CloseOutput, Restart, StopMixer
<1>. QED
  BY <1>1 DEF Next, Mixer, Bystander

LEMMA Bystanders == Bystander => Aside
<1>. USE DEF wrapper, vendor, belief, history
<1>1. SetParameters => Aside
  BY DEF SetParameters, BeginSet, SetUser, SetGain, StoreEnabled, StoreGain, EndSet, Aside
<1>2. \A t \in Tracks : StartTrack(t) => Aside
  BY DEF StartTrack, Aside
<1>3. RemoveTracks => Aside
  BY DEF RemoveTracks, Aside
<1>4. \A w \in BOOLEAN : SendPatch(w) => Aside
  BY DEF SendPatch, Aside
<1>5. Write => Aside
  BY DEF Write, Aside
<1>6. UNCHANGED vars => Aside
  BY DEF vars, Aside
<1>. QED
  BY <1>1, <1>2, <1>3, <1>4, <1>5, <1>6 DEF Bystander

-----------------------------------------------------------------------------
(* Belief and fact.                                                        *)

(* Inside a reconfigure the DAC is on only if the route is about to be     *)
(* recorded as granted, and the wrapper sees a wired device.               *)
BeliefInv == BeliefMatches /\ (mixer = "gain" /\ dac => granted /\ wired)

LEMMA NextBelief == TypeInv /\ BeliefInv /\ [Next]_vars => BeliefInv'
<1> SUFFICES ASSUME TypeInv, BeliefInv, [Next]_vars PROVE BeliefInv'
  OBVIOUS
<1>1. CASE Bystander
  BY <1>1, Bystanders DEF Aside, BeliefInv, BeliefMatches
<1>2. CASE HandlePatch
  <2>1. hifiRoute = routeActive /\ sampleRate = vendorRate /\ (dac /\ ~stuck => routeActive)
    BY <1>2, PatchOutcome DEF BeliefInv, BeliefMatches
  <2>2. dac' => dac \/ hifiRoute
    BY <1>2, PatchOutcome DEF Plugged, Unplugged
  <2>3. /\ mixer' = "idle" /\ UNCHANGED <<hifiRoute, routeActive, sampleRate, vendorRate>>
        /\ UNCHANGED stuck
    BY <1>2, PatchOutcome
  <2>. QED
    BY <2>1, <2>2, <2>3 DEF BeliefInv, BeliefMatches
<1>3. CASE Recompute
  <2>1. /\ hifiRoute = routeActive /\ sampleRate = vendorRate /\ (dac /\ ~stuck => routeActive)
        /\ mixer = "idle"
    BY <1>3, RecomputeOutcome DEF BeliefInv, BeliefMatches
  <2>2. UNCHANGED <<hifiRoute, routeActive, sampleRate, wired>>
    BY <1>3, RecomputeOutcome
  <2>3. Skipped => BeliefInv'
    BY <2>1, <2>2 DEF Skipped, BeliefInv, BeliefMatches
  <2>4. Granted => BeliefInv'
    <3>1. Granted => mixer' = "gain" /\ (dac' => Desired /\ wired) /\ granted' = Desired
      BY DEF Granted
    <3>. QED
      BY <2>2, <3>1 DEF BeliefInv, BeliefMatches
  <2>5. RolledBack => BeliefInv'
    BY DEF RolledBack, BeliefInv, BeliefMatches
  <2>6. Refused => BeliefInv'
    BY <2>1, <2>2 DEF Refused, BeliefInv, BeliefMatches
  <2>. QED
    BY <1>3, <2>3, <2>4, <2>5, <2>6, RecomputeOutcome
<1>4. CASE FinishReconfigure
  <2>1. /\ mixer = "gain" /\ mixer' = "idle" /\ hifiRoute' = granted /\ routeActive' = granted
        /\ sampleRate' = vendorRate /\ UNCHANGED <<dac, vendorRate>>
    BY <1>4 DEF FinishReconfigure
  <2>2. dac => granted
    BY <2>1 DEF BeliefInv
  <2>. QED
    BY <2>1, <2>2 DEF BeliefInv, BeliefMatches
<1>5. ASSUME NEW w \in BOOLEAN, OpenOutput(w) PROVE BeliefInv'
  <2>1. /\ mixer' = "idle" /\ hifiRoute' = routeActive' /\ sampleRate' = vendorRate'
        /\ ~(dac' /\ ~stuck')
    BY <1>5, OpenOutcome
  <2>. QED
    BY <2>1 DEF BeliefInv, BeliefMatches
<1>6. CASE ~open' /\ mixer' = "idle"
  BY <1>6 DEF BeliefInv, BeliefMatches
<1>. QED
  BY <1>1, <1>2, <1>3, <1>4, <1>5, <1>6, RouteSteps

-----------------------------------------------------------------------------
(* What AudioFlinger wants of the route, whatever the device.              *)

Wanted     == UserEnabled /\ \E r \in Rates : MediaDemand = {r}
Announcing == setter \in {"storeGain", "request"}

LEMMA DesiredWanted == Desired <=> Wanted /\ outWired
BY DEF Desired, Wanted

LEMMA WantedSame ==
  ASSUME UNCHANGED <<property, active>>
  PROVE  /\ Wanted' <=> Wanted
         /\ UNCHANGED outWired => (Desired' <=> Desired) /\ DesiredRate' = DesiredRate
<1>1. MediaDemand' = MediaDemand
  BY DEF MediaDemand
<1>2. Wanted' <=> Wanted
  BY <1>1 DEF Wanted, UserEnabled
<1>3. ASSUME UNCHANGED outWired PROVE Desired' <=> Desired
  BY <1>1, <1>3 DEF Desired, UserEnabled
<1>4. ASSUME UNCHANGED outWired PROVE DesiredRate' = DesiredRate
  BY <1>1, <1>3, <1>4 DEF DesiredRate
<1>. QED
  BY <1>2, <1>3, <1>4

LEMMA NoTracks == active' = {} => ~Desired' /\ DesiredRate' = NormalRate
<1>1. active' = {} => MediaDemand' = {}
  BY DEF MediaDemand
<1>2. active' = {} => ~Desired'
  BY <1>1 DEF Desired
<1>. QED
  BY <1>2 DEF DesiredRate

(* What the binder thread and the tracks change without announcing it to   *)
(* the mixer thread: nothing that the arbitration looks at.                *)
LEMMA BystanderKeeps ==
  ASSUME TypeInv, Bystander, open, ~Announcing', mixer = "gain" \/ ~recomputeQueued'
  PROVE  UNCHANGED <<property, active, recomputeQueued>> /\ ~Announcing
<1>. USE DEF queues, Announcing
<1>1. ASSUME NEW q, NEW force, Request(q, force), mixer = "idle" PROVE FALSE
  BY <1>1 DEF Request
<1>2. SetParameters => UNCHANGED <<property, active, recomputeQueued>> /\ ~Announcing
  <2>1. CASE BeginSet \/ SetUser \/ SetGain
    BY <2>1 DEF BeginSet, SetUser, SetGain
  <2>2. ~StoreEnabled /\ ~StoreGain
    BY DEF StoreEnabled, StoreGain
  <2>3. ~EndSet
    BY <1>1 DEF EndSet
  <2>. QED
    BY <2>1, <2>2, <2>3 DEF SetParameters
<1>3. \A t \in Tracks : ~StartTrack(t)
  BY <1>1 DEF StartTrack
<1>4. ~RemoveTracks
  BY <1>1 DEF RemoveTracks
<1>5. \A w \in BOOLEAN : SendPatch(w) => UNCHANGED <<property, active, recomputeQueued, setter>>
  BY DEF SendPatch, setting
<1>6. Write => UNCHANGED <<property, active, recomputeQueued, setter>>
  BY DEF Write, setting
<1>7. UNCHANGED vars => UNCHANGED <<property, active, recomputeQueued, setter>>
  BY DEF vars, setting
<1>. QED
  BY <1>2, <1>3, <1>4, <1>5, <1>6, <1>7 DEF Bystander

(* The head of the event queue stays until the mixer thread takes it.      *)
LEMMA BystanderHead ==
  ASSUME TypeInv, Bystander, events # <<>>
  PROVE  events' # <<>> /\ Head(events') = Head(events)
<1>. USE DEF queues
<1>0. events \in Seq(Events)
  BY DEF TypeInv, QueueOK, Waiting
<1>1. ASSUME NEW e, events' = Append(events, e)
      PROVE  events' # <<>> /\ Head(events') = Head(events)
  BY <1>0, <1>1
<1>2. ASSUME NEW force, Request(events, force)
      PROVE  events' # <<>> /\ Head(events') = Head(events)
  BY <1>1, <1>2 DEF Request
<1>3. SetParameters => UNCHANGED events \/ Request(events, TRUE)
  BY DEF SetParameters, BeginSet, SetUser, SetGain, StoreEnabled, StoreGain, EndSet
<1>4. \A t \in Tracks : StartTrack(t) => Request(events, FALSE)
  BY DEF StartTrack
<1>5. RemoveTracks => Request(events, FALSE)
  BY DEF RemoveTracks
<1>6. \A w \in BOOLEAN : SendPatch(w) => events' = Append(events, <<"patch", w>>)
  BY DEF SendPatch
<1>7. Write \/ UNCHANGED vars => UNCHANGED events
  BY DEF Write, vars
<1>. QED
  BY <1>1, <1>2, <1>3, <1>4, <1>5, <1>6, <1>7 DEF Bystander

-----------------------------------------------------------------------------
(* The DAC is not left on unwanted.                                        *)

(* Unless switching it off was refused: the DAC is on without a wired      *)
(* device only from the patch that says so to the recompute it queued,     *)
(* which comes before the next patch; and otherwise it is on only if the   *)
(* policy and the tracks want it, or a recompute or its request is due.    *)
UnwantedInv ==
  /\ open /\ mixer = "idle" /\ dac /\ ~stuck /\ ~wired
       => events # <<>> /\ Head(events)[1] = "recompute" /\ ~outWired
  /\ open /\ mixer = "idle" /\ dac /\ ~stuck /\ ~recomputeQueued /\ ~Announcing => Wanted
  /\ mixer = "gain" /\ dac /\ ~Announcing => Wanted

(* After a patch only its recompute waits.                                 *)
LEMMA PatchThenRecompute ==
  ASSUME QueueOK, events # <<>>, Head(events)[1] = "patch", Request(Tail(events), FALSE)
  PROVE  events' # <<>> /\ Head(events')[1] = "recompute"
<1>1. /\ Waiting(Tail(events)) /\ At(Tail(events), "patch") = {}
      /\ recomputeQueued <=> At(Tail(events), "recompute") # {}
  BY Taken
<1>2. Tail(events) # <<>> => Head(Tail(events))[1] = "recompute"
  <2>1. SUFFICES ASSUME Tail(events) # <<>> PROVE Head(Tail(events))[1] = "recompute"
    OBVIOUS
  <2>2. Head(Tail(events)) \in Events /\ Head(Tail(events))[1] # "patch"
    BY <1>1, <2>1, TailAt DEF Waiting
  <2>. QED
    BY <2>2, EventFacts
<1>3. CASE recomputeQueued
  <2>1. events' = Tail(events) /\ At(Tail(events), "recompute") # {}
    BY <1>1, <1>3 DEF Request
  <2>2. Tail(events) # <<>>
    BY <2>1 DEF At
  <2>. QED
    BY <1>2, <2>1, <2>2
<1>4. CASE ~recomputeQueued
  <2>1. /\ events' = Append(Tail(events), <<"recompute", FALSE>>)
        /\ At(Tail(events), "recompute") = {}
    BY <1>1, <1>4 DEF Request
  <2>2. Tail(events) = <<>>
    <3>1. Tail(events) # <<>> => 1 \in At(Tail(events), "recompute")
      BY <1>1, <1>2, TailAt DEF Waiting
    <3>. QED
      BY <2>1, <3>1
  <2>3. \A e \in Events : Append(<<>>, e) # <<>> /\ Head(Append(<<>>, e)) = e
    OBVIOUS
  <2>. QED
    BY <2>1, <2>2, <2>3, EventFacts
<1>. QED
  BY <1>3, <1>4

LEMMA NextUnwanted == TypeInv /\ BeliefInv /\ UnwantedInv /\ [Next]_vars => UnwantedInv'
<1> SUFFICES ASSUME TypeInv, BeliefInv, UnwantedInv, [Next]_vars PROVE UnwantedInv'
  OBVIOUS
<1>1. CASE Bystander
  <2>0. Aside
    BY <1>1, Bystanders
  <2>1. /\ open' /\ mixer' = "idle" /\ dac' /\ ~stuck' /\ ~wired'
        => events' # <<>> /\ Head(events')[1] = "recompute" /\ ~outWired'
    BY <1>1, <2>0, BystanderHead DEF UnwantedInv, Aside
  <2>2. ASSUME open, ~Announcing', mixer = "gain" \/ ~recomputeQueued'
        PROVE  (Wanted' <=> Wanted) /\ (recomputeQueued' <=> recomputeQueued) /\ ~Announcing
    BY <1>1, <2>2, BystanderKeeps, WantedSame
  <2>3. mixer = "gain" => open
    BY DEF TypeInv, ClosedInv
  <2>4. open' /\ mixer' = "idle" /\ dac' /\ ~stuck' /\ ~recomputeQueued' /\ ~Announcing'
          => Wanted'
    BY <2>0, <2>2 DEF UnwantedInv, Aside
  <2>5. mixer' = "gain" /\ dac' /\ ~Announcing' => Wanted'
    BY <2>0, <2>2, <2>3 DEF UnwantedInv, Aside
  <2>. QED
    BY <2>1, <2>4, <2>5 DEF UnwantedInv
<1>2. CASE HandlePatch
  <2>1. /\ mixer = "idle" /\ mixer' = "idle" /\ open /\ open' /\ Head(events)[1] = "patch"
        /\ events # <<>> /\ UNCHANGED <<property, active, setter, stuck>>
    BY <1>2, PatchOutcome
  <2>2. CASE Plugged
    <3>1. events' # <<>> /\ Head(events')[1] = "recompute" /\ wired' = outWired'
      BY <2>1, <2>2, PatchThenRecompute DEF TypeInv, Plugged
    <3>2. recomputeQueued'
      BY <2>2 DEF Plugged, Request
    <3>. QED
      BY <2>1, <3>1, <3>2 DEF UnwantedInv
  <2>3. CASE Unplugged
    <3>1. UNCHANGED <<wired, dac, recomputeQueued>> /\ (Wanted' <=> Wanted)
      BY <2>1, <2>3, WantedSame DEF Unplugged
    <3>2. Announcing' <=> Announcing
      BY <2>1 DEF Announcing
    <3>. QED
      BY <2>1, <3>1, <3>2 DEF UnwantedInv
  <2>. QED
    BY <1>2, <2>2, <2>3, PatchOutcome
<1>3. CASE Recompute
  <2>1. /\ mixer = "idle" /\ open /\ UNCHANGED <<open, wired, property, active, outWired>>
        /\ UNCHANGED setter
    BY <1>3, RecomputeOutcome
  <2>2. Wanted' <=> Wanted
    BY <2>1, WantedSame
  <2>3. CASE Skipped
    <3>1. dac /\ ~stuck => Desired
      BY <2>1, <2>3 DEF Skipped, BeliefInv, BeliefMatches
    <3>2. dac /\ ~stuck => wired /\ Wanted
      BY <2>1, <3>1, DesiredWanted DEF UnwantedInv
    <3>3. UNCHANGED <<dac, stuck, mixer>>
      BY <2>3 DEF Skipped
    <3>. QED
      BY <2>1, <2>2, <3>2, <3>3 DEF UnwantedInv
  <2>4. CASE Granted
    <3>1. mixer' = "gain" /\ (dac' => Desired)
      BY <2>4 DEF Granted
    <3>. QED
      BY <2>2, <3>1, DesiredWanted DEF UnwantedInv
  <2>5. CASE RolledBack
    BY <2>5 DEF RolledBack, UnwantedInv
  <2>6. CASE Refused
    BY <2>1, <2>6 DEF Refused, UnwantedInv
  <2>. QED
    BY <1>3, <2>3, <2>4, <2>5, <2>6, RecomputeOutcome
<1>4. CASE FinishReconfigure
  <2>1. /\ mixer = "gain" /\ mixer' = "idle" /\ UNCHANGED <<dac, wired, property, active, setter>>
    BY <1>4 DEF FinishReconfigure, setting
  <2>2. (Wanted' <=> Wanted) /\ (Announcing' <=> Announcing)
    BY <2>1, WantedSame DEF Announcing
  <2>. QED
    BY <2>1, <2>2 DEF UnwantedInv, BeliefInv
<1>5. ASSUME NEW w \in BOOLEAN, OpenOutput(w) PROVE UnwantedInv'
  <2>1. mixer' = "idle" /\ ~(dac' /\ ~stuck')
    BY <1>5, OpenOutcome
  <2>. QED
    BY <2>1 DEF UnwantedInv
<1>6. CASE ~open' /\ mixer' = "idle"
  BY <1>6 DEF UnwantedInv
<1>. QED
  BY <1>1, <1>2, <1>3, <1>4, <1>5, <1>6, RouteSteps

-----------------------------------------------------------------------------
(* What everybody wants is delivered.                                      *)

(* As long as the vendor refuses nothing: with no recompute queued and no  *)
(* stored policy still to announce, the arbitration has its result; and    *)
(* with no forced recompute queued and no policy being set, the DAC and    *)
(* the gain are what the wrapper makes of that result and of the policy.   *)
DeliveredInv ==
  open /\ ~refused =>
    /\ mixer = "idle" /\ ~recomputeQueued /\ ~Announcing
         => (routeActive <=> Desired) /\ sampleRate = DesiredRate
    /\ mixer = "gain" /\ ~Announcing => (granted <=> Desired) /\ vendorRate = DesiredRate
    /\ mixer = "idle" /\ ~forceQueued /\ setter \in {"idle", "user"}
         => (dac <=> hifiUser /\ hifiRoute /\ wired)
    /\ mixer = "gain" /\ setter \in {"idle", "user"}
         => (dac <=> hifiUser /\ granted /\ wired)
    /\ mixer = "idle" /\ ~forceQueued /\ setter \in {"idle", "user", "gain"}
         => vendorGain = hifiGain

(* The policy in memory changes only on the way to a forced recompute.     *)
LEMMA BystanderPolicy ==
  ASSUME TypeInv, Bystander, open, mixer = "gain" \/ ~forceQueued'
  PROVE  /\ mixer = "gain" \/ ~forceQueued
         /\ setter' \in {"idle", "user"}
              => setter \in {"idle", "user"} /\ UNCHANGED <<hifiUser, hifiGain>>
         /\ setter' \in {"idle", "user", "gain"}
              => setter \in {"idle", "user", "gain"} /\ UNCHANGED hifiGain
<1>. USE DEF queues, wrapper, setting
<1>1. /\ mixer = "gain" \/ ~forceQueued
      /\ mixer = "idle" => ~Request(events, TRUE)
  <2>1. Request(events, TRUE) => forceQueued'
    BY DEF Request
  <2>2. ASSUME mixer = "idle" PROVE UNCHANGED forceQueued \/ \E force : Request(events, force)
    <3>1. SetParameters => UNCHANGED forceQueued \/ Request(events, TRUE)
      BY DEF SetParameters, BeginSet, SetUser, SetGain, StoreEnabled, StoreGain, EndSet
    <3>2. \A t \in Tracks : StartTrack(t) => Request(events, FALSE)
      BY DEF StartTrack
    <3>3. RemoveTracks => Request(events, FALSE)
      BY DEF RemoveTracks
    <3>4. \A w \in BOOLEAN : SendPatch(w) => UNCHANGED forceQueued
      BY DEF SendPatch
    <3>5. Write \/ UNCHANGED vars => UNCHANGED forceQueued
      BY DEF Write, vars
    <3>. QED
      BY <3>1, <3>2, <3>3, <3>4, <3>5 DEF Bystander
  <2>3. \A force : Request(events, force) => (forceQueued => forceQueued')
    BY DEF Request
  <2>4. mixer \in {"idle", "gain"}
    BY DEF TypeInv, RouteType
  <2>5. CASE mixer = "gain"
    BY <2>5
  <2>6. CASE mixer = "idle"
    <3>1. ~forceQueued'
      BY <2>6
    <3>2. ~Request(events, TRUE)
      BY <2>1, <3>1
    <3>3. CASE UNCHANGED forceQueued
      BY <3>1, <3>2, <3>3
    <3>4. ASSUME NEW force, Request(events, force) PROVE ~forceQueued
      BY <2>3, <3>1, <3>4
    <3>. QED
      BY <2>2, <2>6, <3>2, <3>3, <3>4
  <2>. QED
    BY <2>4, <2>5, <2>6
<1>2. SetParameters =>
        /\ setter' \in {"idle", "user"}
             => setter \in {"idle", "user"} /\ UNCHANGED <<hifiUser, hifiGain>>
        /\ setter' \in {"idle", "user", "gain"}
             => setter \in {"idle", "user", "gain"} /\ UNCHANGED hifiGain
  <2>1. BeginSet => /\ setter = "idle" /\ UNCHANGED <<hifiUser, hifiGain>>
    BY DEF BeginSet
  <2>2. SetUser => /\ setter = "user" /\ setter' = "gain" /\ UNCHANGED hifiGain
    BY DEF SetUser
  <2>3. SetGain \/ StoreEnabled \/ StoreGain => setter' \in {"request", "storeEnabled", "storeGain"}
    BY DEF SetGain, StoreEnabled, StoreGain
  <2>4. ~EndSet
    BY <1>1 DEF EndSet
  <2>. QED
    BY <2>1, <2>2, <2>3, <2>4 DEF SetParameters
<1>3. \A t \in Tracks : StartTrack(t) => UNCHANGED <<hifiUser, hifiGain, setter>>
  BY DEF StartTrack
<1>4. RemoveTracks => UNCHANGED <<hifiUser, hifiGain, setter>>
  BY DEF RemoveTracks
<1>5. \A w \in BOOLEAN : SendPatch(w) => UNCHANGED <<hifiUser, hifiGain, setter>>
  BY DEF SendPatch
<1>6. Write \/ UNCHANGED vars => UNCHANGED <<hifiUser, hifiGain, setter>>
  BY DEF Write, vars
<1>. QED
  BY <1>1, <1>2, <1>3, <1>4, <1>5, <1>6 DEF Bystander

LEMMA NextDelivered ==
  TypeInv /\ BeliefInv /\ DeliveredInv /\ [Next]_vars => DeliveredInv'
<1> SUFFICES ASSUME TypeInv, BeliefInv, DeliveredInv, [Next]_vars PROVE DeliveredInv'
  OBVIOUS
<1>1. CASE Bystander
  <2>0. Aside
    BY <1>1, Bystanders
  <2> SUFFICES ASSUME open, ~refused PROVE DeliveredInv'
    BY <2>0 DEF Aside, DeliveredInv
  <2>1. ASSUME ~Announcing', mixer = "gain" \/ ~recomputeQueued'
        PROVE  /\ (Desired' <=> Desired) /\ DesiredRate' = DesiredRate
               /\ recomputeQueued' = recomputeQueued /\ ~Announcing
    BY <1>1, <2>0, <2>1, BystanderKeeps, WantedSame DEF Aside
  <2>2. mixer' = "idle" /\ ~recomputeQueued' /\ ~Announcing'
          => (routeActive' <=> Desired') /\ sampleRate' = DesiredRate'
    BY <2>0, <2>1 DEF DeliveredInv, Aside
  <2>3. mixer' = "gain" /\ ~Announcing' => (granted' <=> Desired') /\ vendorRate' = DesiredRate'
    BY <2>0, <2>1 DEF DeliveredInv, Aside
  <2>4. mixer' = "idle" /\ ~forceQueued' /\ setter' \in {"idle", "user"}
          => (dac' <=> hifiUser' /\ hifiRoute' /\ wired')
    BY <1>1, <2>0, BystanderPolicy DEF DeliveredInv, Aside
  <2>5. mixer' = "gain" /\ setter' \in {"idle", "user"}
          => (dac' <=> hifiUser' /\ granted' /\ wired')
    BY <1>1, <2>0, BystanderPolicy DEF DeliveredInv, Aside
  <2>6. mixer' = "idle" /\ ~forceQueued' /\ setter' \in {"idle", "user", "gain"}
          => vendorGain' = hifiGain'
    BY <1>1, <2>0, BystanderPolicy DEF DeliveredInv, Aside
  <2>. QED
    BY <2>2, <2>3, <2>4, <2>5, <2>6 DEF DeliveredInv
<1>2. CASE HandlePatch
  <2>1. CASE Plugged
    <3>1. mixer' = "idle" /\ recomputeQueued' /\ UNCHANGED <<hifiUser, hifiRoute, hifiGain>>
      BY <1>2, <2>1, PatchOutcome DEF Plugged, Request
    <3>2. ~refused' => vendorGain' = hifiGain /\ (dac' <=> hifiUser /\ hifiRoute /\ wired')
      BY <2>1 DEF Plugged
    <3>. QED
      BY <3>1, <3>2 DEF DeliveredInv
  <2>2. CASE Unplugged
    BY <2>2 DEF Unplugged, DeliveredInv
  <2>. QED
    BY <1>2, <2>1, <2>2, PatchOutcome
<1>3. CASE Recompute
  <2>1. /\ mixer = "idle" /\ open
        /\ UNCHANGED <<property, hifiUser, hifiRoute, hifiGain, wired, open>>
        /\ UNCHANGED <<vendorGain, active, outWired, routeActive, sampleRate, setter>>
    BY <1>3, RecomputeOutcome
  <2>2. (Desired' <=> Desired) /\ DesiredRate' = DesiredRate
    BY <2>1, WantedSame
  <2>3. CASE Skipped
    <3>1. /\ ~forceQueued /\ (routeActive <=> Desired) /\ sampleRate = DesiredRate
          /\ UNCHANGED <<dac, mixer, refused>>
      BY <2>3 DEF Skipped
    <3>. QED
      BY <2>1, <2>2, <3>1 DEF DeliveredInv
  <2>4. CASE Granted
    <3>1. /\ dac' <=> hifiUser /\ Desired /\ wired
          /\ vendorRate' = DesiredRate /\ granted' = Desired /\ mixer' = "gain"
      BY <2>4 DEF Granted
    <3>. QED
      BY <2>1, <2>2, <3>1 DEF DeliveredInv
  <2>5. CASE RolledBack \/ Refused
    BY <2>5 DEF RolledBack, Refused, DeliveredInv
  <2>. QED
    BY <1>3, <2>3, <2>4, <2>5, RecomputeOutcome
<1>4. CASE FinishReconfigure
  <2>1. /\ mixer = "gain" /\ mixer' = "idle" /\ hifiRoute' = granted /\ routeActive' = granted
        /\ sampleRate' = vendorRate
        /\ UNCHANGED <<dac, wired, property, active, outWired, hifiUser, hifiGain, setter, open>>
    BY <1>4 DEF FinishReconfigure, setting
  <2>2. ~refused' => vendorGain' = hifiGain /\ ~refused
    BY <1>4 DEF FinishReconfigure
  <2>3. (Desired' <=> Desired) /\ DesiredRate' = DesiredRate
    BY <2>1, WantedSame
  <2>4. Announcing' <=> Announcing
    BY <2>1 DEF Announcing
  <2>. QED
    BY <2>1, <2>2, <2>3, <2>4 DEF DeliveredInv
<1>5. ASSUME NEW w \in BOOLEAN, OpenOutput(w) PROVE DeliveredInv'
  <2>1. /\ mixer' = "idle" /\ active' = {} /\ ~routeActive' /\ sampleRate' = NormalRate
        /\ ~hifiRoute' /\ UNCHANGED hifiGain
    BY <1>5, OpenOutcome
  <2>2. ~refused' => vendorGain' = hifiGain /\ ~dac'
    BY <1>5, OpenOutcome
  <2>3. ~Desired' /\ DesiredRate' = NormalRate
    BY <2>1, NoTracks
  <2>. QED
    BY <2>1, <2>2, <2>3 DEF DeliveredInv
<1>6. CASE ~open' /\ mixer' = "idle"
  BY <1>6 DEF DeliveredInv
<1>. QED
  BY <1>1, <1>2, <1>3, <1>4, <1>5, <1>6, RouteSteps

-----------------------------------------------------------------------------
(* The theorems about the route.                                           *)

RouteInv == BeliefInv /\ UnwantedInv /\ DeliveredInv

LEMMA AlwaysRoute == Spec => []RouteInv
<1>1. Init => RouteInv
  BY DEF Init, RouteInv, BeliefInv, BeliefMatches, UnwantedInv, DeliveredInv
<1>2. TypeInv /\ RouteInv /\ [Next]_vars => RouteInv'
  BY NextBelief, NextUnwanted, NextDelivered DEF RouteInv
<1>. QED
  BY <1>1, <1>2, AlwaysType, PTL DEF Spec

(* Between two events of the mixer thread what AudioFlinger believes of    *)
(* the route is what the wrapper recorded and the vendor applied, after    *)
(* refusals, rollbacks and restarts too.                                   *)
THEOREM BeliefIsFact == Spec => []BeliefMatches
<1>1. RouteInv => BeliefMatches
  BY DEF RouteInv, BeliefInv
<1>. QED
  BY <1>1, AlwaysRoute, PTL

LEMMA SettledQueue == TypeInv /\ Settled => ~recomputeQueued /\ ~forceQueued /\ ~Announcing
<1> SUFFICES ASSUME TypeInv, Settled PROVE ~recomputeQueued /\ ~forceQueued /\ ~Announcing
  OBVIOUS
<1>1. events = <<>> /\ setter = "idle"
  BY DEF Settled
<1>2. At(events, "recompute") = {}
  BY <1>1 DEF At
<1>. QED
  BY <1>1, <1>2 DEF TypeInv, QueueOK, Announcing

(* The DAC is not left on when the headset is gone, the tracks want it no  *)
(* more or the user's policy is off, whatever calls were refused before,   *)
(* unless switching it off was itself refused last.                        *)
THEOREM HifiIsWanted == Spec => []HifiNeverUnwanted
<1>1. TypeInv /\ RouteInv => HifiNeverUnwanted
  <2> SUFFICES ASSUME TypeInv, RouteInv, Settled, ~stuck, dac PROVE Desired
    BY DEF HifiNeverUnwanted
  <2>1. ~recomputeQueued /\ ~Announcing
    BY SettledQueue
  <2>2. open /\ mixer = "idle" /\ events = <<>> /\ wired = outWired
    BY DEF Settled
  <2>3. wired /\ Wanted
    BY <2>1, <2>2 DEF RouteInv, UnwantedInv
  <2>. QED
    BY <2>2, <2>3, DesiredWanted
<1>. QED
  BY <1>1, AlwaysType, AlwaysRoute, PTL

(* No update is lost between the three parties: once all has settled, and  *)
(* if the vendor refused nothing, the DAC, the rate and the gain are what  *)
(* the stored policy, the device and the tracks call for.                  *)
THEOREM HifiIsDelivered == Spec => []HifiDelivered
<1>1. TypeInv /\ RouteInv => HifiDelivered
  <2> SUFFICES ASSUME TypeInv, RouteInv, Settled, ~refused
               PROVE  /\ dac = (Desired /\ hifiUser)
                      /\ vendorRate = DesiredRate /\ sampleRate = DesiredRate
                      /\ vendorGain = hifiGain
    BY DEF HifiDelivered
  <2>1. ~recomputeQueued /\ ~forceQueued /\ ~Announcing
    BY SettledQueue
  <2>2. open /\ mixer = "idle" /\ setter = "idle" /\ wired = outWired
    BY DEF Settled
  <2>3. hifiRoute = routeActive /\ sampleRate = vendorRate
    BY <2>2 DEF RouteInv, BeliefInv, BeliefMatches
  <2>4. /\ routeActive <=> Desired
        /\ sampleRate = DesiredRate /\ vendorGain = hifiGain
        /\ dac <=> hifiUser /\ hifiRoute /\ wired
    BY <2>1, <2>2 DEF RouteInv, DeliveredInv
  <2>5. dac <=> Desired /\ hifiUser
    BY <2>2, <2>3, <2>4, DesiredWanted
  <2>6. dac \in BOOLEAN /\ (Desired /\ hifiUser) \in BOOLEAN
    BY Zenon DEF TypeInv, RouteType
  <2>7. dac = (Desired /\ hifiUser)
    BY <2>5, <2>6
  <2>. QED
    BY <2>3, <2>4, <2>7
<1>. QED
  BY <1>1, AlwaysType, AlwaysRoute, PTL
=============================================================================
