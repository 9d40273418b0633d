----------------------------- MODULE HifiRouting -----------------------------
(***************************************************************************)
(* Who switches the ES9018 HiFi DAC of the primary output, and when.       *)
(*                                                                         *)
(* Three parties decide, each with a copy of the state: the audio HAL      *)
(* wrapper (audio_primary_m86.cpp) keeps the user's policy, mirrors it in  *)
(* persistent properties and overrides every HiFi request that the policy  *)
(* or the output device forbids; the mixer thread of AudioFlinger (the     *)
(* lineage-19.1 frameworks-av patch) arbitrates from the properties, the   *)
(* active tracks and the output device, through a queue of coalesced       *)
(* recompute events; the Flyme vendor HAL applies or refuses each call.    *)
(* The policy is set by a binder thread while the mixer thread runs.       *)
(***************************************************************************)
EXTENDS Integers, Sequences

CONSTANTS Tracks,       \* tracks that may play on the output
          Demand,       \* what each asks for: a rate, "system" or "other"
          Rates,        \* the HiFi sample rates in use
          NormalRate,   \* mM86NormalSampleRate
          GainRequests, \* the hifi_gain values M86Parts asks for
          MaxSets, MaxPatches, MaxSessions, MaxTracks, MaxFailures  \* bounds

ASSUME RateAssumption == /\ NormalRate \notin {"system", "other"}
                         /\ Rates \cap {"system", "other"} = {}
ASSUME DemandAssumption == Demand \in [Tracks -> Rates \cup {"system", "other"}]
ASSUME GainAssumption == GainRequests \subseteq Int
ASSUME CountAssumption == /\ MaxSets \in Nat /\ MaxPatches \in Nat
                          /\ MaxSessions \in Nat /\ MaxTracks \in Nat
                          /\ MaxFailures \in Nat

VARIABLES
  property,    \* the persistent properties: enabled, gain
  hifiUser, hifiRoute, hifiGain, wired, \* M86Device: hifi_user_enabled,
               \* hifi_route_requested, hifi_gain, a wired active_output_devices
  open,        \* the primary output is open: active_output and its mixer thread
  dac, vendorRate, vendorGain, \* what the vendor HAL has applied
  active,      \* mActiveTracks
  outWired,    \* outDeviceTypes() has a wired headset or headphone
  events,      \* mConfigEvents: <<"recompute", force>> and <<"patch", wired>>
  recomputeQueued, forceQueued, routeActive, \* mM86HifiRecomputeQueued,
               \* mM86HifiForceReopenQueued, mM86HifiRouteActive
  sampleRate, standby, \* mSampleRate, mStandby
  mixer,       \* the mixer thread is between events, or inside a reconfigure
  granted,     \* m86DesiredActive as the reconfigure leaves it
  setter,      \* where the binder thread is in AudioFlinger::setParameters
  ask,         \* the key-value pairs it was called with
  unstored,    \* history: the policy in memory was not (all) stored
  stuck,       \* history: the last reconfigure, or the open, was refused
  refused,     \* history: some vendor call was refused since the output opened
  left         \* calls, patches, sessions, track starts, failures still to come

wrapper == <<hifiUser, hifiRoute, hifiGain, wired, open>>
vendor  == <<dac, vendorRate, vendorGain>>
queues  == <<events, recomputeQueued, forceQueued>>
belief  == <<routeActive, sampleRate>>
setting == <<setter, ask, unstored>>
history == <<stuck, refused>>
vars == <<property, wrapper, vendor, active, outWired, queues, belief, standby, mixer,
          granted, setting, history, left>>

Init ==
  /\ property \in [enabled : {"unset", "0", "1"}, gain : {0}]
  /\ hifiUser = (property.enabled # "0") /\ hifiGain = property.gain
  /\ hifiRoute = FALSE /\ wired = FALSE /\ open = FALSE
  /\ dac = FALSE /\ vendorRate = NormalRate /\ vendorGain = property.gain
  /\ active = {} /\ outWired = FALSE
  /\ events = <<>> /\ recomputeQueued = FALSE /\ forceQueued = FALSE
  /\ routeActive = FALSE /\ sampleRate = NormalRate /\ standby = TRUE
  /\ mixer = "idle" /\ granted = FALSE
  /\ setter = "idle" /\ ask = [enabled |-> "absent", form |-> "absent", gain |-> 0]
  /\ unstored = FALSE /\ stuck = FALSE /\ refused = FALSE
  /\ left = [sets |-> MaxSets, patches |-> MaxPatches, sessions |-> MaxSessions,
             tracks |-> MaxTracks, failures |-> MaxFailures]

Spend(what) == left[what] > 0 /\ left' = [left EXCEPT ![what] = @ - 1]

-----------------------------------------------------------------------------
(* Arbitration of checkForNewParameter_l.                                  *)

(* The property as AudioFlinger reads it: unset means disabled.            *)
UserEnabled == property.enabled = "1"
MediaDemand == {Demand[t] : t \in active} \ {"system"}
Desired     == UserEnabled /\ outWired /\ \E r \in Rates : MediaDemand = {r}
DesiredRate == IF Desired THEN CHOOSE r \in Rates : MediaDemand = {r} ELSE NormalRate

(* Mutant: a forced request is absorbed by an unforced one in the queue.   *)
RequestLosesForce(pending, force) ==
  /\ forceQueued' = (forceQueued \/ (force /\ ~recomputeQueued))
  /\ recomputeQueued' = TRUE
  /\ events' = IF recomputeQueued THEN pending
               ELSE Append(pending, <<"recompute", force>>)

(* requestM86HifiRecompute_l, the queue being `pending` when it is called. *)
Request(pending, force) ==
  /\ forceQueued' = (forceQueued \/ force)
  /\ recomputeQueued' = TRUE
  /\ events' = IF recomputeQueued THEN pending
               ELSE Append(pending, <<"recompute", force>>)

-----------------------------------------------------------------------------
(* m86_set_parameters, called by AudioFlinger::setParameters with its lock *)
(* held: no output is opened, closed or patched meanwhile, but the mixer   *)
(* thread runs.                                                            *)

NoPatch == \A i \in 1 .. Len(events) : events[i][1] # "patch"

BeginSet ==
  /\ setter = "idle" /\ NoPatch /\ Spend("sets")
  /\ ask' \in [enabled : {"on", "off", "absent"}, form : {"good", "bad", "absent"},
               gain : GainRequests]
  /\ ask'.enabled # "absent" \/ ask'.form # "absent"
  /\ setter' = "user"
  /\ UNCHANGED <<property, wrapper, vendor, active, outWired, queues, belief, standby,
                 mixer, granted, unstored, history>>

SetUser ==
  /\ setter = "user"
  /\ hifiUser' = IF ask.enabled = "absent" THEN hifiUser ELSE ask.enabled = "on"
  /\ setter' = "gain"
  /\ UNCHANGED <<property, hifiRoute, hifiGain, wired, open, vendor, active, outWired,
                 queues, belief, standby, mixer, granted, ask, unstored, history, left>>

(* Mutant: no upper limit.                                                 *)
ClampGainFromBelow(g) == IF g < 0 THEN 0 ELSE g
ClampGain(g) == IF g < 0 THEN 0 ELSE IF g > 3 THEN 3 ELSE g

(* A gain that is not a number fails the call, the policy already changed. *)
SetGain ==
  /\ setter = "gain"
  /\ \/ /\ ask.form = "bad"
        /\ unstored' = (unstored \/ ask.enabled # "absent")
        /\ setter' = "request"
        /\ UNCHANGED hifiGain
     \/ /\ ask.form # "bad"
        /\ hifiGain' = IF ask.form = "good" THEN ClampGain(ask.gain) ELSE hifiGain
        /\ setter' = "storeEnabled"
        /\ UNCHANGED unstored
  /\ UNCHANGED <<property, hifiUser, hifiRoute, wired, open, vendor, active, outWired,
                 queues, belief, standby, mixer, granted, ask, history, left>>

(* m86_store_hifi_properties: both are written, either write may fail.     *)
StoreEnabled ==
  /\ setter = "storeEnabled"
  /\ \/ /\ property' = [property EXCEPT !.enabled = IF hifiUser THEN "1" ELSE "0"]
        /\ unstored' = FALSE
        /\ UNCHANGED left
     \/ Spend("failures") /\ unstored' = TRUE /\ UNCHANGED property
  /\ setter' = "storeGain"
  /\ UNCHANGED <<wrapper, vendor, active, outWired, queues, belief, standby, mixer,
                 granted, ask, history>>

(* Mutant: only the switch is stored.                                      *)
StoreGainNever ==
  /\ setter = "storeGain"
  /\ setter' = "request"
  /\ UNCHANGED <<property, wrapper, vendor, active, outWired, queues, belief, standby,
                 mixer, granted, ask, unstored, history, left>>

StoreGain ==
  /\ setter = "storeGain"
  /\ \/ /\ property' = [property EXCEPT !.gain = hifiGain]
        /\ UNCHANGED <<unstored, left>>
     \/ Spend("failures") /\ unstored' = TRUE /\ UNCHANGED property
  /\ setter' = "request"
  /\ UNCHANGED <<wrapper, vendor, active, outWired, queues, belief, standby, mixer,
                 granted, ask, history>>

(* Mutant: AudioFlinger does not look at the policy keys.                  *)
EndSetNoRequest ==
  /\ setter = "request" /\ mixer = "idle"
  /\ setter' = "idle"
  /\ UNCHANGED <<property, wrapper, vendor, active, outWired, queues, belief, standby,
                 mixer, granted, ask, unstored, history, left>>

(* AudioFlinger then forces a recompute, whatever the call returned, if    *)
(* there is a primary mixer thread; its lock excludes the reconfigure.     *)
EndSet ==
  /\ setter = "request" /\ mixer = "idle"
  /\ IF open THEN Request(events, TRUE) ELSE UNCHANGED queues
  /\ setter' = "idle"
  /\ UNCHANGED <<property, wrapper, vendor, active, outWired, belief, standby, mixer,
                 granted, ask, unstored, history, left>>

SetParameters == BeginSet \/ SetUser \/ SetGain \/ StoreEnabled \/ StoreGain \/ EndSet

-----------------------------------------------------------------------------
(* Tracks and the output device, each change requesting a recompute.       *)

(* Track::start after addTrack_l.                                          *)
StartTrack(t) ==
  /\ open /\ mixer = "idle" /\ t \notin active /\ Spend("tracks")
  /\ active' = active \cup {t}
  /\ Request(events, FALSE)
  /\ UNCHANGED <<property, wrapper, vendor, outWired, belief, standby, mixer, granted,
                 setting, history>>

(* Mutant: the tracks go without a recompute.                              *)
RemoveTracksSilently ==
  /\ mixer = "idle"
  /\ \E gone \in (SUBSET active) \ {{}} : active' = active \ gone
  /\ UNCHANGED <<property, wrapper, vendor, outWired, queues, belief, standby, mixer,
                 granted, setting, history, left>>

(* removeTracks_l.                                                         *)
RemoveTracks ==
  /\ mixer = "idle"
  /\ \E gone \in (SUBSET active) \ {{}} : active' = active \ gone
  /\ Request(events, FALSE)
  /\ UNCHANGED <<property, wrapper, vendor, outWired, belief, standby, mixer, granted,
                 setting, history, left>>

(* The policy manager plugs the output elsewhere and waits for the answer. *)
SendPatch(w) ==
  /\ open /\ setter = "idle" /\ NoPatch /\ Spend("patches")
  /\ events' = Append(events, <<"patch", w>>)
  /\ UNCHANGED <<property, wrapper, vendor, active, outWired, recomputeQueued,
                 forceQueued, belief, standby, mixer, granted, setting, history>>

(* out_set_parameters("routing=N"): the wrapper applies its policy to the  *)
(* new device, ignoring refusals; then createAudioPatch_l asks to recompute. *)
HandlePatch ==
  /\ mixer = "idle" /\ events # <<>> /\ Head(events)[1] = "patch"
  /\ outWired' = Head(events)[2]
  /\ \/ /\ wired' = outWired'
        /\ \/ /\ vendorGain' = hifiGain
              /\ dac' = (hifiUser /\ hifiRoute /\ wired')
              /\ UNCHANGED <<refused, left>>
           \/ /\ vendorGain' \in {vendorGain, hifiGain}
              /\ dac' \in {dac, hifiUser /\ hifiRoute /\ wired'}
              /\ Spend("failures") /\ refused' = TRUE
        /\ Request(Tail(events), FALSE)
     \/ /\ Spend("failures") /\ refused' = TRUE
        /\ events' = Tail(events)
        /\ UNCHANGED <<wired, vendorGain, dac, recomputeQueued, forceQueued>>
  /\ UNCHANGED <<property, hifiUser, hifiRoute, hifiGain, open, vendorRate, active, belief,
                 standby, mixer, granted, setting, stuck>>

-----------------------------------------------------------------------------
(* The recompute event: checkForNewParameter_l and, inside it, the         *)
(* wrapper's out_set_parameters("hifi_state=..;sampling_rate=..").         *)

(* Standby is entered when the policy changed, or when the vendor answers  *)
(* that it must be, and then the call is repeated. What the policy or the  *)
(* device forbids is requested off. A refused "on" is rolled back.         *)
Reconfigure(force) ==
  /\ standby' \in {standby \/ force, TRUE}
  /\ \/ /\ dac' = (hifiUser /\ Desired /\ wired) /\ vendorRate' = DesiredRate
        /\ granted' = Desired
        /\ mixer' = "gain"
        /\ UNCHANGED <<stuck, refused, left>>
     \/ /\ Spend("failures") /\ refused' = TRUE
        /\ \/ /\ Desired
              /\ dac' = FALSE /\ vendorRate' = NormalRate
              /\ granted' = FALSE
              /\ mixer' = "gain"
              /\ UNCHANGED stuck
           \/ /\ stuck' = TRUE
              /\ UNCHANGED <<dac, vendorRate, granted, mixer>>

Recompute ==
  /\ mixer = "idle" /\ events # <<>> /\ Head(events)[1] = "recompute"
  /\ events' = Tail(events) /\ recomputeQueued' = FALSE /\ forceQueued' = FALSE
  /\ LET force == Head(events)[2] \/ forceQueued
     IN  \/ /\ ~force /\ Desired = routeActive /\ DesiredRate = sampleRate
            /\ UNCHANGED <<dac, vendorRate, standby, mixer, granted, history, left>>
         \/ /\ force \/ Desired # routeActive \/ DesiredRate # sampleRate
            /\ Reconfigure(force)
  /\ UNCHANGED <<property, wrapper, vendorGain, active, outWired, belief, setting>>

(* The accepted call records the route and applies the retained gain; the  *)
(* mixer thread then reads the vendor's parameters back.                   *)
FinishReconfigure ==
  /\ mixer = "gain"
  /\ hifiRoute' = granted
  /\ \/ vendorGain' = hifiGain /\ UNCHANGED <<refused, left>>
     \/ Spend("failures") /\ refused' = TRUE /\ UNCHANGED vendorGain
  /\ routeActive' = granted /\ sampleRate' = vendorRate
  /\ stuck' = FALSE
  /\ mixer' = "idle"
  /\ UNCHANGED <<property, hifiUser, hifiGain, wired, open, dac, vendorRate, active,
                 outWired, queues, standby, granted, setting>>

(* The thread writes while tracks play and enters standby when none does.  *)
Write == /\ open /\ mixer = "idle"
         /\ standby' = (active = {})
         /\ UNCHANGED <<property, wrapper, vendor, active, outWired, queues, belief, mixer,
                        granted, setting, history, left>>

Mixer == HandlePatch \/ Recompute \/ FinishReconfigure

-----------------------------------------------------------------------------
(* The life of the output.                                                 *)

(* m86_open_output applies the policy to the raw stream.                   *)
OpenOutput(w) ==
  /\ ~open /\ setter = "idle"
  /\ open' = TRUE /\ wired' = w /\ outWired' = FALSE
  /\ vendorRate' = NormalRate /\ sampleRate' = NormalRate /\ routeActive' = FALSE
  /\ \/ /\ vendorGain' = hifiGain /\ dac' = (hifiUser /\ hifiRoute /\ w)
        /\ stuck' = FALSE /\ refused' = FALSE
        /\ UNCHANGED left
     \/ /\ vendorGain' \in {vendorGain, hifiGain}
        /\ dac' \in {dac, hifiUser /\ hifiRoute /\ w}
        /\ Spend("failures") /\ stuck' = TRUE /\ refused' = TRUE
  /\ UNCHANGED <<property, hifiUser, hifiRoute, hifiGain, active, queues, standby, mixer,
                 granted, setting>>

(* Mutant: hifi_route_requested survives the close.                        *)
StopMixerKeepsRoute ==
  /\ open' = FALSE /\ wired' = FALSE /\ UNCHANGED hifiRoute
  /\ active' = {} /\ outWired' = FALSE
  /\ events' = <<>> /\ recomputeQueued' = FALSE /\ forceQueued' = FALSE
  /\ standby' = TRUE

(* The mixer thread goes, and its queue with it.                           *)
StopMixer ==
  /\ open' = FALSE /\ wired' = FALSE /\ hifiRoute' = FALSE
  /\ active' = {} /\ outWired' = FALSE
  /\ events' = <<>> /\ recomputeQueued' = FALSE /\ forceQueued' = FALSE
  /\ standby' = TRUE

(* m86_close_output.                                                       *)
CloseOutput ==
  /\ open /\ setter = "idle" /\ mixer = "idle" /\ Spend("sessions")
  /\ StopMixer
  /\ UNCHANGED <<property, hifiUser, hifiGain, vendor, belief, mixer, granted, setting,
                 history>>

(* audioserver and the HAL die at any point; m86_module_open loads the     *)
(* properties, an unset one meaning enabled here.                          *)
Restart ==
  /\ Spend("sessions")
  /\ StopMixer
  /\ hifiUser' = (property.enabled # "0") /\ hifiGain' = property.gain
  /\ vendorGain' \in {vendorGain, property.gain}
  /\ mixer' = "idle" /\ setter' = "idle" /\ unstored' = FALSE
  /\ UNCHANGED <<property, dac, vendorRate, belief, granted, ask, history>>

Next ==
  \/ SetParameters
  \/ \E t \in Tracks : StartTrack(t)
  \/ RemoveTracks
  \/ \E w \in BOOLEAN : SendPatch(w) \/ OpenOutput(w)
  \/ Mixer
  \/ Write
  \/ CloseOutput
  \/ Restart

Spec == Init /\ [][Next]_vars

-----------------------------------------------------------------------------
(* Types.                                                                  *)

(* Every variable keeps its type; the gain stays within the vendor's 0..3, *)
(* the mixer thread never holds a reconfigure of a closed output, and at   *)
(* most one recompute event is queued, exactly when it is flagged so.      *)
Recomputes == {i \in 1 .. Len(events) : events[i][1] = "recompute"}
TypeOK ==
  /\ property \in [enabled : {"unset", "0", "1"}, gain : 0 .. 3]
  /\ hifiUser \in BOOLEAN /\ hifiRoute \in BOOLEAN /\ hifiGain \in 0 .. 3
  /\ wired \in BOOLEAN /\ open \in BOOLEAN
  /\ dac \in BOOLEAN /\ vendorRate \in Rates \cup {NormalRate} /\ vendorGain \in 0 .. 3
  /\ active \subseteq Tracks /\ outWired \in BOOLEAN
  /\ events \in Seq({"recompute", "patch"} \X BOOLEAN)
  /\ recomputeQueued \in BOOLEAN /\ forceQueued \in BOOLEAN
  /\ routeActive \in BOOLEAN /\ sampleRate \in Rates \cup {NormalRate}
  /\ standby \in BOOLEAN /\ mixer \in {"idle", "gain"} /\ granted \in BOOLEAN
  /\ setter \in {"idle", "user", "gain", "storeEnabled", "storeGain", "request"}
  /\ ask \in [enabled : {"on", "off", "absent"}, form : {"good", "bad", "absent"},
              gain : Int]
  /\ unstored \in BOOLEAN /\ stuck \in BOOLEAN /\ refused \in BOOLEAN
  /\ left \in [{"sets", "patches", "sessions", "tracks", "failures"} -> Nat]
  /\ mixer = "gain" => open
  /\ recomputeQueued = (Recomputes # {})
  /\ \A i, j \in Recomputes : i = j

-----------------------------------------------------------------------------
(* Safety.                                                                 *)

(* Nothing is under way and the last routing call was not refused.         *)
Settled == /\ open /\ wired = outWired
           /\ events = <<>> /\ mixer = "idle" /\ setter = "idle"

(* No update is lost between the three parties: once everything has        *)
(* settled, and if the vendor refused nothing, the DAC is on exactly when  *)
(* the stored policy, the device and the tracks want it and the wrapper    *)
(* lets it, at the rate they want, with the gain the user asked for last.  *)
HifiDelivered ==
  Settled /\ ~refused => /\ dac = (Desired /\ hifiUser)
                         /\ vendorRate = DesiredRate /\ sampleRate = DesiredRate
                         /\ vendorGain = hifiGain

(* Even when the vendor refused routing or gain calls in between, the DAC  *)
(* does not stay on unwanted (the headset unplugged, the last music track  *)
(* gone, the user's policy off), unless switching it off was refused last. *)
HifiNeverUnwanted == Settled /\ ~stuck /\ dac => Desired

(* Between two events of the mixer thread, what AudioFlinger believes of   *)
(* the route is what the wrapper recorded and the vendor applied, after    *)
(* refusals, rollbacks and restarts too: a stale routeActive would make    *)
(* it skip the reconfigure that is needed.                                 *)
BeliefMatches ==
  open /\ mixer = "idle" => /\ hifiRoute = routeActive /\ sampleRate = vendorRate
                            /\ dac /\ ~stuck => routeActive

(* A restart of the audio processes brings back the policy the last set    *)
(* left in memory, unless it was interrupted or told it could not store it. *)
RestartKeepsPolicy ==
  [][Restart /\ setter = "idle" /\ ~unstored
       => hifiUser' = hifiUser /\ hifiGain' = hifiGain]_vars

(* The gain is changed under the stream only in standby, as                *)
(* m86_set_parameters's comment has it: "Defer touching the active Flyme   *)
(* stream until AudioFlinger has put it in standby".                       *)
GainInStandby == [][vendorGain' # vendorGain => standby']_vars

-----------------------------------------------------------------------------
(* Fairness: the call of the binder thread and the mixer thread's event    *)
(* queue make progress. Settings, tracks, devices, restarts are not owed.  *)
Fairness == WF_vars(SetUser \/ SetGain \/ StoreEnabled \/ StoreGain \/ EndSet)
            /\ WF_vars(Mixer)
FairSpec == Spec /\ Fairness

(* Switching HiFi off reaches the DAC, unless it is switched on again, the *)
(* vendor refuses a call or the output goes.                               *)
OffReachesDac == (open /\ dac /\ ~hifiUser) ~> (~dac \/ hifiUser \/ refused \/ ~open)
=============================================================================
