----------------------- MODULE BluetoothVendor_proofs -----------------------
(***************************************************************************)
(* Theorems about BluetoothVendor, for any number of sending threads,      *)
(* firmware commands, packets, sessions and failures.                      *)
(***************************************************************************)
EXTENDS BluetoothVendor, TLAPS

InSession == stage \in {"open", "closing"}

\* Between sessions no thread is in Send and the watcher does not run; a
\* session closes when the senders are out; the watcher does not send while
\* it handles a timeout.
Places ==
  /\ ~InSession => watcher = "off" /\ \A t \in Threads : pc[t] = "idle"
  /\ stage = "closing" => \A t \in Senders : pc[t] = "idle"
  /\ watcher \in {"expired", "sleep"} => pc["watcher"] = "idle"

\* lpm_wake_deasserted is what the library was told, but for a thread that
\* is about to tell it.
WakeKnown ==
  /\ InSession /\ ~deasserted => awake \/ \E t \in Threads : pc[t] = "wake"
  /\ watcher = "sleep" => deasserted

\* What was written in this period is remembered, and what is about to be.
ActivityKept ==
  /\ InSession /\ written => activity
  /\ \A t \in Threads : pc[t] \in {"wake", "write"} => activity

FirmwareAwaited == cb = "fw" => stage = "open" /\ fwLeft > 0

VendorInv ==
  /\ TypeOK /\ Places /\ WakeKnown /\ ActivityKept /\ FirmwareAwaited
  /\ AwakeWhileWriting /\ QuietBeforeSleep

LEMMA ThreadFacts ==
  /\ "host" \in Threads /\ "watcher" \in Threads /\ None \notin Threads
  /\ "host" \notin Senders /\ "watcher" \notin Senders /\ Senders \subseteq Threads
  BY SenderAssumption DEF Threads, None

LEMMA InitVendor == Init => VendorInv
<1> SUFFICES ASSUME Init PROVE VendorInv
  OBVIOUS
<1>1. /\ stage = "closed" /\ watcher = "off" /\ mutex = None /\ cb = None /\ sent = <<>>
      /\ fwLeft = 0 /\ packets = 0 /\ sessions = MaxSessions /\ failures = MaxFailures
      /\ pc = [t \in Threads |-> "idle"] /\ packet = [t \in Threads |-> None]
  BY DEF Init
<1>2. /\ timer \in BOOLEAN /\ deasserted \in BOOLEAN /\ activity \in BOOLEAN
      /\ knownTimeout \in BOOLEAN /\ complete \in BOOLEAN /\ awake \in BOOLEAN
      /\ written \in BOOLEAN
  BY Zenon DEF Init
<1>3. \A t \in Threads : Holds(t) <=> mutex = t
  BY <1>1, ThreadFacts DEF Holds
<1>4. sent \in Seq(Internal) /\ cb \in {None} \cup Internal
  BY <1>1
<1>5. TypeOK
  BY <1>1, <1>2, <1>3, <1>4, BoundAssumption DEF TypeOK
<1>6. /\ Places /\ WakeKnown /\ ActivityKept /\ FirmwareAwaited
      /\ AwakeWhileWriting /\ QuietBeforeSleep
  BY <1>1 DEF Places, InSession, WakeKnown, ActivityKept, FirmwareAwaited, AwakeWhileWriting,
              QuietBeforeSleep, None
<1> QED BY <1>5, <1>6 DEF VendorInv

-----------------------------------------------------------------------------
(* Send.                                                                   *)

LEMMA SendLockStep ==
  ASSUME VendorInv, NEW t \in Threads, SendLock(t)
  PROVE  VendorInv'
<1>1. /\ pc[t] = "lock" /\ mutex = None /\ mutex' = t /\ activity' = TRUE
      /\ UNCHANGED <<stage, fwLeft, complete, watcher, packet, knownTimeout, awake, written,
                     cb, sent, packets, sessions, failures>>
  BY DEF SendLock, object, internal, budget
<1>2. /\ deasserted' = FALSE
      /\ pc' = [pc EXCEPT ![t] = IF deasserted THEN "wake" ELSE "write"]
      /\ timer' \in BOOLEAN
  BY DEF SendLock, VendorInv, TypeOK
<1>3. /\ pc' \in [Threads -> {"idle", "lock", "wake", "write"}]
      /\ \A u \in Threads : u # t => pc'[u] = pc[u]
      /\ pc'[t] = IF deasserted THEN "wake" ELSE "write"
  BY <1>2 DEF VendorInv, TypeOK
<1>4. \A u \in Threads : pc[u] \notin {"wake", "write"} /\ watcher # "sleep"
  BY <1>1, ThreadFacts DEF VendorInv, TypeOK, Holds
<1>5. InSession /\ (t \in Senders => stage # "closing")
  BY <1>1 DEF VendorInv, Places
<1>6. \A u \in Threads : Holds(u)' <=> mutex' = u
  BY <1>1, <1>3, <1>4 DEF Holds
<1>7. TypeOK'
  <2>1. /\ timer' \in BOOLEAN /\ deasserted' \in BOOLEAN /\ activity' \in BOOLEAN
        /\ mutex' \in {None} \cup Threads
    BY <1>1, <1>2
  <2>2. \A u \in Threads : Holds(u)' <=> mutex' = u
    BY <1>6
  <2>. QED
    BY <1>1, <1>3, <2>1, <2>2 DEF VendorInv, TypeOK
<1>8. Places'
  BY <1>1, <1>3, <1>4, <1>5, ThreadFacts DEF VendorInv, Places, InSession
<1>9. WakeKnown' /\ AwakeWhileWriting'
  BY <1>1, <1>3, <1>4, <1>5 DEF VendorInv, WakeKnown, AwakeWhileWriting, InSession
<1>10. ActivityKept' /\ FirmwareAwaited' /\ QuietBeforeSleep'
  BY <1>1, <1>4 DEF VendorInv, ActivityKept, FirmwareAwaited, QuietBeforeSleep
<1> QED BY <1>7, <1>8, <1>9, <1>10 DEF VendorInv

LEMMA AssertWakeStep ==
  ASSUME VendorInv, NEW t \in Threads, AssertWake(t)
  PROVE  VendorInv'
<1>1. /\ pc[t] = "wake" /\ awake' = TRUE
      /\ pc' = [pc EXCEPT ![t] = "write"]
      /\ UNCHANGED <<stage, fwLeft, complete, watcher, packet, mutex, timer, deasserted, activity,
                     knownTimeout, written, cb, sent, packets, sessions, failures>>
  BY DEF AssertWake, object, internal, budget
<1>2. /\ pc' \in [Threads -> {"idle", "lock", "wake", "write"}]
      /\ \A u \in Threads : u # t => pc'[u] = pc[u]
      /\ pc'[t] = "write"
  BY <1>1 DEF VendorInv, TypeOK
<1>3. InSession /\ (t \in Senders => stage # "closing")
  BY <1>1 DEF VendorInv, Places
<1>4. \A u \in Threads : Holds(u)' <=> mutex' = u
  BY <1>1, <1>2 DEF VendorInv, TypeOK, Holds
<1>5. TypeOK'
  BY <1>1, <1>2, <1>4 DEF VendorInv, TypeOK
<1>6. Places'
  BY <1>1, <1>2, <1>3, ThreadFacts DEF VendorInv, Places, InSession
<1>7. WakeKnown' /\ AwakeWhileWriting'
  BY <1>1 DEF VendorInv, WakeKnown, AwakeWhileWriting
<1>8. ActivityKept' /\ FirmwareAwaited' /\ QuietBeforeSleep'
  BY <1>1, <1>2 DEF VendorInv, ActivityKept, FirmwareAwaited, QuietBeforeSleep, InSession
<1> QED BY <1>5, <1>6, <1>7, <1>8 DEF VendorInv

LEMMA WritePacketStep ==
  ASSUME VendorInv, NEW t \in Threads, WritePacket(t)
  PROVE  VendorInv'
<1>1. /\ pc[t] = "write" /\ mutex' = None /\ written' = TRUE
      /\ pc' = [pc EXCEPT ![t] = "idle"]
      /\ packet' = [packet EXCEPT ![t] = None]
      /\ UNCHANGED <<stage, fwLeft, complete, watcher, timer, deasserted, activity,
                     knownTimeout, awake, cb, packets, sessions, failures>>
  BY DEF WritePacket, object, budget
<1>2. /\ pc' \in [Threads -> {"idle", "lock", "wake", "write"}]
      /\ \A u \in Threads : u # t => pc'[u] = pc[u]
      /\ pc'[t] = "idle" /\ packet' \in [Threads -> {None, "data"} \cup Internal]
  BY <1>1 DEF VendorInv, TypeOK
<1>3. sent' \in Seq(Internal)
  BY DEF WritePacket, VendorInv, TypeOK
<1>4. mutex = t /\ \A u \in Threads : u # t => ~Holds(u)
  BY <1>1 DEF VendorInv, TypeOK, Holds
<1>5. watcher # "sleep"
  BY <1>1, <1>4, ThreadFacts DEF VendorInv, Places, Holds
<1>6. \A u \in Threads : Holds(u)' <=> mutex' = u
  BY <1>1, <1>2, <1>4, <1>5, ThreadFacts DEF Holds
<1>7. TypeOK'
  BY <1>1, <1>2, <1>3, <1>6 DEF VendorInv, TypeOK
<1>8. Places'
  BY <1>1, <1>2, ThreadFacts DEF VendorInv, Places, InSession
<1>9. WakeKnown' /\ AwakeWhileWriting'
  BY <1>1, <1>2 DEF VendorInv, WakeKnown, AwakeWhileWriting, InSession
<1>10. ActivityKept' /\ FirmwareAwaited' /\ QuietBeforeSleep'
  BY <1>1, <1>2, <1>5 DEF VendorInv, ActivityKept, FirmwareAwaited, QuietBeforeSleep, InSession
<1> QED BY <1>7, <1>8, <1>9, <1>10 DEF VendorInv

\* A thread that is idle begins to send: nothing of the power state changes.
\* What becomes of the rest is said by the action that calls Send.
LEMMA CallStep ==
  ASSUME VendorInv, NEW t \in Threads, NEW p \in {"data"} \cup Internal, Call(t, p),
         UNCHANGED <<power, mutex, complete, sessions, failures>>,
         InSession, stage' \in {"open", "closing"},
         stage' = "closing" => \A u \in Senders : pc'[u] = "idle",
         watcher' = watcher \/ (watcher # "sleep" /\ watcher' \in {"timeout", "watchdog"}),
         t = "watcher" => watcher' \notin {"expired", "sleep"},
         cb' \in {None} \cup Internal, sent' \in Seq(Internal), fwLeft' \in 0 .. FwCommands,
         packets' \in 0 .. MaxPackets, FirmwareAwaited'
  PROVE  VendorInv'
<1>1. /\ pc[t] = "idle"
      /\ pc' \in [Threads -> {"idle", "lock", "wake", "write"}]
      /\ \A u \in Threads : u # t => pc'[u] = pc[u]
      /\ pc'[t] = "lock" /\ packet' \in [Threads -> {None, "data"} \cup Internal]
  BY DEF Call, VendorInv, TypeOK
<1>2. UNCHANGED <<timer, deasserted, activity, knownTimeout, awake, written, mutex>>
  BY DEF power
<1>3. \A u \in Threads : pc[u] \in {"wake", "write"} <=> pc'[u] \in {"wake", "write"}
  BY <1>1
<1>4. \A u \in Threads : Holds(u)' <=> Holds(u)
  BY <1>3 DEF Holds
<1>5. TypeOK'
  BY <1>1, <1>2, <1>4 DEF VendorInv, TypeOK
<1>6. Places'
  BY <1>1, ThreadFacts DEF VendorInv, Places, InSession
<1>7. WakeKnown' /\ AwakeWhileWriting'
  BY <1>1, <1>2 DEF VendorInv, WakeKnown, AwakeWhileWriting, InSession
<1>8. ActivityKept' /\ QuietBeforeSleep'
  BY <1>1, <1>2, <1>3 DEF VendorInv, ActivityKept, QuietBeforeSleep, InSession
<1> QED BY <1>5, <1>6, <1>7, <1>8 DEF VendorInv

LEMMA SendPacketStep ==
  ASSUME VendorInv, NEW t \in Threads, SendPacket(t)
  PROVE  VendorInv'
<1>1. /\ Call(t, "data") /\ stage = "open" /\ t \in Senders
      /\ UNCHANGED <<stage, fwLeft, complete, watcher, mutex, power, cb, sent, sessions, failures>>
  BY DEF SendPacket, object, internal
<1>2. packets' \in 0 .. MaxPackets
  BY BoundAssumption DEF SendPacket, VendorInv, TypeOK
<1>3. FirmwareAwaited' /\ InSession
  BY <1>1 DEF VendorInv, FirmwareAwaited, InSession
<1> QED BY <1>1, <1>2, <1>3, ThreadFacts, CallStep DEF VendorInv, TypeOK

LEMMA LpmDisableStep ==
  ASSUME VendorInv, LpmDisable
  PROVE  VendorInv'
<1>1. /\ Call("host", "off") /\ cb' = "off" /\ stage = "open" /\ stage' = "closing"
      /\ \A u \in Senders : pc[u] = "idle"
      /\ UNCHANGED <<fwLeft, complete, watcher, mutex, power, sent, packets, sessions, failures>>
  BY DEF LpmDisable, Transmit, budget
<1>2. \A u \in Senders : pc'[u] = "idle"
  BY <1>1, ThreadFacts DEF Call, VendorInv, TypeOK
<1>3. FirmwareAwaited' /\ InSession /\ "off" \in Internal
  BY <1>1 DEF FirmwareAwaited, InSession, Internal
<1> QED BY <1>1, <1>2, <1>3, ThreadFacts, CallStep DEF VendorInv, TypeOK

-----------------------------------------------------------------------------
(* The watcher thread.                                                     *)

\* A step that moves only the watcher, between states without the mutex.
LEMMA WatcherStep ==
  ASSUME VendorInv, watcher # "sleep", InSession,
         watcher' \in {"wait", "expired", "configured", "sco", "lpm"},
         watcher' = "expired" => pc["watcher"] = "idle",
         UNCHANGED <<stage, sending, deasserted, activity, awake, written, budget>>,
         timer' \in BOOLEAN, knownTimeout' \in BOOLEAN, complete' \in BOOLEAN,
         cb' \in {None} \cup Internal, sent' \in Seq(Internal), fwLeft' \in 0 .. FwCommands,
         FirmwareAwaited'
  PROVE  VendorInv'
<1>1. UNCHANGED <<pc, packet, mutex, packets, sessions, failures>>
  BY DEF sending, budget
<1>2. \A u \in Threads : Holds(u)' <=> Holds(u)
  BY <1>1 DEF Holds
<1>3. TypeOK'
  BY <1>1, <1>2 DEF VendorInv, TypeOK
<1>4. Places' /\ WakeKnown' /\ ActivityKept' /\ AwakeWhileWriting' /\ QuietBeforeSleep'
  BY <1>1 DEF VendorInv, Places, WakeKnown, ActivityKept, AwakeWhileWriting, QuietBeforeSleep,
              InSession
<1> QED BY <1>3, <1>4 DEF VendorInv

LEMMA TimerSteps ==
  ASSUME VendorInv, Expire \/ InitializeComplete \/ GetIdleTimeout \/ StartLowPowerWatchdog
  PROVE  VendorInv'
<1>1. /\ UNCHANGED <<stage, fwLeft, sending, deasserted, activity, awake, written, cb, sent,
                     budget>>
      /\ watcher \in {"wait", "configured", "timeout", "watchdog"} /\ pc["watcher"] = "idle"
      /\ watcher' \in {"wait", "expired", "sco", "lpm"}
  BY DEF Expire, InitializeComplete, GetIdleTimeout, StartLowPowerWatchdog, Ready, Configuring,
         object, power, internal
<1>2. timer' \in BOOLEAN /\ knownTimeout' \in BOOLEAN /\ complete' \in BOOLEAN
  BY Zenon DEF VendorInv, TypeOK, Expire, InitializeComplete, GetIdleTimeout,
               StartLowPowerWatchdog, object, power
<1>3. InSession /\ FirmwareAwaited'
  BY <1>1 DEF VendorInv, Places, FirmwareAwaited
<1> QED BY <1>1, <1>2, <1>3, WatcherStep DEF VendorInv, TypeOK

LEMMA TransmitSteps ==
  ASSUME VendorInv, ScoConfig \/ LpmEnable
  PROVE  VendorInv'
<1>1. PICK c \in {"sco", "lpm"} : Call("watcher", c) /\ cb' = c
  BY DEF ScoConfig, LpmEnable, Transmit
<1>2. /\ UNCHANGED <<stage, fwLeft, complete, mutex, power, sent, packets, sessions, failures>>
      /\ watcher \in {"sco", "lpm"} /\ watcher' \in {"timeout", "watchdog"}
  BY DEF ScoConfig, LpmEnable, Configuring, object, budget
<1>3. InSession
  BY <1>2 DEF VendorInv, Places
<1>4. stage' = "closing" => \A u \in Senders : pc'[u] = "idle"
  BY <1>1, <1>2, ThreadFacts DEF VendorInv, TypeOK, Places, Call
<1>5. FirmwareAwaited' /\ c \in Internal
  BY <1>1 DEF FirmwareAwaited, Internal
<1> QED BY <1>1, <1>2, <1>3, <1>4, <1>5, ThreadFacts, CallStep DEF VendorInv, TypeOK, InSession

LEMMA OnTimeoutStep ==
  ASSUME VendorInv, OnTimeout
  PROVE  VendorInv'
<1>1. /\ watcher = "expired" /\ mutex = None
      /\ UNCHANGED <<stage, fwLeft, complete, pc, packet, timer, knownTimeout, awake, cb, sent,
                     packets, sessions, failures>>
  BY DEF OnTimeout, object, internal, budget
<1>2. \A t \in Threads : ~Holds(t) /\ pc[t] \notin {"wake", "write"}
  BY <1>1, ThreadFacts DEF VendorInv, TypeOK, Holds
<1>3. CASE activity
  <2>1. activity' = FALSE /\ written' = FALSE /\ watcher' = "wait" /\ UNCHANGED <<mutex, deasserted>>
    BY <1>3 DEF OnTimeout
  <2>2. TypeOK'
    BY <1>1, <1>2, <2>1 DEF VendorInv, TypeOK, Holds
  <2>3. /\ Places' /\ WakeKnown' /\ ActivityKept' /\ FirmwareAwaited'
        /\ AwakeWhileWriting' /\ QuietBeforeSleep'
    BY <1>1, <1>2, <2>1 DEF VendorInv, Places, WakeKnown, ActivityKept, FirmwareAwaited,
                            AwakeWhileWriting, QuietBeforeSleep, InSession
  <2> QED BY <2>2, <2>3 DEF VendorInv
<1>4. CASE ~activity
  <2>1. deasserted' = TRUE /\ mutex' = "watcher" /\ watcher' = "sleep" /\ UNCHANGED <<activity, written>>
    BY <1>4 DEF OnTimeout
  <2>2. \A t \in Threads : Holds(t)' <=> mutex' = t
    BY <1>1, <1>2, <2>1 DEF Holds
  <2>3. TypeOK'
    BY <1>1, <2>1, <2>2, ThreadFacts DEF VendorInv, TypeOK
  <2>4. InSession /\ ~written
    BY <1>1, <1>4, Zenon DEF VendorInv, Places, ActivityKept
  <2>5. /\ Places' /\ WakeKnown' /\ ActivityKept' /\ FirmwareAwaited'
        /\ AwakeWhileWriting' /\ QuietBeforeSleep'
    BY <1>1, <1>2, <2>1, <2>4 DEF VendorInv, Places, WakeKnown, ActivityKept, FirmwareAwaited,
                            AwakeWhileWriting, QuietBeforeSleep, InSession
  <2> QED BY <2>3, <2>5 DEF VendorInv
<1> QED BY <1>3, <1>4

LEMMA DeassertWakeStep ==
  ASSUME VendorInv, DeassertWake
  PROVE  VendorInv'
<1>1. /\ watcher = "sleep" /\ watcher' = "wait" /\ mutex' = None
      /\ awake' = FALSE /\ timer' = FALSE /\ activity' = FALSE /\ written' = FALSE
      /\ UNCHANGED <<stage, fwLeft, complete, pc, packet, deasserted, knownTimeout, cb, sent,
                     packets, sessions, failures>>
  BY DEF DeassertWake, object, internal, budget
<1>2. mutex = "watcher" /\ pc["watcher"] = "idle"
  BY <1>1, ThreadFacts DEF VendorInv, TypeOK, Places, Holds
<1>3. \A t \in Threads : pc[t] \notin {"wake", "write"}
  BY <1>1, <1>2 DEF VendorInv, TypeOK, Holds
<1>4. \A t \in Threads : Holds(t)' <=> mutex' = t
  BY <1>1, <1>3, ThreadFacts DEF Holds
<1>5. TypeOK'
  BY <1>1, <1>4 DEF VendorInv, TypeOK
<1>6. Places'
  BY <1>1, <1>2 DEF VendorInv, Places, InSession
<1>7. WakeKnown'
  BY <1>1 DEF VendorInv, WakeKnown
<1>8. ActivityKept' /\ FirmwareAwaited' /\ AwakeWhileWriting' /\ QuietBeforeSleep'
  BY <1>1, <1>3 DEF VendorInv, ActivityKept, FirmwareAwaited, AwakeWhileWriting,
                    QuietBeforeSleep
<1> QED BY <1>5, <1>6, <1>7, <1>8 DEF VendorInv

LEMMA EventStep ==
  ASSUME VendorInv, HandleIncomingEvent
  PROVE  VendorInv'
<1>1. /\ watcher = "wait" /\ pc["watcher"] = "idle" /\ sent # <<>> /\ sent' = Tail(sent)
      /\ UNCHANGED <<stage, complete, mutex, power, packets, sessions, failures>>
  BY DEF HandleIncomingEvent, Ready, budget
<1>2. sent' \in Seq(Internal) /\ Head(sent) \in Internal
  BY <1>1 DEF VendorInv, TypeOK
<1>3. InSession
  BY <1>1 DEF VendorInv, Places
<1>4. CASE UNCHANGED <<fwLeft, watcher, pc, packet>>
           /\ (cb' = cb \/ (cb' = None /\ cb # "fw"))
  <2>1. FirmwareAwaited' /\ cb' \in {None} \cup Internal
    BY <1>1, <1>4 DEF VendorInv, TypeOK, FirmwareAwaited, None
  <2> QED BY <1>1, <1>2, <1>3, <1>4, <2>1, WatcherStep
          DEF VendorInv, TypeOK, sending, power, budget
<1>5. CASE cb = "fw" /\ Callback("fw") /\ cb' = IF fwLeft > 1 THEN "fw" ELSE None
  <2>1. fwLeft \in 1 .. FwCommands /\ stage = "open" /\ fwLeft' = fwLeft - 1
    BY <1>5, BoundAssumption DEF VendorInv, TypeOK, FirmwareAwaited, Callback
  <2>2. CASE fwLeft = 1
    <3>1. watcher' = "configured" /\ UNCHANGED <<pc, packet>> /\ cb' = None
      BY <1>5, <2>2 DEF Callback
    <3>2. FirmwareAwaited' /\ cb' \in {None} \cup Internal /\ fwLeft' \in 0 .. FwCommands
      BY <2>1, <3>1, BoundAssumption DEF FirmwareAwaited, None
    <3> QED BY <1>1, <1>2, <1>3, <3>1, <3>2, WatcherStep
            DEF VendorInv, TypeOK, sending, power, budget
  <2>3. CASE fwLeft # 1
    <3>1. Call("watcher", "fw") /\ watcher' = watcher /\ cb' = "fw"
      BY <1>5, <2>1, <2>3 DEF Callback
    <3>2. /\ FirmwareAwaited' /\ cb' \in {None} \cup Internal /\ fwLeft' \in 0 .. FwCommands
          /\ "fw" \in Internal
      BY <1>1, <2>1, <2>3, <3>1, BoundAssumption DEF FirmwareAwaited, Internal
    <3> QED BY <1>1, <1>2, <1>3, <2>1, <3>1, <3>2, ThreadFacts, CallStep DEF VendorInv, TypeOK
  <2> QED BY <2>2, <2>3
<1> QED BY <1>4, <1>5 DEF HandleIncomingEvent, Callback

-----------------------------------------------------------------------------
(* Initialize and Close.                                                   *)

LEMMA OpenStep ==
  ASSUME VendorInv, Open
  PROVE  VendorInv'
<1>1. /\ stage = "closed" /\ stage' = "open" /\ watcher' = "wait" /\ timer' = FALSE
      /\ deasserted' = TRUE /\ awake' = FALSE /\ written' = FALSE /\ complete' = FALSE
      /\ fwLeft' = FwCommands /\ packets' = MaxPackets /\ cb' = "fw"
      /\ pc' = [pc EXCEPT !["host"] = "lock"] /\ packet' = [packet EXCEPT !["host"] = "fw"]
      /\ UNCHANGED <<mutex, activity, knownTimeout, sent, failures>>
  BY DEF Open, Transmit, Call
<1>2. \A t \in Threads : pc[t] = "idle" /\ watcher = "off"
  BY <1>1 DEF VendorInv, Places, InSession
<1>3. /\ pc' \in [Threads -> {"idle", "lock", "wake", "write"}]
      /\ packet' \in [Threads -> {None, "data"} \cup Internal]
      /\ \A t \in Threads : pc'[t] \in {"idle", "lock"} /\ (t # "host" => pc'[t] = "idle")
  BY <1>1, <1>2 DEF VendorInv, TypeOK, Internal
<1>4. \A t \in Threads : Holds(t)' <=> Holds(t)
  BY <1>1, <1>2, <1>3 DEF Holds
<1>5. sessions' \in 0 .. MaxSessions
  BY BoundAssumption DEF Open, VendorInv, TypeOK
<1>6. TypeOK'
  <2>1. /\ timer' \in BOOLEAN /\ deasserted' \in BOOLEAN /\ activity' \in BOOLEAN
        /\ knownTimeout' \in BOOLEAN /\ complete' \in BOOLEAN /\ awake' \in BOOLEAN
        /\ written' \in BOOLEAN
    BY <1>1, Zenon DEF VendorInv, TypeOK
  <2>2. /\ cb' \in {None} \cup Internal /\ fwLeft' \in 0 .. FwCommands
        /\ packets' \in 0 .. MaxPackets
    BY <1>1, BoundAssumption DEF Internal
  <2>3. \A t \in Threads : Holds(t)' <=> mutex' = t
    BY <1>1, <1>4 DEF VendorInv, TypeOK
  <2> QED BY <1>1, <1>3, <1>5, <2>1, <2>2, <2>3 DEF VendorInv, TypeOK
<1>7. Places' /\ WakeKnown' /\ ActivityKept'
  BY <1>1, <1>3, ThreadFacts DEF Places, WakeKnown, ActivityKept, InSession
<1>8. FirmwareAwaited' /\ AwakeWhileWriting' /\ QuietBeforeSleep'
  BY <1>1, <1>3, BoundAssumption DEF FirmwareAwaited, AwakeWhileWriting, QuietBeforeSleep
<1> QED BY <1>6, <1>7, <1>8 DEF VendorInv

LEMMA FailureSteps ==
  ASSUME VendorInv, OpenFails \/ CloseFailed
  PROVE  VendorInv'
<1>1. /\ stage \in {"closed", "nolib", "nohci"} /\ stage' \in {"closed", "nolib", "nohci"}
      /\ UNCHANGED <<fwLeft, complete, watcher, pc, packet, mutex, timer, awake, written, sent,
                     packets>>
      /\ (cb' = cb \/ cb' = None)
  BY DEF OpenFails, CloseFailed, sending, power, internal, budget
<1>2. /\ deasserted' \in BOOLEAN /\ activity' \in BOOLEAN /\ knownTimeout' \in BOOLEAN
  BY Zenon DEF VendorInv, TypeOK, OpenFails, CloseFailed, power
<1>3. sessions' \in 0 .. MaxSessions /\ failures' \in 0 .. MaxFailures
  BY BoundAssumption DEF OpenFails, CloseFailed, budget, VendorInv, TypeOK
<1>4. watcher = "off" /\ \A t \in Threads : pc[t] = "idle"
  BY <1>1 DEF VendorInv, Places, InSession
<1>5. \A t \in Threads : Holds(t)' <=> Holds(t)
  BY <1>1 DEF Holds
<1>6. TypeOK'
  BY <1>1, <1>2, <1>3, <1>5 DEF VendorInv, TypeOK
<1>7. /\ Places' /\ WakeKnown' /\ ActivityKept' /\ FirmwareAwaited'
      /\ AwakeWhileWriting' /\ QuietBeforeSleep'
  BY <1>1, <1>4 DEF VendorInv, Places, WakeKnown, ActivityKept, FirmwareAwaited,
                    AwakeWhileWriting, QuietBeforeSleep, InSession, None
<1> QED BY <1>6, <1>7 DEF VendorInv

LEMMA CloseStep ==
  ASSUME VendorInv, Close
  PROVE  VendorInv'
<1>1. /\ stage = "closing" /\ pc["host"] = "idle" /\ watcher = "wait" /\ pc["watcher"] = "idle"
      /\ stage' = "closed" /\ watcher' = "off" /\ timer' = FALSE /\ sent' = <<>>
      /\ fwLeft' = 0 /\ packets' = 0 /\ awake' = FALSE
      /\ UNCHANGED <<complete, pc, packet, mutex, deasserted, activity, knownTimeout, written, cb,
                     sessions, failures>>
  BY DEF Close, Ready, sending
<1>2. \A t \in Threads : pc[t] = "idle"
  BY <1>1 DEF VendorInv, Places, Threads
<1>3. \A t \in Threads : Holds(t)' <=> Holds(t)
  BY <1>1 DEF Holds
<1>4. sent' \in Seq(Internal) /\ fwLeft' \in 0 .. FwCommands /\ packets' \in 0 .. MaxPackets
  BY <1>1, BoundAssumption
<1>5. TypeOK'
  BY <1>1, <1>3, <1>4 DEF VendorInv, TypeOK
<1>6. /\ Places' /\ WakeKnown' /\ ActivityKept' /\ FirmwareAwaited'
      /\ AwakeWhileWriting' /\ QuietBeforeSleep'
  BY <1>1, <1>2 DEF VendorInv, Places, WakeKnown, ActivityKept, FirmwareAwaited,
                    AwakeWhileWriting, QuietBeforeSleep, InSession
<1> QED BY <1>5, <1>6 DEF VendorInv

-----------------------------------------------------------------------------
(* The theorems.                                                           *)

LEMMA NextVendor == VendorInv /\ [Next]_vars => VendorInv'
<1> SUFFICES ASSUME VendorInv, [Next]_vars PROVE VendorInv'
  OBVIOUS
<1>1. CASE UNCHANGED vars
  <2>1. UNCHANGED <<stage, fwLeft, complete, watcher, pc, packet, mutex, timer, deasserted,
                    activity, knownTimeout, awake, written, cb, sent, packets, sessions, failures>>
    BY <1>1 DEF vars, object, sending, power, internal, budget
  <2>2. TypeOK'
    BY <2>1 DEF VendorInv, TypeOK, Holds
  <2>3. /\ Places' /\ WakeKnown' /\ ActivityKept' /\ FirmwareAwaited'
        /\ AwakeWhileWriting' /\ QuietBeforeSleep'
    BY <2>1 DEF VendorInv, Places, WakeKnown, ActivityKept, FirmwareAwaited,
                AwakeWhileWriting, QuietBeforeSleep, InSession
  <2> QED BY <2>2, <2>3 DEF VendorInv
<1>2. ASSUME NEW t \in Threads, Sending(t) PROVE VendorInv'
  BY <1>2, SendLockStep, AssertWakeStep, WritePacketStep DEF Sending
<1>3. CASE Watcher
  BY <1>2, <1>3, ThreadFacts, TimerSteps, TransmitSteps, OnTimeoutStep, DeassertWakeStep, EventStep
     DEF Watcher, OnFirmwareConfigured
<1>4. CASE Host
  BY <1>2, <1>4, ThreadFacts, OpenStep, FailureSteps, LpmDisableStep, CloseStep DEF Host
<1>5. ASSUME NEW t \in Senders, SendPacket(t) \/ Sending(t) PROVE VendorInv'
  BY <1>2, <1>5, ThreadFacts, SendPacketStep
<1>6. CASE Done
  BY <1>1, <1>6 DEF Done
<1> QED BY <1>1, <1>3, <1>4, <1>5, <1>6 DEF Next

LEMMA AlwaysVendor == Spec => []VendorInv
  BY InitVendor, NextVendor, PTL DEF Spec

\* wakeup_mutex_ is held by the one thread inside Send or OnTimeout.
THEOREM TypeCorrect == Spec => []TypeOK
<1>1. VendorInv => TypeOK
  BY DEF VendorInv
<1> QED BY <1>1, AlwaysVendor, PTL

\* No thread writes a packet to a controller that was told to sleep, or that
\* a session before left in another state than lpm_wake_deasserted says.
THEOREM WritesFindItAwake == Spec => []AwakeWhileWriting
<1>1. VendorInv => AwakeWhileWriting
  BY DEF VendorInv
<1> QED BY <1>1, AlwaysVendor, PTL

\* OnTimeout never puts the controller to sleep right after a packet.
THEOREM SleepsWhenQuiet == Spec => []QuietBeforeSleep
<1>1. VendorInv => QuietBeforeSleep
  BY DEF VendorInv
<1> QED BY <1>1, AlwaysVendor, PTL
=============================================================================
