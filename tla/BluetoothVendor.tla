--------------------------- MODULE BluetoothVendor ---------------------------
(***************************************************************************)
(* The m86 Bluetooth vendor interface (hardware/meizu/m86/bluetooth,       *)
(* vendor_interface.cc): how it brings the controller's firmware up and    *)
(* how it lets the controller sleep.                                       *)
(*                                                                         *)
(* Threads of the stack open, send and close; the watcher thread delivers  *)
(* the controller's events and the idle timeout. Every packet goes through *)
(* Send, which wakes the controller. The vendor library sends commands of  *)
(* its own through transmit_cb and is called back with the answer, if the  *)
(* event matches the one command that internal_command remembers.          *)
(* The library, the controller and the watcher are external.               *)
(***************************************************************************)
EXTENDS Naturals, Sequences

CONSTANTS Senders,      \* threads of the stack that send packets
          FwCommands,   \* commands the library needs to configure the firmware
          MaxPackets,   \* bound: packets of the stack in a session
          MaxSessions,  \* bound: calls of Initialize
          MaxFailures   \* bound: calls of Open that fail

ASSUME SenderAssumption == Senders \cap {"host", "watcher", "none"} = {}
ASSUME BoundAssumption  == FwCommands \in Nat \ {0} /\ MaxPackets \in Nat
                           /\ MaxSessions \in Nat /\ MaxFailures \in Nat

Threads  == Senders \cup {"host", "watcher"}   \* host: Initialize and Shutdown
None     == "none"
Internal == {"fw", "sco", "lpm", "off"}   \* commands of the library

VARIABLES
  stage,      \* the VendorInterface: "closed", "open", "nolib", "nohci", "closing"
  watcher,    \* where the watcher thread is
  timer,      \* it has an idle timeout
  mutex,      \* holder of wakeup_mutex_, or None
  pc, packet, \* where a thread is in Send; what it sends
  deasserted, activity, knownTimeout, \* lpm_wake_deasserted, recent_activity_flag,
              \* lpm_timeout_ms # 0: they outlive a session
  cb,         \* internal_command: the command whose answer is awaited, or None
  fwLeft,     \* firmware commands still to be answered
  complete,   \* initialize_complete_cb_ was called
  awake,      \* the wake state the library was told
  sent,       \* the controller's input, commands it has not answered
  written,    \* history: a packet was written since OnTimeout ran
  packets, sessions, failures   \* still to come

object   == <<stage, fwLeft, complete>>
sending  == <<pc, packet, mutex>>
power    == <<timer, deasserted, activity, knownTimeout, awake, written>>
internal == <<cb, sent>>
budget   == <<packets, sessions, failures>>
vars     == <<object, watcher, sending, power, internal, budget>>

Init ==
  /\ stage = "closed" /\ watcher = "off" /\ timer = FALSE /\ mutex = None
  /\ pc = [t \in Threads |-> "idle"] /\ packet = [t \in Threads |-> None]
  /\ deasserted = FALSE /\ activity = FALSE /\ knownTimeout = FALSE
  /\ cb = None /\ fwLeft = 0 /\ complete = FALSE /\ awake = FALSE /\ sent = <<>>
  /\ written = FALSE
  /\ packets = 0 /\ sessions = MaxSessions /\ failures = MaxFailures

-----------------------------------------------------------------------------
(* Send, in the thread t.                                                  *)

Call(t, p) == /\ pc[t] = "idle" /\ pc' = [pc EXCEPT ![t] = "lock"]
              /\ packet' = [packet EXCEPT ![t] = p]

(* transmit_cb: the command the library sends is the one whose answer is   *)
(* awaited from now on, whatever was awaited before.                       *)
Transmit(t, c) == Call(t, c) /\ cb' = c

SendPacket(t) ==
  /\ t \in Senders /\ stage = "open" /\ complete /\ packets > 0
  /\ Call(t, "data") /\ packets' = packets - 1
  /\ UNCHANGED <<object, watcher, mutex, power, internal, sessions, failures>>

(* Mutant: wakeup_mutex_ is not taken.                                     *)
SendUnlocked(t) ==
  /\ pc[t] = "lock" /\ mutex' = t
  /\ activity' = TRUE
  /\ IF deasserted
     THEN /\ timer' = knownTimeout /\ deasserted' = FALSE
          /\ pc' = [pc EXCEPT ![t] = "wake"]
     ELSE UNCHANGED <<timer, deasserted>> /\ pc' = [pc EXCEPT ![t] = "write"]
  /\ UNCHANGED <<object, watcher, packet, knownTimeout, awake, written, internal, budget>>

(* Mutant: waking the controller does not restart the timer.               *)
SendNoTimer(t) ==
  /\ pc[t] = "lock" /\ mutex = None /\ mutex' = t
  /\ activity' = TRUE /\ deasserted' = FALSE
  /\ pc' = [pc EXCEPT ![t] = IF deasserted THEN "wake" ELSE "write"]
  /\ UNCHANGED <<object, watcher, packet, timer, knownTimeout, awake, written, internal,
                 budget>>

(* A timeout of 0, before the library was asked for it, is none.           *)
SendLock(t) ==
  /\ pc[t] = "lock" /\ mutex = None /\ mutex' = t
  /\ activity' = TRUE
  /\ IF deasserted
     THEN /\ timer' = knownTimeout /\ deasserted' = FALSE
          /\ pc' = [pc EXCEPT ![t] = "wake"]
     ELSE UNCHANGED <<timer, deasserted>> /\ pc' = [pc EXCEPT ![t] = "write"]
  /\ UNCHANGED <<object, watcher, packet, knownTimeout, awake, written, internal, budget>>

AssertWake(t) ==
  /\ pc[t] = "wake" /\ pc' = [pc EXCEPT ![t] = "write"]
  /\ awake' = TRUE
  /\ UNCHANGED <<object, watcher, packet, mutex, timer, deasserted, activity, knownTimeout,
                 written, internal, budget>>

WritePacket(t) ==
  /\ pc[t] = "write" /\ pc' = [pc EXCEPT ![t] = "idle"] /\ mutex' = None
  /\ sent' = IF packet[t] \in Internal THEN Append(sent, packet[t]) ELSE sent
  /\ packet' = [packet EXCEPT ![t] = None]
  /\ written' = TRUE
  /\ UNCHANGED <<object, watcher, timer, deasserted, activity, knownTimeout, awake, cb,
                 budget>>

Sending(t) == SendLock(t) \/ AssertWake(t) \/ WritePacket(t)

-----------------------------------------------------------------------------
(* The watcher thread: OnTimeout.                                          *)

Ready == watcher = "wait" /\ pc["watcher"] = "idle"

Expire ==
  /\ Ready /\ timer /\ watcher' = "expired"
  /\ UNCHANGED <<object, sending, power, internal, budget>>

(* Mutant: a packet of this period does not keep the controller awake.     *)
OnTimeoutAlways ==
  /\ watcher = "expired" /\ mutex = None /\ mutex' = "watcher"
  /\ deasserted' = TRUE /\ watcher' = "sleep"
  /\ UNCHANGED <<object, pc, packet, timer, activity, knownTimeout, awake, written, internal,
                 budget>>

OnTimeout ==
  /\ watcher = "expired" /\ mutex = None
  /\ IF activity
     THEN /\ activity' = FALSE /\ written' = FALSE
          /\ watcher' = "wait" /\ UNCHANGED <<mutex, deasserted>>
     ELSE /\ deasserted' = TRUE /\ mutex' = "watcher"
          /\ watcher' = "sleep" /\ UNCHANGED <<activity, written>>
  /\ UNCHANGED <<object, pc, packet, timer, knownTimeout, awake, internal, budget>>

DeassertWake ==
  /\ watcher = "sleep" /\ watcher' = "wait" /\ mutex' = None
  /\ awake' = FALSE /\ timer' = FALSE /\ activity' = FALSE /\ written' = FALSE
  /\ UNCHANGED <<object, pc, packet, deasserted, knownTimeout, internal, budget>>

-----------------------------------------------------------------------------
(* The watcher thread: HandleIncomingEvent and, after the last firmware    *)
(* command, OnFirmwareConfigured. A step of it that sends waits for Send.  *)

(* The library's callback of a firmware command sends the next, or calls   *)
(* firmware_config_cb; the callbacks of the other commands do nothing.     *)
Callback(c) ==
  IF c # "fw" THEN UNCHANGED <<fwLeft, watcher, pc, packet>>
  ELSE /\ fwLeft' = fwLeft - 1
       /\ IF fwLeft = 1 THEN watcher' = "configured" /\ UNCHANGED <<pc, packet>>
          ELSE Call("watcher", "fw") /\ UNCHANGED watcher

(* Mutant: the callback is forgotten after it was called.                  *)
EventForgetsLate ==
  /\ Ready /\ sent # <<>> /\ sent' = Tail(sent)
  /\ cb' = IF cb = Head(sent) THEN None ELSE cb
  /\ IF cb = Head(sent) THEN Callback(cb) ELSE UNCHANGED <<fwLeft, watcher, pc, packet>>
  /\ UNCHANGED <<stage, complete, mutex, power, budget>>

(* The command is forgotten before the callback sends another. An answer   *)
(* that is not the awaited one goes to the stack.                          *)
HandleIncomingEvent ==
  /\ Ready /\ sent # <<>> /\ sent' = Tail(sent)
  /\ IF cb = Head(sent)
     THEN Callback(cb) /\ cb' = IF cb = "fw" /\ fwLeft > 1 THEN "fw" ELSE None
     ELSE UNCHANGED <<fwLeft, watcher, pc, packet, cb>>
  /\ UNCHANGED <<stage, complete, mutex, power, budget>>

Configuring(from, to) == watcher = from /\ pc["watcher"] = "idle" /\ watcher' = to

InitializeComplete ==
  /\ Configuring("configured", "sco") /\ complete' = TRUE
  /\ UNCHANGED <<stage, fwLeft, sending, power, internal, budget>>

ScoConfig ==
  /\ Configuring("sco", "timeout") /\ Transmit("watcher", "sco")
  /\ UNCHANGED <<object, mutex, power, sent, budget>>

GetIdleTimeout ==
  /\ Configuring("timeout", "lpm") /\ knownTimeout' = TRUE
  /\ UNCHANGED <<object, sending, timer, deasserted, activity, awake, written, internal,
                 budget>>

LpmEnable ==
  /\ Configuring("lpm", "watchdog") /\ Transmit("watcher", "lpm")
  /\ UNCHANGED <<object, mutex, power, sent, budget>>

StartLowPowerWatchdog ==
  /\ Configuring("watchdog", "wait") /\ timer' = knownTimeout
  /\ UNCHANGED <<object, sending, deasserted, activity, knownTimeout, awake, written,
                 internal, budget>>

OnFirmwareConfigured == InitializeComplete \/ ScoConfig \/ GetIdleTimeout \/ LpmEnable
                        \/ StartLowPowerWatchdog

-----------------------------------------------------------------------------
(* Initialize and Open; a failure leaves the object.                       *)

(* Mutant: the wake state of the session before is kept.                   *)
OpenKeepsWakeState ==
  /\ stage = "closed" /\ sessions > 0 /\ sessions' = sessions - 1
  /\ stage' = "open" /\ watcher' = "wait" /\ timer' = FALSE
  /\ awake' = FALSE /\ written' = FALSE
  /\ fwLeft' = FwCommands /\ complete' = FALSE /\ packets' = MaxPackets
  /\ Transmit("host", "fw")
  /\ UNCHANGED <<mutex, deasserted, activity, knownTimeout, sent, failures>>

Open ==
  /\ stage = "closed" /\ sessions > 0 /\ sessions' = sessions - 1
  /\ stage' = "open" /\ watcher' = "wait" /\ timer' = FALSE
  /\ deasserted' = TRUE /\ awake' = FALSE /\ written' = FALSE
  /\ fwLeft' = FwCommands /\ complete' = FALSE /\ packets' = MaxPackets
  /\ Transmit("host", "fw")
  /\ UNCHANGED <<mutex, activity, knownTimeout, sent, failures>>

OpenFails ==
  /\ stage = "closed" /\ sessions > 0 /\ sessions' = sessions - 1
  /\ failures > 0 /\ failures' = failures - 1
  /\ stage' \in {"nolib", "nohci"}
  /\ UNCHANGED <<fwLeft, complete, watcher, sending, power, internal, packets>>

(* Shutdown and Close. A command that the library sends to disable LPM has *)
(* no transport to go to when Open failed: the service crashes and is      *)
(* started again.                                                          *)
CloseFailed ==
  /\ stage \in {"nolib", "nohci"} /\ stage' = "closed"
  /\ \/ UNCHANGED <<deasserted, activity, knownTimeout, cb>>
     \/ /\ stage = "nohci" /\ cb' = None
        /\ deasserted' = FALSE /\ activity' = FALSE /\ knownTimeout' = FALSE
  /\ UNCHANGED <<fwLeft, complete, watcher, sending, timer, awake, written, sent, budget>>

LpmDisable ==
  /\ stage = "open" /\ \A t \in Senders : pc[t] = "idle"
  /\ Transmit("host", "off") /\ stage' = "closing"
  /\ UNCHANGED <<fwLeft, complete, watcher, mutex, power, sent, budget>>

(* StopWatchingFileDescriptors waits for the watcher thread.               *)
Close ==
  /\ stage = "closing" /\ pc["host"] = "idle" /\ Ready
  /\ stage' = "closed" /\ watcher' = "off" /\ timer' = FALSE
  /\ sent' = <<>> /\ fwLeft' = 0 /\ packets' = 0 /\ awake' = FALSE
  /\ UNCHANGED <<complete, sending, deasserted, activity, knownTimeout, written, cb,
                 sessions, failures>>

-----------------------------------------------------------------------------

Watcher == Expire \/ OnTimeout \/ DeassertWake \/ HandleIncomingEvent \/ OnFirmwareConfigured
           \/ Sending("watcher")
Host    == Open \/ OpenFails \/ CloseFailed \/ LpmDisable \/ Close \/ Sending("host")

Done == stage = "closed" /\ sessions = 0 /\ UNCHANGED vars

Next == Watcher \/ Host \/ Done \/ \E t \in Senders : SendPacket(t) \/ Sending(t)

Spec == Init /\ [][Next]_vars

(* The watcher thread runs, the controller answers, timeouts expire, and a *)
(* call of Send or Close that began goes on. Nothing makes the stack act.  *)
Fairness ==
  /\ WF_vars(Watcher) /\ WF_vars(Close)
  /\ \A t \in Senders \cup {"host"} : WF_vars(Sending(t))

FairSpec == Spec /\ Fairness

-----------------------------------------------------------------------------
(* Properties.                                                             *)

Holds(t) == pc[t] \in {"wake", "write"} \/ (t = "watcher" /\ watcher = "sleep")

(* The mutex has the holder that is inside Send or OnTimeout.              *)
TypeOK ==
  /\ stage \in {"closed", "open", "nolib", "nohci", "closing"}
  /\ watcher \in {"off", "wait", "expired", "sleep", "configured", "sco", "timeout", "lpm",
                  "watchdog"}
  /\ timer \in BOOLEAN /\ deasserted \in BOOLEAN /\ activity \in BOOLEAN
  /\ knownTimeout \in BOOLEAN /\ complete \in BOOLEAN /\ awake \in BOOLEAN
  /\ written \in BOOLEAN
  /\ mutex \in {None} \cup Threads
  /\ \A t \in Threads : Holds(t) <=> mutex = t
  /\ pc \in [Threads -> {"idle", "lock", "wake", "write"}]
  /\ packet \in [Threads -> {None, "data"} \cup Internal]
  /\ cb \in {None} \cup Internal /\ sent \in Seq(Internal) /\ fwLeft \in 0 .. FwCommands
  /\ packets \in 0 .. MaxPackets /\ sessions \in 0 .. MaxSessions
  /\ failures \in 0 .. MaxFailures

(* A packet is written to a controller that was told to be awake, whatever *)
(* thread sends it and whatever session before left behind.                *)
AwakeWhileWriting == \A t \in Threads : pc[t] = "write" => awake

(* The controller is not put to sleep in a period in which a packet was    *)
(* written, even when the timeout had expired before the packet came       *)
(* (recent_activity_flag).                                                 *)
QuietBeforeSleep == watcher = "sleep" => ~written

(* The stack is told that initialization is complete, unless it closes     *)
(* before: every firmware command's answer finds its callback.             *)
InitCompletes == (stage = "open" /\ ~complete) ~> (complete \/ stage # "open")

(* A controller that was woken sleeps again once no packet comes.          *)
SleepsEventually == awake ~> (~awake \/ stage # "open")
=============================================================================
