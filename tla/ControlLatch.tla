---------------------------- MODULE ControlLatch ----------------------------
(***************************************************************************)
(* The client's emergency latch: the flag emergencyStop of the input that  *)
(* VehicleControlService keeps (m_latestInput).  Three threads share it:   *)
(*                                                                         *)
(*   - the UI thread stops, changes gear or drives: each loads the input,  *)
(*     changes it and stores it back whole;                                *)
(*   - the control worker merges the newest sample of the input device     *)
(*     into it, also by a load and a store, and decides what to send;      *)
(*   - the sampler polls the device, which was told the flag by the UI.    *)
(*                                                                         *)
(* Every load and every store is atomic, and nothing ties them together.   *)
(* The rest of the input (pedals, gear, target speed) is left out.         *)
(***************************************************************************)
EXTENDS Naturals

CONSTANT Nothing   \* no sample, no copy

ASSUME NothingAssumption == Nothing \notin BOOLEAN

VARIABLES
  latest,    \* m_latestInput.emergencyStop
  device,    \* the device's own flag, as syncState last set it
  polled,    \* what the sampler has polled and not pushed yet
  sample,    \* the newest entry of the sampler's queue
  lastPoll,  \* the worker's m_lastPollEmg
  tickAt,    \* where the control tick stands
  input,     \* its input
  uiAt,      \* where the UI thread stands
  copy,      \* the flag in the input the UI thread has loaded
  sent,      \* what this tick, or the last one, has sent
  stopped,   \* the operator has stopped and not changed gear since
  stale      \* the copies of the flag taken before it last rose

latchVars == <<latest, device, polled, sample, lastPoll, tickAt, input, uiAt,
               copy, sent, stopped, stale>>
samplerVars == <<polled, sample>>
tickVars == <<lastPoll, tickAt, input>>
uiVars == <<uiAt, copy>>

Copies == {"poll", "sample", "tick", "ui"}
Flag == BOOLEAN \cup {Nothing}

LatchTypeOK ==
  /\ latest \in BOOLEAN /\ device \in BOOLEAN /\ lastPoll \in BOOLEAN
  /\ polled \in Flag /\ sample \in Flag /\ input \in Flag /\ copy \in Flag
  /\ tickAt \in {"wait", "merge", "store", "check", "send"}
  /\ uiAt \in {"free", "stop", "gear", "drive", "clear"}
  /\ sent \in {"nothing", "drive", "neutral", "brake"}
  /\ stopped \in BOOLEAN
  /\ stale \subseteq Copies

LatchInit ==
  /\ latest = FALSE /\ device = FALSE /\ lastPoll = FALSE
  /\ polled = Nothing /\ sample = Nothing /\ input = Nothing /\ copy = Nothing
  /\ tickAt = "wait" /\ uiAt = "free"
  /\ sent = "nothing"
  /\ stopped = FALSE /\ stale = {}

-----------------------------------------------------------------------------
(* The sampler's thread.                                                   *)

(* Copy y is taken of copy x.                                              *)
Taken(y, x) == stale' = IF x \in stale THEN stale \cup {y} ELSE stale \ {y}
Fresh(y) == stale' = stale \ {y}

Poll ==
  /\ polled = Nothing
  /\ polled' = device /\ Fresh("poll")
  /\ UNCHANGED <<latest, device, sample, tickVars, uiVars, sent, stopped>>

Push ==
  /\ polled # Nothing
  /\ sample' = polled /\ Taken("sample", "poll")
  /\ polled' = Nothing
  /\ UNCHANGED <<latest, device, tickVars, uiVars, sent, stopped>>

(* syncDeviceState: the device is told, and the queue drained.             *)
SyncDevice(flag) ==
  /\ device' = flag
  /\ sample' = Nothing
  /\ UNCHANGED polled

-----------------------------------------------------------------------------
(* The control worker.                                                     *)

(* The queue is drained to its newest entry; without one the stored input  *)
(* is used as it is.                                                       *)
TickStart ==
  /\ tickAt = "wait"
  /\ sent' = "nothing"
  /\ sample' = Nothing
  /\ IF sample = Nothing
       THEN input' = latest /\ tickAt' = "check" /\ Fresh("tick")
       ELSE input' = sample /\ tickAt' = "merge" /\ Taken("tick", "sample")
  /\ UNCHANGED <<latest, device, polled, lastPoll, uiVars, stopped>>

(* A sample that repeats the last one keeps what is stored; one that       *)
(* changes counts as the operator's hand on the device.                    *)
TickMerge ==
  /\ tickAt = "merge"
  /\ IF input = lastPoll THEN input' = latest /\ Fresh("tick")
                         ELSE UNCHANGED <<input, stale>>
  /\ lastPoll' = input
  /\ tickAt' = "store"
  /\ UNCHANGED <<latest, device, samplerVars, uiVars, sent, stopped>>

TickStore ==
  /\ tickAt = "store"
  /\ latest' = input
  /\ stale' = IF input /\ ~latest THEN Copies ELSE stale
  /\ tickAt' = "check"
  /\ UNCHANGED <<device, samplerVars, lastPoll, input, uiVars, sent, stopped>>

(* A stop is looked up once more, in case it was cleared meanwhile.        *)
TickCheck ==
  /\ tickAt = "check"
  /\ input' = (input /\ latest)
  /\ tickAt' = "send"
  /\ UNCHANGED <<latest, device, samplerVars, lastPoll, uiVars, sent, stopped,
                 stale>>

Latch == latest' = TRUE /\ stale' = Copies

(* A stop that is still latched is requested again, which sends nothing    *)
(* while the monitor's own stop is active.                                 *)
TickSend(emergencyActive, allSystemsGo) ==
  /\ tickAt = "send"
  /\ tickAt' = "wait" /\ input' = Nothing
  /\ \/ /\ input /\ emergencyActive
        /\ UNCHANGED <<latest, device, samplerVars, stale, sent>>
     \/ /\ input /\ ~emergencyActive
        /\ Latch /\ SyncDevice(TRUE)
        /\ sent' = "brake"
     \/ /\ ~input
        /\ sent' = IF allSystemsGo THEN "drive"
                   ELSE IF emergencyActive THEN "brake" ELSE "neutral"
        /\ UNCHANGED <<latest, device, samplerVars, stale>>
  /\ UNCHANGED <<lastPoll, uiVars, stopped>>

-----------------------------------------------------------------------------
(* The UI thread.                                                          *)

(* requestEmergencyStop, setGear and sendDriveCommand begin alike.         *)
UiLoad(operation) ==
  /\ uiAt = "free"
  /\ uiAt' = operation
  /\ copy' = latest /\ Fresh("ui")
  /\ UNCHANGED <<latest, device, samplerVars, tickVars, sent, stopped>>

(* Mutant: the device is not told of the stop.                             *)
UiStop_DeviceUntold ==
  /\ uiAt = "stop"
  /\ Latch
  /\ stopped' = TRUE
  /\ uiAt' = "free" /\ copy' = Nothing
  /\ UNCHANGED <<device, samplerVars, tickVars, sent>>

(* The stop is stored and the device told.  The full brake this sends at   *)
(* once is not the tick's, and not counted in sent.                        *)
UiStop ==
  /\ uiAt = "stop"
  /\ Latch /\ SyncDevice(TRUE)
  /\ stopped' = TRUE
  /\ uiAt' = "free" /\ copy' = Nothing
  /\ UNCHANGED <<tickVars, sent>>

(* A change of gear also releases a latched stop.  Without one, the gear   *)
(* that is in already changes nothing.                                     *)
UiGear ==
  /\ uiAt = "gear"
  /\ \/ latest' = FALSE /\ SyncDevice(FALSE) /\ stopped' = FALSE
     \/ ~copy /\ UNCHANGED <<latest, device, samplerVars, stopped>>
  /\ uiAt' = "free" /\ copy' = Nothing
  /\ UNCHANGED <<tickVars, sent, stale>>

UiDrive ==
  /\ uiAt = "drive"
  /\ latest' = copy
  /\ stale' = IF copy /\ ~latest THEN Copies ELSE stale
  /\ uiAt' = "free" /\ copy' = Nothing
  /\ UNCHANGED <<device, samplerVars, tickVars, sent, stopped>>

-----------------------------------------------------------------------------
(* A stop of the operator is lost only by a copy of the flag that a thread *)
(* took before the stop and stores after it.  Nothing that reads the flag, *)
(* the device or the queue afterwards takes the stop back.                 *)
StopLostOnlyByStaleCopy ==
  [][stopped /\ stopped' /\ latest /\ ~latest'
       => \/ TickStore /\ "tick" \in stale
          \/ UiDrive /\ "ui" \in stale]_latchVars
=============================================================================
