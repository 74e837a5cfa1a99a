---------------------------- MODULE ClientSafety ----------------------------
(***************************************************************************)
(* The client while a vehicle is driven: the emergency latch together with *)
(* the stop and the circuit breaker of SafetyMonitorService.  The checks   *)
(* and the control tick share the safety thread; the operator's actions    *)
(* run on the UI thread, and a critical error stops from any thread.       *)
(*                                                                         *)
(* The monitor is never given the control service (no one calls            *)
(* setControlService), so its stop reaches the vehicle only through the    *)
(* breaker, and clearEmergency leaves the latch as it is.                  *)
(***************************************************************************)
EXTENDS ControlLatch

VARIABLES
  emergencyActive,  \* m_emergencyActive
  allSystemsGo,     \* m_allSystemsGo: the breaker is closed
  ok,               \* what checkCircuitBreaker has found so far
  mqttConnected     \* of the vehicle's status

monitorVars == <<emergencyActive, allSystemsGo, ok, mqttConnected>>
clientVars == <<latest, device, polled, sample, lastPoll, tickAt, input, uiAt,
                copy, sent, stopped, stale, emergencyActive, allSystemsGo, ok,
                mqttConnected>>

ClientTypeOK ==
  /\ LatchTypeOK
  /\ emergencyActive \in BOOLEAN /\ allSystemsGo \in BOOLEAN
  /\ mqttConnected \in BOOLEAN
  /\ ok \in Flag
  /\ ok # Nothing => tickAt = "wait"

(* A session has begun: start() of both services.                          *)
ClientInit ==
  /\ LatchInit
  /\ emergencyActive = FALSE /\ allSystemsGo = TRUE
  /\ ok = Nothing
  /\ mqttConnected = TRUE

-----------------------------------------------------------------------------
(* The monitor.                                                            *)

(* A check of latency, of the UI thread or of the control thread fails, or *)
(* a component reports a critical error.                                   *)
TriggerEmergencyStop ==
  /\ emergencyActive' = TRUE
  /\ UNCHANGED <<latchVars, allSystemsGo, ok, mqttConnected>>

(* Mutant: the monitor's own stop does not open the breaker.               *)
BreakerRead_LinkOnly ==
  /\ tickAt = "wait" /\ ok = Nothing
  /\ ok' = mqttConnected
  /\ UNCHANGED <<latchVars, emergencyActive, allSystemsGo, mqttConnected>>

BreakerRead ==
  /\ tickAt = "wait" /\ ok = Nothing
  /\ ok' = (mqttConnected /\ ~emergencyActive)
  /\ UNCHANGED <<latchVars, emergencyActive, allSystemsGo, mqttConnected>>

(* Mutant: a breaker that has opened stays open.                           *)
BreakerWrite_Never ==
  /\ ok # Nothing
  /\ allSystemsGo' = (ok /\ allSystemsGo)
  /\ ok' = Nothing
  /\ UNCHANGED <<latchVars, emergencyActive, mqttConnected>>

BreakerWrite ==
  /\ ok # Nothing
  /\ allSystemsGo' = ok
  /\ ok' = Nothing
  /\ UNCHANGED <<latchVars, emergencyActive, mqttConnected>>

LinkChanges ==
  /\ mqttConnected' = ~mqttConnected
  /\ UNCHANGED <<latchVars, emergencyActive, allSystemsGo, ok>>

-----------------------------------------------------------------------------
(* clearEmergency, called by the recovery button or queued by a setGear    *)
(* that released the latch: the stop is reset first, then the breaker is   *)
(* closed.                                                                 *)

ClearStop ==
  /\ uiAt = "free"
  /\ uiAt' = "clear"
  /\ emergencyActive' = FALSE
  /\ UNCHANGED <<latest, device, samplerVars, tickVars, copy, sent, stopped,
                 stale, allSystemsGo, ok, mqttConnected>>

CloseBreaker ==
  /\ uiAt = "clear"
  /\ uiAt' = "free"
  /\ allSystemsGo' = TRUE
  /\ UNCHANGED <<latest, device, samplerVars, tickVars, copy, sent, stopped,
                 stale, emergencyActive, ok, mqttConnected>>

(* requestEmergencyStop returns at once while the monitor's stop is active.*)
UiBegin ==
  /\ \/ UiLoad("stop") /\ ~emergencyActive
     \/ UiLoad("gear")
     \/ UiLoad("drive")
  /\ UNCHANGED monitorVars

UiEnd == (UiStop \/ UiGear \/ UiDrive) /\ UNCHANGED monitorVars

(* Mutant: the tick has a thread of its own.                               *)
Tick_OwnThread ==
  /\ TickStart \/ TickMerge \/ TickStore \/ TickCheck
       \/ TickSend(emergencyActive, allSystemsGo)
  /\ UNCHANGED monitorVars

Tick ==
  /\ ok = Nothing
  /\ TickStart \/ TickMerge \/ TickStore \/ TickCheck
       \/ TickSend(emergencyActive, allSystemsGo)
  /\ UNCHANGED monitorVars

Sample == (Poll \/ Push) /\ UNCHANGED monitorVars

ClientNext ==
  \/ Sample \/ Tick \/ UiBegin \/ UiEnd
  \/ TriggerEmergencyStop \/ BreakerRead \/ BreakerWrite
  \/ ClearStop \/ CloseBreaker
  \/ LinkChanges

(* Both timers of the safety thread keep firing, and take turns.           *)
ClientFairness ==
  /\ SF_clientVars(Tick)
  /\ SF_clientVars(BreakerRead) /\ WF_clientVars(BreakerWrite)

ClientSpec == ClientInit /\ [][ClientNext]_clientVars /\ ClientFairness

-----------------------------------------------------------------------------
(* While just one of the two stops holds, the operator's latch or the      *)
(* monitor's, the vehicle is told to brake again and again, so that a lost *)
(* command does not matter.                                                *)
BrakesWhileStopped ==
  <>[](latest # emergencyActive) => []<>(sent = "brake")

(* Once neither stop holds and the link is up, driving commands flow again.*)
DrivesWhenCleared ==
  <>[](~latest /\ ~emergencyActive /\ mqttConnected) => []<>(sent = "drive")
=============================================================================
