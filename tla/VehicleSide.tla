---------------------------- MODULE VehicleSide -----------------------------
(***************************************************************************)
(* The vehicle-side process: one VehicleController shared by two threads.  *)
(*                                                                         *)
(*   - the callback thread of the MQTT client, which takes one message at  *)
(*     a time through MqttHandler::processControlCommand and               *)
(*     handle_control_json, calling the controller several times;          *)
(*   - the main loop, which calls watchdogTick about once a millisecond    *)
(*     but is held up while it restarts the video streams.                 *)
(*                                                                         *)
(* The broker and the operators are an open environment: a message may be  *)
(* lost, repeated, overtaken or late, so any message an operator may have  *)
(* sent can be delivered whenever the callback thread is free.             *)
(***************************************************************************)
EXTENDS VehicleController

CONSTANTS
  Messages,   \* bound: the messages operators send
  Delays,     \* bound: the ages a message may have on arrival
  LoopGap,    \* longest pass of the main loop that restarts no stream
  Nothing     \* a local variable that is out of scope

VARIABLES
  mqttAt,    \* where the callback thread stands
  msg,       \* the message it is handling
  msgAge,    \* now - timestampMs of that message
  snapshot,  \* the command getCurrentCommand returned to it
  mainAt     \* where the main loop stands

mqttVars == <<mqttAt, msg, msgAge, snapshot>>
sideVars == <<safety, current, lastValid, sinceCmd, remoteEnabled,
              activeSession, drivingMode, sweepActive, lastSeq, stampAge, rtt,
              sinceTick, mqttAt, msg, msgAge, snapshot, mainAt>>

(* The messages of topic vehicle/control.  Every client names its session; *)
(* drive stands for every type without a branch of its own in the handler, *)
(* inert for those that call nothing of the controller that changes state: *)
(* target_speed, mode, start_stream and stop_stream.                       *)
Takeover  == [type : {"remote_control"}, enable : BOOLEAN, session : Sessions]
Drive     == [type : {"drive"}, cmd : Commands, emergency : BOOLEAN, seq : Seq]
Gear      == [type : {"gear"}, value : Int]
Brake     == [type : {"brake"}, value : Level]
Emergency == [type : {"emergency_stop"}, enable : BOOLEAN]
Sweep     == [type : {"sweep"}, active : BOOLEAN]
Inert     == [type : {"inert"}]

ASSUME SideAssumption ==
  /\ \A m \in Messages :
       m \in Takeover \/ m \in Drive \/ m \in Gear \/ m \in Brake
         \/ m \in Emergency \/ m \in Sweep \/ m \in Inert
  /\ Nothing \notin Messages
  /\ Delays \subseteq StampAge
  /\ LoopGap \in 1 .. MaxTickGap

MqttPlaces == {"idle", "takeover", "readback", "to_remote", "to_auto",
               "check", "snapshot", "process", "sweep"}

SideTypeOK ==
  /\ TypeOK
  /\ mqttAt \in MqttPlaces
  /\ msg \in Messages \cup {Nothing}
  /\ msg = Nothing <=> mqttAt = "idle"
  /\ msgAge \in StampAge
  /\ snapshot \in Command \cup {Nothing}
  /\ mainAt \in {"loop", "restore", "stopped"}

SideInit ==
  /\ Init
  /\ mqttAt = "idle"
  /\ msg = Nothing
  /\ msgAge = NoStamp
  /\ snapshot = Nothing
  /\ mainAt = "loop"

-----------------------------------------------------------------------------
(* The callback thread.                                                    *)

Done ==
  /\ mqttAt' = "idle"
  /\ msg' = Nothing /\ msgAge' = NoStamp /\ snapshot' = Nothing

Continue(place) ==
  /\ mqttAt' = place
  /\ UNCHANGED <<msg, msgAge, snapshot>>

(* Every stamped message, also one that will be refused, is taken as a     *)
(* measurement of the network's delay.  Only drive uses the stamp again.   *)
Receive(m, age) ==
  /\ mqttAt = "idle" /\ mainAt # "stopped"
  /\ mqttAt' = IF m.type = "remote_control" THEN "takeover" ELSE "check"
  /\ msg' = m
  /\ msgAge' = IF m.type = "drive" THEN age ELSE NoStamp
  /\ IF age = NoStamp THEN UNCHANGED vars
                      ELSE setNetworkQuality(Filter!Distance(age))
  /\ UNCHANGED <<snapshot, mainAt>>

(* remote_control: three calls.  The session of the message is parsed only *)
(* further down, so the controller is handed an empty one.                 *)
SetTakeover ==
  /\ mqttAt = "takeover"
  /\ setRemoteControlEnabled(msg.enable, NoSession)
  /\ Continue("readback")
  /\ UNCHANGED mainAt

ReadBack ==
  /\ mqttAt = "readback"
  /\ IF remoteEnabled
       THEN Continue("to_remote")
       ELSE IF ~msg.enable THEN Continue("to_auto") ELSE Done
  /\ UNCHANGED <<vars, mainAt>>

SetMode ==
  /\ \/ mqttAt = "to_remote" /\ setDrivingMode("REMOTE_DRIVING")
     \/ mqttAt = "to_auto" /\ setDrivingMode("AUTONOMOUS")
  /\ Done
  /\ UNCHANGED mainAt

(* Mutant: the check reads the driving mode instead of the takeover.       *)
Check_ByMode ==
  /\ mqttAt = "check"
  /\ IF drivingMode = "REMOTE_DRIVING" /\ msg.type # "inert"
       THEN Continue(CASE msg.type = "drive" -> "process"
                       [] msg.type = "sweep" -> "sweep"
                       [] OTHER              -> "snapshot")
       ELSE Done
  /\ UNCHANGED <<vars, mainAt>>

(* Every other message is ignored unless the takeover is enabled now.  The *)
(* session lock checked next compares the empty session and never refuses. *)
Check ==
  /\ mqttAt = "check"
  /\ IF remoteEnabled /\ msg.type # "inert"
       THEN Continue(CASE msg.type = "drive" -> "process"
                       [] msg.type = "sweep" -> "sweep"
                       [] OTHER              -> "snapshot")
       ELSE Done
  /\ UNCHANGED <<vars, mainAt>>

(* gear, brake and emergency_stop change one field of the current command, *)
(* which they read in a call of its own.                                   *)
TakeSnapshot ==
  /\ mqttAt = "snapshot"
  /\ snapshot' = current
  /\ mqttAt' = "process"
  /\ UNCHANGED <<vars, msg, msgAge, mainAt>>

Requested ==
  CASE msg.type = "gear"  -> [snapshot EXCEPT !.gear = msg.value]
    [] msg.type = "brake" -> [snapshot EXCEPT !.brake = msg.value]
    [] msg.type = "emergency_stop" ->
         [snapshot EXCEPT !.brake = IF msg.enable THEN Unit ELSE 0]
    [] msg.type = "drive" ->
         IF msg.emergency THEN [msg.cmd EXCEPT !.throttle = 0, !.brake = Unit]
                          ELSE msg.cmd

(* Only drive hands a number to the replay check; zero switches it off.    *)
Process ==
  /\ mqttAt = "process"
  /\ processCommand(Requested, IF msg.type = "drive" THEN msg.seq ELSE 0, msgAge)
  /\ Done
  /\ UNCHANGED mainAt

SetSweep ==
  /\ mqttAt = "sweep"
  /\ setSweepActive(msg.active)
  /\ Done
  /\ UNCHANGED mainAt

MqttStep == \/ SetTakeover \/ ReadBack \/ SetMode
            \/ Check \/ TakeSnapshot \/ Process \/ SetSweep

-----------------------------------------------------------------------------
(* The main loop.  check_and_restore_streaming runs after the tick and, if *)
(* a stream has died, holds the loop until the push script is up again.    *)

MainTick ==
  /\ mainAt = "loop"
  /\ watchdogTick
  /\ mainAt' \in {"loop", "restore"}
  /\ UNCHANGED mqttVars

MainRestored ==
  /\ mainAt = "restore"
  /\ mainAt' = "loop"
  /\ UNCHANGED <<vars, mqttVars>>

(* SIGINT: the loop ends, the client is disconnected, and the controller's *)
(* destructor stops the vehicle.                                           *)
Shutdown ==
  /\ mainAt = "loop" /\ mqttAt = "idle"
  /\ emergencyStop
  /\ mainAt' = "stopped"
  /\ UNCHANGED mqttVars

(* A crash, or the start that follows a shutdown.                          *)
Restart ==
  /\ restart
  /\ Done
  /\ mainAt' = "loop"

-----------------------------------------------------------------------------
Time ==
  /\ mainAt = "loop" => sinceTick < LoopGap
  /\ PassTime
  /\ msgAge' = Older(msgAge)
  /\ UNCHANGED <<mqttAt, msg, snapshot, mainAt>>

SideNext ==
  \/ \E m \in Messages, age \in Delays : Receive(m, age)
  \/ MqttStep
  \/ MainTick
  \/ MainRestored
  \/ Shutdown
  \/ Restart
  \/ Time

SideSpec == SideInit /\ [][SideNext]_sideVars

(* The main loop is scheduled, the push script returns, and the clock goes *)
(* on.  Nothing is assumed about the callback thread, about messages,      *)
(* shutdowns or restarts.                                                  *)
FairSideSpec ==
  /\ SideSpec
  /\ WF_sideVars(Time)
  /\ WF_sideVars(MainTick)
  /\ WF_sideVars(MainRestored)

-----------------------------------------------------------------------------
(* Properties.                                                             *)

Driven == safety \in {"ACTIVE", "SURVIVAL"}

(* The two threads together implement the dead-man switch: whatever the    *)
(* callback thread had read before the watchdog stopped the vehicle, it    *)
(* leaves IDLE or SAFE_STOP only through a command that passed the takeover*)
(* check, is stopped again no later than the longest gap between two ticks *)
(* after the timeout, and loses the takeover only by a release or silence. *)
Promise == INSTANCE DeadMan WITH
  Timeout    <- WatchdogTimeout,
  Grace      <- MaxTickGap,
  MaxSilence <- MaxAge,
  driven     <- Driven,
  granted    <- remoteEnabled,
  admitted   <- mqttAt \in {"snapshot", "process", "sweep"},
  silence    <- sinceCmd

ImplementsDeadMan == Promise!DeadManSpec

(* A gear, brake or emergency message rewrites one field of a command read *)
(* earlier.  Whatever the watchdog did in between, what it writes back is  *)
(* never the fading command of a SURVIVAL episode with more throttle than  *)
(* the operator last asked for.                                            *)
NoThrottleFromStaleRead ==
  [][Process /\ msg.type # "drive" /\ safety' = "ACTIVE" =>
       current'.throttle <= lastValid.throttle]_sideVars

(* Once the operators fall silent for good the vehicle comes to SAFE_STOP  *)
(* and stays there.                                                        *)
StopsWhenSilent == []<>(sinceCmd = 0) \/ <>[](safety = "SAFE_STOP")

=============================================================================
