------------------------- MODULE VehicleController --------------------------
(***************************************************************************)
(* class VehicleController of the vehicle-side process: the command the    *)
(* vehicle is executing, the safety state machine that decides what it may *)
(* execute, and the watchdog that stops it when the operator falls silent. *)
(*                                                                         *)
(* Every method takes m_mutex for its whole body, so a method is one       *)
(* action.  Which thread calls which method, and in what order, is left    *)
(* open here; VehicleSide composes the threads of the process.             *)
(*                                                                         *)
(* The blocks under ENABLE_CARLA, which no build file defines, are left    *)
(* out, and with them the stop a failing simulator brings about.           *)
(*                                                                         *)
(* Time is discrete.  The code only ever subtracts two clock readings, so  *)
(* each remembered instant is kept as an age, counted in time units up to  *)
(* MaxAge; MaxAge lies beyond every threshold the code compares with.      *)
(***************************************************************************)
EXTENDS Integers

CONSTANTS
  Unit,               \* the level 1.0 of a pedal or of the steering wheel
  ProtectiveBrake,    \* 0.3: where the brake fades to in SURVIVAL
  ThrottleLimit,      \* 0.2: the throttle allowed on a degraded network
  SurvivalThreshold,  \* 150 ms without a command: SURVIVAL
  WatchdogTimeout,    \* 500 ms without a command: SAFE_STOP
  DegradedRtt,        \* 150 ms
  CriticalRtt,        \* 300 ms
  StampWindow,        \* 2000 ms
  MaxTickGap,         \* longest time between two calls of watchdogTick
  MaxAge,             \* bound: ages are not counted beyond it
  MaxLead,            \* bound: how far a sender's clock may be ahead
  MaxSeq,             \* bound: sequence numbers of commands
  Sessions,           \* session identifiers of the backend
  NoSession,          \* the empty string
  Commands            \* the driving commands operators send

ASSUME LevelAssumption ==
  /\ Unit \in Nat \ {0}
  /\ ProtectiveBrake \in 0 .. Unit
  /\ ThrottleLimit \in 0 .. Unit

ASSUME TimingAssumption ==
  /\ SurvivalThreshold \in Nat
  /\ WatchdogTimeout \in Nat
  /\ SurvivalThreshold < WatchdogTimeout
  /\ DegradedRtt \in Nat /\ CriticalRtt \in Nat /\ DegradedRtt < CriticalRtt
  /\ StampWindow \in Nat
  /\ MaxTickGap \in Nat \ {0}
  /\ MaxLead \in Nat /\ MaxLead <= MaxAge
  /\ MaxAge \in Nat
  /\ WatchdogTimeout + MaxTickGap < MaxAge
  /\ StampWindow < MaxAge /\ CriticalRtt < MaxAge

ASSUME SessionAssumption == NoSession \notin Sessions

Gears == {-1, 0, 1, 2}            \* R, N, D, P

ASSUME CommandAssumption ==
  /\ MaxSeq \in Nat
  /\ Commands \subseteq [steering : Int, throttle : Int, brake : Int, gear : Int]

Filter == INSTANCE ReplayFilter
NoStamp == Filter!NoStamp

VARIABLES
  safety,         \* m_state
  current,        \* m_currentCommand
  lastValid,      \* the pedals and the wheel of m_lastValidCommand
  sinceCmd,       \* now - m_lastValidCmdTime
  remoteEnabled,  \* m_remoteControlEnabled
  activeSession,  \* m_activeSessionId
  drivingMode,    \* m_drivingMode
  sweepActive,    \* m_sweepActive
  lastSeq,        \* m_lastSeq
  stampAge,       \* now - m_lastCmdTimestamp
  rtt,            \* m_networkRtt
  sinceTick       \* time since the last watchdogTick

safetyVars   == <<safety, current, lastValid, sinceCmd>>
takeoverVars == <<remoteEnabled, activeSession>>
replayVars   == <<lastSeq, stampAge>>
vars == <<safety, current, lastValid, sinceCmd, remoteEnabled, activeSession,
          drivingMode, sweepActive, lastSeq, stampAge, rtt, sinceTick>>

Level    == 0 .. Unit
Steering == -Unit .. Unit
Age      == 0 .. MaxAge
StampAge == (-MaxLead .. MaxAge) \cup {NoStamp}
Seq      == 0 .. MaxSeq
Controls == [steering : Steering, throttle : Level, brake : Level]
Command  == [steering : Steering, throttle : Level, brake : Level, gear : Gears]

TypeOK ==
  /\ safety \in {"IDLE", "ACTIVE", "SURVIVAL", "SAFE_STOP"}
  /\ current \in Command
  /\ lastValid \in Controls
  /\ sinceCmd \in Age
  /\ remoteEnabled \in BOOLEAN
  /\ activeSession \in Sessions \cup {NoSession}
  /\ drivingMode \in {"AUTONOMOUS", "REMOTE_DRIVING"}
  /\ sweepActive \in BOOLEAN
  /\ lastSeq \in Seq
  /\ stampAge \in StampAge
  /\ rtt \in Age
  /\ sinceTick \in 0 .. MaxTickGap

-----------------------------------------------------------------------------
(* Construction: no takeover, the wheel straight, no pedal pressed, gear D. *)

Init ==
  /\ safety = "IDLE"
  /\ current = [steering |-> 0, throttle |-> 0, brake |-> 0, gear |-> 1]
  /\ lastValid = [steering |-> 0, throttle |-> 0, brake |-> 0]
  /\ sinceCmd = 0
  /\ remoteEnabled = FALSE
  /\ activeSession = NoSession
  /\ drivingMode = "AUTONOMOUS"
  /\ sweepActive = FALSE
  /\ lastSeq = 0
  /\ stampAge = NoStamp
  /\ rtt = 0
  /\ sinceTick = 0

-----------------------------------------------------------------------------
(* The levels a command is turned into.                                    *)

Clamp(x, low, high) == IF x < low THEN low ELSE IF x > high THEN high ELSE x

SafeStopCommand == [steering |-> 0, throttle |-> 0, brake |-> Unit, gear |-> 0]

NetworkCritical == rtt > CriticalRtt
NetworkDegraded == rtt > DegradedRtt /\ ~NetworkCritical

(* Out-of-range levels are clamped; the throttle further on a slow network. *)
Clamped(c) ==
  [ steering |-> Clamp(c.steering, -Unit, Unit),
    throttle |-> Clamp(c.throttle, 0, IF NetworkDegraded THEN ThrottleLimit
                                                          ELSE Unit),
    brake    |-> Clamp(c.brake, 0, Unit) ]

(* Mutant: the gear is passed on as it came.                               *)
ValidGear_Unchecked(g) == g

(* A gear that does not exist becomes D.                                   *)
ValidGear(g) == IF g \in Gears THEN g ELSE 1

InGear(controls, g) ==
  [ steering |-> controls.steering, throttle |-> controls.throttle,
    brake |-> controls.brake, gear |-> g ]

(* What remains of level x after `elapsed' of `window'.                    *)
Fade(x, elapsed, window) == (x * (window - elapsed)) \div window

(* Mutant: the brake goes to the protective level also from above it.      *)
Interpolated_FixedBrake(elapsed, window) ==
  [ throttle |-> Fade(lastValid.throttle, elapsed, window),
    steering |-> lastValid.steering,
    brake    |-> ProtectiveBrake
                   - Fade(ProtectiveBrake - lastValid.brake, elapsed, window) ]

(* SURVIVAL: the throttle fades to zero, the wheel is held for half of the *)
(* window and then straightened, the brake rises to the protective level.  *)
Interpolated(elapsed, window) ==
  [ throttle |-> Fade(lastValid.throttle, elapsed, window),
    steering |-> IF 2 * elapsed < window
                   THEN lastValid.steering
                   ELSE Fade(lastValid.steering, 2 * elapsed - window, window),
    brake    |-> LET target == IF lastValid.brake > ProtectiveBrake
                                 THEN lastValid.brake ELSE ProtectiveBrake
                 IN  target - Fade(target - lastValid.brake, elapsed, window) ]

-----------------------------------------------------------------------------
(* The methods.                                                            *)

RejectCommand(seq, age) ==
  /\ ~Filter!Accepts(seq, age, lastSeq, stampAge)
  /\ lastSeq' = Filter!MarkAfterReject(seq, lastSeq, stampAge)
  /\ UNCHANGED <<safetyVars, takeoverVars, drivingMode, sweepActive, stampAge,
                 rtt, sinceTick>>

(* Mutant: the degraded network limits what SURVIVAL fades from, not what  *)
(* the vehicle executes.                                                   *)
AcceptCommand_LimitBackupOnly(c, seq, age) ==
  /\ Filter!Accepts(seq, age, lastSeq, stampAge)
  /\ lastSeq' = IF seq > 0 THEN seq ELSE lastSeq
  /\ stampAge' = IF seq > 0 THEN age ELSE stampAge
  /\ sinceCmd' = 0
  /\ safety' = "ACTIVE"
  /\ lastValid' = Clamped(c)
  /\ current' = [InGear(Clamped(c), ValidGear(c.gear))
                   EXCEPT !.throttle = Clamp(c.throttle, 0, Unit)]
  /\ UNCHANGED <<takeoverVars, drivingMode, sweepActive, rtt, sinceTick>>

(* Accepting a command restarts the watchdog and leaves whatever safety     *)
(* state the vehicle was in.  On a critical network the vehicle brakes      *)
(* instead, and the command is not the one SURVIVAL will fade from.         *)
AcceptCommand(c, seq, age) ==
  /\ Filter!Accepts(seq, age, lastSeq, stampAge)
  /\ lastSeq' = IF seq > 0 THEN seq ELSE lastSeq
  /\ stampAge' = IF seq > 0 THEN age ELSE stampAge
  /\ sinceCmd' = 0
  /\ safety' = "ACTIVE"
  /\ \/ /\ NetworkCritical
        /\ current' = SafeStopCommand
        /\ UNCHANGED lastValid
     \/ /\ ~NetworkCritical
        /\ lastValid' = Clamped(c)
        /\ current' = InGear(Clamped(c), ValidGear(c.gear))
  /\ UNCHANGED <<takeoverVars, drivingMode, sweepActive, rtt, sinceTick>>

processCommand(c, seq, age) ==
  RejectCommand(seq, age) \/ AcceptCommand(c, seq, age)

EnterSurvival ==
  /\ SurvivalThreshold < sinceCmd /\ sinceCmd <= WatchdogTimeout
  /\ safety \notin {"SAFE_STOP", "IDLE"}
  /\ safety' = "SURVIVAL"
  /\ current' = InGear(Interpolated(sinceCmd - SurvivalThreshold,
                                    WatchdogTimeout - SurvivalThreshold),
                       current.gear)
  /\ UNCHANGED takeoverVars

(* Mutant: the stop leaves the gear engaged.                               *)
EnterSafeStop_InGear ==
  /\ sinceCmd > WatchdogTimeout
  /\ safety # "SAFE_STOP"
  /\ safety' = "SAFE_STOP"
  /\ current' = [SafeStopCommand EXCEPT !.gear = current.gear]
  /\ remoteEnabled' = FALSE
  /\ activeSession' = NoSession

(* The timeout stops the vehicle and releases the takeover.                 *)
EnterSafeStop ==
  /\ sinceCmd > WatchdogTimeout
  /\ safety # "SAFE_STOP"
  /\ safety' = "SAFE_STOP"
  /\ current' = SafeStopCommand
  /\ remoteEnabled' = FALSE
  /\ activeSession' = NoSession

(* Mutant: IDLE is exempt from the timeout, as it is from SURVIVAL.        *)
StayQuiet_WhenIdle ==
  /\ \/ sinceCmd <= SurvivalThreshold
     \/ safety \in {"SAFE_STOP", "IDLE"}
  /\ UNCHANGED <<safety, current, takeoverVars>>

(* No threshold is passed, or the state is exempt from it.                 *)
StayQuiet ==
  /\ \/ sinceCmd <= SurvivalThreshold
     \/ safety = "SAFE_STOP"
     \/ safety = "IDLE" /\ sinceCmd <= WatchdogTimeout
  /\ UNCHANGED <<safety, current, takeoverVars>>

watchdogTick ==
  /\ EnterSurvival \/ EnterSafeStop \/ StayQuiet
  /\ sinceTick' = 0
  /\ UNCHANGED <<lastValid, sinceCmd, drivingMode, sweepActive, replayVars, rtt>>

(* The destructor stops the vehicle on an orderly shutdown.                 *)
emergencyStop ==
  /\ safety' = "SAFE_STOP"
  /\ current' = SafeStopCommand
  /\ UNCHANGED <<lastValid, sinceCmd, takeoverVars, drivingMode, sweepActive,
                 replayVars, rtt, sinceTick>>

(* A takeover is refused while another session holds the vehicle, a release *)
(* when it names a session other than the holder.                           *)
setRemoteControlEnabled(enabled, session) ==
  /\ IF enabled
       THEN IF activeSession \notin {NoSession, session}
              THEN UNCHANGED takeoverVars
              ELSE /\ remoteEnabled' = TRUE
                   /\ activeSession' = session
       ELSE IF activeSession # NoSession /\ session \notin {NoSession, activeSession}
              THEN UNCHANGED takeoverVars
              ELSE /\ remoteEnabled' = FALSE
                   /\ activeSession' = NoSession
  /\ UNCHANGED <<safetyVars, drivingMode, sweepActive, replayVars, rtt, sinceTick>>

setDrivingMode(mode) ==
  /\ drivingMode' = mode
  /\ UNCHANGED <<safetyVars, takeoverVars, sweepActive, replayVars, rtt, sinceTick>>

setNetworkQuality(delay) ==
  /\ rtt' = delay
  /\ UNCHANGED <<safetyVars, takeoverVars, drivingMode, sweepActive, replayVars,
                 sinceTick>>

setSweepActive(active) ==
  /\ sweepActive' = active
  /\ UNCHANGED <<safetyVars, takeoverVars, drivingMode, replayVars, rtt, sinceTick>>

-----------------------------------------------------------------------------
(* The process is started again: nothing of the controller is persistent.   *)

restart ==
  /\ safety' = "IDLE"
  /\ current' = [steering |-> 0, throttle |-> 0, brake |-> 0, gear |-> 1]
  /\ lastValid' = [steering |-> 0, throttle |-> 0, brake |-> 0]
  /\ sinceCmd' = 0
  /\ remoteEnabled' = FALSE
  /\ activeSession' = NoSession
  /\ drivingMode' = "AUTONOMOUS"
  /\ sweepActive' = FALSE
  /\ lastSeq' = 0
  /\ stampAge' = NoStamp
  /\ rtt' = 0
  /\ sinceTick' = 0

(* One unit of time passes.  The main loop calls watchdogTick at least once *)
(* in every MaxTickGap units.                                               *)

Older(age) == IF age = NoStamp THEN NoStamp
              ELSE IF age < MaxAge THEN age + 1 ELSE age

PassTime ==
  /\ sinceTick < MaxTickGap
  /\ sinceTick' = sinceTick + 1
  /\ sinceCmd' = Older(sinceCmd)
  /\ stampAge' = Older(stampAge)
  /\ UNCHANGED <<safety, current, lastValid, takeoverVars, drivingMode,
                 sweepActive, lastSeq, rtt>>

Next ==
  \/ \E c \in Commands, seq \in Seq, age \in StampAge : processCommand(c, seq, age)
  \/ watchdogTick
  \/ emergencyStop
  \/ restart
  \/ \E enabled \in BOOLEAN, session \in Sessions \cup {NoSession} :
        setRemoteControlEnabled(enabled, session)
  \/ \E mode \in {"AUTONOMOUS", "REMOTE_DRIVING"} : setDrivingMode(mode)
  \/ \E delay \in Age : setNetworkQuality(delay)
  \/ \E active \in BOOLEAN : setSweepActive(active)
  \/ PassTime

Spec == Init /\ [][Next]_vars

-----------------------------------------------------------------------------
(* Properties.                                                             *)

(* In SAFE_STOP the vehicle executes exactly the stop command: whatever ran *)
(* before (a fading SURVIVAL command, a command on a critical network), no  *)
(* method leaves another command in force while reporting SAFE_STOP.        *)
SafeStopIsFullBrake == safety = "SAFE_STOP" => current = SafeStopCommand

(* The dead-man promise of watchdogTick: once the operator has been silent  *)
(* for the timeout plus the longest gap between two ticks, the vehicle is   *)
(* in SAFE_STOP, in whatever state the silence began.                       *)
SilenceStopsVehicle ==
  sinceCmd > WatchdogTimeout + MaxTickGap => safety = "SAFE_STOP"

(* While SURVIVAL lasts, every further tick eases the vehicle: the throttle *)
(* never rises again and the brake is never released (the comments of       *)
(* applyInterpolatedControlLocked).                                         *)
SurvivalOnlyEases ==
  [][safety = "SURVIVAL" /\ watchdogTick =>
       /\ current'.throttle <= current.throttle
       /\ current'.brake >= current.brake]_vars

=============================================================================
