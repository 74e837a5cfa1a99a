---------------------------- MODULE VehicleProofs ----------------------------
(***************************************************************************)
(* Proofs about the vehicle: first what holds of VehicleController for     *)
(* every level, threshold and period, every set of commands and sessions,  *)
(* and every order of method calls; then, of VehicleSide, that the         *)
(* callback thread and the main loop together keep the promise of DeadMan, *)
(* for every timeout and gap, every set of messages and every order of     *)
(* their steps.                                                            *)
(***************************************************************************)
EXTENDS VehicleSide, TLAPS

-----------------------------------------------------------------------------
(* Levels.                                                                 *)

LEMMA DivBetween ==
  ASSUME NEW w \in Nat \ {0}, NEW y \in Int, NEW low \in Int, NEW high \in Int,
         low * w <= y, y <= high * w
  PROVE  (y \div w) \in low .. high
BY SMTT(30)

LEMMA ProductBetween ==
  ASSUME NEW x \in Nat, NEW w \in Nat, NEW k \in 0 .. w
  PROVE  0 <= x * k /\ x * k <= x * w
BY SMTT(30)

(* A fading level stays between itself and zero, on either side of zero.   *)
LEMMA FadeUp ==
  ASSUME NEW x \in Nat, NEW w \in Nat \ {0}, NEW e \in 0 .. w
  PROVE  Fade(x, e, w) \in 0 .. x
<1> DEFINE k == w - e
<1>1. k \in 0 .. w /\ x * k \in Int
  OBVIOUS
<1>2. 0 <= x * k /\ x * k <= x * w
  BY <1>1, ProductBetween
<1>3. ((x * k) \div w) \in 0 .. x
  BY <1>1, <1>2, DivBetween
<1> QED  BY <1>3 DEF Fade

LEMMA FadeDown ==
  ASSUME NEW x \in Int, x <= 0, NEW w \in Nat \ {0}, NEW e \in 0 .. w
  PROVE  Fade(x, e, w) \in x .. 0
<1> DEFINE k == w - e
           y == -x
<1>1. k \in 0 .. w /\ x * k \in Int /\ y \in Nat
  OBVIOUS
<1>2. 0 <= y * k /\ y * k <= y * w
  BY <1>1, ProductBetween
<1>3. x * k = -(y * k) /\ x * w = -(y * w)
  BY <1>1, SMTT(30)
<1>4. x * w <= x * k /\ x * k <= 0 * w
  BY <1>1, <1>2, <1>3
<1>5. ((x * k) \div w) \in x .. 0
  BY <1>1, <1>4, DivBetween
<1> QED  BY <1>5 DEF Fade

(* A command as it was parsed, with its levels and its gear unchecked.     *)
Parsed == [steering : Int, throttle : Int, brake : Int, gear : Int]

LEMMA ClampedControls ==
  ASSUME NEW c \in Parsed
  PROVE  Clamped(c) \in Controls
<1>1. /\ Unit \in Nat /\ ThrottleLimit \in 0 .. Unit
      /\ c.steering \in Int /\ c.throttle \in Int /\ c.brake \in Int
  BY LevelAssumption DEF Parsed
<1> DEFINE top == IF NetworkDegraded THEN ThrottleLimit ELSE Unit
<1>2. top \in 0 .. Unit
  BY <1>1
<1>3. Clamp(c.throttle, 0, top) \in 0 .. top
  BY <1>1, <1>2 DEF Clamp
<1>4. Clamp(c.steering, -Unit, Unit) \in Steering
  BY <1>1 DEF Clamp, Steering
<1>5. Clamp(c.brake, 0, Unit) \in Level
  BY <1>1 DEF Clamp, Level
<1>6. Clamp(c.throttle, 0, top) \in Level
  BY <1>1, <1>2, <1>3 DEF Level
<1> QED  BY <1>4, <1>5, <1>6 DEF Clamped, Controls

LEMMA InterpolatedControls ==
  ASSUME lastValid \in Controls, NEW w \in Nat \ {0}, NEW e \in 0 .. w
  PROVE  Interpolated(e, w) \in Controls
<1>1. /\ Unit \in Nat /\ ProtectiveBrake \in 0 .. Unit
      /\ lastValid.throttle \in 0 .. Unit /\ lastValid.brake \in 0 .. Unit
      /\ lastValid.steering \in -Unit .. Unit
  BY LevelAssumption DEF Controls, Level, Steering
<1>2. Fade(lastValid.throttle, e, w) \in Level
  <2>1. Fade(lastValid.throttle, e, w) \in 0 .. lastValid.throttle
    BY <1>1, FadeUp
  <2> QED  BY <1>1, <2>1 DEF Level
<1>3. 2 * e < w \/ 2 * e - w \in 0 .. w
  OBVIOUS
<1>4. ASSUME NEW d \in 0 .. w PROVE Fade(lastValid.steering, d, w) \in Steering
  <2>1. CASE lastValid.steering >= 0
    <3>1. Fade(lastValid.steering, d, w) \in 0 .. lastValid.steering
      BY <1>1, <2>1, FadeUp
    <3> QED  BY <1>1, <3>1 DEF Steering
  <2>2. CASE lastValid.steering <= 0
    <3>1. Fade(lastValid.steering, d, w) \in lastValid.steering .. 0
      BY <1>1, <2>2, FadeDown
    <3> QED  BY <1>1, <3>1 DEF Steering
  <2> QED  BY <1>1, <2>1, <2>2
<1> DEFINE target == IF lastValid.brake > ProtectiveBrake
                       THEN lastValid.brake ELSE ProtectiveBrake
           rise == Fade(target - lastValid.brake, e, w)
<1>5. target \in 0 .. Unit /\ target - lastValid.brake \in Nat
  BY <1>1
<1>6. rise \in 0 .. (target - lastValid.brake)
  BY <1>5, FadeUp
<1>7. target - rise \in Level
  BY <1>1, <1>5, <1>6 DEF Level
<1>8. (IF 2 * e < w THEN lastValid.steering
                    ELSE Fade(lastValid.steering, 2 * e - w, w)) \in Steering
  BY <1>1, <1>3, <1>4 DEF Steering
<1> QED  BY <1>2, <1>7, <1>8 DEF Interpolated, Controls

LEMMA InGearCommand ==
  ASSUME NEW controls \in Controls, NEW g \in Gears
  PROVE  InGear(controls, g) \in Command
BY DEF InGear, Controls, Command

LEMMA SafeStopIsCommand == SafeStopCommand \in Command
BY LevelAssumption DEF SafeStopCommand, Command, Steering, Level, Gears

-----------------------------------------------------------------------------
(* The inductive invariant.  SilenceStopsVehicle does not carry itself: it *)
(* needs to know how much of the silence the last tick has already seen.   *)

SilenceSeen ==
  safety # "SAFE_STOP" => sinceCmd <= WatchdogTimeout + sinceTick

IInv == TypeOK /\ SafeStopIsFullBrake /\ SilenceSeen

LEMMA InitHolds == Init => IInv
<1> SUFFICES ASSUME Init PROVE IInv
  OBVIOUS
<1>1. /\ Unit \in Nat /\ WatchdogTimeout \in Nat /\ MaxTickGap \in Nat /\ MaxAge \in Nat
      /\ MaxLead \in Nat
  BY LevelAssumption, TimingAssumption
<1>2. remoteEnabled \in BOOLEAN /\ sweepActive \in BOOLEAN
  BY Zenon DEF Init
<1>3. current \in Command /\ lastValid \in Controls
  BY <1>1 DEF Init, Command, Controls, Steering, Level, Gears
<1>4. sinceCmd \in Age /\ rtt \in Age /\ sinceTick \in 0 .. MaxTickGap
  BY <1>1 DEF Init, Age
<1>5. lastSeq \in Seq
  BY CommandAssumption DEF Init, Seq
<1>6. TypeOK
  BY <1>2, <1>3, <1>4, <1>5 DEF Init, TypeOK, StampAge
<1> QED  BY <1>1, <1>6 DEF Init, IInv, SafeStopIsFullBrake, SilenceSeen

LEMMA RejectKeeps ==
  ASSUME IInv, NEW seq \in Seq, NEW age \in StampAge, RejectCommand(seq, age)
  PROVE  IInv'
<1>1. lastSeq' \in Seq
  BY DEF RejectCommand, IInv, TypeOK, Filter!MarkAfterReject
<1> QED
  BY <1>1 DEF IInv, TypeOK, SafeStopIsFullBrake, SilenceSeen, RejectCommand,
              safetyVars, takeoverVars

LEMMA AcceptKeeps ==
  ASSUME IInv, NEW c \in Parsed, NEW seq \in Seq, NEW age \in StampAge,
         AcceptCommand(c, seq, age)
  PROVE  IInv'
<1>1. current' \in Command /\ lastValid' \in Controls
  <2>1. CASE NetworkCritical /\ current' = SafeStopCommand /\ UNCHANGED lastValid
    BY <2>1, SafeStopIsCommand DEF IInv, TypeOK
  <2>2. CASE lastValid' = Clamped(c)
             /\ current' = InGear(Clamped(c), ValidGear(c.gear))
    <3>1. ValidGear(c.gear) \in Gears
      BY DEF ValidGear, Gears
    <3>2. Clamped(c) \in Controls
      BY ClampedControls
    <3> QED  BY <2>2, <3>1, <3>2, InGearCommand
  <2> QED  BY <2>1, <2>2 DEF AcceptCommand
<1>2. lastSeq' \in Seq /\ stampAge' \in StampAge
  BY DEF AcceptCommand, IInv, TypeOK
<1>3. sinceCmd' = 0 /\ sinceCmd' \in Age /\ safety' = "ACTIVE"
  BY TimingAssumption DEF AcceptCommand, Age
<1>4. UNCHANGED <<remoteEnabled, activeSession, drivingMode, sweepActive, rtt, sinceTick>>
  BY DEF AcceptCommand, takeoverVars
<1>5. TypeOK'
  BY <1>1, <1>2, <1>3, <1>4 DEF IInv, TypeOK
<1>6. SilenceSeen'
  <2>1. WatchdogTimeout \in Nat /\ MaxTickGap \in Nat /\ sinceTick \in 0 .. MaxTickGap
    BY TimingAssumption DEF IInv, TypeOK
  <2>2. 0 <= WatchdogTimeout + sinceTick'
    BY <1>4, <2>1
  <2> QED  BY <1>3, <2>2 DEF SilenceSeen
<1> QED  BY <1>3, <1>5, <1>6 DEF IInv, SafeStopIsFullBrake

LEMMA TickKeeps ==
  ASSUME IInv, watchdogTick
  PROVE  IInv'
<1>1. /\ SurvivalThreshold \in Nat /\ WatchdogTimeout \in Nat
      /\ SurvivalThreshold < WatchdogTimeout /\ MaxTickGap \in Nat
      /\ sinceCmd \in Int /\ sinceTick \in Int
  BY TimingAssumption DEF IInv, TypeOK, Age
<1>2. /\ sinceTick' = 0
      /\ UNCHANGED <<lastValid, sinceCmd, drivingMode, sweepActive, lastSeq,
                     stampAge, rtt>>
  BY DEF watchdogTick, replayVars
<1>3. CASE EnterSurvival
  <2> DEFINE w == WatchdogTimeout - SurvivalThreshold
             e == sinceCmd - SurvivalThreshold
  <2>1. sinceCmd <= WatchdogTimeout /\ w \in Nat \ {0} /\ e \in 0 .. w
    BY <1>1, <1>3 DEF EnterSurvival
  <2>2. Interpolated(e, w) \in Controls /\ current.gear \in Gears
    BY <2>1, InterpolatedControls DEF IInv, TypeOK, Command
  <2>3. current' \in Command /\ safety' = "SURVIVAL"
        /\ UNCHANGED <<remoteEnabled, activeSession>>
    BY <1>3, <2>2, InGearCommand DEF EnterSurvival, takeoverVars
  <2>4. TypeOK'
    BY <1>1, <1>2, <2>3 DEF IInv, TypeOK
  <2> QED  BY <1>1, <1>2, <2>1, <2>3, <2>4 DEF IInv, SafeStopIsFullBrake, SilenceSeen
<1>4. CASE EnterSafeStop
  <2>1. current' \in Command
    BY <1>4, SafeStopIsCommand DEF EnterSafeStop
  <2>2. remoteEnabled' \in BOOLEAN
    BY <1>4, Zenon DEF EnterSafeStop
  <2>3. TypeOK'
    BY <1>1, <1>2, <1>4, <2>1, <2>2 DEF IInv, TypeOK, EnterSafeStop
  <2> QED  BY <1>4, <2>3 DEF EnterSafeStop, IInv, SafeStopIsFullBrake, SilenceSeen
<1>5. CASE StayQuiet
  <2>1. UNCHANGED <<safety, current, remoteEnabled, activeSession>>
    BY <1>5 DEF StayQuiet, takeoverVars
  <2>2. safety = "SAFE_STOP" \/ sinceCmd <= WatchdogTimeout
    BY <1>1, <1>5 DEF StayQuiet
  <2>3. TypeOK'
    BY <1>1, <1>2, <2>1 DEF IInv, TypeOK
  <2> QED  BY <1>1, <1>2, <2>1, <2>2, <2>3 DEF IInv, SafeStopIsFullBrake, SilenceSeen
<1> QED  BY <1>3, <1>4, <1>5 DEF watchdogTick

LEMMA EmergencyKeeps ==
  ASSUME IInv, emergencyStop
  PROVE  IInv'
BY SafeStopIsCommand
   DEF IInv, TypeOK, SafeStopIsFullBrake, SilenceSeen, emergencyStop,
       takeoverVars, replayVars

LEMMA TakeoverKeeps ==
  ASSUME IInv, NEW enabled \in BOOLEAN, NEW session \in Sessions \cup {NoSession},
         setRemoteControlEnabled(enabled, session)
  PROVE  IInv'
<1>1. remoteEnabled' \in BOOLEAN
  BY Zenon DEF setRemoteControlEnabled, takeoverVars, IInv, TypeOK
<1>2. activeSession' \in Sessions \cup {NoSession}
  BY DEF setRemoteControlEnabled, takeoverVars, IInv, TypeOK
<1> QED
  BY <1>1, <1>2 DEF setRemoteControlEnabled, IInv, TypeOK, SafeStopIsFullBrake,
                    SilenceSeen, safetyVars, replayVars

LEMMA SettersKeep ==
  ASSUME IInv,
         \/ \E mode \in {"AUTONOMOUS", "REMOTE_DRIVING"} : setDrivingMode(mode)
         \/ \E delay \in Age : setNetworkQuality(delay)
         \/ \E active \in BOOLEAN : setSweepActive(active)
  PROVE  IInv'
BY DEF setDrivingMode, setNetworkQuality, setSweepActive, IInv, TypeOK,
       SafeStopIsFullBrake, SilenceSeen, safetyVars, takeoverVars, replayVars

LEMMA RestartKeeps ==
  ASSUME restart
  PROVE  IInv'
<1>1. /\ Unit \in Nat /\ WatchdogTimeout \in Nat /\ MaxTickGap \in Nat /\ MaxAge \in Nat
      /\ MaxLead \in Nat
  BY LevelAssumption, TimingAssumption
<1>2. remoteEnabled' \in BOOLEAN /\ sweepActive' \in BOOLEAN
  BY Zenon DEF restart
<1>3. current' \in Command /\ lastValid' \in Controls
  BY <1>1 DEF restart, Command, Controls, Steering, Level, Gears
<1>4. sinceCmd' \in Age /\ rtt' \in Age /\ sinceTick' \in 0 .. MaxTickGap
  BY <1>1 DEF restart, Age
<1>5. lastSeq' \in Seq
  BY CommandAssumption DEF restart, Seq
<1>6. TypeOK'
  BY <1>2, <1>3, <1>4, <1>5 DEF restart, TypeOK, StampAge
<1> QED  BY <1>1, <1>6 DEF restart, IInv, SafeStopIsFullBrake, SilenceSeen

LEMMA TimeKeeps ==
  ASSUME IInv, PassTime
  PROVE  IInv'
<1>1. /\ MaxAge \in Nat /\ MaxLead \in Nat /\ MaxTickGap \in Nat /\ WatchdogTimeout \in Nat
      /\ sinceCmd \in Age /\ stampAge \in StampAge /\ sinceTick \in 0 .. MaxTickGap
  BY TimingAssumption DEF IInv, TypeOK
<1>2. /\ sinceTick' = sinceTick + 1 /\ sinceTick' \in 0 .. MaxTickGap
      /\ sinceCmd' = Older(sinceCmd) /\ stampAge' = Older(stampAge)
      /\ UNCHANGED <<safety, current, lastValid, remoteEnabled, activeSession,
                     drivingMode, sweepActive, lastSeq, rtt>>
  BY <1>1 DEF PassTime, takeoverVars
<1>3. sinceCmd' \in Age /\ sinceCmd' <= sinceCmd + 1
  BY <1>1, <1>2 DEF Older, Age, NoStamp, Filter!NoStamp
<1>4. stampAge' \in StampAge
  BY <1>1, <1>2 DEF Older, StampAge, NoStamp, Filter!NoStamp
<1>5. TypeOK'
  BY <1>2, <1>3, <1>4 DEF IInv, TypeOK
<1>6. SilenceSeen'
  BY <1>1, <1>2, <1>3 DEF IInv, SilenceSeen, Age
<1> QED  BY <1>2, <1>5, <1>6 DEF IInv, SafeStopIsFullBrake

LEMMA StepHolds == IInv /\ [Next]_vars => IInv'
<1> SUFFICES ASSUME IInv, [Next]_vars PROVE IInv'
  OBVIOUS
<1>1. ASSUME NEW c \in Commands, NEW seq \in Seq, NEW age \in StampAge,
             processCommand(c, seq, age)
      PROVE  IInv'
  <2>1. c \in Parsed
    BY CommandAssumption DEF Parsed
  <2> QED  BY <1>1, <2>1, RejectKeeps, AcceptKeeps DEF processCommand
<1>2. CASE watchdogTick  BY <1>2, TickKeeps
<1>3. CASE emergencyStop  BY <1>3, EmergencyKeeps
<1>4. CASE restart  BY <1>4, RestartKeeps
<1>5. ASSUME NEW enabled \in BOOLEAN, NEW session \in Sessions \cup {NoSession},
             setRemoteControlEnabled(enabled, session)
      PROVE  IInv'
  BY <1>5, TakeoverKeeps
<1>6. CASE PassTime  BY <1>6, TimeKeeps
<1>7. CASE UNCHANGED vars
  BY <1>7 DEF vars, IInv, TypeOK, SafeStopIsFullBrake, SilenceSeen
<1> QED  BY <1>1, <1>2, <1>3, <1>4, <1>5, <1>6, <1>7, SettersKeep DEF Next

-----------------------------------------------------------------------------
(* Every variable of the controller stays in its range; the levels the     *)
(* vehicle executes are levels its pedals and wheel can take.              *)
THEOREM TypeCorrect == Spec => []TypeOK
<1>1. IInv => TypeOK
  BY DEF IInv
<1> QED  BY <1>1, InitHolds, StepHolds, PTL DEF Spec

(* In SAFE_STOP the vehicle executes exactly the stop command, whatever    *)
(* state it was stopped in (applySafeStopLocked).                          *)
THEOREM SafeStopBrakes == Spec => []SafeStopIsFullBrake
<1>1. IInv => SafeStopIsFullBrake
  BY DEF IInv
<1> QED  BY <1>1, InitHolds, StepHolds, PTL DEF Spec

(* The dead-man switch of watchdogTick: silence longer than the timeout and*)
(* the longest gap between two ticks finds the vehicle in SAFE_STOP.       *)
THEOREM DeadManStops == Spec => []SilenceStopsVehicle
<1>1. IInv => SilenceStopsVehicle
  BY TimingAssumption DEF IInv, TypeOK, SilenceSeen, SilenceStopsVehicle, Age
<1> QED  BY <1>1, InitHolds, StepHolds, PTL DEF Spec

-----------------------------------------------------------------------------
(* SURVIVAL.                                                               *)

(* The later in the window, the less is left of a level.                   *)
LEMMA FadeFalls ==
  ASSUME NEW x \in Nat, NEW w \in Nat \ {0}, NEW d \in 0 .. w, NEW e \in 0 .. w, d <= e
  PROVE  Fade(x, e, w) <= Fade(x, d, w) /\ Fade(x, e, w) \in Int /\ Fade(x, d, w) \in Int
<1> DEFINE a == x * (w - e)
           b == x * (w - d)
<1>1. a \in Int /\ b \in Int
  OBVIOUS
<1>2. a <= b
  <2>1. b = a + x * (e - d)
    BY SMTT(30)
  <2>2. e - d \in 0 .. w
    OBVIOUS
  <2>3. x * (e - d) >= 0
    BY <2>2, ProductBetween
  <2> HIDE DEF a, b
  <2>4. x * (e - d) \in Int
    BY <2>2
  <2> QED  BY <1>1, <2>1, <2>3, <2>4
<1> HIDE DEF a, b
<1>3. (a \div w) <= (b \div w) /\ (a \div w) \in Int /\ (b \div w) \in Int
  BY <1>1, <1>2, SMTT(30)
<1> QED  BY <1>3 DEF Fade, a, b

Window == WatchdogTimeout - SurvivalThreshold
Target == IF lastValid.brake > ProtectiveBrake THEN lastValid.brake ELSE ProtectiveBrake

(* What the next ticks of SURVIVAL may command is no less gentle than the  *)
(* command in force.                                                       *)
StillToEase ==
  safety = "SURVIVAL" =>
    \A e \in 0 .. Window :
      e >= sinceCmd - SurvivalThreshold =>
        /\ Fade(lastValid.throttle, e, Window) <= current.throttle
        /\ Target - Fade(Target - lastValid.brake, e, Window) >= current.brake

LEMMA Levels ==
  ASSUME IInv
  PROVE  /\ lastValid.throttle \in Nat /\ lastValid.brake \in Nat
         /\ Target \in Nat /\ Target - lastValid.brake \in Nat
         /\ current.throttle \in 0 .. Unit /\ current.brake \in 0 .. Unit
         /\ sinceCmd \in Nat /\ SurvivalThreshold \in Nat /\ WatchdogTimeout \in Nat
         /\ Window \in Nat \ {0}
BY LevelAssumption, TimingAssumption
   DEF IInv, TypeOK, Controls, Command, Level, Age, Target, Window

(* What a tick of SURVIVAL commands.                                       *)
LEMMA FadingCommand ==
  ASSUME IInv, EnterSurvival
  PROVE  /\ sinceCmd - SurvivalThreshold \in 0 .. Window
         /\ current'.throttle
              = Fade(lastValid.throttle, sinceCmd - SurvivalThreshold, Window)
         /\ current'.brake
              = Target - Fade(Target - lastValid.brake, sinceCmd - SurvivalThreshold, Window)
BY Levels DEF EnterSurvival, Interpolated, InGear, Window, Target

LEMMA TickStillToEase ==
  ASSUME IInv, EnterSurvival, UNCHANGED <<lastValid, sinceCmd>>
  PROVE  StillToEase'
<1> DEFINE now == sinceCmd - SurvivalThreshold
<1>1. SUFFICES ASSUME NEW e \in 0 .. Window, e >= now
               PROVE  /\ Fade(lastValid.throttle, e, Window) <= current'.throttle
                      /\ Target - Fade(Target - lastValid.brake, e, Window) >= current'.brake
  BY DEF StillToEase, Target, Window
<1>2. now \in 0 .. Window
  BY FadingCommand
<1>3. /\ Fade(lastValid.throttle, e, Window) <= Fade(lastValid.throttle, now, Window)
  BY <1>1, <1>2, Levels, FadeFalls
<1>4. /\ Fade(Target - lastValid.brake, e, Window) <= Fade(Target - lastValid.brake, now, Window)
      /\ Fade(Target - lastValid.brake, e, Window) \in Int
      /\ Fade(Target - lastValid.brake, now, Window) \in Int
  BY <1>1, <1>2, Levels, FadeFalls
<1> QED  BY <1>3, <1>4, Levels, FadingCommand

LEMMA StepStillToEase == IInv /\ StillToEase /\ [Next]_vars => StillToEase'
<1> SUFFICES ASSUME IInv, StillToEase, [Next]_vars PROVE StillToEase'
  OBVIOUS
<1>1. ASSUME UNCHANGED safetyVars PROVE StillToEase'
  BY <1>1 DEF safetyVars, StillToEase, Target, Window
<1>2. ASSUME safety' # "SURVIVAL" PROVE StillToEase'
  BY <1>2 DEF StillToEase
<1>3. ASSUME NEW c \in Commands, NEW seq \in Seq, NEW age \in StampAge,
             processCommand(c, seq, age)
      PROVE  StillToEase'
  BY <1>1, <1>2, <1>3 DEF processCommand, RejectCommand, AcceptCommand
<1>4. CASE watchdogTick
  <2>1. UNCHANGED <<lastValid, sinceCmd>>
    BY <1>4 DEF watchdogTick
  <2>2. CASE EnterSurvival  BY <2>1, <2>2, TickStillToEase
  <2>3. CASE EnterSafeStop  BY <1>2, <2>3 DEF EnterSafeStop
  <2>4. CASE StayQuiet  BY <1>1, <2>1, <2>4 DEF StayQuiet, safetyVars
  <2> QED  BY <1>4, <2>2, <2>3, <2>4 DEF watchdogTick
<1>5. CASE emergencyStop \/ restart
  BY <1>2, <1>5 DEF emergencyStop, restart
<1>6. ASSUME NEW enabled \in BOOLEAN, NEW session \in Sessions \cup {NoSession},
             setRemoteControlEnabled(enabled, session)
      PROVE  StillToEase'
  BY <1>1, <1>6 DEF setRemoteControlEnabled
<1>7. ASSUME \/ \E mode \in {"AUTONOMOUS", "REMOTE_DRIVING"} : setDrivingMode(mode)
             \/ \E delay \in Age : setNetworkQuality(delay)
             \/ \E active \in BOOLEAN : setSweepActive(active)
      PROVE  StillToEase'
  BY <1>1, <1>7 DEF setDrivingMode, setNetworkQuality, setSweepActive
<1>8. CASE PassTime
  <2>1. UNCHANGED <<safety, current, lastValid>> /\ sinceCmd' = Older(sinceCmd)
    BY <1>8 DEF PassTime
  <2>2. sinceCmd' \in Nat /\ sinceCmd' >= sinceCmd
    BY <2>1, Levels DEF Older, NoStamp, Filter!NoStamp
  <2>3. ASSUME NEW e \in 0 .. Window, e >= sinceCmd' - SurvivalThreshold
        PROVE  e >= sinceCmd - SurvivalThreshold
    BY <2>2, <2>3, Levels
  <2> QED  BY <2>1, <2>3 DEF StillToEase, Target, Window
<1>9. CASE UNCHANGED vars
  BY <1>1, <1>9 DEF vars, safetyVars
<1> QED  BY <1>3, <1>4, <1>5, <1>6, <1>7, <1>8, <1>9 DEF Next

(* While SURVIVAL lasts a tick never adds throttle nor releases the brake, *)
(* whatever command it fades from (applyInterpolatedControlLocked).        *)
THEOREM SurvivalEases == Spec => SurvivalOnlyEases
<1>1. Init => StillToEase
  BY DEF Init, StillToEase
<1>2. ASSUME IInv, StillToEase, safety = "SURVIVAL", watchdogTick
      PROVE  current'.throttle <= current.throttle /\ current'.brake >= current.brake
  <2>1. CASE EnterSurvival
    BY <1>2, <2>1, FadingCommand, Levels DEF StillToEase
  <2>2. CASE EnterSafeStop
    BY <1>2, <2>2, Levels DEF EnterSafeStop, SafeStopCommand
  <2>3. CASE StayQuiet
    BY <2>3, <1>2, Levels DEF StayQuiet
  <2> QED  BY <1>2, <2>1, <2>2, <2>3 DEF watchdogTick
<1>3. IInv /\ StillToEase /\ [Next]_vars =>
        [safety = "SURVIVAL" /\ watchdogTick =>
           /\ current'.throttle <= current.throttle
           /\ current'.brake >= current.brake]_vars
  BY <1>2
<1> QED
  BY <1>1, <1>3, InitHolds, StepHolds, StepStillToEase, PTL DEF Spec, SurvivalOnlyEases


-----------------------------------------------------------------------------
(* The vehicle process: its callback thread and its main loop.             *)

(* The message that each place of the callback thread may handle, and with *)
(* the three that rewrite one field, the command they have read.           *)
Rewriting == Gear \cup Brake \cup Emergency

MessageAtPlace ==
  /\ mqttAt \in {"takeover", "readback", "to_remote", "to_auto"} => msg \in Takeover
  /\ mqttAt = "check" => msg \in Drive \cup Rewriting \cup Sweep \cup Inert
  /\ mqttAt = "snapshot" => msg \in Rewriting
  /\ mqttAt = "process" =>
       msg \in Drive \/ (msg \in Rewriting /\ snapshot \in Command)
  /\ mqttAt = "sweep" => msg \in Sweep

(* Whatever the vehicle executes, and whatever copy of it is in hand, has  *)
(* no more throttle than the operator last asked for.                      *)
ThrottleCovered ==
  /\ current.throttle <= lastValid.throttle
  /\ mqttAt = "process" /\ msg \in Rewriting =>
       snapshot.throttle <= lastValid.throttle

(* IInv is the invariant of the controller, whoever calls it: of its parts,*)
(* SilenceSeen is the one the promise rests on.                            *)
SideInv == SideTypeOK /\ IInv /\ MessageAtPlace /\ ThrottleCovered

(* The state of the promise, and that all of it is left alone.             *)
LetIn == mqttAt \in {"snapshot", "process", "sweep"}

Kept == UNCHANGED <<Driven, remoteEnabled, LetIn, sinceCmd>>

-----------------------------------------------------------------------------

LEMMA Constants ==
  /\ WatchdogTimeout \in Nat /\ MaxTickGap \in Nat /\ MaxAge \in Nat
  /\ SurvivalThreshold \in Nat
BY TimingAssumption

LEMMA SideInitHolds == SideInit => SideInv
<1> SUFFICES ASSUME SideInit PROVE SideInv
  OBVIOUS
<1>1. IInv
  BY InitHolds DEF SideInit
<1>2. SideTypeOK /\ MessageAtPlace
  BY <1>1, SideAssumption DEF SideInit, SideTypeOK, IInv, MqttPlaces, MessageAtPlace, StampAge
<1>3. ThrottleCovered
  BY DEF SideInit, Init, ThrottleCovered
<1> QED  BY <1>1, <1>2, <1>3 DEF SideInv

(* Steps that leave the callback thread where it is.                       *)
LEMMA CallbackKept ==
  ASSUME SideInv, IInv', mainAt' \in {"loop", "restore", "stopped"},
         UNCHANGED <<mqttAt, msg, snapshot, lastValid>>, msgAge' \in StampAge,
         current'.throttle <= lastValid.throttle
  PROVE  SideInv'
BY DEF SideInv, SideTypeOK, IInv, MessageAtPlace, ThrottleCovered

(* Steps after which it is idle.                                           *)
LEMMA CallbackDone ==
  ASSUME SideInv, IInv', mainAt' \in {"loop", "restore", "stopped"}, Done,
         current'.throttle <= lastValid'.throttle
  PROVE  SideInv'
BY SideAssumption
   DEF SideInv, SideTypeOK, IInv, MessageAtPlace, ThrottleCovered, Done, MqttPlaces, StampAge

(* The controller's part of the steps that change no command.              *)
LEMMA Throttles ==
  ASSUME SideInv
  PROVE  /\ current \in Command /\ lastValid \in Controls
         /\ current.throttle \in Nat /\ lastValid.throttle \in Nat
         /\ current.throttle <= lastValid.throttle
BY LevelAssumption
   DEF SideInv, IInv, TypeOK, Command, Controls, Level, ThrottleCovered

LEMMA StoppedIsParsed ==
  ASSUME NEW c \in Parsed, NEW brake \in Int
  PROVE  [c EXCEPT !.throttle = 0, !.brake = brake] \in Parsed
<1>1. [c EXCEPT !.throttle = 0] \in Parsed
  BY DEF Parsed
<1>2. [[c EXCEPT !.throttle = 0] EXCEPT !.brake = brake] \in Parsed
  BY <1>1 DEF Parsed
<1>3. [c EXCEPT !.throttle = 0, !.brake = brake] = [[c EXCEPT !.throttle = 0] EXCEPT !.brake = brake]
  OBVIOUS
<1> QED  BY <1>2, <1>3

(* The command that is processed has the levels and the gear of some       *)
(* message or of a command read before.                                    *)
LEMMA RequestedIsParsed ==
  ASSUME SideInv, mqttAt = "process"
  PROVE  /\ Requested \in Parsed
         /\ (IF msg.type = "drive" THEN msg.seq ELSE 0) \in Seq
         /\ msg.type # "drive" =>
              Requested.throttle \in Nat /\ Requested.throttle <= lastValid.throttle
<1>1. CASE msg \in Drive
  <2>1. msg.type = "drive" /\ msg.cmd \in Parsed /\ msg.seq \in Seq
    BY <1>1, CommandAssumption DEF Drive, Parsed
  <2>2. Requested = IF msg.emergency THEN [msg.cmd EXCEPT !.throttle = 0, !.brake = Unit]
                                     ELSE msg.cmd
    BY <2>1 DEF Requested
  <2>3. [msg.cmd EXCEPT !.throttle = 0, !.brake = Unit] \in Parsed
    <3>1. Unit \in Int
      BY LevelAssumption
    <3> QED  BY <2>1, <3>1, StoppedIsParsed, Zenon
  <2>4. Requested \in Parsed
    BY <2>1, <2>2, <2>3, Zenon
  <2> QED  BY <2>1, <2>4
<1>2. CASE msg \notin Drive
  <2>1. msg \in Rewriting /\ snapshot \in Command /\ snapshot.throttle <= lastValid.throttle
    BY <1>2 DEF SideInv, MessageAtPlace, ThrottleCovered
  <2>2. 0 \in Seq /\ Unit \in Nat
    BY CommandAssumption, LevelAssumption DEF Seq
  <2>3. /\ snapshot.steering \in Int /\ snapshot.throttle \in Nat
        /\ snapshot.brake \in Int /\ snapshot.gear \in Int /\ snapshot \in Parsed
    BY <2>1, <2>2 DEF Command, Steering, Level, Gears, Parsed
  <2>4. CASE msg \in Gear
    <3>1. msg.type = "gear" /\ msg.value \in Int
      BY <2>4 DEF Gear
    <3>2. Requested = [snapshot EXCEPT !.gear = msg.value]
      BY <3>1 DEF Requested
    <3> QED  BY <2>1, <2>2, <2>3, <3>1, <3>2 DEF Parsed
  <2>5. CASE msg \in Brake
    <3>1. msg.type = "brake" /\ msg.value \in Int
      BY <2>2, <2>5 DEF Brake, Level
    <3>2. Requested = [snapshot EXCEPT !.brake = msg.value]
      BY <3>1 DEF Requested
    <3> QED  BY <2>1, <2>2, <2>3, <3>1, <3>2 DEF Parsed
  <2>6. CASE msg \in Emergency
    <3>1. msg.type = "emergency_stop"
      BY <2>6 DEF Emergency
    <3>2. Requested = [snapshot EXCEPT !.brake = IF msg.enable THEN Unit ELSE 0]
      BY <3>1 DEF Requested
    <3> QED  BY <2>1, <2>2, <2>3, <3>1, <3>2 DEF Parsed
  <2> QED  BY <2>1, <2>4, <2>5, <2>6 DEF Rewriting
<1> QED  BY <1>1, <1>2

(* A command may lose throttle on its way, and never gains any.            *)
LEMMA ThrottleClamped ==
  ASSUME NEW c \in Parsed
  PROVE  /\ Clamped(c).throttle \in Nat
         /\ c.throttle \in Nat => Clamped(c).throttle <= c.throttle
BY LevelAssumption DEF Parsed, Clamped, Clamp

LEMMA ProcessKeeps ==
  ASSUME SideInv, Process
  PROVE  /\ SideInv'
         /\ msg.type # "drive" /\ safety' = "ACTIVE" =>
              current'.throttle <= lastValid.throttle
<1> DEFINE seq == IF msg.type = "drive" THEN msg.seq ELSE 0
<1>1. Requested \in Parsed /\ seq \in Seq /\ msgAge \in StampAge /\ IInv
      /\ mainAt' \in {"loop", "restore", "stopped"} /\ Done
  BY RequestedIsParsed DEF Process, SideInv, SideTypeOK
<1> HIDE DEF seq
<1>2. CASE RejectCommand(seq, msgAge)
  <2>1. IInv' /\ UNCHANGED <<current, lastValid>>
    BY <1>1, <1>2, RejectKeeps DEF RejectCommand, safetyVars
  <2> QED  BY <1>1, <2>1, CallbackDone, Throttles
<1>3. CASE AcceptCommand(Requested, seq, msgAge)
  <2>1. IInv'
    BY <1>1, <1>3, AcceptKeeps
  <2>2. /\ \/ current' = SafeStopCommand /\ UNCHANGED lastValid
           \/ /\ lastValid' = Clamped(Requested)
              /\ current'.throttle = Clamped(Requested).throttle
    BY <1>3 DEF AcceptCommand, InGear
  <2>3. current'.throttle <= lastValid'.throttle
    BY <1>1, <2>2, Throttles, ThrottleClamped DEF SafeStopCommand
  <2>4. msg.type # "drive" => current'.throttle <= lastValid.throttle
    BY <1>1, <2>2, Throttles, ThrottleClamped, RequestedIsParsed
       DEF SafeStopCommand, Process
  <2> QED  BY <1>1, <2>1, <2>3, <2>4, CallbackDone
<1> QED  BY <1>2, <1>3 DEF Process, processCommand, seq

LEMMA MainTickKeeps ==
  ASSUME SideInv, MainTick
  PROVE  SideInv'
<1>1. IInv' /\ UNCHANGED <<mqttAt, msg, snapshot, lastValid>> /\ msgAge' \in StampAge
      /\ mainAt' \in {"loop", "restore", "stopped"}
  BY TickKeeps DEF MainTick, mqttVars, watchdogTick, SideInv, SideTypeOK
<1>2. CASE EnterSurvival
  <2>1. /\ sinceCmd - SurvivalThreshold \in 0 .. Window /\ Window \in Nat \ {0}
        /\ current'.throttle
             = Fade(lastValid.throttle, sinceCmd - SurvivalThreshold, Window)
    BY <1>2, FadingCommand, Levels DEF SideInv
  <2>2. current'.throttle \in 0 .. lastValid.throttle
    BY <2>1, FadeUp, Throttles
  <2> QED  BY <1>1, <2>2, CallbackKept, Throttles
<1>3. CASE EnterSafeStop
  <2>1. current'.throttle = 0
    BY <1>3 DEF EnterSafeStop, SafeStopCommand
  <2> QED  BY <1>1, <2>1, CallbackKept, Throttles
<1>4. CASE StayQuiet
  BY <1>1, <1>4, CallbackKept, Throttles DEF StayQuiet
<1> QED  BY <1>2, <1>3, <1>4 DEF MainTick, watchdogTick

LEMMA ReceiveKeeps ==
  ASSUME SideInv, NEW m \in Messages, NEW age \in Delays, Receive(m, age)
  PROVE  SideInv'
<1>1. age \in StampAge
  BY SideAssumption
<1>2. IInv' /\ UNCHANGED <<current, lastValid>>
  <2>1. CASE age = NoStamp
    BY <2>1 DEF Receive, vars, SideInv, IInv, TypeOK, SafeStopIsFullBrake, SilenceSeen
  <2>2. CASE age # NoStamp
    <3>1. Filter!Distance(age) \in Age
      BY <1>1, <2>2, TimingAssumption DEF StampAge, Age, Filter!Distance
    <3> QED  BY <2>2, <3>1, SettersKeep DEF Receive, setNetworkQuality, safetyVars, SideInv
  <2> QED  BY <2>1, <2>2
<1>3. /\ msg' = m /\ snapshot' = snapshot /\ mainAt' = mainAt
      /\ mqttAt' = IF m.type = "remote_control" THEN "takeover" ELSE "check"
      /\ msgAge' \in StampAge
  BY <1>1 DEF Receive, StampAge
<1>4. m # Nothing /\ (m.type = "remote_control" => m \in Takeover)
      /\ (m.type # "remote_control" => m \in Drive \cup Rewriting \cup Sweep \cup Inert)
  BY SideAssumption DEF Takeover, Drive, Rewriting, Gear, Brake, Emergency, Sweep, Inert
<1>5. SideTypeOK'
  BY <1>2, <1>3, <1>4 DEF SideInv, SideTypeOK, IInv, MqttPlaces
<1>6. MessageAtPlace' /\ ThrottleCovered'
  BY <1>2, <1>3, <1>4, Throttles DEF MessageAtPlace, ThrottleCovered
<1> QED  BY <1>2, <1>5, <1>6 DEF SideInv

(* Steps of the callback thread that leave the controller's commands alone.*)
LEMMA ContinueKeeps ==
  ASSUME SideInv, SetTakeover \/ ReadBack \/ SetMode \/ Check \/ TakeSnapshot \/ SetSweep
  PROVE  SideInv'
<1>0. /\ IInv /\ mainAt \in {"loop", "restore", "stopped"} /\ MessageAtPlace
      /\ msg \in Messages \cup {Nothing} /\ msgAge \in StampAge
  BY DEF SideInv, SideTypeOK
<1>1. ASSUME IInv', UNCHANGED <<current, lastValid, mainAt>>, NEW place \in MqttPlaces \ {"idle"},
             Continue(place), mqttAt # "idle", MessageAtPlace',
             place # "process" \/ msg \notin Rewriting
      PROVE  SideInv'
  BY <1>1, Throttles DEF SideInv, SideTypeOK, IInv, ThrottleCovered, Continue
<1>2. CASE SetTakeover
  <2>1. msg \in Takeover /\ msg.enable \in BOOLEAN
    BY <1>0, <1>2 DEF SetTakeover, MessageAtPlace, Takeover
  <2>2. IInv' /\ UNCHANGED <<current, lastValid, mainAt>>
    BY <1>0, <1>2, <2>1, TakeoverKeeps DEF SetTakeover, setRemoteControlEnabled, safetyVars
  <2>3. MessageAtPlace'
    BY <1>2, <2>1 DEF SetTakeover, Continue, MessageAtPlace
  <2> QED  BY <1>1, <1>2, <2>2, <2>3 DEF SetTakeover, MqttPlaces
<1>3. ASSUME UNCHANGED vars PROVE IInv' /\ UNCHANGED <<current, lastValid>>
  BY <1>0, <1>3 DEF vars, IInv, TypeOK, SafeStopIsFullBrake, SilenceSeen
<1>4. CASE ReadBack
  <2>1. msg \in Takeover
    BY <1>0, <1>4 DEF ReadBack, MessageAtPlace
  <2>2. CASE Done
    BY <1>0, <1>3, <1>4, <2>2, CallbackDone, Throttles DEF ReadBack
  <2>3. ASSUME NEW place \in {"to_remote", "to_auto"}, Continue(place) PROVE SideInv'
    <3>1. MessageAtPlace'
      BY <2>1, <2>3 DEF Continue, MessageAtPlace
    <3> QED  BY <1>1, <1>3, <1>4, <2>3, <3>1 DEF ReadBack, MqttPlaces
  <2> QED  BY <1>4, <2>2, <2>3 DEF ReadBack
<1>5. CASE SetMode
  <2>1. IInv' /\ UNCHANGED <<current, lastValid>>
    BY <1>0, <1>5, SettersKeep DEF SetMode, setDrivingMode, safetyVars
  <2> QED  BY <1>0, <1>5, <2>1, CallbackDone, Throttles DEF SetMode
<1>6. CASE Check
  <2>1. msg \in Drive \cup Rewriting \cup Sweep \cup Inert
    BY <1>0, <1>6 DEF Check, MessageAtPlace
  <2>2. CASE Done
    BY <1>0, <1>3, <1>6, <2>2, CallbackDone, Throttles DEF Check
  <2>3. CASE ~Done
    <3>1. /\ msg.type # "inert"
          /\ Continue(CASE msg.type = "drive" -> "process"
                        [] msg.type = "sweep" -> "sweep"
                        [] OTHER              -> "snapshot")
      BY <1>6, <2>3 DEF Check
    <3>2. CASE msg.type = "drive"
      <4>1. Continue("process") /\ msg \in Drive /\ msg \notin Rewriting
        BY <2>1, <3>1, <3>2 DEF Rewriting, Gear, Brake, Emergency, Sweep, Inert
      <4>2. MessageAtPlace'
        BY <4>1 DEF Continue, MessageAtPlace
      <4> QED  BY <1>1, <1>3, <1>6, <4>1, <4>2 DEF Check, MqttPlaces
    <3>3. CASE msg.type = "sweep"
      <4>1. Continue("sweep") /\ msg \in Sweep
        BY <2>1, <3>1, <3>3 DEF Drive, Rewriting, Gear, Brake, Emergency, Inert
      <4>2. MessageAtPlace'
        BY <4>1 DEF Continue, MessageAtPlace
      <4> QED  BY <1>1, <1>3, <1>6, <4>1, <4>2 DEF Check, MqttPlaces
    <3>4. CASE msg.type \notin {"drive", "sweep"}
      <4>1. Continue("snapshot") /\ msg \in Rewriting
        BY <2>1, <3>1, <3>4 DEF Drive, Sweep, Inert
      <4>2. MessageAtPlace'
        BY <4>1 DEF Continue, MessageAtPlace
      <4> QED  BY <1>1, <1>3, <1>6, <4>1, <4>2 DEF Check, MqttPlaces
    <3> QED  BY <3>2, <3>3, <3>4
  <2> QED  BY <2>2, <2>3
<1>7. CASE TakeSnapshot
  <2>1. /\ msg \in Rewriting /\ mqttAt' = "process" /\ snapshot' = current
        /\ UNCHANGED <<msg, msgAge, mainAt>> /\ mqttAt # "idle"
    BY <1>0, <1>7 DEF TakeSnapshot, MessageAtPlace
  <2>2. IInv' /\ UNCHANGED <<current, lastValid>>
    BY <1>3, <1>7 DEF TakeSnapshot
  <2> QED
    BY <2>1, <2>2, Throttles
       DEF SideInv, SideTypeOK, IInv, MqttPlaces, MessageAtPlace, ThrottleCovered
<1>8. CASE SetSweep
  <2>1. msg.active \in BOOLEAN
    BY <1>0, <1>8 DEF SetSweep, MessageAtPlace, Sweep
  <2>2. IInv' /\ UNCHANGED <<current, lastValid>>
    BY <1>0, <1>8, <2>1, SettersKeep DEF SetSweep, setSweepActive, safetyVars
  <2> QED  BY <1>0, <1>8, <2>2, CallbackDone, Throttles DEF SetSweep
<1> QED  BY <1>2, <1>4, <1>5, <1>6, <1>7, <1>8

LEMMA SideStepHolds == SideInv /\ [SideNext]_sideVars => SideInv'
<1> SUFFICES ASSUME SideInv, [SideNext]_sideVars PROVE SideInv'
  OBVIOUS
<1>0. IInv /\ mainAt \in {"loop", "restore", "stopped"} /\ msgAge \in StampAge
  BY DEF SideInv, SideTypeOK
<1>1. ASSUME NEW m \in Messages, NEW age \in Delays, Receive(m, age) PROVE SideInv'
  BY <1>1, ReceiveKeeps
<1>2. CASE MqttStep
  BY <1>2, ContinueKeeps, ProcessKeeps DEF MqttStep
<1>3. CASE MainTick
  BY <1>3, MainTickKeeps
<1>4. ASSUME UNCHANGED vars, UNCHANGED mqttVars, mainAt' \in {"loop", "restore", "stopped"}
      PROVE  SideInv'
  <2>1. IInv' /\ UNCHANGED <<current, lastValid>>
    BY <1>0, <1>4 DEF vars, IInv, TypeOK, SafeStopIsFullBrake, SilenceSeen
  <2> QED  BY <1>0, <1>4, <2>1, CallbackKept, Throttles DEF mqttVars
<1>5. CASE MainRestored
  BY <1>4, <1>5 DEF MainRestored
<1>6. CASE UNCHANGED sideVars
  BY <1>0, <1>4, <1>6 DEF sideVars, vars, mqttVars
<1>7. CASE Shutdown
  <2>1. IInv' /\ UNCHANGED <<mqttVars, lastValid>> /\ current'.throttle = 0
    BY <1>0, <1>7, EmergencyKeeps DEF Shutdown, emergencyStop, SafeStopCommand
  <2> QED  BY <1>0, <1>7, <2>1, CallbackKept, Throttles DEF Shutdown, mqttVars
<1>8. CASE Restart
  <2>1. IInv' /\ current'.throttle = 0 /\ lastValid'.throttle = 0
    BY <1>8, RestartKeeps DEF Restart, restart
  <2> QED  BY <1>8, <2>1, CallbackDone DEF Restart
<1>9. CASE Time
  <2>1. IInv' /\ UNCHANGED <<current, lastValid>>
    BY <1>0, <1>9, TimeKeeps DEF Time, PassTime
  <2>2. msgAge' \in StampAge
    BY <1>0, <1>9, TimingAssumption DEF Time, Older, StampAge, NoStamp, Filter!NoStamp
  <2> QED  BY <1>0, <1>9, <2>1, <2>2, CallbackKept, Throttles DEF Time
<1> QED
  BY <1>1, <1>2, <1>3, <1>5, <1>6, <1>7, <1>8, <1>9 DEF SideNext

-----------------------------------------------------------------------------
(* Every step is a step of the promise or leaves its state alone.          *)

LEMMA Stutters ==
  ASSUME Kept
  PROVE  [Promise!DeadManNext]_(Promise!deadManVars)
BY DEF Kept, LetIn, Promise!deadManVars

LEMMA CallbackRefines ==
  ASSUME SideInv, MqttStep
  PROVE  [Promise!DeadManNext]_(Promise!deadManVars)
<1>1. CASE SetTakeover
  <2>1. UNCHANGED <<Driven, LetIn, sinceCmd>>
    BY <1>1 DEF SetTakeover, setRemoteControlEnabled, safetyVars, Continue, LetIn, Driven
  <2>2. CASE remoteEnabled' = remoteEnabled
    BY <2>1, <2>2, Stutters DEF Kept
  <2>3. CASE remoteEnabled' \in BOOLEAN
    <3>1. Promise!Hand(remoteEnabled')
      BY <2>1 DEF Promise!Hand, LetIn
    <3> QED  BY <2>3, <3>1 DEF Promise!DeadManNext
  <2>4. remoteEnabled' = remoteEnabled \/ remoteEnabled' \in BOOLEAN
    BY <1>1, Zenon DEF SetTakeover, setRemoteControlEnabled, takeoverVars
  <2> QED  BY <2>2, <2>3, <2>4
<1>2. CASE ReadBack \/ TakeSnapshot \/ SetMode
  <2>1. UNCHANGED <<Driven, remoteEnabled, sinceCmd>>
    BY <1>2 DEF ReadBack, TakeSnapshot, SetMode, setDrivingMode, safetyVars, takeoverVars,
               vars, Driven
  <2>2. UNCHANGED LetIn
    BY <1>2 DEF ReadBack, TakeSnapshot, SetMode, Continue, Done, LetIn
  <2> QED  BY <2>1, <2>2, Stutters DEF Kept
<1>3. CASE Check
  <2>1. UNCHANGED <<Driven, remoteEnabled, sinceCmd>> /\ ~LetIn
    BY <1>3 DEF Check, vars, Driven, LetIn
  <2>2. CASE remoteEnabled /\ msg.type # "inert"
    <3>1. LetIn' = TRUE
      BY <1>3, <2>2 DEF Check, Continue, LetIn
    <3>2. Promise!Admit
      BY <2>1, <2>2, <3>1 DEF Promise!Admit, LetIn
    <3> QED  BY <3>2 DEF Promise!DeadManNext
  <2>3. CASE ~(remoteEnabled /\ msg.type # "inert")
    <3>1. UNCHANGED LetIn
      BY <1>3, <2>3 DEF Check, Done, LetIn
    <3> QED  BY <2>1, <3>1, Stutters DEF Kept
  <2> QED  BY <2>2, <2>3
<1>4. CASE Process
  <2>1. LetIn /\ LetIn' = FALSE
    BY <1>4 DEF Process, Done, LetIn
  <2>2. PICK c, seq, age : RejectCommand(seq, age) \/ AcceptCommand(c, seq, age)
    BY <1>4 DEF Process, processCommand
  <2>3. CASE RejectCommand(seq, age)
    <3>1. UNCHANGED <<Driven, remoteEnabled, sinceCmd>>
      BY <2>3 DEF RejectCommand, safetyVars, takeoverVars, Driven
    <3>2. Promise!Drop
      BY <2>1, <3>1 DEF Promise!Drop, LetIn
    <3> QED  BY <3>2 DEF Promise!DeadManNext
  <2>4. CASE AcceptCommand(c, seq, age)
    <3>1. Driven' = TRUE /\ sinceCmd' = 0 /\ UNCHANGED remoteEnabled
      BY <2>4 DEF AcceptCommand, takeoverVars, Driven
    <3>2. Promise!Act
      BY <2>1, <3>1 DEF Promise!Act, LetIn
    <3> QED  BY <3>2 DEF Promise!DeadManNext
  <2> QED  BY <2>2, <2>3, <2>4
<1>5. CASE SetSweep
  <2>1. /\ UNCHANGED <<Driven, remoteEnabled, sinceCmd>>
        /\ LetIn /\ LetIn' = FALSE
    BY <1>5 DEF SetSweep, setSweepActive, safetyVars, takeoverVars, Done, Driven, LetIn
  <2>2. Promise!Drop
    BY <2>1 DEF Promise!Drop, LetIn
  <2> QED  BY <2>2 DEF Promise!DeadManNext
<1> QED  BY <1>1, <1>2, <1>3, <1>4, <1>5 DEF MqttStep

LEMMA TickRefines ==
  ASSUME SideInv, MainTick
  PROVE  [Promise!DeadManNext]_(Promise!deadManVars)
<1>1. UNCHANGED <<LetIn, sinceCmd>>
  BY DEF MainTick, watchdogTick, mqttVars, LetIn
<1>2. CASE EnterSurvival
  <2>1. UNCHANGED <<Driven, remoteEnabled>>
    BY <1>2 DEF EnterSurvival, takeoverVars, SideInv, IInv, TypeOK, Driven
  <2> QED  BY <1>1, <2>1, Stutters DEF Kept
<1>3. CASE EnterSafeStop
  <2>1. sinceCmd > WatchdogTimeout /\ Driven' = FALSE /\ remoteEnabled' = FALSE
    BY <1>3 DEF EnterSafeStop, Driven
  <2>2. Promise!Expire
    BY <1>1, <2>1 DEF Promise!Expire, LetIn
  <2> QED  BY <2>2 DEF Promise!DeadManNext
<1>4. CASE StayQuiet
  <2>1. UNCHANGED <<Driven, remoteEnabled>>
    BY <1>4 DEF StayQuiet, takeoverVars, Driven
  <2> QED  BY <1>1, <2>1, Stutters DEF Kept
<1> QED  BY <1>2, <1>3, <1>4 DEF MainTick, watchdogTick

LEMMA TimeRefines ==
  ASSUME SideInv, Time
  PROVE  [Promise!DeadManNext]_(Promise!deadManVars)
<1>1. UNCHANGED <<Driven, remoteEnabled, LetIn>>
  BY DEF Time, PassTime, takeoverVars, Driven, LetIn
<1>2. sinceCmd' = IF sinceCmd < MaxAge THEN sinceCmd + 1 ELSE sinceCmd
  BY Constants DEF Time, PassTime, Older, NoStamp, Filter!NoStamp, SideInv, IInv, TypeOK, Age
<1>3. Driven => sinceCmd <= WatchdogTimeout + MaxTickGap
  BY Constants DEF SideInv, IInv, TypeOK, SilenceSeen, Driven, Age
<1>4. Promise!Wait
  BY <1>1, <1>2, <1>3 DEF Promise!Wait, LetIn
<1> QED  BY <1>4 DEF Promise!DeadManNext

LEMMA StepRefines ==
  ASSUME SideInv, [SideNext]_sideVars
  PROVE  [Promise!DeadManNext]_(Promise!deadManVars)
<1>1. ASSUME NEW m \in Messages, NEW age \in Delays, Receive(m, age) PROVE Kept
  <2>1. UNCHANGED <<Driven, remoteEnabled, sinceCmd>>
    BY <1>1 DEF Receive, setNetworkQuality, safetyVars, takeoverVars, vars, Driven
  <2>2. UNCHANGED LetIn
    BY <1>1 DEF Receive, LetIn
  <2> QED  BY <2>1, <2>2 DEF Kept
<1>2. CASE MqttStep  BY <1>2, CallbackRefines
<1>3. CASE MainTick  BY <1>3, TickRefines
<1>4. CASE MainRestored \/ UNCHANGED sideVars
  <2>1. Kept
    BY <1>4 DEF MainRestored, sideVars, vars, mqttVars, Kept, LetIn, Driven
  <2> QED  BY <2>1, Stutters
<1>5. CASE Shutdown
  <2>1. Driven' = FALSE /\ UNCHANGED <<remoteEnabled, LetIn, sinceCmd>>
    BY <1>5 DEF Shutdown, emergencyStop, takeoverVars, mqttVars, Driven, LetIn
  <2>2. Promise!Halt
    BY <2>1 DEF Promise!Halt, LetIn
  <2> QED  BY <2>2 DEF Promise!DeadManNext
<1>6. CASE Restart
  <2>1. Driven' = FALSE /\ remoteEnabled' = FALSE /\ LetIn' = FALSE /\ sinceCmd' = 0
    BY <1>6 DEF Restart, restart, Done, Driven, LetIn
  <2>2. Promise!Reset
    BY <2>1 DEF Promise!Reset, LetIn
  <2> QED  BY <2>2 DEF Promise!DeadManNext
<1>7. CASE Time  BY <1>7, TimeRefines
<1> QED
  BY <1>1, <1>2, <1>3, <1>4, <1>5, <1>6, <1>7, Stutters DEF SideNext

LEMMA InitRefines == SideInit => Promise!DeadManInit
BY DEF SideInit, Init, Promise!DeadManInit, Driven

(* The two threads, however their steps fall between each other, implement *)
(* the dead-man switch: the calls of handle_control_json and the tick of   *)
(* the main loop on one controller.                                        *)
THEOREM ThreadsImplementDeadMan == SideSpec => ImplementsDeadMan
<1>1. SideInv /\ [SideNext]_sideVars => [Promise!DeadManNext]_(Promise!deadManVars)
  BY StepRefines
<1> QED
  BY <1>1, InitRefines, SideInitHolds, SideStepHolds, PTL
     DEF SideSpec, ImplementsDeadMan, Promise!DeadManSpec

(* Every variable of the process keeps its type: the callback thread never *)
(* stands where its message does not lead it, and what it hands to the     *)
(* controller is a command.                                                *)
THEOREM SideTypes == SideSpec => []SideTypeOK
<1>1. SideInv => SideTypeOK
  BY DEF SideInv
<1> QED  BY <1>1, SideInitHolds, SideStepHolds, PTL DEF SideSpec

(* A gear, brake or emergency message writes a command back that was read  *)
(* earlier (handle_control_json).  Whatever the main loop did in between,  *)
(* the throttle is no more than the operator last asked for.               *)
THEOREM StaleReadAddsNoThrottle == SideSpec => NoThrottleFromStaleRead
<1>1. SideInv /\ [SideNext]_sideVars =>
        [Process /\ msg.type # "drive" /\ safety' = "ACTIVE" =>
           current'.throttle <= lastValid.throttle]_sideVars
  BY ProcessKeeps
<1> QED
  BY <1>1, SideInitHolds, SideStepHolds, PTL DEF SideSpec, NoThrottleFromStaleRead
=============================================================================
