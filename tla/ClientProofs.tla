---------------------------- MODULE ClientProofs ----------------------------
(***************************************************************************)
(* Proofs about the client.  Of ClientSession, for any set of vehicles:    *)
(* the types, that the services work for the chosen vehicle and nobody     *)
(* after logout, and that the state machine does not wait for what has     *)
(* already come.  Of ClientSafety: the types, how alone a stop of the      *)
(* operator can be lost between the threads, and that it is obeyed.        *)
(***************************************************************************)
EXTENDS ClientSession, ClientSafety, TLAPS

-----------------------------------------------------------------------------
(* The session.                                                            *)

(* The machine has no state but those of the table. *)
LEMMA StepStays ==
  ASSUME NEW f \in SystemStates, NEW trigger
  PROVE  Step(f, trigger) \in SystemStates
<1>1. CASE \E g \in SystemStates : <<f, trigger, g>> \in Transitions
  <2> DEFINE g == CHOOSE h \in SystemStates : <<f, trigger, h>> \in Transitions
  <2>1. g \in SystemStates
    BY <1>1
  <2> QED BY <1>1, <2>1 DEF Step
<1>2. CASE ~ \E g \in SystemStates : <<f, trigger, g>> \in Transitions
  BY <1>2 DEF Step
<1> QED BY <1>1, <1>2

(* A confirmation takes the machine out of PRE_FLIGHT. *)
LEMMA ConfirmationLeaves == Step("PRE_FLIGHT", "PREFLIGHT_OK") # "PRE_FLIGHT"
<1> DEFINE Next(g) == <<"PRE_FLIGHT", "PREFLIGHT_OK", g>> \in Transitions
           g == CHOOSE h \in SystemStates : Next(h)
<1>1. "DRIVING" \in SystemStates /\ Next("DRIVING")
  BY DEF SystemStates, Driven, Transitions
<1>2. ~Next("PRE_FLIGHT")
  BY DEF Transitions, Driven, SystemStates, Plain
<1>3. Next(g)
  <2> HIDE DEF Next
  <2> QED BY <1>1
<1>4. Step("PRE_FLIGHT", "PREFLIGHT_OK") = g
  BY <1>1 DEF Step
<1> QED BY <1>2, <1>3, <1>4

(* Whatever fires, the machine stays in its states, and with a takeover    *)
(* confirmed it does not come to wait for the confirmation.                *)
LEMMA FiredStays ==
  ASSUME NEW trigger, fsm \in SystemStates, Fired(trigger)
  PROVE  fsm' \in SystemStates
<1> DEFINE next == Step(fsm, trigger)
<1>1. next \in SystemStates
  BY StepStays
<1>2. Step(next, "PREFLIGHT_OK") \in SystemStates
  BY <1>1, StepStays
<1> QED BY <1>1, <1>2 DEF Fired

LEMMA FiredDoesNotWait ==
  ASSUME NEW trigger, fsm \in SystemStates, PreflightWaits, Fired(trigger),
         enabled' = enabled
  PROVE  PreflightWaits'
<1>1. SUFFICES ASSUME enabled, fsm' = "PRE_FLIGHT"
               PROVE  FALSE
  BY DEF PreflightWaits
<1>2. fsm # "PRE_FLIGHT"
  BY <1>1 DEF PreflightWaits
<1>3. Reported(fsm) # "PRE_FLIGHT"
  BY <1>2 DEF Reported
<1>4. CASE Step(fsm, trigger) = "PRE_FLIGHT"
  BY <1>1, <1>3, <1>4, ConfirmationLeaves DEF Fired
<1>5. CASE Step(fsm, trigger) # "PRE_FLIGHT"
  BY <1>1, <1>5 DEF Fired
<1> QED BY <1>4, <1>5

-----------------------------------------------------------------------------
(* The services that run for somebody run for a login that is on, whose    *)
(* page is shown; and a login that was not noted is a kept one.            *)
ServedIsIn == services.control /\ ~orphan => auth.in /\ ready
UnnotedIsKept == auth.in /\ ~had => auth.kept

SessionInv == SessionTypeOK /\ OneVehicle /\ ServedIsIn /\ UnnotedIsKept
                /\ PreflightWaits

LEMMA InitHolds == SessionInit => SessionInv
<1> SUFFICES ASSUME SessionInit PROVE SessionInv
  OBVIOUS
<1>1. auth \in Auths /\ (auth.in => auth.kept)
  BY DEF SessionInit, Auths, Tokens
<1>2. services \in Services
  BY DEF SessionInit, Services, Stopped, Choice
<1>3. SessionTypeOK
  BY <1>1, <1>2 DEF SessionInit, SessionTypeOK, Stopped, Choice, SystemStates, Plain
<1> QED
  BY <1>1, <1>3 DEF SessionInit, SessionInv, OneVehicle, ServedIsIn, UnnotedIsKept,
                    PreflightWaits, Stopped

-----------------------------------------------------------------------------
(* One lemma for each of the three groups of actions. *)

(* A logout, from whatever else has changed in auth: a login of this run   *)
(* is undone with its services, and a kept one leaves them to nobody.      *)
LEMMA LogoutPreserves ==
  ASSUME SessionInv, NEW a \in Auths, a.in = auth.in, a.kept = auth.kept, LogoutFrom(a)
  PROVE  SessionInv'
<1>1. auth' \in Auths /\ ~auth'.in
  BY DEF LogoutFrom, Auths, Tokens
<1>2. ~had' /\ ~ready' /\ had' \in BOOLEAN /\ ready' \in BOOLEAN
  BY DEF LogoutFrom
<1>3. UNCHANGED <<vin, selected, request, enabled>>
  BY DEF LogoutFrom
<1>4. CASE had
  <2>1. services' = Stopped /\ ~orphan' /\ orphan' \in BOOLEAN /\ Fired("LOGOUT")
    BY <1>4 DEF LogoutFrom, OnLogout, StopServices
  <2>2. fsm' \in SystemStates /\ PreflightWaits'
    BY <2>1, <1>3, FiredStays, FiredDoesNotWait DEF SessionInv, SessionTypeOK
  <2>3. services' \in Services /\ services'.control = FALSE /\ services'.safety = FALSE
    BY <2>1 DEF Stopped, Services, Choice
  <2>4. SessionTypeOK'
    BY <1>1, <1>2, <1>3, <2>1, <2>2, <2>3 DEF SessionInv, SessionTypeOK
  <2> QED
    BY <1>1, <2>2, <2>3, <2>4
       DEF SessionInv, OneVehicle, ServedIsIn, UnnotedIsKept
<1>5. CASE ~had
  <2>1. UNCHANGED <<services, fsm>> /\ orphan' = (orphan \/ (services.control /\ auth.kept))
    BY <1>5 DEF LogoutFrom, OnLogout
  <2>2. orphan' \in BOOLEAN
    BY <2>1
  <2>3. ~(services'.control /\ ~orphan')
    BY <1>5, <2>1 DEF SessionInv, ServedIsIn, UnnotedIsKept
  <2> QED
    BY <1>1, <1>2, <1>3, <2>1, <2>2, <2>3
       DEF SessionInv, SessionTypeOK, OneVehicle, ServedIsIn, UnnotedIsKept,
           PreflightWaits
<1> QED BY <1>4, <1>5

LEMMA AuthenticationPreserves == SessionInv /\ Authentication => SessionInv'
<1> SUFFICES ASSUME SessionInv, Authentication PROVE SessionInv'
  OBVIOUS
<1> USE DEF SessionInv
<1> auth \in Auths
  BY DEF SessionTypeOK
<1>1. ASSUME auth' \in Auths, auth'.in = auth.in, auth'.kept = auth.kept, KeepSession
      PROVE  SessionInv'
  BY <1>1 DEF KeepSession, SessionTypeOK, OneVehicle, ServedIsIn, UnnotedIsKept,
              PreflightWaits
<1>2. CASE Login
  BY <1>1, <1>2 DEF Login, Auths, KeepSession
<1>3. CASE LoginAnswered
  <2>1. auth' \in Auths /\ auth'.in
    BY <1>3 DEF LoginAnswered, Auths, Tokens, NewTokens
  <2>2. had' /\ had' \in BOOLEAN
    BY <1>3 DEF LoginAnswered
  <2>3. fsm' \in SystemStates /\ PreflightWaits'
    BY <1>3, FiredStays, FiredDoesNotWait DEF LoginAnswered, SessionTypeOK
  <2> QED
    BY <1>3, <2>1, <2>2, <2>3
       DEF LoginAnswered, SessionTypeOK, OneVehicle, ServedIsIn, UnnotedIsKept
<1>4. CASE LoginFails
  BY <1>1, <1>4 DEF LoginFails, Auths, KeepSession
<1>5. CASE Logout
  BY <1>5, LogoutPreserves DEF Logout
<1>6. CASE TokenCheck
  <2>1. CASE LogoutFrom(auth)
    BY <2>1, LogoutPreserves
  <2>2. CASE auth' = [auth EXCEPT !.renewing = TRUE] /\ KeepSession
    BY <1>1, <2>2 DEF Auths
  <2> QED BY <1>6, <2>1, <2>2 DEF TokenCheck
<1>7. CASE Refreshed
  BY <1>1, <1>7 DEF Refreshed, Auths, Tokens, NewTokens
<1>8. CASE RefreshFails
  BY <1>1, <1>8 DEF RefreshFails, Auths
<1>9. CASE RefreshRefused
  <2> DEFINE a == [auth EXCEPT !.renewing = FALSE]
  <2>1. a \in Auths /\ a.in = auth.in /\ a.kept = auth.kept
    BY DEF Auths
  <2>2. LogoutFrom(a)
    BY <1>9 DEF RefreshRefused
  <2> QED BY <2>1, <2>2, LogoutPreserves
<1>10. CASE TokenAges
  BY <1>1, <1>10 DEF TokenAges, Auths, Tokens, NewTokens
<1> QED
  BY <1>2, <1>3, <1>4, <1>5, <1>6, <1>7, <1>8, <1>9, <1>10 DEF Authentication

LEMMA SessionPreserves == SessionInv /\ Session => SessionInv'
<1> SUFFICES ASSUME SessionInv, Session PROVE SessionInv'
  OBVIOUS
<1> USE DEF SessionInv
<1>1. ASSUME NEW v \in Vins, SelectVehicle(v) PROVE SessionInv'
  BY <1>1 DEF SelectVehicle, SessionTypeOK, OneVehicle, ServedIsIn, UnnotedIsKept,
              PreflightWaits, Choice
<1>2. ASSUME ClearVin, ready' \in BOOLEAN PROVE SessionInv'
  BY <1>2 DEF ClearVin, StopServices, Stopped, Services, SessionTypeOK, OneVehicle,
              ServedIsIn, UnnotedIsKept, PreflightWaits, Choice
<1>3. CASE VehicleGone
  BY <1>2, <1>3 DEF VehicleGone, SessionTypeOK
<1>4. CASE ResetSession
  BY <1>2, <1>4 DEF ResetSession
<1>5. CASE AskForSession
  BY <1>5 DEF AskForSession, SessionTypeOK, OneVehicle, ServedIsIn, UnnotedIsKept,
              PreflightWaits
<1>6. CASE SessionAnswered
  <2>1. CASE vin = request
    <3> DEFINE run == [control |-> TRUE, safety |-> TRUE, creds |-> vin, mqtt |-> vin]
    <3>0. services' = run /\ vin \in Choice
      BY <1>6, <2>1 DEF SessionAnswered, SessionTypeOK
    <3>1. services' \in Services /\ services'.control /\ services'.safety
          /\ services'.creds = vin /\ services'.mqtt = vin
      BY <3>0 DEF Services
    <3>2. selected' = vin /\ ready' = (ready \/ auth.in) /\ orphan' = ~auth.in
      BY <1>6, <2>1 DEF SessionAnswered
    <3>3. ready' \in BOOLEAN /\ orphan' \in BOOLEAN
      BY <3>2
    <3>4. vin # None /\ request' = None
      BY <1>6, <2>1 DEF SessionAnswered
    <3>5. UNCHANGED <<auth, had, vin, fsm, enabled>>
      BY <1>6 DEF SessionAnswered
    <3>6. SessionTypeOK'
      BY <3>1, <3>2, <3>3, <3>4, <3>5 DEF SessionTypeOK, Choice
    <3> QED
      BY <3>1, <3>2, <3>5, <3>6 DEF OneVehicle, ServedIsIn, UnnotedIsKept, PreflightWaits
  <2>2. CASE vin # request
    BY <1>6, <2>2 DEF SessionAnswered, SessionTypeOK, OneVehicle, ServedIsIn,
                      UnnotedIsKept, PreflightWaits, Choice
  <2> QED BY <2>1, <2>2
<1>7. CASE SessionFails
  BY <1>7 DEF SessionFails, SessionTypeOK, OneVehicle, ServedIsIn, UnnotedIsKept,
              PreflightWaits, Choice
<1>8. CASE DialogCloses
  BY <1>8 DEF DialogCloses, SessionTypeOK, OneVehicle, ServedIsIn, UnnotedIsKept,
              PreflightWaits
<1> QED
  BY <1>1, <1>3, <1>4, <1>5, <1>6, <1>7, <1>8 DEF Session

LEMMA DrivingPreserves == SessionInv /\ Driving => SessionInv'
<1> SUFFICES ASSUME SessionInv, Driving PROVE SessionInv'
  OBVIOUS
<1> USE DEF SessionInv
<1>1. ASSUME fsm' \in SystemStates, enabled' \in BOOLEAN, PreflightWaits', KeepAllButFsm
      PROVE  SessionInv'
  BY <1>1 DEF KeepAllButFsm, SessionTypeOK, OneVehicle, ServedIsIn, UnnotedIsKept
<1>2. ASSUME NEW trigger, Fired(trigger), KeepAllButFsm, UNCHANGED enabled
      PROVE  SessionInv'
  BY <1>1, <1>2, FiredStays, FiredDoesNotWait DEF SessionTypeOK
<1>3. CASE Button
  BY <1>2, <1>3 DEF Button
<1>4. CASE SafetyStops
  BY <1>2, <1>4 DEF SafetyStops
<1>5. CASE ClearEmergency
  BY <1>2, <1>5 DEF ClearEmergency
<1>6. CASE StatusSaysEnabled
  <2>1. fsm' \in SystemStates
    BY <1>6, StepStays DEF StatusSaysEnabled, SessionTypeOK
  <2>2. fsm' # "PRE_FLIGHT"
    BY <1>6, ConfirmationLeaves DEF StatusSaysEnabled, Reported, Driven
  <2> QED
    BY <1>1, <1>6, <2>1, <2>2 DEF StatusSaysEnabled, PreflightWaits
<1>7. CASE StatusSaysDisabled
  BY <1>1, <1>7 DEF StatusSaysDisabled, SessionTypeOK, PreflightWaits
<1> QED
  BY <1>3, <1>4, <1>5, <1>6, <1>7 DEF Driving

-----------------------------------------------------------------------------
LEMMA SessionInvHolds == SessionSpec => []SessionInv
<1>1. SessionInv /\ [SessionNext]_vars => SessionInv'
  <2>1. SessionInv /\ UNCHANGED vars => SessionInv'
    BY DEF vars, SessionInv, SessionTypeOK, OneVehicle, ServedIsIn, UnnotedIsKept,
           PreflightWaits
  <2> QED
    BY <2>1, AuthenticationPreserves, SessionPreserves, DrivingPreserves DEF SessionNext
<1> QED BY <1>1, InitHolds, PTL DEF SessionSpec

(* Every variable keeps its type, and the control loop and the safety      *)
(* checks run together or not at all, through every order of answers.      *)
THEOREM SessionTypes == SessionSpec => []SessionTypeOK
BY SessionInvHolds, PTL DEF SessionInv

(* Commands are sent for the session of the vehicle that is chosen,        *)
(* although answers come late and the choice may change while one is       *)
(* awaited.                                                                *)
THEOREM ServesOneVehicle == SessionSpec => []OneVehicle
BY SessionInvHolds, PTL DEF SessionInv

(* After a logout no service runs, but for a kept login and for an answer  *)
(* that comes after it.                                                    *)
THEOREM LogoutStops == SessionSpec => []StopsAtLogout
<1>1. SessionInv => StopsAtLogout
  BY DEF SessionInv, ServedIsIn, StopsAtLogout, SessionTypeOK
<1> QED BY <1>1, SessionInvHolds, PTL

(* The state machine never waits for a confirmation that has come.         *)
THEOREM NoVainWait == SessionSpec => []PreflightWaits
BY SessionInvHolds, PTL DEF SessionInv

-----------------------------------------------------------------------------
(* The latch and the monitor.  A thread that stands between its load and   *)
(* its store has a copy of the flag.                                       *)
CopiesHeld ==
  /\ tickAt # "wait" => input \in BOOLEAN
  /\ uiAt \in {"stop", "gear", "drive"} => copy \in BOOLEAN

(* While a stop of the operator is latched, the device has been told, and  *)
(* every copy of the flag that was taken since shows the stop.             *)
FreshCopiesStop ==
  stopped =>
    /\ device = TRUE
    /\ latest =>
         /\ "poll" \notin stale => polled # FALSE
         /\ "sample" \notin stale => sample # FALSE
         /\ "tick" \notin stale => input # FALSE
         /\ "ui" \notin stale => copy # FALSE

ClientInv == ClientTypeOK /\ CopiesHeld /\ FreshCopiesStop


LEMMA ClientStarts == ClientInit => ClientInv
BY DEF ClientInit, LatchInit, ClientInv, ClientTypeOK, LatchTypeOK, CopiesHeld,
       FreshCopiesStop, Flag, Copies

(* What the threads do to the latch, whichever service they do it for.     *)
LatchStep ==
  \/ Poll \/ Push
  \/ TickStart \/ TickMerge \/ TickStore \/ TickCheck
  \/ \E active, go \in BOOLEAN : TickSend(active, go)
  \/ \E operation \in {"stop", "gear", "drive"} : UiLoad(operation)
  \/ UiStop \/ UiGear \/ UiDrive

LatchInv == LatchTypeOK /\ CopiesHeld /\ FreshCopiesStop

LEMMA LatchPreserves == LatchInv /\ LatchStep => LatchInv'
<1> SUFFICES ASSUME LatchInv, LatchStep
             PROVE  LatchInv'
  OBVIOUS
<1> USE NothingAssumption DEF LatchInv, samplerVars, tickVars, uiVars
<1>1. CASE Poll
  <2>1. LatchTypeOK'
    BY <1>1 DEF LatchTypeOK, CopiesHeld, Flag, Copies, Poll, Fresh
  <2>2. CopiesHeld'
    BY <1>1 DEF LatchTypeOK, CopiesHeld, Flag, Poll, Fresh
  <2>3. FreshCopiesStop'
    BY <1>1 DEF LatchTypeOK, CopiesHeld, FreshCopiesStop, Flag, Copies, Poll, Fresh
  <2> QED BY <2>1, <2>2, <2>3
<1>2. CASE Push
  <2>1. LatchTypeOK'
    BY <1>2 DEF LatchTypeOK, CopiesHeld, Flag, Copies, Push, Taken
  <2>2. CopiesHeld'
    BY <1>2 DEF LatchTypeOK, CopiesHeld, Flag, Push, Taken
  <2>3. FreshCopiesStop'
    BY <1>2 DEF LatchTypeOK, CopiesHeld, FreshCopiesStop, Flag, Copies, Push, Taken
  <2> QED BY <2>1, <2>2, <2>3
<1>3. CASE TickStart
  <2>1. LatchTypeOK'
    <3>1. input' \in Flag /\ stale' \subseteq Copies
      BY <1>3 DEF TickStart, Taken, Fresh, LatchTypeOK, Flag, Copies
    <3> QED
      BY <1>3, <3>1 DEF TickStart, LatchTypeOK, Flag
  <2>2. CopiesHeld'
    BY <1>3 DEF LatchTypeOK, CopiesHeld, Flag, TickStart, Taken, Fresh
  <2>3. FreshCopiesStop'
    BY <1>3 DEF LatchTypeOK, CopiesHeld, FreshCopiesStop, Flag, Copies, TickStart, Taken, Fresh
  <2> QED BY <2>1, <2>2, <2>3
<1>4. CASE TickMerge
  <2>1. LatchTypeOK'
    <3>1. input \in BOOLEAN /\ tickAt' = "store" /\ lastPoll' = input
      BY <1>4 DEF TickMerge, CopiesHeld
    <3>2. input' \in BOOLEAN /\ stale' \subseteq Copies
      BY <1>4, <3>1 DEF TickMerge, Fresh, LatchTypeOK
    <3> QED
      BY <1>4, <3>1, <3>2 DEF TickMerge, LatchTypeOK, Flag
  <2>2. CopiesHeld'
    BY <1>4 DEF LatchTypeOK, CopiesHeld, Flag, TickMerge, Fresh
  <2>3. FreshCopiesStop'
    BY <1>4 DEF LatchTypeOK, CopiesHeld, FreshCopiesStop, Flag, Copies, TickMerge, Fresh
  <2> QED BY <2>1, <2>2, <2>3
<1>5. CASE TickStore
  <2>1. LatchTypeOK'
    BY <1>5 DEF LatchTypeOK, CopiesHeld, Flag, Copies, TickStore
  <2>2. CopiesHeld'
    BY <1>5 DEF LatchTypeOK, CopiesHeld, Flag, TickStore
  <2>3. FreshCopiesStop'
    BY <1>5 DEF LatchTypeOK, CopiesHeld, FreshCopiesStop, Flag, Copies, TickStore
  <2> QED BY <2>1, <2>2, <2>3
<1>6. CASE TickCheck
  <2>1. LatchTypeOK'
    BY <1>6 DEF LatchTypeOK, CopiesHeld, Flag, Copies, TickCheck
  <2>2. CopiesHeld'
    BY <1>6 DEF LatchTypeOK, CopiesHeld, Flag, TickCheck
  <2>3. FreshCopiesStop'
    BY <1>6 DEF LatchTypeOK, CopiesHeld, FreshCopiesStop, Flag, Copies, TickCheck
  <2> QED BY <2>1, <2>2, <2>3
<1>7. ASSUME NEW active \in BOOLEAN, NEW go \in BOOLEAN, TickSend(active, go)
      PROVE  LatchInv'
  <2>1. LatchTypeOK'
    <3>1. latest' \in BOOLEAN /\ device' \in BOOLEAN /\ stale' \subseteq Copies
      BY <1>7 DEF LatchTypeOK, TickSend, Latch, SyncDevice
    <3>2. /\ polled' \in Flag /\ sample' \in Flag /\ input' \in Flag
          /\ sent' \in {"nothing", "drive", "neutral", "brake"} /\ tickAt' = "wait"
      BY <1>7 DEF LatchTypeOK, Flag, TickSend, SyncDevice
    <3> QED
      BY <1>7, <3>1, <3>2 DEF TickSend, LatchTypeOK
  <2>2. CopiesHeld'
    BY <1>7 DEF LatchTypeOK, CopiesHeld, Flag, TickSend, Latch, SyncDevice
  <2>3. FreshCopiesStop'
    BY <1>7 DEF LatchTypeOK, CopiesHeld, FreshCopiesStop, Flag, Copies, TickSend, Latch, SyncDevice
  <2> QED BY <2>1, <2>2, <2>3
<1>8. ASSUME NEW operation \in {"stop", "gear", "drive"}, UiLoad(operation)
      PROVE  LatchInv'
  <2>1. LatchTypeOK'
    BY <1>8 DEF LatchTypeOK, CopiesHeld, Flag, Copies, UiLoad, Fresh
  <2>2. CopiesHeld'
    BY <1>8 DEF LatchTypeOK, CopiesHeld, Flag, UiLoad, Fresh
  <2>3. FreshCopiesStop'
    BY <1>8 DEF LatchTypeOK, CopiesHeld, FreshCopiesStop, Flag, Copies, UiLoad, Fresh
  <2> QED BY <2>1, <2>2, <2>3
<1>9. CASE UiStop
  <2>1. LatchTypeOK'
    BY <1>9 DEF LatchTypeOK, CopiesHeld, Flag, Copies, UiStop, Latch, SyncDevice
  <2>2. CopiesHeld'
    BY <1>9 DEF LatchTypeOK, CopiesHeld, Flag, UiStop, Latch, SyncDevice
  <2>3. FreshCopiesStop'
    BY <1>9 DEF LatchTypeOK, CopiesHeld, FreshCopiesStop, Flag, Copies, UiStop, Latch, SyncDevice
  <2> QED BY <2>1, <2>2, <2>3
<1>10. CASE UiGear
  <2>1. LatchTypeOK'
    <3>1. /\ latest' \in BOOLEAN /\ device' \in BOOLEAN /\ stopped' \in BOOLEAN
          /\ polled' \in Flag /\ sample' \in Flag
      BY <1>10 DEF LatchTypeOK, Flag, UiGear, SyncDevice
    <3> QED BY <1>10, <3>1 DEF LatchTypeOK, Flag, UiGear
  <2>2. CopiesHeld'
    BY <1>10 DEF LatchTypeOK, CopiesHeld, Flag, UiGear, SyncDevice
  <2>3. FreshCopiesStop'
    BY <1>10 DEF LatchTypeOK, CopiesHeld, FreshCopiesStop, Flag, Copies, UiGear, SyncDevice
  <2> QED BY <2>1, <2>2, <2>3
<1>11. CASE UiDrive
  <2>1. LatchTypeOK'
    BY <1>11 DEF LatchTypeOK, CopiesHeld, Flag, Copies, UiDrive
  <2>2. CopiesHeld'
    BY <1>11 DEF LatchTypeOK, CopiesHeld, Flag, UiDrive
  <2>3. FreshCopiesStop'
    BY <1>11 DEF LatchTypeOK, CopiesHeld, FreshCopiesStop, Flag, Copies, UiDrive
  <2> QED BY <2>1, <2>2, <2>3
<1> QED
  BY <1>1, <1>2, <1>3, <1>4, <1>5, <1>6, <1>7, <1>8, <1>9, <1>10, <1>11
     DEF LatchStep


(* The monitor takes no part in that, and the tick waits for its check.    *)
LEMMA ClientPreserves == ClientInv /\ [ClientNext]_clientVars => ClientInv'
<1> SUFFICES ASSUME ClientInv, [ClientNext]_clientVars
             PROVE  ClientInv'
  OBVIOUS
<1>1. LatchInv
  BY DEF ClientInv, ClientTypeOK, LatchInv
<1>2. ASSUME LatchStep PROVE LatchInv'
  BY <1>1, <1>2, LatchPreserves
<1>3. ASSUME UNCHANGED latchVars PROVE LatchInv'
  <2>1. LatchTypeOK'
    BY <1>1, <1>3 DEF latchVars, LatchInv, LatchTypeOK
  <2>2. CopiesHeld' /\ FreshCopiesStop'
    BY <1>1, <1>3 DEF latchVars, LatchInv, CopiesHeld, FreshCopiesStop
  <2> QED BY <2>1, <2>2 DEF LatchInv
<1> DEFINE MonitorOK ==
             /\ emergencyActive \in BOOLEAN /\ allSystemsGo \in BOOLEAN
             /\ mqttConnected \in BOOLEAN /\ ok \in Flag
             /\ ok # Nothing => tickAt = "wait"
<1>4. MonitorOK
  BY DEF ClientInv, ClientTypeOK
<1>5. SUFFICES LatchInv' /\ MonitorOK'
  BY DEF ClientInv, ClientTypeOK, LatchInv
<1>6. CASE Sample
  BY <1>2, <1>4, <1>6 DEF Sample, LatchStep, monitorVars, Poll, Push, tickVars
<1>7. CASE Tick
  <2>1. TickStart \/ TickMerge \/ TickStore \/ TickCheck
          \/ TickSend(emergencyActive, allSystemsGo)
    BY <1>7 DEF Tick
  <2>2. LatchStep
    BY <1>4, <2>1 DEF LatchStep
  <2> QED BY <1>2, <1>4, <1>7, <2>2 DEF Tick, monitorVars
<1>8. CASE UiBegin
  BY <1>2, <1>4, <1>8 DEF UiBegin, LatchStep, monitorVars, UiLoad, tickVars
<1>9. CASE UiEnd
  BY <1>2, <1>4, <1>9
     DEF UiEnd, LatchStep, monitorVars, UiStop, UiGear, UiDrive, tickVars
<1>10. CASE TriggerEmergencyStop \/ BreakerRead \/ BreakerWrite \/ LinkChanges
  <2>1. UNCHANGED latchVars
    BY <1>10 DEF TriggerEmergencyStop, BreakerRead, BreakerWrite, LinkChanges
  <2>2. MonitorOK'
    BY <1>4, <1>10, NothingAssumption
       DEF TriggerEmergencyStop, BreakerRead, BreakerWrite, LinkChanges, latchVars, Flag
  <2> QED BY <1>3, <2>1, <2>2
<1>11. CASE ClearStop \/ CloseBreaker
  <2>1. /\ UNCHANGED <<latest, device, samplerVars, tickVars, copy, sent, stopped, stale>>
        /\ uiAt' \in {"free", "clear"}
    BY <1>11 DEF ClearStop, CloseBreaker
  <2>2. LatchTypeOK'
    BY <1>1, <2>1 DEF samplerVars, tickVars, LatchInv, LatchTypeOK
  <2>3. CopiesHeld' /\ FreshCopiesStop'
    BY <1>1, <2>1 DEF samplerVars, tickVars, LatchInv, CopiesHeld, FreshCopiesStop
  <2>4. MonitorOK'
    BY <1>4, <1>11 DEF ClearStop, CloseBreaker, tickVars
  <2> QED BY <2>2, <2>3, <2>4 DEF LatchInv
<1>12. CASE UNCHANGED clientVars
  BY <1>3, <1>4, <1>12 DEF clientVars, latchVars
<1> QED
  BY <1>6, <1>7, <1>8, <1>9, <1>10, <1>11, <1>12 DEF ClientNext

LEMMA ClientInvAlways == ClientSpec => []ClientInv
BY ClientStarts, ClientPreserves, PTL DEF ClientSpec

(* Correctness of the types of VehicleControlService and the monitor: a    *)
(* thread between its load and its store has a flag to store, and the      *)
(* breaker is checked only between two ticks, which share its thread.      *)
THEOREM ClientTypes == ClientSpec => []ClientTypeOK
<1>1. ClientInv => ClientTypeOK
  BY DEF ClientInv
<1> QED BY <1>1, ClientInvAlways, PTL

(* However the UI thread, the worker and the sampler interleave their      *)
(* loads and stores, a stop the operator has latched goes again only       *)
(* because a thread stores a copy it took before the stop.                 *)
THEOREM StopIsKept == ClientSpec => StopLostOnlyByStaleCopy
<1> DEFINE Lost == stopped /\ stopped' /\ latest /\ ~latest'
           ByStaleCopy == \/ TickStore /\ "tick" \in stale
                          \/ UiDrive /\ "ui" \in stale
<1>1. ClientInv /\ [ClientNext]_clientVars => [Lost => ByStaleCopy]_latchVars
  <2> SUFFICES ASSUME ClientInv, [ClientNext]_clientVars, Lost
               PROVE  ByStaleCopy
    OBVIOUS
  <2>1. CASE TickStore
    <3>1. tickAt = "store" /\ latest' = input
      BY <2>1 DEF TickStore
    <3>2. input = FALSE
      BY <3>1 DEF ClientInv, CopiesHeld
    <3> QED
      BY <2>1, <3>2 DEF ClientInv, FreshCopiesStop
  <2>2. CASE UiDrive
    <3>1. uiAt = "drive" /\ latest' = copy
      BY <2>2 DEF UiDrive
    <3>2. copy = FALSE
      BY <3>1 DEF ClientInv, CopiesHeld
    <3> QED
      BY <2>2, <3>2 DEF ClientInv, FreshCopiesStop
  <2>3. CASE ~TickStore /\ ~UiDrive
    <3>1. CASE Sample \/ UiBegin
      BY <3>1 DEF Sample, UiBegin, Poll, Push, UiLoad
    <3>2. CASE Tick
      BY <2>3, <3>2 DEF Tick, TickStart, TickMerge, TickCheck, TickSend, Latch
    <3>3. CASE UiEnd
      BY <2>3, <3>3 DEF UiEnd, UiStop, UiGear, Latch
    <3>4. CASE \/ TriggerEmergencyStop \/ BreakerRead \/ BreakerWrite
               \/ LinkChanges \/ ClearStop \/ CloseBreaker
      BY <3>4
         DEF TriggerEmergencyStop, BreakerRead, BreakerWrite, LinkChanges, ClearStop,
             CloseBreaker, latchVars
    <3>5. CASE UNCHANGED clientVars
      BY <3>5 DEF clientVars
    <3> QED
      BY <3>1, <3>2, <3>3, <3>4, <3>5 DEF ClientNext
  <2> QED BY <2>1, <2>2, <2>3
<1> QED
  BY <1>1, ClientInvAlways, PTL DEF ClientSpec, StopLostOnlyByStaleCopy

-----------------------------------------------------------------------------
(* The latch and what is sent.                                             *)

(* A tick that looks the stop up and sends holds the stop, if one is       *)
(* latched and the tick has not read the flag before that.                 *)
FreshTickStops ==
  tickAt \in {"check", "send"} /\ latest /\ "tick" \notin stale => input = TRUE

(* A tick sends last of all. *)
NotSentYet == tickAt # "wait" => sent = "nothing"

TickInv == ClientInv /\ FreshTickStops /\ NotSentYet

(* The control tick brakes while the stop is latched, or leaves it to the  *)
(* monitor, whose own stop makes the request return at once; it does not   *)
(* drive unless it has read the flag before the stop.                      *)
LatchedTickBrakes ==
  [][tickAt = "send" /\ tickAt' # "send" /\ latest /\ "tick" \notin stale
       => sent' = IF emergencyActive THEN "nothing" ELSE "brake"]_clientVars

LEMMA TickStarts == ClientInit => TickInv
BY ClientStarts DEF ClientInit, LatchInit, TickInv, FreshTickStops, NotSentYet

(* The sampler and the UI thread: a stop that they latch makes the tick's  *)
(* copy an old one.                                                        *)
LEMMA OthersKeepTick ==
  ASSUME TickInv, UNCHANGED <<tickAt, input, sent>>,
         \/ UNCHANGED <<latest, stale>>
         \/ UNCHANGED latest /\ ("tick" \in stale => "tick" \in stale')
         \/ latest' = FALSE
         \/ "tick" \in stale'
  PROVE  FreshTickStops' /\ NotSentYet'
BY DEF TickInv, FreshTickStops, NotSentYet

LEMMA TickKept ==
  ASSUME TickInv, [ClientNext]_clientVars
  PROVE  FreshTickStops' /\ NotSentYet'
<1>1. CASE Poll \/ Push
  BY <1>1, OthersKeepTick DEF Poll, Push, Fresh, Taken, tickVars
<1>2. CASE TickStart
  BY <1>2 DEF TickStart, FreshTickStops, NotSentYet
<1>3. CASE TickMerge
  BY <1>3 DEF TickMerge, TickInv, FreshTickStops, NotSentYet
<1>4. CASE TickStore
  <2>1. input \in BOOLEAN /\ tickAt = "store"
    BY <1>4 DEF TickStore, TickInv, ClientInv, CopiesHeld
  <2> QED BY <1>4, <2>1 DEF TickStore, TickInv, FreshTickStops, NotSentYet
<1>5. CASE TickCheck
  BY <1>5 DEF TickCheck, TickInv, FreshTickStops, NotSentYet
<1>6. ASSUME NEW active, NEW go, TickSend(active, go)
      PROVE  FreshTickStops' /\ NotSentYet'
  BY <1>6 DEF TickSend, FreshTickStops, NotSentYet
<1>7. ASSUME NEW operation, UiLoad(operation)
      PROVE  FreshTickStops' /\ NotSentYet'
  BY <1>7, OthersKeepTick DEF UiLoad, Fresh, tickVars
<1>8. CASE UiStop
  BY <1>8, OthersKeepTick DEF UiStop, Latch, Copies, tickVars
<1>9. CASE UiGear
  BY <1>9, OthersKeepTick DEF UiGear, tickVars
<1>10. CASE UiDrive
  <2>1. copy \in BOOLEAN /\ latest \in BOOLEAN
    BY <1>10 DEF UiDrive, TickInv, ClientInv, CopiesHeld, ClientTypeOK, LatchTypeOK
  <2> QED BY <1>10, <2>1, OthersKeepTick DEF UiDrive, Copies, tickVars
<1>11. CASE UNCHANGED <<tickAt, input, sent, latest, stale>>
  BY <1>11, OthersKeepTick
<1> QED
  BY <1>1, <1>2, <1>3, <1>4, <1>5, <1>6, <1>7, <1>8, <1>9, <1>10, <1>11
     DEF ClientNext, Sample, Tick, UiBegin, UiEnd, TriggerEmergencyStop, BreakerRead,
         BreakerWrite, ClearStop, CloseBreaker, LinkChanges, clientVars, latchVars, tickVars

LEMMA TickInvAlways == ClientSpec => []TickInv
<1>1. TickInv /\ [ClientNext]_clientVars => TickInv'
  BY ClientPreserves, TickKept DEF TickInv
<1> QED BY <1>1, TickStarts, PTL DEF ClientSpec

(* While requestEmergencyStop is latched no tick of VehicleControlService  *)
(* sends a driving or a neutral command, unless it has read the flag       *)
(* before: it sends the brake, or nothing while the monitor's own stop is  *)
(* active.                                                                 *)
THEOREM LatchStopsTick == ClientSpec => LatchedTickBrakes
<1> DEFINE Sends == tickAt = "send" /\ tickAt' # "send" /\ latest /\ "tick" \notin stale
           Brakes == sent' = IF emergencyActive THEN "nothing" ELSE "brake"
<1>1. TickInv /\ [ClientNext]_clientVars => [Sends => Brakes]_clientVars
  <2> SUFFICES ASSUME TickInv, ClientNext, Sends
               PROVE  Brakes
    BY DEF clientVars
  <2>1. input = TRUE /\ sent = "nothing"
    BY DEF TickInv, FreshTickStops, NotSentYet
  <2>2. TickSend(emergencyActive, allSystemsGo)
    BY DEF ClientNext, Sample, Poll, Push, Tick, TickStart, TickMerge, TickStore, TickCheck,
           UiBegin, UiLoad, UiEnd, UiStop, UiGear, UiDrive, TriggerEmergencyStop,
           BreakerRead, BreakerWrite, ClearStop, CloseBreaker, LinkChanges, latchVars, tickVars
  <2>3. emergencyActive \in BOOLEAN
    BY DEF TickInv, ClientInv, ClientTypeOK
  <2> QED BY <2>1, <2>2, <2>3 DEF TickSend
<1> QED BY <1>1, TickInvAlways, PTL DEF ClientSpec, LatchedTickBrakes

=============================================================================
