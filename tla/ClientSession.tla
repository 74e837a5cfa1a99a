---------------------------- MODULE ClientSession ----------------------------
(***************************************************************************)
(* The client from login to logout, on its UI thread: AuthManager and its  *)
(* tokens, VehicleManager and the request for a session, SessionManager    *)
(* that starts and stops the services, the state machine and the pages of  *)
(* the user interface that decide what the operator can do.                *)
(*                                                                         *)
(* Requests are answered late, in error or never.  The services are their  *)
(* flags; what they do is in ControlLatch and ClientSafety.  A session is  *)
(* named by its vehicle.                                                   *)
(***************************************************************************)
EXTENDS SystemStateMachine

CONSTANTS Vins, None

VARIABLES
  auth,      \* AuthManager
  had,       \* SessionManager::m_hadSuccessfulLogin
  vin,       \* VehicleManager::m_currentVin
  selected,  \* SessionManager::m_selectedVin
  request,   \* the vehicle a session is asked for (RemoteSessionClient)
  services,  \* control loop, safety checks, and whose session they use
  ready,     \* the driving page is shown
  fsm,       \* the state machine
  enabled,   \* VehicleStatus::m_remoteControlEnabled
  orphan     \* history: the services run for nobody; see StopsAtLogout

vars == <<auth, had, vin, selected, request, services, ready, fsm, enabled,
          orphan>>

ASSUME SessionAssumption == None \notin Vins

Choice == Vins \cup {None}
(* "old": the token expires within five minutes.                           *)
Tokens == {"none", "fresh", "old", "expired"}
NewTokens == {"fresh", "old"}

Auths ==
  [in : BOOLEAN,           \* m_isLoggedIn
   token : Tokens,         \* m_authToken and m_tokenExpiresIn
   renewable : BOOLEAN,    \* m_refreshToken is not empty
   timer : BOOLEAN,        \* m_tokenExpiryTimer is running
   asking : BOOLEAN,       \* m_currentReply: a login is under way
   renewing : BOOLEAN,     \* m_refreshReply: a refresh is under way
   kept : BOOLEAN]         \* history: the login is from an earlier run

Services ==
  [control : BOOLEAN,      \* VehicleControlService::m_running
   safety : BOOLEAN,       \* SafetyMonitorService::m_started
   creds : Choice,         \* m_activeContext
   mqtt : Choice]          \* MqttController::m_sessionId
Stopped == [control |-> FALSE, safety |-> FALSE, creds |-> None, mqtt |-> None]

SessionTypeOK ==
  /\ auth \in Auths
  /\ {had, ready, enabled, orphan} \subseteq BOOLEAN
  /\ {vin, selected, request} \subseteq Choice
  /\ services \in Services /\ services.control = services.safety
  /\ services.control => services.creds # None
  /\ fsm \in SystemStates

(* A login may be kept from the last run.                                  *)
SessionInit ==
  /\ \E in \in BOOLEAN :
       auth \in [in : {in}, token : IF in THEN Tokens \ {"none"} ELSE {"none"},
                 renewable : BOOLEAN, timer : {in}, asking : {FALSE},
                 renewing : {FALSE}, kept : {in}]
  /\ had = FALSE
  /\ vin = None /\ selected = None /\ request = None
  /\ services = Stopped /\ ready = FALSE
  /\ fsm = "IDLE" /\ enabled = FALSE /\ orphan = FALSE

(* Mutant: nobody looks for a confirmation that came first.                *)
Fired_Plain(trigger) == fsm' = Step(fsm, trigger)

(* What main.cpp connects to stateChanged: a takeover the vehicle has      *)
(* confirmed already takes the machine from PRE_FLIGHT to driving.         *)
Fired(trigger) ==
  LET next == Step(fsm, trigger) IN
  fsm' = IF next = "PRE_FLIGHT" /\ Reported(fsm) # next /\ enabled
           THEN Step(next, "PREFLIGHT_OK") ELSE next

StopServices == services' = Stopped /\ orphan' = FALSE

-----------------------------------------------------------------------------
(* AuthManager.                                                            *)

Login ==
  /\ ~auth.in
  /\ auth' = [auth EXCEPT !.asking = TRUE]
  /\ UNCHANGED <<had, vin, selected, request, services, ready, fsm, enabled, orphan>>

(* Mutant: SessionManager does not note the login.                         *)
LoginAnswered_NotNoted ==
  /\ auth.asking
  /\ \E token \in NewTokens, renewable \in BOOLEAN :
       auth' = [auth EXCEPT !.asking = FALSE, !.in = TRUE, !.token = token,
                  !.renewable = renewable, !.timer = TRUE, !.kept = FALSE]
  /\ Fired("AUTH_SUCCESS")
  /\ UNCHANGED <<had, vin, selected, request, services, ready, enabled, orphan>>

(* onLoginReply, and onLoginSucceeded.                                     *)
LoginAnswered ==
  /\ auth.asking
  /\ \E token \in NewTokens, renewable \in BOOLEAN :
       auth' = [auth EXCEPT !.asking = FALSE, !.in = TRUE, !.token = token,
                  !.renewable = renewable, !.timer = TRUE, !.kept = FALSE]
  /\ had' = TRUE
  /\ Fired("AUTH_SUCCESS")
  /\ UNCHANGED <<vin, selected, request, services, ready, enabled, orphan>>

LoginFails ==
  /\ auth.asking
  /\ auth' = [auth EXCEPT !.asking = FALSE]
  /\ UNCHANGED <<had, vin, selected, request, services, ready, fsm, enabled, orphan>>

(* Mutant: the control loop is left running.                               *)
OnLogout_ControlRuns ==
  IF had
    THEN /\ services' = [Stopped EXCEPT !.control = services.control]
         /\ orphan' = FALSE /\ Fired("LOGOUT")
    ELSE /\ UNCHANGED <<services, fsm>>
         /\ orphan' = (orphan \/ (services.control /\ auth.kept))

(* onLoginStatusChanged and onLogout: only a login of this run is undone.  *)
OnLogout ==
  IF had THEN StopServices /\ Fired("LOGOUT")
         ELSE /\ UNCHANGED <<services, fsm>>
         /\ orphan' = (orphan \/ (services.control /\ auth.kept))

(* The answers under way are awaited, and the refresh token stays in       *)
(* memory.  The user interface goes back to the login page.                *)
LogoutFrom(a) ==
  /\ auth' = [a EXCEPT !.in = FALSE, !.token = "none", !.timer = FALSE]
  /\ OnLogout
  /\ had' = FALSE /\ ready' = FALSE
  /\ UNCHANGED <<vin, selected, request, enabled>>

Logout == auth.in /\ LogoutFrom(auth)

KeepSession == UNCHANGED <<had, vin, selected, request, services, ready, fsm,
                           enabled, orphan>>

(* onTokenExpiryCheck.                                                     *)
TokenCheck ==
  /\ auth.timer /\ auth.in
  /\ \/ /\ auth.token \in {"old", "expired"} /\ auth.renewable
        /\ auth' = [auth EXCEPT !.renewing = TRUE] /\ KeepSession
     \/ /\ auth.token = "expired" /\ ~auth.renewable
        /\ LogoutFrom(auth)

(* onRefreshReply with a token, whether or not there was a logout.         *)
Refreshed ==
  /\ auth.renewing
  /\ \E token \in NewTokens, renewable \in {auth.renewable, TRUE} :
       auth' = [auth EXCEPT !.renewing = FALSE, !.token = token,
                  !.renewable = renewable]
  /\ KeepSession

(* An error is handled by errorOccurred, which takes the reply away from   *)
(* onRefreshReply and its retries.  An answer that is no JSON is dropped.  *)
RefreshFails ==
  /\ auth.renewing
  /\ auth' = [auth EXCEPT !.renewing = FALSE]
  /\ KeepSession

(* An answer without a token ends the login, but not while driving.        *)
RefreshRefused ==
  /\ auth.renewing
  /\ Reported(fsm) \notin Driven
  /\ LogoutFrom([auth EXCEPT !.renewing = FALSE])

TokenAges ==
  /\ auth.token \in NewTokens
  /\ auth' = [auth EXCEPT !.token = IF @ = "fresh" THEN "old" ELSE "expired"]
  /\ KeepSession

Authentication ==
  \/ Login \/ LoginAnswered \/ LoginFails \/ Logout \/ TokenCheck
  \/ Refreshed \/ RefreshFails \/ RefreshRefused \/ TokenAges

-----------------------------------------------------------------------------
(* The choice of a vehicle and its session.                                *)

SelectVehicle(v) ==
  /\ auth.in /\ ~ready
  /\ vin' = v /\ selected' = v
  /\ UNCHANGED <<auth, had, request, services, ready, fsm, enabled, orphan>>

(* onVinSelected with no vehicle: the list has lost it, or the operator    *)
(* resets the session (SessionManager::stop).                              *)
ClearVin ==
  /\ vin' = None /\ selected' = None /\ StopServices
  /\ UNCHANGED <<auth, had, request, fsm, enabled>>

VehicleGone == vin # None /\ ClearVin /\ UNCHANGED ready
ResetSession == (vin # None \/ services.control) /\ ClearVin /\ ready' = FALSE

AskForSession ==
  /\ auth.in /\ ~ready /\ vin # None
  /\ request' = vin
  /\ UNCHANGED <<auth, had, vin, selected, services, ready, fsm, enabled, orphan>>

(* Mutant: the answer is taken although another vehicle has been chosen.   *)
SessionAnswered_Any ==
  /\ request # None
  /\ request' = None
  /\ selected' = request
  /\ services' = [control |-> TRUE, safety |-> TRUE, creds |-> request,
                  mqtt |-> request]
  /\ ready' = (ready \/ auth.in) /\ orphan' = ~auth.in
  /\ UNCHANGED <<auth, had, vin, fsm, enabled>>

(* onSessionCreated, unless another vehicle has been chosen meanwhile.     *)
(* The dialog closes, which opens the driving page.                        *)
SessionAnswered ==
  /\ request # None
  /\ request' = None
  /\ IF vin = request
       THEN /\ selected' = request
            /\ services' = [control |-> TRUE, safety |-> TRUE,
                            creds |-> request, mqtt |-> request]
            /\ ready' = (ready \/ auth.in) /\ orphan' = ~auth.in
       ELSE UNCHANGED <<selected, services, ready, orphan>>
  /\ UNCHANGED <<auth, had, vin, fsm, enabled>>

SessionFails ==
  /\ request # None
  /\ request' = None
  /\ UNCHANGED <<auth, had, vin, selected, services, ready, fsm, enabled, orphan>>

DialogCloses ==
  /\ auth.in /\ ~ready /\ vin # None
  /\ ready' = TRUE
  /\ UNCHANGED <<auth, had, vin, selected, request, services, fsm, enabled, orphan>>

Session ==
  \/ \E v \in Vins : SelectVehicle(v)
  \/ VehicleGone \/ ResetSession
  \/ AskForSession \/ SessionAnswered \/ SessionFails \/ DialogCloses

-----------------------------------------------------------------------------
(* The state machine.                                                      *)

KeepAllButFsm == UNCHANGED <<auth, had, vin, selected, request, services, ready,
                             orphan>>

(* The takeover button, the loss of the video and the emergency button of  *)
(* the driving page.                                                       *)
Button ==
  /\ ready
  /\ \E trigger \in {"START_SESSION", "STOP_SESSION", "EMERGENCY_STOP"} :
       Fired(trigger)
  /\ KeepAllButFsm /\ UNCHANGED enabled

(* triggerEmergencyStop                                                    *)
SafetyStops ==
  /\ services.safety
  /\ Fired("EMERGENCY_STOP")
  /\ KeepAllButFsm /\ UNCHANGED enabled

(* clearEmergency                                                          *)
ClearEmergency ==
  /\ \/ Reported(fsm) = "EMERGENCY" /\ Fired("RECOVER")
     \/ Reported(fsm) = "STOPPING" /\ Fired("RESET")
  /\ KeepAllButFsm /\ UNCHANGED enabled

(* A status message; main.cpp confirms the takeover to the machine.        *)
StatusSaysEnabled ==
  /\ ~enabled /\ enabled' = TRUE
  /\ fsm' = IF Reported(fsm) = "PRE_FLIGHT" THEN Step(fsm, "PREFLIGHT_OK") ELSE fsm
  /\ KeepAllButFsm
StatusSaysDisabled ==
  /\ enabled /\ enabled' = FALSE
  /\ KeepAllButFsm /\ UNCHANGED fsm

Driving ==
  Button \/ SafetyStops \/ ClearEmergency \/ StatusSaysEnabled \/ StatusSaysDisabled

SessionNext == Authentication \/ Session \/ Driving

SessionSpec == SessionInit /\ [][SessionNext]_vars

-----------------------------------------------------------------------------
(* Commands are sent for the session of the vehicle that is chosen,        *)
(* whatever answers come late and whoever changes the choice.              *)
OneVehicle ==
  services.control /\ ~orphan => {services.creds, services.mqtt, selected} = {vin}

(* A logout stops the services.  Two ways around it are known: a login     *)
(* that was kept from an earlier run is never noted, and the answer to a   *)
(* request for a session may come after the logout (orphan).               *)
StopsAtLogout == services.control /\ ~auth.in => orphan

(* Whichever comes first, the takeover or its confirmation: the machine    *)
(* does not wait for what has already come.                                *)
PreflightWaits == fsm = "PRE_FLIGHT" => ~enabled

(* test_systemstatemachine.cpp:46 expects heartbeats of the vehicle to be  *)
(* required once the takeover is confirmed.                                *)
HeartbeatWhileDriven == fsm \in Driven => HeartbeatRequired(fsm)
=============================================================================
