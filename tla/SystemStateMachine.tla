------------------------- MODULE SystemStateMachine -------------------------
(***************************************************************************)
(* The client's state machine: its transitions as a table, and what the    *)
(* rest of the client is told of its state.                                *)
(***************************************************************************)

(* The state of driving is a machine of its own, of two states.            *)
Driven == {"DRIVING", "DEGRADED"}
Plain == {"IDLE", "CONNECTING", "AUTHENTICATING", "READY", "PRE_FLIGHT",
          "EMERGENCY", "STOPPING", "ERROR"}
SystemStates == Plain \cup Driven

Transitions ==
  {<<"IDLE", "CONNECT", "CONNECTING">>,
   <<"IDLE", "AUTH_SUCCESS", "READY">>,
   <<"CONNECTING", "CONNECTED", "AUTHENTICATING">>,
   <<"AUTHENTICATING", "AUTH_SUCCESS", "READY">>,
   <<"AUTHENTICATING", "AUTH_FAILURE", "IDLE">>,
   <<"READY", "AUTH_SUCCESS", "READY">>,
   <<"READY", "LOGOUT", "IDLE">>,
   <<"READY", "START_SESSION", "PRE_FLIGHT">>,
   <<"READY", "CONNECTION_LOST", "IDLE">>,
   <<"PRE_FLIGHT", "PREFLIGHT_OK", "DRIVING">>,
   <<"PRE_FLIGHT", "PREFLIGHT_FAIL", "READY">>,
   <<"PRE_FLIGHT", "STOP_SESSION", "READY">>,
   <<"PRE_FLIGHT", "EMERGENCY_STOP", "READY">>,
   <<"DRIVING", "NETWORK_DEGRADE", "DEGRADED">>,
   <<"DEGRADED", "NETWORK_RECOVER", "DRIVING">>,
   <<"EMERGENCY", "RECOVER", "READY">>,
   <<"EMERGENCY", "STOP_SESSION", "STOPPING">>,
   <<"EMERGENCY", "LOGOUT", "IDLE">>,
   <<"STOPPING", "STOP_SESSION", "IDLE">>}
  \cup {<<f, "TIMEOUT", "IDLE">> : f \in {"CONNECTING", "AUTHENTICATING"}}
  \cup {<<f, t, "STOPPING">> : f \in Driven, t \in {"STOP_SESSION", "LOGOUT"}}
  \cup {<<f, t, "EMERGENCY">> :
          f \in Driven, t \in {"EMERGENCY_STOP", "CONNECTION_LOST"}}
  \cup {<<f, "RESET", "IDLE">> : f \in SystemStates \ {"IDLE"}}

(* A trigger without a transition is ignored.                              *)
Step(f, trigger) ==
  IF \E g \in SystemStates : <<f, trigger, g>> \in Transitions
    THEN CHOOSE g \in SystemStates : <<f, trigger, g>> \in Transitions
    ELSE f

(* stateEnum visits the states of the outer machine only, and the inner    *)
(* machine is none of those it knows: the initial value is returned.       *)
Reported(f) == IF f \in Driven THEN "IDLE" ELSE f

HeartbeatRequired(f) == Reported(f) \in Driven
=============================================================================
