--------------------------- MODULE MCVehicleSide ---------------------------
(***************************************************************************)
(* VehicleSide on small sets.  A time unit is as in MCVehicleController,   *)
(* but the timeout comes one unit earlier: SURVIVAL has one step.  A       *)
(* message may arrive at once, late enough for a degraded network, or late *)
(* enough for a critical one.                                              *)
(***************************************************************************)
EXTENDS VehicleSide

(* Full throttle to the left.                                              *)
MCDrive == { [steering |-> -10, throttle |-> 10, brake |-> 0, gear |-> 1] }

(* Takeovers and every kind of command, one for a gear that does not       *)
(* exist.  The sweeper, whose state nothing here depends on, stays off.    *)
MCMessages ==
  { [type |-> "remote_control", enable |-> TRUE,  session |-> CHOOSE s \in Sessions : TRUE],
    [type |-> "remote_control", enable |-> FALSE, session |-> CHOOSE s \in Sessions : TRUE],
    [type |-> "gear", value |-> 7],
    [type |-> "brake", value |-> 5],
    [type |-> "emergency_stop", enable |-> TRUE],
    [type |-> "emergency_stop", enable |-> FALSE],
    [type |-> "sweep", active |-> FALSE],
    [type |-> "inert"] }
  \cup { [type |-> "drive", cmd |-> c, emergency |-> n = 0, seq |-> n] :
            c \in MCDrive, n \in 0 .. 1 }
=============================================================================
