------------------------ MODULE MCVehicleController -------------------------
(***************************************************************************)
(* VehicleController with every method callable at any moment, by any      *)
(* thread, with any argument.  One time unit stands for 150 ms: SURVIVAL   *)
(* begins after one, the watchdog fires after three, a network is degraded *)
(* above one and critical above two, and a stamp is valid for four.        *)
(***************************************************************************)
EXTENDS VehicleController

(* Full throttle steering left, and a brake out of range in a gear that    *)
(* does not exist.                                                         *)
MCCommands ==
  { [steering |-> -10, throttle |-> 10, brake |-> 0,  gear |-> 1],
    [steering |-> 10,  throttle |-> 0,  brake |-> 12, gear |-> 5] }

=============================================================================
