------------------------------ MODULE DeadMan -------------------------------
(***************************************************************************)
(* What the vehicle side promises, whatever threads it is made of.  The    *)
(* vehicle is driven only while commands keep coming, and it is set in     *)
(* motion only by a command that was admitted while an operator held the   *)
(* takeover.  The takeover ends when it is handed back, or because the     *)
(* operator fell silent; never for another reason.                         *)
(***************************************************************************)
EXTENDS Integers

CONSTANTS
  Timeout,   \* silence after which the takeover may be taken away
  Grace,     \* how much later than that the vehicle is stopped at worst
  MaxSilence \* bound: silence is not counted beyond it

VARIABLES
  driven,    \* the vehicle executes commands of the operator
  granted,   \* an operator holds the takeover
  admitted,  \* a command has been let through and is about to act
  silence    \* time since a command last acted

deadManVars == <<driven, granted, admitted, silence>>

DeadManInit ==
  driven = FALSE /\ granted = FALSE /\ admitted = FALSE /\ silence = 0

Reset ==
  driven' = FALSE /\ granted' = FALSE /\ admitted' = FALSE /\ silence' = 0

Hand(on) ==
  /\ granted' = on
  /\ UNCHANGED <<driven, admitted, silence>>

Admit ==
  /\ granted /\ ~admitted
  /\ admitted' = TRUE
  /\ UNCHANGED <<driven, granted, silence>>

Drop ==
  /\ admitted
  /\ admitted' = FALSE
  /\ UNCHANGED <<driven, granted, silence>>

Act ==
  /\ admitted
  /\ admitted' = FALSE
  /\ driven' = TRUE
  /\ silence' = 0
  /\ UNCHANGED granted

Expire ==
  /\ silence > Timeout
  /\ driven' = FALSE
  /\ granted' = FALSE
  /\ UNCHANGED <<admitted, silence>>

Halt ==
  /\ driven' = FALSE
  /\ UNCHANGED <<granted, admitted, silence>>

Wait ==
  /\ driven => silence <= Timeout + Grace
  /\ silence' = IF silence < MaxSilence THEN silence + 1 ELSE silence
  /\ UNCHANGED <<driven, granted, admitted>>

DeadManNext ==
  \/ \E on \in BOOLEAN : Hand(on)
  \/ Admit \/ Drop \/ Act \/ Expire \/ Halt \/ Wait
  \/ Reset

DeadManSpec == DeadManInit /\ [][DeadManNext]_deadManVars

=============================================================================
