---------------------------- MODULE ReplayFilter ----------------------------
(***************************************************************************)
(* The replay and freshness check at the head of                           *)
(* VehicleController::processCommand.  A command carries a sequence number *)
(* and a time stamp; the vehicle remembers those of the last command it    *)
(* accepted.                                                               *)
(*                                                                         *)
(* The code never looks at an absolute time: it compares the distance of a *)
(* stamp from the clock with a window.  A stamp is therefore represented   *)
(* by its age, and the zero the code uses for "no stamp" by NoStamp.  An   *)
(* age is negative when the sender's clock is ahead of the vehicle's.      *)
(***************************************************************************)
EXTENDS Integers

CONSTANT
  StampWindow   \* 2000 ms: how far a stamp may lie from the clock

NoStamp == -1000000   \* timestampMs == 0, m_lastCmdTimestamp == 0

(* Zero lies decades before any clock reading.                             *)
ASSUME StampWindowAssumption == StampWindow \in Nat /\ StampWindow < -NoStamp

Distance(age) == IF age >= 0 THEN age ELSE -age

(* |now - timestampMs| > 2000, which is also true of the stamp zero.       *)
Expired(age) == age = NoStamp \/ Distance(age) > StampWindow

(* Mutant: the last number itself is let through.                          *)
Replayed_Strict(seq, lastSeq, lastAge) ==
  /\ seq < lastSeq
  /\ lastAge = NoStamp \/ ~Expired(lastAge)

(* Mutant: only the last number is recognised.                             *)
Replayed_LastOnly(seq, lastSeq, lastAge) ==
  /\ seq = lastSeq
  /\ lastAge = NoStamp \/ ~Expired(lastAge)

(* Mutant: no number ever counts as a restart.                             *)
Replayed_NoReset(seq, lastSeq, lastAge) == seq <= lastSeq

(* The sequence number does not exceed the last one, and the last accepted *)
(* command is not old enough for the number to count as a restart.         *)
Replayed(seq, lastSeq, lastAge) ==
  /\ seq <= lastSeq
  /\ lastAge = NoStamp \/ ~Expired(lastAge)

(* The very first stamped command is exempt from the freshness check.      *)
OutOfWindow(age, lastAge) ==
  /\ lastAge # NoStamp
  /\ Expired(age)

(* Sequence number zero switches the whole check off.                      *)
Accepts(seq, age, lastSeq, lastAge) ==
  \/ seq = 0
  \/ /\ ~Replayed(seq, lastSeq, lastAge)
     /\ ~OutOfWindow(age, lastAge)

(* A number that counts as a restart is stored before the freshness check: *)
(* a command that then fails that check has already lowered the mark.      *)
MarkAfterReject(seq, lastSeq, lastAge) ==
  IF seq <= lastSeq /\ ~Replayed(seq, lastSeq, lastAge) THEN seq ELSE lastSeq

=============================================================================
