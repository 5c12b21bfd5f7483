---------------------------- MODULE MCReminders ----------------------------
(* Instances of Reminders for TLC. *)
EXTENDS Reminders

CONSTANTS p1, p2, r1

TwoOccurrences == [r \in Ids |-> 2]
OneOccurrence == [r \in Ids |-> 1]
=============================================================================
