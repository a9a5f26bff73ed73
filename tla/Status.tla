------------------------------- MODULE Status -------------------------------
(***************************************************************************)
(* The life cycle of a register item: core/Status.java.                    *)
(* Status values are the names of the enum constants.                      *)
(***************************************************************************)

Statuses ==
    {"NotAccepted", "Submitted", "Reserved", "Invalid", "Accepted", "Valid",
     "Experimental", "Stable", "Deprecated", "Superseded", "Retired", "Any"}

isNotAccepted(s) == s \in {"Submitted", "Invalid", "NotAccepted", "Reserved"}

isAccepted(s) == ~ isNotAccepted(s)

(***************************************************************************)
(* s may follow `from' in the life cycle.  A status may always be set      *)
(* again, and every status may become Invalid.                             *)
(***************************************************************************)
legalNextState(from, s) ==
    \/ s = from
    \/ s = "Experimental" /\ from = "Submitted"
    \/ s = "Stable" /\ from \in {"Submitted", "Experimental"}
    \/ /\ s \in {"Retired", "Superseded"}
       /\ from \in {"Experimental", "Stable", "Accepted", "Valid"}
    \/ s = "Invalid"
    \/ s = "Submitted" /\ from = "Reserved"

(***************************************************************************)
(* s belongs to the category `target'.                                     *)
(***************************************************************************)
isA(s, target) ==
    \/ target \in {s, "Any"}
    \/ target = "NotAccepted" /\ s \in {"Submitted", "Invalid", "Reserved"}
    \/ target \in {"Accepted", "Valid"} /\ s \in {"Experimental", "Stable"}
    \/ target = "Accepted" /\ s \in {"Valid", "Deprecated"}
    \/ target \in {"Accepted", "Deprecated"} /\ s \in {"Superseded", "Retired"}
=============================================================================
