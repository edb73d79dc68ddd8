---------------------------- MODULE CommandAudit ----------------------------
(***************************************************************************)
(* What the command audit trail promises a reader of command_records: a    *)
(* command has at most one row, the row is first "issued" or already       *)
(* carries an outcome, an outcome is one a device has really reported for  *)
(* that command, and a row that carries an outcome never goes back to      *)
(* being merely issued.  CommandLedger implements this.                    *)
(***************************************************************************)

CONSTANT Ids

Outcomes == {"acked", "failed"}

VARIABLES
    reported,   \* the outcomes devices have reported for each command
    row         \* what command_records says of each command

vars == <<reported, row>>

Init == /\ reported = [id \in Ids |-> {}]
        /\ row = [id \in Ids |-> "absent"]

\* A device reports the outcome of a command.
Report(id, o) == /\ reported' = [reported EXCEPT ![id] = @ \cup {o}]
                 /\ UNCHANGED row

\* The platform records that it has issued a command.
Issue(id) == /\ row[id] = "absent"
             /\ row' = [row EXCEPT ![id] = "issued"]
             /\ UNCHANGED reported

\* The platform records an outcome.
Settle(id, o) == /\ o \in reported[id]
                 /\ row' = [row EXCEPT ![id] = o]
                 /\ UNCHANGED reported

Next == \E id \in Ids :
           \/ Issue(id)
           \/ \E o \in Outcomes : Report(id, o) \/ Settle(id, o)

Spec == Init /\ [][Next]_vars
=============================================================================
