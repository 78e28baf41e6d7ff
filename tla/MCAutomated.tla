---------------------------- MODULE MCAutomated ----------------------------
(***************************************************************************)
(* Automations and single sends for TLC.                                   *)
(***************************************************************************)
EXTENDS Automated, TLC

\* New automations are inactive and unscheduled.
Fresh == {[type |-> t, active |-> FALSE, status |-> "created", valid |-> v, task |-> NoTask] :
            t \in Types, v \in BOOLEAN}

\* What the frontend sends: activation, another (unknown) period, deactivation, the
\* switch, and a type with an empty task id.
Sent == {[active |-> TRUE, status |-> "activated", valid |-> TRUE],
         [active |-> TRUE, valid |-> FALSE],
         [status |-> "deactivated"],
         [active |-> FALSE, status |-> "deactivated"],
         [type |-> "recurring", task |-> NoTask]}

CONSTANT MaxWork

\* Everything that is begun, and everything that goes wrong, counts as one.
Work ==
  count.updates + count.faults + disturbances
    + Cardinality({a \in Automation : automation[a] # Missing})
    + Cardinality({f \in Firing : firing[f].pc # "none"})
    + Cardinality({w \in Worker : optIn[w].pc # "idle"})
    + Cardinality({s \in Sms : send[s].pc # "none"})

MCNext == Next /\ Work' <= MaxWork

\* It may stop: everything is done, or the bound is reached.
MCSpec == Init /\ [][MCNext]_vars

NameSymmetry == Permutations(Contact) \cup Permutations(Phone) \cup Permutations(Worker)
  \cup Permutations(Sms) \cup Permutations(Automation) \cup Permutations(Writer)
=============================================================================
