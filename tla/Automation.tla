----------------------------- MODULE Automation -----------------------------
(***************************************************************************)
(* The automations of one user (AutomationService), the one PeriodicTask   *)
(* row that Celery beat reads for recurring ones, and what a firing does   *)
(* (create_and_dispatch_sms; the send itself is in BulkSend).              *)
(*                                                                         *)
(* update_automation saves first and then, in steps of its own, puts the   *)
(* schedule in place or removes it.  create_periodic_task reads the        *)
(* automation again and saves all of that copy.  The row has one fixed     *)
(* name: a second automation takes it over, with the same id.              *)
(***************************************************************************)
EXTENDS Integers, FiniteSets

CONSTANTS
  Automation,        \* primary keys
  Writer,            \* web workers that serve an update
  Firing,            \* times the schedule may fire
  NoTask, Missing,
  Created,           \* the rows create_automation may make
  Changes,           \* what a client may write: partial functions on the fields
  MaxUpdates,        \* updates and deletions in all
  DispatchRetries,   \* max_retries of create_and_dispatch_sms
  MaxAutomationFaults

Fields == {"type", "active", "status", "valid", "task"}
Types == {"welcome_user", "recurring"}
AutomationStatus == {"created", "activated", "deactivated"}
Column == [type |-> Types, active |-> BOOLEAN, status |-> AutomationStatus,
           valid |-> BOOLEAN, task |-> Nat \cup {NoTask}]
Row == [type : Types, active : BOOLEAN, status : AutomationStatus,
        valid : BOOLEAN, task : Nat \cup {NoTask}]
Task == [id : Nat, of : Automation]

\* create_automation takes neither a status nor a task: the row has the defaults.
ASSUME AutomationAssumption ==
  /\ Created \subseteq Row /\ \A f \in Created : f.status = "created"
  /\ \A f \in Changes : \A x \in DOMAIN f : x \in Fields /\ f[x] \in Column[x]
  /\ {MaxUpdates, DispatchRetries, MaxAutomationFaults} \subseteq Nat
  /\ NoTask \notin Nat
  /\ Missing \notin Automation \cup Row \cup Task

VARIABLES
  automation,        \* Automation rows, by key
  periodic,          \* the PeriodicTask row: its id and the automation it was made from
  lastTask,          \* the last id given to a PeriodicTask
  update,            \* update_automation, per web worker
  firing,            \* create_and_dispatch_sms tasks
  count,             \* updates and faults so far
  disturbed,         \* observer: automations whose updates overlapped, stopped half-way,
                     \*   failed, or wrote the task id, until they are scheduled again
  displaced          \* observer: automations another one's update took the row from

automationVars == <<automation, periodic, lastTask, update, firing, count, disturbed,
                    displaced>>
rows == <<automation, periodic, lastTask>>
observers == <<disturbed, displaced>>

NoUpdate == [pc |-> "idle", key |-> Missing, row |-> Missing]
NoFiring == [pc |-> "none", tries |-> 0, made |-> 0, sent |-> 0]

AutomationInit ==
  /\ automation = [a \in Automation |-> Missing]
  /\ periodic = Missing
  /\ lastTask = 0
  /\ update = [w \in Writer |-> NoUpdate]
  /\ firing = [f \in Firing |-> NoFiring]
  /\ count = [updates |-> 0, faults |-> 0]
  /\ disturbed = {} /\ displaced = {}

-----------------------------------------------------------------------------
(* create, update, destroy                                                 *)

\* Primary keys are not given out twice: one counts as new if nothing is left of it.
CreateAutomation(a, row) ==
  /\ automation[a] = Missing /\ a \notin disturbed \cup displaced
  /\ \A w \in Writer : update[w].key # a
  /\ periodic # Missing => periodic.of # a
  /\ automation' = [automation EXCEPT ![a] = row]
  /\ UNCHANGED <<periodic, lastTask, update, firing, count, observers>>

Busy(a) == \E w \in Writer : update[w].pc # "idle" /\ update[w].key = a

Alone(w) == \A v \in Writer \ {w} : update[v].key # update[w].key

\* Automation.objects.get
UpdateRead(w, a) ==
  /\ update[w].pc = "idle" /\ automation[a] # Missing
  /\ count.updates < MaxUpdates
  /\ update' = [update EXCEPT ![w] = [pc |-> "read", key |-> a, row |-> automation[a]]]
  /\ count' = [count EXCEPT !.updates = @ + 1]
  /\ disturbed' = IF Busy(a) THEN disturbed \cup {a} ELSE disturbed
  /\ UNCHANGED <<rows, firing, displaced>>

Recurring(row) == row.type = "recurring"
Runs(row) == Recurring(row) /\ row.active /\ row.status = "activated"
Stops(row) == Recurring(row) /\ row.status = "deactivated"

\* setattr for every field that was sent, and a save of all columns (which inserts
\* the row again when it was deleted).
UpdateSave(w, change) ==
  LET u == update[w]
      row == [f \in Fields |-> IF f \in DOMAIN change THEN change[f] ELSE u.row[f]] IN
  /\ u.pc = "read"
  /\ automation' = [automation EXCEPT ![u.key] = row]
  /\ update' = [update EXCEPT ![w] =
       IF Runs(row) THEN [u EXCEPT !.pc = "schedule", !.row = row]
       ELSE IF Stops(row) THEN [u EXCEPT !.pc = "unschedule", !.row = row]
       ELSE NoUpdate]
  /\ disturbed' = IF row.task # u.row.task \/ automation[u.key] = Missing
                    THEN disturbed \cup {u.key} ELSE disturbed
  /\ UNCHANGED <<periodic, lastTask, firing, count, displaced>>

\* create_periodic_task reads the automation again; it fails when the row is gone or
\* its period is unknown, and then the automation stays as it was saved.
ScheduleRead(w) ==
  LET u == update[w]  row == automation[u.key] IN
  /\ u.pc = "schedule"
  /\ IF row # Missing /\ row.valid
       THEN /\ update' = [update EXCEPT ![w].pc = "save", ![w].row = row]
            /\ UNCHANGED disturbed
       ELSE /\ update' = [update EXCEPT ![w] = NoUpdate]
            /\ disturbed' = disturbed \cup {u.key}
  /\ UNCHANGED <<rows, firing, count, displaced>>

\* Fault: the automation does not remember its task.
RememberNothing(row, id) == row

Remember(row, id) == [row EXCEPT !.task = id]

\* The transaction: update_or_create by the one name, and the save of the copy.
ScheduleSave(w) ==
  LET u == update[w]
      id == IF periodic = Missing THEN lastTask + 1 ELSE periodic.id IN
  /\ u.pc = "save"
  /\ periodic' = [id |-> id, of |-> u.key]
  /\ lastTask' = IF periodic = Missing THEN id ELSE lastTask
  /\ automation' = [automation EXCEPT ![u.key] = Remember(u.row, id)]
  /\ update' = [update EXCEPT ![w] = NoUpdate]
  /\ displaced' = (displaced \ {u.key}) \cup
       IF periodic = Missing THEN {} ELSE {periodic.of} \ {u.key}
  /\ disturbed' = IF Runs(u.row) /\ Alone(w) THEN disturbed \ {u.key} ELSE disturbed
  /\ UNCHANGED <<firing, count>>

\* remove_periodic_task, by the task id of the copy.
Unschedule(w) ==
  LET u == update[w]
      hit == periodic # Missing /\ periodic.id = u.row.task IN
  /\ u.pc = "unschedule"
  /\ periodic' = IF hit THEN Missing ELSE periodic
  /\ update' = [update EXCEPT ![w] = NoUpdate]
  /\ displaced' = IF hit /\ periodic.of # u.key THEN displaced \cup {periodic.of}
                                                ELSE displaced
  /\ UNCHANGED <<automation, lastTask, firing, count, disturbed>>

\* ModelViewSet.destroy: the PeriodicTask stays.
DestroyAutomation(a) ==
  /\ automation[a] # Missing /\ count.updates < MaxUpdates
  /\ automation' = [automation EXCEPT ![a] = Missing]
  /\ count' = [count EXCEPT !.updates = @ + 1]
  /\ UNCHANGED <<periodic, lastTask, update, firing, observers>>

\* A web worker dies between the steps of an update.
LoseUpdate(w) ==
  /\ update[w].pc \in {"schedule", "save", "unschedule"}
  /\ count.faults < MaxAutomationFaults
  /\ disturbed' = disturbed \cup {update[w].key}
  /\ update' = [update EXCEPT ![w] = NoUpdate]
  /\ count' = [count EXCEPT !.faults = @ + 1]
  /\ UNCHANGED <<rows, firing, displaced>>

-----------------------------------------------------------------------------
(* create_and_dispatch_sms                                                 *)

\* Celery beat.
Fire(f) ==
  /\ firing[f].pc = "none" /\ periodic # Missing
  /\ firing' = [firing EXCEPT ![f].pc = "queued"]
  /\ UNCHANGED <<rows, update, count, observers>>

\* Every attempt creates an Sms; without its segment it fails for good (the handler
\* stumbles over the unbound sms).
CreateScheduled(f, segmentExists) ==
  /\ firing[f].pc = "queued"
  /\ firing' = [firing EXCEPT ![f] =
       IF segmentExists THEN [firing[f] EXCEPT !.pc = "created", !.made = @ + 1]
                        ELSE [firing[f] EXCEPT !.pc = "failed"]]
  /\ UNCHANGED <<rows, update, count, observers>>

\* validate_and_dispatch: it enqueues the batches, or raises a ValueError, or another
\* exception, which is retried from the beginning, with another Sms.  The publication may
\* raise when batches are on the broker: they are sent, and so is the Sms of the retry.
DispatchScheduled(f, outcome, published) ==
  LET t == firing[f]
      again == outcome = "error" /\ t.tries < DispatchRetries IN
  /\ t.pc = "created"
  /\ outcome = "enqueued" => published
  /\ outcome = "ValueError" => ~published
  /\ firing' = [firing EXCEPT ![f] =
       [t EXCEPT !.pc = IF outcome = "enqueued" THEN "done"
                        ELSE IF again THEN "queued" ELSE "failed",
                 !.tries = IF again THEN @ + 1 ELSE @,
                 !.sent = IF published THEN @ + 1 ELSE @]]
  /\ UNCHANGED <<rows, update, count, observers>>

AutomationNext ==
  \/ \E a \in Automation : \/ \E row \in Created : CreateAutomation(a, row)
                           \/ \E w \in Writer : UpdateRead(w, a)
                           \/ DestroyAutomation(a)
  \/ \E w \in Writer : \/ \E change \in Changes : UpdateSave(w, change)
                       \/ ScheduleRead(w) \/ ScheduleSave(w) \/ Unschedule(w)
                       \/ LoseUpdate(w)
  \/ \E f \in Firing : \/ Fire(f)
                       \/ \E exists \in BOOLEAN : CreateScheduled(f, exists)
                       \/ \E outcome \in {"enqueued", "ValueError", "error"}, published \in BOOLEAN :
                            DispatchScheduled(f, outcome, published)

\* The user has an active welcome automation (check_automation).
WelcomeActive ==
  \E a \in Automation : /\ automation[a] # Missing
                        /\ automation[a].type = "welcome_user" /\ automation[a].active

-----------------------------------------------------------------------------
(* Properties *)

ScheduledFor(a) == periodic # Missing /\ periodic.of = a

\* Once the updates of an automation are over, the schedule says what its status
\* says, unless they overlapped, failed or stopped half-way, or another automation has
\* taken the row: a deactivated one does not fire, an activated one does.
ScheduleAgrees ==
  \A a \in Automation :
    automation[a] # Missing /\ ~Busy(a) /\ a \notin disturbed =>
      /\ Stops(automation[a]) => ~ScheduledFor(a)
      /\ Runs(automation[a]) /\ a \notin displaced => ScheduledFor(a)
=============================================================================
