------------------------------ MODULE Delivery ------------------------------
(***************************************************************************)
(* The recipients of an SMS from the moment Vonage takes their message:    *)
(* the worker that saves the answer, the delivery reports of Vonage, the   *)
(* opt-out link, the hosted page and its blocks, and the recipient API, as *)
(* requests that run side by side.                                         *)
(*                                                                         *)
(* Each request reads the recipient, writes it, and then writes an event   *)
(* or the contact, in steps of their own.  The worker, the reports and the *)
(* page save the columns they change; the opt-out and the recipient API    *)
(* save the whole row as they have read it.                                *)
(***************************************************************************)
EXTENDS Integers, FiniteSets

CONSTANTS
  Recipient,         \* SmsRecipient rows of the SMS, each with its contact
  Handler,           \* web workers
  Block,             \* action_key of the blocks of the page
  None,
  Fates,             \* what Vonage may report of a message in the end
  Patches,           \* what a client may write of a row: partial functions on its columns
  MaxRequests,       \* requests in all
  MaxFaults          \* workers that die

Reports == {"submitted", "delivered", "undeliverable", "rejected"}
EventType == {"sent", "delivered", "failed", "page_view", "cta_click"}

RecipientStatus == {"pending", "queued", "sent", "delivered", "failed", "undelivered", "opted_out"}

\* The columns of a row that a client may write; one that writes provider_message_id
\* writes another than Vonage's.
Writable ==
  [status |-> RecipientStatus, known |-> {FALSE}, delivered |-> BOOLEAN, opened |-> BOOLEAN]

ASSUME DeliveryAssumption ==
  /\ Fates \subseteq Reports \ {"submitted"}
  /\ MaxRequests \in Nat /\ MaxFaults \in Nat
  /\ \A f \in Patches : \A x \in DOMAIN f : x \in DOMAIN Writable /\ f[x] \in Writable[x]
  /\ None \notin Recipient \cup Block \cup EventType

VARIABLES
  row,               \* SmsRecipient: status, whether provider_message_id, delivered_at
                     \*   and page_opened_at are set
  contact,           \* Contact.status
  event,             \* SmsEvent rows: how many of each type
  action,            \* SmsPageAction rows of the page: how often its block was made anew
  sender,            \* the batch task, for one recipient
  handler,           \* what a web worker does
  requests, faults,  \* how many there were
  handmade           \* observer: recipients whose status or events a client wrote

deliveryVars == <<row, contact, event, action, sender, handler, requests, faults, handmade>>

Idle == [pc |-> "idle", of |-> None, copy |-> None, report |-> None, click |-> None]

Init ==
  /\ row = [r \in Recipient |-> [status |-> "queued", known |-> FALSE, delivered |-> FALSE,
                                 opened |-> FALSE]]
  /\ contact = [r \in Recipient |-> "subscribed"]
  /\ event = [r \in Recipient |-> [e \in EventType |-> 0]]
  /\ action \in [Block -> {[live |-> b, made |-> IF b THEN 1 ELSE 0] : b \in BOOLEAN}]
  /\ sender = [r \in Recipient |-> [pc |-> "queued", fate |-> None]]
  /\ handler = [h \in Handler |-> Idle]
  /\ requests = 0 /\ faults = 0 /\ handmade = {}

Log(r, e) == event' = [event EXCEPT ![r][e] = @ + 1]

-----------------------------------------------------------------------------
(* send_recipient_batch, for one recipient                                 *)

\* provider.send: Vonage takes the message, and it has a fate, or refuses it.
CallProvider(r, fate) ==
  /\ sender[r].pc = "queued"
  /\ sender' = [sender EXCEPT ![r] = [pc |-> "answered", fate |-> fate]]
  /\ UNCHANGED <<row, contact, event, action, handler, requests, faults, handmade>>

Accepted(r) == sender[r].fate # None

\* recipient.save(update_fields=...), whatever the row says by now.
SaveAnswer(r) ==
  /\ sender[r].pc = "answered"
  /\ row' = [row EXCEPT ![r].status = IF Accepted(r) THEN "sent" ELSE "failed",
                        ![r].known = Accepted(r)]
  /\ sender' = [sender EXCEPT ![r].pc = "saved"]
  /\ UNCHANGED <<contact, event, action, handler, requests, faults, handmade>>

\* SmsEvent.objects.bulk_create at the end of the batch.
LogAnswer(r) ==
  /\ sender[r].pc = "saved"
  /\ Log(r, IF Accepted(r) THEN "sent" ELSE "failed")
  /\ sender' = [sender EXCEPT ![r].pc = "logged"]
  /\ UNCHANGED <<row, contact, action, handler, requests, faults, handmade>>

LoseSender(r) ==
  /\ faults < MaxFaults /\ sender[r].pc \in {"answered", "saved"}
  /\ sender' = [sender EXCEPT ![r].pc = "lost"]
  /\ faults' = faults + 1
  /\ UNCHANGED <<row, contact, event, action, handler, requests, handmade>>

-----------------------------------------------------------------------------
(* Requests                                                                *)

Begin(h, pc, r, report, click) ==
  /\ handler[h].pc = "idle" /\ requests < MaxRequests
  /\ requests' = requests + 1
  /\ handler' = [handler EXCEPT ![h] = [pc |-> pc, of |-> r, copy |-> row[r],
                                        report |-> report, click |-> click]]

Step(h, from, to) ==
  /\ handler[h].pc = from
  /\ handler' = [handler EXCEPT ![h] = IF to = "idle" THEN Idle ELSE [@ EXCEPT !.pc = to]]
  /\ UNCHANGED <<sender, requests, faults>>

\* A delivery report: "submitted" or the fate of the message, in any order and any
\* number of times.  One that comes before the message id is saved, or after it was
\* overwritten, finds nothing and is dropped: Vonage is told 200 and does not repeat it.
Report(h, r, v) ==
  /\ Accepted(r) /\ v \in {"submitted", sender[r].fate} /\ row[r].known
  /\ Begin(h, "report", r, v, None)
  /\ UNCHANGED <<row, contact, event, action, sender, faults, handmade>>

\* _VONAGE_STATUS_MAP
ReportedStatus(v) ==
  CASE v = "submitted" -> "sent"
    [] v = "delivered" -> "delivered"
    [] v \in {"rejected", "undeliverable"} -> "undelivered"

\* Fault: undelivered messages are logged under their own status.
ReportedEventByStatus(v) == IF ReportedStatus(v) = "undelivered" THEN "delivered"
                                                              ELSE ReportedStatus(v)

ReportedEvent(v) ==
  IF ReportedStatus(v) = "undelivered" THEN "failed" ELSE ReportedStatus(v)

\* Fault: the report saves the whole row.
ReportedRowWhole(now, copy, v) ==
  [copy EXCEPT !.status = ReportedStatus(v), !.delivered = @ \/ v = "delivered"]

\* delivered_at is written when the copy has none.
ReportedRow(now, copy, v) ==
  [now EXCEPT !.status = ReportedStatus(v), !.delivered = @ \/ v = "delivered"]

ReportSave(h) ==
  LET t == handler[h] IN
  /\ Step(h, "report", "reported")
  /\ row' = [row EXCEPT ![t.of] = ReportedRow(@, t.copy, t.report)]
  /\ UNCHANGED <<contact, event, action, handmade>>

ReportLog(h) ==
  /\ Step(h, "reported", "idle")
  /\ Log(handler[h].of, ReportedEvent(handler[h].report))
  /\ UNCHANGED <<row, contact, action, handmade>>

\* optout_sms_recipient, by the link in a message that arrived: the whole row, then
\* its contact.
OptOut(h, r) ==
  /\ Accepted(r)
  /\ Begin(h, "optOut", r, None, None)
  /\ UNCHANGED <<row, contact, event, action, sender, faults, handmade>>

OptOutSave(h) ==
  LET t == handler[h] IN
  /\ Step(h, "optOut", "optedOut")
  /\ row' = [row EXCEPT ![t.of] = [t.copy EXCEPT !.status = "opted_out"]]
  /\ UNCHANGED <<contact, event, action, handmade>>

OptOutContact(h) ==
  /\ Step(h, "optedOut", "idle")
  /\ contact' = [contact EXCEPT ![handler[h].of] = "unsubscribed"]
  /\ UNCHANGED <<row, event, action, handmade>>

\* SmsRecipientViewSet.update
EditRecipient(h, r) ==
  /\ Begin(h, "edit", r, None, None)
  /\ UNCHANGED <<row, contact, event, action, sender, faults, handmade>>

\* The columns that were sent, over the copy, and a save of the whole row.
Edited(copy, patch) ==
  [x \in DOMAIN copy |-> IF x \in DOMAIN patch THEN patch[x] ELSE copy[x]]

EditSave(h, patch) ==
  LET t == handler[h] IN
  /\ Step(h, "edit", "idle")
  /\ row' = [row EXCEPT ![t.of] = Edited(t.copy, patch)]
  /\ handmade' = IF "status" \in DOMAIN patch THEN handmade \cup {t.of} ELSE handmade
  /\ UNCHANGED <<contact, event, action>>

\* SmsEventViewSet: an event is created (old = None), destroyed (new = None), or changed.
WriteEvent(r, old, new) ==
  LET one(e, d) == IF e = d THEN 1 ELSE 0 IN
  /\ requests < MaxRequests
  /\ old # None => event[r][old] > 0
  /\ event' = [event EXCEPT ![r] = [e \in EventType |-> @[e] + one(e, new) - one(e, old)]]
  /\ requests' = requests + 1
  /\ handmade' = handmade \cup {r}
  /\ UNCHANGED <<row, contact, action, sender, handler, faults>>

\* PublicSmsPageView.get, by the link in the message: the first one saves
\* page_opened_at; every one is logged.
OpenPage(h, r) ==
  /\ Accepted(r)
  /\ Begin(h, IF row[r].opened THEN "view" ELSE "open", r, None, None)
  /\ UNCHANGED <<row, contact, event, action, sender, faults, handmade>>

OpenSave(h) ==
  /\ Step(h, "open", "view")
  /\ row' = [row EXCEPT ![handler[h].of].opened = TRUE]
  /\ UNCHANGED <<contact, event, action, handmade>>

ViewLog(h) ==
  /\ Step(h, "view", "idle")
  /\ Log(handler[h].of, "page_view")
  /\ UNCHANGED <<row, contact, action, handmade>>

\* PublicSmsPageView.post: update_or_create_page makes the action of the block if it
\* is not there ...
Click(h, r, b) ==
  LET made == IF action[b].live THEN action[b].made ELSE action[b].made + 1 IN
  /\ Accepted(r)
  /\ Begin(h, "click", r, None, [block |-> b, made |-> made])
  /\ action' = [action EXCEPT ![b] = [live |-> TRUE, made |-> made]]
  /\ UNCHANGED <<row, contact, event, sender, faults, handmade>>

IsThere(a) == action[a.block].live /\ action[a.block].made = a.made

\* ... and update_or_create_sms_event logs the click if it is still there.
ClickLog(h) ==
  LET t == handler[h] IN
  /\ Step(h, "click", "idle")
  /\ IF IsThere(t.click) THEN Log(t.of, "cta_click") ELSE UNCHANGED event
  /\ UNCHANGED <<row, contact, action, handmade>>

\* SmsPageActionViewSet.destroy
DeleteAction(b) ==
  /\ action[b].live /\ requests < MaxRequests
  /\ action' = [action EXCEPT ![b].live = FALSE]
  /\ requests' = requests + 1
  /\ UNCHANGED <<row, contact, event, sender, handler, faults, handmade>>

LoseRequest(h) ==
  /\ faults < MaxFaults /\ handler[h].pc # "idle"
  /\ handler' = [handler EXCEPT ![h] = Idle]
  /\ faults' = faults + 1
  /\ UNCHANGED <<row, contact, event, action, sender, requests, handmade>>

Next ==
  \/ \E r \in Recipient : \/ \E fate \in Fates \cup {None} : CallProvider(r, fate)
                          \/ SaveAnswer(r) \/ LogAnswer(r) \/ LoseSender(r)
                          \/ \E old, new \in EventType \cup {None} : WriteEvent(r, old, new)
  \/ \E h \in Handler :
       \/ \E r \in Recipient : \/ \E v \in Reports : Report(h, r, v)
                               \/ OptOut(h, r) \/ EditRecipient(h, r) \/ OpenPage(h, r)
                               \/ \E b \in Block : Click(h, r, b)
       \/ ReportSave(h) \/ ReportLog(h) \/ OptOutSave(h) \/ OptOutContact(h)
       \/ (\E patch \in Patches : EditSave(h, patch))
       \/ OpenSave(h) \/ ViewLog(h) \/ ClickLog(h) \/ LoseRequest(h)
  \/ \E b \in Block : DeleteAction(b)

Spec == Init /\ [][Next]_deliveryVars

-----------------------------------------------------------------------------
(* Properties *)

RecipientType == [status : RecipientStatus, known : BOOLEAN, delivered : BOOLEAN, opened : BOOLEAN]

RequestType == [pc : {"idle", "report", "reported", "optOut", "optedOut", "edit", "open",
                      "view", "click"},
                of : Recipient \cup {None}, copy : RecipientType \cup {None},
                report : Reports \cup {None}, click : [block : Block, made : Nat] \cup {None}]

\* The type invariant.
TypeOK ==
  /\ row \in [Recipient -> RecipientType]
  /\ contact \in [Recipient -> {"subscribed", "unsubscribed"}]
  /\ event \in [Recipient -> [EventType -> Nat]]
  /\ action \in [Block -> [live : BOOLEAN, made : Nat]]
  /\ sender \in [Recipient -> [pc : {"queued", "answered", "saved", "logged", "lost"},
                               fate : Fates \cup {None}]]
  /\ handler \in [Handler -> RequestType]
  /\ requests \in 0 .. MaxRequests /\ faults \in 0 .. MaxFaults
  /\ handmade \subseteq Recipient

Quiet(r) == sender[r].pc # "saved" /\ \A h \in Handler : handler[h].of # r

EventOfStatus(st) == IF st \in {"failed", "undelivered"} THEN "failed" ELSE st

\* When nothing is under way for a recipient, no worker died and no client wrote its
\* status or its events by hand, what its status says of the message is in its events,
\* whichever of the worker, the reports and the saves of the whole row came last: the two
\* records of a message agree.
StatusHasItsEvent ==
  \A r \in Recipient \ handmade :
    faults = 0 /\ Quiet(r) /\ row[r].status \notin {"queued", "opted_out"} =>
      event[r][EventOfStatus(row[r].status)] > 0

Forgets(r) == \/ row[r].known /\ ~row'[r].known
              \/ row[r].delivered /\ ~row'[r].delivered
              \/ row[r].opened /\ ~row'[r].opened

\* That a message was sent, delivered or opened is forgotten only when an opt-out or an
\* edit saves the whole row as it was before: the worker, the reports and the page do
\* not undo each other.
OnlyWholeSavesForget ==
  [][\A r \in Recipient :
       Forgets(r) => \E h \in Handler : /\ handler[h].of = r
                                        /\ handler[h].pc \in {"optOut", "edit"}
                                        /\ handler'[h].pc # handler[h].pc]_deliveryVars
=============================================================================
