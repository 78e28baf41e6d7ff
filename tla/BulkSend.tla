------------------------------ MODULE BulkSend ------------------------------
(***************************************************************************)
(* Sending an SMS to a segment: the API view, the three Celery tasks       *)
(* dispatch_sms_send, send_recipient_batch and finalize_sms_send, and what *)
(* runs beside them (edits of the SMS, opt-outs, delivery reports, price   *)
(* refreshes, crashes), for one user and one wallet.                       *)
(*                                                                         *)
(* A task is a record with a program counter; a step of it reads or writes *)
(* the database once, calls the provider once, or is one transaction.  The *)
(* wallet operations are single steps here: WalletProofs shows that the    *)
(* row lock makes them so.  The lock is held until the enclosing atomic    *)
(* block of validate_and_dispatch commits, which makes that whole block a  *)
(* single step with respect to other dispatches of the user.               *)
(***************************************************************************)
EXTENDS Integers, FiniteSets, Functions

CONSTANTS
  Sms, Phone,        \* messages of the user; contacts of the segment, by phone
  Blocked,           \* phones in _BLOCKED_DESTINATION_REGIONS
  Joining,           \* contacts that are not in the segment yet
  Dispatch,          \* dispatch tasks that may be created
  NoSms, NoPhone,
  BatchSize,         \* SmsSendingService.BATCH_SIZE
  DispatchRetries,   \* max_retries of dispatch_sms_send
  BatchRetries,      \* max_retries of send_recipient_batch
  Opening,           \* credits the wallet may open with
  Prices, Segments,  \* credits per segment; segments a body may have
  Outcomes,          \* what provider.send may come to
  Reports,           \* Vonage statuses that may arrive
  Edits,             \* statuses a client may write through the SMS API
  MaxClicks,         \* how often the user asks for the same send
  MaxFaults, MaxEdits, MaxRefreshes, MaxOptOuts   \* how often these happen in all

ASSUME SendAssumption ==
  /\ Opening \subseteq Nat /\ Prices \subseteq Nat /\ Segments \subseteq Nat
  /\ BatchSize \in Nat \ {0} /\ DispatchRetries \in Nat /\ BatchRetries \in Nat
  /\ Blocked \subseteq Phone /\ Joining \subseteq Phone /\ NoPhone \notin Phone /\ NoSms \notin Sms
  /\ IsFiniteSet(Sms) /\ IsFiniteSet(Phone) /\ IsFiniteSet(Dispatch)

SmsStatus == {"draft", "scheduled", "processing", "sent", "partial", "failed", "cancelled"}
Sendable == {"draft", "scheduled"}
Final == {"sent", "partial", "failed"}
Success == {"sent", "delivered"}
Failure == {"failed", "undelivered"}

ASSUME EnvironmentAssumption ==
  /\ Edits \subseteq SmsStatus
  /\ Outcomes \subseteq {"success", "permanent", "transient", "lost_reply"}
  /\ Reports \subseteq {"submitted", "delivered", "undeliverable", "rejected"}
  /\ {MaxClicks, MaxFaults, MaxEdits, MaxRefreshes, MaxOptOuts} \subseteq Nat

CeilDiv(n, m) == (n + m - 1) \div m

BatchNo == 1 .. CeilDiv(Cardinality(Phone), BatchSize)

VARIABLES
  status, segs,      \* Sms.status and the segments of Sms.body, per message
  contact,           \* Contact.status
  campaign,          \* Campaign.status of the campaign the messages belong to
  row,               \* SmsRecipient rows: per message a function on the phones it has rows for
  event,             \* SmsEvent rows: <<sms, phone, event_type>>
  balance, reserved, \* the Wallet row
  ledger,            \* CreditLedger totals per message (reference_id)
  price,             \* the cached country price
  job,               \* dispatch_sms_send tasks
  batch,             \* send_recipient_batch tasks, per dispatch
  fin,               \* finalize_sms_send tasks, the chord bodies
  edit,              \* a PATCH of an SMS between its read and its save
  accepted,          \* messages the provider took, per message and phone
  unconfirmed,       \* of those, the ones whose reply did not reach the worker
  used               \* how much of the environment's bounds is used

money == <<balance, reserved, ledger>>
world == <<contact, price, edit, used>>
provider == <<accepted, unconfirmed>>
vars == <<status, segs, contact, campaign, row, event, balance, reserved, ledger,
          price, job, batch, fin, edit, accepted, unconfirmed, used>>

NoEntry == -1        \* no reservation entry in the ledger

FreeJob == [pc |-> "free", sms |-> NoSms, audience |-> {}, counted |-> {}, est |-> 0, ids |-> {},
            tries |-> 0, again |-> FALSE]
NoBatch == [pc |-> "none", ids |-> {}, todo |-> {}, cur |-> NoPhone, result |-> "none",
            transient |-> {}, events |-> {}, tries |-> 0]
NoFin == [pc |-> "none", segs |-> 0, status |-> "draft", est |-> 0, actual |-> 0]
NoEdit == [pc |-> "idle", sms |-> NoSms, status |-> "draft"]

Init ==
  /\ status = [s \in Sms |-> "draft"]
  /\ segs \in [Sms -> Segments]
  /\ contact = [p \in Phone |-> IF p \in Joining THEN "absent" ELSE "subscribed"]
  /\ campaign = "draft"
  /\ row = [s \in Sms |-> <<>>]
  /\ event = {}
  /\ balance \in Opening
  /\ reserved = 0
  /\ ledger = [s \in Sms |-> [reservation |-> 0, debit |-> 0, adjustment |-> 0,
                              latest |-> NoEntry]]
  /\ price \in Prices
  /\ job = [d \in Dispatch |-> FreeJob]
  /\ batch = [d \in Dispatch |-> [k \in BatchNo |-> NoBatch]]
  /\ fin = [d \in Dispatch |-> NoFin]
  /\ edit = NoEdit
  /\ accepted = [s \in Sms |-> [p \in Phone |-> 0]]
  /\ unconfirmed = [s \in Sms |-> [p \in Phone |-> 0]]
  /\ used = [faults |-> 0, edits |-> 0, refreshes |-> 0, optOuts |-> 0]

-----------------------------------------------------------------------------
(* The request and dispatch_sms_send                                       *)

\* _get_eligible_contacts and _get_sendable_contacts: all or nothing when a
\* contact is in a blocked region.
Eligible == {p \in Phone : contact[p] = "subscribed"}
CanSendToAnybody(audience) == audience # {}       \* fault: no region check

CanSendTo(audience) == audience # {} /\ audience \cap Blocked = {}

\* The send view: it checks the status but does not change it.
RequestSend(d, s) ==
  /\ job[d].pc = "free"
  /\ Cardinality({e \in Dispatch : job[e].sms = s}) < MaxClicks
  /\ status[s] \in Sendable
  /\ CanSendTo(Eligible)
  /\ job' = [job EXCEPT ![d] = [@ EXCEPT !.pc = "queued", !.sms = s]]
  /\ UNCHANGED <<status, segs, campaign, row, event, money, world, batch, fin, provider>>

AssertSendable(s) == status[s] \in Sendable

\* Sms.objects.get, assert_sendable, and the first query of the contacts.
LoadSms(d) ==
  /\ job[d].pc = "queued"
  /\ AssertSendable(job[d].sms)
  /\ CanSendTo(Eligible)
  /\ job' = [job EXCEPT ![d] = [@ EXCEPT !.pc = "loaded", !.audience = Eligible]]
  /\ UNCHANGED <<status, segs, campaign, row, event, money, world, batch, fin, provider>>

Cost(s, n) == price * segs[s] * n

\* Fault: every message is taken for one segment.
EstimateOfOneSegment(s) == price * Cardinality(Eligible)

Estimate(s) == Cost(s, Cardinality(Eligible))

\* estimate_cost queries the SMS and the contacts again.
EstimateCost(d) ==
  /\ job[d].pc = "loaded"
  /\ CanSendTo(Eligible)
  /\ job' = [job EXCEPT ![d] = [@ EXCEPT !.pc = "estimated", !.counted = Eligible,
                                         !.est = Estimate(job[d].sms)]]
  /\ UNCHANGED <<status, segs, campaign, row, event, money, world, batch, fin, provider>>

\* A ValueError in the task: _mark_sms_failed, whatever the status is by now.
RejectDispatch(d) ==
  /\ \/ job[d].pc = "queued" /\ ~(AssertSendable(job[d].sms) /\ CanSendTo(Eligible))
     \/ job[d].pc = "loaded" /\ ~CanSendTo(Eligible)
  /\ status' = [status EXCEPT ![job[d].sms] = "failed"]
  /\ job' = [job EXCEPT ![d].pc = "failed"]
  /\ UNCHANGED <<segs, campaign, row, event, money, world, batch, fin, provider>>

\* The retry of a dispatch that had published batches already: the same error, unless the
\* client has made the SMS a draft again.  Then it sends like one more click.
RejectAgain(d) ==
  /\ job[d].again
  /\ ~(AssertSendable(job[d].sms) /\ CanSendTo(Eligible))
  /\ status' = [status EXCEPT ![job[d].sms] = "failed"]
  /\ job' = [job EXCEPT ![d].again = FALSE]
  /\ UNCHANGED <<segs, campaign, row, event, money, world, batch, fin, provider>>

\* `except Exception: self.retry(exc=exc)`.  When the retries are used up Celery
\* raises exc itself, so the handler that would mark the SMS failed never runs.
RetryDispatch(d) ==
  LET j == job[d] IN
  job' = [job EXCEPT ![d] =
            IF j.tries < DispatchRetries
              THEN [FreeJob EXCEPT !.pc = "queued", !.sms = j.sms, !.tries = j.tries + 1]
              ELSE [j EXCEPT !.pc = "failed"]]

\* Faults: credits that are already reserved are offered again; no check at all.
CanReserveTwice(amount) == balance >= amount
CanReserveUnchecked(amount) == TRUE

CanReserve(amount) == balance - reserved >= amount

\* update_credits: reserve_funds and its ledger entry, or the error it raises.
Reserve(s, amount) ==
  /\ CanReserve(amount)
  /\ reserved' = reserved + amount
  /\ ledger' = [ledger EXCEPT ![s] =
                  [ledger[s] EXCEPT !.reservation = @ + amount, !.latest = amount]]
  /\ UNCHANGED balance

NewRow == [status |-> "queued", known |-> FALSE]

\* _build_recipients: phones that have a row keep it.
BuildRecipients(s, audience) ==
  [p \in DOMAIN row[s] \cup audience |-> IF p \in DOMAIN row[s] THEN row[s][p] ELSE NewRow]

QueuedIn(rows) == {p \in DOMAIN rows : rows[p].status = "queued"}

\* The atomic block of validate_and_dispatch.  The rows to send are all queued
\* rows of the SMS, also those another dispatch created.
ReserveAndQueue(d) ==
  LET s == job[d].sms  rows == BuildRecipients(s, job[d].audience) IN
  /\ job[d].pc = "estimated"
  /\ Reserve(s, job[d].est)
  /\ row' = [row EXCEPT ![s] = rows]
  /\ status' = [status EXCEPT ![s] = "processing"]
  /\ campaign' = "active"
  /\ job' = [job EXCEPT ![d] = [@ EXCEPT !.pc = "committed", !.ids = QueuedIn(rows)]]
  /\ UNCHANGED <<segs, event, world, batch, fin, provider>>

\* InsufficientBalanceError leaves the block: nothing is written, the task retries.
InsufficientCredits(d) ==
  /\ job[d].pc = "estimated"
  /\ ~CanReserve(job[d].est)
  /\ RetryDispatch(d)
  /\ UNCHANGED <<status, segs, campaign, row, event, money, world, batch, fin, provider>>

Least(m, n) == IF m < n THEN m ELSE n

\* Fault: the slice of a batch is one too long.
SliceOneTooLong(ids, k) ==
  {ids[i] : i \in DOMAIN ids \cap ((k - 1) * BatchSize + 1 .. k * BatchSize + 1)}

\* recipient_ids[i : i + BATCH_SIZE] of the k-th batch.
Slice(ids, k) == {ids[i] : i \in DOMAIN ids \cap ((k - 1) * BatchSize + 1 .. k * BatchSize)}

\* The first m batches are on the broker, the others (m < n) never will be.
Published(n, m, ids) ==
  [k \in BatchNo |-> IF k > n THEN NoBatch
                     ELSE [NoBatch EXCEPT !.pc = IF k <= m THEN "queued" ELSE "lost",
                                          !.ids = Slice(ids, k)]]

\* The chord: one batch per slice (the query does not order the rows), and
\* finalize_sms_send when all of them are done; at once when there are none.
Publish(d, n, m, again) ==
  /\ job[d].pc = "committed"
  /\ \E ids \in Bijection(1 .. Cardinality(job[d].ids), job[d].ids) :
       batch' = [batch EXCEPT ![d] = Published(n, m, ids)]
  /\ fin' = [fin EXCEPT ![d].pc = "waiting"]
  /\ job' = [job EXCEPT ![d] = [@ EXCEPT !.pc = "enqueued", !.again = again]]
  /\ UNCHANGED <<status, segs, contact, campaign, row, event, money, price, edit, provider>>

BatchesOf(d) == CeilDiv(Cardinality(job[d].ids), BatchSize)

EnqueueBatches(d) == Publish(d, BatchesOf(d), BatchesOf(d), FALSE) /\ UNCHANGED used

-----------------------------------------------------------------------------
(* send_recipient_batch                                                    *)

\* The snapshot of the rows that are still queued (the idempotency guard).
StartBatch(d, k) ==
  LET b == batch[d][k] IN
  /\ b.pc = "queued"
  /\ batch' = [batch EXCEPT ![d][k] =
                 [b EXCEPT !.pc = "running",
                           !.todo = b.ids \cap QueuedIn(row[job[d].sms])]]
  /\ UNCHANGED <<status, segs, campaign, row, event, money, world, job, fin, provider>>

\* provider.send for the next recipient of the snapshot.  It refuses a blocked region;
\* a reply that is lost after Vonage took the message is reported like any other
\* exception: transient.
SendToProvider(d, k, p, o) ==
  LET b == batch[d][k]  s == job[d].sms IN
  /\ b.pc = "running" /\ b.cur = NoPhone /\ p \in b.todo
  /\ p \in Blocked => o = "permanent"
  /\ batch' = [batch EXCEPT ![d][k] =
       [b EXCEPT !.cur = p, !.todo = @ \ {p},
                 !.result = IF o = "lost_reply" THEN "transient" ELSE o]]
  /\ accepted' = IF o \in {"success", "lost_reply"}
                   THEN [accepted EXCEPT ![s][p] = @ + 1] ELSE accepted
  /\ unconfirmed' = IF o = "lost_reply"
                      THEN [unconfirmed EXCEPT ![s][p] = @ + 1] ELSE unconfirmed
  /\ UNCHANGED <<status, segs, campaign, row, event, money, world, job, fin>>

ResultStatus(result) ==
  CASE result = "success"   -> "sent"
    [] result = "permanent" -> "failed"
    [] result = "transient" -> "queued"

\* recipient.save(update_fields): the status comes from the snapshot and the
\* result, not from what the row holds by now.
SaveRecipient(d, k) ==
  LET b == batch[d][k]  s == job[d].sms IN
  /\ b.pc = "running" /\ b.cur # NoPhone
  /\ row' = [row EXCEPT ![s][b.cur] = [status |-> ResultStatus(b.result),
                                       known |-> b.result = "success"]]
  /\ batch' = [batch EXCEPT ![d][k] =
       [b EXCEPT !.cur = NoPhone, !.result = "none",
                 !.transient = IF b.result = "transient" THEN @ \cup {b.cur} ELSE @,
                 !.events = @ \cup {<<s, b.cur, IF b.result = "success" THEN "sent"
                                                                      ELSE "failed">>}]]
  /\ UNCHANGED <<status, segs, campaign, event, money, world, job, fin, provider>>

LoopDone(b) == b.pc = "running" /\ b.todo = {} /\ b.cur = NoPhone

\* SmsEvent.objects.bulk_create, after the loop.
FlushEvents(d, k) ==
  LET b == batch[d][k] IN
  /\ LoopDone(b) /\ b.events # {}
  /\ event' = event \cup b.events
  /\ batch' = [batch EXCEPT ![d][k] = [b EXCEPT !.events = {}]]
  /\ UNCHANGED <<status, segs, campaign, row, money, world, job, fin, provider>>

\* Faults: the retry count is not carried over; the retries that are used up
\* leave the rows as they are.
RetriesLeftAlways(b) == TRUE
GiveUpLeavesRows(s, phones) == row[s]

RetriesLeft(b) == b.tries < BatchRetries

\* self.retry(args=[sms_id, transient_failures])
RetryBatch(d, k) ==
  LET b == batch[d][k] IN
  /\ LoopDone(b) /\ b.events = {} /\ b.transient # {} /\ RetriesLeft(b)
  /\ batch' = [batch EXCEPT ![d][k] =
       [NoBatch EXCEPT !.pc = "queued", !.ids = b.transient,
                       !.tries = Least(b.tries + 1, BatchRetries)]]
  /\ UNCHANGED <<status, segs, campaign, row, event, money, world, job, fin, provider>>

\* MaxRetriesExceededError: update(status="failed") of the rows still failing.
GiveUp(s, phones) ==
  [p \in DOMAIN row[s] |-> IF p \in phones THEN [row[s][p] EXCEPT !.status = "failed"]
                                           ELSE row[s][p]]

EndBatch(d, k) ==
  LET b == batch[d][k]  s == job[d].sms IN
  /\ LoopDone(b) /\ b.events = {} /\ (b.transient # {} => ~RetriesLeft(b))
  /\ row' = [row EXCEPT ![s] = GiveUp(s, b.transient)]
  /\ batch' = [batch EXCEPT ![d][k] = [b EXCEPT !.pc = "done", !.transient = {}]]
  /\ UNCHANGED <<status, segs, campaign, event, money, world, job, fin, provider>>

-----------------------------------------------------------------------------
(* finalize_sms_send                                                       *)

\* The chord counts the batches that returned; one that raised never counts.
AllBatchesDone(d) == \A k \in BatchNo : batch[d][k].pc \in {"none", "done"}

\* Sms.objects.get: the status, which ends it for a cancelled SMS, and the body.
ReadForFinalize(d) ==
  LET s == job[d].sms IN
  /\ fin[d].pc = "waiting"
  /\ AllBatchesDone(d)
  /\ fin' = [fin EXCEPT ![d] = [@ EXCEPT !.pc = IF status[s] = "cancelled" THEN "skipped" ELSE "read",
                                         !.segs = segs[s]]]
  /\ UNCHANGED <<status, segs, campaign, row, event, money, world, job, batch, provider>>

RowsWith(s, S) == {p \in DOMAIN row[s] : row[s][p].status \in S}

\* Fault: an SMS is sent as soon as one recipient got it.
FinalStatusOfAny(s) ==
  IF RowsWith(s, Success) # {} THEN "sent"
  ELSE IF RowsWith(s, Failure) = DOMAIN row[s] THEN "failed" ELSE "partial"

FinalStatus(s) ==
  IF RowsWith(s, Success) = DOMAIN row[s] THEN "sent"
  ELSE IF RowsWith(s, Failure) = DOMAIN row[s] THEN "failed" ELSE "partial"

\* The roll-up counts the rows by their status ...
CountRows(d) ==
  /\ fin[d].pc = "read"
  /\ fin' = [fin EXCEPT ![d] = [@ EXCEPT !.pc = "counted", !.status = FinalStatus(job[d].sms)]]
  /\ UNCHANGED <<status, segs, campaign, row, event, money, world, job, batch, provider>>

\* ... and saves the result, whatever has become of the SMS and its rows since.
RollUp(d) ==
  /\ fin[d].pc = "counted"
  /\ status' = [status EXCEPT ![job[d].sms] = fin[d].status]
  /\ fin' = [fin EXCEPT ![d].pc = "rolled"]
  /\ UNCHANGED <<segs, campaign, row, event, money, world, job, batch, provider>>

\* The reservation entry read is the latest of the SMS.
FindReservation(d) ==
  LET latest == ledger[job[d].sms].latest IN
  /\ fin[d].pc = "rolled"
  /\ fin' = [fin EXCEPT ![d] = IF latest = NoEntry THEN [@ EXCEPT !.pc = "skipped"]
                                                  ELSE [@ EXCEPT !.pc = "found", !.est = latest]]
  /\ UNCHANGED <<status, segs, campaign, row, event, money, world, job, batch, provider>>

\* Fault: every recipient is charged, not only the ones that got the message.
ActualCostOfAll(d) == price * fin[d].segs * Cardinality(DOMAIN row[job[d].sms])

\* Today's price, for the body that was read and the rows that are sent or delivered by now.
ActualCost(d) == price * fin[d].segs * Cardinality(RowsWith(job[d].sms, Success))

PriceReached(d) ==
  /\ fin[d].pc = "found"
  /\ fin' = [fin EXCEPT ![d] = [@ EXCEPT !.pc = "priced", !.actual = ActualCost(d)]]
  /\ UNCHANGED <<status, segs, campaign, row, event, money, world, job, batch, provider>>

\* debit_funds: refused when less is reserved, and the caller ignores the answer.
DebitFunds(s, amount) ==
  IF amount > 0 /\ reserved >= amount
    THEN /\ balance' = balance - amount
         /\ reserved' = reserved - amount
         /\ ledger' = [ledger EXCEPT ![s].debit = @ + amount]
    ELSE UNCHANGED money

DebitActual(d) ==
  /\ fin[d].pc = "priced"
  /\ DebitFunds(job[d].sms, fin[d].actual)
  /\ fin' = [fin EXCEPT ![d].pc = "debited"]
  /\ UNCHANGED <<status, segs, campaign, row, event, world, job, batch, provider>>

\* Faults: the whole reservation is released, on top of the debit; nothing is.
OverReservedWhole(f) == f.est
OverReservedNothing(f) == 0

OverReserved(f) == f.est - f.actual

\* release_reservation, which checks nothing.
ReleaseRest(d) ==
  LET s == job[d].sms  rest == OverReserved(fin[d]) IN
  /\ fin[d].pc = "debited"
  /\ IF rest > 0
       THEN /\ reserved' = reserved - rest
            /\ ledger' = [ledger EXCEPT ![s].adjustment = @ + rest]
       ELSE UNCHANGED <<reserved, ledger>>
  /\ fin' = [fin EXCEPT ![d].pc = "settled"]
  /\ UNCHANGED <<status, segs, campaign, row, event, balance, world, job, batch, provider>>

-----------------------------------------------------------------------------
(* What happens beside the tasks                                           *)

\* SmsViewSet.update reads the row ...
EditRead(s) ==
  /\ edit.pc = "idle" /\ used.edits < MaxEdits
  /\ edit' = [pc |-> "read", sms |-> s, status |-> status[s]]
  /\ used' = [used EXCEPT !.edits = @ + 1]
  /\ UNCHANGED <<status, segs, contact, campaign, row, event, money, price, job, batch,
                 fin, provider>>

\* ... and update_sms saves all its columns: a status the client did not send is
\* written back as it was read.
EditSave(newStatus, newSegs) ==
  /\ edit.pc = "read"
  /\ newStatus \in Edits \cup {edit.status}
  /\ status' = [status EXCEPT ![edit.sms] = newStatus]
  /\ segs' = [segs EXCEPT ![edit.sms] = newSegs]
  /\ edit' = NoEdit
  /\ UNCHANGED <<contact, campaign, row, event, money, price, job, batch, fin, provider,
                 used>>

\* optout_sms_recipient, through the link in a message that arrived.
OptOut(s, p) ==
  /\ accepted[s][p] > 0 /\ used.optOuts < MaxOptOuts
  /\ row' = [row EXCEPT ![s][p].status = "opted_out"]
  /\ contact' = [contact EXCEPT ![p] = "unsubscribed"]
  /\ used' = [used EXCEPT !.optOuts = @ + 1]
  /\ UNCHANGED <<status, segs, campaign, event, money, price, edit, job, batch, fin, provider>>

\* A contact is created in the segment.
JoinSegment(p) ==
  /\ contact[p] = "absent"
  /\ contact' = [contact EXCEPT ![p] = "subscribed"]
  /\ UNCHANGED <<status, segs, campaign, row, event, money, price, edit, used, job, batch, fin,
                 provider>>

\* _VONAGE_STATUS_MAP
ReportedStatus(v) ==
  CASE v = "submitted" -> "sent"
    [] v = "delivered" -> "delivered"
    [] v \in {"rejected", "undeliverable"} -> "undelivered"

\* A delivery report finds its row by provider_message_id and overwrites the
\* status; one that comes before the id is saved changes nothing.
DeliveryReport(s, p, v) ==
  /\ p \in DOMAIN row[s] /\ row[s][p].known
  /\ row' = [row EXCEPT ![s][p].status = ReportedStatus(v)]
  /\ event' = event \cup {<<s, p, IF ReportedStatus(v) = "undelivered"
                                    THEN "failed" ELSE ReportedStatus(v)>>}
  /\ UNCHANGED <<status, segs, campaign, money, world, job, batch, fin, provider>>

\* The price cache expires and is filled again.
RefreshPrices ==
  /\ used.refreshes < MaxRefreshes
  /\ price' \in Prices \ {price}
  /\ used' = [used EXCEPT !.refreshes = @ + 1]
  /\ UNCHANGED <<status, segs, contact, campaign, row, event, money, job, batch, fin, edit,
                 provider>>

\* The broker refuses the chord: the task retries and finds its own "processing".
EnqueueFails(d) ==
  /\ job[d].pc = "committed" /\ used.faults < MaxFaults
  /\ RetryDispatch(d)
  /\ used' = [used EXCEPT !.faults = @ + 1]
  /\ UNCHANGED <<status, segs, contact, campaign, row, event, money, price, edit, batch, fin,
                 provider>>

\* It fails while the chord is published: some batches run, or all of them, and the task
\* retries, unless its retries are used up.
PublishFails(d) ==
  /\ used.faults < MaxFaults
  /\ \E m \in 1 .. BatchesOf(d) : Publish(d, BatchesOf(d), m, job[d].tries < DispatchRetries)
  /\ used' = [used EXCEPT !.faults = @ + 1]

\* A worker dies.  dispatch and finalize were acknowledged when they started and
\* are gone; a batch (acks_late) is delivered again, or fails for good when only
\* the child process died, and then the chord never completes.
Crash(d) ==
  /\ used.faults < MaxFaults
  /\ used' = [used EXCEPT !.faults = @ + 1]
  /\ \/ /\ job[d].pc \in {"loaded", "estimated", "committed"}
        /\ job' = [job EXCEPT ![d].pc = "lost"]
        /\ UNCHANGED <<batch, fin>>
     \/ /\ fin[d].pc \in {"read", "counted", "rolled", "found", "priced", "debited"}
        /\ fin' = [fin EXCEPT ![d].pc = "lost"]
        /\ UNCHANGED <<job, batch>>
     \/ \E k \in BatchNo, after \in {"queued", "lost"} :
          /\ batch[d][k].pc = "running"
          /\ batch' = [batch EXCEPT ![d][k] =
               [NoBatch EXCEPT !.pc = after, !.ids = batch[d][k].ids,
                               !.tries = batch[d][k].tries]]
          /\ UNCHANGED <<job, fin>>
  /\ UNCHANGED <<status, segs, contact, campaign, row, event, money, price, edit, provider>>

-----------------------------------------------------------------------------
DispatchStep(d) ==
  LoadSms(d) \/ EstimateCost(d) \/ RejectDispatch(d) \/ RejectAgain(d)
    \/ ReserveAndQueue(d) \/ InsufficientCredits(d) \/ EnqueueBatches(d)

BatchStep(d, k) ==
  \/ StartBatch(d, k)
  \/ \E p \in Phone, o \in Outcomes : SendToProvider(d, k, p, o)
  \/ SaveRecipient(d, k) \/ FlushEvents(d, k) \/ RetryBatch(d, k) \/ EndBatch(d, k)

FinalizeStep(d) ==
  ReadForFinalize(d) \/ CountRows(d) \/ RollUp(d) \/ FindReservation(d) \/ PriceReached(d)
    \/ DebitActual(d) \/ ReleaseRest(d)

Environment ==
  \/ \E s \in Sms : EditRead(s)
  \/ \E newStatus \in SmsStatus, newSegs \in Segments : EditSave(newStatus, newSegs)
  \/ \E s \in Sms, p \in Phone : OptOut(s, p)
  \/ \E s \in Sms, p \in Phone, v \in Reports : DeliveryReport(s, p, v)
  \/ \E p \in Phone : JoinSegment(p)
  \/ RefreshPrices
  \/ \E d \in Dispatch : EnqueueFails(d) \/ PublishFails(d) \/ Crash(d)

Next ==
  \/ \E d \in Dispatch :
       \/ \E s \in Sms : RequestSend(d, s)
       \/ DispatchStep(d)
       \/ \E k \in BatchNo : BatchStep(d, k)
       \/ FinalizeStep(d)
  \/ Environment

Spec == Init /\ [][Next]_vars

\* Celery runs every task it has taken from the broker; nobody has to click,
\* edit, opt out or report.
Fairness ==
  \A d \in Dispatch :
    /\ WF_vars(DispatchStep(d))
    /\ WF_vars(FinalizeStep(d))
    /\ \A k \in BatchNo : WF_vars(BatchStep(d, k))

FairSpec == Spec /\ Fairness

-----------------------------------------------------------------------------
(* Properties *)

\* The sends use the wallet only as an account: every change of balance and
\* reserved is one booked operation, and no step does two of them.
Total(type) == SumFunction([s \in Sms |-> ledger[s][type]])
Booked ==
  [top_up      |-> balance + Total("debit"),
   reservation |-> Total("reservation"),
   debit       |-> Total("debit"),
   refund      |-> 0,
   adjustment  |-> Total("adjustment")]
Amounts == UNION {0 .. p * g * Cardinality(Phone) : p \in Prices, g \in Segments}
Account == INSTANCE CreditAccount WITH booked <- Booked, Amount <- Amounts
AccountSpec == Account!Spec

\* The wallet cannot be overdrawn by any mix of sends (also not when some
\* release makes `reserved` negative).
Solvent == balance >= 0 /\ reserved <= balance

Outstanding(s) == ledger[s].reservation - ledger[s].debit - ledger[s].adjustment

\* The dispatches of a message that have reserved, and the recipients the estimate of one
\* of them missed, because it queries the contacts a second time.
Reserving(d) == job[d].pc \in {"committed", "enqueued"}
Sends(s) == {d \in Dispatch : job[d].sms = s /\ Reserving(d)}
Missed(s) == UNION {job[d].audience \ job[d].counted : d \in Sends(s)}

\* A settlement takes from the earmarked credits at most what its own SMS
\* reserved, except for contacts that opted out of another message between the two
\* queries: the sends of a user do not pay for each other.
NoSendSpendsAnothersReservation ==
  \A s \in Sms : Outstanding(s) >= - Cost(s, Cardinality(Missed(s)))

\* When a send is settled nothing of its reservation is left behind: the debit
\* and the release of finalize_sms_send add up to it.
SettledInFull ==
  \A d \in Dispatch : fin[d].pc = "settled" => Outstanding(job[d].sms) = 0

\* Every task has ended, or waits for a chord that cannot complete any more.
TasksEnded ==
  \A d \in Dispatch :
    /\ job[d].pc \in {"free", "enqueued", "failed", "lost"} /\ ~job[d].again
    /\ \A k \in BatchNo : batch[d][k].pc \in {"none", "done", "lost"}
    /\ \/ fin[d].pc \in {"none", "settled", "skipped", "lost"}
       \/ fin[d].pc = "waiting" /\ \E k \in BatchNo : batch[d][k].pc = "lost"

\* Double clicks reserve twice and settle twice; in the end nothing stays
\* reserved, unless a worker died or the broker refused the chord.
NothingStaysReserved == TasksEnded /\ used.faults = 0 => reserved = 0

Debited(d) == fin[d].pc \in {"debited", "settled"}

\* The price or the body was another one for some send of the SMS, or it has become
\* dearer since.
Repriced(s) ==
  \E d, e \in Sends(s) : job[d].est # job[e].est \/ (Debited(e) /\ fin[e].actual > job[e].est)

\* What the settlements of the SMS came to.
Charges(s) ==
  SumFunction([d \in Dispatch |-> IF job[d].sms = s /\ Debited(d) THEN fin[d].actual ELSE 0])

\* finalize_sms_send "Debits the actual cost": debit_funds refuses only after a change of
\* the price or of the body of some SMS of the user; double clicks and edits of the status
\* lose no debit, neither the first nor the second of an SMS.
DebitedUnlessRepriced ==
  used.faults = 0 /\ (\A s \in Sms : ~Repriced(s)) =>
    \A s \in Sms : ledger[s].debit = Charges(s)

\* What a send costs in the end, its late delivery reports included, is at most what was
\* reserved for it and the price of the recipients its estimate missed.
CostsAtMostReserved ==
  \A d \in Dispatch :
    Debited(d) =>
      fin[d].actual <= fin[d].est
                         + Cost(job[d].sms, Cardinality(job[d].audience \ job[d].counted))

\* The user pays for no more messages than Vonage took.
ChargedForAccepted ==
  \A s \in Sms :
    ledger[s].debit <= Cost(s, SumFunction(accepted[s]))

\* No row, no reservation and no message for a blocked region, also when such a contact
\* joins the segment after the request was accepted; the provider's own check is not needed.
BlockedNeverQueued == \A s \in Sms : DOMAIN row[s] \cap Blocked = {}

\* A contact gets one copy; a further copy needs a reply that was lost on the way
\* from Vonage, which the code takes for a transient error and retries.
EveryCopyExplained ==
  \A s \in Sms, p \in Phone : accepted[s][p] <= 1 + unconfirmed[s][p]

\* The same for double clicks and crashes: a further copy needs a further dispatch
\* that reserved for it, a fault, or a lost reply.  The filter on "queued" bounds
\* the damage, it does not prevent it.
CopiesBounded ==
  \A s \in Sms, p \in Phone :
    accepted[s][p] <= Cardinality({d \in Dispatch : job[d].sms = s /\ fin[d].pc # "none"})
                        + used.faults + unconfirmed[s][p]

\* A contact gets one copy, also when a worker dies: tasks.py promises that a
\* redelivered batch is idempotent.
AcceptedAtMostOnce == \A s \in Sms, p \in Phone : accepted[s][p] <= 1

Rolled == {"counted", "rolled", "found", "priced", "debited", "settled"}

\* The roll-up waits for the last retry of the last batch: no recipient of a
\* finalised send is still queued.
FinalisedMeansAttempted ==
  \A d \in Dispatch : fin[d].pc \in Rolled => RowsWith(job[d].sms, {"queued"}) = {}

\* An SMS that reads "sent" went out to everybody it has a recipient for, and one that
\* reads "failed" has a failure on record for each of them, whatever reports, opt-outs and
\* retries came between the count and its save.
SentMeansSentToAll ==
  \A s \in Sms, p \in Phone :
    p \in DOMAIN row[s] =>
      /\ status[s] = "sent" => accepted[s][p] > 0
      /\ status[s] = "failed" /\ used.faults = 0 => <<s, p, "failed">> \in event

\* finalize_sms_send never overwrites "cancelled".
CancelledNeverOverwritten ==
  [][\A d \in Dispatch :
       fin'[d].pc # fin[d].pc /\ status[job[d].sms] = "cancelled" =>
         status'[job[d].sms] = "cancelled"]_vars

\* A dispatched SMS does not stay in "processing".
SendsComplete ==
  \A s \in Sms : status[s] = "processing" ~> status[s] \in Final

=============================================================================
