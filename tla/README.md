# SendPerPlane: a verification development

TLA+ models, model-checking runs and proofs for the SendPerPlane backend
(Django REST API, Celery workers, PostgreSQL, Redis broker; Vonage sends the
messages, Shopify bills the merchants). The development follows the code, and
the source paths below are relative to the repository's `apps/`.

## 1. Inventory

| Component | State it keeps | Operations | Where it is hard |
|---|---|---|---|
| Credit wallet (`accounts/service.py`) | `Wallet.balance`, `Wallet.reserved`, `CreditLedger` | top up, reserve, release, debit, refund | concurrent transactions on one row; a caller's rollback takes the operation with it; release has no guard |
| Bulk sending (`sms/sending_service.py`, `sms/tasks.py`, `sms/apis/views.py`) | `Sms.status`, `SmsRecipient`, `SmsEvent`, the tasks in the broker | send request, `dispatch_sms_send`, `send_recipient_batch`, `finalize_sms_send` | parallel batches, retries, redelivery (`acks_late`), a chord, values read early and used late, settlement |
| Delivery reports and opt-out (`sms/apis/views.py`, `sms/service.py`) | recipient and contact status | Vonage webhook, opt-out link | reports early, late, reordered; rows the batch saves from a snapshot |
| One-time payments (`payment/`) | `PaymentOrder`, `WebhookEvent`, `MerchantBillingState` | charge request, billing check, settlement webhook | events repeated, reordered, concurrent; failure in the middle of a settlement |
| Single send (`sms/sending_service.py`, `sms/service.py`, `sms/tasks.py`) | as bulk sending, one SMS and one recipient per request | single-send request, `dispatch_single_sms`, `send_single_sms`, finalize; the welcome of an opt-in | a chain that stops before it settles, broken retry arguments |
| Pricing (`sms/sending_service.py`) | cached country prices | estimate, actual cost, segments | rounding, segment boundaries, text longer once rendered |
| SMS, page, QR records (`sms/service.py`) | rows | create, update, delete | full-row saves of old copies; exists-then-create |
| Public page (`sms/service.py`) | page actions, engagement events | open, click | create-or-update races |
| Contacts and segments (`contacts/service.py`) | contacts, memberships, stored lengths | create, update, delete, opt in | stored counts that drift from the memberships; saves of rows read before the request |
| Campaigns (`campaign/`) | `Campaign.status` | create, update, delete; activation by a send | – |
| Automations (`automation/service.py`) | automations, the periodic task | create, update (schedule, remove), destroy; `create_and_dispatch_sms` | one periodic-task name for everybody; retries that create anew |
| Shopify customers (`shopify/service.py`) | customer links, contacts, the "imported" flag | import once, webhooks | contacts that opted out, webhook against import |
| Shopify catalogue (`shopify/service.py`) | products, variants, media, the "connected" flag | import once, webhooks | the fetch ages while other requests write; a delete in three saves; pruning |
| Accounts (`accounts/`) | users, tokens, Shopify profiles | register, verify, OAuth | get-or-create of users |
| Content (`content/`) | contents | upload, generate from a product | data transformation only |

How they interact: the request that sends an SMS only puts
`dispatch_sms_send` on the broker. That task reserves the estimated credits,
creates the recipient rows, sets the SMS to *processing* and activates its
campaign in one transaction, and then enqueues a chord: the batches in
parallel, `finalize_sms_send` as its body. Batches call Vonage and save rows;
Vonage reports back through a webhook that writes the same rows; the opt-out
link writes the row and the contact. `finalize_sms_send` rolls the rows up into
a status, debits what was sent and releases the rest. A single send goes the
same way with one recipient and a chain of two tasks. The only other source of
credits is the payment webhook, which tops the wallet up.

Contacts are written from four sides: the contact API, the opt-out link, the QR
opt-in, and Shopify's customer webhooks and import. Celery beat reads one
periodic-task row, which the automations share, and starts a bulk send from it.

What makes them correct: credits are neither lost, spent twice nor spent
without a reservation; a contact gets one copy, or each further copy has a
cause one can name; the status, the events and the charge of a send agree with
what Vonage took; a send ends; a payment is credited once; who opted out stays so; the local
customers and products end as Shopify has them. PROJECT.json lists
the places where the code makes this hard ("hazards").

## 2. Modules

| Module | Models | Composes |
|---|---|---|
| `CreditAccount` | the abstract prepaid account | |
| `Wallet` | `WalletTransactionService` as row-locking transactions | implements `CreditAccount` |
| `WalletProofs` | the theorems about `Wallet` | |
| `BulkSend` | request, the three tasks, and what runs beside them | implements `CreditAccount` with the wallet's columns |
| `BulkSendProofs` | the theorems about `BulkSend` | |
| `Payment` | charge request, billing check, settlement webhook, Shopify | |
| `PaymentProofs` | the theorems about `Payment` | |
| `Catalog` | product import and product webhooks, Shopify's catalogue | |
| `CatalogProofs` | the theorems about `Catalog` | |
| `Contacts` | contacts, segments, memberships, stored lengths; requests with open transactions | |
| `Customers` | Shopify's customers, their links, import and webhooks | extends `Contacts`: the same rows, side by side |
| `CustomersProofs` | the theorems about `Contacts` and `Customers` | |
| `SingleSend` | the single send from request to settlement; QR opt-in | |
| `Automation` | automations, the periodic task, a firing | |
| `Automated` | what an opt-in is answered | composes `Automation` and `SingleSend` |
| `AutomatedProofs` | the theorems about `Automated` | |
| `Delivery` | one message after another from Vonage's answer on: worker, reports, opt-out, page, recipient and event API | |
| `DeliveryProofs` | the theorems about `Delivery` | |
| `SumProofs` | what the proofs need of sums over a finite set | |
| `MCWallet`, `MCBulkSend`, `MCPayment`, `MCCatalog`, `MCCustomers`, `MCAutomated`, `MCDelivery` | bounds and symmetry for TLC | |

### Wallet

A worker's `transaction.atomic` block is `Call` (it wants the row), `Acquire`
(`select_for_update().get()`: lock and read the committed row into its copy),
and one of `Commit`, `Refuse` (the guard fails, an error object is returned) and
`Rollback` (a crash, or an exception in the enclosing block). PostgreSQL shows
nothing of a transaction before its commit, so the saves and the ledger row are
part of `Commit`. `save(update_fields=...)` writes only the columns named, as
`WritesBalance` and `WritesReserved` say. The ledger is the total per
`entry_type`.

`release_reservation` does not look at what is reserved, so `reserved` may go
below zero; `Solvent` says that even then nobody can overdraw.

### BulkSend

One record with a program counter per dispatch, batch and finalize task; a step
reads or writes the database once, calls Vonage once, or is one transaction.
The wallet's operations are single steps because `WalletIsAccount` is proved;
the row lock also makes the whole atomic block of `validate_and_dispatch` one
step with respect to other dispatches of the user.

| Action | Code |
|---|---|
| `RequestSend` | `SmsViewSet.send`: checks the status and puts a task on the broker |
| `LoadSms`, `EstimateCost` | `assert_sendable`, the first and the second query of the contacts |
| `ReserveAndQueue`, `InsufficientCredits` | the atomic block, committed or rolled back |
| `EnqueueBatches`, `EnqueueFails`, `PublishFails` | the chord, a broker that refuses it, and one that fails with some or all batches published |
| `RejectDispatch`, `RejectAgain`, `RetryDispatch` | the two except clauses of `dispatch_sms_send` |
| `StartBatch`, `SendToProvider`, `SaveRecipient`, `FlushEvents`, `RetryBatch`, `EndBatch` | `send_recipient_batch`, row by row |
| `ReadForFinalize`, `CountRows`, `RollUp`, `FindReservation`, `PriceReached`, `DebitActual`, `ReleaseRest` | `finalize_sms_send`: the SMS and its body are read, the rows counted, the status saved, the reservation looked up, the cost worked out, the debit, the release |
| `EditRead`/`EditSave`, `OptOut`, `DeliveryReport`, `JoinSegment`, `RefreshPrices`, `Crash` | what happens beside the tasks |

The data is abstract: a contact is its phone, a body its number of segments, a
price the credits per segment. A lost reply is an outcome of the provider call
that the code cannot tell from a transient error (`accepted` and `unconfirmed`
record what Vonage really took; no action reads them except an opt-out, which
needs a message that arrived). Merged into one step where nothing in between
can matter for the properties: the two saves of an opt-out, and the price, the
rows and the contacts that `actual_cost` reads (the price is cached, and the
result is a number that a later step debits). The body is the one read at the
start of `finalize_sms_send`, as in the code.

The chord is not atomic. When its publication fails half-way (`PublishFails`),
the batches published so far run, the others are lost and the chord body never
starts; when all were published the send goes on. Either way the task retries:
it finds "processing" and marks the SMS failed (`RejectAgain`), unless the client
has made it a draft again, and then it would send like one more click, which is
what another `RequestSend` is. `ReadForFinalize` to `ReleaseRest` may end anywhere
(`Crash`); an exception that `finalize_sms_send` swallows (`sms/tasks.py:394`) ends
it the same way. `provider.send` refuses a blocked region as a permanent failure;
the checks before it leave it nothing to refuse (`BlockedNeverQueued`). Deleting an
SMS in the middle of its send is left out.

One statement of the code is about text, which the model does not have. The estimate
counts the template's segments, "which gives a conservative upper bound because
personalised bodies may be shorter" (`sms/sending_service.py:270`). They may be longer
as well: `render_body` (418) appends the opt-out link and the page's address. But the
settlement counts the template's segments too, so the wallet never learns of it, and
Vonage may bill more segments than the user is charged. Here a body is one number of
segments for both; `CostsAtMostReserved` compares the settlement with the reservation
and says nothing of the rendered text.

### Payment

The request is `StartPurchase` (sync of the plan), `CreatePendingOrder`,
`CreateCharge` or `ChargeFails`, `AttachCharge`; it may die between any two.
Shopify is external: it moves a charge, emits an event with the state of that
moment, and delivers events any number of times in any order. A handler is
`Deliver`, then `Duplicate` (the stored result) or `InsertEvent` (get-or-create
of the event row; a second delivery of an uncommitted event waits on the unique
hash), `IgnoreUnknown` or `LockOrder`, and one of `AlreadySettled`, `Decline`,
`Settle`, `TopUpFails`, `MoveOrder`. The effects of the block are in its last
step, because they become visible at the commit. `MappedStatus` is the whole table, with its default:
a status the table does not know fails the order. Payloads without charge id or
status, which Shopify does not send, are left out.

### Catalog

A web worker has one request: an import (`StartImport`, `FetchPage` page after
page) or a webhook (`Deliver`, then `FetchProduct`). Both end in
`_import_fetched_products`: `ReadExisting`, and `WriteProducts` at the commit
(columns, children and pruning together), or `WriteConflicts` when another
transaction has inserted the same product since. `delete_product` has no
transaction: `DeleteRow`, `DeleteVariants` and `DeleteMedia` are its three saves.
`Answer` sets `connect_products` and answers 200. `FetchFails` (502),
`RequestDies` and `AnswerIsLost` leave the event to be delivered again.

A product is the sets of its variants and media, and whether it is active
(`Active`); every other column is written with them, from the same payload, and
`shown` stands for it. The import asks for active products only (`status:ACTIVE`,
`shopify/service.py:670`) and prunes what it does not find; a webhook fetches its
product by id, whatever its status. So a draft that no webhook told of is not in
the copy, and one that a webhook told of is listed; no import takes it away again, because
the webhook has set the flag that refuses imports. `SettledMeansMirrored` says exactly
this. Two transactions that save the same product wait for each other on
its row, so each takes effect at its commit. Four observers serve the properties:
`noticed` (an event was emitted for the product), `imported` (an import has
committed), `handled` (a webhook of the product has done all its work), and
`overlapped`, the products that two requests have handled at the same time.
`start.sh` starts one synchronous web worker, and then nothing overlaps; the
Dockerfile names two workers as the deployed command, and with those the copy of
an overlapped product may stay wrong until its next change, which is why the
properties except it.

### Contacts and Customers

A request is a program counter, the row it has read (`row`), the segments it was
asked for and the lengths it has counted. Every request reads in one step and saves
in a later one. `create_contact` and `update_contact` are `CreateContact` (get_or_create)
or `OpenContact` (the view's read), then `SaveContact`, which runs to the last save of
the transaction, and `Commit`, which makes it visible; in between the transaction holds
the contact, its phone and its segments (`HeldContact`, `HeldPhone`, `HeldSegment`).
They and `update_contact_list` save every column of the object that was read, and
Django inserts the row again when it is gone. An opt-out is `OpenOptOut` and `SaveOptOut`,
a save of the whole row too: it may write an old phone back. `DeleteContact` refreshes
no length, because its queryset is evaluated after the memberships are gone;
`RemoveMember` and `SaveLength` are two steps, because that handler is no transaction.
Phones and statuses are the only columns of a contact.

In `Customers`, Shopify changes a customer and sends a webhook with the customer
as it is then; it repeats the webhook until it is answered with 200, perhaps once
more after that, in any order. A worker that gets one (`Deliver`, `DeliverAgain`) first
reads, without a lock: `SyncCustomer` (create) the contacts of the phone,
`UpdateCustomer` and `DeleteCustomer` the link; an update of a customer without a link
is `UpdateFails` (500). The import is `StartImport`, `FetchPage` page by page, and
`OpenImport`, which reads the contacts of all phones. The saves are steps of their own:
`SaveContacts` creates the missing contacts, holds the others, reads all of them again by
phone and then the links, and `SaveLinks` writes the links and commits, for the import as
for the create webhook; `SaveUpdate` and `SaveDelete` are those of the other two. A
transaction shows at its commit, so what another one may see in between is what it
holds. A constraint or a row that is gone makes the handler give up (`GiveUp`: rolled
back, and the webhook not answered); a failed fetch, a deadlock or a crash does the same
(`JobFails`). `update_customer` saves its link before its contact, the others the other
way round, so two of them may wait for each other; PostgreSQL ends that by failing one.

`drifted`, `renumbered`, `silenced`, `outOfOrder` and `crossed` are observers: they
record the causes the properties name as exceptions, and no action reads them.
`crossed` are the customers that two handlers had in hand at once, or whose contact
changed its phone under a handler. What it hides is real: `update_customer` reads
the link, an import attaches another contact, and the update then gives the phone to
the contact the link had before.

### SingleSend, Automation and Automated

Every single-send request creates an SMS of its own, so one record per SMS holds
the row, the recipient, the ledger entries and the program counter of its task.
`Validate` is `validate_and_send` up to its atomic block, `ReserveSingle` the
block, `EnqueueChain` the chain, `BuildRecipient`, `CallProvider` and
`SaveResult` are `send_single_sms`; `ReadForFinalize` to `ReleaseRest` are
`finalize_sms_send`. The QR opt-in is `OptIn` (the phone is looked up),
`RegisterContact` (the row is created or the constraint refuses it) and
`SendWelcome`, which always fails: without an active welcome automation with a
`ValidationError`, with one because `send_welcome_sms` (`sms/service.py:642`)
creates the SMS without its user, which the column does not allow.

`update_automation` is `UpdateRead`, `UpdateSave` (all columns), and then
`ScheduleRead` and `ScheduleSave`, or `Unschedule`. The `PeriodicTask` row has one
fixed name. A firing is `CreateScheduled` (an SMS per attempt) and
`DispatchScheduled`; what happens to a dispatched SMS is `BulkSend`. The dispatch may
fail after its batches are on the broker, and the retry then makes another SMS and
sends again (`sms/tasks.py:42`): `made` and `sent` count this, and no property
promises that a firing sends once.

### Delivery

Per recipient there is the batch task (`CallProvider`, `SaveAnswer`, `LogAnswer`)
and up to one request per web worker: a delivery report, an opt-out, an edit
through the recipient API, a page view, a click. Each reads the row, writes it
and then writes an event or the contact, in steps of their own, from the copy it
has read; what it saves is the columns the code names, or the whole row. A report
whose message id is not saved yet, or was overwritten, finds no row and is
dropped, as in the code. The row is its status and whether the message id,
`delivered_at` and `page_opened_at` are set. An edit writes any of these columns that the
client sends (`Patches`; a message id it writes is another than Vonage's), over the
copy of the row it has read. Through the event API (`WriteEvent`) a client may create,
change or delete any event, or none. `handmade` is an observer: the recipients whose status or
events a client wrote itself, of which `StatusHasItsEvent` says nothing. One sender
per recipient is assumed: two dispatches of one SMS are in `BulkSend`, not here.
Deleting a recipient is left out.

## 3. Runs

Runs that pass:

| Run | Instance | Question and answer |
|---|---|---|
| `wallet` | 2 workers, amounts {1,2}, calls stop after a total of 2 | no lost update, no overdraft, every call returns, the transactions refine `CreditAccount` |
| `bulk_one` | 1 SMS, 2 contacts, 2 parallel batches, 1 retry, all outcomes, up to 2 opt-outs, reports at any point of the settlement | the send ends; status, copies and charge agree with what Vonage took |
| `bulk_pair` | 2 sends of 2 segments, 1 contact and 2 joining (one in a blocked region), 1 opt-out, credits for one send or for two | each settles within its own reservation, but for the recipients its estimate missed; nobody in a blocked region gets a row |
| `bulk_faults` | double click, 2 contacts, 2 batches, 1 retry, 1 fault: a crash, a lost batch, a chord refused or taken in part | copies are bounded by dispatches, faults and lost replies; without the fault nothing stays reserved |
| `bulk_edits` | double click on 1 SMS with 2 contacts, one edit of status or body, one price change | the wallet is used only through its operations; what an SMS is debited is what its settlements came to, unless it was repriced |
| `payment` | 1 order, 3 events, 2 workers, 1 fault | event log and ledger agree; one credit, plus at most one per overwriting event; an approved charge is answered |
| `catalog` | 1 product, active or draft, 2 pages, 2 changes, 2 workers, 1 fault | a product that no two requests handle at once ends as Shopify has it, and is never shown half old, half new; the import is refused only once an import or a webhook has done its work |
| `audience` | 2 contacts, 2 phones, 1 segment, 2 workers, 2 customers on the first of 2 pages, 2 changes, 1 repeat, 4 requests and changes in all, every read and every save a step | lengths are exact, opted-out contacts stay so, links end as Shopify has the customers and agree with the contacts, each unless one of its named causes occurred |
| `automated` | 2 automations, 2 writers, 1 firing with 1 retry, 2 single sends, 2 opt-ins with one phone, 5 pieces of work in all | the schedule follows the status; a single send sends once; a phone registers once; credits stay reserved only where the chain stops before it settles |
| `recipient` | 1 recipient, 3 requests at a time, 4 in all, 1 fault, edits of columns and events | status and events agree when nothing is under way and no client wrote them; only whole-row saves undo what was recorded |

Bounds. Two workers, tasks or events are what a race needs, two contacts in
batches of one are the least with parallel batches, one retry separates "first
try", "last try" and "exhausted", and three events are the least with
"settled, overwritten, settled again". Products and customers are on the first of
two pages, so that they can change after their page was fetched. One fault is a
crash between two saves, a failed fetch or a lost answer. Two customers and two
phones are the least with a shared contact and with a phone another contact has;
two changes are create and update, or update and delete, of one of them, or one of
each; a webhook may come twice. The one length a client may write is 0. In `automated` the
work that is begun and the faults share one bound (`MaxWork`): five is enough for
an automation that is created, activated and deactivated while a second one takes
the row, or for two sends with a cancellation, a crash and a price change. In
`recipient` three requests at a time are a report, an opt-out and a page view over
each other; a fourth comes late. Recipients do not meet, so one is enough. The
wallet's ledger bound only stops new calls; what is in flight still finishes.

Runs in which a statement of the code's own documentation is violated; each
checks that one statement:

| Run | Statement | What happens |
|---|---|---|
| `bulk_crash` | "Idempotency is guaranteed by filtering on status="queued"" (`sms/tasks.py:92`) | a worker dies between `provider.send` and `save`; the redelivered batch sends again |
| `bulk_cancel` | "Never overwrites a status that is already 'cancelled'." (`sms/tasks.py:238`) | a cancellation falls between the read and the save of the roll-up |

Limits of the code that the passing runs respect rather than hide. They are in
the models, and where a property would be broken by one it names it:

- Sending. A crash or a refused chord after the reservation leaves credits
  reserved for good, as does a cancelled send (`finalize_sms_send` returns before
  it settles): `NothingStaysReserved` excludes faults and its run cancels nothing.
  A lost batch keeps the chord from completing: `SendsComplete` is claimed without
  crashes. Two dispatches can both pass the status check before either commits
  (`sms/sending_service.py:354`, although "Only draft or scheduled sends can be
  triggered", 244): the send goes out twice, and `CopiesBounded` counts by
  dispatches. A price that rises after the estimate makes the debit refused, which
  is only logged (`sms/tasks.py:372`): the exception of `DebitedUnlessRepriced`. An
  opt-out between the two contact queries of `validate_and_dispatch` leaves rows
  the estimate did not count: the settlement may exceed the reservation by their price,
  the last term of `CostsAtMostReserved`. `SentMeansSentToAll` is for one request per
  message: a second dispatch adds rows to an SMS that reads "sent", and marks an SMS
  "failed" that the first is sending.
- Single send. A transient error ends it: the retry passes the list of recipients
  where the task takes the contact. An unsubscribed contact stops the chain. In
  both cases the credits stay reserved (`Stranding`), as they do when the price rises and
  the debit is refused: `ReservationExplained` says how much, and of which sends. A contact that is gone, or a
  refused reservation, raises what `dispatch_single_sms` does not handle, and the
  SMS stays "scheduled".
- Opt-in. The welcome never succeeds (see above); the contact stays, the request
  fails, and a second attempt finds the phone taken.
- Automations. Destroying an automation, changing its type or only switching
  `is_active` off leaves the periodic task in place. A second recurring automation
  takes the row over, and deactivating the first then deletes the other's
  schedule. Each retry of a firing leaves its SMS behind, and sends
  once more if the first one had reached the broker; without its segment the
  handler stumbles over an unbound name.
- Payment. An event that overwrites a settled order makes a later ACTIVE event
  credit it again: the second term of `CreditedOnce`.
- Catalogue. A product webhook before the first import sets `connect_products`
  (`shopify/service.py:735`), and the import is refused although nothing was
  imported ("Future product changes sync via webhooks", 697): the second case of
  `RefusedOnlyOnceHandled`. Only the import skips drafts, so whether a merchant sees one
  depends on whether a webhook told of it.
- Contacts and customers. The save of a row read before an opt-out subscribes the
  contact again, inserts a deleted contact again, or writes an old length or phone back.
  An import or a create webhook subscribes whoever opted out. A create that arrives
  after the delete, or an import that commits what it fetched before a newer
  webhook, leaves old news in the link. A phone that is removed at Shopify stays;
  two customers may share a contact, and an update of one renumbers both. An update that
  crosses an import renumbers the contact the link had before (`crossed`).
- Delivery. A report that overtakes the saved message id is dropped for good; a
  late "submitted" takes a delivered row back to "sent"; an opt-out or an edit that
  read the row early wipes the message id, after which reports find nothing. An
  edit may also set any status, and the event API any event, so that the two records of a
  message say different things (`handmade`). A click whose action was deleted in between is answered with 404 and not logged.

Fairness. Celery runs every task it has taken from the broker (weak fairness of
each task's steps). PostgreSQL queues the waiters of a row lock (strong
fairness of `Acquire`) and a transaction that holds a row runs no I/O. A web
worker goes on with the webhook it has, and Shopify repeats an event until it is
answered with 200 (strong fairness of the delivery of an event not yet
processed); so it is with the product webhooks. Nobody has to click, edit, opt
out, report, approve, import or change a product. `audience`, `automated` and
`recipient` check safety only and assume no fairness.

Deadlock. A send really ends, so `MCBulkSend` lets a state in which all tasks
have ended stutter, and nothing else; `MCCustomers` does so when every worker is
free or the keys for new contacts have run out, so that requests that wait for
each other would show. `automated` and `recipient` end when their bounded work is
used up, and no action of theirs waits for another: there the check is off.

## 4. Proofs

For all values of the constants, from the named assumptions of the modules and,
where the last column has one, a bound on what the environment does:

| Theorem | Statement | Bound |
|---|---|---|
| `WalletProofs!TypeCorrect` | `Spec => []TypeOK` | |
| `WalletProofs!LedgerCorrect` | `Spec => []LedgerAgrees` | |
| `WalletProofs!Solvency` | `Spec => []Solvent` | |
| `WalletProofs!WalletIsAccount` | `Spec => AccountSpec`: the locked transactions implement the account | |
| `PaymentProofs!PaymentTypes` | `Spec => []TypeOK` | |
| `PaymentProofs!LedgerIsLog` | `Spec => []EventLogAgrees` | |
| `PaymentProofs!OnceCredited` | `Spec => []CreditedOnce` | |
| `PaymentProofs!PaidOnly` | `Spec => []OnlyPaidIsCredited` | |
| `PaymentProofs!SettledIsCredited` | `Spec => []SettledMeansCredited` | |
| `CatalogProofs!CatalogTypes` | `Spec => []TypeOK` | |
| `CatalogProofs!ListedFromOneFetch` | `Spec => []ListedIsOneFetch` | |
| `CatalogProofs!RefusedOnceHandled` | `Spec => []RefusedOnlyOnceHandled` | |
| `CatalogProofs!MirroredWhenSettled` | `Spec => []SettledMeansMirrored` | |
| `DeliveryProofs!DeliveryTypes` | `Spec => []TypeOK` | |
| `DeliveryProofs!StatusesHaveEvents` | `Spec => []StatusHasItsEvent` | |
| `DeliveryProofs!OnlyWholeSavesForgetIt` | `Spec => OnlyWholeSavesForget` | |
| `AutomatedProofs!AutomatedTypesHold` | `Spec => [](AutomationTypes /\ SendTypes)` | |
| `AutomatedProofs!ScheduleAlwaysAgrees` | `Spec => []ScheduleAgrees` | |
| `AutomatedProofs!SendsOneCopy` | `Spec => []OneCopyPerSend` | |
| `AutomatedProofs!ReservationAlwaysExplained` | `Spec => []ReservationExplained` | |
| `AutomatedProofs!PhonesRegisteredOnce` | `Spec => []RegisteredOnce` | |
| `CustomersProofs!CustomerTypesHold` | `CustomersSpec => [](ContactTypes /\ CustomerTypes /\ JobTypes)` | |
| `CustomersProofs!LengthAlwaysExact` | `CustomersSpec => []LengthExact` | |
| `CustomersProofs!SilencedAlwaysSilent` | `CustomersSpec => []SilencedStaysSilent` | |
| `CustomersProofs!LinkAlwaysAgrees` | `CustomersSpec => []LinkAgrees` | |
| `CustomersProofs!SettledAlwaysLinked` | `CustomersSpec => []SettledMeansLinked` | |
| `BulkSendProofs!BulkTypesHold` | `Spec => []BulkTypes` | |
| `BulkSendProofs!AlwaysSolvent` | `Spec => []Solvent` | |
| `BulkSendProofs!SendsUseAccount` | `Spec => AccountSpec` | |
| `BulkSendProofs!CopiesAlwaysBounded` | `Spec => []CopiesBounded` | |
| `BulkSendProofs!BlockedNotQueued` | `Spec => []BlockedNeverQueued` | |
| `BulkSendProofs!AlwaysDebitedUnlessRepriced` | `Spec => []DebitedUnlessRepriced` | |
| `BulkSendProofs!CopiesAlwaysExplained` | `Spec => []EveryCopyExplained` | one request per message, no faults |
| `BulkSendProofs!FinalisedAlwaysAttempted` | `Spec => []FinalisedMeansAttempted` | one request per message |
| `BulkSendProofs!SentAlwaysToAll` | `Spec => []SentMeansSentToAll` | one request per message, no edits |
| `BulkSendProofs!NothingLeftReserved` | `Spec => []NothingStaysReserved` | no edits, price changes or opt-outs, nobody joins |
| `BulkSendProofs!CostsAlwaysReserved` | `Spec => []CostsAtMostReserved` | one request per message, no edits, no price change |
| `BulkSendProofs!SendsPayForThemselves` | `Spec => []NoSendSpendsAnothersReservation` | one request per message, no edits, no price change |
| `BulkSendProofs!AlwaysSettledInFull` | `Spec => []SettledInFull` | one request per message, no edits, no price change; no opt-outs, or one message |
| `BulkSendProofs!AlwaysChargedForAccepted` | `Spec => []ChargedForAccepted` | one request per message, no edits, no price change |

Every safety property that a passing run checks is stated by one of these
theorems. A bound is not there to help the proof: TLC finds a counterexample on a
small instance that drops it, for a reason section 3 names (a second click, an edit,
a price that rises, a crash, a contact that opts out between two queries). What a
property itself excuses, such as the faults of `DebitedUnlessRepriced`, is in its
formula and not here. Each bound includes the instance on which the property is
model-checked; within it the number of messages, contacts, batches, retries,
credits and prices is free.

The wallet's invariant is `TypeOK /\ CopyIsRow /\ LedgerAgrees /\ Solvent`. None
of the last two is inductive alone: a commit writes values computed from a copy,
and only `CopyIsRow`, which says that the copy of a transaction that holds the
row is the row, makes `Commit` an operation on the row. `CopyIsRow` in turn needs
that at most one worker holds the row (`OneHolder`). The refinement uses the same
invariant: `Commit` maps to the account's operation, every other step stutters.

The payment invariant `IInv` has two halves. `Knowledge` adds to the types what
the parts know of each other: an event that says ACTIVE is about a charge that is,
a handler that holds an order has its committed status, only an attached order is
ever held, and two handlers past the insert hold different events
(`Exclusive`). `Accounts` counts: an order's credits are the events logged as
settling it, and at most the events logged as overwriting it, plus one if it is
settled now (`CreditsBounded`). `CreditedOnce` alone is not inductive: it does not
say that the credit of a settled order is already spent, nor that a settled order
takes no second one. The lemma `LogGrows` does the counting: a handler's commit
adds its event to one set of the log and to no other, which is where `Exclusive`
and the unprocessed event of a handler are needed. That the events are finitely
many (`PaymentAssumption`) is used only to count them.

The catalogue's `ListedIsOneFetch` is not inductive alone: a delete prunes the
variants and then the media of a product in saves of their own, and that keeps
the listed products whole only because the row it deleted first stays deleted
(`DeletesLast`). It stays so because nobody else writes it: a product outside
`overlapped` concerns one request at most (`Alone`), and every write of a request
is to a product that concerns it (`RequestsSound`, `Written`).

`RefusedOnlyOnceHandled` needs to know that a request may set the flag only with its work
done (`EndsDone`): an import at its last step has written its products, and a webhook
at its last step has synced or deleted its product, all three saves of a delete
included. What is done stays done (`DoneGrows`).

The delivery invariant is `TypeOK /\ RequestsSound /\ UnknownUntilSaved /\
StatusesBacked`. `StatusHasItsEvent` speaks of quiet recipients only; a step back
from quiet, the status must be said to be *backed*: it is in the events, or the
worker or a report that has saved it is about to log it. That is not enough
either, because an opt-out or an edit writes a status that it read long ago, so
`StatusesBacked` says it of every copy a request carries as well. `BackedStays`
shows that what backs a status survives every step: only a client takes an event away,
and its recipient is then `handmade`, as it is when the client writes a status; whoever
was about to log does so before it goes. For `OnlyWholeSavesForget` the
worker is the difficult case: it writes the message id unconditionally, so it
could only forget an id that is there before it has saved one; `UnknownUntilSaved`
says there is none, in the row or in any copy that could be written back.

For `SettledMeansMirrored` an invariant has to say what is known of a product
*while* it is worked on. (An import knows of the active products only, `Current`; a
webhook of its own, draft or not, `Fetched`.) `EventsSound`: an event that a request works on stays
pending until that request answers, and a delete event is of a product that is
gone. `RequestsKnow`: of a product without a pending event, what an import has
fetched is what Shopify has; of a product whose only pending event is its own, a
webhook that has fetched has the current payload, one that deletes deletes what is
gone, and one about to answer leaves the copy right. `CopyCurrent`: without a
pending event the copy is right, also in the middle of an import. The step is carried
by `ProductMoves` (a product changes only with a new event, and loses one only by an
answer), by `Alone` (nobody else answers for the product or writes it) and by the
numbering of the events (a change that falls into a webhook leaves a second event).

**Bulk sending.** `BulkSendProofs` has one inductive invariant of eighteen parts, each
kept by a lemma of its own. The most telling ones:

- `Sound`: types; the recipients of a dispatch's batches are disjoint and have rows;
  a row that reads "sent" or "delivered" is one the provider took; no row is of a blocked region.
- `CopiesCounted` counts copies taken *plus* the dispatches that may still send to
  that phone (`Pending`). `CopiesBounded` is not inductive, because a step that sends
  has to use something up: it takes its dispatch out of `Pending`, unless the reply
  is lost (counted in `unconfirmed`) or the batch is redelivered after a crash (counted in
  the faults). `ClicksCounted` makes it `EveryCopyExplained` for one click.
- `Attempts`: a queued recipient of a send is in a batch that is not done (`Waiting`), so
  the chord body cannot run before.
- `VerdictsHold`: what a status says of the recipients is true, and was when it was
  counted: the roll-up saves a verdict that a report, an opt-out or a join may have
  overtaken. "Failed" is true because a failure is on record before anybody can count it, or
  its batch is still to write it (`FailuresRecorded`), and because a dispatch that failed had
  no rows (`RowsReserved`, and `AgainMeansFault` for one that retries after it published).
- `MoneyAgrees`: what is reserved is the sum over the messages of what is outstanding of each.
  `AmountsBooked` bounds each amount by a price times the contacts. These two
  give the refinement: every step of a task is one operation of `CreditAccount`
  with an allowed amount, or does not touch the wallet.
- `EstimatesBooked` and `SharesHeld` say it per dispatch, for double clicks: without
  faults and repricing, what is reserved is the sum of the shares that the dispatches
  still hold, and a term of a sum of natural numbers is at most the sum, which is why
  `debit_funds` is not refused; so the debits of an SMS are the sum of what its
  settlements came to, the second's as well as the first's.
- `CalmSends`: when nothing moves the audience or the price, every dispatch estimates
  for all contacts. Then all shares are used up when all tasks have ended.
- `QuietSends`: a message asked for once has booked what its dispatch has booked, and
  the rows never cost more than the estimate and the recipients it missed (`Extra`);
  it misses none when nobody can opt out of another message (`Sure`). `SegsRead` says that
  the body that was read is still the body. The lemma `QuietEntries` collects the
  consequences.
- `ChargesFair`: a message asked for once, at one price, is debited by its one dispatch
  only, for phones that the provider took it for. This needs no bound on the opt-outs.

`Repriced` looks at all dispatches of the message that have reserved (`Reserving`), not
only at those that are settling: with four clicks or more, too many for TLC, a dispatch
that has settled at its estimate and one that has become dearer could empty the
reservation of a third that differs from neither. The proof found that.

**Contacts and customers.** Requests work on copies, so the invariant is about copies.
`CopiesSilence`: a copy of a silenced contact does not say "subscribed" unless the client asked
for it or the copy is older than the opt-out (`late`). `CountsRight`: a length a
request has counted and that has not aged counts the members there are, and in
an open transaction the one to come; the locks keep it from aging in between.
`SettledMeansLinked` needs the history of the webhooks: the last one of a customer
says what Shopify has (`LastNews`), what an import fetched is current or a webhook
was sent since (`FetchedSound`), and links come with creates and end with deletes
(`LinkNews`). For `LinkAgrees` an invariant speaks of what the handlers carry (`JobInv`):
an update has read the link there is, but for its contact, unless the customer is crossed
(`HookSound`); an import or a create holds the contacts it is about to link, each for its
phone (`KeysSound`); and two handlers have a customer in hand only if it is crossed
(`Crossing`). A step of a request is shown to keep the invariant once for all requests
(`Sound` of the one request, from the new tables), then per action.

**Automations and single sends.** The halves of `Automated` share no variable, so each
has an invariant of its own. `ScheduleAgrees` holds only between updates; in
between, `AgreesUnlessSaving` says it of the rows nobody has saved yet, and
`CopiesSound` that the copy of an undisturbed update is the row and calls for the step it is at.
For a single send, `SendsSound` relates the program counter to what was sent and
charged, `SendsFunded` says what is held at each counter unless the price rose,
and `Earmarked` that `reserved` is the sum of it.

**Sums.** `Cardinality`, `SumFunction` and the fold they stand on are what the counting rests on.
The library's induction theorems take an operator as parameter, which the provers
cannot instantiate, but the well-foundedness of strict inclusion on finite sets can
be cited as it is. `SumProofs` derives from it that a set of subsets closed under adding
elements is all of them (`SubsetInduction`), that the fold defines a function
(`FoldExists`), and then what the invariants use: a sum changes by as much as one
term (`SumStep`), is monotone, is zero for zeros, and is at least each of its terms.

Only model-checked: the liveness properties (`SendsComplete`, `ChangesArrive` and
the others under fairness), which are outside the prover's reach, as is ENABLED;
and the two statements that are violated. No module has a recursive operator.

## 5. Not modelled, and what remains

What a later extension would add, in the order of its weight:

1. Proofs: the bounds of the conditional theorems about `BulkSend` per message
   instead of for the whole run (a message that is clicked once, next to one that is
   clicked twice); an abstract escrow (reserve, spend, return) that a send implements.
2. `Pricing`: segments and credits over bounded texts against a reference
   definition. Today a text is its number of segments.
3. Sending and delivery in one module: `BulkSend` takes a report only once the
   message id is saved, `Delivery` has one recipient and no retries.
4. E-mail verification and the Shopify sign-in (get-or-create of the user).

Not modelled because nothing of it would be checked: making a QR code (exists,
then create; nothing depends on there being one code), the plain create, read,
update and delete handlers of pages, actions, events and campaigns, and deleting
an SMS in the middle of its send. Left out for good: content generation and the
language-model client (data transformation), the admin, serializers, URLs and
migrations (declarations), statistics (read only), and the wording of messages.
