------------------------------ MODULE Payment ------------------------------
(***************************************************************************)
(* Buying credits (apps/payment): the one-time-charge request, the billing *)
(* check, and the webhook that settles an order, for one merchant.         *)
(*                                                                         *)
(* Shopify is outside: it changes the state of a charge, emits an event    *)
(* with the state the charge has then, and delivers every event until it   *)
(* is answered with 200, more than once and in any order.  A delivery is   *)
(* handled by a web worker in one transaction.atomic block; PostgreSQL     *)
(* serialises the blocks on the WebhookEvent row (get_or_create waits on   *)
(* the unique payload_hash of an uncommitted insert) and on the            *)
(* PaymentOrder row (select_for_update).  Writes show at the commit, so    *)
(* they are part of the last step of the block.                            *)
(***************************************************************************)
EXTENDS Integers, FiniteSets

CONSTANTS
  Order,             \* purchases the merchant may make
  Event,             \* webhook events Shopify may emit (X-Shopify-Webhook-Id)
  Worker,            \* web workers that handle webhooks
  None,              \* no event, no order
  MaxFaults          \* failed top-ups and crashes in all

ASSUME PaymentAssumption ==
  None \notin Event \cup Order /\ IsFiniteSet(Event) /\ MaxFaults \in Nat

VARIABLES
  plan,              \* the shop's plan at Shopify
  billing,           \* MerchantBillingState, as synced
  request,           \* the one-time-charge request of each order
  status,            \* PaymentOrder.status; "none" before the row exists
  attached,          \* PaymentOrder.provider_charge_id is set
  credits,           \* top_up rows of the CreditLedger that name the order
  result,            \* WebhookEvent.processing_result; "none": no committed row
  worker,            \* the webhook handlers
  charge,            \* Shopify's state of the charge; "none" before it exists
  emitted,           \* what an event says: the order of its charge and its status
  faults

merchant == <<plan, billing>>
orders == <<request, status, attached, credits>>
shopify == <<charge, emitted>>
vars == <<plan, billing, request, status, attached, credits, result, worker,
          charge, emitted, faults>>

Plan == {"billable", "blocked"}
Status == {"pending", "approved", "settled", "declined", "failed", "cancelled"}
ChargeStatus == {"PENDING", "ACTIVE", "DECLINED", "EXPIRED"}
Result == {"ignored", "already_settled", "settled", "declined", "moved"}

Idle == [pc |-> "idle", event |-> None, status |-> "pending"]

Init ==
  /\ plan \in Plan
  /\ billing = "missing"
  /\ request = [o \in Order |-> "none"]
  /\ status = [o \in Order |-> "none"]
  /\ attached = [o \in Order |-> FALSE]
  /\ credits = [o \in Order |-> 0]
  /\ result = [e \in Event |-> "none"]
  /\ worker = [w \in Worker |-> Idle]
  /\ charge = [o \in Order |-> "none"]
  /\ emitted = [e \in Event |-> [order |-> None, status |-> "PENDING"]]
  /\ faults = 0

-----------------------------------------------------------------------------
(* The request                                                             *)

\* sync_billing_state, from the request and from the billing check.
SyncBillingState == billing' = plan

\* evaluate_merchant_profile.
IsAllowed == billing = "billable"

BillingCheck ==
  /\ SyncBillingState
  /\ UNCHANGED <<plan, orders, result, worker, shopify, faults>>

\* create(): the plan is synced; a shop on a blocked plan is refused.
StartPurchase(o) ==
  /\ request[o] = "none"
  /\ SyncBillingState
  /\ request' = [request EXCEPT ![o] = IF plan = "billable" THEN "synced" ELSE "refused"]
  /\ UNCHANGED <<plan, status, attached, credits, result, worker, shopify, faults>>

CreatePendingOrder(o) ==
  /\ request[o] = "synced"
  /\ request' = [request EXCEPT ![o] = "created"]
  /\ status' = [status EXCEPT ![o] = "pending"]
  /\ UNCHANGED <<merchant, attached, credits, result, worker, shopify, faults>>

\* appPurchaseOneTimeCreate at Shopify.
CreateCharge(o) ==
  /\ request[o] = "created"
  /\ request' = [request EXCEPT ![o] = "charged"]
  /\ charge' = [charge EXCEPT ![o] = "PENDING"]
  /\ UNCHANGED <<merchant, status, attached, credits, result, worker, emitted, faults>>

\* The same, refused, or with its reply lost: ShopifyPaymentError.
ChargeFails(o) ==
  /\ request[o] = "created"
  /\ request' = [request EXCEPT ![o] = "failed"]
  /\ status' = [status EXCEPT ![o] = "failed"]
  /\ charge' \in {charge, [charge EXCEPT ![o] = "PENDING"]}
  /\ UNCHANGED <<merchant, attached, credits, result, worker, emitted, faults>>

\* The response carries the confirmation URL: only now can the merchant approve.
AttachCharge(o) ==
  /\ request[o] = "charged"
  /\ request' = [request EXCEPT ![o] = "answered"]
  /\ attached' = [attached EXCEPT ![o] = TRUE]
  /\ UNCHANGED <<merchant, status, credits, result, worker, shopify, faults>>

RequestDies(o) ==
  /\ request[o] \in {"synced", "created", "charged"}
  /\ faults < MaxFaults
  /\ faults' = faults + 1
  /\ request' = [request EXCEPT ![o] = "dead"]
  /\ UNCHANGED <<merchant, status, attached, credits, result, worker, shopify>>

-----------------------------------------------------------------------------
(* Shopify (external)                                                      *)

Unused(e) == emitted[e].order = None

Emit(e, o, s) == emitted' = [emitted EXCEPT ![e] = [order |-> o, status |-> s]]

PlanChanges ==
  /\ plan' \in Plan \ {plan}
  /\ UNCHANGED <<billing, orders, result, worker, shopify, faults>>

\* A pending charge is approved, declined or expires; the first two need the
\* confirmation page.
ChargeMoves(o, s, e) ==
  /\ charge[o] = "PENDING"
  /\ s = "EXPIRED" \/ request[o] = "answered"
  /\ Unused(e)
  /\ charge' = [charge EXCEPT ![o] = s]
  /\ Emit(e, o, s)
  /\ UNCHANGED <<merchant, orders, result, worker, faults>>

\* An update that does not change the charge.
ChargeUpdated(o, e) ==
  /\ charge[o] # "none"
  /\ Unused(e)
  /\ Emit(e, o, charge[o])
  /\ UNCHANGED <<merchant, orders, result, worker, charge, faults>>

-----------------------------------------------------------------------------
(* The webhook: handle_one_time_charge_webhook                             *)

OrderOf(w) == emitted[worker[w].event].order

Deliver(w, e) ==
  /\ worker[w].pc = "idle"
  /\ ~Unused(e)
  /\ worker' = [worker EXCEPT ![w] = [Idle EXCEPT !.pc = "arrived", !.event = e]]
  /\ UNCHANGED <<merchant, orders, result, shopify, faults>>

Done(w) == worker' = [worker EXCEPT ![w] = Idle]

ProcessedNever(e) == FALSE                       \* fault: the event log is not consulted

\* A committed row always has its processed_at.
Processed(e) == result[e] # "none"

\* "Webhook event already processed": the stored result is returned again.
Duplicate(w) ==
  /\ worker[w].pc = "arrived"
  /\ Processed(worker[w].event)
  /\ Done(w)
  /\ UNCHANGED <<merchant, orders, result, shopify, faults>>

\* The row of the event is inserted; a second delivery waits for the first.
InsertEvent(w) ==
  /\ worker[w].pc = "arrived"
  /\ ~Processed(worker[w].event)
  /\ \A v \in Worker : worker[v].event = worker[w].event => worker[v].pc = "arrived"
  /\ worker' = [worker EXCEPT ![w].pc = "inserted"]
  /\ UNCHANGED <<merchant, orders, result, shopify, faults>>

OrderIsFreeAlways(w) == TRUE                     \* fault: no select_for_update on the order

OrderIsFree(w) ==
  \A v \in Worker : worker[v].pc = "locked" => OrderOf(v) # OrderOf(w)

\* get_payment_order_for_charge: the lock and the committed row.
LockOrder(w) ==
  /\ worker[w].pc = "inserted"
  /\ attached[OrderOf(w)]
  /\ OrderIsFree(w)
  /\ worker' = [worker EXCEPT ![w].pc = "locked", ![w].status = status[OrderOf(w)]]
  /\ UNCHANGED <<merchant, orders, result, shopify, faults>>

\* _finalize_webhook_event, and the commit of the block.
Finalize(w, r) ==
  /\ result' = [result EXCEPT ![worker[w].event] = r]
  /\ Done(w)

\* No order has this charge id (yet): the event is recorded and never looked at again.
IgnoreUnknown(w) ==
  /\ worker[w].pc = "inserted"
  /\ ~attached[OrderOf(w)]
  /\ Finalize(w, "ignored")
  /\ UNCHANGED <<merchant, orders, shopify, faults>>

IsActiveAlways(w) == TRUE                        \* fault: any status settles the order

IsActive(w) == emitted[worker[w].event].status = "ACTIVE"

ToSettle(w) ==
  /\ worker[w].pc = "locked"
  /\ IsActive(w)
  /\ worker[w].status # "settled"

AlreadySettled(w) ==
  /\ worker[w].pc = "locked"
  /\ IsActive(w)
  /\ worker[w].status = "settled"
  /\ Finalize(w, "already_settled")
  /\ UNCHANGED <<merchant, orders, shopify, faults>>

\* The merchant became ineligible between the purchase and the settlement.
Decline(w) ==
  /\ ToSettle(w)
  /\ ~IsAllowed
  /\ status' = [status EXCEPT ![OrderOf(w)] = "declined"]
  /\ Finalize(w, "declined")
  /\ UNCHANGED <<merchant, request, attached, credits, shopify, faults>>

Settle(w) ==
  /\ ToSettle(w)
  /\ IsAllowed
  /\ credits' = [credits EXCEPT ![OrderOf(w)] = @ + 1]
  /\ status' = [status EXCEPT ![OrderOf(w)] = "settled"]
  /\ Finalize(w, "settled")
  /\ UNCHANGED <<merchant, request, attached, shopify, faults>>

\* Faults: the error value top_up_wallet returns is not looked at; it is stored
\* instead of raised.
IgnoreTopUpError(w) ==
  /\ status' = [status EXCEPT ![OrderOf(w)] = "settled"]
  /\ Finalize(w, "settled")

StoreTopUpError(w) ==
  /\ status' = [status EXCEPT ![OrderOf(w)] = "approved"]
  /\ Finalize(w, "moved")

\* raise ShopifyPaymentError: the block rolls back, "approved" and the event row
\* with it, and the view answers 500.
RaiseTopUpError(w) ==
  /\ Done(w)
  /\ UNCHANGED <<status, result>>

\* top_up_wallet returns WalletDoesNotExistError.
TopUpFails(w) ==
  /\ ToSettle(w)
  /\ IsAllowed
  /\ faults < MaxFaults
  /\ faults' = faults + 1
  /\ RaiseTopUpError(w)
  /\ UNCHANGED <<merchant, request, attached, credits, shopify>>

\* FINAL_WEBHOOK_STATUSES; a status it does not know fails the order.
MappedStatus(s) ==
  CASE s = "DECLINED"                           -> "declined"
    [] s \in {"EXPIRED", "CANCELED", "CANCELLED"} -> "cancelled"
    [] s = "PENDING"                            -> "pending"
    [] OTHER                                    -> "failed"

\* Every other status is written whatever the order's status is by now.
MoveOrder(w) ==
  /\ worker[w].pc = "locked"
  /\ ~IsActive(w)
  /\ status' = [status EXCEPT ![OrderOf(w)] = MappedStatus(emitted[worker[w].event].status)]
  /\ Finalize(w, "moved")
  /\ UNCHANGED <<merchant, request, attached, credits, shopify, faults>>

\* The worker dies before the commit.
WebhookDies(w) ==
  /\ worker[w].pc # "idle"
  /\ faults < MaxFaults
  /\ faults' = faults + 1
  /\ Done(w)
  /\ UNCHANGED <<merchant, orders, result, shopify>>

-----------------------------------------------------------------------------
RequestStep(o) ==
  StartPurchase(o) \/ CreatePendingOrder(o) \/ CreateCharge(o) \/ ChargeFails(o) \/ AttachCharge(o)

HandlerStep(w) ==
  \/ Duplicate(w) \/ InsertEvent(w) \/ LockOrder(w) \/ IgnoreUnknown(w)
  \/ AlreadySettled(w) \/ Decline(w) \/ Settle(w) \/ MoveOrder(w)

Next ==
  \/ BillingCheck \/ PlanChanges
  \/ \E o \in Order : RequestStep(o) \/ RequestDies(o)
  \/ \E o \in Order, e \in Event :
       \/ \E s \in ChargeStatus \ {"PENDING"} : ChargeMoves(o, s, e)
       \/ ChargeUpdated(o, e)
  \/ \E w \in Worker :
       \/ \E e \in Event : Deliver(w, e)
       \/ HandlerStep(w) \/ TopUpFails(w) \/ WebhookDies(w)

Spec == Init /\ [][Next]_vars

(***************************************************************************)
(* A web worker that has a delivery goes on with it: a row it waits for is *)
(* freed when the other worker ends, and an event is processed only once.  *)
(* Shopify repeats an event until it is answered with 200, and a delivery  *)
(* finds a free worker in the end.                                         *)
(***************************************************************************)
Fairness ==
  /\ \A w \in Worker : WF_vars(HandlerStep(w))
  /\ \A e \in Event : SF_vars(\E w \in Worker : ~Processed(e) /\ Deliver(w, e))

FairSpec == Spec /\ Fairness

-----------------------------------------------------------------------------
(* Properties *)

HandlerType == [pc : {"idle", "arrived", "inserted", "locked"},
                event : Event \cup {None}, status : Status \cup {"none"}]

\* The type invariant.  No order is ever "approved": the block that writes it
\* raises, and rolls back.
TypeOK ==
  /\ plan \in Plan
  /\ billing \in Plan \cup {"missing"}
  /\ request \in [Order -> {"none", "synced", "refused", "created", "charged",
                            "failed", "answered", "dead"}]
  /\ status \in [Order -> (Status \ {"approved"}) \cup {"none"}]
  /\ attached \in [Order -> BOOLEAN]
  /\ credits \in [Order -> Nat]
  /\ result \in [Event -> Result \cup {"none"}]
  /\ worker \in [Worker -> HandlerType]
  /\ charge \in [Order -> ChargeStatus \cup {"none"}]
  /\ emitted \in [Event -> [order : Order \cup {None}, status : ChargeStatus]]
  /\ faults \in 0 .. MaxFaults

EventsWith(o, r) == {e \in Event : emitted[e].order = o /\ result[e] = r}

\* The wallet was topped up for an order as often as the event log says so:
\* neither a redelivery, nor a crash, nor a refused top-up makes the ledger and
\* the log disagree.
EventLogAgrees ==
  \A o \in Order : credits[o] = Cardinality(EventsWith(o, "settled"))

\* Any number of ACTIVE events, handled at once, credit an order once, unless an
\* event of another status has overwritten the order in between.
CreditedOnce ==
  \A o \in Order : credits[o] <= 1 + Cardinality(EventsWith(o, "moved"))

\* Credits are for charges the merchant has approved.
OnlyPaidIsCredited ==
  \A o \in Order : credits[o] > 0 => charge[o] = "ACTIVE"

\* An order that shows as settled has its credits in the wallet.
SettledMeansCredited ==
  \A o \in Order : status[o] = "settled" => credits[o] > 0

\* An approved charge ends in credits or in a refusal because of the plan, and
\* is never lost, whatever is redelivered, reordered, refused or interrupted.
PaidIsAnswered ==
  \A o \in Order :
    charge[o] = "ACTIVE" ~> (credits[o] > 0 \/ EventsWith(o, "declined") # {})
=============================================================================
