----------------------------- MODULE SingleSend -----------------------------
(***************************************************************************)
(* One SMS to one contact (SingleSendService, dispatch_single_sms and      *)
(* send_single_sms), from the API call that starts it to                   *)
(* finalize_sms_send, in which it ends like a bulk send.  Beside it, the   *)
(* opt-in through a QR code, which creates a contact and tries to start    *)
(* another: the welcome fails before there is an Sms.                      *)
(*                                                                         *)
(* Every request creates an Sms of its own, so an Sms has one task at a    *)
(* time and its progress is one program counter.  None of the tasks is     *)
(* acks_late: a crash loses it.  Wallet operations are single steps        *)
(* (WalletProofs), and so is the atomic block that reserves.               *)
(***************************************************************************)
EXTENDS Integers, FiniteSets, Functions

CONSTANTS
  Sms,               \* messages that may be created
  Contact, Phone,    \* primary keys a contact may get; phones
  Worker,            \* web workers that serve an opt-in
  None,
  Opening, Prices,   \* credits the wallet opens with; credits per message
  Outcomes,          \* what provider.send may come to
  MaxDisturbances    \* crashes, cancellations, price and contact changes in all

ASSUME SingleSendAssumption ==
  /\ Opening \subseteq Nat /\ Prices \subseteq Nat \ {0}
  /\ MaxDisturbances \in Nat
  /\ IsFiniteSet(Sms) /\ IsFiniteSet(Contact)      \* a database has finitely many rows
  /\ None \notin Sms \cup Contact \cup Phone
  /\ Outcomes \subseteq {"success", "permanent", "transient", "lost_reply"}

VARIABLES
  contact,           \* Contact rows, by key; a deleted row keeps its phone here
  optIn,             \* requests through a QR code, by whom: a phone, then a contact
  send,              \* Sms rows with their recipient, ledger and task
  balance, reserved, \* the Wallet row
  price,             \* the cached country price
  disturbances       \* how many there were

sendVars == <<contact, optIn, send, balance, reserved, price, disturbances>>

NoSend == [pc |-> "none", status |-> "none", to |-> None, est |-> 0, actual |-> 0,
           outstanding |-> 0, row |-> "none", result |-> "none",
           accepted |-> 0]

Live == {c \in Contact : contact[c] # None /\ contact[c].status # "deleted"}
Taken(p) == \E c \in Live : contact[c].phone = p

SendInit ==
  /\ contact \in [Contact -> {None} \cup [phone : Phone, status : {"subscribed"}]]
  /\ \A p \in Phone : Cardinality({c \in Live : contact[c].phone = p}) <= 1
  /\ optIn = [w \in Worker |-> [pc |-> "idle", who |-> None]]
  /\ send = [s \in Sms |-> NoSend]
  /\ balance \in Opening /\ reserved = 0
  /\ price \in Prices
  /\ disturbances = 0

Disturb == disturbances < MaxDisturbances /\ disturbances' = disturbances + 1

-----------------------------------------------------------------------------
(* qr_contact_optin                                                        *)

\* The phone is looked up first ...
OptIn(w, p) ==
  /\ optIn[w].pc = "idle"
  /\ optIn' = [optIn EXCEPT ![w] =
                 [pc |-> IF Taken(p) THEN "refused" ELSE "checked", who |-> p]]
  /\ UNCHANGED <<contact, send, balance, reserved, price, disturbances>>

\* Fault: no unique constraint stands behind the look-up.
MayInsertAlways(p) == TRUE

\* unique_contact_phone_per_user
MayInsert(p) == ~Taken(p)

\* ... the contact is created, subscribed by default ...
RegisterContact(w, c) ==
  /\ optIn[w].pc = "checked" /\ contact[c] = None
  /\ IF MayInsert(optIn[w].who)
       THEN /\ contact' = [contact EXCEPT ![c] =
                             [phone |-> optIn[w].who, status |-> "subscribed"]]
            /\ optIn' = [optIn EXCEPT ![w] = [pc |-> "registered", who |-> c]]
       ELSE /\ optIn' = [optIn EXCEPT ![w].pc = "duplicate"]
            /\ UNCHANGED contact
  /\ UNCHANGED <<send, balance, reserved, price, disturbances>>

\* ... and then the request fails, but the contact stays: the user has no active
\* welcome automation (ValidationError, 400), or send_welcome_sms creates the Sms
\* without its user, which no row may lack (IntegrityError, 500).
FailToWelcome(w, answer) ==
  /\ optIn[w].pc = "registered"
  /\ optIn' = [optIn EXCEPT ![w].pc = answer]
  /\ UNCHANGED <<contact, send, balance, reserved, price, disturbances>>

-----------------------------------------------------------------------------
(* The single-send request, and dispatch_single_sms                        *)

CreateSms(s, c) ==
  /\ send[s].pc = "none"
  /\ send' = [send EXCEPT ![s] = [NoSend EXCEPT !.pc = "created", !.status = "scheduled",
                                                !.to = c]]

RequestSingleSend(s, c) ==
  /\ c \in Live
  /\ CreateSms(s, c)
  /\ UNCHANGED <<contact, optIn, balance, reserved, price, disturbances>>

At(s, from, to) == send[s].pc = from /\ send' = [send EXCEPT ![s].pc = to]

OnlySend == UNCHANGED <<contact, optIn, balance, reserved, price, disturbances>>

\* dispatch_single_sms.delay
Delay(s) == At(s, "created", "dispatched") /\ OnlySend

\* estimate_price of one contact, for a body of one segment.
Estimate == price

Available == balance - reserved

AssertSingleSendable(s) == send[s].status \in {"draft", "scheduled", "processing"}

\* validate_and_send up to the atomic block.  A ValueError marks the Sms failed; a
\* contact that is gone is an AttributeError, which nobody handles.
Validate(s) ==
  LET t == send[s] IN
  /\ t.pc = "dispatched"
  /\ send' = [send EXCEPT ![s] =
       IF AssertSingleSendable(s) /\ t.to \notin Live THEN [t EXCEPT !.pc = "broken"]
       ELSE IF AssertSingleSendable(s) /\ Available >= Estimate
         THEN [t EXCEPT !.pc = "validated", !.est = Estimate]
         ELSE [t EXCEPT !.pc = "rejected", !.status = "failed"]]
  /\ OnlySend

\* The atomic block: reserve_funds, and the Sms to "processing".
ReserveSingle(s) ==
  LET t == send[s] IN
  /\ t.pc = "validated" /\ Available >= t.est
  /\ reserved' = reserved + t.est
  /\ send' = [send EXCEPT ![s] = [t EXCEPT !.pc = "reserved", !.status = "processing",
                                           !.outstanding = t.est]]
  /\ UNCHANGED <<contact, optIn, balance, price, disturbances>>

\* InsufficientBalanceError is no ValueError: the Sms stays as it is.
ReserveRefused(s) ==
  /\ send[s].pc = "validated" /\ Available < send[s].est
  /\ At(s, "validated", "refused") /\ OnlySend

EnqueueChain(s) == At(s, "reserved", "queued") /\ OnlySend

-----------------------------------------------------------------------------
(* send_single_sms                                                         *)

MayReceive(c) == c \in Live /\ contact[c].status = "subscribed"

\* build_recipient raises for who is gone or has opted out: the chain stops.
BuildRecipient(s) ==
  /\ send[s].pc = "queued"
  /\ send' = [send EXCEPT ![s] =
       IF MayReceive(send[s].to) THEN [send[s] EXCEPT !.pc = "recipient", !.row = "queued"]
                                 ELSE [send[s] EXCEPT !.pc = "unsendable"]]
  /\ OnlySend

CallProvider(s, o) ==
  LET t == send[s] IN
  /\ t.pc = "recipient"
  /\ send' = [send EXCEPT ![s] = [t EXCEPT
       !.pc = "answered",
       !.accepted = IF o \in {"success", "lost_reply"} THEN @ + 1 ELSE @,
       !.result = IF o = "lost_reply" THEN "transient" ELSE o]]
  /\ OnlySend

\* Fault: the retry is called with the arguments of the first call.
AfterRetryAgain == "queued"

\* The retry passes the recipients where the task takes the contact: it dies.
AfterRetry == "dead"

SaveResult(s) ==
  LET t == send[s] IN
  /\ t.pc = "answered"
  /\ send' = [send EXCEPT ![s] =
       CASE t.result = "success"   -> [t EXCEPT !.row = "sent", !.pc = "finalize"]
         [] t.result = "permanent" -> [t EXCEPT !.row = "failed", !.pc = "finalize"]
         [] t.result = "transient" -> [t EXCEPT !.pc = AfterRetry]]
  /\ OnlySend

-----------------------------------------------------------------------------
(* finalize_sms_send                                                       *)

ReadForFinalize(s) ==
  /\ At(s, "finalize", IF send[s].status = "cancelled" THEN "skipped" ELSE "read")
  /\ OnlySend

RollUp(s) ==
  LET t == send[s] IN
  /\ t.pc = "read"
  /\ send' = [send EXCEPT ![s] = [t EXCEPT !.pc = "rolled", !.status = t.row]]
  /\ OnlySend

ActualCost(s) == IF send[s].row = "sent" THEN price ELSE 0

\* debit_funds is refused when less is reserved; nobody looks at the answer.
DebitActual(s) ==
  LET t == send[s]
      paid == IF ActualCost(s) <= reserved THEN ActualCost(s) ELSE 0 IN
  /\ t.pc = "rolled"
  /\ balance' = balance - paid
  /\ reserved' = reserved - paid
  /\ send' = [send EXCEPT ![s] = [t EXCEPT !.pc = "debited", !.actual = ActualCost(s),
                                           !.outstanding = @ - paid]]
  /\ UNCHANGED <<contact, optIn, price, disturbances>>

\* Fault: the whole estimate is released, on top of the debit.
RestWhole(t) == t.est

Rest(t) == IF t.est > t.actual THEN t.est - t.actual ELSE 0

ReleaseRest(s) ==
  LET t == send[s] IN
  /\ t.pc = "debited"
  /\ reserved' = reserved - Rest(t)
  /\ send' = [send EXCEPT ![s] = [t EXCEPT !.pc = "settled",
                                           !.outstanding = @ - Rest(t)]]
  /\ UNCHANGED <<contact, optIn, balance, price, disturbances>>

-----------------------------------------------------------------------------
(* What happens beside the tasks                                           *)

\* The client cancels the Sms (update_sms, here without the gap between its read
\* and its save, which is in BulkSend).
Cancel(s) ==
  /\ send[s].pc # "none" /\ send[s].status \notin {"cancelled", "sent", "failed"}
  /\ send' = [send EXCEPT ![s].status = "cancelled"]
  /\ Disturb
  /\ UNCHANGED <<contact, optIn, balance, reserved, price>>

\* A contact opts out or is deleted.
ChangeContact(c, to) ==
  /\ c \in Live /\ contact[c].status # to
  /\ contact' = [contact EXCEPT ![c].status = to]
  /\ Disturb
  /\ UNCHANGED <<optIn, send, balance, reserved, price>>

RefreshPrices ==
  /\ price' \in Prices \ {price}
  /\ Disturb
  /\ UNCHANGED <<contact, optIn, send, balance, reserved>>

Running == {"created", "validated", "reserved", "recipient", "answered", "read", "rolled",
            "debited"}

\* A worker dies in a task or in a request, or the broker refuses it.
LoseTask(s) ==
  /\ send[s].pc \in Running
  /\ send' = [send EXCEPT ![s].pc = "lost"]
  /\ Disturb
  /\ UNCHANGED <<contact, optIn, balance, reserved, price>>

LoseOptIn(w) ==
  /\ optIn[w].pc \in {"checked", "registered"}
  /\ optIn' = [optIn EXCEPT ![w].pc = "lost"]
  /\ Disturb
  /\ UNCHANGED <<contact, send, balance, reserved, price>>

SendStep(s) ==
  \/ Delay(s) \/ Validate(s) \/ ReserveSingle(s) \/ ReserveRefused(s) \/ EnqueueChain(s)
  \/ BuildRecipient(s) \/ SaveResult(s)
  \/ \E o \in Outcomes : CallProvider(s, o)
  \/ ReadForFinalize(s) \/ RollUp(s) \/ DebitActual(s) \/ ReleaseRest(s)

\* Everything but the answer to an opt-in, which depends on the automations.
SendNext ==
  \/ \E w \in Worker : \/ \E p \in Phone : OptIn(w, p)
                       \/ \E c \in Contact : RegisterContact(w, c)
                       \/ LoseOptIn(w)
  \/ \E s \in Sms : \/ \E c \in Contact : RequestSingleSend(s, c)
                    \/ SendStep(s) \/ Cancel(s) \/ LoseTask(s)
  \/ \E c \in Contact, to \in {"unsubscribed", "deleted"} : ChangeContact(c, to)
  \/ RefreshPrices

-----------------------------------------------------------------------------
(* Properties *)

\* Vonage takes one message at most for an Sms, whatever is retried or lost on the
\* way: the retry of send_single_sms cannot send.
OneCopyPerSend == \A s \in Sms : send[s].accepted <= 1

Ended == {"broken", "rejected", "refused", "unsendable", "dead", "skipped", "settled", "lost"}

\* The ways a single send ends with its credits still reserved: the chain stopped
\* before finalize_sms_send, or it returned early for a cancelled Sms.
Stranding == {"unsendable", "dead", "skipped", "lost"}

PriceRose == \E s \in Sms : send[s].actual > send[s].est

\* The wallet earmarks what the sends that are not over have reserved; a send that
\* is over holds credits only in one of the ways above.
ReservationExplained ==
  /\ reserved = SumFunction([s \in Sms |-> send[s].outstanding])
  /\ ~PriceRose => \A s \in Sms : send[s].pc \in Ended \ Stranding => send[s].outstanding = 0

\* A phone is registered once, however many opt-ins come for it side by side: one of
\* those that found it free creates the contact, and another contact of this phone is
\* one whose predecessor was deleted.
RegisteredOnce ==
  \A p \in Phone :
    LET ofPhone == {c \in Contact : contact[c] # None /\ contact[c].phone = p} IN
    Cardinality(ofPhone) <= 1 + Cardinality(ofPhone \ Live)
=============================================================================
