--------------------------- MODULE PaymentProofs ---------------------------
(***************************************************************************)
(* Payment, for any number of orders, events, workers and faults.  The     *)
(* invariant says what the requests, the events and the handlers know of   *)
(* each other; what is credited follows from it.                           *)
(***************************************************************************)
EXTENDS Payment, FiniteSetTheorems, TLAPS

\* Only a request that was answered has attached its charge, only an attached
\* order is settled, and before Shopify is asked there is no charge.
RequestsSound ==
  \A o \in Order :
    /\ attached[o] => request[o] = "answered"
    /\ ~attached[o] => status[o] # "settled"
    /\ request[o] \in {"none", "synced", "created"} => charge[o] = "none"

\* An event that says ACTIVE is about a charge that is, from then on.
EventsSound ==
  \A e \in Event :
    /\ Unused(e) => result[e] = "none"
    /\ ~Unused(e) /\ emitted[e].status = "ACTIVE" => charge[emitted[e].order] = "ACTIVE"

\* A handler works on an event of Shopify's, alone once it has inserted its row,
\* and its copy of an order it has locked is the row.
HandlersSound ==
  \A w \in Worker :
    /\ worker[w].pc # "idle" => worker[w].event \in Event /\ ~Unused(worker[w].event)
    /\ worker[w].pc \in {"inserted", "locked"} => result[worker[w].event] = "none"
    /\ worker[w].pc = "locked" =>
         attached[OrderOf(w)] /\ worker[w].status = status[OrderOf(w)]

Exclusive ==
  \A v, w \in Worker :
    v # w /\ worker[v].pc \in {"inserted", "locked"} /\ worker[w].pc \in {"inserted", "locked"} =>
      /\ worker[v].event # worker[w].event
      /\ worker[v].pc = "locked" /\ worker[w].pc = "locked" => OrderOf(v) # OrderOf(w)

Knowledge == TypeOK /\ RequestsSound /\ EventsSound /\ HandlersSound /\ Exclusive

\* At the start there are no orders, events or handlers.
LEMMA InitKnowledge == Init => Knowledge
  BY PaymentAssumption
  DEF Init, Knowledge, TypeOK, RequestsSound, EventsSound, HandlersSound, Exclusive, Unused,
      Idle, HandlerType, Plan, Status, ChargeStatus, Result

-----------------------------------------------------------------------------
(* Types                                                                   *)

\* A handler at work has an event, and through it an order.
LEMMA OrderType ==
  ASSUME TypeOK, HandlersSound, NEW w \in Worker, worker[w].pc # "idle"
  PROVE  worker[w].event \in Event /\ OrderOf(w) \in Order
  BY DEF TypeOK, HandlersSound, HandlerType, OrderOf, Unused

\* Every step keeps the types.
LEMMA TypeStep == TypeOK /\ HandlersSound /\ [Next]_vars => TypeOK'
<1> SUFFICES ASSUME TypeOK, HandlersSound, [Next]_vars
             PROVE  TypeOK'
  OBVIOUS
<1> USE DEF TypeOK, merchant, orders, shopify, Plan, Status, ChargeStatus, Result, Idle
<1>1. CASE BillingCheck \/ PlanChanges
  BY <1>1 DEF BillingCheck, PlanChanges, SyncBillingState
<1>2. ASSUME NEW o \in Order, RequestStep(o)
      PROVE  TypeOK'
  BY <1>2 DEF RequestStep, StartPurchase, CreatePendingOrder, CreateCharge, ChargeFails,
              AttachCharge, SyncBillingState
<1>3. ASSUME NEW o \in Order, RequestDies(o)
      PROVE  TypeOK'
  BY <1>3, PaymentAssumption DEF RequestDies
<1>4. ASSUME NEW o \in Order, NEW e \in Event,
             \/ \E s \in ChargeStatus \ {"PENDING"} : ChargeMoves(o, s, e)
             \/ ChargeUpdated(o, e)
      PROVE  TypeOK'
  BY <1>4 DEF ChargeMoves, ChargeUpdated, Emit
<1>5. ASSUME NEW w \in Worker, NEW e \in Event, Deliver(w, e)
      PROVE  TypeOK'
  <2>1. [Idle EXCEPT !.pc = "arrived", !.event = e] \in HandlerType
    BY DEF HandlerType
  <2> QED
    BY <1>5, <2>1 DEF Deliver
<1>6. ASSUME NEW w \in Worker, HandlerStep(w)
      PROVE  TypeOK'
  <2>1. Idle \in HandlerType
    BY DEF HandlerType
  <2>2. worker[w] \in HandlerType
    OBVIOUS
  <2>3. CASE Duplicate(w)
    BY <2>1, <2>3 DEF Duplicate, Done
  <2>4. CASE InsertEvent(w)
    <3>1. [worker[w] EXCEPT !.pc = "inserted"] \in HandlerType
      BY <2>2 DEF HandlerType
    <3>2. worker' = [worker EXCEPT ![w] = [worker[w] EXCEPT !.pc = "inserted"]]
      BY <2>4 DEF InsertEvent
    <3> QED
      BY <2>4, <3>1, <3>2 DEF InsertEvent
  <2>5. CASE LockOrder(w)
    <3>1. OrderOf(w) \in Order
      BY <2>5, OrderType DEF LockOrder
    <3>2. [worker[w] EXCEPT !.pc = "locked", !.status = status[OrderOf(w)]] \in HandlerType
      BY <2>2, <3>1 DEF HandlerType
    <3> QED
      BY <2>5, <3>2 DEF LockOrder
  <2>6. ASSUME NEW r \in Result, Finalize(w, r)
        PROVE  worker' \in [Worker -> HandlerType] /\ result' \in [Event -> Result \cup {"none"}]
    BY <2>1, <2>6 DEF Finalize, Done
  <2>7. CASE IgnoreUnknown(w)
    BY <2>6, <2>7 DEF IgnoreUnknown
  <2>8. CASE AlreadySettled(w)
    BY <2>6, <2>8 DEF AlreadySettled
  <2>9. CASE Decline(w)
    BY <2>6, <2>9 DEF Decline
  <2>10. CASE Settle(w)
    BY <2>6, <2>10, OrderType DEF Settle, ToSettle
  <2>11. CASE MoveOrder(w)
    <3>1. MappedStatus(emitted[worker[w].event].status) \in {"declined", "cancelled", "pending", "failed"}
      BY DEF MappedStatus
    <3> QED
      BY <2>6, <2>11, <3>1 DEF MoveOrder
  <2> QED
    BY <1>6, <2>3, <2>4, <2>5, <2>7, <2>8, <2>9, <2>10, <2>11 DEF HandlerStep
<1>7. ASSUME NEW w \in Worker, TopUpFails(w) \/ WebhookDies(w)
      PROVE  TypeOK'
  BY <1>7, PaymentAssumption DEF HandlerType, TopUpFails, RaiseTopUpError, WebhookDies, Done
<1>8. CASE UNCHANGED vars
  BY <1>8 DEF vars
<1> QED
  BY <1>1, <1>2, <1>3, <1>4, <1>5, <1>6, <1>7, <1>8 DEF Next

-----------------------------------------------------------------------------
(* What the parts know of each other                                       *)

\* A handler changes its own record, the status and the credits of the order it
\* holds, and the result of its event; nothing else.
LEMMA HandlerFrame ==
  ASSUME Knowledge, NEW w \in Worker, HandlerStep(w) \/ TopUpFails(w) \/ WebhookDies(w)
  PROVE  /\ UNCHANGED <<request, attached, charge, emitted>>
         /\ \A v \in Worker \ {w} : worker'[v] = worker[v]
         /\ \A o \in Order :
              status'[o] # status[o] => o = OrderOf(w) /\ worker[w].pc = "locked"
         /\ \A e \in Event :
              result'[e] # result[e] =>
                e = worker[w].event /\ worker[w].pc \in {"inserted", "locked"}
  BY DEF Knowledge, TypeOK, HandlerStep, Duplicate, InsertEvent, LockOrder, IgnoreUnknown,
         AlreadySettled, ToSettle, Decline, Settle, MoveOrder, TopUpFails, RaiseTopUpError,
         WebhookDies, Finalize, Done, merchant, orders, shopify

\* Every step keeps what a charge request and its order know of each other.
LEMMA RequestsStep == Knowledge /\ [Next]_vars => RequestsSound'
<1> SUFFICES ASSUME Knowledge, [Next]_vars
             PROVE  RequestsSound'
  OBVIOUS
<1> USE DEF Knowledge, RequestsSound, merchant, orders, shopify
<1>1. CASE BillingCheck \/ PlanChanges
  BY <1>1 DEF BillingCheck, PlanChanges
<1>2. ASSUME NEW o \in Order, RequestStep(o)
      PROVE  RequestsSound'
  BY <1>2 DEF TypeOK, RequestStep, StartPurchase, CreatePendingOrder, CreateCharge,
              ChargeFails, AttachCharge
<1>3. ASSUME NEW o \in Order, RequestDies(o)
      PROVE  RequestsSound'
  BY <1>3 DEF TypeOK, RequestDies
<1>4. ASSUME NEW o \in Order, NEW e \in Event, NEW s \in ChargeStatus \ {"PENDING"},
             ChargeMoves(o, s, e)
      PROVE  RequestsSound'
  BY <1>4 DEF TypeOK, ChargeMoves
<1>5. ASSUME NEW o \in Order, NEW e \in Event, ChargeUpdated(o, e)
      PROVE  RequestsSound'
  BY <1>5 DEF ChargeUpdated
<1>6. ASSUME NEW w \in Worker, NEW e \in Event, Deliver(w, e)
      PROVE  RequestsSound'
  BY <1>6 DEF Deliver
<1>7. ASSUME NEW w \in Worker, HandlerStep(w) \/ TopUpFails(w) \/ WebhookDies(w)
      PROVE  RequestsSound'
  BY <1>7, HandlerFrame DEF HandlersSound
<1>8. CASE UNCHANGED vars
  BY <1>8 DEF vars
<1> QED
  BY <1>1, <1>2, <1>3, <1>4, <1>5, <1>6, <1>7, <1>8 DEF Next

\* Every step keeps the events true of their charges.
LEMMA EventsStep == Knowledge /\ [Next]_vars => EventsSound'
<1> SUFFICES ASSUME Knowledge, [Next]_vars
             PROVE  EventsSound'
  OBVIOUS
<1> USE DEF Knowledge, EventsSound, Unused, merchant, orders, shopify
<1>1. CASE BillingCheck \/ PlanChanges
  BY <1>1 DEF BillingCheck, PlanChanges
<1>2. ASSUME NEW o \in Order, RequestStep(o)
      PROVE  EventsSound'
  BY <1>2 DEF TypeOK, RequestsSound, RequestStep, StartPurchase, CreatePendingOrder,
              CreateCharge, ChargeFails, AttachCharge
<1>3. ASSUME NEW o \in Order, RequestDies(o)
      PROVE  EventsSound'
  BY <1>3 DEF RequestDies
<1>4. ASSUME NEW o \in Order, NEW e \in Event, NEW s \in ChargeStatus \ {"PENDING"},
             ChargeMoves(o, s, e)
      PROVE  EventsSound'
  BY <1>4, PaymentAssumption DEF TypeOK, ChargeMoves, Emit
<1>5. ASSUME NEW o \in Order, NEW e \in Event, ChargeUpdated(o, e)
      PROVE  EventsSound'
  BY <1>5, PaymentAssumption DEF TypeOK, ChargeUpdated, Emit
<1>6. ASSUME NEW w \in Worker, NEW e \in Event, Deliver(w, e)
      PROVE  EventsSound'
  BY <1>6 DEF Deliver
<1>7. ASSUME NEW w \in Worker, HandlerStep(w) \/ TopUpFails(w) \/ WebhookDies(w)
      PROVE  EventsSound'
  BY <1>7, HandlerFrame DEF HandlersSound
<1>8. CASE UNCHANGED vars
  BY <1>8 DEF vars
<1> QED
  BY <1>1, <1>2, <1>3, <1>4, <1>5, <1>6, <1>7, <1>8 DEF Next

\* Every step keeps what a handler has read true of the rows it holds.
LEMMA HandlersStep == Knowledge /\ [Next]_vars => HandlersSound'
<1> SUFFICES ASSUME Knowledge, [Next]_vars
             PROVE  HandlersSound'
  OBVIOUS
<1> USE DEF Knowledge, HandlersSound, OrderOf, Unused, merchant, orders, shopify
<1>1. CASE BillingCheck \/ PlanChanges
  BY <1>1 DEF BillingCheck, PlanChanges
<1>2. ASSUME NEW o \in Order, RequestStep(o)
      PROVE  HandlersSound'
  BY <1>2 DEF TypeOK, RequestsSound, RequestStep, StartPurchase, CreatePendingOrder,
              CreateCharge, ChargeFails, AttachCharge
<1>3. ASSUME NEW o \in Order, RequestDies(o)
      PROVE  HandlersSound'
  BY <1>3 DEF RequestDies
<1>4. ASSUME NEW o \in Order, NEW e \in Event,
             \/ \E s \in ChargeStatus \ {"PENDING"} : ChargeMoves(o, s, e)
             \/ ChargeUpdated(o, e)
      PROVE  HandlersSound'
  BY <1>4, PaymentAssumption DEF TypeOK, ChargeMoves, ChargeUpdated, Emit
<1>5. ASSUME NEW w \in Worker, NEW e \in Event, Deliver(w, e)
      PROVE  HandlersSound'
  BY <1>5 DEF TypeOK, Deliver
<1>6. ASSUME NEW w \in Worker, HandlerStep(w) \/ TopUpFails(w) \/ WebhookDies(w)
      PROVE  HandlersSound'
  <2> SUFFICES ASSUME NEW v \in Worker
               PROVE  /\ worker'[v].pc # "idle" =>
                           worker'[v].event \in Event /\ emitted'[worker'[v].event].order # None
                      /\ worker'[v].pc \in {"inserted", "locked"} =>
                           result'[worker'[v].event] = "none"
                      /\ worker'[v].pc = "locked" =>
                           /\ attached'[emitted'[worker'[v].event].order]
                           /\ worker'[v].status = status'[emitted'[worker'[v].event].order]
    OBVIOUS
  <2>1. CASE v # w
    BY <1>6, <2>1, HandlerFrame, OrderType DEF Exclusive
  <2>2. CASE v = w /\ worker'[w] = Idle
    BY <2>2 DEF Idle
  <2>3. CASE v = w /\ InsertEvent(w)
    BY <2>3 DEF TypeOK, InsertEvent, Processed
  <2>4. CASE v = w /\ LockOrder(w)
    BY <2>4 DEF TypeOK, LockOrder
  <2>5. worker'[w] = Idle \/ InsertEvent(w) \/ LockOrder(w)
    BY <1>6 DEF TypeOK, HandlerStep, Duplicate, IgnoreUnknown, AlreadySettled, Decline,
                Settle, MoveOrder, TopUpFails, RaiseTopUpError, WebhookDies, Finalize, Done
  <2> QED
    BY <2>1, <2>2, <2>3, <2>4, <2>5
<1>7. CASE UNCHANGED vars
  BY <1>7 DEF vars
<1> QED
  BY <1>1, <1>2, <1>3, <1>4, <1>5, <1>6, <1>7 DEF Next

\* Two handlers past the insert hold different events, after every step.
LEMMA ExclusiveStep == Knowledge /\ [Next]_vars => Exclusive'
<1> SUFFICES ASSUME Knowledge, [Next]_vars
             PROVE  Exclusive'
  OBVIOUS
<1> USE DEF Knowledge, Exclusive, OrderOf, merchant, orders, shopify
<1>1. CASE BillingCheck \/ PlanChanges
  BY <1>1 DEF BillingCheck, PlanChanges
<1>2. ASSUME NEW o \in Order, RequestStep(o) \/ RequestDies(o)
      PROVE  Exclusive'
  BY <1>2 DEF RequestStep, StartPurchase, CreatePendingOrder, CreateCharge, ChargeFails,
              AttachCharge, RequestDies
<1>3. ASSUME NEW o \in Order, NEW e \in Event,
             \/ \E s \in ChargeStatus \ {"PENDING"} : ChargeMoves(o, s, e)
             \/ ChargeUpdated(o, e)
      PROVE  Exclusive'
  BY SMTT(40), <1>3 DEF TypeOK, HandlersSound, Unused, ChargeMoves, ChargeUpdated, Emit
<1>4. ASSUME NEW w \in Worker, NEW e \in Event, Deliver(w, e)
      PROVE  Exclusive'
  BY <1>4 DEF TypeOK, Deliver
<1>5. ASSUME NEW w \in Worker, HandlerStep(w) \/ TopUpFails(w) \/ WebhookDies(w)
      PROVE  Exclusive'
  <2>1. CASE worker'[w] = Idle
    BY <1>5, <2>1, HandlerFrame DEF Idle
  <2>2. CASE InsertEvent(w)
    BY <2>2 DEF TypeOK, InsertEvent
  <2>3. CASE LockOrder(w)
    BY <2>3 DEF TypeOK, LockOrder, OrderIsFree
  <2>4. worker'[w] = Idle \/ InsertEvent(w) \/ LockOrder(w)
    BY <1>5 DEF TypeOK, HandlerStep, Duplicate, IgnoreUnknown, AlreadySettled, Decline,
                Settle, MoveOrder, TopUpFails, RaiseTopUpError, WebhookDies, Finalize, Done
  <2> QED
    BY <2>1, <2>2, <2>3, <2>4
<1>6. CASE UNCHANGED vars
  BY <1>6 DEF vars
<1> QED
  BY <1>1, <1>2, <1>3, <1>4, <1>5, <1>6 DEF Next

\* Every step keeps what the parts know of each other.
LEMMA KnowledgeStep == Knowledge /\ [Next]_vars => Knowledge'
  BY TypeStep, RequestsStep, EventsStep, HandlersStep, ExclusiveStep DEF Knowledge

\* Every webhook handler, request and event keeps its type, and no order is ever
\* "approved", however many of them there are.
THEOREM PaymentTypes == Spec => []TypeOK
<1>1. Knowledge => TypeOK
  BY DEF Knowledge
<1> QED
  BY InitKnowledge, KnowledgeStep, <1>1, PTL DEF Spec

-----------------------------------------------------------------------------
(* What is credited                                                        *)

\* An order that is not settled has been moved at least as often as it was credited; one
\* that is has at most one credit more.
CreditsBounded ==
  \A o \in Order :
    credits[o] <= Cardinality(EventsWith(o, "moved")) + (IF status[o] = "settled" THEN 1 ELSE 0)

Accounts ==
  EventLogAgrees /\ OnlyPaidIsCredited /\ SettledMeansCredited /\ CreditsBounded

\* The events logged with a result can be counted.
LEMMA LogIsFinite ==
  ASSUME NEW o, NEW r
  PROVE  IsFiniteSet(EventsWith(o, r)) /\ Cardinality(EventsWith(o, r)) \in Nat
<1>1. EventsWith(o, r) \subseteq Event
  BY DEF EventsWith
<1> QED
  BY <1>1, FS_Subset, FS_CardinalityType, PaymentAssumption

\* What a step that finalizes no event leaves as it is.
Quiet ==
  /\ credits' = credits
  /\ \A o \in Order :
       /\ charge[o] = "ACTIVE" => charge'[o] = "ACTIVE"
       /\ status'[o] = "settled" <=> status[o] = "settled"
       /\ \A r \in Result : EventsWith(o, r)' = EventsWith(o, r)

\* A step that finalizes no event keeps the accounts.
LEMMA QuietKeepsAccounts == Accounts /\ Quiet => Accounts'
  BY DEF Accounts, Quiet, EventLogAgrees, OnlyPaidIsCredited, SettledMeansCredited,
         CreditsBounded, Result

Finalizes(w) ==
  IgnoreUnknown(w) \/ AlreadySettled(w) \/ Decline(w) \/ Settle(w) \/ MoveOrder(w)

\* Every step but the last one of a handler is quiet.
LEMMA OthersAreQuiet ==
  ASSUME Knowledge, [Next]_vars, \A w \in Worker : ~Finalizes(w)
  PROVE  Quiet
<1> USE DEF Knowledge, Quiet, EventsWith, merchant, orders, shopify
<1>1. CASE BillingCheck \/ PlanChanges
  BY <1>1 DEF BillingCheck, PlanChanges
<1>2. ASSUME NEW o \in Order, RequestStep(o) \/ RequestDies(o)
      PROVE  Quiet
  BY <1>2 DEF TypeOK, RequestsSound, RequestStep, StartPurchase, CreatePendingOrder,
              CreateCharge, ChargeFails, AttachCharge, RequestDies
<1>3. ASSUME NEW o \in Order, NEW e \in Event,
             \/ \E s \in ChargeStatus \ {"PENDING"} : ChargeMoves(o, s, e)
             \/ ChargeUpdated(o, e)
      PROVE  Quiet
  <2>1. result[e] = "none" /\ result' = result
    BY <1>3 DEF EventsSound, ChargeMoves, ChargeUpdated
  <2>2. \A f \in Event \ {e} : emitted'[f] = emitted[f]
    BY <1>3 DEF TypeOK, ChargeMoves, ChargeUpdated, Emit
  <2>3. \A p \in Order, r \in Result : EventsWith(p, r)' = EventsWith(p, r)
    BY <2>1, <2>2 DEF Result
  <2> QED
    BY <1>3, <2>3 DEF TypeOK, ChargeMoves, ChargeUpdated
<1>4. ASSUME NEW w \in Worker, NEW e \in Event, Deliver(w, e)
      PROVE  Quiet
  BY <1>4 DEF Deliver
<1>5. ASSUME NEW w \in Worker, HandlerStep(w) \/ TopUpFails(w) \/ WebhookDies(w)
      PROVE  Quiet
  BY <1>5 DEF HandlerStep, Finalizes, Duplicate, InsertEvent, LockOrder, TopUpFails,
              RaiseTopUpError, WebhookDies
<1>6. CASE UNCHANGED vars
  BY <1>6 DEF vars
<1> QED
  BY <1>1, <1>2, <1>3, <1>4, <1>5, <1>6 DEF Next

\* A finalized event joins the events of its order with that result.
LEMMA LogGrows ==
  ASSUME Knowledge, NEW w \in Worker, worker[w].pc \in {"inserted", "locked"},
         NEW r \in Result, Finalize(w, r), UNCHANGED emitted,
         NEW o \in Order, NEW x \in Result
  PROVE  /\ o # OrderOf(w) \/ x # r => EventsWith(o, x)' = EventsWith(o, x)
         /\ o = OrderOf(w) /\ x = r =>
              Cardinality(EventsWith(o, x)') = Cardinality(EventsWith(o, x)) + 1
<1> DEFINE e == worker[w].event
<1>1. e \in Event /\ result[e] = "none" /\ OrderOf(w) = emitted[e].order
  BY DEF Knowledge, HandlersSound, OrderOf
<1>2. result' = [result EXCEPT ![e] = r]
  BY DEF Finalize
<1>3. o # OrderOf(w) \/ x # r => EventsWith(o, x)' = EventsWith(o, x)
  BY <1>1, <1>2 DEF Knowledge, TypeOK, EventsWith, Result
<1>4. ASSUME o = OrderOf(w), x = r
      PROVE  EventsWith(o, x)' = EventsWith(o, x) \cup {e}
  BY <1>1, <1>2, <1>4 DEF Knowledge, TypeOK, EventsWith, OrderOf
<1>5. e \notin EventsWith(o, x)
  BY <1>1 DEF EventsWith, Result
<1> QED
  BY <1>3, <1>4, <1>5, LogIsFinite, FS_AddElement

\* Every step keeps the accounts: a handler books its event in one way, and once.
LEMMA AccountsStep == Knowledge /\ Accounts /\ [Next]_vars => Accounts'
<1> SUFFICES ASSUME Knowledge, Accounts, [Next]_vars
             PROVE  Accounts'
  OBVIOUS
<1>1. CASE \A w \in Worker : ~Finalizes(w)
  BY <1>1, OthersAreQuiet, QuietKeepsAccounts
<1>2. ASSUME NEW w \in Worker, Finalizes(w)
      PROVE  Accounts'
  <2> SUFFICES ASSUME NEW o \in Order
               PROVE  /\ credits'[o] = Cardinality(EventsWith(o, "settled")')
                      /\ credits'[o] > 0 => charge'[o] = "ACTIVE"
                      /\ status'[o] = "settled" => credits'[o] > 0
                      /\ credits'[o] <= Cardinality(EventsWith(o, "moved")')
                                         + (IF status'[o] = "settled" THEN 1 ELSE 0)
    BY DEF Accounts, EventLogAgrees, OnlyPaidIsCredited, SettledMeansCredited, CreditsBounded
  <2>1. /\ credits[o] = Cardinality(EventsWith(o, "settled"))
        /\ credits[o] > 0 => charge[o] = "ACTIVE"
        /\ status[o] = "settled" => credits[o] > 0
        /\ credits[o] <= Cardinality(EventsWith(o, "moved"))
                           + (IF status[o] = "settled" THEN 1 ELSE 0)
    BY DEF Accounts, EventLogAgrees, OnlyPaidIsCredited, SettledMeansCredited, CreditsBounded
  <2>2. Cardinality(EventsWith(o, "settled")) \in Nat /\ Cardinality(EventsWith(o, "moved")) \in Nat
    BY LogIsFinite
  <2>3. /\ worker[w].pc \in {"inserted", "locked"}
        /\ UNCHANGED <<charge, emitted>>
    BY <1>2 DEF Finalizes, IgnoreUnknown, AlreadySettled, ToSettle, Decline, Settle, MoveOrder,
                shopify
  <2>4. worker[w].pc = "locked" => worker[w].status = status[OrderOf(w)]
    BY DEF Knowledge, HandlersSound
  <2>5. CASE IgnoreUnknown(w)
    <3>1. Finalize(w, "ignored") /\ UNCHANGED <<credits, status>>
      BY <2>5 DEF IgnoreUnknown, orders
    <3> QED
      BY <2>1, <2>2, <2>3, <3>1, LogGrows DEF Result
  <2>6. CASE AlreadySettled(w)
    <3>1. Finalize(w, "already_settled") /\ UNCHANGED <<credits, status>>
      BY <2>6 DEF AlreadySettled, orders
    <3> QED
      BY <2>1, <2>2, <2>3, <3>1, LogGrows DEF Result
  <2>7. CASE Decline(w)
    <3>1. /\ Finalize(w, "declined") /\ UNCHANGED credits
          /\ status' = [status EXCEPT ![OrderOf(w)] = "declined"]
          /\ status[OrderOf(w)] # "settled"
      BY <2>4, <2>7 DEF Decline, ToSettle
    <3> QED
      BY <2>1, <2>2, <2>3, <3>1, LogGrows DEF Result, Knowledge, TypeOK
  <2>8. CASE Settle(w)
    <3>1. /\ Finalize(w, "settled")
          /\ credits' = [credits EXCEPT ![OrderOf(w)] = @ + 1]
          /\ status' = [status EXCEPT ![OrderOf(w)] = "settled"]
          /\ status[OrderOf(w)] # "settled"
      BY <2>4, <2>8 DEF Settle, ToSettle
    <3>2. charge[OrderOf(w)] = "ACTIVE"
      BY <2>3, <2>8 DEF Settle, ToSettle, IsActive, Knowledge, HandlersSound, EventsSound, OrderOf
    <3>3. EventsWith(o, "moved")' = EventsWith(o, "moved")
      BY <2>3, <3>1, LogGrows DEF Result
    <3>4. CASE o = OrderOf(w)
      <4>1. Cardinality(EventsWith(o, "settled")') = Cardinality(EventsWith(o, "settled")) + 1
        BY <2>3, <3>1, <3>4, LogGrows DEF Result
      <4>2. credits'[o] = credits[o] + 1 /\ status'[o] = "settled" /\ status[o] # "settled"
        BY <3>1, <3>4 DEF Knowledge, TypeOK
      <4> QED
        BY <2>1, <2>2, <2>3, <3>2, <3>3, <3>4, <4>1, <4>2
    <3>5. CASE o # OrderOf(w)
      BY <2>1, <2>2, <2>3, <3>1, <3>3, <3>5, LogGrows DEF Result, Knowledge, TypeOK
    <3> QED
      BY <3>4, <3>5
  <2>9. CASE MoveOrder(w)
    <3>1. /\ Finalize(w, "moved") /\ UNCHANGED credits
          /\ \A p \in Order \ {OrderOf(w)} : status'[p] = status[p]
          /\ OrderOf(w) \in Order => status'[OrderOf(w)] # "settled"
      BY <2>9 DEF MoveOrder, MappedStatus, Knowledge, TypeOK
    <3>2. EventsWith(o, "settled")' = EventsWith(o, "settled")
      BY <2>3, <3>1, LogGrows DEF Result
    <3>3. CASE o = OrderOf(w)
      <4>1. Cardinality(EventsWith(o, "moved")') = Cardinality(EventsWith(o, "moved")) + 1
        BY <2>3, <3>1, <3>3, LogGrows DEF Result
      <4> QED
        BY <2>1, <2>2, <2>3, <3>1, <3>2, <3>3, <4>1
    <3>4. CASE o # OrderOf(w)
      BY <2>1, <2>2, <2>3, <3>1, <3>2, <3>4, LogGrows DEF Result
    <3> QED
      BY <3>3, <3>4
  <2> QED
    BY <1>2, <2>5, <2>6, <2>7, <2>8, <2>9 DEF Finalizes
<1> QED
  BY <1>1, <1>2

\* At the start nothing is logged and nothing credited.
LEMMA InitAccounts == Init => Accounts
<1> SUFFICES ASSUME Init, NEW o \in Order
             PROVE  /\ credits[o] = Cardinality(EventsWith(o, "settled"))
                    /\ credits[o] > 0 => charge[o] = "ACTIVE"
                    /\ status[o] = "settled" => credits[o] > 0
                    /\ credits[o] <= Cardinality(EventsWith(o, "moved"))
                                       + (IF status[o] = "settled" THEN 1 ELSE 0)
  BY DEF Accounts, EventLogAgrees, OnlyPaidIsCredited, SettledMeansCredited, CreditsBounded
<1>1. EventsWith(o, "settled") = {} /\ EventsWith(o, "moved") = {}
  BY DEF Init, EventsWith
<1>2. Cardinality(EventsWith(o, "settled")) = 0 /\ Cardinality(EventsWith(o, "moved")) = 0
  BY <1>1, FS_EmptySet
<1>3. credits[o] = 0 /\ status[o] = "none"
  BY DEF Init
<1> QED
  BY <1>2, <1>3

\* What every step of the system preserves.
IInv == Knowledge /\ Accounts

\* The invariant of the payments holds in every reachable state.
LEMMA Inductive == Spec => []IInv
<1>1. Init => IInv
  BY InitKnowledge, InitAccounts DEF IInv
<1>2. IInv /\ [Next]_vars => IInv'
  BY KnowledgeStep, AccountsStep DEF IInv
<1> QED
  BY <1>1, <1>2, PTL DEF Spec

\* The ledger's top-ups of an order are the events that the log says settled it,
\* for any number of concurrent, repeated and reordered deliveries, failed
\* top-ups and crashes.
THEOREM LedgerIsLog == Spec => []EventLogAgrees
<1>1. IInv => EventLogAgrees
  BY DEF IInv, Accounts
<1> QED
  BY <1>1, Inductive, PTL

\* An order is credited once, and once more at most per event that overwrote its
\* status: the row lock and the check of "settled" under it keep the other
\* deliveries out.
THEOREM OnceCredited == Spec => []CreditedOnce
<1>1. IInv => CreditedOnce
  <2> SUFFICES ASSUME IInv, NEW o \in Order
               PROVE  credits[o] <= 1 + Cardinality(EventsWith(o, "moved"))
    BY DEF CreditedOnce
  <2>1. /\ Cardinality(EventsWith(o, "moved")) \in Nat
        /\ credits[o] \in Nat
    BY LogIsFinite DEF IInv, Knowledge, TypeOK
  <2> QED
    BY <2>1 DEF IInv, Accounts, CreditsBounded
<1> QED
  BY <1>1, Inductive, PTL

\* Credits are only given for a charge that Shopify holds as approved.
THEOREM PaidOnly == Spec => []OnlyPaidIsCredited
<1>1. IInv => OnlyPaidIsCredited
  BY DEF IInv, Accounts
<1> QED
  BY <1>1, Inductive, PTL

\* No order shows as settled without its credits in the ledger.
THEOREM SettledIsCredited == Spec => []SettledMeansCredited
<1>1. IInv => SettledMeansCredited
  BY DEF IInv, Accounts
<1> QED
  BY <1>1, Inductive, PTL
=============================================================================
