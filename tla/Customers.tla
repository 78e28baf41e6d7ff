----------------------------- MODULE Customers -----------------------------
(***************************************************************************)
(* The customers of a merchant's Shopify shop as contacts                  *)
(* (ShopifyCustomerService in apps/shopify): one import of all of them,    *)
(* and a webhook for each that is created, updated or deleted.  Each has a *)
(* ShopifyCustomerLink, which keeps its phone and points to a contact.     *)
(*                                                                         *)
(* Shopify is outside.  A webhook carries the customer as it was when it   *)
(* was sent, and is repeated until it is answered with 200, maybe once     *)
(* more, and in any order.  The import fetches page after page before its  *)
(* transaction.  Every handler is one transaction and shows at its commit, *)
(* but it reads without a lock: contacts and links may have changed when   *)
(* they are written.  The import and sync_customer hold their contacts     *)
(* while they write the links; update_customer saves its link before the   *)
(* contact, so the two may wait for each other, and one of them fails.     *)
(* Requests about contacts (Contacts) run beside this.                     *)
(***************************************************************************)
EXTENDS Contacts, Sequences

CONSTANTS
  Customer,
  PageCount, PageOf, \* pages of the customer query, and the page of a customer
  Topics,            \* topics the shop sends webhooks for
  MaxChanges,        \* changes at Shopify in all
  MaxRepeats         \* webhooks delivered again after their answer

LinkRow == [contact : Contact \cup {None}, phone : Phone \cup {NoPhone}, live : BOOLEAN]

ASSUME CustomersAssumption ==
  /\ PageCount \in Nat \ {0} /\ PageOf \in [Customer -> 1 .. PageCount]
  /\ Topics \subseteq {"create", "update", "delete"}
  /\ MaxChanges \in Nat /\ MaxRepeats \in Nat
  /\ {"before", "gone"} \cap (Phone \cup {NoPhone}) = {}
  /\ None \notin LinkRow

VARIABLES
  shop,              \* Shopify: "before", the phone of a customer (or none), or "gone"
  sent,              \* Shopify: the webhooks, in the order of the changes
  unanswered,        \* Shopify: those not answered with 200 yet
  repeats,
  link,              \* ShopifyCustomerLink rows
  imported,          \* ShopifyProfile.first_time_import_customers
  job,               \* the import or the webhook a web worker is at
  handled,           \* observer: webhooks that were answered with 200
  outOfOrder,        \* observer: customers of which old news was written over newer
  crossed            \* observer: customers that something changed under a handler

shopify == <<shop, sent, unanswered, repeats>>
links == <<link, imported, job, handled, outOfOrder, crossed>>
vars == <<contactVars, shopify, links>>

NoJob == [pc |-> "none", hook |-> 0, page |-> 0, at |-> 0,
          phoneOf |-> <<>>, known |-> <<>>, keys |-> <<>>, seen |-> <<>>]

CustomersInit ==
  /\ Init
  /\ shop \in [Customer -> {"before"} \cup Phone \cup {NoPhone}]
  /\ sent = <<>> /\ unanswered = {} /\ repeats = 0
  /\ link = [k \in Customer |-> None]
  /\ imported = FALSE
  /\ job = [w \in Worker |-> NoJob]
  /\ handled = {} /\ outOfOrder = {} /\ crossed = {}

-----------------------------------------------------------------------------
(* Shopify (external)                                                      *)

Known(k) == shop[k] \in Phone \cup {NoPhone}

ChangeCustomer(k, now) ==
  LET topic == IF now = "gone" THEN "delete" ELSE IF shop[k] = "before" THEN "create" ELSE "update"
  IN
  /\ Len(sent) < MaxChanges /\ Count
  /\ shop[k] # now
  /\ shop[k] = "before" \/ Known(k)
  /\ now = "gone" => Known(k)
  /\ topic \in Topics
  /\ shop' = [shop EXCEPT ![k] = now]
  /\ sent' = Append(sent, [customer |-> k, topic |-> topic, phone |-> now])
  /\ unanswered' = unanswered \cup {Len(sent) + 1}
  /\ UNCHANGED <<contactState, repeats, links>>

-----------------------------------------------------------------------------
(* What a worker has in hand                                               *)

Free(w) == request[w].pc = "idle" /\ job[w] = NoJob

Handling == {"save", "links", "update", "delete"}

InHand(w) == IF job[w].pc \in Handling THEN DOMAIN job[w].phoneOf ELSE {}

\* Worker w opens its transaction as j; another one may have the same customers in hand.
Begin(w, j) ==
  /\ job' = [job EXCEPT ![w] = j]
  /\ crossed' = crossed \cup (DOMAIN j.phoneOf \cap UNION {InHand(v) : v \in Worker \ {w}})

\* A webhook n is answered with 200; it is old news if a later one of the same customer
\* was handled before.
Answer(n) ==
  /\ unanswered' = unanswered \ {n}
  /\ handled' = handled \cup {n}
  /\ outOfOrder' = IF \E m \in handled : m > n /\ sent[m].customer = sent[n].customer
                     THEN outOfOrder \cup {sent[n].customer} ELSE outOfOrder
  /\ UNCHANGED <<shop, sent, imported>>

\* Worker w rolls back and gives up: the import answers 502, a webhook is not answered.
GiveUp(w) ==
  /\ job' = [job EXCEPT ![w] = NoJob]
  /\ request' = [request EXCEPT ![w] = Idle]
  /\ UNCHANGED <<tables, drifted, renumbered, silenced, shopify, link, imported, handled,
                 outOfOrder, crossed>>

-----------------------------------------------------------------------------
(* import_customers                                                        *)

\* Unless there was one.
StartImport(w) ==
  /\ Free(w) /\ Count
  /\ ~imported
  /\ job' = [job EXCEPT ![w] = [NoJob EXCEPT !.pc = "pages", !.page = 1, !.at = Len(sent)]]
  /\ UNCHANGED <<contactState, shopify, link, imported,
                 handled, outOfOrder, crossed>>

\* _fetch_all_customers: GET_CUSTOMERS_QUERY, page after page.
FetchPage(w) ==
  LET j == job[w]  here == {k \in Customer : PageOf[k] = j.page /\ Known(k)} IN
  /\ j.pc = "pages" /\ j.page <= PageCount
  /\ job' = [job EXCEPT ![w] = [j EXCEPT
                !.page = @ + 1,
                !.phoneOf = [k \in DOMAIN @ \cup here |-> IF k \in here THEN shop[k] ELSE @[k]]]]
  /\ UNCHANGED <<contactVars, shopify, link, imported, handled, outOfOrder, crossed>>

-----------------------------------------------------------------------------
(* _import_fetched_customers                                               *)

Phones(phoneOf) == {phoneOf[k] : k \in DOMAIN phoneOf} \ {NoPhone}

\* The contact of a phone, if there is one.
ContactOf(p) == IF WithPhone(p) = {} THEN None ELSE CHOOSE c \in WithPhone(p) : TRUE

\* _upsert_contacts reads the contacts of the phones.
ReadContacts(w, j) ==
  Begin(w, [j EXCEPT !.pc = "save", !.page = 0,
              !.known = [p \in Phones(j.phoneOf) |-> ContactOf(p)]])

OpenImport(w) ==
  /\ job[w].pc = "pages" /\ job[w].page > PageCount
  /\ ReadContacts(w, job[w])
  /\ UNCHANGED <<contactVars, shopify, link, imported, handled, outOfOrder>>

\* The phones without a contact, and the contacts it found that are still there.
NewPhones(j) == {p \in DOMAIN j.known : j.known[p] = None}
StillThere(j) == {j.known[p] : p \in DOMAIN j.known \ NewPhones(j)} \cap Rows

\* The contacts of the phones, read again after the new ones got the keys fresh.
KeysWith(j, fresh) ==
  [p \in DOMAIN j.known |-> IF p \in NewPhones(j) THEN fresh[p] ELSE ContactOf(p)]

\* Customers whose contact is another now than the one it found.
Moved(j, keys) ==
  {k \in DOMAIN j.phoneOf : LET p == j.phoneOf[k] IN
     p \in DOMAIN j.known \ NewPhones(j) /\ keys[p] # j.known[p]}

\* It has saved its contacts H, among them those of the new phones P.
Holding(H, P) == [Idle EXCEPT !.pc = "shopify", !.holds = H, !.taken = P]

\* It has the contacts of all phones, and has read the links.
WithKeys(j, keys) ==
  [j EXCEPT !.pc = "links", !.known = <<>>, !.keys = keys,
            !.seen = [k \in DOMAIN j.phoneOf |-> link[k]]]

\* It creates those it did not find, and saves the others as they are now, unless they are
\* gone; it reads all of them again by phone, and the links after that.
CreateMissing(w, fresh) ==
  LET j == job[w]  new == {fresh[p] : p \in NewPhones(j)} IN
  /\ \A p, q \in NewPhones(j) : fresh[p] = fresh[q] => p = q
  /\ born' = born \cup new
  /\ request' = [request EXCEPT ![w] = Holding(StillThere(j) \cup new, NewPhones(j))]
  /\ job' = [job EXCEPT ![w] = WithKeys(j, KeysWith(j, fresh))]
  /\ crossed' = crossed \cup Moved(j, KeysWith(j, fresh))
  /\ UNCHANGED <<contact, member, list, stored, requests, drifted, renumbered, silenced,
                 shopify, link, imported, handled, outOfOrder>>

\* That fails if somebody else created one by now.
SaveContacts(w) ==
  LET j == job[w] IN
  /\ j.pc = "save"
  /\ \A p \in NewPhones(j) : ~HeldPhone(p)
  /\ \A c \in StillThere(j) : ~HeldContact(c)
  /\ IF \E p \in NewPhones(j) : WithPhone(p) # {}
       THEN GiveUp(w) /\ UNCHANGED requests
       ELSE \E fresh \in [NewPhones(j) -> Contact \ born] : CreateMissing(w, fresh)

\* The contact of customer k: that of its phone, or else the one its link had.
ContactFor(j, k) ==
  LET p == j.phoneOf[k] IN
  IF p # NoPhone /\ j.keys[p] # None THEN j.keys[p]
  ELSE IF j.seen[k] = None THEN None ELSE j.seen[k].contact

LinkOf(j, k) == [contact |-> ContactFor(j, k), phone |-> j.phoneOf[k], live |-> TRUE]

\* The contacts of the transaction: the created ones appear, and all are subscribed,
\* whatever they were.
Upserted(r, j) ==
  [c \in Contact |->
     IF c \notin r.holds THEN contact[c]
     ELSE [phone |-> IF c \in Rows THEN contact[c].phone
                     ELSE CHOOSE p \in DOMAIN j.keys : j.keys[p] = c,
           status |-> "subscribed"]]

\* Somebody else created a link by now, or the contact of a link is gone.
LinksFail(r, j) ==
  \E k \in DOMAIN j.phoneOf :
    \/ j.seen[k] = None /\ link[k] # None
    \/ ContactFor(j, k) \notin Rows \cup r.holds \cup {None}

\* The links are written and the transaction commits.  The import (hook 0) sets its flag;
\* it is old news for a customer of which a newer webhook was handled since it began.
SaveLinks(w) ==
  LET r == request[w]  j == job[w]  here == DOMAIN j.phoneOf IN
  /\ j.pc = "links"
  /\ IF LinksFail(r, j)
       THEN GiveUp(w) /\ UNCHANGED requests
       ELSE /\ contact' = Upserted(r, j)
            /\ link' = [k \in Customer |-> IF k \in here THEN LinkOf(j, k) ELSE link[k]]
            /\ silenced' = silenced \ r.holds
            /\ request' = [request EXCEPT ![w] = Idle]
            /\ job' = [job EXCEPT ![w] = NoJob]
            /\ IF j.hook = 0
                 THEN /\ imported' = TRUE
                      /\ outOfOrder' = outOfOrder \cup
                           ({sent[n].customer : n \in {m \in handled : m > j.at}} \cap here)
                      /\ UNCHANGED <<shopify, handled>>
                 ELSE Answer(j.hook) /\ UNCHANGED repeats
            /\ UNCHANGED <<born, member, list, stored, requests, drifted, renumbered, crossed>>

-----------------------------------------------------------------------------
(* The webhooks: a worker gets webhook n, and reads                        *)

Hook(n, pc) ==
  LET k == sent[n].customer IN
  [NoJob EXCEPT !.pc = pc, !.hook = n, !.phoneOf = [x \in {k} |-> sent[n].phone],
                !.seen = [x \in {k} |-> link[k]]]

\* sync_customer: one customer, and the flag is left alone.
SyncCustomer(w, n) ==
  /\ sent[n].topic = "create"
  /\ ReadContacts(w, [Hook(n, "save") EXCEPT !.seen = <<>>])
  /\ UNCHANGED <<contactState, shop, sent, unanswered, link, imported, handled, outOfOrder>>

\* update_customer reads the link ...
UpdateCustomer(w, n) ==
  /\ sent[n].topic = "update"
  /\ link[sent[n].customer] # None
  /\ Begin(w, Hook(n, "update"))
  /\ UNCHANGED <<contactState, shop, sent, unanswered, link, imported, handled, outOfOrder>>

\* ... which there must be (AttributeError): 500, and Shopify repeats the webhook.
UpdateFails(n) ==
  /\ sent[n].topic = "update"
  /\ link[sent[n].customer] = None
  /\ UNCHANGED <<contactState, shop, sent, unanswered, links>>

Deletable(k) == link[k] # None /\ link[k].live

\* delete_customer reads the link; a customer without a live one is "missing", which is
\* answered with 200 as well.
DeleteCustomer(w, n) ==
  /\ sent[n].topic = "delete"
  /\ IF Deletable(sent[n].customer)
       THEN /\ Begin(w, Hook(n, "delete"))
            /\ UNCHANGED <<shop, sent, unanswered, imported, handled, outOfOrder>>
       ELSE Answer(n) /\ UNCHANGED <<job, crossed>>
  /\ UNCHANGED <<contactState, link>>

Handle(w, n) ==
  SyncCustomer(w, n) \/ UpdateCustomer(w, n) \/ UpdateFails(n) \/ DeleteCustomer(w, n)

Deliver(w, n) == Free(w) /\ n \in unanswered /\ Handle(w, n) /\ UNCHANGED <<repeats, requests>>

\* A webhook is delivered once more although it was answered.
DeliverAgain(w, n) ==
  /\ Free(w) /\ Count
  /\ n \in handled /\ repeats < MaxRepeats
  /\ repeats' = repeats + 1
  /\ Handle(w, n)

-----------------------------------------------------------------------------
(* The webhooks: the saves, and the commit                                 *)

TheCustomer(j) == CHOOSE k \in DOMAIN j.phoneOf : TRUE

\* Fault: the phone of the payload is not looked at.
PhoneOfLink(l, phone) == l.phone

\* The phone an update leaves in the link that was read: a payload without one changes
\* nothing.
PhoneAfter(l, phone) == IF phone = NoPhone THEN l.phone ELSE phone

LinkedTo(c) == {k \in Customer : link[k] # None /\ link[k].contact = c}

\* Fault: the contact keeps its phone.
RenumberedInLinkOnly(c, phone) == contact

\* customer.save(update_fields): the contact's phone, not its status.
Renumbered(c, phone) == [contact EXCEPT ![c].phone = phone]

\* update_customer saves the phone of the link, and gives it to the contact the link had
\* when it was read, also when another customer shares it.  The contact may be gone, or
\* another one may have the phone (IntegrityError): 500.
SaveUpdate(w) ==
  LET j == job[w]  k == TheCustomer(j)  l == j.seen[k]
      c == l.contact  phone == PhoneAfter(l, j.phoneOf[k]) IN
  /\ j.pc = "update"
  /\ c # None => ~HeldContact(c) /\ ~HeldPhone(phone)
  /\ IF c # None /\ ~(c \in Rows /\ WithPhone(phone) \subseteq {c})
       THEN GiveUp(w) /\ UNCHANGED requests
       ELSE /\ link' = [link EXCEPT ![k].phone = phone]
            /\ contact' = IF c = None THEN contact ELSE Renumbered(c, phone)
            /\ renumbered' = IF c # None /\ ~(LinkedTo(c) \subseteq {k})
                               THEN renumbered \cup {c} ELSE renumbered
            /\ job' = [job EXCEPT ![w] = NoJob]
            /\ Answer(j.hook)
            /\ UNCHANGED <<born, member, list, stored, request, requests, drifted, silenced,
                           repeats, crossed>>

\* delete_customer: the contact opts out and the link gets its deleted_at.
SaveDelete(w) ==
  LET j == job[w]  k == TheCustomer(j)  c == j.seen[k].contact IN
  /\ j.pc = "delete"
  /\ c # None => ~HeldContact(c)
  /\ IF c \notin Rows \cup {None}
       THEN GiveUp(w) /\ UNCHANGED requests
       ELSE /\ contact' = IF c = None THEN contact ELSE [contact EXCEPT ![c].status = "opted_out"]
            /\ silenced' = silenced \cup ({c} \ {None})
            /\ request' = [v \in Worker |-> Late(request[v], c)]
            /\ link' = [link EXCEPT ![k].live = FALSE]
            /\ job' = [job EXCEPT ![w] = NoJob]
            /\ Answer(j.hook)
            /\ UNCHANGED <<born, member, list, stored, requests, drifted, renumbered,
                           repeats, crossed>>

\* ShopifyGraphQLError, a deadlock, or the death of the worker.
JobFails(w) == job[w] # NoJob /\ Count /\ GiveUp(w)

JobStep(w) ==
  \/ StartImport(w) \/ FetchPage(w) \/ OpenImport(w)
  \/ SaveContacts(w) \/ SaveLinks(w) \/ SaveUpdate(w) \/ SaveDelete(w) \/ JobFails(w)

-----------------------------------------------------------------------------
\* A contact that is deleted leaves its links without one.
DeleteLinkedContact(c) ==
  /\ DeleteContact(c)
  /\ link' = [k \in Customer |-> IF k \in LinkedTo(c) THEN [link[k] EXCEPT !.contact = None]
                                                     ELSE link[k]]
  /\ UNCHANGED <<shopify, imported, job, handled, outOfOrder, crossed>>

ContactStep ==
  /\ \/ \E w \in Worker : job[w] = NoJob /\ ContactRequest(w)
     \/ /\ \E w \in Worker : Free(w)
        /\ \E g \in Segment :
             DeleteSegment(g) \/ \E length \in Lengths \cup {None} : CreateSegment(g, length)
  /\ UNCHANGED <<shopify, links>>

CustomersNext ==
  \/ ContactStep
  \/ \E k \in Customer, now \in Phone \cup {NoPhone, "gone"} : ChangeCustomer(k, now)
  \/ \E w \in Worker : JobStep(w)
  \/ \E w \in Worker, n \in 1 .. Len(sent) : Deliver(w, n) \/ DeliverAgain(w, n)
  \/ /\ \E w \in Worker : Free(w)
     /\ \E c \in Contact : DeleteLinkedContact(c)

CustomersSpec == CustomersInit /\ [][CustomersNext]_vars

-----------------------------------------------------------------------------
(* Properties *)

Answered(k) == \A n \in unanswered : sent[n].customer # k
Announced(k) == \E n \in 1 .. Len(sent) : sent[n].customer = k /\ sent[n].topic = "create"

\* Once every webhook of a customer is answered, its link is live exactly while
\* Shopify has the customer, and keeps the phone Shopify has - whatever was
\* repeated, failed or overlapped with the import - unless old news was handled
\* after newer: a create that arrives after the delete, or an import that fetched
\* the customer before a webhook and commits after it.  (A phone that is removed
\* at Shopify stays in the link.)
SettledMeansLinked ==
  \A k \in Customer \ outOfOrder :
    /\ Answered(k) /\ Announced(k) => link[k] # None
    /\ Answered(k) /\ link[k] # None =>
         /\ link[k].live <=> shop[k] # "gone"
         /\ shop[k] \in Phone => link[k].phone = shop[k]

\* A customer is reached under the phone its link shows: whatever is imported,
\* repeated, reordered or rolled back, the contact of a link has the phone of the link,
\* unless the contact got its phone from elsewhere (the merchant, the save of an old
\* copy, another customer that shares it), or two handlers had the customer in hand at
\* once, or its contact changed its phone under a handler: update_customer gives the
\* phone to the contact the link had before an import attached another.  (A link
\* without a phone may have a contact with one: an import left it, and the next update
\* without a phone takes it away.)
LinkAgrees ==
  \A k \in Customer \ crossed :
    link[k] # None =>
      \A c \in Rows \ renumbered :
        link[k].contact = c /\ link[k].phone # NoPhone => contact[c].phone = link[k].phone
=============================================================================
