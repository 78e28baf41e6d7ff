------------------------------ MODULE Catalog ------------------------------
(***************************************************************************)
(* The local copy of a merchant's Shopify catalogue (ShopifyProductService *)
(* in apps/shopify): one import of everything, and after it a webhook for  *)
(* every change.  A webhook carries no data the code uses but the id: the  *)
(* product is fetched when the webhook is handled.                         *)
(*                                                                         *)
(* A product is what the copy keeps of it: its variants, its media and     *)
(* whether Shopify lists it as active (a draft or an archived product is   *)
(* not).  The import asks for active products alone, a webhook fetches its *)
(* product by its id, whatever its status: what a merchant sees of a draft *)
(* depends on the way it came.                                             *)
(*                                                                         *)
(* Shopify is outside; it emits an event with every change and repeats it  *)
(* until it is answered with 200.  The web workers run requests side by    *)
(* side: an import, or a webhook.  _import_fetched_products is one         *)
(* transaction, serialised on the product rows it saves, and shows at its  *)
(* commit; delete_product has no transaction and shows save by save.       *)
(***************************************************************************)
EXTENDS Integers

CONSTANTS
  Product,
  Variant,           \* variants a product may have
  Media,             \* media items a product may have
  Active,            \* the mark of an active product
  PageCount,         \* pages of the product query
  PageOf,            \* the page a product is on
  Worker,            \* web workers
  None,              \* no event
  MaxChanges,        \* changes at Shopify in all
  MaxFaults          \* failed fetches, crashes and lost replies in all

VARIABLES
  stage,             \* Shopify: not there yet, there, or deleted
  content,           \* Shopify: variants, media and mark of a product
  pending,           \* Shopify: events not answered with 200
  changes,
  row,               \* ShopifyProduct row: none, live, or with deleted_at
  shown,             \* the payload its columns were written from
  children,          \* variant and media rows without deleted_at
  connected,         \* ShopifyProfile.connect_products
  worker,            \* what a web worker does
  faults,
  noticed,           \* observer: products an event was emitted for
  imported,          \* observer: an import has committed
  handled,           \* observer: products a webhook's work was completed for
  overlapped         \* observer: products two requests have handled at once

shopify == <<stage, content, pending, changes, noticed>>
catalog == <<row, shown, children, imported, handled>>
vars == <<shopify, catalog, connected, worker, faults, overlapped>>

Content == SUBSET (Variant \cup Media \cup {Active})
Event == [product : Product, topic : {"sync", "delete"}, change : 1 .. MaxChanges]

ASSUME CatalogAssumption ==
  /\ PageCount \in Nat \ {0}
  /\ PageOf \in [Product -> 1 .. PageCount]
  /\ Variant \cap Media = {}
  /\ Active \notin Variant \cup Media
  /\ None \notin Event
  /\ MaxChanges \in Nat /\ MaxFaults \in Nat

Free == [pc |-> "free", event |-> None, page |-> 1, found |-> {},
         fetched |-> [p \in Product |-> {}], known |-> {}]

Init ==
  /\ stage \in [Product -> {"before", "there"}]
  /\ content \in [Product -> {{}, Variant, Variant \cup {Active}}]
  /\ \A p \in Product : content[p] = {} <=> stage[p] = "before"
  /\ pending = {}
  /\ changes = 0
  /\ row = [p \in Product |-> "none"]
  /\ shown = [p \in Product |-> {}]
  /\ children = [p \in Product |-> {}]
  /\ connected = FALSE
  /\ worker = [w \in Worker |-> Free]
  /\ faults = 0
  /\ noticed = {}
  /\ imported = FALSE
  /\ handled = {}
  /\ overlapped = {}

-----------------------------------------------------------------------------
(* Shopify (external)                                                      *)

Emit(p, topic) ==
  /\ changes < MaxChanges
  /\ changes' = changes + 1
  /\ pending' = pending \cup {[product |-> p, topic |-> topic, change |-> changes + 1]}
  /\ noticed' = noticed \cup {p}
  /\ UNCHANGED <<catalog, connected, worker, faults, overlapped>>

\* products/create and products/update; a product may become a draft, or active again.
ChangeProduct(p, c) ==
  /\ stage[p] # "gone"
  /\ content[p] # c \/ stage[p] = "before"
  /\ stage' = [stage EXCEPT ![p] = "there"]
  /\ content' = [content EXCEPT ![p] = c]
  /\ Emit(p, "sync")

\* products/delete; the id is never used again.
DeleteProduct(p) ==
  /\ stage[p] = "there"
  /\ stage' = [stage EXCEPT ![p] = "gone"]
  /\ content' = [content EXCEPT ![p] = {}]
  /\ Emit(p, "delete")

-----------------------------------------------------------------------------
(* Requests                                                                *)

IsImport(j) == j.event = None

\* The products a request may write.
Concerns(j) ==
  {p \in Product : j.pc # "free" /\ (IsImport(j) \/ p = j.event.product)}

Begin(w, j) ==
  /\ worker[w].pc = "free"
  /\ worker' = [worker EXCEPT ![w] = j]
  /\ overlapped' = overlapped \cup
       {p \in Concerns(j) : \E v \in Worker : p \in Concerns(worker[v])}
  /\ UNCHANGED <<shopify, catalog, connected, faults>>

\* _handle_shopify_webhook, to the handler of its topic.
Deliver(w, e) ==
  /\ e \in pending
  /\ Begin(w, [Free EXCEPT !.pc = IF e.topic = "sync" THEN "fetch" ELSE "row", !.event = e])

StartImport(w) ==
  /\ ~connected
  /\ Begin(w, [Free EXCEPT !.pc = "pages"])

\* ShopifyProductImportStateError.
RefuseImport(w) ==
  /\ worker[w].pc = "free"
  /\ connected
  /\ UNCHANGED vars

Goto(w, pc) == worker' = [worker EXCEPT ![w].pc = pc]

\* GET_PRODUCT_QUERY, of any status; a product that is not there is deleted here too.
FetchProduct(w) ==
  LET p == worker[w].event.product IN
  /\ worker[w].pc = "fetch"
  /\ IF stage[p] = "there"
       THEN worker' = [worker EXCEPT ![w] = [@ EXCEPT !.pc = "fetched", !.found = {p},
                                                      !.fetched[p] = content[p]]]
       ELSE Goto(w, "row")
  /\ UNCHANGED <<shopify, catalog, connected, faults, overlapped>>

OnePageMore(page) == page <= PageCount              \* fault: a page too many

HasNextPage(page) == page < PageCount

\* The query of the import: status:ACTIVE.
Offered(p) == stage[p] = "there" /\ Active \in content[p]

\* GET_PRODUCTS_QUERY, page after page, each as Shopify is at its moment.
FetchPage(w) ==
  LET page == worker[w].page
      here == {p \in Product : PageOf[p] = page /\ Offered(p)}
  IN
  /\ worker[w].pc = "pages"
  /\ worker' = [worker EXCEPT
       ![w].pc = IF HasNextPage(page) THEN "pages" ELSE "fetched",
       ![w].page = IF HasNextPage(page) THEN page + 1 ELSE page,
       ![w].found = @ \cup here,
       ![w].fetched = [p \in Product |-> IF p \in here THEN content[p] ELSE @[p]]]
  /\ UNCHANGED <<shopify, catalog, connected, faults, overlapped>>

-----------------------------------------------------------------------------
(* _import_fetched_products                                                *)

\* The rows that exist for the fetched ids are read first.
ReadExisting(w) ==
  /\ worker[w].pc = "fetched"
  /\ worker' = [worker EXCEPT ![w].pc = "write",
                              ![w].known = {p \in worker[w].found : row[p] # "none"}]
  /\ UNCHANGED <<shopify, catalog, connected, faults, overlapped>>

\* Products this transaction inserts that another one has inserted meanwhile.
Conflicts(w) == {p \in worker[w].found \ worker[w].known : row[p] # "none"}

Stale(w) ==
  IF IsImport(worker[w]) THEN {p \in Product \ worker[w].found : row[p] = "live"} ELSE {}

ChildrenOf(payload) == payload \ {Active}

\* Fault: nothing is pruned.
KeepOldChildren(old, incoming) == old \cup ChildrenOf(incoming)

\* _sync_product_children: what is not in the payload gets its deleted_at.
SyncChildren(old, incoming) == ChildrenOf(incoming)

WriteProducts(w) ==
  LET found == worker[w].found
      fetched == worker[w].fetched
  IN
  /\ worker[w].pc = "write"
  /\ Conflicts(w) = {}
  /\ row' = [p \in Product |->
       IF p \in found THEN "live" ELSE IF p \in Stale(w) THEN "deleted" ELSE row[p]]
  /\ shown' = [p \in Product |-> IF p \in found THEN fetched[p] ELSE shown[p]]
  /\ children' = [p \in Product |->
       IF p \in found THEN SyncChildren(children[p], fetched[p])
       ELSE IF p \in Stale(w) THEN {} ELSE children[p]]
  /\ imported' = (imported \/ IsImport(worker[w]))
  /\ handled' = IF IsImport(worker[w]) THEN handled ELSE handled \cup {worker[w].event.product}
  /\ worker' = [worker EXCEPT ![w] = [Free EXCEPT !.pc = "flag", !.event = worker[w].event]]
  /\ UNCHANGED <<shopify, connected, faults, overlapped>>

\* IntegrityError: the transaction is rolled back and the view answers 500.
WriteConflicts(w) ==
  /\ worker[w].pc = "write"
  /\ Conflicts(w) # {}
  /\ worker' = [worker EXCEPT ![w] = Free]
  /\ UNCHANGED <<shopify, catalog, connected, faults, overlapped>>

-----------------------------------------------------------------------------
(* delete_product                                                          *)

DeleteRow(w) ==
  LET p == worker[w].event.product IN
  /\ worker[w].pc = "row"
  /\ IF row[p] = "live"
       THEN row' = [row EXCEPT ![p] = "deleted"] /\ Goto(w, "variants") /\ UNCHANGED handled
       ELSE Goto(w, "flag") /\ handled' = handled \cup {p} /\ UNCHANGED row
  /\ UNCHANGED <<shopify, shown, children, imported, connected, faults, overlapped>>

DeleteChildren(w, pc, next, kind) ==
  LET p == worker[w].event.product IN
  /\ worker[w].pc = pc
  /\ children' = [children EXCEPT ![p] = @ \ kind]
  /\ Goto(w, next)
  /\ handled' = IF next = "flag" THEN handled \cup {p} ELSE handled
  /\ UNCHANGED <<shopify, row, shown, imported, connected, faults, overlapped>>

DeleteVariants(w) == DeleteChildren(w, "variants", "media", Variant)
DeleteMedia(w) == DeleteChildren(w, "media", "flag", Media)

-----------------------------------------------------------------------------
(* The end of a request                                                    *)

\* connect_products is set and the request is answered with 200.
Answer(w) ==
  /\ worker[w].pc = "flag"
  /\ connected' = TRUE
  /\ pending' = pending \ {worker[w].event}
  /\ worker' = [worker EXCEPT ![w] = Free]
  /\ UNCHANGED <<stage, content, changes, noticed, catalog, faults, overlapped>>

Fault ==
  /\ faults < MaxFaults
  /\ faults' = faults + 1

\* Fault: the view answers 200 when the fetch has failed.
AnswerAnyway(w) == pending' = pending \ {worker[w].event}

\* ShopifyGraphQLError: 502.
AnswerError(w) == UNCHANGED pending

\* Fault: connect_products is set before the fetch.
FetchFailsConnected(w) ==
  /\ worker[w].pc \in {"fetch", "pages"}
  /\ Fault
  /\ connected' = TRUE
  /\ worker' = [worker EXCEPT ![w] = Free]
  /\ UNCHANGED <<shopify, catalog, overlapped>>

FetchFails(w) ==
  /\ worker[w].pc \in {"fetch", "pages"}
  /\ Fault
  /\ AnswerError(w)
  /\ worker' = [worker EXCEPT ![w] = Free]
  /\ UNCHANGED <<stage, content, changes, noticed, catalog, connected, overlapped>>

\* The worker dies: an open transaction is rolled back, saves outside one stay.
RequestDies(w) ==
  /\ worker[w].pc # "free"
  /\ Fault
  /\ worker' = [worker EXCEPT ![w] = Free]
  /\ UNCHANGED <<shopify, catalog, connected, overlapped>>

\* The answer does not reach Shopify.
AnswerIsLost(w) ==
  /\ worker[w].pc = "flag"
  /\ Fault
  /\ connected' = TRUE
  /\ worker' = [worker EXCEPT ![w] = Free]
  /\ UNCHANGED <<shopify, catalog, overlapped>>

-----------------------------------------------------------------------------
RequestStep(w) ==
  \/ FetchProduct(w) \/ FetchPage(w) \/ ReadExisting(w) \/ WriteProducts(w)
  \/ WriteConflicts(w) \/ DeleteRow(w) \/ DeleteVariants(w) \/ DeleteMedia(w) \/ Answer(w)

Next ==
  \/ \E p \in Product : DeleteProduct(p) \/ \E c \in Content : ChangeProduct(p, c)
  \/ \E w \in Worker :
       \/ \E e \in Event : Deliver(w, e)
       \/ StartImport(w) \/ RefuseImport(w)
       \/ RequestStep(w)
       \/ FetchFails(w) \/ RequestDies(w) \/ AnswerIsLost(w)

Spec == Init /\ [][Next]_vars

(***************************************************************************)
(* A worker goes on with its request, and Shopify repeats an event until   *)
(* it is answered with 200: a delivery finds a free worker in the end.     *)
(***************************************************************************)
Fairness ==
  /\ \A w \in Worker : WF_vars(RequestStep(w))
  /\ \A e \in Event : SF_vars(\E w \in Worker : Deliver(w, e))

FairSpec == Spec /\ Fairness

-----------------------------------------------------------------------------
(* Properties *)

Request == [pc : {"free", "fetch", "pages", "fetched", "write", "row", "variants", "media", "flag"},
            event : Event \cup {None}, page : 1 .. PageCount, found : SUBSET Product,
            fetched : [Product -> Content], known : SUBSET Product]

\* The type invariant.
TypeOK ==
  /\ stage \in [Product -> {"before", "there", "gone"}]
  /\ content \in [Product -> Content]
  /\ pending \in SUBSET Event
  /\ changes \in 0 .. MaxChanges
  /\ row \in [Product -> {"none", "live", "deleted"}]
  /\ shown \in [Product -> Content]
  /\ children \in [Product -> Content]
  /\ connected \in BOOLEAN
  /\ worker \in [Worker -> Request]
  /\ faults \in 0 .. MaxFaults
  /\ noticed \in SUBSET Product
  /\ imported \in BOOLEAN
  /\ handled \in SUBSET Product
  /\ overlapped \in SUBSET Product

Mirrored(p) ==
  IF stage[p] = "there"
    THEN row[p] = "live" /\ shown[p] = content[p] /\ children[p] = ChildrenOf(content[p])
    ELSE row[p] # "live"

Settled(p) ==
  /\ \A e \in pending : e.product # p
  /\ \A w \in Worker : p \notin Concerns(worker[w])

\* "Future product changes sync via webhooks": once nothing is under way for a
\* product, the copy lists what Shopify has, for every product that has changed and,
\* after an import, for every active one - whatever was repeated, reordered, failed
\* or interrupted, and however the pages of the import aged - unless two requests
\* have handled the product at once.  A draft no webhook has told of is not listed;
\* one a webhook has told of is, and no import takes it away again.
SettledMeansMirrored ==
  \A p \in Product \ overlapped :
    Settled(p) /\ (p \in noticed \/ imported) =>
      IF p \in noticed \/ Offered(p) THEN Mirrored(p) ELSE row[p] # "live"

\* What the merchant is shown of a product comes from one fetch: the columns of a
\* listed row and its variants and media never mix two payloads, not even after a
\* delete that was interrupted between its saves; only two requests that handle
\* the product at once can mix them (a sync between the saves of a delete).
ListedIsOneFetch ==
  \A p \in Product :
    row[p] = "live" /\ p \notin overlapped => children[p] = ChildrenOf(shown[p])

\* Every change reaches the copy, if only one request at a time handles it.
ChangesArrive ==
  \A p \in Product : p \in noticed ~> Mirrored(p) \/ p \in overlapped

\* "Products can be imported only once": an import is refused only when one has written
\* its products, or when all the work of a product's webhook was done; an import that
\* failed, a webhook whose fetch failed or a delete that was interrupted, though its
\* event was sent, refuses none.
RefusedOnlyOnceHandled == connected => imported \/ handled # {}
=============================================================================
