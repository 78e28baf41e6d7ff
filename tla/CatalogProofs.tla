--------------------------- MODULE CatalogProofs ---------------------------
(***************************************************************************)
(* Catalog keeps its types, a product that no two requests have handled at *)
(* once is listed from one fetch and ends as Shopify has it, and an import *)
(* is refused only once an import or the work of a webhook was completed.  *)
(***************************************************************************)
EXTENDS Catalog, TLAPS

\* A request's program counter, event and fetched products agree.
RequestsSound ==
  \A w \in Worker :
    /\ worker[w].pc \in {"fetch", "row", "variants", "media"} => worker[w].event # None
    /\ worker[w].pc = "pages" => worker[w].event = None
    /\ worker[w].event # None => worker[w].found \subseteq {worker[w].event.product}

\* A product that is not in overlapped is in the hands of one request at most.
Alone ==
  \A p \in Product \ overlapped : \A v, w \in Worker :
    p \in Concerns(worker[v]) /\ p \in Concerns(worker[w]) => v = w

\* While its children are deleted, such a product stays deleted.
DeletesLast ==
  \A w \in Worker :
    worker[w].pc \in {"variants", "media"} /\ worker[w].event.product \notin overlapped =>
      row[worker[w].event.product] = "deleted"

IInv == TypeOK /\ RequestsSound /\ Alone /\ DeletesLast /\ ListedIsOneFetch

\* A worker without a request is of the type of requests.
LEMMA FreeType == Free \in Request
  BY CatalogAssumption DEF Free, Request, Content

\* At the start the workers are free, and nothing is listed.
LEMMA InitIInv == Init => IInv
<1> SUFFICES ASSUME Init
             PROVE  IInv
  OBVIOUS
<1>1. TypeOK
  <2>1. {} \in Content /\ Variant \in Content /\ Variant \cup {Active} \in Content
    BY DEF Content
  <2>2. content \in [Product -> Content] /\ shown \in [Product -> Content]
        /\ children \in [Product -> Content]
    BY <2>1 DEF Init
  <2>3. worker \in [Worker -> Request]
    BY FreeType DEF Init
  <2>4. stage \in [Product -> {"before", "there", "gone"}] /\ row \in [Product -> {"none", "live", "deleted"}]
    BY DEF Init
  <2>5. changes \in 0 .. MaxChanges /\ faults \in 0 .. MaxFaults
    BY CatalogAssumption DEF Init
  <2>6. /\ pending \in SUBSET Event /\ noticed \in SUBSET Product /\ overlapped \in SUBSET Product
        /\ handled \in SUBSET Product /\ connected \in BOOLEAN /\ imported \in BOOLEAN
    BY DEF Init
  <2> QED
    BY <2>2, <2>3, <2>4, <2>5, <2>6 DEF TypeOK
<1>2. \A w \in Worker : worker[w] = Free
  BY DEF Init
<1>3. RequestsSound
  BY <1>2 DEF RequestsSound, Free
<1>4. Alone
  <2>1. Concerns(Free) = {}
    BY DEF Concerns, Free
  <2> QED
    BY <1>2, <2>1 DEF Alone
<1>5. DeletesLast
  BY <1>2 DEF DeletesLast, Free
<1>6. ListedIsOneFetch
  BY DEF Init, ListedIsOneFetch, ChildrenOf
<1> QED
  BY <1>1, <1>3, <1>4, <1>5, <1>6 DEF IInv

\* A request that only goes on to its next save keeps its type.
LEMMA MoveType ==
  ASSUME TypeOK, NEW w \in Worker, Goto(w, "row") \/ Goto(w, "variants") \/ Goto(w, "media") \/ Goto(w, "flag")
  PROVE  worker' \in [Worker -> Request]
<1>1. worker[w] \in Request
  BY DEF TypeOK
<1>2. PICK pc \in {"row", "variants", "media", "flag"} : worker' = [worker EXCEPT ![w].pc = pc]
  BY DEF Goto
<1>3. [worker[w] EXCEPT !.pc = pc] \in Request
  BY <1>1 DEF Request
<1> QED
  BY <1>2, <1>3 DEF TypeOK

\* Every step keeps the types.
LEMMA TypeStep == TypeOK /\ RequestsSound /\ [Next]_vars => TypeOK'
<1> SUFFICES ASSUME TypeOK, RequestsSound, [Next]_vars
             PROVE  TypeOK'
  OBVIOUS
<1> USE DEF TypeOK
<1>1. ASSUME NEW p \in Product, DeleteProduct(p)
      PROVE  TypeOK'
  BY <1>1, CatalogAssumption DEF DeleteProduct, Emit, Event, catalog, Content
<1>2. ASSUME NEW p \in Product, NEW c \in Content, ChangeProduct(p, c)
      PROVE  TypeOK'
  BY <1>2, CatalogAssumption DEF ChangeProduct, Emit, Event, catalog
<1>3. ASSUME NEW w \in Worker, NEW e \in Event, Deliver(w, e)
      PROVE  TypeOK'
  <2>1. [Free EXCEPT !.pc = IF e.topic = "sync" THEN "fetch" ELSE "row", !.event = e] \in Request
    BY FreeType DEF Request
  <2>2. overlapped' \in SUBSET Product
    BY <1>3 DEF Deliver, Begin, Concerns, IsImport, Free, Event
  <2> QED
    BY <1>3, <2>1, <2>2 DEF Deliver, Begin, shopify, catalog
<1>4. ASSUME NEW w \in Worker, StartImport(w)
      PROVE  TypeOK'
  <2>1. [Free EXCEPT !.pc = "pages"] \in Request
    BY FreeType DEF Request
  <2>2. overlapped' \in SUBSET Product
    BY <1>4 DEF StartImport, Begin, Concerns, IsImport, Free
  <2> QED
    BY <1>4, <2>1, <2>2 DEF StartImport, Begin, shopify, catalog
<1>5. ASSUME NEW w \in Worker, FetchProduct(w)
      PROVE  TypeOK'
  <2>1. worker[w].event \in Event
    BY <1>5 DEF FetchProduct, RequestsSound, Request
  <2>2. CASE stage[worker[w].event.product] = "there"
    <3> DEFINE p == worker[w].event.product
    <3>1. p \in Product /\ worker[w] \in Request
      BY <2>1 DEF Event
    <3>2. [worker[w] EXCEPT !.pc = "fetched", !.found = {p},
                            !.fetched = [worker[w].fetched EXCEPT ![p] = content[p]]] \in Request
      BY <3>1 DEF Request
    <3>3. worker' = [worker EXCEPT ![w] = [worker[w] EXCEPT !.pc = "fetched", !.found = {p},
                            !.fetched = [worker[w].fetched EXCEPT ![p] = content[p]]]]
      BY <1>5, <2>2 DEF FetchProduct
    <3>4. worker' \in [Worker -> Request]
      BY <3>2, <3>3
    <3> QED
      BY <1>5, <3>4 DEF FetchProduct, shopify, catalog
  <2>3. CASE stage[worker[w].event.product] # "there"
    BY <1>5, <2>3, MoveType DEF FetchProduct, shopify, catalog
  <2> QED
    BY <2>2, <2>3
<1>6. ASSUME NEW w \in Worker, FetchPage(w)
      PROVE  TypeOK'
  <2> DEFINE here == {p \in Product : PageOf[p] = worker[w].page /\ Offered(p)}
             fetched == [p \in Product |-> IF p \in here THEN content[p] ELSE worker[w].fetched[p]]
  <2>1. /\ worker[w] \in Request
        /\ fetched \in [Product -> Content]
        /\ worker[w].found \cup here \in SUBSET Product
    BY DEF Request
  <2>2. HasNextPage(worker[w].page) => worker[w].page + 1 \in 1 .. PageCount
    BY <2>1, CatalogAssumption DEF HasNextPage, Request
  <2>3. worker' = [worker EXCEPT ![w] = [worker[w] EXCEPT
          !.pc = IF HasNextPage(worker[w].page) THEN "pages" ELSE "fetched",
          !.page = IF HasNextPage(worker[w].page) THEN worker[w].page + 1 ELSE worker[w].page,
          !.found = worker[w].found \cup here,
          !.fetched = fetched]]
    BY <1>6, <2>1 DEF FetchPage, Request
  <2>4. worker' \in [Worker -> Request]
    BY <2>1, <2>2, <2>3 DEF Request
  <2> QED
    BY <1>6, <2>4 DEF FetchPage, shopify, catalog
<1>7. ASSUME NEW w \in Worker, ReadExisting(w)
      PROVE  TypeOK'
  <2>1. worker[w] \in Request
    OBVIOUS
  <2>2. worker' \in [Worker -> Request]
    BY <1>7, <2>1 DEF ReadExisting, Request
  <2> QED
    BY <1>7, <2>2 DEF ReadExisting, shopify, catalog
<1>8. ASSUME NEW w \in Worker, WriteProducts(w)
      PROVE  TypeOK'
  <2>1. [Free EXCEPT !.pc = "flag", !.event = worker[w].event] \in Request
    BY FreeType DEF Request
  <2>2. children' \in [Product -> Content] /\ shown' \in [Product -> Content]
    BY <1>8 DEF WriteProducts, SyncChildren, ChildrenOf, Request, Content
  <2>3. handled' \in SUBSET Product
    BY <1>8 DEF WriteProducts, IsImport, Request, Event
  <2> QED
    BY <1>8, <2>1, <2>2, <2>3 DEF WriteProducts, shopify, IsImport
<1>9. ASSUME NEW w \in Worker, WriteConflicts(w)
      PROVE  TypeOK'
  BY <1>9, FreeType DEF WriteConflicts, shopify, catalog
<1>10. ASSUME NEW w \in Worker, DeleteRow(w)
       PROVE  TypeOK'
  <2>1. worker' \in [Worker -> Request]
    BY <1>10, MoveType DEF DeleteRow
  <2>2. row' \in [Product -> {"none", "live", "deleted"}]
    BY <1>10 DEF DeleteRow
  <2>3. worker[w].event.product \in Product
    BY <1>10 DEF DeleteRow, RequestsSound, Request, Event
  <2>4. handled' \in SUBSET Product
    BY <1>10, <2>3 DEF DeleteRow
  <2> QED
    BY <1>10, <2>1, <2>2, <2>4 DEF DeleteRow, shopify
<1>11. ASSUME NEW w \in Worker, DeleteVariants(w) \/ DeleteMedia(w)
       PROVE  TypeOK'
  <2>1. worker' \in [Worker -> Request]
    BY <1>11, MoveType DEF DeleteVariants, DeleteMedia, DeleteChildren
  <2>2. children' \in [Product -> Content]
    BY <1>11 DEF DeleteVariants, DeleteMedia, DeleteChildren, Content
  <2>3. worker[w].event.product \in Product
    BY <1>11 DEF DeleteVariants, DeleteMedia, DeleteChildren, RequestsSound, Request, Event
  <2>4. handled' \in SUBSET Product
    BY <1>11, <2>3 DEF DeleteVariants, DeleteMedia, DeleteChildren
  <2> QED
    BY <1>11, <2>1, <2>2, <2>4 DEF DeleteVariants, DeleteMedia, DeleteChildren, shopify
<1>12. ASSUME NEW w \in Worker, Answer(w) \/ FetchFails(w) \/ RequestDies(w) \/ AnswerIsLost(w)
       PROVE  TypeOK'
  <2>1. worker' \in [Worker -> Request]
    BY <1>12, FreeType DEF Answer, FetchFails, RequestDies, AnswerIsLost
  <2>2. pending' \in SUBSET Event
    BY <1>12 DEF Answer, FetchFails, AnswerError, RequestDies, AnswerIsLost, shopify
  <2>3. UNCHANGED faults \/ Fault
    BY <1>12 DEF Answer, FetchFails, RequestDies, AnswerIsLost
  <2>4. connected' \in BOOLEAN
    BY <1>12 DEF Answer, FetchFails, RequestDies, AnswerIsLost
  <2>5. faults' \in 0 .. MaxFaults
    BY <2>3, CatalogAssumption DEF Fault
  <2> QED
    BY <1>12, <2>1, <2>2, <2>4, <2>5
    DEF Answer, FetchFails, RequestDies, AnswerIsLost, shopify, catalog
<1>13. CASE (\E w \in Worker : RefuseImport(w)) \/ UNCHANGED vars
  BY <1>13 DEF RefuseImport, vars, shopify, catalog
<1> QED
  BY <1>1, <1>2, <1>3, <1>4, <1>5, <1>6, <1>7, <1>8, <1>9, <1>10, <1>11, <1>12, <1>13
  DEF Next, RequestStep

\* The webhook that has fetched its product is the webhook it was.
LEMMA FetchKeepsEvent ==
  ASSUME TypeOK, RequestsSound, NEW w \in Worker, FetchProduct(w)
  PROVE  /\ worker[w].event # None
         /\ worker'[w].pc \in {"fetched", "row"}
         /\ worker'[w].event = worker[w].event
         /\ worker'[w].found \in {worker[w].found, {worker[w].event.product}}
<1>1. worker[w] \in Request /\ worker[w].event # None
  BY DEF FetchProduct, RequestsSound, TypeOK
<1>2. CASE stage[worker[w].event.product] = "there"
  <2>1. worker'[w] = [worker[w] EXCEPT
          !.pc = "fetched", !.found = {worker[w].event.product},
          !.fetched[worker[w].event.product] = content[worker[w].event.product]]
    BY <1>2 DEF FetchProduct, TypeOK
  <2>2. /\ worker'[w].pc = "fetched" /\ worker'[w].event = worker[w].event
        /\ worker'[w].found = {worker[w].event.product}
    BY <1>1, <2>1 DEF Request
  <2> QED
    BY <1>1, <2>2
<1>3. CASE stage[worker[w].event.product] # "there"
  <2>1. worker' = [worker EXCEPT ![w].pc = "row"]
    BY <1>3 DEF FetchProduct, Goto
  <2> QED
    BY <1>1, <2>1 DEF Request, TypeOK
<1> QED
  BY <1>2, <1>3

\* Every step keeps the requests sound.
LEMMA SoundStep == TypeOK /\ RequestsSound /\ [Next]_vars => RequestsSound'
<1> SUFFICES ASSUME TypeOK, RequestsSound, [Next]_vars
             PROVE  RequestsSound'
  OBVIOUS
<1> USE DEF RequestsSound
<1>1. CASE UNCHANGED worker
  BY <1>1
<1>2. ASSUME NEW w \in Worker, NEW e \in Event, Deliver(w, e)
      PROVE  RequestsSound'
  BY <1>2, CatalogAssumption DEF Deliver, Begin, Free, TypeOK
<1>3. ASSUME NEW w \in Worker, StartImport(w)
      PROVE  RequestsSound'
  BY <1>3 DEF StartImport, Begin, Free, TypeOK
<1>4. ASSUME NEW w \in Worker, FetchProduct(w)
      PROVE  RequestsSound'
  <2>1. \A v \in Worker \ {w} : worker'[v] = worker[v]
    BY <1>4 DEF FetchProduct, Goto, TypeOK
  <2> QED
    BY <1>4, <2>1, FetchKeepsEvent
<1>5. ASSUME NEW w \in Worker, FetchPage(w)
      PROVE  RequestsSound'
  <2>1. \A v \in Worker \ {w} : worker'[v] = worker[v]
    BY <1>5 DEF FetchPage, TypeOK
  <2>2. /\ worker'[w].pc \in {"pages", "fetched"}
        /\ worker'[w].event = worker[w].event /\ worker[w].event = None
    BY ZenonT(60), <1>5 DEF FetchPage, TypeOK, Request
  <2> QED
    BY <2>1, <2>2
<1>6. ASSUME NEW w \in Worker, ReadExisting(w)
      PROVE  RequestsSound'
  BY <1>6 DEF ReadExisting, TypeOK, Request
<1>7. ASSUME NEW w \in Worker, WriteProducts(w)
      PROVE  RequestsSound'
  BY <1>7 DEF WriteProducts, Free, TypeOK
<1>8. ASSUME NEW w \in Worker, DeleteRow(w) \/ DeleteVariants(w) \/ DeleteMedia(w)
      PROVE  RequestsSound'
  <2>1. PICK next \in {"variants", "media", "flag"} : Goto(w, next)
    BY <1>8 DEF DeleteRow, DeleteVariants, DeleteMedia, DeleteChildren
  <2>2. worker[w] \in Request /\ worker[w].event # None
    BY <1>8 DEF DeleteRow, DeleteVariants, DeleteMedia, DeleteChildren, TypeOK
  <2>3. worker'[w] = [worker[w] EXCEPT !.pc = next] /\ \A v \in Worker \ {w} : worker'[v] = worker[v]
    BY <2>1 DEF Goto, TypeOK
  <2> QED
    BY <2>2, <2>3 DEF Request
<1>9. ASSUME NEW w \in Worker,
             WriteConflicts(w) \/ Answer(w) \/ FetchFails(w) \/ RequestDies(w) \/ AnswerIsLost(w)
      PROVE  RequestsSound'
  BY <1>9 DEF WriteConflicts, Answer, FetchFails, RequestDies, AnswerIsLost, Free, TypeOK
<1> QED
  BY <1>1, <1>2, <1>3, <1>4, <1>5, <1>6, <1>7, <1>8, <1>9
  DEF Next, RequestStep, DeleteProduct, ChangeProduct, Emit, RefuseImport, vars

\* A request that goes on concerns what it did; one that ends concerns nothing.
LEMMA StillConcerned ==
  ASSUME TypeOK, RequestsSound, NEW w \in Worker,
         RequestStep(w) \/ FetchFails(w) \/ RequestDies(w) \/ AnswerIsLost(w)
  PROVE  /\ UNCHANGED overlapped
         /\ \A v \in Worker : Concerns(worker'[v]) \subseteq Concerns(worker[v])
         /\ \A v \in Worker \ {w} : worker'[v] = worker[v]
<1>1. UNCHANGED overlapped /\ worker[w].pc # "free"
  BY DEF RequestStep, FetchProduct, FetchPage, ReadExisting, WriteProducts, WriteConflicts,
         DeleteRow, DeleteVariants, DeleteMedia, DeleteChildren, Answer, FetchFails, RequestDies,
         AnswerIsLost
<1>2. \A v \in Worker \ {w} : worker'[v] = worker[v]
  BY DEF RequestStep, FetchProduct, FetchPage, ReadExisting, WriteProducts, WriteConflicts,
         DeleteRow, DeleteVariants, DeleteMedia, DeleteChildren, Goto, Answer, FetchFails,
         RequestDies, AnswerIsLost, TypeOK
<1>3. worker'[w].event = worker[w].event \/ worker'[w] = Free
  <2>1. CASE FetchProduct(w)
    BY <2>1, FetchKeepsEvent
  <2>2. CASE FetchPage(w)
    BY <2>2 DEF FetchPage, TypeOK, Request
  <2>3. CASE ReadExisting(w) \/ DeleteRow(w) \/ DeleteVariants(w) \/ DeleteMedia(w)
    BY <2>3 DEF ReadExisting, DeleteRow, DeleteVariants, DeleteMedia, DeleteChildren, Goto, TypeOK,
                Request
  <2>4. CASE WriteProducts(w)
    BY <2>4 DEF WriteProducts, TypeOK, Free
  <2>5. CASE WriteConflicts(w) \/ Answer(w) \/ FetchFails(w) \/ RequestDies(w) \/ AnswerIsLost(w)
    BY <2>5 DEF WriteConflicts, Answer, FetchFails, RequestDies, AnswerIsLost, TypeOK
  <2> QED
    BY <2>1, <2>2, <2>3, <2>4, <2>5 DEF RequestStep
<1>4. Concerns(worker'[w]) \subseteq Concerns(worker[w])
  <2>1. CASE worker'[w].event = worker[w].event
    BY <1>1, <2>1 DEF Concerns, IsImport
  <2>2. CASE worker'[w] = Free
    BY <2>2 DEF Concerns, Free
  <2> QED
    BY <1>3, <2>1, <2>2
<1> QED
  BY <1>1, <1>2, <1>4

\* A request that begins marks the products others are at as overlapped; the others keep to theirs.
LEMMA AloneStep == TypeOK /\ RequestsSound /\ Alone /\ [Next]_vars => Alone'
<1> SUFFICES ASSUME TypeOK, RequestsSound, Alone, [Next]_vars
             PROVE  Alone'
  OBVIOUS
<1>1. CASE UNCHANGED <<worker, overlapped>>
  BY <1>1 DEF Alone
<1>2. ASSUME NEW w \in Worker, NEW j, Begin(w, j)
      PROVE  Alone'
  <2> SUFFICES ASSUME NEW p \in Product \ overlapped', NEW u \in Worker, NEW v \in Worker,
                      p \in Concerns(worker'[u]), p \in Concerns(worker'[v])
               PROVE  u = v
    BY DEF Alone
  <2>1. worker'[w] = j /\ \A x \in Worker \ {w} : worker'[x] = worker[x]
    BY <1>2 DEF Begin, TypeOK
  <2>2. p \notin overlapped /\ ~(p \in Concerns(j) /\ \E x \in Worker : p \in Concerns(worker[x]))
    BY <1>2 DEF Begin
  <2>3. CASE u # w /\ v # w
    BY <2>1, <2>2, <2>3 DEF Alone
  <2>4. CASE u = w \/ v = w
    BY <2>1, <2>2, <2>4
  <2> QED
    BY <2>3, <2>4
<1>3. ASSUME NEW w \in Worker,
             RequestStep(w) \/ FetchFails(w) \/ RequestDies(w) \/ AnswerIsLost(w)
      PROVE  Alone'
  <2>1. /\ UNCHANGED overlapped
        /\ \A v \in Worker : Concerns(worker'[v]) \subseteq Concerns(worker[v])
    BY <1>3, StillConcerned
  <2> QED
    BY <2>1 DEF Alone
<1> QED
  BY <1>1, <1>2, <1>3
  DEF Next, DeleteProduct, ChangeProduct, Emit, Deliver, StartImport, RefuseImport, vars

\* The requests in the hands of others do not concern p, nor does a new one.
LEMMA HandsOff ==
  ASSUME Alone, NEW p \in Product \ overlapped, NEW w \in Worker, p \in Concerns(worker[w])
  PROVE  \A v \in Worker \ {w} : p \notin Concerns(worker[v])
  BY DEF Alone

\* A webhook concerns its product, from the delivery to the answer.
LEMMA WebhookConcerns ==
  ASSUME TypeOK, NEW w \in Worker, worker[w].pc # "free", worker[w].event # None
  PROVE  /\ worker[w].event \in Event /\ worker[w].event.product \in Product
         /\ Concerns(worker[w]) = {worker[w].event.product}
<1>1. worker[w].event \in Event /\ worker[w].event.product \in Product
  BY DEF TypeOK, Request, Event
<1> QED
  BY <1>1 DEF Concerns, IsImport

\* What WriteProducts makes of a product that it concerns, and of the others.
LEMMA Written ==
  ASSUME TypeOK, RequestsSound, NEW w \in Worker, WriteProducts(w), NEW p \in Product
  PROVE  /\ p \in worker[w].found =>
              /\ row'[p] = "live" /\ p \in Concerns(worker[w])
              /\ shown'[p] = worker[w].fetched[p] /\ children'[p] = ChildrenOf(worker[w].fetched[p])
         /\ p \notin worker[w].found /\ IsImport(worker[w]) =>
              /\ row'[p] # "live"
         /\ p \notin worker[w].found =>
              /\ row'[p] \in {row[p], "deleted"}
              /\ row'[p] = "live" => shown'[p] = shown[p] /\ children'[p] = children[p]
         /\ p \notin Concerns(worker[w]) =>
              row'[p] = row[p] /\ shown'[p] = shown[p] /\ children'[p] = children[p]
<1>1. /\ row' = [q \in Product |-> IF q \in worker[w].found THEN "live"
                                   ELSE IF q \in Stale(w) THEN "deleted" ELSE row[q]]
      /\ shown' = [q \in Product |->
                     IF q \in worker[w].found THEN worker[w].fetched[q] ELSE shown[q]]
      /\ children' = [q \in Product |->
                     IF q \in worker[w].found THEN ChildrenOf(worker[w].fetched[q])
                     ELSE IF q \in Stale(w) THEN {} ELSE children[q]]
  BY DEF WriteProducts, SyncChildren
<1>2. Stale(w) = IF IsImport(worker[w])
                   THEN {q \in Product \ worker[w].found : row[q] = "live"} ELSE {}
  BY DEF Stale
<1>3. p \in worker[w].found => p \in Concerns(worker[w])
  BY DEF WriteProducts, RequestsSound, Concerns, IsImport
<1>4. p \notin Concerns(worker[w]) => ~IsImport(worker[w])
  BY DEF WriteProducts, Concerns
<1> QED
  BY <1>1, <1>2, <1>3, <1>4

\* Nobody else writes the row of a delete that is under way.
LEMMA DeletesStep == TypeOK /\ RequestsSound /\ Alone /\ DeletesLast /\ [Next]_vars => DeletesLast'
<1> SUFFICES ASSUME TypeOK, RequestsSound, Alone, DeletesLast, [Next]_vars
             PROVE  DeletesLast'
  OBVIOUS
<1>1. CASE UNCHANGED <<worker, overlapped, row>>
  BY <1>1 DEF DeletesLast
<1>2. ASSUME NEW w \in Worker, NEW j, Begin(w, j), j.pc \notin {"variants", "media"}
      PROVE  DeletesLast'
  BY <1>2 DEF DeletesLast, Begin, catalog, TypeOK
<1>3. ASSUME NEW w \in Worker,
             RequestStep(w) \/ FetchFails(w) \/ RequestDies(w) \/ AnswerIsLost(w),
             NEW v \in Worker, worker'[v].pc \in {"variants", "media"},
             worker'[v].event.product \notin overlapped'
      PROVE  row'[worker'[v].event.product] = "deleted"
  <2>1. UNCHANGED overlapped /\ \A x \in Worker \ {w} : worker'[x] = worker[x]
    BY <1>3, StillConcerned
  <2>2. CASE v = w
    <3>1. DeleteRow(w) \/ DeleteVariants(w)
      <4>1. CASE FetchProduct(w)
        BY <1>3, <2>2, <4>1, FetchKeepsEvent
      <4>2. CASE FetchPage(w)
        BY ZenonT(60), <1>3, <2>2, <4>2 DEF FetchPage, TypeOK, Request
      <4>3. CASE ReadExisting(w)
        BY <1>3, <2>2, <4>3 DEF ReadExisting, TypeOK, Request
      <4>5. CASE WriteProducts(w)
        BY <1>3, <2>2, <4>5 DEF WriteProducts, Free, TypeOK
      <4>6. CASE DeleteMedia(w)
        BY <1>3, <2>2, <4>6 DEF DeleteMedia, DeleteChildren, Goto, TypeOK, Request
      <4>4. CASE WriteConflicts(w) \/ Answer(w) \/ FetchFails(w) \/ RequestDies(w) \/ AnswerIsLost(w)
        BY <1>3, <2>2, <4>4 DEF WriteConflicts, Answer, FetchFails, RequestDies, AnswerIsLost, Free,
                                TypeOK
      <4> QED
        BY <1>3, <4>1, <4>2, <4>3, <4>4, <4>5, <4>6 DEF RequestStep
    <3>2. worker[w].event \in Event /\ worker'[w].event = worker[w].event
      BY <3>1 DEF DeleteRow, DeleteVariants, DeleteChildren, Goto, RequestsSound, TypeOK, Request
    <3>3. CASE DeleteRow(w)
      BY <1>3, <2>2, <3>2, <3>3 DEF DeleteRow, Goto, TypeOK, Request, Event
    <3>4. CASE DeleteVariants(w)
      BY <1>3, <2>1, <2>2, <3>2, <3>4 DEF DeleteVariants, DeleteChildren, DeletesLast
    <3> QED
      BY <3>1, <3>3, <3>4
  <2>3. CASE v # w
    <3> DEFINE p == worker[v].event.product
    <3>1. /\ worker'[v] = worker[v] /\ row[p] = "deleted"
          /\ p \in Product \ overlapped /\ p \in Concerns(worker[v])
      BY <1>3, <2>1, <2>3, WebhookConcerns DEF DeletesLast, RequestsSound
    <3>2. p \notin Concerns(worker[w])
      BY <2>3, <3>1, HandsOff
    <3>3. row'[p] = row[p]
      <4>1. CASE WriteProducts(w)
        BY <3>1, <3>2, <4>1, Written
      <4>2. CASE DeleteRow(w)
        BY <3>1, <4>2 DEF DeleteRow, TypeOK
      <4>3. CASE ~WriteProducts(w) /\ ~DeleteRow(w)
        BY <1>3, <4>3 DEF RequestStep, FetchProduct, FetchPage, ReadExisting, WriteConflicts,
          DeleteVariants, DeleteMedia, DeleteChildren, Answer, FetchFails, RequestDies,
          AnswerIsLost, catalog
      <4> QED
        BY <4>1, <4>2, <4>3
    <3> QED
      BY <3>1, <3>3
  <2> QED
    BY <2>2, <2>3
<1>4. ASSUME NEW w \in Worker, NEW e \in Event, Deliver(w, e)
      PROVE  DeletesLast'
  BY <1>2, <1>4 DEF Deliver, Free
<1>5. ASSUME NEW w \in Worker, StartImport(w)
      PROVE  DeletesLast'
  BY <1>2, <1>5 DEF StartImport, Free
<1>6. ASSUME NEW w \in Worker,
             RequestStep(w) \/ FetchFails(w) \/ RequestDies(w) \/ AnswerIsLost(w)
      PROVE  DeletesLast'
  BY <1>3, <1>6 DEF DeletesLast
<1> QED
  BY <1>1, <1>4, <1>5, <1>6
  DEF Next, DeleteProduct, ChangeProduct, Emit, RefuseImport, vars, catalog

\* A step that writes the copy, seen from a product.
LEMMA CopyChanges ==
  ASSUME TypeOK, RequestsSound, [Next]_vars, NEW p \in Product
  PROVE  \/ UNCHANGED <<row[p], shown[p], children[p]>>
         \/ \E w \in Worker : p \in Concerns(worker[w]) /\
              \/ WriteProducts(w)
              \/ DeleteRow(w) /\ row'[p] = "deleted"
              \/ worker[w].pc \in {"variants", "media"} /\ worker[w].event.product = p
                   /\ UNCHANGED <<row, shown>>
<1>1. ASSUME NEW w \in Worker, WriteProducts(w)
      PROVE  UNCHANGED <<row[p], shown[p], children[p]>> \/ p \in Concerns(worker[w])
  BY <1>1, Written
<1>2. ASSUME NEW w \in Worker, DeleteRow(w)
      PROVE  \/ UNCHANGED <<row[p], shown[p], children[p]>>
             \/ p \in Concerns(worker[w]) /\ row'[p] = "deleted"
  BY <1>2 DEF DeleteRow, Concerns, TypeOK
<1>3. ASSUME NEW w \in Worker, DeleteVariants(w) \/ DeleteMedia(w)
      PROVE  \/ UNCHANGED <<row[p], shown[p], children[p]>>
             \/ /\ p \in Concerns(worker[w])
                /\ worker[w].pc \in {"variants", "media"} /\ worker[w].event.product = p
                /\ UNCHANGED <<row, shown>>
  BY <1>3 DEF DeleteVariants, DeleteMedia, DeleteChildren, Concerns, TypeOK
<1>4. CASE UNCHANGED catalog
  BY <1>4 DEF catalog
<1> QED
  BY <1>1, <1>2, <1>3, <1>4
  DEF Next, RequestStep, DeleteProduct, ChangeProduct, Emit, Deliver, StartImport, Begin,
      RefuseImport, FetchProduct, FetchPage, ReadExisting, WriteConflicts, Answer, FetchFails,
      RequestDies, AnswerIsLost, vars

\* A listed product keeps the payload of one fetch: a commit writes all of it, a delete unlists it first.
LEMMA ListedStep ==
  TypeOK /\ RequestsSound /\ Alone /\ DeletesLast /\ ListedIsOneFetch /\ [Next]_vars
    => ListedIsOneFetch'
<1> SUFFICES ASSUME TypeOK, RequestsSound, Alone, DeletesLast, ListedIsOneFetch, [Next]_vars,
                    NEW p \in Product, row'[p] = "live", p \notin overlapped'
             PROVE  children'[p] = ChildrenOf(shown'[p])
  BY DEF ListedIsOneFetch
<1>1. overlapped \subseteq overlapped'
  BY DEF Next, RequestStep, DeleteProduct, ChangeProduct, Emit, Deliver, StartImport, Begin,
         RefuseImport, FetchProduct, FetchPage, ReadExisting, WriteProducts, WriteConflicts,
         DeleteRow, DeleteVariants, DeleteMedia, DeleteChildren, Answer, FetchFails, RequestDies,
         AnswerIsLost, vars
<1>2. row[p] = "live" => children[p] = ChildrenOf(shown[p])
  BY <1>1 DEF ListedIsOneFetch
<1>3. CASE UNCHANGED <<row[p], shown[p], children[p]>>
  BY <1>2, <1>3
<1>4. ASSUME NEW w \in Worker, WriteProducts(w)
      PROVE  children'[p] = ChildrenOf(shown'[p])
  BY <1>2, <1>4, Written
<1>5. ASSUME NEW w \in Worker, worker[w].pc \in {"variants", "media"},
             worker[w].event.product = p, UNCHANGED <<row, shown>>
      PROVE  children'[p] = ChildrenOf(shown'[p])
  BY <1>1, <1>5 DEF DeletesLast
<1> QED
  BY <1>3, <1>4, <1>5, CopyChanges

\* Every step keeps the invariant of the listing.
LEMMA IInvStep == IInv /\ [Next]_vars => IInv'
  BY TypeStep, SoundStep, AloneStep, DeletesStep, ListedStep DEF IInv

\* The invariant of the listing holds in every reachable state.
LEMMA Inductive == Spec => []IInv
  BY InitIInv, IInvStep, PTL DEF Spec

\* The rows, requests and events of the catalogue keep their types.
THEOREM CatalogTypes == Spec => []TypeOK
<1>1. IInv => TypeOK
  BY DEF IInv
<1> QED
  BY <1>1, Inductive, PTL

\* A product no two requests have handled at once is listed from one fetch, for
\* any number of products, children, workers and faults: the transaction writes
\* the row with its children, and a deleted row keeps the unfinished delete of
\* its children out of sight.
THEOREM ListedFromOneFetch == Spec => []ListedIsOneFetch
<1>1. IInv => ListedIsOneFetch
  BY DEF IInv
<1> QED
  BY <1>1, Inductive, PTL
-----------------------------------------------------------------------------
\* A request is at its end with its work done.
EndsDone ==
  \A w \in Worker : worker[w].pc = "flag" =>
    IF worker[w].event = None THEN imported ELSE worker[w].event.product \in handled

\* At the start no request is at its end, and the flag is not set.
LEMMA InitEndsDone == Init => EndsDone /\ RefusedOnlyOnceHandled
  BY DEF Init, EndsDone, RefusedOnlyOnceHandled, Free

\* What is done stays done.
LEMMA DoneGrows == [Next]_vars => handled \subseteq handled' /\ (imported => imported')
<1> SUFFICES ASSUME [Next]_vars
             PROVE  handled \subseteq handled' /\ (imported => imported')
  OBVIOUS
<1>1. ASSUME NEW w \in Worker, WriteProducts(w)
      PROVE  handled \subseteq handled' /\ (imported => imported')
  BY <1>1 DEF WriteProducts
<1>2. ASSUME NEW w \in Worker, DeleteRow(w) \/ DeleteVariants(w) \/ DeleteMedia(w)
      PROVE  handled \subseteq handled' /\ (imported => imported')
  BY <1>2 DEF DeleteRow, DeleteVariants, DeleteMedia, DeleteChildren
<1>3. CASE UNCHANGED <<handled, imported>>
  BY <1>3
<1> QED
  BY <1>1, <1>2, <1>3
  DEF Next, RequestStep, DeleteProduct, ChangeProduct, Emit, Deliver, StartImport, Begin,
      RefuseImport, FetchProduct, FetchPage, ReadExisting, WriteConflicts, Answer, FetchFails,
      RequestDies, AnswerIsLost, vars, catalog

\* A request comes to its end by the last of its writes.
LEMMA EndsDoneStep == TypeOK /\ RequestsSound /\ EndsDone /\ [Next]_vars => EndsDone'
<1> SUFFICES ASSUME TypeOK, RequestsSound, EndsDone, [Next]_vars,
                    NEW w \in Worker, worker'[w].pc = "flag"
             PROVE  IF worker'[w].event = None THEN imported' ELSE worker'[w].event.product \in handled'
  BY DEF EndsDone
<1>1. handled \subseteq handled' /\ (imported => imported')
  BY DoneGrows
<1>2. CASE worker'[w] = worker[w]
  BY <1>1, <1>2 DEF EndsDone
<1>3. ASSUME NEW v \in Worker, worker'[w] # worker[w],
             \/ StartImport(v) \/ \E e \in Event : Deliver(v, e)
             \/ WriteConflicts(v) \/ Answer(v) \/ FetchFails(v) \/ RequestDies(v) \/ AnswerIsLost(v)
      PROVE  FALSE
  <2>1. CASE StartImport(v) \/ \E e \in Event : Deliver(v, e)
    BY <1>3, <2>1 DEF StartImport, Deliver, Begin, Free, TypeOK
  <2>2. CASE WriteConflicts(v) \/ Answer(v) \/ FetchFails(v) \/ RequestDies(v) \/ AnswerIsLost(v)
    BY <1>3, <2>2 DEF WriteConflicts, Answer, FetchFails, RequestDies, AnswerIsLost, Free, TypeOK
  <2> QED
    BY <1>3, <2>1, <2>2
<1>4. ASSUME NEW v \in Worker, worker'[w] # worker[w],
             FetchProduct(v) \/ FetchPage(v) \/ ReadExisting(v)
      PROVE  FALSE
  <2>1. w = v /\ worker[w] \in Request
    BY <1>4 DEF FetchProduct, FetchPage, ReadExisting, Goto, TypeOK
  <2>2. CASE FetchProduct(w)
    BY <2>2, FetchKeepsEvent
  <2>3. CASE FetchPage(w)
    BY ZenonT(60), <2>3 DEF FetchPage, TypeOK, Request
  <2>4. CASE ReadExisting(w)
    BY <2>1, <2>4 DEF ReadExisting, TypeOK, Request
  <2> QED
    BY <1>4, <2>1, <2>2, <2>3, <2>4
<1>5. ASSUME NEW v \in Worker, worker'[w] # worker[w], WriteProducts(v)
      PROVE  IF worker'[w].event = None THEN imported' ELSE worker'[w].event.product \in handled'
  <2>1. w = v /\ worker'[w] = [Free EXCEPT !.pc = "flag", !.event = worker[w].event]
    BY <1>5 DEF WriteProducts, TypeOK
  <2>2. worker'[w].event = worker[w].event
    BY <2>1 DEF Free
  <2>3. IF worker[w].event = None THEN imported' ELSE handled' = handled \cup {worker[w].event.product}
    BY <1>5, <2>1, Zenon DEF WriteProducts, IsImport
  <2>4. CASE worker[w].event = None
    BY <2>2, <2>3, <2>4
  <2>5. CASE worker[w].event # None
    BY <2>2, <2>3, <2>5
  <2> QED
    BY <2>4, <2>5
<1>6. ASSUME NEW v \in Worker, worker'[w] # worker[w], DeleteRow(v) \/ DeleteVariants(v) \/ DeleteMedia(v)
      PROVE  worker'[w].event # None /\ worker'[w].event.product \in handled'
  <2>1. w = v /\ worker[w] \in Request /\ worker[w].event # None
    BY <1>6 DEF DeleteRow, DeleteVariants, DeleteMedia, DeleteChildren, Goto, RequestsSound, TypeOK
  <2>2. worker'[w].event = worker[w].event
    BY <1>6, <2>1 DEF DeleteRow, DeleteVariants, DeleteMedia, DeleteChildren, Goto, TypeOK, Request
  <2>3. worker[w].event.product \in handled'
    <3>1. CASE DeleteRow(w)
      BY <2>1, <3>1 DEF DeleteRow, Goto, TypeOK, Request
    <3>2. CASE DeleteVariants(w)
      BY <2>1, <3>2 DEF DeleteVariants, DeleteChildren, Goto, TypeOK, Request
    <3>3. CASE DeleteMedia(w)
      BY <3>3 DEF DeleteMedia, DeleteChildren
    <3> QED
      BY <1>6, <2>1, <3>1, <3>2, <3>3
  <2> QED
    BY <2>1, <2>2, <2>3
<1> QED
  BY <1>2, <1>3, <1>4, <1>5, <1>6
  DEF Next, RequestStep, DeleteProduct, ChangeProduct, Emit, RefuseImport, vars

\* The flag is set by a request at its end, whose work is done.
LEMMA RefusedStep ==
  TypeOK /\ EndsDone /\ RefusedOnlyOnceHandled /\ [Next]_vars => RefusedOnlyOnceHandled'
<1> SUFFICES ASSUME TypeOK, EndsDone, RefusedOnlyOnceHandled, [Next]_vars
             PROVE  RefusedOnlyOnceHandled'
  OBVIOUS
<1>1. handled \subseteq handled' /\ (imported => imported')
  BY DoneGrows
<1>2. CASE UNCHANGED connected
  BY <1>1, <1>2 DEF RefusedOnlyOnceHandled
<1>3. ASSUME NEW w \in Worker, worker[w].pc = "flag"
      PROVE  imported \/ handled # {}
  BY <1>3 DEF EndsDone
<1>4. CASE \E w \in Worker : Answer(w) \/ AnswerIsLost(w)
  BY <1>1, <1>3, <1>4 DEF Answer, AnswerIsLost, RefusedOnlyOnceHandled
<1> QED
  BY <1>2, <1>4
  DEF Next, RequestStep, DeleteProduct, ChangeProduct, Emit, Deliver, StartImport, Begin,
      RefuseImport, FetchProduct, FetchPage, ReadExisting, WriteProducts, WriteConflicts,
      DeleteRow, DeleteVariants, DeleteMedia, DeleteChildren, FetchFails, RequestDies, vars

\* An import that failed or was interrupted may be repeated: the flag that refuses the
\* next one is set only by a request that wrote its import, or by a webhook at the end
\* of its work.
THEOREM RefusedOnceHandled == Spec => []RefusedOnlyOnceHandled
<1> DEFINE Done == TypeOK /\ RequestsSound /\ EndsDone /\ RefusedOnlyOnceHandled
<1>1. Init => Done
  BY InitIInv, InitEndsDone DEF IInv
<1>2. Done /\ [Next]_vars => Done'
  BY TypeStep, SoundStep, EndsDoneStep, RefusedStep
<1>3. Done => RefusedOnlyOnceHandled
  OBVIOUS
<1> QED
  BY <1>1, <1>2, <1>3, PTL DEF Spec
-----------------------------------------------------------------------------
(* What is under way for a product *)

PendingFor(p) == {e \in pending : e.product = p}

\* A delete event is of a product that is gone for good, and the event of a webhook
\* stays pending until it is answered.
EventsSound ==
  /\ \A e \in pending : /\ e.change <= changes /\ e.product \in noticed
                        /\ e.topic = "delete" => stage[e.product] = "gone"
  /\ \A w \in Worker : LET e == worker[w].event IN
       /\ worker[w].pc = "free" => e = None
       /\ e # None /\ e.product \notin overlapped => e \in pending

\* What import j has fetched of p is what Shopify has.
Current(j, p) ==
  IF Offered(p) THEN p \in j.found /\ j.fetched[p] = content[p] ELSE p \notin j.found

\* What webhook j has fetched of p is what Shopify has, active or not.
Fetched(j, p) == stage[p] = "there" /\ p \in j.found /\ j.fetched[p] = content[p]

\* An import has fetched the pages before the one it is at; what it has fetched of a
\* product is current, or an event says that it is not.
ImportKnows(j) ==
  /\ j.pc = "pages" => \A p \in j.found : PageOf[p] < j.page
  /\ \A p \in Product \ overlapped :
       /\ PendingFor(p) = {}
       /\ j.pc \in {"fetched", "write"} \/ (j.pc = "pages" /\ PageOf[p] < j.page)
       => Current(j, p)

\* So it is with a webhook, of the events beside its own.
WebhookKnows(j) ==
  LET p == j.event.product IN
  p \notin overlapped /\ PendingFor(p) \subseteq {j.event} =>
    /\ j.pc \in {"fetched", "write"} => Fetched(j, p)
    /\ j.pc \in {"row", "variants", "media"} => stage[p] # "there"
    /\ j.pc = "flag" => Mirrored(p)

RequestsKnow ==
  \A w \in Worker :
    IF IsImport(worker[w]) THEN ImportKnows(worker[w]) ELSE WebhookKnows(worker[w])

\* An import that has not written yet.
Importing(j) == IsImport(j) /\ j.pc \in {"pages", "fetched", "write"}

\* Once a webhook of a product is answered no import writes any more: connect_products
\* refuses the next, and one that is under way has met the webhook.
NewsEndsImports ==
  \A p \in noticed \ overlapped :
    PendingFor(p) = {} => connected /\ \A w \in Worker : ~Importing(worker[w])

\* The copy of a product is what Shopify has, of a draft if a webhook has told of it.
Shown(p) == IF p \in noticed \/ Offered(p) THEN Mirrored(p) ELSE row[p] # "live"

\* Where no event is pending it is so, also while an import runs.
CopyCurrent ==
  \A p \in Product \ overlapped :
    PendingFor(p) = {} /\ (p \in noticed \/ imported) => Shown(p)

\* The invariant of the mirror.
Knows ==
  TypeOK /\ RequestsSound /\ Alone /\ DeletesLast /\ EventsSound /\ NewsEndsImports /\ RequestsKnow

\* At the start nothing is pending, fetched or copied.
LEMMA MirrorInit ==
  Init => EventsSound /\ NewsEndsImports /\ RequestsKnow /\ CopyCurrent
<1> SUFFICES ASSUME Init
             PROVE  EventsSound /\ NewsEndsImports /\ RequestsKnow /\ CopyCurrent
  OBVIOUS
<1>1. \A w \in Worker : worker[w] = Free
  BY DEF Init
<1>2. EventsSound
  BY <1>1 DEF Init, EventsSound, Free
<1>3. RequestsKnow
  BY <1>1 DEF RequestsKnow, ImportKnows, IsImport, Free
<1>4. NewsEndsImports
  BY DEF Init, NewsEndsImports
<1>5. CopyCurrent
  BY DEF Init, CopyCurrent
<1> QED
  BY <1>2, <1>3, <1>4, <1>5

\* What two requests have handled at once stays so.
LEMMA OverlappedGrows ==
  ASSUME [Next]_vars
  PROVE  overlapped \subseteq overlapped'
BY DEF Next, RequestStep, DeleteProduct, ChangeProduct, Emit, Deliver, StartImport, Begin,
       RefuseImport, FetchProduct, FetchPage, ReadExisting, WriteProducts, WriteConflicts,
       DeleteRow, DeleteVariants, DeleteMedia, DeleteChildren, Answer, FetchFails, RequestDies,
       AnswerIsLost, vars

\* A request that is being answered takes one event away.
Answered(p) == \E w \in Worker : Answer(w) /\ worker[w].event # None /\ worker[w].event.product = p

\* A product changes at Shopify with an event of its own; else only an answer takes an
\* event of it away.
LEMMA ProductMoves ==
  ASSUME TypeOK, [Next]_vars, NEW p \in Product
  PROVE  \/ /\ stage'[p] = stage[p] /\ content'[p] = content[p] /\ changes <= changes'
            /\ (p \in noticed' <=> p \in noticed)
            /\ \/ PendingFor(p)' = PendingFor(p)
               \/ /\ Answered(p) /\ PendingFor(p)' \subseteq PendingFor(p)
                  /\ UNCHANGED <<row, shown, children, imported>>
         \/ /\ \E e \in PendingFor(p)' : e.change > changes
            /\ PendingFor(p) \subseteq PendingFor(p)'
            /\ UNCHANGED <<worker, overlapped>>
<1>0. stage \in [Product -> {"before", "there", "gone"}] /\ content \in [Product -> Content]
      /\ changes \in Nat
  BY DEF TypeOK
<1>1. ASSUME NEW q \in Product, NEW t \in {"sync", "delete"}, Emit(q, t),
             \A r \in Product \ {q} : stage'[r] = stage[r] /\ content'[r] = content[r]
      PROVE  \/ /\ stage'[p] = stage[p] /\ content'[p] = content[p] /\ changes <= changes'
                /\ (p \in noticed' <=> p \in noticed)
                /\ PendingFor(p)' = PendingFor(p)
             \/ /\ \E e \in PendingFor(p)' : e.change > changes
                /\ PendingFor(p) \subseteq PendingFor(p)'
                /\ UNCHANGED <<worker, overlapped>>
  <2> DEFINE n == [product |-> q, topic |-> t, change |-> changes + 1]
  <2>1. pending' = pending \cup {n} /\ noticed' = noticed \cup {q} /\ changes' = changes + 1
        /\ UNCHANGED <<worker, overlapped>>
    BY <1>1 DEF Emit
  <2>2. n.product = q /\ n.change = changes + 1
    OBVIOUS
  <2>3. changes + 1 > changes /\ changes <= changes + 1
    BY <1>0
  <2> HIDE DEF n
  <2>4. CASE p = q
    <3>1. n \in PendingFor(p)' /\ n.change > changes /\ PendingFor(p) \subseteq PendingFor(p)'
      BY <2>1, <2>2, <2>3, <2>4 DEF PendingFor
    <3> QED
      BY <2>1, <3>1
  <2>5. CASE p # q
    BY <1>1, <2>1, <2>2, <2>3, <2>5 DEF PendingFor
  <2> QED
    BY <2>4, <2>5
<1>2. ASSUME NEW q \in Product, \/ DeleteProduct(q)
                                \/ \E c \in Content : ChangeProduct(q, c)
      PROVE  /\ \E t \in {"sync", "delete"} : Emit(q, t)
             /\ \A r \in Product \ {q} : stage'[r] = stage[r] /\ content'[r] = content[r]
  BY <1>0, <1>2 DEF DeleteProduct, ChangeProduct
<1>3. ASSUME UNCHANGED <<stage, content, changes, noticed, pending>>
      PROVE  /\ stage'[p] = stage[p] /\ content'[p] = content[p] /\ changes <= changes'
             /\ (p \in noticed' <=> p \in noticed) /\ PendingFor(p)' = PendingFor(p)
  BY <1>0, <1>3 DEF PendingFor
<1>4. ASSUME NEW w \in Worker, Answer(w)
      PROVE  /\ stage'[p] = stage[p] /\ content'[p] = content[p] /\ changes <= changes'
             /\ (p \in noticed' <=> p \in noticed)
             /\ \/ PendingFor(p)' = PendingFor(p)
                \/ /\ Answered(p) /\ PendingFor(p)' \subseteq PendingFor(p)
                   /\ UNCHANGED <<row, shown, children, imported>>
  <2>1. /\ UNCHANGED <<stage, content, changes, noticed, row, shown, children, imported>>
        /\ pending' = pending \ {worker[w].event}
    BY <1>4 DEF Answer, catalog
  <2>2. CASE worker[w].event # None /\ worker[w].event.product = p
    BY <1>0, <1>4, <2>1, <2>2 DEF PendingFor, Answered
  <2>3. CASE worker[w].event # None /\ worker[w].event.product # p
    BY <1>0, <2>1, <2>3 DEF PendingFor
  <2>4. CASE worker[w].event = None
    <3>1. None \notin pending
      BY CatalogAssumption DEF TypeOK
    <3> QED
      BY <1>0, <2>1, <2>4, <3>1 DEF PendingFor
  <2> QED
    BY <2>2, <2>3, <2>4
<1>5. ASSUME NEW w \in Worker,
             \/ \E e \in Event : Deliver(w, e)
             \/ StartImport(w) \/ RefuseImport(w)
             \/ RequestStep(w) /\ ~Answer(w)
             \/ FetchFails(w) \/ RequestDies(w) \/ AnswerIsLost(w)
      PROVE  UNCHANGED <<stage, content, changes, noticed, pending>>
  BY <1>5 DEF Deliver, StartImport, Begin, RefuseImport, RequestStep, FetchProduct, FetchPage,
              ReadExisting, WriteProducts, WriteConflicts, DeleteRow, DeleteVariants, DeleteMedia,
              DeleteChildren, FetchFails, AnswerError, RequestDies, AnswerIsLost, shopify, vars
<1>6. CASE UNCHANGED vars
  BY <1>3, <1>6 DEF vars, shopify
<1>7. CASE Next
  <2>1. ASSUME NEW q \in Product, DeleteProduct(q) \/ \E c \in Content : ChangeProduct(q, c)
        PROVE  \/ /\ stage'[p] = stage[p] /\ content'[p] = content[p] /\ changes <= changes'
                  /\ (p \in noticed' <=> p \in noticed)
                  /\ PendingFor(p)' = PendingFor(p)
               \/ /\ \E e \in PendingFor(p)' : e.change > changes
                  /\ PendingFor(p) \subseteq PendingFor(p)'
                  /\ UNCHANGED <<worker, overlapped>>
    BY <1>1, <1>2, <2>1
  <2>2. ASSUME NEW w \in Worker,
               \/ \E e \in Event : Deliver(w, e)
               \/ StartImport(w) \/ RefuseImport(w) \/ RequestStep(w)
               \/ FetchFails(w) \/ RequestDies(w) \/ AnswerIsLost(w)
        PROVE  \/ Answer(w)
               \/ UNCHANGED <<stage, content, changes, noticed, pending>>
    BY <1>5, <2>2
  <2> QED
    BY <1>3, <1>4, <1>7, <2>1, <2>2 DEF Next
<1> QED
  BY <1>6, <1>7

\* A worker only moves by its own request; it drops its event or keeps it.
LEMMA WorkerMoves ==
  ASSUME TypeOK, RequestsSound, [Next]_vars, NEW w \in Worker
  PROVE  \/ worker'[w] = worker[w]
         \/ StartImport(w) /\ worker'[w] = [Free EXCEPT !.pc = "pages"]
         \/ \E e \in pending : /\ e \in Event /\ worker'[w].event = e
                               /\ worker'[w].pc = (IF e.topic = "sync" THEN "fetch" ELSE "row")
         \/ worker'[w] = Free
         \/ /\ worker'[w].event = worker[w].event
            /\ \/ FetchProduct(w) \/ FetchPage(w) \/ ReadExisting(w) \/ WriteProducts(w)
               \/ DeleteRow(w) \/ DeleteVariants(w) \/ DeleteMedia(w)
<1>0. worker \in [Worker -> Request] /\ worker[w] \in Request
  BY DEF TypeOK
<1>1. CASE UNCHANGED worker
  BY <1>1
<1>2. ASSUME NEW e \in Event, Deliver(w, e)
      PROVE  /\ e \in pending /\ worker'[w].event = e
             /\ worker'[w].pc = (IF e.topic = "sync" THEN "fetch" ELSE "row")
  <2> DEFINE j == [Free EXCEPT !.pc = IF e.topic = "sync" THEN "fetch" ELSE "row", !.event = e]
  <2>1. j.event = e /\ j.pc = (IF e.topic = "sync" THEN "fetch" ELSE "row")
    BY DEF Free
  <2>2. e \in pending /\ worker' = [worker EXCEPT ![w] = j]
    BY <1>2 DEF Deliver, Begin
  <2> HIDE DEF j
  <2> QED
    BY <1>0, <2>1, <2>2
<1>3. ASSUME StartImport(w)
      PROVE  worker'[w] = [Free EXCEPT !.pc = "pages"]
  BY <1>0, <1>3 DEF StartImport, Begin
<1>4. ASSUME Answer(w) \/ FetchFails(w) \/ RequestDies(w) \/ AnswerIsLost(w) \/ WriteConflicts(w)
      PROVE  worker'[w] = Free
  BY <1>0, <1>4 DEF Answer, FetchFails, RequestDies, AnswerIsLost, WriteConflicts
<1>5. ASSUME FetchProduct(w)
      PROVE  worker'[w].event = worker[w].event
  BY <1>5, FetchKeepsEvent
<1>6. ASSUME FetchPage(w) \/ ReadExisting(w)
      PROVE  worker'[w].event = worker[w].event
  <2>1. CASE FetchPage(w)
    BY <2>1 DEF FetchPage, TypeOK, Request
  <2>2. CASE ReadExisting(w)
    BY <2>2 DEF ReadExisting, TypeOK, Request
  <2> QED
    BY <1>6, <2>1, <2>2
<1>7. ASSUME WriteProducts(w)
      PROVE  worker'[w].event = worker[w].event
  <2>1. worker'[w] = [Free EXCEPT !.pc = "flag", !.event = worker[w].event]
    BY <1>0, <1>7 DEF WriteProducts
  <2> QED
    BY <2>1 DEF Free
<1>8. ASSUME DeleteRow(w) \/ DeleteVariants(w) \/ DeleteMedia(w)
      PROVE  worker'[w].event = worker[w].event
  BY <1>0, <1>8 DEF DeleteRow, DeleteVariants, DeleteMedia, DeleteChildren, Goto, Request
<1>9. ASSUME NEW v \in Worker,
             \/ \E e \in Event : Deliver(v, e)
             \/ StartImport(v) \/ RequestStep(v)
             \/ FetchFails(v) \/ RequestDies(v) \/ AnswerIsLost(v), v # w
      PROVE  worker'[w] = worker[w]
  <2>1. CASE RequestStep(v) \/ FetchFails(v) \/ RequestDies(v) \/ AnswerIsLost(v)
    BY <1>9, <2>1, StillConcerned
  <2>2. CASE StartImport(v) \/ \E e \in Event : Deliver(v, e)
    BY <1>0, <1>9, <2>2 DEF StartImport, Deliver, Begin
  <2> QED
    BY <1>9, <2>1, <2>2
<1>10. ASSUME \/ \E p \in Product : DeleteProduct(p) \/ \E c \in Content : ChangeProduct(p, c)
              \/ \E v \in Worker : RefuseImport(v)
              \/ UNCHANGED vars
       PROVE  UNCHANGED worker
  BY <1>10 DEF DeleteProduct, ChangeProduct, Emit, RefuseImport, vars
<1>11. ASSUME \/ \E e \in Event : Deliver(w, e)
              \/ StartImport(w) \/ RequestStep(w)
              \/ FetchFails(w) \/ RequestDies(w) \/ AnswerIsLost(w)
       PROVE  \/ StartImport(w) /\ worker'[w] = [Free EXCEPT !.pc = "pages"]
              \/ \E e \in pending : /\ e \in Event /\ worker'[w].event = e
                                    /\ worker'[w].pc = (IF e.topic = "sync" THEN "fetch" ELSE "row")
              \/ worker'[w] = Free
              \/ /\ worker'[w].event = worker[w].event
                 /\ \/ FetchProduct(w) \/ FetchPage(w) \/ ReadExisting(w) \/ WriteProducts(w)
                    \/ DeleteRow(w) \/ DeleteVariants(w) \/ DeleteMedia(w)
  BY <1>2, <1>3, <1>4, <1>5, <1>6, <1>7, <1>8, <1>11 DEF RequestStep
<1> QED
  BY <1>1, <1>9, <1>10, <1>11 DEF Next

\* A product in the hands of one request is not answered for by another.
LEMMA NotAnswered ==
  ASSUME TypeOK, RequestsSound, Alone, NEW w \in Worker, NEW p \in Product \ overlapped,
         p \in Concerns(worker[w]), Answered(p)
  PROVE  Answer(w) /\ worker'[w] = Free /\ worker[w].event # None
<1>1. PICK v \in Worker : Answer(v) /\ worker[v].event # None /\ worker[v].event.product = p
  BY DEF Answered
<1>2. p \in Concerns(worker[v])
  BY <1>1 DEF Concerns, Answer
<1>3. v = w
  BY <1>2, HandsOff
<1> QED
  BY <1>1, <1>3 DEF Answer, TypeOK

\* Deletes are final, and an event that is worked on stays pending.
LEMMA EventsStep ==
  ASSUME TypeOK, RequestsSound, Alone, EventsSound, [Next]_vars
  PROVE  EventsSound'
<1>0. stage \in [Product -> {"before", "there", "gone"}] /\ pending \in SUBSET Event /\ changes \in Nat
  BY DEF TypeOK
<1>1. ASSUME NEW e \in pending'
      PROVE  /\ e.change <= changes' /\ e.product \in noticed'
             /\ e.topic = "delete" => stage'[e.product] = "gone"
  <2>1. CASE pending' \subseteq pending /\ UNCHANGED <<stage, changes, noticed>>
    BY <1>1, <2>1 DEF EventsSound
  <2>2. ASSUME NEW q \in Product, DeleteProduct(q) \/ \E c \in Content : ChangeProduct(q, c)
        PROVE  /\ e.change <= changes' /\ e.product \in noticed'
               /\ e.topic = "delete" => stage'[e.product] = "gone"
    <3>1. PICK t \in {"sync", "delete"} :
            /\ Emit(q, t) /\ (t = "delete" => stage'[q] = "gone")
            /\ \A r \in Product : stage[r] = "gone" => stage'[r] = "gone"
      BY <1>0, <2>2 DEF DeleteProduct, ChangeProduct
    <3>2. /\ changes' = changes + 1
          /\ pending' = pending \cup {[product |-> q, topic |-> t, change |-> changes + 1]}
          /\ noticed' = noticed \cup {q}
      BY <3>1 DEF Emit
    <3>3. CASE e \in pending
      <4>1. e.change <= changes /\ e \in Event /\ e.product \in noticed /\ (e.topic = "delete" => stage[e.product] = "gone")
        BY <1>0, <3>3 DEF EventsSound
      <4>2. e.change \in Nat /\ e.product \in Product
        BY <4>1 DEF Event
      <4> QED
        BY <1>0, <3>1, <3>2, <4>1, <4>2
    <3>4. CASE e = [product |-> q, topic |-> t, change |-> changes + 1]
      BY <1>0, <3>1, <3>2, <3>4
    <3> QED
      BY <1>1, <3>2, <3>3, <3>4
  <2>3. ASSUME \/ \E w \in Worker : \/ \E f \in Event : Deliver(w, f)
                                    \/ StartImport(w) \/ RefuseImport(w)
                                    \/ RequestStep(w)
                                    \/ FetchFails(w) \/ RequestDies(w) \/ AnswerIsLost(w)
               \/ UNCHANGED vars
        PROVE  pending' \subseteq pending /\ UNCHANGED <<stage, changes, noticed>>
    BY <2>3 DEF Deliver, StartImport, Begin, RefuseImport, RequestStep, FetchProduct, FetchPage,
                ReadExisting, WriteProducts, WriteConflicts, DeleteRow, DeleteVariants, DeleteMedia,
                DeleteChildren, Answer, FetchFails, AnswerError, RequestDies, AnswerIsLost, shopify,
                vars
  <2> QED
    BY <2>1, <2>2, <2>3 DEF Next
<1>2. ASSUME NEW w \in Worker, worker'[w].event # None, worker'[w].event.product \notin overlapped'
      PROVE  worker'[w].event \in pending'
  <2>1. overlapped \subseteq overlapped'
    BY OverlappedGrows
  <2>2. PICK e : e = worker'[w].event
    OBVIOUS
  <2>3. e \in pending
    <3>1. CASE worker[w].event = e
      BY <1>2, <2>1, <2>2, <3>1 DEF EventsSound
    <3>2. CASE worker[w].event # e
      BY <1>2, <2>2, <3>2, WorkerMoves DEF Free
    <3> QED
      BY <3>1, <3>2
  <2>4. e \in Event /\ e.product \in Product \ overlapped
    BY <1>0, <1>2, <2>1, <2>2, <2>3 DEF Event
  <2>5. e \in PendingFor(e.product)
    BY <2>3 DEF PendingFor
  <2>6. ~Answered(e.product)
    <3>1. CASE worker[w].event = e
      <4>1. worker[w].pc # "free"
        BY <1>2, <2>2, <3>1 DEF EventsSound
      <4>2. e.product \in Concerns(worker[w])
        BY <1>2, <2>2, <2>4, <3>1, <4>1, WebhookConcerns
      <4> QED
        BY <1>2, <2>2, <2>4, <4>2, NotAnswered DEF Free
    <3>2. CASE worker[w].event # e
      <4>1. worker'[w] # worker[w] /\ worker'[w] # Free
        BY <1>2, <2>2, <3>2 DEF Free
      <4>2. ASSUME NEW v \in Worker, Answer(v)
            PROVE  FALSE
        <5>1. worker' = [worker EXCEPT ![v] = Free]
          BY <4>2 DEF Answer
        <5> QED
          BY <4>1, <5>1 DEF TypeOK
      <4> QED
        BY <4>2 DEF Answered
    <3> QED
      BY <3>1, <3>2
  <2>7. e \in PendingFor(e.product)'
    BY <2>4, <2>5, <2>6, ProductMoves
  <2> QED
    BY <2>2, <2>7 DEF PendingFor
<1>3. ASSUME NEW w \in Worker, worker'[w].pc = "free"
      PROVE  worker'[w].event = None
  <2>1. worker[w] \in Request
    BY DEF TypeOK
  <2>2. CASE worker'[w] = worker[w]
    BY <1>3, <2>2 DEF EventsSound
  <2>3. CASE FetchProduct(w)
    BY <1>3, <2>3, FetchKeepsEvent
  <2>4. CASE FetchPage(w)
    BY ZenonT(60), <1>3, <2>4 DEF FetchPage, TypeOK, Request
  <2>5. CASE ReadExisting(w)
    BY <1>3, <2>5 DEF ReadExisting, TypeOK, Request
  <2>6. CASE WriteProducts(w)
    BY <1>3, <2>6 DEF WriteProducts, Free, TypeOK
  <2>7. CASE DeleteRow(w) \/ DeleteVariants(w) \/ DeleteMedia(w)
    BY <1>3, <2>1, <2>7 DEF DeleteRow, DeleteVariants, DeleteMedia, DeleteChildren, Goto, TypeOK,
                            Request
  <2> QED
    BY <1>3, <2>2, <2>3, <2>4, <2>5, <2>6, <2>7, WorkerMoves DEF Free
<1> QED
  BY <1>1, <1>2, <1>3 DEF EventsSound

\* A request that does nothing in a step still knows what it knew: Shopify has not changed
\* the product without an event, and nobody else writes its copy.
LEMMA IdleKnows ==
  ASSUME Knows, [Next]_vars, NEW w \in Worker, worker'[w] = worker[w]
  PROVE  IF IsImport(worker'[w]) THEN ImportKnows(worker[w])' ELSE WebhookKnows(worker[w])'
<1> USE DEF Knows
<1>0. overlapped \subseteq overlapped' /\ worker[w] \in Request
  BY OverlappedGrows DEF TypeOK
<1>1. ASSUME NEW p \in Product \ overlapped', p \in Concerns(worker[w]), Answered(p)
      PROVE  FALSE
  <2>1. Answer(w) /\ worker'[w] = Free
    BY <1>0, <1>1, NotAnswered
  <2> QED
    BY <2>1 DEF Answer, Free
<1>2. CASE IsImport(worker[w])
  <2>1. ImportKnows(worker[w])
    BY <1>2 DEF RequestsKnow
  <2>2. ASSUME NEW p \in Product \ overlapped', PendingFor(p)' = {},
               \/ worker[w].pc \in {"fetched", "write"}
               \/ worker[w].pc = "pages" /\ PageOf[p] < worker[w].page
        PROVE  Current(worker[w], p)'
    <3>1. p \in Concerns(worker[w])
      BY <1>2, <2>2 DEF Concerns
    <3>2. stage'[p] = stage[p] /\ content'[p] = content[p] /\ PendingFor(p) = {}
      BY <1>1, <2>2, <3>1, ProductMoves
    <3>3. Current(worker[w], p)
      BY <1>0, <2>1, <2>2, <3>2 DEF ImportKnows
    <3> QED
      BY <3>2, <3>3 DEF Current, Offered
  <2> QED
    BY <1>2, <2>1, <2>2 DEF ImportKnows
<1>3. CASE ~IsImport(worker[w])
  <2> DEFINE p == worker[w].event.product
  <2>1. WebhookKnows(worker[w])
    BY <1>3 DEF RequestsKnow
  <2>2. worker[w].pc # "free"
    BY <1>3 DEF EventsSound, IsImport
  <2>3. p \in Product /\ p \in Concerns(worker[w])
    BY <1>3, <2>2, WebhookConcerns DEF IsImport
  <2>4. ASSUME p \notin overlapped', PendingFor(p)' \subseteq {worker[w].event}
        PROVE  /\ stage'[p] = stage[p] /\ content'[p] = content[p]
               /\ PendingFor(p) \subseteq {worker[w].event}
    <3>1. worker[w].event \in pending /\ worker[w].event.change <= changes
      BY <1>0, <1>3, <2>4 DEF EventsSound, IsImport
    <3>2. worker[w].event \in Event /\ changes \in Int /\ worker[w].event.change \in Int
      BY <1>3, <2>2, WebhookConcerns DEF IsImport, TypeOK, Event
    <3>3. ~ \E e \in PendingFor(p)' : e.change > changes
      BY <2>4, <3>1, <3>2
    <3> QED
      BY <1>1, <2>3, <2>4, <3>3, ProductMoves
  <2>5. ASSUME p \notin overlapped', PendingFor(p)' \subseteq {worker[w].event}, worker[w].pc = "flag"
        PROVE  Mirrored(p)'
    <3>1. Mirrored(p)
      BY <1>0, <2>1, <2>4, <2>5 DEF WebhookKnows
    <3>2. UNCHANGED <<row[p], shown[p], children[p]>>
      <4>1. ASSUME NEW v \in Worker, p \in Concerns(worker[v]),
                   WriteProducts(v) \/ DeleteRow(v) \/ worker[v].pc \in {"variants", "media"}
            PROVE  FALSE
        <5>1. v = w
          BY <1>0, <2>3, <2>5, <4>1, HandsOff
        <5> QED
          BY <2>5, <4>1, <5>1 DEF WriteProducts, DeleteRow
      <4> QED
        BY <2>3, <4>1, CopyChanges
    <3> QED
      BY <2>4, <2>5, <3>1, <3>2 DEF Mirrored
  <2>6. ASSUME p \notin overlapped', PendingFor(p)' \subseteq {worker[w].event}
        PROVE  /\ worker[w].pc \in {"fetched", "write"} => Fetched(worker[w], p)'
               /\ worker[w].pc \in {"row", "variants", "media"} => stage'[p] # "there"
    <3>1. /\ worker[w].pc \in {"fetched", "write"} => Fetched(worker[w], p)
          /\ worker[w].pc \in {"row", "variants", "media"} => stage[p] # "there"
      BY <1>0, <2>1, <2>4, <2>6 DEF WebhookKnows
    <3> QED
      BY <2>4, <2>6, <3>1 DEF Fetched
  <2> QED
    BY <1>3, <2>5, <2>6 DEF WebhookKnows
<1> QED
  BY <1>2, <1>3

\* The next page leaves an import with what the pages before it showed, and this one.
LEMMA PageKnows ==
  ASSUME Knows, NEW w \in Worker, FetchPage(w)
  PROVE  IsImport(worker'[w]) /\ ImportKnows(worker[w])'
<1> USE DEF Knows
<1> DEFINE page == worker[w].page
           here == {p \in Product : PageOf[p] = page /\ Offered(p)}
           fetched == [p \in Product |-> IF p \in here THEN content[p] ELSE worker[w].fetched[p]]
<1>1. worker[w] \in Request /\ worker[w].pc = "pages" /\ worker[w].event = None
  BY DEF FetchPage, RequestsSound, TypeOK
<1>2. /\ page \in Int /\ PageCount \in Int /\ page <= PageCount
      /\ \A p \in Product : PageOf[p] \in Int /\ PageOf[p] <= PageCount
  BY <1>1, CatalogAssumption DEF Request
<1>3. worker'[w] = [worker[w] EXCEPT
        !.pc = IF HasNextPage(page) THEN "pages" ELSE "fetched",
        !.page = IF HasNextPage(page) THEN page + 1 ELSE page,
        !.found = worker[w].found \cup here,
        !.fetched = fetched]
  BY <1>1 DEF FetchPage, Request, TypeOK
<1>4. PICK n : n = worker'[w]
  OBVIOUS
<1>5. /\ n.event = None /\ n.found = worker[w].found \cup here /\ n.fetched = fetched
      /\ n.pc = (IF page < PageCount THEN "pages" ELSE "fetched")
      /\ n.page = (IF page < PageCount THEN page + 1 ELSE page)
  BY <1>1, <1>3, <1>4 DEF Request, HasNextPage
<1>6. UNCHANGED <<stage, content, pending, overlapped>>
  BY DEF FetchPage, shopify
<1>7. ImportKnows(worker[w])
  BY <1>1 DEF RequestsKnow, IsImport
<1>8. \A p \in worker[w].found : p \in Product /\ PageOf[p] < page
  BY <1>1, <1>7 DEF ImportKnows, Request
<1>9. n.pc = "pages" => \A p \in n.found : PageOf[p] < n.page
  <2> SUFFICES ASSUME n.pc = "pages", NEW p \in n.found
               PROVE  PageOf[p] < n.page
    OBVIOUS
  <2>1. n.page = page + 1
    BY <1>5
  <2>2. p \in Product /\ (PageOf[p] < page \/ PageOf[p] = page)
    BY <1>5, <1>8
  <2>3. PageOf[p] \in Int /\ page \in Int
    BY <1>2, <2>2
  <2> HIDE DEF page
  <2> QED
    BY <2>1, <2>2, <2>3
<1>10. ASSUME NEW p \in Product \ overlapped', PendingFor(p)' = {},
              n.pc \in {"fetched", "write"} \/ (n.pc = "pages" /\ PageOf[p] < n.page)
       PROVE  IF Offered(p) THEN p \in n.found /\ n.fetched[p] = content[p] ELSE p \notin n.found
  <2>1. PageOf[p] = page \/ PageOf[p] < page
    BY <1>2, <1>5, <1>10
  <2>2. CASE PageOf[p] = page
    <3>1. p \notin worker[w].found
      BY <1>2, <1>8, <2>2
    <3> QED
      BY <1>5, <2>2, <3>1
  <2>3. CASE PageOf[p] < page
    <3>1. Current(worker[w], p)
      BY <1>1, <1>6, <1>7, <1>10, <2>3 DEF ImportKnows, PendingFor
    <3>2. p \notin here
      BY <1>2, <2>3
    <3> QED
      BY <1>5, <3>1, <3>2 DEF Current
  <2> QED
    BY <2>1, <2>2, <2>3
<1> HIDE DEF page, here, fetched
<1>11. ASSUME NEW p \in Product \ overlapped', PendingFor(p)' = {},
              n.pc \in {"fetched", "write"} \/ (n.pc = "pages" /\ PageOf[p] < n.page)
       PROVE  Current(worker[w], p)'
  BY <1>4, <1>6, <1>10, <1>11 DEF Current, Offered
<1>12. ImportKnows(worker[w])'
  BY <1>4, <1>9, <1>11 DEF ImportKnows
<1> QED
  BY <1>4, <1>5, <1>12 DEF IsImport

\* A request that goes on knows what it has fetched, written or deleted.
LEMMA WebhookGoesOn ==
  ASSUME Knows, NEW w \in Worker, ~IsImport(worker[w]),
         \/ FetchProduct(w) \/ ReadExisting(w) \/ WriteProducts(w)
         \/ DeleteRow(w) \/ DeleteVariants(w) \/ DeleteMedia(w)
  PROVE  ~IsImport(worker'[w]) /\ WebhookKnows(worker[w])'
<1> USE DEF Knows
<1>0. PICK p : p = worker[w].event.product
  OBVIOUS
<1>1. /\ worker[w] \in Request /\ worker[w].event # None /\ worker[w].event \in Event
      /\ worker[w].pc # "free" /\ p \in Product /\ p \in Concerns(worker[w])
  <2>1. worker[w] \in Request /\ worker[w].event # None /\ worker[w].pc # "free"
    BY DEF FetchProduct, ReadExisting, WriteProducts, DeleteRow, DeleteVariants, DeleteMedia,
           DeleteChildren, TypeOK, IsImport
  <2> QED
    BY <1>0, <2>1, WebhookConcerns
<1>2. UNCHANGED <<stage, content, pending, overlapped>>
  BY DEF FetchProduct, ReadExisting, WriteProducts, DeleteRow, DeleteVariants, DeleteMedia,
         DeleteChildren, shopify
<1>3. WebhookKnows(worker[w])
  BY DEF RequestsKnow
<1>4. PICK n : n = worker'[w]
  OBVIOUS
<1>5. SUFFICES /\ n.event = worker[w].event
               /\ p \notin overlapped /\ PendingFor(p) \subseteq {worker[w].event} =>
                    /\ n.pc \in {"fetched", "write"} => Fetched(n, p)
                    /\ n.pc \in {"row", "variants", "media"} => stage[p] # "there"
                    /\ n.pc = "flag" => Mirrored(p)'
  <2>1. PendingFor(p)' = PendingFor(p)
    BY <1>2 DEF PendingFor
  <2>2. Fetched(n, p) => Fetched(worker[w], p)'
    BY <1>2, <1>4 DEF Fetched
  <2> QED
    BY <1>0, <1>1, <1>2, <1>4, <2>1, <2>2 DEF WebhookKnows, IsImport
<1>6. CASE FetchProduct(w)
  <2>1. CASE stage[p] = "there"
    <3>1. n = [worker[w] EXCEPT !.pc = "fetched", !.found = {p}, !.fetched[p] = content[p]]
      BY <1>0, <1>4, <1>6, <2>1 DEF FetchProduct, TypeOK
    <3>2. n.pc = "fetched" /\ n.event = worker[w].event /\ n.found = {p} /\ n.fetched[p] = content[p]
      BY <1>1, <3>1 DEF Request
    <3> QED
      BY <2>1, <3>2 DEF Fetched
  <2>2. CASE stage[p] # "there"
    <3>1. n = [worker[w] EXCEPT !.pc = "row"]
      BY <1>0, <1>4, <1>6, <2>2 DEF FetchProduct, Goto, TypeOK
    <3>2. n.pc = "row" /\ n.event = worker[w].event
      BY <1>1, <3>1 DEF Request
    <3> QED
      BY <2>2, <3>2
  <2> QED
    BY <2>1, <2>2
<1>7. CASE ReadExisting(w)
  <2>1. n = [worker[w] EXCEPT !.pc = "write",
                              !.known = {q \in worker[w].found : row[q] # "none"}]
    BY <1>1, <1>4, <1>7 DEF ReadExisting, TypeOK, Request
  <2>2. /\ n.pc = "write" /\ worker[w].pc = "fetched" /\ n.event = worker[w].event
        /\ n.found = worker[w].found /\ n.fetched = worker[w].fetched
    BY <1>1, <1>7, <2>1 DEF ReadExisting, Request
  <2> QED
    BY <1>0, <1>3, <2>2 DEF WebhookKnows, Fetched
<1>8. CASE WriteProducts(w)
  <2>1. n = [Free EXCEPT !.pc = "flag", !.event = worker[w].event] /\ worker[w].pc = "write"
    BY <1>4, <1>8 DEF WriteProducts, TypeOK
  <2>2. n.pc = "flag" /\ n.event = worker[w].event
    BY <2>1 DEF Free
  <2>3. ASSUME p \notin overlapped, PendingFor(p) \subseteq {worker[w].event}
        PROVE  Mirrored(p)'
    <3>1. stage[p] = "there" /\ p \in worker[w].found /\ worker[w].fetched[p] = content[p]
      BY <1>0, <1>3, <2>1, <2>3 DEF WebhookKnows, Fetched
    <3>2. row'[p] = "live" /\ shown'[p] = content[p] /\ children'[p] = ChildrenOf(content[p])
      BY <1>1, <1>8, <3>1, Written
    <3> QED
      BY <1>2, <3>1, <3>2 DEF Mirrored
  <2> QED
    BY <2>2, <2>3
<1>9. CASE DeleteRow(w) \/ DeleteVariants(w) \/ DeleteMedia(w)
  <2>1. /\ worker[w].pc \in {"row", "variants", "media"}
        /\ n.event = worker[w].event /\ n.pc \in {"variants", "media", "flag"}
    BY <1>1, <1>4, <1>9 DEF DeleteRow, DeleteVariants, DeleteMedia, DeleteChildren, Goto, TypeOK,
                            Request
  <2>2. ASSUME p \notin overlapped, n.pc = "flag"
        PROVE  row'[p] # "live"
    <3>1. CASE DeleteRow(w)
      BY <1>0, <1>1, <1>4, <2>2, <3>1 DEF DeleteRow, Goto, TypeOK, Request
    <3>2. CASE DeleteVariants(w)
      BY <1>1, <1>4, <2>2, <3>2 DEF DeleteVariants, DeleteChildren, Goto, TypeOK, Request
    <3>3. CASE DeleteMedia(w)
      BY <1>0, <1>1, <2>2, <3>3 DEF DeleteMedia, DeleteChildren, DeletesLast
    <3> QED
      BY <1>9, <3>1, <3>2, <3>3
  <2> QED
    BY <1>0, <1>2, <1>3, <2>1, <2>2 DEF WebhookKnows, Mirrored
<1> QED
  BY <1>6, <1>7, <1>8, <1>9

\* What the requests know, after every step.
LEMMA KnowsStep ==
  ASSUME Knows, [Next]_vars
  PROVE  RequestsKnow'
<1> USE DEF Knows
<1> SUFFICES ASSUME NEW w \in Worker
             PROVE  IF IsImport(worker'[w]) THEN ImportKnows(worker[w])' ELSE WebhookKnows(worker[w])'
  BY DEF RequestsKnow, IsImport
<1>0. worker[w] \in Request
  BY DEF TypeOK
<1>1. CASE worker'[w] = worker[w]
  BY <1>1, IdleKnows
<1>2. PICK n : n = worker'[w]
  OBVIOUS
<1>3. ASSUME n.event = None, n.pc \notin {"pages", "fetched", "write"}
      PROVE  IsImport(worker'[w]) /\ ImportKnows(worker[w])'
  BY <1>2, <1>3 DEF IsImport, ImportKnows
<1>4. CASE worker'[w] = Free
  BY <1>2, <1>3, <1>4 DEF Free
<1>5. CASE StartImport(w) /\ worker'[w] = [Free EXCEPT !.pc = "pages"]
  <2>1. n.event = None /\ n.pc = "pages" /\ n.page = 1 /\ n.found = {}
    BY <1>2, <1>5 DEF Free
  <2>2. \A p \in Product : ~(PageOf[p] < 1)
    BY CatalogAssumption
  <2> QED
    BY <1>2, <2>1, <2>2 DEF IsImport, ImportKnows
<1>6. ASSUME NEW e \in pending, e \in Event, worker'[w].event = e,
             worker'[w].pc = (IF e.topic = "sync" THEN "fetch" ELSE "row"),
             worker'[w] # worker[w]
      PROVE  ~IsImport(worker'[w]) /\ WebhookKnows(worker[w])'
  <2>1. n.event = e /\ e # None /\ n.pc \in {"fetch", "row"} /\ (n.pc = "row" => e.topic = "delete")
    BY <1>2, <1>6, CatalogAssumption DEF Event
  <2>2. e.topic = "delete" => stage[e.product] = "gone"
    BY <1>6 DEF EventsSound
  <2>3. stage' = stage
    BY <1>6 DEF Next, DeleteProduct, ChangeProduct, Emit, Deliver, StartImport, Begin, RefuseImport,
       RequestStep, FetchProduct, FetchPage, ReadExisting, WriteProducts, WriteConflicts, DeleteRow,
       DeleteVariants, DeleteMedia, DeleteChildren, Answer, FetchFails, RequestDies, AnswerIsLost,
       shopify, vars
  <2> QED
    BY <1>2, <2>1, <2>2, <2>3 DEF IsImport, WebhookKnows
<1>7. ASSUME worker'[w].event = worker[w].event,
             \/ FetchProduct(w) \/ FetchPage(w) \/ ReadExisting(w) \/ WriteProducts(w)
             \/ DeleteRow(w) \/ DeleteVariants(w) \/ DeleteMedia(w)
      PROVE  IF IsImport(worker'[w]) THEN ImportKnows(worker[w])' ELSE WebhookKnows(worker[w])'
  <2>1. CASE FetchPage(w)
    BY <2>1, PageKnows
  <2>2. CASE ~IsImport(worker[w]) /\ ~FetchPage(w)
    BY <1>7, <2>2, WebhookGoesOn
  <2>3. CASE IsImport(worker[w]) /\ WriteProducts(w)
    <3>1. n = [Free EXCEPT !.pc = "flag", !.event = worker[w].event]
      BY <1>2, <2>3 DEF WriteProducts, TypeOK
    <3>2. n.pc = "flag" /\ n.event = None
      BY <2>3, <3>1 DEF Free, IsImport
    <3> QED
      BY <1>3, <3>2
  <2>4. CASE IsImport(worker[w]) /\ ReadExisting(w)
    <3>1. n = [worker[w] EXCEPT !.pc = "write",
                                !.known = {q \in worker[w].found : row[q] # "none"}]
      BY <1>0, <1>2, <2>4 DEF ReadExisting, TypeOK, Request
    <3>2. /\ n.pc = "write" /\ worker[w].pc = "fetched" /\ n.event = None
          /\ n.found = worker[w].found /\ n.fetched = worker[w].fetched
      BY <1>0, <2>4, <3>1 DEF ReadExisting, Request, IsImport
    <3>3. UNCHANGED <<stage, content, pending, overlapped>>
      BY <2>4 DEF ReadExisting, shopify
    <3>4. ASSUME NEW p \in Product \ overlapped', PendingFor(p)' = {}
          PROVE  Current(worker[w], p)'
      <4>1. PendingFor(p) = {} /\ Current(worker[w], p)
        BY <2>4, <3>2, <3>3, <3>4 DEF PendingFor, RequestsKnow, ImportKnows
      <4> QED
        BY <1>2, <3>2, <3>3, <4>1 DEF Current, Offered
    <3> QED
      BY <1>2, <3>2, <3>4 DEF ImportKnows, IsImport
  <2>5. ~(IsImport(worker[w]) /\ (FetchProduct(w) \/ DeleteRow(w) \/ DeleteVariants(w) \/ DeleteMedia(w)))
    BY DEF IsImport, RequestsSound, FetchProduct, DeleteRow, DeleteVariants, DeleteMedia,
           DeleteChildren
  <2> QED
    BY <1>7, <2>1, <2>2, <2>3, <2>4, <2>5
<1> QED
  BY <1>1, <1>4, <1>5, <1>6, <1>7, WorkerMoves

\* A write of an import leaves what it knows of a product in the copy.
LEMMA ImportMirrors ==
  ASSUME Knows, NEW w \in Worker, WriteProducts(w), IsImport(worker[w]),
         NEW p \in Product \ overlapped, PendingFor(p) = {}
  PROVE  Shown(p)'
<1> USE DEF Knows
<1>1. worker[w].pc = "write" /\ UNCHANGED <<stage, content, noticed>>
  BY DEF WriteProducts, shopify
<1>2. Current(worker[w], p)
  BY <1>1 DEF RequestsKnow, ImportKnows
<1>3. p \notin noticed
  BY <1>1 DEF NewsEndsImports, Importing
<1>4. IF Offered(p)
        THEN row'[p] = "live" /\ shown'[p] = content[p] /\ children'[p] = ChildrenOf(content[p])
        ELSE row'[p] # "live"
  BY <1>2, Written DEF Current
<1> QED
  BY <1>1, <1>3, <1>4 DEF Shown, Mirrored, Offered

\* An answer sets connect_products, and an import starts only before.
LEMMA NewsStep ==
  ASSUME Knows, [Next]_vars
  PROVE  NewsEndsImports'
<1> USE DEF Knows
<1>0. noticed' \subseteq Product
  <2>1. TypeOK'
    BY TypeStep
  <2> QED
    BY <2>1 DEF TypeOK
<1> SUFFICES ASSUME NEW p \in Product, p \in noticed' \ overlapped', PendingFor(p)' = {}
             PROVE  connected' /\ \A w \in Worker : ~Importing(worker'[w])
  BY <1>0 DEF NewsEndsImports, Importing, IsImport
<1>1. p \in Product \ overlapped
  BY OverlappedGrows
<1>2. p \in noticed /\ (PendingFor(p) = {} \/ Answered(p))
  BY <1>1, ProductMoves
<1>3. CASE PendingFor(p) = {}
  <2>1. connected /\ \A w \in Worker : ~Importing(worker[w])
    BY <1>1, <1>2, <1>3 DEF NewsEndsImports
  <2>2. connected'
    BY <2>1 DEF Next, DeleteProduct, ChangeProduct, Emit, Deliver, StartImport, Begin, RefuseImport,
       RequestStep, FetchProduct, FetchPage, ReadExisting, WriteProducts, WriteConflicts, DeleteRow,
       DeleteVariants, DeleteMedia, DeleteChildren, Answer, FetchFails, RequestDies, AnswerIsLost,
       vars
  <2>3. ASSUME NEW w \in Worker, Importing(worker'[w])
        PROVE  FALSE
    <3>1. worker[w] \in Request /\ ~Importing(worker[w])
      BY <2>1 DEF TypeOK
    <3>2. ~StartImport(w)
      BY <2>1 DEF StartImport
    <3>3. ~ \E e \in pending : e \in Event /\ worker'[w].event = e
      BY <2>3, CatalogAssumption DEF Importing, IsImport
    <3>4. worker'[w] # Free
      BY <2>3 DEF Importing, Free
    <3>5. worker'[w].event = worker[w].event /\ worker[w].event = None
          /\ (FetchPage(w) \/ ReadExisting(w) \/ WriteProducts(w))
      BY <2>3, <3>1, <3>2, <3>3, <3>4, WorkerMoves
      DEF Importing, IsImport, FetchProduct, DeleteRow, DeleteVariants, DeleteMedia, DeleteChildren,
          RequestsSound
    <3> QED
      BY <3>1, <3>5 DEF Importing, IsImport, FetchPage, ReadExisting, WriteProducts
  <2> QED
    BY <2>2, <2>3
<1>4. CASE Answered(p)
  <2>1. PICK v \in Worker : Answer(v) /\ worker[v].event # None /\ worker[v].event.product = p
    BY <1>4 DEF Answered
  <2>2. connected' /\ worker' = [worker EXCEPT ![v] = Free]
    BY <2>1 DEF Answer
  <2>3. ASSUME NEW w \in Worker, Importing(worker'[w])
        PROVE  FALSE
    <3>1. w # v /\ worker'[w] = worker[w]
      BY <2>2, <2>3 DEF Importing, Free, TypeOK
    <3>2. p \in Concerns(worker[w]) /\ p \in Concerns(worker[v])
      BY <2>1, <2>3, <3>1 DEF Importing, Concerns, Answer
    <3> QED
      BY <1>1, <3>1, <3>2 DEF Alone
  <2> QED
    BY <2>2, <2>3
<1> QED
  BY <1>2, <1>3, <1>4

\* Without pending events the copy stays what Shopify has.
LEMMA CurrentStep ==
  ASSUME Knows, CopyCurrent, [Next]_vars
  PROVE  CopyCurrent'
<1> USE DEF Knows
<1> SUFFICES ASSUME NEW p \in Product \ overlapped', PendingFor(p)' = {}, p \in noticed' \/ imported'
             PROVE  Shown(p)'
  BY DEF CopyCurrent
<1>1. p \in Product \ overlapped
  BY OverlappedGrows
<1>2. /\ stage'[p] = stage[p] /\ content'[p] = content[p] /\ (p \in noticed' <=> p \in noticed)
      /\ \/ PendingFor(p) = {}
         \/ Answered(p) /\ UNCHANGED <<row, shown, children, imported>>
  BY <1>1, ProductMoves
<1>3. CASE Answered(p) /\ UNCHANGED <<row, shown, children, imported>>
  <2>1. PICK w \in Worker : Answer(w) /\ worker[w].event # None /\ worker[w].event.product = p
    BY <1>3 DEF Answered
  <2>2. worker[w].pc = "flag" /\ PendingFor(p) \subseteq {worker[w].event}
    BY <2>1 DEF Answer, PendingFor
  <2>3. Mirrored(p)
    BY <1>1, <2>1, <2>2 DEF RequestsKnow, WebhookKnows, IsImport
  <2>4. Mirrored(p)'
    BY <1>2, <1>3, <2>3 DEF Mirrored
  <2>5. p \in noticed
    BY <1>1, <2>1 DEF EventsSound
  <2> QED
    BY <1>2, <2>4, <2>5 DEF Shown
<1>4. CASE PendingFor(p) = {}
  <2>1. ASSUME NEW w \in Worker, WriteProducts(w), IsImport(worker[w])
        PROVE  Shown(p)'
    BY <1>1, <1>4, <2>1, ImportMirrors
  <2>2. ASSUME imported' # imported
        PROVE  \E w \in Worker : WriteProducts(w) /\ IsImport(worker[w])
    <3>1. \E w \in Worker : WriteProducts(w)
      BY <2>2 DEF Next, DeleteProduct, ChangeProduct, Emit, Deliver, StartImport, Begin,
         RefuseImport, RequestStep, FetchProduct, FetchPage, ReadExisting, WriteConflicts, DeleteRow,
         DeleteVariants, DeleteMedia, DeleteChildren, Answer, FetchFails, RequestDies, AnswerIsLost,
         catalog, vars
    <3> QED
      BY <2>2, <3>1 DEF WriteProducts, TypeOK
  <2>3. ASSUME NEW w \in Worker, p \in Concerns(worker[w]), ~IsImport(worker[w])
        PROVE  FALSE
    <3>1. worker[w].event # None /\ worker[w].event.product = p
      BY <2>3 DEF Concerns, IsImport
    <3> QED
      BY <1>1, <1>4, <3>1 DEF EventsSound, PendingFor
  <2>4. CASE UNCHANGED <<row[p], shown[p], children[p], imported>>
    <3>1. Shown(p)
      BY <1>1, <1>2, <1>4, <2>4 DEF CopyCurrent
    <3> QED
      BY <1>2, <2>4, <3>1 DEF Shown, Mirrored, Offered
  <2>5. CASE ~UNCHANGED <<row[p], shown[p], children[p]>>
    <3>1. PICK w \in Worker : /\ p \in Concerns(worker[w])
                              /\ \/ WriteProducts(w) \/ DeleteRow(w)
                                 \/ worker[w].pc \in {"variants", "media"}
      BY <1>1, <2>5, CopyChanges
    <3>2. IsImport(worker[w])
      BY <2>3, <3>1
    <3>3. WriteProducts(w)
      BY <3>1, <3>2 DEF DeleteRow, RequestsSound, IsImport
    <3> QED
      BY <2>1, <3>2, <3>3
  <2> QED
    BY <2>1, <2>2, <2>4, <2>5
<1> QED
  BY <1>2, <1>3, <1>4

\* When nothing is under way for a product that has changed or, after an import, is active,
\* the copy lists what Shopify has, and no draft that no webhook has told of, for any number of products, pages, workers, changes and faults.
THEOREM MirroredWhenSettled == Spec => []SettledMeansMirrored
<1>1. Init => Knows /\ CopyCurrent
  BY InitIInv, MirrorInit DEF IInv, Knows
<1>2. Knows /\ CopyCurrent /\ [Next]_vars => Knows' /\ CopyCurrent'
  <2> SUFFICES ASSUME Knows, CopyCurrent, [Next]_vars
               PROVE  Knows' /\ CopyCurrent'
    OBVIOUS
  <2>1. TypeOK' /\ RequestsSound' /\ Alone' /\ DeletesLast'
    BY TypeStep, SoundStep, AloneStep, DeletesStep DEF Knows
  <2>2. EventsSound' /\ RequestsKnow' /\ CopyCurrent'
    BY EventsStep, KnowsStep, CurrentStep DEF Knows
  <2>3. NewsEndsImports'
    BY NewsStep
  <2> QED
    BY <2>1, <2>2, <2>3 DEF Knows
<1>3. CopyCurrent => SettledMeansMirrored
  BY DEF CopyCurrent, SettledMeansMirrored, Settled, PendingFor, Shown
<1> QED
  BY <1>1, <1>2, <1>3, PTL DEF Spec
=============================================================================
