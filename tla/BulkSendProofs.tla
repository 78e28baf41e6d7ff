--------------------------- MODULE BulkSendProofs ---------------------------
(***************************************************************************)
(* Sending an SMS to a segment, for any number of messages, contacts,      *)
(* dispatches, batches, retries, faults and edits.                         *)
(***************************************************************************)
EXTENDS BulkSend, SumProofs

Recipient == [status : {"queued", "sent", "failed", "delivered", "undelivered", "opted_out"},
              known : BOOLEAN]
Recipients == UNION {[P -> Recipient] : P \in SUBSET Phone}
Entries == [reservation : Nat, debit : Nat, adjustment : Nat, latest : Nat \cup {NoEntry}]
Job == [pc : {"free", "queued", "loaded", "estimated", "committed", "enqueued", "failed", "lost"},
        sms : Sms \cup {NoSms}, audience : SUBSET (Phone \ Blocked), counted : SUBSET Phone,
        est : Nat, ids : SUBSET Phone, tries : Nat, again : BOOLEAN]
Batch == [pc : {"none", "queued", "running", "done", "lost"}, ids : SUBSET Phone,
          todo : SUBSET Phone, cur : Phone \cup {NoPhone},
          result : {"none", "success", "permanent", "transient"}, transient : SUBSET Phone,
          events : SUBSET (Sms \X Phone \X {"sent", "failed"}), tries : Nat]
Finalize == [pc : {"none", "waiting", "read", "counted", "rolled", "found", "priced", "debited",
                   "settled", "skipped", "lost"},
             segs : Segments \cup {0}, status : SmsStatus, est : Nat, actual : Nat]
Edit == [pc : {"idle", "read"}, sms : Sms \cup {NoSms}, status : SmsStatus]
Use == [faults : 0 .. MaxFaults, edits : 0 .. MaxEdits, refreshes : 0 .. MaxRefreshes,
        optOuts : 0 .. MaxOptOuts]

\* Every variable has its type.
BulkTypes ==
  /\ status \in [Sms -> SmsStatus] /\ segs \in [Sms -> Segments] /\ price \in Prices
  /\ contact \in [Phone -> {"absent", "subscribed", "unsubscribed"}]
  /\ row \in [Sms -> Recipients]
  /\ balance \in Int /\ reserved \in Int /\ ledger \in [Sms -> Entries]
  /\ job \in [Dispatch -> Job] /\ batch \in [Dispatch -> [BatchNo -> Batch]]
  /\ fin \in [Dispatch -> Finalize]
  /\ edit \in Edit /\ used \in Use
  /\ accepted \in [Sms -> [Phone -> Nat]] /\ unconfirmed \in [Sms -> [Phone -> Nat]]

\* A batch works on rows (P are their phones) it was given, one after the other; what was
\* confirmed was taken (a counts what the provider took).
BatchSound(b, P, a) ==
  /\ b.ids \subseteq P /\ b.todo \cup b.transient \subseteq b.ids
  /\ b.todo \cap b.transient = {} /\ b.cur \notin b.todo \cup b.transient
  /\ b.cur # NoPhone => /\ b.cur \in b.ids /\ b.pc = "running" /\ b.result # "none"
                        /\ b.result = "success" => a[b.cur] > 0
  /\ b.pc \in {"queued", "running"} /\ b.cur = NoPhone => b.result = "none"
  /\ b.pc = "queued" => b.todo = {} /\ b.transient = {}

\* A dispatch (job j, batches B, chord body f) has batches once it has enqueued them, and
\* no two of them share a recipient.
TaskSound(j, B, f, R, A) ==
  /\ j.pc = "free" <=> j.sms = NoSms
  /\ j.pc = "enqueued" <=> f.pc # "none"
  /\ j.pc # "enqueued" => \A k \in BatchNo : B[k].pc = "none"
  /\ j.pc \in {"committed", "enqueued"} => j.ids \subseteq DOMAIN R[j.sms]
  /\ j.pc = "enqueued" => \A k \in BatchNo : BatchSound(B[k], DOMAIN R[j.sms], A[j.sms])
  /\ \A k, l \in BatchNo : k # l => B[k].ids \cap B[l].ids = {}

TasksSound == \A d \in Dispatch : TaskSound(job[d], batch[d], fin[d], row, accepted)

\* Rows are of contacts that may be written to; whom the provider took a message for has
\* one, and it took a message for those that are shown as reached.
RowSound(r, a) ==
  /\ DOMAIN r \cap Blocked = {}
  /\ \A p \in Phone : a[p] > 0 => p \in DOMAIN r
  /\ \A p \in DOMAIN r : r[p].known \/ r[p].status \in Success => a[p] > 0

RowsSound == \A s \in Sms : RowSound(row[s], accepted[s])

\* The recipients a batch may still send to.
Live(b) ==
  CASE b.pc = "queued"  -> b.ids
    [] b.pc = "running" -> b.todo \cup b.transient
                             \cup (IF b.result = "transient" THEN {b.cur} ELSE {})
    [] OTHER            -> {}

\* The dispatches of s that may still send to p, and those that have reserved for it.
Pending(s, p) == {d \in Dispatch : job[d].sms = s /\ \E k \in BatchNo : p \in Live(batch[d][k])}
Dispatched(s) == {d \in Dispatch : job[d].sms = s /\ fin[d].pc # "none"}

\* A dispatch sends to everybody once more than there are faults and lost replies.
CopiesCounted ==
  \A s \in Sms, p \in Phone :
    accepted[s][p] + Cardinality(Pending(s, p))
      <= Cardinality(Dispatched(s)) + used.faults + unconfirmed[s][p]

ClicksCounted == \A s \in Sms : Cardinality({d \in Dispatch : job[d].sms = s}) <= MaxClicks

\* Without edits nobody is editing.
NoEdits == MaxEdits = 0
Unedited == NoEdits => edit.pc = "idle"

\* What the batch of a recipient that is queued is.
Waiting(b) ==
  CASE b.pc \in {"queued", "lost"} -> b.ids
    [] b.pc = "running"            -> b.todo \cup b.transient \cup {b.cur}
    [] OTHER                       -> {}

OneClick == MaxClicks <= 1
Attempts ==
  OneClick =>
    \A d \in Dispatch :
      LET s == job[d].sms IN
      /\ job[d].pc = "committed" => QueuedIn(row[s]) \subseteq job[d].ids
      /\ job[d].pc = "enqueued" =>
           \A p \in QueuedIn(row[s]) : \E k \in BatchNo : p \in Waiting(batch[d][k])
      /\ fin[d].pc \in {"read"} \cup Rolled => AllBatchesDone(d)

\* A failure is an event, or one that its batch still has to write.
Recorded(s, p) ==
  \/ <<s, p, "failed">> \in event
  \/ \E d \in Dispatch, k \in BatchNo :
       /\ job[d].sms = s /\ batch[d][k].pc = "running"
       /\ <<s, p, "failed">> \in batch[d][k].events
FailuresRecorded ==
  used.faults = 0 =>
    /\ \A s \in Sms : \A p \in DOMAIN row[s] : row[s][p].status \in Failure => Recorded(s, p)
    /\ \A d \in Dispatch, k \in BatchNo :
         batch[d][k].pc = "running" =>
           \A p \in batch[d][k].transient : Recorded(job[d].sms, p)

\* Without faults no dispatch is tried after it published, and the rows of a message are
\* those of a dispatch that has reserved for it.
AgainMeansFault == \A d \in Dispatch : job[d].again => used.faults > 0
RowsReserved ==
  used.faults = 0 =>
    \A s \in Sms : DOMAIN row[s] # {} => \E d \in Dispatch : job[d].sms = s /\ Reserving(d)

\* What the status of a message, v, says of its recipients is true, already when the roll-up
\* has counted and not yet saved it.
Verdict(v, s) ==
  \A p \in Phone :
    p \in DOMAIN row[s] =>
      /\ v = "sent" => accepted[s][p] > 0
      /\ v = "failed" /\ used.faults = 0 => <<s, p, "failed">> \in event
VerdictsHold ==
  OneClick /\ NoEdits =>
    /\ \A s \in Sms : Verdict(status[s], s)
    /\ \A d \in Dispatch : fin[d].pc = "counted" => Verdict(fin[d].status, job[d].sms)

-----------------------------------------------------------------------------
(* Types *)

\* Sets of phones and of dispatches are finite.
LEMMA Finite ==
  /\ \A T \in SUBSET Phone : IsFiniteSet(T) /\ Cardinality(T) \in Nat
  /\ \A T \in SUBSET Dispatch : IsFiniteSet(T) /\ Cardinality(T) \in Nat
<1>1. IsFiniteSet(Phone) /\ IsFiniteSet(Dispatch)
  BY SendAssumption
<1> QED
  BY <1>1, FS_Subset, FS_CardinalityType

\* Costs are numbers.
LEMMA CostTyped ==
  ASSUME BulkTypes, NEW s \in Sms, NEW n \in Nat
  PROVE  Cost(s, n) \in Nat
<1>1. price \in Nat /\ segs[s] \in Nat
  BY SendAssumption DEF BulkTypes
<1> QED
  BY <1>1 DEF Cost

\* The first values of the records.
LEMMA FirstTyped ==
  /\ FreeJob \in Job /\ NoBatch \in Batch /\ NoFin \in Finalize /\ NoEdit \in Edit
  /\ <<>> \in Recipients
<1>1. <<>> \in [{} -> Recipient] /\ {} \in SUBSET Phone
  OBVIOUS
<1>2. <<>> \in Recipients
  BY <1>1 DEF Recipients
<1> QED
  BY <1>2 DEF FreeJob, Job, NoBatch, Batch, NoFin, Finalize, NoEdit, Edit, SmsStatus

\* Rows that are changed for some phones, or added for others, are rows.
LEMMA RowsTyped ==
  ASSUME NEW r \in Recipients
  PROVE  /\ DOMAIN r \in SUBSET Phone /\ \A p \in DOMAIN r : r[p] \in Recipient
         /\ \A Q \in SUBSET Phone : \A q : DOMAIN q = Q /\ q = [p \in Q |-> q[p]]
              /\ (\A p \in Q : q[p] \in Recipient) => q \in Recipients
<1>1. ASSUME NEW Q \in SUBSET Phone, NEW q, q = [p \in Q |-> q[p]], \A p \in Q : q[p] \in Recipient
      PROVE  q \in Recipients
  <2>1. q \in [Q -> Recipient]
    BY <1>1
  <2> QED
    BY <2>1 DEF Recipients
<1> QED
  BY <1>1 DEF Recipients

\* A task that is tried again is a task that is queued, or has failed.
LEMMA RetryTyped ==
  ASSUME NEW j \in Job
  PROVE  /\ [FreeJob EXCEPT !.pc = "queued", !.sms = j.sms, !.tries = j.tries + 1] \in Job
         /\ [j EXCEPT !.pc = "failed"] \in Job
<1>1. FreeJob \in Job /\ j.tries + 1 \in Nat /\ j.sms \in Sms \cup {NoSms}
  BY FirstTyped DEF Job
<1> QED
  BY <1>1 DEF Job


\* One batch moves.
LEMMA BatchMoves ==
  ASSUME BulkTypes, NEW d \in Dispatch, NEW k \in BatchNo, NEW b \in Batch,
         batch' = [batch EXCEPT ![d][k] = b]
  PROVE  /\ batch' \in [Dispatch -> [BatchNo -> Batch]]
         /\ batch'[d][k] = b
         /\ \A l \in BatchNo \ {k} : batch'[d][l] = batch[d][l]
         /\ \A e \in Dispatch \ {d} : batch'[e] = batch[e]
BY DEF BulkTypes

\* A row is written for phones that have one, or new ones.
LEMMA RowMoves ==
  ASSUME BulkTypes, NEW s \in Sms, NEW p \in DOMAIN row[s], NEW x \in Recipient,
         row' = [row EXCEPT ![s][p] = x]
  PROVE  /\ row' \in [Sms -> Recipients]
         /\ DOMAIN row'[s] = DOMAIN row[s] /\ row'[s][p] = x
         /\ \A q \in DOMAIN row[s] \ {p} : row'[s][q] = row[s][q]
         /\ \A t \in Sms \ {s} : row'[t] = row[t]
<1> DEFINE r == row[s]
<1>1. r \in Recipients /\ row' = [row EXCEPT ![s] = [r EXCEPT ![p] = x]]
  BY DEF BulkTypes
<1>2. [r EXCEPT ![p] = x] \in Recipients
  <2>1. \A q \in DOMAIN r : [r EXCEPT ![p] = x][q] \in Recipient
    BY <1>1, RowsTyped
  <2> QED
    BY <1>1, <2>1, RowsTyped
<1> QED
  BY <1>1, <1>2 DEF BulkTypes

\* A recipient that is reported, or opts out, keeps whether its id is known.
LEMMA RecipientTyped ==
  ASSUME NEW x \in Recipient,
         NEW v \in {"queued", "sent", "failed", "delivered", "undelivered", "opted_out"}
  PROVE  /\ [x EXCEPT !.status = v] \in Recipient
         /\ [x EXCEPT !.status = v].status = v /\ [x EXCEPT !.status = v].known = x.known
BY DEF Recipient

\* Each of the phones P has the row it had, or a new one.
LEMMA BuildTyped ==
  ASSUME BulkTypes, NEW s \in Sms, NEW P \in SUBSET (Phone \ Blocked)
  PROVE  /\ BuildRecipients(s, P) \in Recipients
         /\ DOMAIN BuildRecipients(s, P) = DOMAIN row[s] \cup P
         /\ \A p \in DOMAIN row[s] : BuildRecipients(s, P)[p] = row[s][p]
         /\ \A p \in P \ DOMAIN row[s] : BuildRecipients(s, P)[p] = NewRow
<1>1. row[s] \in Recipients /\ NewRow \in Recipient
  BY DEF BulkTypes, NewRow, Recipient
<1>2. /\ DOMAIN row[s] \in SUBSET Phone
      /\ \A p \in DOMAIN row[s] : row[s][p] \in Recipient
  BY <1>1, RowsTyped
<1> DEFINE Q == DOMAIN row[s] \cup P  q == BuildRecipients(s, P)
<1>3. /\ DOMAIN q = Q /\ \A p \in DOMAIN row[s] : q[p] = row[s][p]
      /\ \A p \in P \ DOMAIN row[s] : q[p] = NewRow
  BY DEF BuildRecipients
<1>4. q = [p \in Q |-> q[p]] /\ Q \in SUBSET Phone
  BY <1>2 DEF BuildRecipients
<1>5. \A p \in Q : q[p] \in Recipient
  BY <1>1, <1>2, <1>3
<1>6. q \in Recipients
  <2> HIDE DEF q, Q
  <2> QED
    BY <1>1, <1>3, <1>4, <1>5, RowsTyped
<1> QED
  BY <1>3, <1>6

\* Giving up changes the rows of P, to "failed".
LEMMA GiveUpTyped ==
  ASSUME BulkTypes, NEW s \in Sms, NEW P
  PROVE  /\ GiveUp(s, P) \in Recipients /\ DOMAIN GiveUp(s, P) = DOMAIN row[s]
         /\ \A p \in DOMAIN row[s] : /\ p \notin P => GiveUp(s, P)[p] = row[s][p]
                                     /\ p \in P => /\ GiveUp(s, P)[p].status = "failed"
                                                   /\ GiveUp(s, P)[p].known = row[s][p].known
<1>1. row[s] \in Recipients
  BY DEF BulkTypes
<1>2. /\ DOMAIN row[s] \in SUBSET Phone
      /\ \A p \in DOMAIN row[s] : row[s][p] \in Recipient
  BY <1>1, RowsTyped
<1> DEFINE q == GiveUp(s, P)
<1>3. DOMAIN q = DOMAIN row[s] /\ q = [p \in DOMAIN row[s] |-> q[p]]
  BY DEF GiveUp
<1>4. ASSUME NEW p \in DOMAIN row[s]
      PROVE  /\ q[p] \in Recipient
             /\ p \notin P => q[p] = row[s][p]
             /\ p \in P => q[p].status = "failed" /\ q[p].known = row[s][p].known
  <2>1. q[p] = IF p \in P THEN [row[s][p] EXCEPT !.status = "failed"] ELSE row[s][p]
    BY DEF GiveUp
  <2>2. row[s][p] \in Recipient
    BY <1>2
  <2>3. CASE p \in P
    <3>1. q[p] = [row[s][p] EXCEPT !.status = "failed"]
      BY <2>1, <2>3
    <3> QED
      BY <2>2, <2>3, <3>1 DEF Recipient
  <2> QED
    BY <2>1, <2>2, <2>3
<1>5. q \in Recipients
  <2> HIDE DEF q
  <2> QED
    BY <1>1, <1>2, <1>3, <1>4, RowsTyped
<1> QED
  BY <1>3, <1>4, <1>5

Sound == BulkTypes /\ TasksSound /\ RowsSound

\* A task that was asked for has a message, one that has enqueued its batches has a chord
\* body; only such a task has batches.
LEMMA Owner ==
  ASSUME Sound, NEW d \in Dispatch
  PROVE  /\ job[d] \in Job /\ fin[d] \in Finalize /\ batch[d] \in [BatchNo -> Batch]
         /\ job[d].pc # "free" => job[d].sms \in Sms
         /\ fin[d].pc # "none" => job[d].pc = "enqueued" /\ job[d].sms \in Sms
         /\ \A k \in BatchNo :
              batch[d][k].pc # "none" =>
                /\ job[d].pc = "enqueued" /\ job[d].sms \in Sms /\ fin[d].pc # "none"
                /\ BatchSound(batch[d][k], DOMAIN row[job[d].sms], accepted[job[d].sms])
BY DEF Sound, BulkTypes, TasksSound, TaskSound, Job

\* Entries are added to.
LEMMA EntryTyped ==
  ASSUME NEW e \in Entries, NEW a \in Nat
  PROVE  /\ [e EXCEPT !.reservation = e.reservation + a, !.latest = a] \in Entries
         /\ [e EXCEPT !.debit = e.debit + a] \in Entries
         /\ [e EXCEPT !.adjustment = e.adjustment + a] \in Entries
<1>1. e.reservation \in Nat /\ e.debit \in Nat /\ e.adjustment \in Nat
  BY DEF Entries
<1>2. e.reservation + a \in Nat /\ e.debit + a \in Nat /\ e.adjustment + a \in Nat
  BY <1>1
<1> DEFINE m == e.reservation + a  n == e.debit + a  o == e.adjustment + a
<1>3. m \in Nat /\ n \in Nat /\ o \in Nat
  BY <1>2
<1> HIDE DEF m, n, o
<1>4. /\ [e EXCEPT !.reservation = m, !.latest = a] \in Entries
      /\ [e EXCEPT !.debit = n] \in Entries
      /\ [e EXCEPT !.adjustment = o] \in Entries
  BY <1>3 DEF Entries
<1> QED
  BY <1>4 DEF m, n, o

\* The rows with a status are phones, finitely many; what they cost is a number.
LEMMA RowsWithTyped ==
  ASSUME BulkTypes, NEW s \in Sms, NEW S
  PROVE  /\ RowsWith(s, S) \in SUBSET DOMAIN row[s] /\ DOMAIN row[s] \in SUBSET Phone
         /\ Cardinality(RowsWith(s, S)) \in Nat /\ Cardinality(DOMAIN row[s]) \in Nat
<1>1. row[s] \in Recipients
  BY DEF BulkTypes
<1>2. DOMAIN row[s] \in SUBSET Phone
  BY <1>1, RowsTyped
<1>3. \A T : RowsWith(s, T) \in SUBSET DOMAIN row[s] /\ RowsWith(s, T) \in SUBSET Phone
  BY <1>2 DEF RowsWith
<1> QED
  BY <1>2, <1>3, Finite

\* What the environment has used stays within its bounds.
LEMMA UsedTyped ==
  ASSUME NEW u \in Use
  PROVE  /\ u.faults < MaxFaults => [u EXCEPT !.faults = u.faults + 1] \in Use
         /\ u.edits < MaxEdits => [u EXCEPT !.edits = u.edits + 1] \in Use
         /\ u.refreshes < MaxRefreshes => [u EXCEPT !.refreshes = u.refreshes + 1] \in Use
         /\ u.optOuts < MaxOptOuts => [u EXCEPT !.optOuts = u.optOuts + 1] \in Use
<1>1. /\ MaxFaults \in Nat /\ MaxEdits \in Nat /\ MaxRefreshes \in Nat /\ MaxOptOuts \in Nat
  BY EnvironmentAssumption
<1>2. /\ u.faults \in 0 .. MaxFaults /\ u.edits \in 0 .. MaxEdits
      /\ u.refreshes \in 0 .. MaxRefreshes /\ u.optOuts \in 0 .. MaxOptOuts
  BY DEF Use
<1> DEFINE f == u.faults + 1  e == u.edits + 1  r == u.refreshes + 1  o == u.optOuts + 1
<1>3. /\ u.faults < MaxFaults => f \in 0 .. MaxFaults
      /\ u.edits < MaxEdits => e \in 0 .. MaxEdits
      /\ u.refreshes < MaxRefreshes => r \in 0 .. MaxRefreshes
      /\ u.optOuts < MaxOptOuts => o \in 0 .. MaxOptOuts
  BY <1>1, <1>2
<1> HIDE DEF f, e, r, o
<1>4. /\ u.faults < MaxFaults => [u EXCEPT !.faults = f] \in Use
      /\ u.edits < MaxEdits => [u EXCEPT !.edits = e] \in Use
      /\ u.refreshes < MaxRefreshes => [u EXCEPT !.refreshes = r] \in Use
      /\ u.optOuts < MaxOptOuts => [u EXCEPT !.optOuts = o] \in Use
  BY <1>3 DEF Use
<1> QED
  BY <1>4 DEF f, e, r, o

\* The cost of what was reached is a number.
LEMMA ActualTyped ==
  ASSUME Sound, NEW d \in Dispatch, job[d].sms \in Sms
  PROVE  ActualCost(d) \in Nat
<1> DEFINE n == Cardinality(RowsWith(job[d].sms, Success))
<1>1. n \in Nat /\ fin[d].segs \in Nat /\ price \in Nat
  <2>1. n \in Nat
    BY RowsWithTyped DEF Sound
  <2>2. fin[d] \in Finalize /\ price \in Prices
    BY DEF Sound, BulkTypes
  <2>3. fin[d].segs \in Segments \cup {0}
    BY <2>2 DEF Finalize
  <2>4. Segments \cup {0} \subseteq Nat /\ Prices \subseteq Nat
    BY SendAssumption
  <2> HIDE DEF n
  <2> QED
    BY <2>1, <2>2, <2>3, <2>4
<1> HIDE DEF n
<1>2. price * fin[d].segs * n \in Nat
  BY <1>1
<1> QED
  BY <1>2 DEF ActualCost, n

\* The steps of finalize_sms_send that read and write nothing but the task's own state.
Reads(d) == ReadForFinalize(d) \/ CountRows(d) \/ FindReservation(d) \/ PriceReached(d)

LEMMA ReadsEffect ==
  ASSUME Sound, NEW d \in Dispatch, Reads(d)
  PROVE  /\ fin'[d] \in Finalize /\ fin' = [fin EXCEPT ![d] = fin'[d]]
         /\ fin[d].pc # "none" /\ fin'[d].pc # "none"
         /\ \A e \in Dispatch \ {d} : fin'[e] = fin[e]
         /\ UNCHANGED <<status, segs, campaign, row, event, money, world, job, batch, provider>>
<1>1. fin[d] \in Finalize /\ fin \in [Dispatch -> Finalize] /\ BulkTypes
  BY DEF Sound, BulkTypes
<1>2. fin[d].pc # "none"
  BY DEF Reads, ReadForFinalize, CountRows, FindReservation, PriceReached
<1>3. job[d].sms \in Sms
  BY <1>2, Owner
<1>4. PICK f : f \in Finalize /\ f.pc # "none" /\ fin' = [fin EXCEPT ![d] = f]
  <2>1. CASE ReadForFinalize(d)
    <3> DEFINE x == IF status[job[d].sms] = "cancelled" THEN "skipped" ELSE "read"
               f == [fin[d] EXCEPT !.pc = x, !.segs = segs[job[d].sms]]
    <3>1. fin' = [fin EXCEPT ![d] = f]
      BY <2>1 DEF ReadForFinalize
    <3>2. segs[job[d].sms] \in Segments /\ x \in {"skipped", "read"}
      BY <1>1, <1>3 DEF BulkTypes
    <3>3. f \in Finalize /\ f.pc = x
      <4> HIDE DEF x
      <4> QED
        BY <1>1, <3>2 DEF Finalize
    <3> HIDE DEF f
    <3> QED
      BY <3>1, <3>2, <3>3
  <2>2. CASE CountRows(d)
    <3> DEFINE f == [fin[d] EXCEPT !.pc = "counted", !.status = FinalStatus(job[d].sms)]
    <3>1. fin' = [fin EXCEPT ![d] = f]
      BY <2>2 DEF CountRows
    <3>2. FinalStatus(job[d].sms) \in SmsStatus
      BY DEF FinalStatus, SmsStatus
    <3>3. f \in Finalize /\ f.pc = "counted"
      BY <1>1, <3>2 DEF Finalize
    <3> HIDE DEF f
    <3> QED
      BY <3>1, <3>3
  <2>3. CASE FindReservation(d)
    <3> DEFINE l == ledger[job[d].sms].latest
    <3>1. l \in Nat \cup {NoEntry}
      BY <1>1, <1>3 DEF BulkTypes, Entries
    <3>2. CASE l = NoEntry
      <4> DEFINE f == [fin[d] EXCEPT !.pc = "skipped"]
      <4>1. fin' = [fin EXCEPT ![d] = f]
        BY <2>3, <3>2 DEF FindReservation
      <4>2. f \in Finalize /\ f.pc = "skipped"
        BY <1>1 DEF Finalize
      <4> HIDE DEF f
      <4> QED
        BY <4>1, <4>2
    <3>3. CASE l # NoEntry
      <4> DEFINE f == [fin[d] EXCEPT !.pc = "found", !.est = l]
      <4>1. fin' = [fin EXCEPT ![d] = f]
        BY <2>3, <3>3 DEF FindReservation
      <4>2. f \in Finalize /\ f.pc = "found"
        <5> HIDE DEF l
        <5> QED
          BY <1>1, <3>1, <3>3 DEF Finalize
      <4> HIDE DEF f
      <4> QED
        BY <4>1, <4>2
    <3> QED
      BY <3>2, <3>3
  <2>4. CASE PriceReached(d)
    <3> DEFINE f == [fin[d] EXCEPT !.pc = "priced", !.actual = ActualCost(d)]
    <3>1. fin' = [fin EXCEPT ![d] = f]
      BY <2>4 DEF PriceReached
    <3>2. ActualCost(d) \in Nat
      BY <1>3, ActualTyped
    <3>3. f \in Finalize /\ f.pc = "priced"
      BY <1>1, <3>2 DEF Finalize
    <3> HIDE DEF f
    <3> QED
      BY <3>1, <3>3
  <2> QED
    BY <2>1, <2>2, <2>3, <2>4 DEF Reads
<1>5. fin'[d] = f /\ \A e \in Dispatch \ {d} : fin'[e] = fin[e]
  BY <1>1, <1>4
<1>6. UNCHANGED <<status, segs, campaign, row, event, money, world, job, batch, provider>>
  BY DEF Reads, ReadForFinalize, CountRows, FindReservation, PriceReached
<1> QED
  BY <1>2, <1>4, <1>5, <1>6

\* A retry that is refused changes the status and one flag of the task.
LEMMA AgainEffect ==
  ASSUME BulkTypes, NEW d \in Dispatch, RejectAgain(d)
  PROVE  /\ job[d].again /\ job'[d].again = FALSE /\ job'[d] = [job[d] EXCEPT !.again = FALSE]
         /\ job'[d].pc = job[d].pc /\ job'[d].sms = job[d].sms /\ job'[d].ids = job[d].ids
         /\ job'[d].est = job[d].est /\ job'[d].audience = job[d].audience
         /\ job'[d].counted = job[d].counted
         /\ \A e \in Dispatch \ {d} : job'[e] = job[e]
<1>1. job[d] \in Job
  BY DEF BulkTypes
<1>2. job' = [job EXCEPT ![d] = [job[d] EXCEPT !.again = FALSE]] /\ job[d].again
  BY DEF RejectAgain
<1>3. job'[d] = [job[d] EXCEPT !.again = FALSE] /\ \A e \in Dispatch \ {d} : job'[e] = job[e]
  BY <1>2 DEF BulkTypes
<1> QED
  BY <1>1, <1>2, <1>3 DEF Job

\* What publishes the batches of a dispatch, or some of them before it fails.
Enqueues(d) == EnqueueBatches(d) \/ PublishFails(d)

\* A dispatch that publishes queues a batch for each slice of its recipients, or loses it.
PublishedAs(d, n, ids, q) ==
  /\ n = Cardinality(job[d].ids) /\ n \in Nat /\ job[d].ids \in SUBSET Phone
  /\ ids \in Bijection(1 .. n, job[d].ids)
  /\ q \in [BatchNo -> Batch] /\ batch'[d] = q
  /\ \A e \in Dispatch \ {d} : batch'[e] = batch[e]
  /\ \A k \in BatchNo :
       /\ q[k].todo = {} /\ q[k].cur = NoPhone /\ q[k].result = "none"
       /\ q[k].transient = {} /\ q[k].events = {}
       /\ k <= CeilDiv(n, BatchSize) => /\ q[k].pc \in {"queued", "lost"}
                                        /\ q[k].ids = Slice(ids, k)
       /\ k > CeilDiv(n, BatchSize) => q[k] = NoBatch
       /\ EnqueueBatches(d) => q[k].pc # "lost"

LEMMA EnqueueEffect ==
  ASSUME Sound, NEW d \in Dispatch, Enqueues(d)
  PROVE  /\ job[d].pc = "committed" /\ job[d] \in Job /\ job[d].sms \in Sms
         /\ job'[d] \in Job /\ job'[d].pc = "enqueued" /\ job'[d].sms = job[d].sms
         /\ job'[d].est = job[d].est /\ job'[d].audience = job[d].audience
         /\ job'[d].counted = job[d].counted /\ job'[d].ids = job[d].ids
         /\ (job'[d].again => PublishFails(d))
         /\ \A e \in Dispatch \ {d} : job'[e] = job[e] /\ fin'[e] = fin[e]
         /\ fin'[d] \in Finalize /\ fin'[d] = [fin[d] EXCEPT !.pc = "waiting"]
         /\ fin'[d].pc = "waiting"
         /\ \E n, ids, q : PublishedAs(d, n, ids, q)
         /\ UNCHANGED <<status, segs, contact, campaign, row, event, money, price, edit, provider>>
         /\ used' \in Use /\ used'.faults >= used.faults
         /\ EnqueueBatches(d) => used' = used
         /\ PublishFails(d) => used'.faults > 0
         /\ \A x \in {"edits", "refreshes", "optOuts"} : used'[x] = used[x]
         /\ job' \in [Dispatch -> Job] /\ fin' \in [Dispatch -> Finalize]
         /\ batch' \in [Dispatch -> [BatchNo -> Batch]]
<1> DEFINE N == BatchesOf(d)  n == Cardinality(job[d].ids)
<1>1. BulkTypes /\ job[d] \in Job /\ fin[d] \in Finalize /\ job[d].ids \in SUBSET Phone
  BY Owner DEF Sound, Job
<1>2. PICK m, again :
        /\ again \in BOOLEAN /\ Publish(d, N, m, again) /\ (again => PublishFails(d))
        /\ EnqueueBatches(d) => m = N
  <2>1. CASE EnqueueBatches(d)
    <3>1. Publish(d, N, N, FALSE)
      BY <2>1 DEF EnqueueBatches
    <3> HIDE DEF N
    <3> QED
      BY <2>1, <3>1
  <2>2. CASE ~EnqueueBatches(d)
    <3>1. PICK m : Publish(d, N, m, job[d].tries < DispatchRetries)
      BY <2>2 DEF Enqueues, PublishFails
    <3>2. PublishFails(d)
      BY <2>2 DEF Enqueues
    <3> DEFINE x == job[d].tries < DispatchRetries
    <3>3. Publish(d, N, m, x) /\ x \in BOOLEAN
      BY <3>1
    <3> HIDE DEF N, x
    <3> QED
      BY <2>2, <3>2, <3>3
  <2> QED
    BY <2>1, <2>2
<1>3. /\ job[d].pc = "committed"
      /\ job' = [job EXCEPT ![d] = [job[d] EXCEPT !.pc = "enqueued", !.again = again]]
      /\ fin' = [fin EXCEPT ![d] = [fin[d] EXCEPT !.pc = "waiting"]]
      /\ UNCHANGED <<status, segs, contact, campaign, row, event, money, price, edit, provider>>
  BY <1>2 DEF Publish
<1>4. job[d].sms \in Sms
  BY <1>3, Owner
<1> DEFINE j == [job[d] EXCEPT !.pc = "enqueued", !.again = again]
           f == [fin[d] EXCEPT !.pc = "waiting"]
<1>5. /\ j \in Job /\ j.pc = "enqueued" /\ j.sms = job[d].sms /\ j.est = job[d].est
      /\ j.audience = job[d].audience /\ j.counted = job[d].counted /\ j.ids = job[d].ids
      /\ j.again = again /\ f \in Finalize /\ f.pc = "waiting"
  <2>1. again \in BOOLEAN
    BY <1>2
  <2>2. /\ j \in Job /\ j.pc = "enqueued" /\ j.sms = job[d].sms /\ j.est = job[d].est
        /\ j.audience = job[d].audience /\ j.counted = job[d].counted /\ j.ids = job[d].ids
        /\ j.again = again
    BY <1>1, <2>1 DEF Job
  <2>3. f \in Finalize /\ f.pc = "waiting"
    BY <1>1 DEF Finalize
  <2> QED
    BY <2>2, <2>3
<1>6. job' = [job EXCEPT ![d] = j] /\ fin' = [fin EXCEPT ![d] = f]
  BY <1>3
<1>7. /\ job'[d] = j /\ \A e \in Dispatch \ {d} : job'[e] = job[e] /\ fin'[e] = fin[e]
      /\ fin'[d] = f /\ job' \in [Dispatch -> Job] /\ fin' \in [Dispatch -> Finalize]
  <2> HIDE DEF j, f
  <2> QED
    BY <1>1, <1>5, <1>6 DEF BulkTypes
<1>8. PICK ids \in Bijection(1 .. n, job[d].ids) :
        batch' = [batch EXCEPT ![d] = Published(N, m, ids)]
  BY <1>2 DEF Publish
<1> DEFINE q == Published(N, m, ids)
<1>8a. batch' = [batch EXCEPT ![d] = q]
  BY <1>8
<1>9. ids \in [1 .. n -> job[d].ids]
  BY <1>8 DEF Bijection, Injection, Surjection
<1>10. n \in Nat /\ N \in Int /\ N = CeilDiv(n, BatchSize) /\ BatchNo \subseteq Int
  <2>1. n \in Nat /\ BatchSize \in Nat \ {0} /\ Cardinality(Phone) \in Nat
    BY <1>1, Finite, SendAssumption
  <2> QED
    BY <2>1 DEF BatchesOf, CeilDiv, BatchNo
<1>11. ASSUME NEW k \in BatchNo
       PROVE  /\ q[k] \in Batch
              /\ q[k].todo = {} /\ q[k].cur = NoPhone /\ q[k].result = "none"
              /\ q[k].transient = {} /\ q[k].events = {}
              /\ k <= N => /\ q[k].pc \in {"queued", "lost"} /\ q[k].ids = Slice(ids, k)
              /\ k > N => q[k] = NoBatch
              /\ EnqueueBatches(d) => q[k].pc # "lost"
  <2> DEFINE x == IF k <= m THEN "queued" ELSE "lost"
             b == [NoBatch EXCEPT !.pc = x, !.ids = Slice(ids, k)]
  <2>1. q[k] = IF k > N THEN NoBatch ELSE b
    BY DEF Published
  <2>2. Slice(ids, k) \in SUBSET Phone /\ x \in {"queued", "lost"}
    BY <1>1, <1>9 DEF Slice
  <2>3. x # "lost" \/ ~(k <= m)
    OBVIOUS
  <2> HIDE DEF x
  <2>4. /\ b \in Batch /\ b.pc = x /\ b.ids = Slice(ids, k)
        /\ b.todo = {} /\ b.cur = NoPhone /\ b.result = "none" /\ b.transient = {}
        /\ b.events = {} 
    BY <2>2, FirstTyped DEF Batch, NoBatch
  <2>5. /\ NoBatch \in Batch /\ NoBatch.todo = {} /\ NoBatch.cur = NoPhone
        /\ NoBatch.result = "none" /\ NoBatch.transient = {} /\ NoBatch.events = {}
        /\ NoBatch.pc # "lost"
    BY FirstTyped DEF NoBatch
  <2> HIDE DEF b, q, N
  <2>6. CASE k > N
    BY <1>10, <2>1, <2>5, <2>6
  <2>7. CASE k <= N
    BY <1>2, <1>10, <2>1, <2>2, <2>3, <2>4, <2>7
  <2> QED
    BY <1>10, <2>6, <2>7
<1>12. q = [k \in BatchNo |-> q[k]]
  BY DEF Published
<1>13. q \in [BatchNo -> Batch] /\ batch' = [batch EXCEPT ![d] = q]
  <2> HIDE DEF q
  <2> QED
    BY <1>8a, <1>11, <1>12
<1>14. /\ batch'[d] = q /\ \A e \in Dispatch \ {d} : batch'[e] = batch[e]
       /\ batch' \in [Dispatch -> [BatchNo -> Batch]]
  <2> HIDE DEF q
  <2> QED
    BY <1>1, <1>13 DEF BulkTypes
<1>15. PublishedAs(d, n, ids, q)
  <2> HIDE DEF q, n, N
  <2> QED
    BY <1>1, <1>8, <1>10, <1>11, <1>13, <1>14 DEF PublishedAs, n
<1>16. /\ used' \in Use /\ used'.faults >= used.faults
       /\ EnqueueBatches(d) => used' = used
       /\ PublishFails(d) => used'.faults > 0
       /\ \A x \in {"edits", "refreshes", "optOuts"} : used'[x] = used[x]
  <2>1. used \in Use /\ used.faults \in Nat
    BY <1>1, EnvironmentAssumption DEF BulkTypes, Use
  <2>2. CASE EnqueueBatches(d)
    <3>1. used' = used
      BY <2>2 DEF EnqueueBatches
    <3>2. ~PublishFails(d)
      <4>1. ASSUME PublishFails(d) PROVE FALSE
        <5>1. used' = [used EXCEPT !.faults = used.faults + 1]
          BY <4>1 DEF PublishFails
        <5>2. used'.faults = used.faults + 1
          BY <2>1, <5>1 DEF Use
        <5> QED
          BY <2>1, <3>1, <5>2
      <4> QED
        BY <4>1
    <3> QED
      BY <2>1, <3>1, <3>2
  <2>3. CASE PublishFails(d)
    <3>1. used' = [used EXCEPT !.faults = used.faults + 1] /\ used.faults < MaxFaults
      BY <2>3 DEF PublishFails
    <3>2. used' \in Use
      BY <2>1, <3>1, UsedTyped
    <3>3. used'.faults = used.faults + 1
      BY <2>1, <3>1 DEF Use
    <3>4. \A x \in {"edits", "refreshes", "optOuts"} : used'[x] = used[x]
      BY <2>1, <3>1 DEF Use
    <3>5. ~EnqueueBatches(d)
      <4>1. ASSUME EnqueueBatches(d) PROVE used' = used
        BY <4>1 DEF EnqueueBatches
      <4> QED
        BY <2>1, <3>3, <4>1
    <3> QED
      BY <2>1, <3>2, <3>3, <3>4, <3>5
  <2> QED
    BY <2>2, <2>3 DEF Enqueues
<1> HIDE DEF q, n, N
<1>17. \E x, y, z : PublishedAs(d, x, y, z)
  BY <1>15
<1> QED
  BY <1>1, <1>2, <1>3, <1>4, <1>5, <1>7, <1>14, <1>16, <1>17

\* At the start every variable has its type.
LEMMA TypesInit ==
  Init => BulkTypes
<1> SUFFICES ASSUME Init
             PROVE  BulkTypes
  OBVIOUS
<1> USE DEF Init
<1>1. /\ FreeJob \in Job /\ NoBatch \in Batch /\ NoFin \in Finalize /\ NoEdit \in Edit
      /\ <<>> \in Recipients
  BY FirstTyped
<1>2. status \in [Sms -> SmsStatus] /\ segs \in [Sms -> Segments] /\ price \in Prices
  BY DEF SmsStatus
<1>3. contact \in [Phone -> {"absent", "subscribed", "unsubscribed"}]
  OBVIOUS
<1>4. row \in [Sms -> Recipients]
  BY <1>1
<1>5. balance \in Int /\ reserved \in Int
  BY SendAssumption
<1>6. ledger \in [Sms -> Entries]
  BY DEF Entries
<1>7. job \in [Dispatch -> Job] /\ fin \in [Dispatch -> Finalize]
  BY <1>1
<1>8. batch \in [Dispatch -> [BatchNo -> Batch]]
  BY <1>1
<1>9. edit \in Edit
  BY <1>1
<1>10. used \in Use
  BY EnvironmentAssumption DEF Use
<1>11. /\ accepted \in [Sms -> [Phone -> Nat]] /\ unconfirmed \in [Sms -> [Phone -> Nat]]
  OBVIOUS
<1> QED
  BY <1>2, <1>3, <1>4, <1>5, <1>6, <1>7, <1>8, <1>9, <1>10, <1>11 DEF BulkTypes

\* One task moves on.
LEMMA JobMoves ==
  ASSUME BulkTypes, NEW d \in Dispatch, NEW j \in Job, job' = [job EXCEPT ![d] = j]
  PROVE  job' \in [Dispatch -> Job]
BY DEF BulkTypes

\* Trying again moves one task, to "queued" or "failed".
LEMMA RetryMoves ==
  ASSUME BulkTypes, NEW d \in Dispatch, RetryDispatch(d)
  PROVE  /\ job' \in [Dispatch -> Job] /\ job'[d].sms = job[d].sms
         /\ job'[d].pc \in {"queued", "failed"}
         /\ \A e \in Dispatch \ {d} : job'[e] = job[e]
<1>1. job[d] \in Job
  BY DEF BulkTypes
<1> DEFINE a == [FreeJob EXCEPT !.pc = "queued", !.sms = job[d].sms, !.tries = job[d].tries + 1]
           b == [job[d] EXCEPT !.pc = "failed"]
<1>2. /\ a \in Job /\ a.pc = "queued" /\ a.sms = job[d].sms
      /\ b \in Job /\ b.pc = "failed" /\ b.sms = job[d].sms
  <2>1. /\ FreeJob \in Job /\ job[d].sms \in Sms \cup {NoSms} /\ job[d].tries + 1 \in Nat
    BY <1>1, FirstTyped DEF Job
  <2>2. a \in Job /\ a.pc = "queued" /\ a.sms = job[d].sms
    BY <2>1 DEF Job
  <2>3. b \in Job /\ b.pc = "failed" /\ b.sms = job[d].sms
    BY <1>1 DEF Job
  <2> QED
    BY <2>2, <2>3
<1>3. PICK j \in {a, b} : job' = [job EXCEPT ![d] = j]
  BY DEF RetryDispatch
<1> HIDE DEF a, b
<1> QED
  BY <1>2, <1>3 DEF BulkTypes

\* One message is booked on.
LEMMA LedgerMoves ==
  ASSUME BulkTypes, NEW s \in Sms, NEW e \in Entries, ledger' = [ledger EXCEPT ![s] = e]
  PROVE  /\ ledger' \in [Sms -> Entries] /\ ledger'[s] = e
         /\ \A t \in Sms \ {s} : ledger'[t] = ledger[t]
BY DEF BulkTypes

\* One phone is counted on.
LEMMA CountMoves ==
  ASSUME NEW f \in [Sms -> [Phone -> Nat]], NEW s \in Sms, NEW p \in Phone, NEW g,
         g = [f EXCEPT ![s][p] = f[s][p] + 1]
  PROVE  /\ g \in [Sms -> [Phone -> Nat]]
         /\ g[s][p] = f[s][p] + 1
         /\ \A q \in Phone \ {p} : g[s][q] = f[s][q]
         /\ \A t \in Sms \ {s} : g[t] = f[t]
<1> DEFINE n == f[s][p] + 1
<1>1. n \in Nat /\ f[s] \in [Phone -> Nat] /\ g = [f EXCEPT ![s] = [f[s] EXCEPT ![p] = n]]
  OBVIOUS
<1> HIDE DEF n
<1>2. [f[s] EXCEPT ![p] = n] \in [Phone -> Nat]
  BY <1>1
<1>3. g \in [Sms -> [Phone -> Nat]]
  BY <1>1, <1>2
<1>4. g[s] = [f[s] EXCEPT ![p] = n] /\ \A t \in Sms \ {s} : g[t] = f[t]
  BY <1>1
<1>5. g[s][p] = n /\ \A q \in Phone \ {p} : g[s][q] = f[s][q]
  BY <1>1, <1>4
<1> QED
  BY <1>3, <1>4, <1>5 DEF n

\* Every step of the tasks and of the environment keeps the types.
LEMMA TypesStep ==
  Sound /\ [Next]_vars => BulkTypes'
<1> SUFFICES ASSUME Sound, [Next]_vars
             PROVE  BulkTypes'
  OBVIOUS
<1> USE DEF money, world, provider
<1>0. BulkTypes /\ TasksSound /\ RowsSound
  BY DEF Sound
<1>1. ASSUME NEW d \in Dispatch, NEW s \in Sms, RequestSend(d, s)
      PROVE  BulkTypes'
  <2>1. job[d] \in Job
    BY <1>0 DEF BulkTypes
  <2>2. [job[d] EXCEPT !.pc = "queued", !.sms = s] \in Job
    BY <2>1 DEF Job
  <2>3. job' \in [Dispatch -> Job]
    BY <1>0, <1>1, <2>2, JobMoves DEF RequestSend
  <2> QED
    BY <1>0, <1>1, <2>3 DEF RequestSend, BulkTypes
<1>2. ASSUME NEW d \in Dispatch, LoadSms(d)
      PROVE  BulkTypes'
  <2>1. job[d] \in Job /\ Eligible \in SUBSET (Phone \ Blocked)
    BY <1>0, <1>2 DEF BulkTypes, LoadSms, CanSendTo, Eligible
  <2>2. [job[d] EXCEPT !.pc = "loaded", !.audience = Eligible] \in Job
    BY <2>1 DEF Job
  <2>3. job' \in [Dispatch -> Job]
    BY <1>0, <1>2, <2>2, JobMoves DEF LoadSms
  <2> QED
    BY <1>0, <1>2, <2>3 DEF LoadSms, BulkTypes
<1>3. ASSUME NEW d \in Dispatch, EstimateCost(d)
      PROVE  BulkTypes'
  <2>1. job[d] \in Job /\ job[d].sms \in Sms
    BY <1>0, <1>3, Owner DEF EstimateCost, Sound
  <2>2. Cardinality(Eligible) \in Nat
    BY Finite DEF Eligible
  <2>3. Estimate(job[d].sms) \in Nat
    BY <1>0, <2>1, <2>2, CostTyped DEF Estimate
  <2>4. [job[d] EXCEPT !.pc = "estimated", !.counted = Eligible,
                      !.est = Estimate(job[d].sms)] \in Job
    <3>1. Eligible \in SUBSET Phone
      BY DEF Eligible
    <3> QED
      BY <2>1, <2>3, <3>1 DEF Job
  <2>5. job' \in [Dispatch -> Job]
    BY <1>0, <1>3, <2>4, JobMoves DEF EstimateCost
  <2> QED
    BY <1>0, <1>3, <2>5 DEF EstimateCost, BulkTypes
<1>4. ASSUME NEW d \in Dispatch, RejectDispatch(d)
      PROVE  BulkTypes'
  <2>1. job[d] \in Job
    BY <1>0 DEF BulkTypes
  <2>2. [job[d] EXCEPT !.pc = "failed"] \in Job
    BY <2>1 DEF Job
  <2>3. job' \in [Dispatch -> Job]
    BY <1>0, <1>4, <2>2, JobMoves DEF RejectDispatch
  <2>4. status' \in [Sms -> SmsStatus]
    BY <1>0, <1>4 DEF RejectDispatch, BulkTypes, SmsStatus
  <2> QED
    BY <1>0, <1>4, <2>3, <2>4 DEF RejectDispatch, BulkTypes
<1>5. ASSUME NEW d \in Dispatch, ReserveAndQueue(d)
      PROVE  BulkTypes'
  <2> DEFINE s == job[d].sms  rows == BuildRecipients(s, job[d].audience)
  <2>1. job[d] \in Job /\ s \in Sms
    BY <1>0, <1>5, Owner DEF ReserveAndQueue, Sound
  <2>2. job[d].audience \in SUBSET (Phone \ Blocked) /\ job[d].est \in Nat
    BY <2>1 DEF Job
  <2>3. rows \in Recipients
    BY <1>0, <2>1, <2>2, BuildTyped
  <2>4. QueuedIn(rows) \in SUBSET Phone
    BY <2>3, RowsTyped DEF QueuedIn
  <2>5. [job[d] EXCEPT !.pc = "committed", !.ids = QueuedIn(rows)] \in Job
    <3> HIDE DEF rows
    <3> QED
      BY <2>1, <2>4 DEF Job
  <2>6. job' \in [Dispatch -> Job]
    BY <1>0, <1>5, <2>5, JobMoves DEF ReserveAndQueue
  <2>7. row' \in [Sms -> Recipients] /\ status' \in [Sms -> SmsStatus]
    BY <1>0, <1>5, <2>3 DEF ReserveAndQueue, BulkTypes, SmsStatus
  <2>8. ledger[s] \in Entries
    BY <1>0, <2>1 DEF BulkTypes
  <2>9. [ledger[s] EXCEPT !.reservation = ledger[s].reservation + job[d].est,
                          !.latest = job[d].est] \in Entries
    BY <2>2, <2>8, EntryTyped
  <2>10. ledger' \in [Sms -> Entries]
    <3> DEFINE e == [ledger[s] EXCEPT !.reservation = ledger[s].reservation + job[d].est,
                                      !.latest = job[d].est]
    <3>0. Reserve(s, job[d].est)
      BY <1>5 DEF ReserveAndQueue
    <3>1. ledger' = [ledger EXCEPT ![s] = e]
      BY <3>0 DEF Reserve
    <3>2. e \in Entries
      BY <2>9
    <3> HIDE DEF e, s
    <3> QED
      BY <1>0, <2>1, <3>1, <3>2, LedgerMoves
  <2>11. balance' \in Int /\ reserved' \in Int
    BY <1>0, <1>5, <2>2 DEF ReserveAndQueue, Reserve, BulkTypes
  <2> QED
    BY <1>0, <1>5, <2>6, <2>7, <2>10, <2>11 DEF ReserveAndQueue, BulkTypes
<1>6. ASSUME NEW d \in Dispatch, InsufficientCredits(d)
      PROVE  BulkTypes'
  <2>1. job' \in [Dispatch -> Job]
    BY <1>0, <1>6, RetryMoves DEF InsufficientCredits
  <2> QED
    BY <1>0, <1>6, <2>1 DEF InsufficientCredits, BulkTypes
<1>7. ASSUME NEW d \in Dispatch, Enqueues(d)
      PROVE  BulkTypes'
  <2>1. /\ job' \in [Dispatch -> Job] /\ fin' \in [Dispatch -> Finalize] /\ used' \in Use
        /\ batch' \in [Dispatch -> [BatchNo -> Batch]]
        /\ UNCHANGED <<status, segs, contact, campaign, row, event, money, price, edit, provider>>
    BY <1>7, EnqueueEffect
  <2> QED
    BY <1>0, <2>1 DEF BulkTypes
<1>8. ASSUME NEW d \in Dispatch, NEW k \in BatchNo, StartBatch(d, k)
      PROVE  BulkTypes'
  <2>1. batch[d][k] \in Batch
    BY <1>0 DEF BulkTypes
  <2> DEFINE b == [batch[d][k] EXCEPT !.pc = "running",
                      !.todo = batch[d][k].ids \cap QueuedIn(row[job[d].sms])]
  <2>2. b \in Batch
    BY <2>1 DEF Batch
  <2>3. batch' = [batch EXCEPT ![d][k] = b]
    BY <1>8 DEF StartBatch
  <2> HIDE DEF b
  <2>4. batch' \in [Dispatch -> [BatchNo -> Batch]]
    BY <1>0, <2>2, <2>3, BatchMoves
  <2> QED
    BY <1>0, <1>8, <2>4 DEF StartBatch, BulkTypes
<1>9. ASSUME NEW d \in Dispatch, NEW k \in BatchNo, NEW p \in Phone, NEW o \in Outcomes,
             SendToProvider(d, k, p, o)
      PROVE  BulkTypes'
  <2>1. batch[d][k] \in Batch
    BY <1>0 DEF BulkTypes
  <2> DEFINE r == IF o = "lost_reply" THEN "transient" ELSE o
             b == [batch[d][k] EXCEPT !.cur = p, !.todo = @ \ {p}, !.result = r]
  <2>2. r \in {"success", "permanent", "transient"}
    BY EnvironmentAssumption
  <2>3. batch' = [batch EXCEPT ![d][k] = b]
    BY <1>9 DEF SendToProvider
  <2>4. b \in Batch
    <3> HIDE DEF r
    <3> QED
      BY <2>1, <2>2 DEF Batch
  <2> HIDE DEF b
  <2>5. batch' \in [Dispatch -> [BatchNo -> Batch]]
    BY <1>0, <2>3, <2>4, BatchMoves
  <2> DEFINE s == job[d].sms
  <2>6. s \in Sms /\ accepted \in [Sms -> [Phone -> Nat]] /\ unconfirmed \in [Sms -> [Phone -> Nat]]
    BY <1>0, <1>9, Owner DEF SendToProvider, BulkTypes
  <2>7. /\ accepted' = accepted \/ accepted' = [accepted EXCEPT ![s][p] = accepted[s][p] + 1]
        /\ \/ unconfirmed' = unconfirmed
           \/ unconfirmed' = [unconfirmed EXCEPT ![s][p] = unconfirmed[s][p] + 1]
    BY <1>9 DEF SendToProvider
  <2> HIDE DEF s
  <2>8. accepted' \in [Sms -> [Phone -> Nat]] /\ unconfirmed' \in [Sms -> [Phone -> Nat]]
    <3> DEFINE A == [accepted EXCEPT ![s][p] = accepted[s][p] + 1]
               U == [unconfirmed EXCEPT ![s][p] = unconfirmed[s][p] + 1]
    <3>1. A \in [Sms -> [Phone -> Nat]]
      BY <2>6, CountMoves
    <3>2. U \in [Sms -> [Phone -> Nat]]
      BY <2>6, CountMoves
    <3>3. /\ accepted' = accepted \/ accepted' = A
          /\ unconfirmed' = unconfirmed \/ unconfirmed' = U
      BY <2>7
    <3> HIDE DEF A, U
    <3> QED
      BY <2>6, <3>1, <3>2, <3>3
  <2> QED
    BY <1>0, <1>9, <2>5, <2>8 DEF SendToProvider, BulkTypes
<1>10. ASSUME NEW d \in Dispatch, NEW k \in BatchNo, SaveRecipient(d, k)
       PROVE  BulkTypes'
  <2> DEFINE s == job[d].sms  c == batch[d][k]
             e == <<s, c.cur, IF c.result = "success" THEN "sent" ELSE "failed">>
             T == IF c.result = "transient" THEN c.transient \cup {c.cur} ELSE c.transient
             b == [c EXCEPT !.cur = NoPhone, !.result = "none", !.transient = T,
                            !.events = c.events \cup {e}]
             x == [status |-> ResultStatus(c.result), known |-> c.result = "success"]
  <2>1. c \in Batch /\ c.pc = "running" /\ c.cur # NoPhone
    BY <1>0, <1>10 DEF BulkTypes, SaveRecipient
  <2>2. s \in Sms /\ BatchSound(c, DOMAIN row[s], accepted[s])
    BY <2>1, Owner
  <2>3. c.cur \in Phone /\ c.cur \in DOMAIN row[s] /\ c.result \in {"success", "permanent", "transient"}
    BY <2>1, <2>2 DEF BatchSound, Batch
  <2>4. e \in Sms \X Phone \X {"sent", "failed"} /\ T \in SUBSET Phone
    BY <2>1, <2>2, <2>3 DEF Batch
  <2>5. b \in Batch
    <3> HIDE DEF c, e, T
    <3> QED
      BY <2>1, <2>4 DEF Batch
  <2>6. batch' = [batch EXCEPT ![d][k] = b]
    BY <1>10 DEF SaveRecipient
  <2>7. x \in Recipient
    BY <2>3 DEF Recipient, ResultStatus
  <2>8. row' = [row EXCEPT ![s][c.cur] = x]
    BY <1>10 DEF SaveRecipient
  <2> HIDE DEF b, x, s, c
  <2>9. batch' \in [Dispatch -> [BatchNo -> Batch]]
    BY <1>0, <2>5, <2>6, BatchMoves
  <2>10. row' \in [Sms -> Recipients]
    BY <1>0, <2>2, <2>3, <2>7, <2>8, RowMoves
  <2> QED
    BY <1>0, <1>10, <2>9, <2>10 DEF SaveRecipient, BulkTypes
<1>11. ASSUME NEW d \in Dispatch, NEW k \in BatchNo, FlushEvents(d, k)
       PROVE  BulkTypes'
  <2> DEFINE b == [batch[d][k] EXCEPT !.events = {}]
  <2>1. batch[d][k] \in Batch /\ {} \in SUBSET (Sms \X Phone \X {"sent", "failed"})
    BY <1>0 DEF BulkTypes
  <2>3. b \in Batch
    BY <2>1 DEF Batch
  <2>2. batch' = [batch EXCEPT ![d][k] = b]
    BY <1>11 DEF FlushEvents
  <2> HIDE DEF b
  <2>4. batch' \in [Dispatch -> [BatchNo -> Batch]]
    BY <1>0, <2>3, <2>2, BatchMoves
  <2> QED
    BY <1>0, <1>11, <2>4 DEF FlushEvents, BulkTypes
<1>12. ASSUME NEW d \in Dispatch, NEW k \in BatchNo, RetryBatch(d, k)
       PROVE  BulkTypes'
  <2> DEFINE c == batch[d][k]
             n == Least(c.tries + 1, BatchRetries)
             b == [NoBatch EXCEPT !.pc = "queued", !.ids = c.transient, !.tries = n]
  <2>1. c \in Batch
    BY <1>0 DEF BulkTypes
  <2>2. n \in Nat /\ c.transient \in SUBSET Phone
    BY <2>1, SendAssumption DEF Batch, Least
  <2>3. b \in Batch
    <3> HIDE DEF n, c
    <3> QED
      BY <2>2, FirstTyped DEF Batch
  <2>4. batch' = [batch EXCEPT ![d][k] = b]
    BY <1>12 DEF RetryBatch
  <2> HIDE DEF b
  <2>5. batch' \in [Dispatch -> [BatchNo -> Batch]]
    BY <1>0, <2>3, <2>4, BatchMoves
  <2> QED
    BY <1>0, <1>12, <2>5 DEF RetryBatch, BulkTypes
<1>13. ASSUME NEW d \in Dispatch, NEW k \in BatchNo, EndBatch(d, k)
       PROVE  BulkTypes'
  <2> DEFINE s == job[d].sms  c == batch[d][k]
             b == [c EXCEPT !.pc = "done", !.transient = {}]
  <2>1. c \in Batch /\ c.pc # "none"
    BY <1>0, <1>13 DEF BulkTypes, EndBatch, LoopDone
  <2>2. b \in Batch /\ s \in Sms
    BY <2>1, Owner DEF Batch
  <2>3. batch' = [batch EXCEPT ![d][k] = b] /\ row' = [row EXCEPT ![s] = GiveUp(s, c.transient)]
    BY <1>13 DEF EndBatch
  <2>4. GiveUp(s, c.transient) \in Recipients
    BY <1>0, <2>2, GiveUpTyped
  <2> HIDE DEF b, s, c
  <2>5. batch' \in [Dispatch -> [BatchNo -> Batch]]
    BY <1>0, <2>2, <2>3, BatchMoves
  <2>6. row' \in [Sms -> Recipients]
    BY <1>0, <2>3, <2>4 DEF BulkTypes
  <2> QED
    BY <1>0, <1>13, <2>5, <2>6 DEF EndBatch, BulkTypes
<1>14. ASSUME NEW d \in Dispatch, Reads(d)
       PROVE  BulkTypes'
  <2>1. /\ fin'[d] \in Finalize /\ fin' = [fin EXCEPT ![d] = fin'[d]]
        /\ UNCHANGED <<status, segs, campaign, row, event, money, world, job, batch, provider>>
    BY <1>14, ReadsEffect
  <2>2. fin' \in [Dispatch -> Finalize]
    BY <1>0, <2>1 DEF BulkTypes
  <2> QED
    BY <1>0, <2>1, <2>2 DEF BulkTypes
<1>15. ASSUME NEW d \in Dispatch, RollUp(d)
       PROVE  BulkTypes'
  <2>0. fin[d] \in Finalize
    BY <1>0 DEF BulkTypes
  <2>1. fin' \in [Dispatch -> Finalize]
    <3>1. [fin[d] EXCEPT !.pc = "rolled"] \in Finalize
      BY <2>0 DEF Finalize
    <3> QED
      BY <1>0, <1>15, <3>1 DEF RollUp, BulkTypes
  <2>2. status' \in [Sms -> SmsStatus]
    <3>1. fin[d].status \in SmsStatus
      BY <2>0 DEF Finalize
    <3> QED
      BY <1>0, <1>15, <3>1 DEF RollUp, BulkTypes
  <2> QED
    BY <1>0, <1>15, <2>1, <2>2 DEF RollUp, BulkTypes
<1>16. ASSUME NEW d \in Dispatch, DebitActual(d)
       PROVE  BulkTypes'
  <2> DEFINE s == job[d].sms  a == fin[d].actual
             e == [ledger[s] EXCEPT !.debit = ledger[s].debit + a]
  <2>1. s \in Sms /\ fin[d] \in Finalize
    BY <1>16, Owner DEF DebitActual
  <2>2. ledger[s] \in Entries /\ a \in Nat
    BY <1>0, <2>1 DEF BulkTypes, Finalize
  <2>3. e \in Entries
    BY <2>2, EntryTyped
  <2>4. DebitFunds(s, a)
    BY <1>16 DEF DebitActual
  <2> HIDE DEF a
  <2>5. /\ balance' \in Int /\ reserved' \in Int /\ ledger' \in [Sms -> Entries]
    <3>1. CASE a > 0 /\ reserved >= a
      <4>1. ledger' = [ledger EXCEPT ![s] = e] /\ balance' = balance - a /\ reserved' = reserved - a
        BY <2>4, <3>1 DEF DebitFunds
      <4>2. balance' \in Int /\ reserved' \in Int
        BY <1>0, <2>2, <4>1 DEF BulkTypes
      <4> HIDE DEF e, s
      <4> QED
        BY <1>0, <2>1, <2>3, <4>1, <4>2, LedgerMoves
    <3> QED
      BY <1>0, <2>4, <3>1 DEF DebitFunds, BulkTypes
  <2>6. fin' \in [Dispatch -> Finalize]
    <3>1. [fin[d] EXCEPT !.pc = "debited"] \in Finalize
      BY <2>1 DEF Finalize
    <3> QED
      BY <1>0, <1>16, <3>1 DEF DebitActual, BulkTypes
  <2> QED
    BY <1>0, <1>16, <2>5, <2>6 DEF DebitActual, BulkTypes
<1>17. ASSUME NEW d \in Dispatch, ReleaseRest(d)
       PROVE  BulkTypes'
  <2> DEFINE s == job[d].sms  r == OverReserved(fin[d])
  <2>1. s \in Sms /\ fin[d] \in Finalize
    BY <1>17, Owner DEF ReleaseRest
  <2>2. ledger[s] \in Entries /\ r \in Int
    <3>1. fin[d].est \in Nat /\ fin[d].actual \in Nat
      BY <2>1 DEF Finalize
    <3> QED
      BY <1>0, <2>1, <3>1 DEF BulkTypes, OverReserved
  <2>3. fin' \in [Dispatch -> Finalize]
    BY <1>0, <1>17, <2>1 DEF ReleaseRest, BulkTypes, Finalize
  <2>4. reserved' \in Int /\ ledger' \in [Sms -> Entries]
    <3>1. CASE r > 0
      <4> DEFINE e == [ledger[s] EXCEPT !.adjustment = ledger[s].adjustment + r]
      <4>1. ledger' = [ledger EXCEPT ![s] = e] /\ reserved' = reserved - r
        BY <1>17, <3>1 DEF ReleaseRest
      <4> HIDE DEF r
      <4>2. r \in Nat
        BY <2>2, <3>1
      <4>3. e \in Entries
        BY <2>2, <4>2, EntryTyped
      <4>4. reserved' \in Int
        BY <1>0, <4>1, <4>2 DEF BulkTypes
      <4> HIDE DEF e, s
      <4> QED
        BY <1>0, <2>1, <4>1, <4>3, <4>4, LedgerMoves
    <3> QED
      BY <1>0, <1>17, <3>1 DEF ReleaseRest, BulkTypes
  <2> QED
    BY <1>0, <1>17, <2>3, <2>4 DEF ReleaseRest, BulkTypes
<1>18. ASSUME NEW s \in Sms, EditRead(s)
       PROVE  BulkTypes'
  <2>1. edit' \in Edit
    <3>1. status[s] \in SmsStatus
      BY <1>0 DEF BulkTypes
    <3> QED
      BY <1>18, <3>1 DEF EditRead, Edit
  <2>2. used' \in Use
    BY <1>0, <1>18, UsedTyped DEF EditRead, BulkTypes
  <2> QED
    BY <1>0, <1>18, <2>1, <2>2 DEF EditRead, BulkTypes
<1>19. ASSUME NEW t \in SmsStatus, NEW g \in Segments, EditSave(t, g)
       PROVE  BulkTypes'
  <2>1. status' \in [Sms -> SmsStatus] /\ segs' \in [Sms -> Segments] /\ edit' \in Edit
    BY <1>0, <1>19, FirstTyped DEF EditSave, BulkTypes
  <2> QED
    BY <1>0, <1>19, <2>1 DEF EditSave, BulkTypes
<1>20. ASSUME NEW s \in Sms, NEW p \in Phone, OptOut(s, p)
       PROVE  BulkTypes'
  <2>1. p \in DOMAIN row[s] /\ row[s] \in Recipients
    BY <1>0, <1>20 DEF OptOut, RowsSound, RowSound, BulkTypes
  <2> DEFINE x == [row[s][p] EXCEPT !.status = "opted_out"]
  <2>2. x \in Recipient
    BY <2>1, RowsTyped, RecipientTyped
  <2>3. row' = [row EXCEPT ![s][p] = x]
    BY <1>20 DEF OptOut
  <2> HIDE DEF x
  <2>4. row' \in [Sms -> Recipients]
    BY <1>0, <2>1, <2>2, <2>3, RowMoves
  <2>5. contact' \in [Phone -> {"absent", "subscribed", "unsubscribed"}]
    BY <1>0, <1>20 DEF OptOut, BulkTypes
  <2>6. used' \in Use
    BY <1>0, <1>20, UsedTyped DEF OptOut, BulkTypes
  <2> QED
    BY <1>0, <1>20, <2>4, <2>5, <2>6 DEF OptOut, BulkTypes
<1>21. ASSUME NEW s \in Sms, NEW p \in Phone, NEW v \in Reports, DeliveryReport(s, p, v)
       PROVE  BulkTypes'
  <2>1. p \in DOMAIN row[s] /\ row[s] \in Recipients
    BY <1>0, <1>21 DEF DeliveryReport, BulkTypes
  <2> DEFINE x == [row[s][p] EXCEPT !.status = ReportedStatus(v)]
  <2>2. ReportedStatus(v) \in {"sent", "delivered", "undelivered"}
    BY EnvironmentAssumption DEF ReportedStatus
  <2>3. x \in Recipient
    BY <2>1, <2>2, RowsTyped, RecipientTyped
  <2>4. row' = [row EXCEPT ![s][p] = x]
    BY <1>21 DEF DeliveryReport
  <2> HIDE DEF x
  <2>5. row' \in [Sms -> Recipients]
    BY <1>0, <2>1, <2>3, <2>4, RowMoves
  <2> QED
    BY <1>0, <1>21, <2>5 DEF DeliveryReport, BulkTypes
<1>22. ASSUME NEW p \in Phone, JoinSegment(p)
       PROVE  BulkTypes'
  BY <1>0, <1>22 DEF JoinSegment, BulkTypes
<1>23. ASSUME RefreshPrices
       PROVE  BulkTypes'
  <2>1. used' \in Use
    BY <1>0, <1>23, UsedTyped DEF RefreshPrices, BulkTypes
  <2> QED
    BY <1>0, <1>23, <2>1 DEF RefreshPrices, BulkTypes
<1>24. ASSUME NEW d \in Dispatch, EnqueueFails(d)
       PROVE  BulkTypes'
  <2>1. job' \in [Dispatch -> Job]
    BY <1>0, <1>24, RetryMoves DEF EnqueueFails
  <2>2. used' \in Use
    BY <1>0, <1>24, UsedTyped DEF EnqueueFails, BulkTypes
  <2> QED
    BY <1>0, <1>24, <2>1, <2>2 DEF EnqueueFails, BulkTypes
<1>25. ASSUME NEW d \in Dispatch, Crash(d)
       PROVE  BulkTypes'
  <2>1. used' \in Use
    BY <1>0, <1>25, UsedTyped DEF Crash, BulkTypes
  <2>2. CASE /\ job' = [job EXCEPT ![d].pc = "lost"]
             /\ UNCHANGED <<batch, fin>>
    <3>0. job[d] \in Job
      BY <1>0 DEF BulkTypes
    <3>1. [job[d] EXCEPT !.pc = "lost"] \in Job
      BY <3>0 DEF Job
    <3>2. job' \in [Dispatch -> Job]
      BY <1>0, <2>2, <3>1, JobMoves
    <3> QED
      BY <1>0, <1>25, <2>1, <2>2, <3>2 DEF Crash, BulkTypes
  <2>3. CASE /\ fin' = [fin EXCEPT ![d].pc = "lost"]
             /\ UNCHANGED <<job, batch>>
    <3>1. fin' \in [Dispatch -> Finalize]
      BY <1>0, <2>3 DEF BulkTypes, Finalize
    <3> QED
      BY <1>0, <1>25, <2>1, <2>3, <3>1 DEF Crash, BulkTypes
  <2>4. ASSUME NEW k \in BatchNo, NEW after \in {"queued", "lost"},
               batch' = [batch EXCEPT ![d][k] =
                  [NoBatch EXCEPT !.pc = after, !.ids = batch[d][k].ids,
                                  !.tries = batch[d][k].tries]],
               UNCHANGED <<job, fin>>
        PROVE  BulkTypes'
    <3> DEFINE b == [NoBatch EXCEPT !.pc = after, !.ids = batch[d][k].ids,
                                    !.tries = batch[d][k].tries]
    <3>1. batch[d][k] \in Batch
      BY <1>0 DEF BulkTypes
    <3>2. b \in Batch
      BY <3>1, FirstTyped DEF Batch
    <3>3. batch' = [batch EXCEPT ![d][k] = b]
      BY <2>4
    <3> HIDE DEF b
    <3>4. batch' \in [Dispatch -> [BatchNo -> Batch]]
      BY <1>0, <3>2, <3>3, BatchMoves
    <3> QED
      BY <1>0, <1>25, <2>1, <2>4, <3>4 DEF Crash, BulkTypes
  <2> QED
    BY <1>25, <2>2, <2>3, <2>4 DEF Crash
<1>26. ASSUME UNCHANGED vars
       PROVE  BulkTypes'
  BY <1>0, <1>26 DEF vars, BulkTypes
<1>27. ASSUME NEW d \in Dispatch, RejectAgain(d)
       PROVE  BulkTypes'
  <2>1. [job[d] EXCEPT !.again = FALSE] \in Job
    BY ZenonT(30), <1>0 DEF BulkTypes, Job
  <2>2. job' \in [Dispatch -> Job]
    BY <1>0, <1>27, <2>1, JobMoves DEF RejectAgain
  <2>3. status' \in [Sms -> SmsStatus]
    BY <1>0, <1>27 DEF RejectAgain, BulkTypes, SmsStatus
  <2> QED
    BY <1>0, <1>27, <2>2, <2>3 DEF RejectAgain, BulkTypes
<1> QED
  BY <1>1, <1>2, <1>3, <1>4, <1>5, <1>6, <1>7, <1>8, <1>9, <1>10, <1>11, <1>12, <1>13, <1>14,
     <1>15, <1>16, <1>17, <1>18, <1>19, <1>20, <1>21, <1>22, <1>23, <1>24, <1>25, <1>26, <1>27
     DEF Next, DispatchStep, BatchStep, FinalizeStep, Environment, Enqueues, Reads

-----------------------------------------------------------------------------
(* What the steps that matter do, field by field *)

\* Only the batch k of d moves.
OneBatch(d, k) ==
  /\ \A l \in BatchNo \ {k} : batch'[d][l] = batch[d][l]
  /\ \A e \in Dispatch \ {d} : batch'[e] = batch[e]
  /\ job' = job /\ fin' = fin

\* The batch k of d is one that works on rows of s.
Working(d, k, s) ==
  /\ s = job[d].sms /\ s \in Sms /\ job[d].pc = "enqueued" /\ fin[d].pc # "none"
  /\ batch[d][k] \in Batch /\ batch'[d][k] \in Batch
  /\ BatchSound(batch[d][k], DOMAIN row[s], accepted[s])
  /\ OneBatch(d, k)

\* A batch starts: it takes the snapshot of the rows that are still queued.
LEMMA StartEffect ==
  ASSUME Sound, NEW d \in Dispatch, NEW k \in BatchNo, StartBatch(d, k)
  PROVE  LET s == job[d].sms  c == batch[d][k]  b == batch'[d][k] IN
         /\ Working(d, k, s) /\ c.pc = "queued"
         /\ b.pc = "running" /\ b.ids = c.ids /\ b.todo = c.ids \cap QueuedIn(row[s])
         /\ b.cur = c.cur /\ b.result = c.result /\ b.transient = c.transient
<1> DEFINE s == job[d].sms  c == batch[d][k]  b == batch'[d][k]
<1>1. c \in Batch /\ c.pc = "queued" /\ BulkTypes
  BY DEF StartBatch, Sound, BulkTypes
<1> DEFINE a == [c EXCEPT !.pc = "running", !.todo = c.ids \cap QueuedIn(row[s])]
<1>2. /\ a \in Batch /\ a.pc = "running" /\ a.ids = c.ids /\ a.todo = c.ids \cap QueuedIn(row[s])
      /\ a.cur = c.cur /\ a.result = c.result /\ a.transient = c.transient
  BY <1>1 DEF Batch
<1>3. batch' = [batch EXCEPT ![d][k] = a] /\ job' = job /\ fin' = fin
  BY DEF StartBatch
<1> HIDE DEF a
<1>4. b = a /\ OneBatch(d, k)
  BY <1>1, <1>2, <1>3, BatchMoves DEF OneBatch
<1> QED
  BY <1>1, <1>2, <1>4, Owner DEF Working

\* A batch sends to one phone: one more is taken for it, unless the provider refused.
LEMMA SendEffect ==
  ASSUME Sound, NEW d \in Dispatch, NEW k \in BatchNo, NEW p \in Phone, NEW o \in Outcomes,
         SendToProvider(d, k, p, o)
  PROVE  LET s == job[d].sms  c == batch[d][k]  b == batch'[d][k] IN
         /\ Working(d, k, s) /\ c.pc = "running" /\ c.cur = NoPhone /\ p \in c.todo
         /\ b.pc = "running" /\ b.ids = c.ids /\ b.todo = c.todo \ {p} /\ b.cur = p
         /\ b.transient = c.transient /\ b.events = c.events
         /\ b.result = (IF o = "lost_reply" THEN "transient" ELSE o)
         /\ b.result \in {"success", "permanent", "transient"}
         /\ \A t \in Sms, q \in Phone :
              /\ t # s \/ q # p => /\ accepted'[t][q] = accepted[t][q]
                                   /\ unconfirmed'[t][q] = unconfirmed[t][q]
              /\ accepted[t][q] \in Nat /\ unconfirmed[t][q] \in Nat
         /\ accepted'[s][p] = accepted[s][p]
                                + (IF o \in {"success", "lost_reply"} THEN 1 ELSE 0)
         /\ unconfirmed'[s][p] = unconfirmed[s][p] + (IF o = "lost_reply" THEN 1 ELSE 0)
<1> DEFINE s == job[d].sms  c == batch[d][k]  b == batch'[d][k]
<1>1. c \in Batch /\ c.pc = "running" /\ c.cur = NoPhone /\ p \in c.todo /\ BulkTypes
  BY DEF SendToProvider, Sound, BulkTypes
<1> DEFINE r == IF o = "lost_reply" THEN "transient" ELSE o
           a == [c EXCEPT !.cur = p, !.todo = c.todo \ {p}, !.result = r]
<1>2. r \in {"success", "permanent", "transient"}
  BY EnvironmentAssumption
<1>3. batch' = [batch EXCEPT ![d][k] = a] /\ job' = job /\ fin' = fin
  BY DEF SendToProvider
<1> HIDE DEF r
<1>4. /\ a \in Batch /\ a.pc = "running" /\ a.ids = c.ids /\ a.todo = c.todo \ {p} /\ a.cur = p
      /\ a.transient = c.transient /\ a.result = r /\ a.events = c.events
  BY <1>1, <1>2 DEF Batch
<1> HIDE DEF a
<1>5. b = a /\ OneBatch(d, k)
  BY <1>1, <1>3, <1>4, BatchMoves DEF OneBatch
<1>6. Working(d, k, s)
  BY <1>1, <1>4, <1>5, Owner DEF Working
<1>7. s \in Sms /\ accepted \in [Sms -> [Phone -> Nat]] /\ unconfirmed \in [Sms -> [Phone -> Nat]]
  BY <1>1, <1>6 DEF BulkTypes, Working
<1> DEFINE A == [accepted EXCEPT ![s][p] = accepted[s][p] + 1]
           U == [unconfirmed EXCEPT ![s][p] = unconfirmed[s][p] + 1]
<1>8. /\ A[s][p] = accepted[s][p] + 1
      /\ \A q \in Phone \ {p} : A[s][q] = accepted[s][q]
      /\ \A t \in Sms \ {s} : A[t] = accepted[t]
  BY <1>7, CountMoves
<1>9. /\ U[s][p] = unconfirmed[s][p] + 1
      /\ \A q \in Phone \ {p} : U[s][q] = unconfirmed[s][q]
      /\ \A t \in Sms \ {s} : U[t] = unconfirmed[t]
  BY <1>7, CountMoves
<1>10. /\ accepted' = IF o \in {"success", "lost_reply"} THEN A ELSE accepted
       /\ unconfirmed' = IF o = "lost_reply" THEN U ELSE unconfirmed
  BY DEF SendToProvider
<1> HIDE DEF A, U
<1>11. \A t \in Sms, q \in Phone :
          /\ t # s \/ q # p => /\ accepted'[t][q] = accepted[t][q]
                               /\ unconfirmed'[t][q] = unconfirmed[t][q]
          /\ accepted[t][q] \in Nat /\ unconfirmed[t][q] \in Nat
  BY <1>7, <1>8, <1>9, <1>10
<1>12. /\ accepted'[s][p] = accepted[s][p]
                             + (IF o \in {"success", "lost_reply"} THEN 1 ELSE 0)
       /\ unconfirmed'[s][p] = unconfirmed[s][p] + (IF o = "lost_reply" THEN 1 ELSE 0)
  <2>1. accepted[s][p] \in Nat /\ unconfirmed[s][p] \in Nat
    BY <1>7
  <2> QED
    BY <1>8, <1>9, <1>10, <2>1
<1> QED
  BY <1>1, <1>2, <1>4, <1>5, <1>6, <1>11, <1>12 DEF r

\* A batch saves the row of the phone it has sent to; a transient error is kept for the
\* retry.
LEMMA SaveEffect ==
  ASSUME Sound, NEW d \in Dispatch, NEW k \in BatchNo, SaveRecipient(d, k)
  PROVE  LET s == job[d].sms  c == batch[d][k]  b == batch'[d][k] IN
         /\ Working(d, k, s) /\ c.pc = "running" /\ c.cur # NoPhone
         /\ c.cur \in Phone /\ c.cur \in DOMAIN row[s] /\ c.cur \in c.ids
         /\ c.result \in {"success", "permanent", "transient"}
         /\ c.result = "success" => accepted[s][c.cur] > 0
         /\ b.pc = "running" /\ b.ids = c.ids /\ b.todo = c.todo /\ b.cur = NoPhone
         /\ b.result = "none"
         /\ b.transient = (IF c.result = "transient" THEN c.transient \cup {c.cur}
                                                    ELSE c.transient)
         /\ b.events = c.events
              \cup {<<s, c.cur, IF c.result = "success" THEN "sent" ELSE "failed">>}
         /\ \A t \in Sms : DOMAIN row'[t] = DOMAIN row[t]
         /\ row'[s][c.cur].status = ResultStatus(c.result)
         /\ (row'[s][c.cur].known => c.result = "success")
         /\ \A t \in Sms : \A q \in DOMAIN row[t] :
              t # s \/ q # c.cur => row'[t][q] = row[t][q]
<1> DEFINE s == job[d].sms  c == batch[d][k]  b == batch'[d][k]
<1> DEFINE e == <<s, c.cur, IF c.result = "success" THEN "sent" ELSE "failed">>
           T == IF c.result = "transient" THEN c.transient \cup {c.cur} ELSE c.transient
           a == [c EXCEPT !.cur = NoPhone, !.result = "none", !.transient = T,
                            !.events = c.events \cup {e}]
           x == [status |-> ResultStatus(c.result), known |-> c.result = "success"]
<1>1. c \in Batch /\ c.pc = "running" /\ c.cur # NoPhone /\ BulkTypes
  BY DEF BulkTypes, SaveRecipient, Sound
<1>2. /\ s \in Sms /\ BatchSound(c, DOMAIN row[s], accepted[s])
      /\ job[d].pc = "enqueued" /\ fin[d].pc # "none"
  BY <1>1, Owner
<1>3. /\ c.cur \in Phone /\ c.cur \in c.ids /\ c.cur \in DOMAIN row[s]
      /\ c.result \in {"success", "permanent", "transient"}
      /\ c.result = "success" => accepted[s][c.cur] > 0
  BY <1>1, <1>2 DEF BatchSound, Batch
<1>4. e \in Sms \X Phone \X {"sent", "failed"} /\ T \in SUBSET Phone
  BY <1>1, <1>2, <1>3 DEF Batch
<1>5. batch' = [batch EXCEPT ![d][k] = a] /\ job' = job /\ fin' = fin
  BY DEF SaveRecipient
<1>6. x \in Recipient /\ row' = [row EXCEPT ![s][c.cur] = x]
  BY <1>3 DEF Recipient, ResultStatus, SaveRecipient
<1>7. x.status = ResultStatus(c.result) /\ (x.known => c.result = "success")
  OBVIOUS
<1> HIDE DEF x
<1>8. /\ DOMAIN row'[s] = DOMAIN row[s] /\ row'[s][c.cur] = x
      /\ \A q \in DOMAIN row[s] \ {c.cur} : row'[s][q] = row[s][q]
      /\ \A t \in Sms \ {s} : row'[t] = row[t]
  BY <1>1, <1>2, <1>3, <1>6, RowMoves
<1>9. /\ a \in Batch /\ a.pc = "running" /\ a.ids = c.ids /\ a.todo = c.todo /\ a.cur = NoPhone
      /\ a.result = "none" /\ a.transient = T /\ a.events = c.events \cup {e}
  <2> HIDE DEF e, T
  <2> QED
    BY <1>1, <1>4 DEF Batch
<1> HIDE DEF a
<1>10. b = a /\ OneBatch(d, k)
  BY <1>1, <1>5, <1>9, BatchMoves DEF OneBatch
<1>11. Working(d, k, s)
  BY <1>1, <1>2, <1>9, <1>10 DEF Working
<1> HIDE DEF T
<1>12. \A t \in Sms : \A q \in DOMAIN row[t] : t # s \/ q # c.cur => row'[t][q] = row[t][q]
  BY <1>8
<1>13. \A t \in Sms : DOMAIN row'[t] = DOMAIN row[t]
  BY <1>8
<1>14. row'[s][c.cur].status = ResultStatus(c.result) /\ (row'[s][c.cur].known => c.result = "success")
  BY <1>7, <1>8
<1>15. b.transient = T /\ b.pc = "running" /\ b.ids = c.ids /\ b.todo = c.todo /\ b.cur = NoPhone
       /\ b.result = "none" /\ b.events = c.events \cup {e}
  BY <1>9, <1>10
<1> QED
  BY <1>1, <1>3, <1>11, <1>12, <1>13, <1>14, <1>15 DEF T

\* A batch writes its events and changes no row.
LEMMA FlushEffect ==
  ASSUME Sound, NEW d \in Dispatch, NEW k \in BatchNo, FlushEvents(d, k)
  PROVE  LET s == job[d].sms  c == batch[d][k]  b == batch'[d][k] IN
         /\ Working(d, k, s) /\ c.pc = "running" /\ c.cur = NoPhone /\ c.todo = {}
         /\ b.pc = "running" /\ b.ids = c.ids /\ b.todo = c.todo /\ b.cur = c.cur
         /\ b.result = c.result /\ b.transient = c.transient /\ event' = event \cup c.events
<1> DEFINE s == job[d].sms  c == batch[d][k]  b == batch'[d][k]
<1>1. c \in Batch /\ c.pc = "running" /\ c.cur = NoPhone /\ c.todo = {} /\ BulkTypes
  BY DEF FlushEvents, LoopDone, Sound, BulkTypes
<1>2. {} \in SUBSET (Sms \X Phone \X {"sent", "failed"})
  OBVIOUS
<1> DEFINE a == [c EXCEPT !.events = {}]
<1>3. /\ a \in Batch /\ a.pc = "running" /\ a.ids = c.ids /\ a.todo = c.todo
      /\ a.cur = c.cur /\ a.result = c.result /\ a.transient = c.transient
  BY <1>1, <1>2 DEF Batch
<1>4. batch' = [batch EXCEPT ![d][k] = a] /\ job' = job /\ fin' = fin
  BY DEF FlushEvents
<1> HIDE DEF a
<1>5. b = a /\ OneBatch(d, k)
  BY <1>1, <1>3, <1>4, BatchMoves DEF OneBatch
<1>6. event' = event \cup c.events
  BY DEF FlushEvents
<1> QED
  BY <1>1, <1>3, <1>5, <1>6, Owner DEF Working

\* A batch is queued again, with the recipients that failed for now.
LEMMA RetryEffect ==
  ASSUME Sound, NEW d \in Dispatch, NEW k \in BatchNo, RetryBatch(d, k)
  PROVE  LET s == job[d].sms  c == batch[d][k]  b == batch'[d][k] IN
         /\ Working(d, k, s) /\ c.pc = "running" /\ c.cur = NoPhone /\ c.todo = {}
         /\ b.pc = "queued" /\ b.ids = c.transient /\ b.todo = {} /\ b.cur = NoPhone
         /\ b.result = "none" /\ b.transient = {}
<1> DEFINE s == job[d].sms  c == batch[d][k]  b == batch'[d][k]
<1> DEFINE n == Least(c.tries + 1, BatchRetries)
           a == [NoBatch EXCEPT !.pc = "queued", !.ids = c.transient, !.tries = n]
<1>1. c \in Batch /\ c.pc = "running" /\ c.cur = NoPhone /\ c.todo = {} /\ BulkTypes
  BY DEF RetryBatch, LoopDone, Sound, BulkTypes
<1>2. n \in Nat /\ c.transient \in SUBSET Phone
  BY <1>1, SendAssumption DEF Batch, Least
<1>3. batch' = [batch EXCEPT ![d][k] = a] /\ job' = job /\ fin' = fin
  BY DEF RetryBatch
<1> HIDE DEF n
<1>4. /\ a \in Batch /\ a.pc = "queued" /\ a.ids = c.transient /\ a.todo = {} /\ a.cur = NoPhone
      /\ a.result = "none" /\ a.transient = {}
  BY <1>2, FirstTyped DEF Batch, NoBatch
<1> HIDE DEF a
<1>5. b = a /\ OneBatch(d, k)
  BY <1>1, <1>3, <1>4, BatchMoves DEF OneBatch
<1> QED
  BY <1>1, <1>4, <1>5, Owner DEF Working

\* A batch ends; the rows that still fail for now are given up.
LEMMA EndEffect ==
  ASSUME Sound, NEW d \in Dispatch, NEW k \in BatchNo, EndBatch(d, k)
  PROVE  LET s == job[d].sms  c == batch[d][k]  b == batch'[d][k] IN
         /\ Working(d, k, s) /\ c.pc = "running" /\ c.cur = NoPhone /\ c.todo = {}
         /\ b.pc = "done" /\ b.ids = c.ids /\ b.todo = c.todo /\ b.cur = c.cur
         /\ b.result = c.result /\ b.transient = {}
         /\ \A t \in Sms : DOMAIN row'[t] = DOMAIN row[t]
         /\ \A p \in DOMAIN row[s] :
              /\ p \notin c.transient => row'[s][p] = row[s][p]
              /\ p \in c.transient => /\ row'[s][p].status = "failed"
                                      /\ row'[s][p].known = row[s][p].known
         /\ \A t \in Sms \ {s} : row'[t] = row[t]
<1> DEFINE s == job[d].sms  c == batch[d][k]  b == batch'[d][k]
<1> DEFINE a == [c EXCEPT !.pc = "done", !.transient = {}]
<1>1. c \in Batch /\ c.pc = "running" /\ c.cur = NoPhone /\ c.todo = {} /\ BulkTypes
  BY DEF EndBatch, LoopDone, Sound, BulkTypes
<1>2. /\ a \in Batch /\ a.pc = "done" /\ a.ids = c.ids /\ a.todo = c.todo
      /\ a.cur = c.cur /\ a.result = c.result /\ a.transient = {}
  BY <1>1 DEF Batch
<1>3. /\ batch' = [batch EXCEPT ![d][k] = a] /\ job' = job /\ fin' = fin
      /\ row' = [row EXCEPT ![s] = GiveUp(s, c.transient)]
  BY DEF EndBatch
<1> HIDE DEF a
<1>4. b = a /\ OneBatch(d, k)
  BY <1>1, <1>2, <1>3, BatchMoves DEF OneBatch
<1>5. Working(d, k, s)
  BY <1>1, <1>2, <1>4, Owner DEF Working
<1>6. s \in Sms /\ row \in [Sms -> Recipients]
  BY <1>1, <1>5 DEF Working, BulkTypes
<1>7. row'[s] = GiveUp(s, c.transient) /\ \A t \in Sms \ {s} : row'[t] = row[t]
  BY <1>3, <1>6
<1>8. /\ DOMAIN row'[s] = DOMAIN row[s]
      /\ \A p \in DOMAIN row[s] :
           /\ p \notin c.transient => row'[s][p] = row[s][p]
           /\ p \in c.transient => row'[s][p].status = "failed" /\ row'[s][p].known = row[s][p].known
  BY <1>1, <1>6, <1>7, GiveUpTyped
<1>9. \A t \in Sms : DOMAIN row'[t] = DOMAIN row[t]
  BY <1>7, <1>8
<1> QED
  BY <1>1, <1>2, <1>4, <1>5, <1>7, <1>8, <1>9

\* The batch k of d is delivered again, or lost for good.
CrashBatch(d, k, after) ==
  /\ batch[d][k].pc = "running"
  /\ batch' = [batch EXCEPT ![d][k] =
       [NoBatch EXCEPT !.pc = after, !.ids = batch[d][k].ids, !.tries = batch[d][k].tries]]
  /\ UNCHANGED <<job, fin>>

\* A batch whose worker dies keeps its recipients, and forgets how far it was.
LEMMA CrashEffect ==
  ASSUME Sound, NEW d \in Dispatch, NEW k \in BatchNo, NEW after \in {"queued", "lost"},
         CrashBatch(d, k, after)
  PROVE  LET s == job[d].sms  c == batch[d][k]  b == batch'[d][k] IN
         /\ Working(d, k, s) /\ c.pc = "running"
         /\ b.pc = after /\ b.ids = c.ids /\ b.todo = {} /\ b.cur = NoPhone
         /\ b.result = "none" /\ b.transient = {}
<1> DEFINE s == job[d].sms  c == batch[d][k]  b == batch'[d][k]
<1> DEFINE a == [NoBatch EXCEPT !.pc = after, !.ids = c.ids, !.tries = c.tries]
<1>1. c \in Batch /\ c.pc = "running" /\ BulkTypes
  BY DEF CrashBatch, Sound, BulkTypes
<1>2. c.ids \in SUBSET Phone /\ c.tries \in Nat
  BY <1>1 DEF Batch
<1>3. batch' = [batch EXCEPT ![d][k] = a] /\ job' = job /\ fin' = fin
  BY DEF CrashBatch
<1>4. /\ a \in Batch /\ a.pc = after /\ a.ids = c.ids /\ a.todo = {} /\ a.cur = NoPhone
      /\ a.result = "none" /\ a.transient = {}
  BY <1>2, FirstTyped DEF Batch, NoBatch
<1> HIDE DEF a
<1>5. b = a /\ OneBatch(d, k)
  BY <1>1, <1>3, <1>4, BatchMoves DEF OneBatch
<1> QED
  BY <1>1, <1>4, <1>5, Owner DEF Working

\* The rows of a dispatch are added to those there are; all that are queued are its.
LEMMA ReserveEffect ==
  ASSUME Sound, NEW d \in Dispatch, ReserveAndQueue(d)
  PROVE  LET s == job[d].sms IN
         /\ s \in Sms /\ job[d].audience \in SUBSET (Phone \ Blocked) /\ job[d].est \in Nat
         /\ DOMAIN row'[s] = DOMAIN row[s] \cup job[d].audience
         /\ \A p \in DOMAIN row[s] : row'[s][p] = row[s][p]
         /\ \A p \in job[d].audience \ DOMAIN row[s] : row'[s][p] = NewRow
         /\ \A t \in Sms \ {s} : row'[t] = row[t]
         /\ job[d] \in Job /\ job'[d].pc = "committed" /\ job'[d].ids = QueuedIn(row'[s])
         /\ job'[d].sms = s /\ job'[d].est = job[d].est
         /\ \A e \in Dispatch \ {d} : job'[e] = job[e]
         /\ job[d].pc = "estimated" /\ batch' = batch /\ fin' = fin
<1> DEFINE s == job[d].sms
<1> DEFINE P == job[d].audience  q == BuildRecipients(s, P)
<1>1. job[d] \in Job /\ s \in Sms /\ BulkTypes /\ job[d].pc = "estimated"
  BY Owner DEF ReserveAndQueue, Sound
<1>2. P \in SUBSET (Phone \ Blocked) /\ job[d].est \in Nat
  BY <1>1 DEF Job
<1>3. /\ DOMAIN q = DOMAIN row[s] \cup P
      /\ \A p \in DOMAIN row[s] : q[p] = row[s][p]
      /\ \A p \in P \ DOMAIN row[s] : q[p] = NewRow
  BY <1>1, <1>2, BuildTyped
<1>4. /\ row' = [row EXCEPT ![s] = q] /\ batch' = batch /\ fin' = fin
      /\ job' = [job EXCEPT ![d] = [job[d] EXCEPT !.pc = "committed", !.ids = QueuedIn(q)]]
  BY DEF ReserveAndQueue, provider
<1> HIDE DEF q
<1>5. row'[s] = q /\ \A t \in Sms \ {s} : row'[t] = row[t]
  BY <1>1, <1>4 DEF BulkTypes
<1>6. /\ job'[d] = [job[d] EXCEPT !.pc = "committed", !.ids = QueuedIn(q)]
      /\ \A e \in Dispatch \ {d} : job'[e] = job[e]
  BY <1>1, <1>4 DEF BulkTypes
<1>7. /\ job'[d].pc = "committed" /\ job'[d].ids = QueuedIn(q)
      /\ job'[d].sms = s /\ job'[d].est = job[d].est
  BY <1>1, <1>6 DEF Job
<1> QED
  BY <1>1, <1>2, <1>3, <1>4, <1>5, <1>6, <1>7

\* The status of one row is overwritten.
RowReported(s, p) ==
  /\ s \in Sms /\ p \in DOMAIN row[s] /\ DOMAIN row[s] \subseteq Phone
  /\ \A t \in Sms : DOMAIN row'[t] = DOMAIN row[t]
  /\ \A t \in Sms : \A q \in DOMAIN row[t] : t # s \/ q # p => row'[t][q] = row[t][q]
  /\ row'[s][p].known = row[s][p].known

\* An opt-out overwrites the status of a row whose message was taken.
LEMMA OptOutEffect ==
  ASSUME Sound, NEW s \in Sms, NEW p \in Phone, OptOut(s, p)
  PROVE  RowReported(s, p) /\ row'[s][p].status = "opted_out" /\ accepted[s][p] > 0
<1>1. BulkTypes /\ p \in DOMAIN row[s] /\ row[s] \in Recipients /\ accepted[s][p] > 0
  BY DEF Sound, OptOut, RowsSound, RowSound, BulkTypes
<1> DEFINE x == [row[s][p] EXCEPT !.status = "opted_out"]
<1>2. x \in Recipient /\ x.status = "opted_out" /\ x.known = row[s][p].known
  BY <1>1, RowsTyped, RecipientTyped
<1>3. row' = [row EXCEPT ![s][p] = x]
  BY DEF OptOut
<1> HIDE DEF x
<1>4. /\ DOMAIN row'[s] = DOMAIN row[s] /\ row'[s][p] = x
      /\ \A q \in DOMAIN row[s] \ {p} : row'[s][q] = row[s][q]
      /\ \A t \in Sms \ {s} : row'[t] = row[t]
  BY <1>1, <1>2, <1>3, RowMoves
<1>5. DOMAIN row[s] \subseteq Phone
  BY <1>1, RowsTyped
<1> QED
  BY <1>1, <1>2, <1>4, <1>5 DEF RowReported

\* So does a delivery report.
LEMMA ReportEffect ==
  ASSUME Sound, NEW s \in Sms, NEW p \in Phone, NEW v \in Reports, DeliveryReport(s, p, v)
  PROVE  /\ RowReported(s, p) /\ row'[s][p].status \in {"sent", "delivered", "undelivered"}
         /\ accepted[s][p] > 0
<1>1. BulkTypes /\ p \in DOMAIN row[s] /\ row[s] \in Recipients /\ accepted[s][p] > 0
  BY DEF Sound, DeliveryReport, RowsSound, RowSound, BulkTypes
<1> DEFINE x == [row[s][p] EXCEPT !.status = ReportedStatus(v)]
<1>2. ReportedStatus(v) \in {"sent", "delivered", "undelivered"}
  BY EnvironmentAssumption DEF ReportedStatus
<1>3. x \in Recipient /\ x.status = ReportedStatus(v) /\ x.known = row[s][p].known
  <2>1. row[s][p] \in Recipient
    BY <1>1, RowsTyped
  <2> QED
    BY <1>2, <2>1 DEF Recipient
<1>4. row' = [row EXCEPT ![s][p] = x]
  BY DEF DeliveryReport
<1> HIDE DEF x
<1>5. /\ DOMAIN row'[s] = DOMAIN row[s] /\ row'[s][p] = x
      /\ \A q \in DOMAIN row[s] \ {p} : row'[s][q] = row[s][q]
      /\ \A t \in Sms \ {s} : row'[t] = row[t]
  BY <1>1, <1>3, <1>4, RowMoves
<1>6. DOMAIN row[s] \subseteq Phone
  BY <1>1, RowsTyped
<1> QED
  BY <1>1, <1>2, <1>3, <1>5, <1>6 DEF RowReported

\* Consecutive slices of a list that names nobody twice share nobody.
LEMMA SlicesDisjoint ==
  ASSUME NEW n \in Nat, NEW I, NEW ids \in Bijection(1 .. n, I), NEW k \in Nat \ {0},
         NEW l \in Nat \ {0}, k < l
  PROVE  Slice(ids, k) \cap Slice(ids, l) = {}
<1>1. ids \in [1 .. n -> I] /\ \A i, j \in 1 .. n : ids[i] = ids[j] => i = j
  BY DEF Bijection, Injection, IsInjective
<1>2. BatchSize \in Nat
  BY SendAssumption
<1>3. k * BatchSize <= (l - 1) * BatchSize
  <2>1. \A x, y, z \in Nat : x <= y => x * z <= y * z
    OBVIOUS
  <2>2. k \in Nat /\ l - 1 \in Nat /\ k <= l - 1
    OBVIOUS
  <2> QED
    BY <1>2, <2>1, <2>2
<1> DEFINE u == k * BatchSize  v == (l - 1) * BatchSize  t == (k - 1) * BatchSize
           w == l * BatchSize
<1>4. u \in Int /\ v \in Int /\ t \in Int /\ w \in Int /\ u <= v
  BY <1>2, <1>3
<1>5. /\ Slice(ids, k) = {ids[i] : i \in (1 .. n) \cap (t + 1 .. u)}
      /\ Slice(ids, l) = {ids[i] : i \in (1 .. n) \cap (v + 1 .. w)}
  BY <1>1 DEF Slice
<1> HIDE DEF u, v, t, w
<1> QED
  BY <1>1, <1>4, <1>5

\* Everybody on the list is in one of its slices.
LEMMA SlicesCover ==
  ASSUME NEW n \in Nat, NEW I, NEW ids \in Bijection(1 .. n, I), NEW p \in I
  PROVE  \E k \in 1 .. CeilDiv(n, BatchSize) : p \in Slice(ids, k)
<1>1. ids \in [1 .. n -> I] /\ \E i \in 1 .. n : ids[i] = p
  BY DEF Bijection, Injection, Surjection
<1>2. PICK i \in 1 .. n : ids[i] = p
  BY <1>1
<1>3. BatchSize \in Nat \ {0}
  BY SendAssumption
<1> DEFINE B == BatchSize  k == ((i - 1) \div B) + 1
<1>4. k \in Nat \ {0} /\ (k - 1) * B + 1 <= i /\ i <= k * B
  BY <1>3
<1>5. k <= CeilDiv(n, B)
  <2>1. (i - 1) \div B <= (n - 1) \div B
    BY <1>3
  <2>2. (n + B - 1) \div B = (n - 1) \div B + 1
    BY <1>3
  <2> QED
    BY <1>3, <2>1, <2>2 DEF CeilDiv
<1>6. CeilDiv(n, B) \in Int /\ k \in 1 .. CeilDiv(n, B)
  BY <1>3, <1>4, <1>5 DEF CeilDiv
<1>7. i \in DOMAIN ids \cap ((k - 1) * B + 1 .. k * B)
  <2>1. (k - 1) * B \in Int /\ k * B \in Int
    BY <1>3, <1>4
  <2> QED
    BY <1>1, <1>4, <2>1
<1> HIDE DEF k
<1> QED
  BY <1>2, <1>6, <1>7 DEF Slice

-----------------------------------------------------------------------------
(* Tasks and rows *)

\* Rows are never deleted, and what was taken stays taken.
Grows ==
  \A s \in Sms : /\ DOMAIN row[s] \subseteq DOMAIN row'[s]
                 /\ \A p \in Phone : accepted[s][p] > 0 => accepted'[s][p] > 0

\* A task that does not move is still sound when rows are added.
LEMMA TaskKept ==
  ASSUME Sound, Grows, NEW d \in Dispatch, job'[d] = job[d], batch'[d] = batch[d],
         fin'[d] = fin[d]
  PROVE  TaskSound(job'[d], batch'[d], fin'[d], row', accepted')
<1> DEFINE s == job[d].sms
<1>1. TaskSound(job[d], batch[d], fin[d], row, accepted)
  BY DEF Sound, TasksSound
<1>2. CASE job[d].pc = "free"
  BY <1>1, <1>2 DEF TaskSound
<1>3. CASE job[d].pc # "free"
  <2>1. s \in Sms /\ batch[d] \in [BatchNo -> Batch]
    BY <1>3, Owner
  <2>2. DOMAIN row[s] \subseteq DOMAIN row'[s]
    BY <2>1 DEF Grows
  <2>3. ASSUME NEW k \in BatchNo, BatchSound(batch[d][k], DOMAIN row[s], accepted[s])
        PROVE  BatchSound(batch'[d][k], DOMAIN row'[s], accepted'[s])
    <3>1. batch[d][k] \in Batch
      BY <2>1
    <3>2. batch[d][k].cur # NoPhone => batch[d][k].cur \in Phone
      BY <3>1 DEF Batch
    <3>3. batch[d][k].cur # NoPhone /\ accepted[s][batch[d][k].cur] > 0 =>
            accepted'[s][batch[d][k].cur] > 0
      BY <2>1, <3>2 DEF Grows
    <3> HIDE DEF s
    <3> QED
      BY <2>2, <2>3, <3>3 DEF BatchSound
  <2> QED
    BY <1>1, <2>2, <2>3 DEF TaskSound
<1> QED
  BY <1>2, <1>3

\* Only d moves, and is sound.
LEMMA TaskMoves ==
  ASSUME Sound, Grows, NEW d \in Dispatch,
         TaskSound(job'[d], batch'[d], fin'[d], row', accepted'),
         \A e \in Dispatch \ {d} : job'[e] = job[e] /\ batch'[e] = batch[e] /\ fin'[e] = fin[e]
  PROVE  TasksSound'
<1>1. \A e \in Dispatch \ {d} : TaskSound(job'[e], batch'[e], fin'[e], row', accepted')
  BY TaskKept
<1> QED
  BY <1>1 DEF TasksSound

\* Only the task of d moves, between the steps before its batches.
LEMMA JobStepSound ==
  ASSUME Sound, Grows, NEW d \in Dispatch, job' \in [Dispatch -> Job],
         \A e \in Dispatch \ {d} : job'[e] = job[e],
         batch' = batch, fin' = fin,
         job[d].pc # "enqueued", job'[d].pc \notin {"free", "enqueued"}, job'[d].sms \in Sms,
         job'[d].pc = "committed" => job'[d].ids \subseteq DOMAIN row'[job'[d].sms]
  PROVE  TasksSound'
<1>1. TaskSound(job[d], batch[d], fin[d], row, accepted)
  BY DEF Sound, TasksSound
<1>2. TaskSound(job'[d], batch'[d], fin'[d], row', accepted')
  BY <1>1, SendAssumption DEF TaskSound
<1> QED
  BY <1>2, TaskMoves

\* Only the batch k of d moves.
LEMMA BatchStepSound ==
  ASSUME Sound, Grows, NEW d \in Dispatch, NEW k \in BatchNo, NEW s, Working(d, k, s),
         batch'[d][k].ids \subseteq batch[d][k].ids,
         BatchSound(batch'[d][k], DOMAIN row'[s], accepted'[s])
  PROVE  TasksSound'
<1>1. TaskSound(job[d], batch[d], fin[d], row, accepted)
  BY DEF Sound, TasksSound
<1>2. /\ s = job[d].sms /\ s \in Sms /\ job[d].pc = "enqueued" /\ job' = job /\ fin' = fin
      /\ \A l \in BatchNo \ {k} : batch'[d][l] = batch[d][l]
      /\ \A e \in Dispatch \ {d} : batch'[e] = batch[e]
  BY DEF Working, OneBatch
<1>3. \A l \in BatchNo : BatchSound(batch'[d][l], DOMAIN row'[s], accepted'[s])
  <2>1. ASSUME NEW l \in BatchNo \ {k}
        PROVE  BatchSound(batch'[d][l], DOMAIN row'[s], accepted'[s])
    <3>1. BatchSound(batch[d][l], DOMAIN row[s], accepted[s]) /\ batch[d][l] \in Batch
      BY <1>1, <1>2, Owner DEF TaskSound
    <3>2. batch[d][l].cur # NoPhone => batch[d][l].cur \in Phone
      BY <3>1 DEF Batch
    <3>3. /\ batch[d][l].cur # NoPhone /\ accepted[s][batch[d][l].cur] > 0 =>
               accepted'[s][batch[d][l].cur] > 0
          /\ DOMAIN row[s] \subseteq DOMAIN row'[s]
      BY <1>2, <3>2 DEF Grows
    <3> QED
      BY <1>2, <3>1, <3>3 DEF BatchSound
  <2> QED
    BY <2>1
<1>4. \A l, m \in BatchNo : l # m => batch'[d][l].ids \cap batch'[d][m].ids = {}
  <2>1. \A l, m \in BatchNo : l # m => batch[d][l].ids \cap batch[d][m].ids = {}
    BY <1>1 DEF TaskSound
  <2>2. \A l \in BatchNo : batch'[d][l].ids \subseteq batch[d][l].ids
    BY <1>2
  <2> QED
    BY <2>1, <2>2
<1>5. TaskSound(job'[d], batch'[d], fin'[d], row', accepted')
  BY <1>1, <1>2, <1>3, <1>4 DEF TaskSound, Grows
<1> QED
  BY <1>2, <1>5, TaskMoves

\* Only the chord body of d moves.
LEMMA FinStepSound ==
  ASSUME Sound, Grows, NEW d \in Dispatch, fin[d].pc # "none", fin'[d].pc # "none",
         \A e \in Dispatch \ {d} : fin'[e] = fin[e], job' = job, batch' = batch
  PROVE  TasksSound'
<1>1. TaskSound(job[d], batch[d], fin[d], row, accepted) /\ batch[d] \in [BatchNo -> Batch]
  BY Owner DEF Sound, TasksSound
<1> DEFINE s == job[d].sms
<1>2. job[d].pc = "enqueued" /\ s \in Sms /\ DOMAIN row[s] \subseteq DOMAIN row'[s]
  BY Owner DEF Grows
<1>3. ASSUME NEW k \in BatchNo
      PROVE  BatchSound(batch'[d][k], DOMAIN row'[s], accepted'[s])
  <2>1. batch[d][k] \in Batch /\ BatchSound(batch[d][k], DOMAIN row[s], accepted[s])
    BY <1>1, <1>2 DEF TaskSound
  <2>2. batch[d][k].cur # NoPhone => batch[d][k].cur \in Phone
    BY <2>1 DEF Batch
  <2>3. /\ batch[d][k].cur # NoPhone /\ accepted[s][batch[d][k].cur] > 0 =>
             accepted'[s][batch[d][k].cur] > 0
    BY <1>2, <2>2 DEF Grows
  <2> HIDE DEF s
  <2> QED
    BY <1>2, <2>1, <2>3 DEF BatchSound
<1>4. TaskSound(job'[d], batch'[d], fin'[d], row', accepted')
  BY <1>1, <1>2, <1>3 DEF TaskSound
<1> QED
  BY <1>4, TaskMoves

\* No step deletes a row, or takes back a message.
LEMMA StepGrows ==
  ASSUME Sound, [Next]_vars
  PROVE  Grows
<1> USE DEF money, world, provider
<1>1. ASSUME NEW d \in Dispatch, ReserveAndQueue(d)
      PROVE  Grows
  <2> DEFINE s == job[d].sms
  <2>1. /\ s \in Sms /\ DOMAIN row'[s] = DOMAIN row[s] \cup job[d].audience
        /\ \A t \in Sms \ {s} : row'[t] = row[t]
    BY <1>1, ReserveEffect
  <2>2. accepted' = accepted
    BY <1>1 DEF ReserveAndQueue
  <2> QED
    BY <2>1, <2>2 DEF Grows
<1>2. ASSUME NEW d \in Dispatch, NEW k \in BatchNo, NEW p \in Phone, NEW o \in Outcomes,
             SendToProvider(d, k, p, o)
      PROVE  Grows
  <2> DEFINE s == job[d].sms
  <2>1. /\ s \in Sms
        /\ \A t \in Sms, q \in Phone :
             /\ t # s \/ q # p => accepted'[t][q] = accepted[t][q]
             /\ accepted[t][q] \in Nat
        /\ accepted'[s][p] = accepted[s][p]
                               + (IF o \in {"success", "lost_reply"} THEN 1 ELSE 0)
    BY <1>2, SendEffect DEF Working
  <2>2. row' = row
    BY <1>2 DEF SendToProvider
  <2>3. accepted[s][p] \in Nat
    BY <2>1
  <2>4. accepted[s][p] > 0 => accepted'[s][p] > 0
    BY <2>1, <2>3
  <2> QED
    BY <2>1, <2>2, <2>4 DEF Grows
<1>3. ASSUME NEW d \in Dispatch, NEW k \in BatchNo, SaveRecipient(d, k)
      PROVE  Grows
  <2>1. \A t \in Sms : DOMAIN row'[t] = DOMAIN row[t]
    BY <1>3, SaveEffect
  <2> QED
    BY <1>3, <2>1 DEF Grows, SaveRecipient
<1>4. ASSUME NEW d \in Dispatch, NEW k \in BatchNo, EndBatch(d, k)
      PROVE  Grows
  <2>1. \A t \in Sms : DOMAIN row'[t] = DOMAIN row[t]
    BY <1>4, EndEffect
  <2> QED
    BY <1>4, <2>1 DEF Grows, EndBatch
<1>5. ASSUME NEW s \in Sms, NEW p \in Phone, OptOut(s, p)
      PROVE  Grows
  <2>1. \A t \in Sms : DOMAIN row'[t] = DOMAIN row[t]
    BY <1>5, OptOutEffect DEF RowReported
  <2> QED
    BY <1>5, <2>1 DEF Grows, OptOut
<1>6. ASSUME NEW s \in Sms, NEW p \in Phone, NEW v \in Reports, DeliveryReport(s, p, v)
      PROVE  Grows
  <2>1. \A t \in Sms : DOMAIN row'[t] = DOMAIN row[t]
    BY <1>6, ReportEffect DEF RowReported
  <2> QED
    BY <1>6, <2>1 DEF Grows, DeliveryReport
<1>7. CASE row' = row /\ accepted' = accepted
  BY <1>7 DEF Grows
<1>8. ASSUME NEW d \in Dispatch, \/ \E s \in Sms : RequestSend(d, s)
                                \/ DispatchStep(d) \/ FinalizeStep(d) \/ EnqueueFails(d) \/ PublishFails(d) \/ Crash(d)
      PROVE  Grows
  <2>1. CASE ReserveAndQueue(d)
    BY <1>1, <2>1
  <2>2. CASE DispatchStep(d) /\ ~ReserveAndQueue(d)
    <3>1. row' = row /\ accepted' = accepted
      BY <2>2 DEF DispatchStep, LoadSms, EstimateCost, RejectDispatch, InsufficientCredits,
                  EnqueueBatches, Publish, RejectAgain
    <3> QED
      BY <1>7, <3>1
  <2>3. CASE FinalizeStep(d)
    <3>1. row' = row /\ accepted' = accepted
      BY <2>3 DEF FinalizeStep, ReadForFinalize, CountRows, RollUp, FindReservation, PriceReached, DebitActual, ReleaseRest
    <3> QED
      BY <1>7, <3>1
  <2>4. CASE (\E s \in Sms : RequestSend(d, s)) \/ EnqueueFails(d) \/ PublishFails(d) \/ Crash(d)
    BY <1>7, <2>4 DEF RequestSend, EnqueueFails, PublishFails, Publish, Crash
  <2> QED
    BY <1>8, <2>1, <2>2, <2>3, <2>4
<1>9. ASSUME NEW d \in Dispatch, NEW k \in BatchNo, BatchStep(d, k)
      PROVE  Grows
  <2>1. CASE StartBatch(d, k) \/ FlushEvents(d, k) \/ RetryBatch(d, k)
    BY <1>7, <2>1 DEF StartBatch, FlushEvents, RetryBatch
  <2> QED
    BY <1>2, <1>3, <1>4, <1>9, <2>1 DEF BatchStep
<1>10. ASSUME Environment
       PROVE  Grows
  <2>1. CASE \/ \E s \in Sms : EditRead(s)
             \/ \E newStatus \in SmsStatus, newSegs \in Segments : EditSave(newStatus, newSegs)
             \/ \E p \in Phone : JoinSegment(p)
             \/ RefreshPrices
    BY <1>7, <2>1 DEF EditRead, EditSave, JoinSegment, RefreshPrices
  <2> QED
    BY <1>5, <1>6, <1>8, <1>10, <2>1 DEF Environment
<1>11. CASE UNCHANGED vars
  BY <1>7, <1>11 DEF vars
<1> QED
  BY <1>8, <1>9, <1>10, <1>11 DEF Next

\* At the start there is no task.
LEMMA TasksInit ==
  Init => TasksSound
<1> SUFFICES ASSUME Init, NEW d \in Dispatch
             PROVE  TaskSound(job[d], batch[d], fin[d], row, accepted)
  BY DEF TasksSound
<1>1. job[d] = FreeJob /\ fin[d] = NoFin /\ \A k \in BatchNo : batch[d][k] = NoBatch
  BY DEF Init
<1> QED
  BY <1>1 DEF TaskSound, FreeJob, NoFin, NoBatch

\* Every step keeps the tasks, their batches and their chord bodies in step.
LEMMA TasksStep ==
  ASSUME Sound, [Next]_vars
  PROVE  TasksSound'
<1> USE DEF money, world, provider
<1>0. BulkTypes /\ TasksSound /\ RowsSound /\ BulkTypes' /\ Grows
  BY TypesStep, StepGrows DEF Sound
<1>j. job' \in [Dispatch -> Job] /\ fin' \in [Dispatch -> Finalize]
  BY <1>0 DEF BulkTypes
<1>1. ASSUME NEW d \in Dispatch, NEW s \in Sms, RequestSend(d, s)
      PROVE  TasksSound'
  <2>1. job[d] \in Job /\ job' = [job EXCEPT ![d] = [job[d] EXCEPT !.pc = "queued", !.sms = s]]
    BY <1>0, <1>1 DEF BulkTypes, RequestSend
  <2>2. /\ job'[d].pc = "queued" /\ job'[d].sms = s
        /\ \A e \in Dispatch \ {d} : job'[e] = job[e]
    BY <1>0, <2>1 DEF BulkTypes, Job
  <2> QED
    BY <1>0, <1>1, <1>j, <2>2, JobStepSound DEF RequestSend
<1>2. ASSUME NEW d \in Dispatch, LoadSms(d)
      PROVE  TasksSound'
  <2>1. /\ job[d] \in Job /\ job[d].sms \in Sms
        /\ job' = [job EXCEPT ![d] = [job[d] EXCEPT !.pc = "loaded", !.audience = Eligible]]
    BY <1>0, <1>2, Owner DEF LoadSms
  <2>2. /\ job'[d].pc = "loaded" /\ job'[d].sms = job[d].sms
        /\ \A e \in Dispatch \ {d} : job'[e] = job[e]
    BY <1>0, <2>1 DEF BulkTypes, Job
  <2> QED
    BY <1>0, <1>2, <1>j, <2>1, <2>2, JobStepSound DEF LoadSms
<1>3. ASSUME NEW d \in Dispatch, EstimateCost(d)
      PROVE  TasksSound'
  <2> DEFINE n == Estimate(job[d].sms)
  <2>1. /\ job[d] \in Job /\ job[d].sms \in Sms
        /\ job' = [job EXCEPT ![d] = [job[d] EXCEPT !.pc = "estimated", !.counted = Eligible,
                                                      !.est = n]]
    BY <1>0, <1>3, Owner DEF EstimateCost
  <2> HIDE DEF n
  <2>2. /\ job'[d].pc = "estimated" /\ job'[d].sms = job[d].sms
        /\ \A e \in Dispatch \ {d} : job'[e] = job[e]
    BY <1>0, <2>1 DEF BulkTypes, Job
  <2> QED
    BY <1>0, <1>3, <1>j, <2>1, <2>2, JobStepSound DEF EstimateCost
<1>4. ASSUME NEW d \in Dispatch, RejectDispatch(d)
      PROVE  TasksSound'
  <2>1. /\ job[d] \in Job /\ job[d].sms \in Sms /\ job[d].pc \in {"queued", "loaded"}
        /\ job' = [job EXCEPT ![d].pc = "failed"]
    BY <1>0, <1>4, Owner DEF RejectDispatch
  <2>2. /\ job'[d].pc = "failed" /\ job'[d].sms = job[d].sms
        /\ \A e \in Dispatch \ {d} : job'[e] = job[e]
    BY <1>0, <2>1 DEF BulkTypes, Job
  <2> QED
    BY <1>0, <1>4, <1>j, <2>1, <2>2, JobStepSound DEF RejectDispatch
<1>5. ASSUME NEW d \in Dispatch, ReserveAndQueue(d)
      PROVE  TasksSound'
  <2> DEFINE s == job[d].sms
  <2>1. /\ s \in Sms /\ job'[d].pc = "committed" /\ job'[d].ids = QueuedIn(row'[s])
        /\ job'[d].sms = s /\ \A e \in Dispatch \ {d} : job'[e] = job[e]
        /\ job[d].pc = "estimated" /\ batch' = batch /\ fin' = fin
    BY <1>5, ReserveEffect
  <2>2. job'[d].ids \subseteq DOMAIN row'[job'[d].sms]
    BY <2>1 DEF QueuedIn
  <2> HIDE DEF s
  <2> QED
    BY <1>0, <1>j, <2>1, <2>2, JobStepSound
<1>6. ASSUME NEW d \in Dispatch, RetryDispatch(d), job[d].pc \in {"estimated", "committed"},
             batch' = batch, fin' = fin
      PROVE  TasksSound'
  <2>1. /\ job'[d].sms = job[d].sms /\ job'[d].pc \in {"queued", "failed"} /\ job[d].sms \in Sms
        /\ \A e \in Dispatch \ {d} : job'[e] = job[e]
    BY <1>0, <1>6, RetryMoves, Owner
  <2> QED
    BY <1>0, <1>6, <1>j, <2>1, JobStepSound
<1>7. ASSUME NEW d \in Dispatch, Enqueues(d)
      PROVE  TasksSound'
  <2>1. /\ job[d].sms \in Sms /\ job[d].pc = "committed"
        /\ TaskSound(job[d], batch[d], fin[d], row, accepted)
        /\ row' = row
        /\ job'[d].pc = "enqueued" /\ job'[d].sms = job[d].sms /\ job'[d].ids = job[d].ids
        /\ fin'[d].pc = "waiting"
        /\ \A e \in Dispatch \ {d} : job'[e] = job[e] /\ fin'[e] = fin[e]
    BY <1>0, <1>7, EnqueueEffect DEF TasksSound
  <2>2. PICK n, ids, q : PublishedAs(d, n, ids, q)
    BY <1>7, EnqueueEffect
  <2> DEFINE I == job[d].ids
  <2>3. /\ n \in Nat /\ ids \in Bijection(1 .. n, I) /\ batch'[d] = q
        /\ \A e \in Dispatch \ {d} : batch'[e] = batch[e]
        /\ \A k \in BatchNo : /\ k <= CeilDiv(n, BatchSize) => q[k].ids = Slice(ids, k)
                              /\ k > CeilDiv(n, BatchSize) => q[k] = NoBatch
    BY <2>2 DEF PublishedAs
  <2>4. \A k \in BatchNo : Slice(ids, k) \subseteq I
    <3>1. ids \in [1 .. n -> I]
      BY <2>3 DEF Bijection, Injection
    <3> QED
      BY <3>1 DEF Slice
  <2>5. ASSUME NEW k \in BatchNo
        PROVE  /\ batch'[d][k].ids \in {{}, Slice(ids, k)} /\ batch'[d][k].todo = {}
               /\ batch'[d][k].transient = {} /\ batch'[d][k].cur = NoPhone
               /\ batch'[d][k].result = "none"
    <3>1. k \in Int /\ CeilDiv(n, BatchSize) \in Int
      BY <2>3, SendAssumption DEF BatchNo, CeilDiv
    <3>2. q[k].ids = Slice(ids, k) \/ q[k] = NoBatch
      BY <2>3, <3>1
    <3>3. q[k].ids \in {{}, Slice(ids, k)}
      BY <3>2 DEF NoBatch
    <3> QED
      BY <2>2, <3>3 DEF PublishedAs
  <2>7. \A k, l \in BatchNo : k # l => Slice(ids, k) \cap Slice(ids, l) = {}
    <3>2. \A k, l \in Nat \ {0} : k < l => Slice(ids, k) \cap Slice(ids, l) = {}
      <4> HIDE DEF I
      <4> QED
        BY <2>3, SlicesDisjoint
    <3>3. BatchNo \subseteq Nat \ {0}
      BY DEF BatchNo
    <3>4. \A k, l \in Nat \ {0} : k # l => k < l \/ l < k
      OBVIOUS
    <3> QED
      BY <3>2, <3>3, <3>4
  <2>8. I \subseteq DOMAIN row[job[d].sms]
    BY <2>1 DEF TaskSound
  <2> HIDE DEF I
  <2>11. \A k \in BatchNo : BatchSound(batch'[d][k], DOMAIN row'[job[d].sms], accepted'[job[d].sms])
    BY <2>1, <2>4, <2>5, <2>8, SendAssumption DEF BatchSound
  <2>12. \A k, l \in BatchNo : k # l => batch'[d][k].ids \cap batch'[d][l].ids = {}
    BY <2>5, <2>7
  <2>13. TaskSound(job'[d], batch'[d], fin'[d], row', accepted')
    BY <2>1, <2>8, <2>11, <2>12, SendAssumption DEF TaskSound, I
  <2> QED
    BY <1>0, <2>1, <2>3, <2>13, TaskMoves
<1>8. ASSUME NEW d \in Dispatch, NEW k \in BatchNo, StartBatch(d, k)
      PROVE  TasksSound'
  <2> DEFINE s == job[d].sms  c == batch[d][k]  b == batch'[d][k]
  <2>1. /\ Working(d, k, s) /\ c.pc = "queued"
        /\ b.pc = "running" /\ b.ids = c.ids /\ b.todo = c.ids \cap QueuedIn(row[s])
        /\ b.cur = c.cur /\ b.result = c.result /\ b.transient = c.transient
    BY <1>8, StartEffect
  <2>2. row' = row /\ accepted' = accepted
    BY <1>8 DEF StartBatch
  <2> HIDE DEF s, c, b
  <2>3. BatchSound(c, DOMAIN row[s], accepted[s]) /\ c \in Batch
    BY <2>1 DEF Working, c
  <2>4. c.cur = NoPhone
    BY <2>1, <2>3 DEF BatchSound
  <2>5. BatchSound(b, DOMAIN row'[s], accepted'[s])
    <3>1. b.todo \subseteq b.ids /\ b.transient = {} /\ b.cur = NoPhone /\ b.result = "none"
      BY <2>1, <2>3, <2>4 DEF BatchSound
    <3>2. NoPhone \notin b.ids
      BY <2>1, <2>3, SendAssumption DEF Batch
    <3> QED
      BY <2>1, <2>2, <2>3, <3>1, <3>2 DEF BatchSound
  <2> QED
    BY <1>0, <2>1, <2>5, BatchStepSound DEF c, b
<1>9. ASSUME NEW d \in Dispatch, NEW k \in BatchNo, NEW p \in Phone, NEW o \in Outcomes,
             SendToProvider(d, k, p, o)
      PROVE  TasksSound'
  <2> DEFINE s == job[d].sms  c == batch[d][k]  b == batch'[d][k]
  <2>1. /\ Working(d, k, s) /\ c.pc = "running" /\ c.cur = NoPhone /\ p \in c.todo
        /\ b.pc = "running" /\ b.ids = c.ids /\ b.todo = c.todo \ {p} /\ b.cur = p
        /\ b.transient = c.transient
        /\ b.result = (IF o = "lost_reply" THEN "transient" ELSE o)
        /\ b.result \in {"success", "permanent", "transient"}
        /\ accepted[s][p] \in Nat
        /\ accepted'[s][p] = accepted[s][p]
                               + (IF o \in {"success", "lost_reply"} THEN 1 ELSE 0)
    BY <1>9, SendEffect DEF Working
  <2>2. row' = row
    BY <1>9 DEF SendToProvider
  <2> HIDE DEF s, c, b
  <2>3. BatchSound(c, DOMAIN row[s], accepted[s])
    BY <2>1 DEF Working, c
  <2>4. b.result = "success" => accepted'[s][p] > 0
    BY <2>1
  <2>5. BatchSound(b, DOMAIN row'[s], accepted'[s])
    BY <2>1, <2>2, <2>3, <2>4 DEF BatchSound
  <2> QED
    BY <1>0, <2>1, <2>5, BatchStepSound DEF c, b
<1>10. ASSUME NEW d \in Dispatch, NEW k \in BatchNo, SaveRecipient(d, k)
       PROVE  TasksSound'
  <2> DEFINE s == job[d].sms  c == batch[d][k]  b == batch'[d][k]
  <2>1. /\ Working(d, k, s) /\ c.pc = "running" /\ c.cur # NoPhone
        /\ b.pc = "running" /\ b.ids = c.ids /\ b.todo = c.todo /\ b.cur = NoPhone
        /\ b.result = "none"
        /\ b.transient = (IF c.result = "transient" THEN c.transient \cup {c.cur}
                                                   ELSE c.transient)
        /\ DOMAIN row'[s] = DOMAIN row[s]
    <3>1. Working(d, k, s)
      BY <1>10, SaveEffect
    <3>2. s \in Sms
      BY <3>1 DEF Working
    <3> QED
      BY <1>10, <3>1, <3>2, SaveEffect
  <2>2. accepted' = accepted
    BY <1>10 DEF SaveRecipient
  <2> HIDE DEF s, c, b
  <2>3. BatchSound(c, DOMAIN row[s], accepted[s]) /\ c \in Batch
    BY <2>1 DEF Working, c
  <2>4. NoPhone \notin c.ids
    BY <2>3, SendAssumption DEF Batch
  <2>5. c.cur \in c.ids /\ c.cur \notin c.todo
    BY <2>1, <2>3 DEF BatchSound
  <2>6. b.todo \cup b.transient \subseteq b.ids /\ b.todo \cap b.transient = {}
    BY <2>1, <2>3, <2>5 DEF BatchSound
  <2>7. BatchSound(b, DOMAIN row'[s], accepted'[s])
    BY <2>1, <2>2, <2>3, <2>4, <2>6 DEF BatchSound
  <2> QED
    BY <1>0, <2>1, <2>7, BatchStepSound DEF c, b
<1>11. ASSUME NEW d \in Dispatch, NEW k \in BatchNo, FlushEvents(d, k)
       PROVE  TasksSound'
  <2> DEFINE s == job[d].sms  c == batch[d][k]  b == batch'[d][k]
  <2>1. /\ Working(d, k, s) /\ c.pc = "running" /\ c.cur = NoPhone /\ c.todo = {}
        /\ b.pc = "running" /\ b.ids = c.ids /\ b.todo = c.todo /\ b.cur = c.cur
        /\ b.result = c.result /\ b.transient = c.transient
    BY <1>11, FlushEffect
  <2>2. row' = row /\ accepted' = accepted
    BY <1>11 DEF FlushEvents
  <2> HIDE DEF s, c, b
  <2>3. BatchSound(c, DOMAIN row[s], accepted[s])
    BY <2>1 DEF Working, c
  <2>4. BatchSound(b, DOMAIN row'[s], accepted'[s])
    BY <2>1, <2>2, <2>3 DEF BatchSound
  <2> QED
    BY <1>0, <2>1, <2>4, BatchStepSound DEF c, b
<1>12. ASSUME NEW d \in Dispatch, NEW k \in BatchNo, RetryBatch(d, k)
       PROVE  TasksSound'
  <2> DEFINE s == job[d].sms  c == batch[d][k]  b == batch'[d][k]
  <2>1. /\ Working(d, k, s)
        /\ b.pc = "queued" /\ b.ids = c.transient /\ b.todo = {} /\ b.cur = NoPhone
        /\ b.result = "none" /\ b.transient = {}
    BY <1>12, RetryEffect
  <2>2. row' = row
    BY <1>12 DEF RetryBatch
  <2> HIDE DEF s, c, b
  <2>3. BatchSound(c, DOMAIN row[s], accepted[s])
    BY <2>1 DEF Working, c
  <2>4. BatchSound(b, DOMAIN row'[s], accepted'[s])
    BY <2>1, <2>2, <2>3 DEF BatchSound
  <2>5. b.ids \subseteq c.ids
    BY <2>1, <2>3 DEF BatchSound
  <2> QED
    BY <1>0, <2>1, <2>4, <2>5, BatchStepSound DEF c, b
<1>13. ASSUME NEW d \in Dispatch, NEW k \in BatchNo, EndBatch(d, k)
       PROVE  TasksSound'
  <2> DEFINE s == job[d].sms  c == batch[d][k]  b == batch'[d][k]
  <2>1. /\ Working(d, k, s) /\ c.pc = "running" /\ c.cur = NoPhone /\ c.todo = {}
        /\ b.pc = "done" /\ b.ids = c.ids /\ b.todo = c.todo /\ b.cur = c.cur
        /\ b.result = c.result /\ b.transient = {}
        /\ DOMAIN row'[s] = DOMAIN row[s]
    <3>1. Working(d, k, s)
      BY <1>13, EndEffect
    <3>2. s \in Sms
      BY <3>1 DEF Working
    <3> QED
      BY <1>13, <3>1, <3>2, EndEffect
  <2>2. accepted' = accepted
    BY <1>13 DEF EndBatch
  <2> HIDE DEF s, c, b
  <2>3. BatchSound(c, DOMAIN row[s], accepted[s])
    BY <2>1 DEF Working, c
  <2>4. BatchSound(b, DOMAIN row'[s], accepted'[s])
    BY <2>1, <2>2, <2>3 DEF BatchSound
  <2> QED
    BY <1>0, <2>1, <2>4, BatchStepSound DEF c, b
<1>14. ASSUME NEW d \in Dispatch, NEW k \in BatchNo, NEW after \in {"queued", "lost"},
              CrashBatch(d, k, after), row' = row
       PROVE  TasksSound'
  <2> DEFINE s == job[d].sms  c == batch[d][k]  b == batch'[d][k]
  <2>1. /\ Working(d, k, s) /\ b.pc = after /\ b.ids = c.ids /\ b.todo = {} /\ b.cur = NoPhone
        /\ b.result = "none" /\ b.transient = {}
    BY <1>14, CrashEffect
  <2> HIDE DEF s, c, b
  <2>2. BatchSound(c, DOMAIN row[s], accepted[s])
    BY <2>1 DEF Working, c
  <2>3. BatchSound(b, DOMAIN row'[s], accepted'[s])
    BY <1>14, <2>1, <2>2 DEF BatchSound
  <2> QED
    BY <1>0, <2>1, <2>3, BatchStepSound DEF c, b
<1>15. ASSUME NEW d \in Dispatch, FinalizeStep(d)
       PROVE  TasksSound'
  <2>1. CASE Reads(d)
    BY <1>0, <2>1, ReadsEffect, FinStepSound
  <2>2. CASE RollUp(d) \/ DebitActual(d) \/ ReleaseRest(d)
    <3>1. /\ fin[d].pc # "none" /\ job' = job /\ batch' = batch
          /\ \A e \in Dispatch \ {d} : fin'[e] = fin[e]
      BY <1>0, <2>2 DEF RollUp, DebitActual, ReleaseRest, BulkTypes
    <3>2. fin'[d].pc # "none"
      BY <1>0, <2>2 DEF RollUp, DebitActual, ReleaseRest, BulkTypes, Finalize
    <3> QED
      BY <1>0, <3>1, <3>2, FinStepSound
  <2> QED
    BY <1>15, <2>1, <2>2 DEF FinalizeStep, Reads
<1>16. ASSUME NEW d \in Dispatch, Crash(d)
       PROVE  TasksSound'
  <2>1. row' = row
    BY <1>16 DEF Crash
  <2>2. CASE /\ job[d].pc \in {"loaded", "estimated", "committed"}
             /\ job' = [job EXCEPT ![d].pc = "lost"]
             /\ UNCHANGED <<batch, fin>>
    <3>1. job[d] \in Job /\ job[d].sms \in Sms
      BY <2>2, Owner
    <3>2. /\ job'[d].pc = "lost" /\ job'[d].sms = job[d].sms
          /\ \A e \in Dispatch \ {d} : job'[e] = job[e]
      BY <1>0, <2>2, <3>1 DEF BulkTypes, Job
    <3> QED
      BY <1>0, <1>j, <2>2, <3>1, <3>2, JobStepSound
  <2>3. CASE /\ fin[d].pc \in {"read", "counted", "rolled", "found", "priced", "debited"}
             /\ fin' = [fin EXCEPT ![d].pc = "lost"]
             /\ UNCHANGED <<job, batch>>
    <3>1. /\ fin'[d].pc # "none"
          /\ \A e \in Dispatch \ {d} : fin'[e] = fin[e]
      BY <1>0, <2>3 DEF BulkTypes, Finalize
    <3> QED
      BY <1>0, <2>3, <3>1, FinStepSound
  <2>4. CASE \E k \in BatchNo, after \in {"queued", "lost"} : CrashBatch(d, k, after)
    BY <1>14, <2>1, <2>4
  <2> QED
    BY <1>16, <2>2, <2>3, <2>4 DEF Crash, CrashBatch
<1>17. CASE UNCHANGED <<job, batch, fin>>
  BY <1>0, <1>17, TaskKept DEF TasksSound
<1>18. \/ UNCHANGED <<job, batch, fin>>
       \/ \E d \in Dispatch :
            \/ \E s \in Sms : RequestSend(d, s)
            \/ LoadSms(d) \/ EstimateCost(d) \/ RejectDispatch(d) \/ ReserveAndQueue(d)
            \/ RetryDispatch(d) /\ job[d].pc \in {"estimated", "committed"}
                 /\ batch' = batch /\ fin' = fin
            \/ Enqueues(d) \/ FinalizeStep(d) \/ Crash(d) \/ RejectAgain(d)
            \/ \E k \in BatchNo : BatchStep(d, k)
  BY DEF Next, DispatchStep, Environment, vars, EditRead, EditSave, OptOut, DeliveryReport,
         JoinSegment, RefreshPrices, EnqueueFails, InsufficientCredits, Enqueues
<1>19. ASSUME NEW d \in Dispatch, RejectAgain(d)
       PROVE  TasksSound'
  <2>1. /\ job'[d].pc = job[d].pc /\ job'[d].sms = job[d].sms /\ job'[d].ids = job[d].ids
        /\ \A e \in Dispatch \ {d} : job'[e] = job[e]
    BY <1>0, <1>19, AgainEffect
  <2>2. batch' = batch /\ fin' = fin /\ row' = row /\ accepted' = accepted
    BY <1>19 DEF RejectAgain
  <2>3. TaskSound(job'[d], batch'[d], fin'[d], row', accepted')
    BY <1>0, <2>1, <2>2 DEF TasksSound, TaskSound
  <2> QED
    BY <1>0, <2>1, <2>2, <2>3, TaskMoves
<1> QED
  BY <1>1, <1>2, <1>3, <1>4, <1>5, <1>6, <1>7, <1>8, <1>9, <1>10, <1>11, <1>12, <1>13, <1>15,
     <1>16, <1>17, <1>18, <1>19 DEF BatchStep

\* At the start there is no row.
LEMMA RowsInit ==
  Init => RowsSound
BY SendAssumption DEF Init, RowsSound, RowSound

\* What is left alone: the steps that write neither rows nor count messages.
LEMMA RowsElsewhere ==
  ASSUME [Next]_vars
  PROVE  \/ row' = row /\ accepted' = accepted /\ unconfirmed' = unconfirmed
         \/ \E d \in Dispatch : ReserveAndQueue(d)
         \/ \E d \in Dispatch, k \in BatchNo :
              \/ SaveRecipient(d, k) \/ EndBatch(d, k)
              \/ \E p \in Phone, o \in Outcomes : SendToProvider(d, k, p, o)
         \/ \E s \in Sms, p \in Phone : OptOut(s, p) \/ \E v \in Reports : DeliveryReport(s, p, v)
<1> USE DEF money, world, provider
<1> DEFINE Same == row' = row /\ accepted' = accepted /\ unconfirmed' = unconfirmed
<1>1. ASSUME NEW d \in Dispatch, \/ \E s \in Sms : RequestSend(d, s)
                                \/ FinalizeStep(d) \/ EnqueueFails(d) \/ PublishFails(d) \/ Crash(d)
      PROVE  Same
  <2>1. CASE FinalizeStep(d)
    BY <2>1 DEF FinalizeStep, ReadForFinalize, CountRows, RollUp, FindReservation, PriceReached, DebitActual, ReleaseRest
  <2>2. CASE (\E s \in Sms : RequestSend(d, s)) \/ EnqueueFails(d) \/ PublishFails(d) \/ Crash(d)
    BY <2>2 DEF RequestSend, EnqueueFails, PublishFails, Publish, Crash
  <2> QED
    BY <1>1, <2>1, <2>2
<1>2. ASSUME NEW d \in Dispatch, DispatchStep(d), ~ReserveAndQueue(d)
      PROVE  Same
  BY <1>2 DEF DispatchStep, LoadSms, EstimateCost, RejectDispatch, InsufficientCredits,
              EnqueueBatches, Publish, RejectAgain
<1>3. ASSUME NEW d \in Dispatch, NEW k \in BatchNo,
             StartBatch(d, k) \/ FlushEvents(d, k) \/ RetryBatch(d, k)
      PROVE  Same
  BY <1>3 DEF StartBatch, FlushEvents, RetryBatch
<1>4. ASSUME \/ \E s \in Sms : EditRead(s)
             \/ \E newStatus \in SmsStatus, newSegs \in Segments : EditSave(newStatus, newSegs)
             \/ \E p \in Phone : JoinSegment(p)
             \/ RefreshPrices
      PROVE  Same
  BY <1>4 DEF EditRead, EditSave, JoinSegment, RefreshPrices
<1>5. CASE UNCHANGED vars
  BY <1>5 DEF vars
<1> HIDE DEF Same
<1>6. ASSUME Next
      PROVE  \/ Same
             \/ \E d \in Dispatch : ReserveAndQueue(d)
             \/ \E d \in Dispatch, k \in BatchNo :
                  \/ SaveRecipient(d, k) \/ EndBatch(d, k)
                  \/ \E p \in Phone, o \in Outcomes : SendToProvider(d, k, p, o)
             \/ \E s \in Sms, p \in Phone :
                  OptOut(s, p) \/ \E v \in Reports : DeliveryReport(s, p, v)
  <2>1. CASE \E d \in Dispatch : \/ \E s \in Sms : RequestSend(d, s)
                                 \/ FinalizeStep(d) \/ EnqueueFails(d) \/ PublishFails(d) \/ Crash(d)
    BY <1>1, <2>1
  <2>2. CASE \E d \in Dispatch : DispatchStep(d)
    BY <1>2, <2>2
  <2>3. CASE \E d \in Dispatch, k \in BatchNo : BatchStep(d, k)
    BY <1>3, <2>3 DEF BatchStep
  <2>4. CASE Environment
    <3>1. \/ \E s \in Sms, p \in Phone :
               OptOut(s, p) \/ \E v \in Reports : DeliveryReport(s, p, v)
          \/ \E d \in Dispatch : EnqueueFails(d) \/ PublishFails(d) \/ Crash(d)
          \/ \E s \in Sms : EditRead(s)
          \/ \E newStatus \in SmsStatus, newSegs \in Segments : EditSave(newStatus, newSegs)
          \/ \E p \in Phone : JoinSegment(p)
          \/ RefreshPrices
      BY <2>4 DEF Environment
    <3> QED
      BY <1>4, <2>1, <3>1
  <2> QED
    BY <1>6, <2>1, <2>2, <2>3, <2>4 DEF Next
<1> QED
  BY <1>5, <1>6 DEF Same

\* Every step keeps the rows of contacts that may be written to, and true to what was taken.
LEMMA RowsStep ==
  ASSUME Sound, [Next]_vars
  PROVE  RowsSound'
<1>0. BulkTypes /\ RowsSound
  BY DEF Sound
<1>a. /\ \A t \in Sms, q \in Phone : accepted[t][q] \in Nat
      /\ \A t \in Sms : DOMAIN row[t] \in SUBSET Phone
  BY <1>0, RowsTyped DEF BulkTypes
<1>1. ASSUME NEW d \in Dispatch, ReserveAndQueue(d)
      PROVE  RowsSound'
  <2> DEFINE s == job[d].sms
  <2>1. /\ s \in Sms /\ job[d].audience \in SUBSET (Phone \ Blocked)
        /\ DOMAIN row'[s] = DOMAIN row[s] \cup job[d].audience
        /\ \A p \in DOMAIN row[s] : row'[s][p] = row[s][p]
        /\ \A p \in job[d].audience \ DOMAIN row[s] : row'[s][p] = NewRow
        /\ \A t \in Sms \ {s} : row'[t] = row[t]
    BY <1>1, ReserveEffect
  <2>2. accepted' = accepted
    BY <1>1 DEF ReserveAndQueue, provider
  <2> HIDE DEF s
  <2>3. ~NewRow.known /\ NewRow.status \notin Success
    BY DEF NewRow, Success
  <2>4. RowSound(row'[s], accepted'[s])
    BY <1>0, <2>1, <2>2, <2>3 DEF RowsSound, RowSound
  <2> QED
    BY <1>0, <2>1, <2>2, <2>4 DEF RowsSound
<1>2. ASSUME NEW d \in Dispatch, NEW k \in BatchNo, NEW p \in Phone, NEW o \in Outcomes,
             SendToProvider(d, k, p, o)
      PROVE  RowsSound'
  <2> DEFINE s == job[d].sms  c == batch[d][k]
  <2>1. /\ Working(d, k, s) /\ p \in c.todo
        /\ \A t \in Sms, q \in Phone : t # s \/ q # p => accepted'[t][q] = accepted[t][q]
        /\ accepted'[s][p] = accepted[s][p]
                               + (IF o \in {"success", "lost_reply"} THEN 1 ELSE 0)
    BY <1>2, SendEffect
  <2>2. row' = row
    BY <1>2 DEF SendToProvider
  <2> HIDE DEF s
  <2>3. s \in Sms /\ p \in DOMAIN row[s]
    BY <2>1 DEF Working, BatchSound
  <2>4. accepted[s][p] > 0 => accepted'[s][p] > 0
    BY <1>a, <2>1, <2>3
  <2>5. \A t \in Sms : RowSound(row'[t], accepted'[t])
    BY <1>0, <1>a, <2>1, <2>2, <2>3, <2>4 DEF RowsSound, RowSound
  <2> QED
    BY <2>5 DEF RowsSound
<1>3. ASSUME NEW d \in Dispatch, NEW k \in BatchNo, SaveRecipient(d, k)
      PROVE  RowsSound'
  <2> DEFINE s == job[d].sms  c == batch[d][k]  b == batch'[d][k]
  <2>1. /\ Working(d, k, s) /\ c.cur \in DOMAIN row[s] /\ b.cur = NoPhone
        /\ c.result \in {"success", "permanent", "transient"}
        /\ c.result = "success" => accepted[s][c.cur] > 0
        /\ \A t \in Sms : DOMAIN row'[t] = DOMAIN row[t]
        /\ row'[s][c.cur].status = ResultStatus(c.result)
        /\ (row'[s][c.cur].known => c.result = "success")
        /\ \A t \in Sms : \A q \in DOMAIN row[t] : t # s \/ q # c.cur => row'[t][q] = row[t][q]
    BY <1>3, SaveEffect
  <2>2. accepted' = accepted
    BY <1>3 DEF SaveRecipient, provider
  <2> HIDE DEF s, c, b
  <2>3. row'[s][c.cur].known \/ row'[s][c.cur].status \in Success => c.result = "success"
    BY <2>1 DEF ResultStatus, Success
  <2>4. \A t \in Sms : RowSound(row'[t], accepted'[t])
    BY <1>0, <2>1, <2>2, <2>3 DEF RowsSound, RowSound
  <2> QED
    BY <2>4 DEF RowsSound
<1>4. ASSUME NEW d \in Dispatch, NEW k \in BatchNo, EndBatch(d, k)
      PROVE  RowsSound'
  <2> DEFINE s == job[d].sms  c == batch[d][k]
  <2>1. /\ Working(d, k, s)
        /\ \A t \in Sms : DOMAIN row'[t] = DOMAIN row[t]
        /\ \A p \in DOMAIN row[s] :
             /\ p \notin c.transient => row'[s][p] = row[s][p]
             /\ p \in c.transient => /\ row'[s][p].status = "failed"
                                     /\ row'[s][p].known = row[s][p].known
        /\ \A t \in Sms \ {s} : row'[t] = row[t]
    BY <1>4, EndEffect
  <2>2. accepted' = accepted
    BY <1>4 DEF EndBatch, provider
  <2>3. s \in Sms
    BY <2>1 DEF Working
  <2> HIDE DEF s, c
  <2>4. RowSound(row'[s], accepted'[s])
    BY <1>0, <2>1, <2>2, <2>3 DEF RowsSound, RowSound, Success
  <2> QED
    BY <1>0, <2>1, <2>2, <2>3, <2>4 DEF RowsSound
<1>5. ASSUME NEW s \in Sms, NEW p \in Phone, OptOut(s, p)
      PROVE  RowsSound'
  <2>1. RowReported(s, p) /\ accepted[s][p] > 0 /\ accepted' = accepted
    BY <1>5, OptOutEffect DEF OptOut, provider
  <2> QED
    BY <1>0, <2>1 DEF RowsSound, RowSound, RowReported
<1>6. ASSUME NEW s \in Sms, NEW p \in Phone, NEW v \in Reports, DeliveryReport(s, p, v)
      PROVE  RowsSound'
  <2>1. RowReported(s, p) /\ accepted[s][p] > 0 /\ accepted' = accepted
    BY <1>6, ReportEffect DEF DeliveryReport, provider
  <2> QED
    BY <1>0, <2>1 DEF RowsSound, RowSound, RowReported
<1>7. CASE row' = row /\ accepted' = accepted
  BY <1>0, <1>7 DEF RowsSound
<1> QED
  BY <1>1, <1>2, <1>3, <1>4, <1>5, <1>6, <1>7, RowsElsewhere

\* At the start tasks and rows are sound.
LEMMA SoundInit ==
  Init => Sound
BY TypesInit, TasksInit, RowsInit DEF Sound

\* They stay so.
LEMMA SoundStep ==
  Sound /\ [Next]_vars => Sound'
BY TypesStep, TasksStep, RowsStep DEF Sound

-----------------------------------------------------------------------------
(* Copies *)

\* Sets of dispatches, one of them more or less.
LEMMA Counts ==
  ASSUME NEW A \in SUBSET Dispatch, NEW B \in SUBSET Dispatch, NEW d \in Dispatch
  PROVE  /\ Cardinality(A) \in Nat /\ Cardinality(B) \in Nat
         /\ A \subseteq B => Cardinality(A) <= Cardinality(B)
         /\ A \subseteq B \cup {d} => Cardinality(A) <= Cardinality(B) + 1
         /\ d \in B /\ A \subseteq B \ {d} => Cardinality(A) + 1 <= Cardinality(B)
<1>1. \A T \in SUBSET Dispatch : IsFiniteSet(T) /\ Cardinality(T) \in Nat
  BY Finite
<1>2. \A S, T \in SUBSET Dispatch : S \subseteq T => Cardinality(S) <= Cardinality(T)
  BY <1>1, FS_Subset
<1>3. Cardinality(B \cup {d}) <= Cardinality(B) + 1
  BY <1>1, FS_AddElement
<1>4. d \in B => Cardinality(B \ {d}) + 1 = Cardinality(B)
  BY <1>1, FS_RemoveElement
<1>5. B \cup {d} \in SUBSET Dispatch /\ B \ {d} \in SUBSET Dispatch
  OBVIOUS
<1>6. /\ A \subseteq B \cup {d} => Cardinality(A) <= Cardinality(B \cup {d})
      /\ A \subseteq B \ {d} => Cardinality(A) <= Cardinality(B \ {d})
      /\ A \subseteq B => Cardinality(A) <= Cardinality(B)
  BY <1>2, <1>5
<1>7. /\ Cardinality(A) \in Nat /\ Cardinality(B) \in Nat
      /\ Cardinality(B \cup {d}) \in Nat /\ Cardinality(B \ {d}) \in Nat
  BY <1>1, <1>5
<1> QED
  BY <1>3, <1>4, <1>6, <1>7

\* A task keeps its message, a chord its body; nothing un-happens.
LEMMA TasksKeep ==
  ASSUME Sound, [Next]_vars, NEW e \in Dispatch
  PROVE  /\ job[e].pc # "free" => job'[e].sms = job[e].sms
         /\ job'[e].sms = job[e].sms \/ \E s \in Sms : RequestSend(e, s)
         /\ fin[e].pc # "none" => fin'[e].pc # "none"
<1> USE DEF money, world, provider
<1>0. BulkTypes /\ job[e] \in Job /\ fin[e] \in Finalize
  BY Owner DEF Sound
<1> DEFINE Kept == /\ \/ job'[e].sms = job[e].sms
                      \/ job[e].pc = "free" /\ \E s \in Sms : RequestSend(e, s)
                   /\ fin[e].pc # "none" => fin'[e].pc # "none"
<1>1. ASSUME NEW d \in Dispatch, NEW s \in Sms, RequestSend(d, s)
      PROVE  Kept
  <2>1. e # d => job'[e] = job[e]
    BY <1>0, <1>1 DEF RequestSend, BulkTypes
  <2> QED
    BY <1>1, <2>1 DEF RequestSend
<1>8. ASSUME NEW d \in Dispatch, Enqueues(d)
      PROVE  Kept
  <2>1. /\ job'[d].sms = job[d].sms /\ fin'[d].pc = "waiting"
        /\ \A c \in Dispatch \ {d} : job'[c] = job[c] /\ fin'[c] = fin[c]
    BY <1>8, EnqueueEffect
  <2> QED
    BY <2>1
<1>2. ASSUME NEW d \in Dispatch, DispatchStep(d)
      PROVE  Kept
  <2>1. CASE LoadSms(d)
    <3>1. job'[e].sms = job[e].sms
      BY <1>0, <2>1 DEF LoadSms, BulkTypes, Job
    <3> QED
      BY <2>1, <3>1 DEF LoadSms
  <2>2. CASE EstimateCost(d)
    <3> DEFINE n == Estimate(job[d].sms)
    <3>1. /\ job' = [job EXCEPT ![d] = [job[d] EXCEPT !.pc = "estimated", !.counted = Eligible,
                                                      !.est = n]]
          /\ fin' = fin
      BY <2>2 DEF EstimateCost
    <3> HIDE DEF n
    <3>2. job'[e].sms = job[e].sms
      BY <1>0, <3>1 DEF BulkTypes, Job
    <3> QED
      BY <3>1, <3>2
  <2>3. CASE RejectDispatch(d)
    <3>1. job'[e].sms = job[e].sms
      BY <1>0, <2>3 DEF RejectDispatch, BulkTypes, Job
    <3> QED
      BY <2>3, <3>1 DEF RejectDispatch
  <2>4. CASE ReserveAndQueue(d)
    <3>1. job'[d].sms = job[d].sms /\ fin' = fin /\ \A c \in Dispatch \ {d} : job'[c] = job[c]
      BY <2>4, ReserveEffect
    <3> QED
      BY <3>1
  <2>5. CASE InsufficientCredits(d)
    BY <1>0, <2>5, RetryMoves DEF InsufficientCredits
  <2>6. CASE EnqueueBatches(d)
    BY <1>8, <2>6 DEF Enqueues
  <2>7. CASE RejectAgain(d)
    BY <1>0, <2>7, AgainEffect DEF RejectAgain
  <2> QED
    BY <1>2, <2>1, <2>2, <2>3, <2>4, <2>5, <2>6, <2>7 DEF DispatchStep
<1>3. ASSUME NEW d \in Dispatch, NEW k \in BatchNo, BatchStep(d, k)
      PROVE  Kept
  BY <1>3 DEF BatchStep, StartBatch, SendToProvider, SaveRecipient, FlushEvents, RetryBatch,
              EndBatch
<1>4. ASSUME NEW d \in Dispatch, FinalizeStep(d)
      PROVE  Kept
  <2>1. CASE Reads(d)
    BY <2>1, ReadsEffect
  <2>2. CASE RollUp(d)
    BY <1>0, <2>2 DEF RollUp, BulkTypes, Finalize
  <2>3. CASE DebitActual(d)
    BY <1>0, <2>3 DEF DebitActual, BulkTypes, Finalize
  <2>4. CASE ReleaseRest(d)
    BY <1>0, <2>4 DEF ReleaseRest, BulkTypes, Finalize
  <2> QED
    BY <1>4, <2>1, <2>2, <2>3, <2>4 DEF FinalizeStep, Reads
<1>5. ASSUME NEW d \in Dispatch, EnqueueFails(d)
      PROVE  Kept
  BY <1>0, <1>5, RetryMoves DEF EnqueueFails
<1>6. ASSUME NEW d \in Dispatch, Crash(d)
      PROVE  Kept
  <2>1. job'[e].sms = job[e].sms
    <3>1. CASE job' = [job EXCEPT ![d].pc = "lost"]
      BY <1>0, <3>1 DEF BulkTypes, Job
    <3> QED
      BY <1>6, <3>1 DEF Crash
  <2>2. fin[e].pc # "none" => fin'[e].pc # "none"
    BY <1>0, <1>6 DEF Crash, BulkTypes, Finalize
  <2> QED
    BY <2>1, <2>2
<1>7. CASE job' = job /\ fin' = fin
  BY <1>7
<1> HIDE DEF Kept
<1>9. CASE \/ \E s \in Sms : EditRead(s)
           \/ \E newStatus \in SmsStatus, newSegs \in Segments : EditSave(newStatus, newSegs)
           \/ \E s \in Sms, p \in Phone : OptOut(s, p)
           \/ \E s \in Sms, p \in Phone, v \in Reports : DeliveryReport(s, p, v)
           \/ \E p \in Phone : JoinSegment(p)
           \/ RefreshPrices \/ UNCHANGED vars
  BY <1>7, <1>9 DEF EditRead, EditSave, OptOut, DeliveryReport, JoinSegment, RefreshPrices, vars
<1> QED
  BY <1>1, <1>2, <1>3, <1>4, <1>5, <1>6, <1>8, <1>9 DEF Next, Environment, Enqueues, Kept

\* Nobody stops having dispatched.
LEMMA DispatchedGrows ==
  ASSUME Sound, [Next]_vars, NEW s \in Sms
  PROVE  Dispatched(s) \subseteq Dispatched(s)'
<1>1. ASSUME NEW d \in Dispatch, job[d].sms = s, fin[d].pc # "none"
      PROVE  job'[d].sms = s /\ fin'[d].pc # "none"
  <2>1. job[d].pc # "free"
    BY <1>1, Owner
  <2> QED
    BY <1>1, <2>1, TasksKeep
<1> QED
  BY <1>1 DEF Dispatched

\* Where no batch moves, nobody becomes pending.
LEMMA PendingKept ==
  ASSUME Sound, [Next]_vars, batch' = batch, NEW s \in Sms, NEW p \in Phone
  PROVE  Pending(s, p)' \subseteq Pending(s, p)
<1>1. ASSUME NEW d \in Dispatch, NEW k \in BatchNo, p \in Live(batch[d][k])
      PROVE  job'[d].sms = job[d].sms
  <2>1. batch[d][k].pc # "none"
    BY <1>1 DEF Live
  <2> QED
    BY <2>1, Owner, TasksKeep
<1> QED
  BY <1>1 DEF Pending

\* Where one batch moves, only its dispatch may become pending, and only for whom the
\* batch takes up again.
LEMMA PendingMoves ==
  ASSUME Sound, NEW d \in Dispatch, NEW k \in BatchNo, NEW s, Working(d, k, s),
         NEW t \in Sms, NEW p \in Phone
  PROVE  /\ Pending(t, p)' \subseteq Pending(t, p) \cup {d}
         /\ t # s => Pending(t, p)' \subseteq Pending(t, p)
         /\ (p \in Live(batch'[d][k]) => p \in Live(batch[d][k])) =>
               Pending(t, p)' \subseteq Pending(t, p)
<1>1. /\ s = job[d].sms /\ job' = job
      /\ \A l \in BatchNo \ {k} : batch'[d][l] = batch[d][l]
      /\ \A e \in Dispatch \ {d} : batch'[e] = batch[e]
  BY DEF Working, OneBatch
<1>2. Pending(t, p)' = {e \in Dispatch : job'[e].sms = t /\ \E l \in BatchNo : p \in Live(batch'[e][l])}
  BY DEF Pending, Live
<1>3. Pending(t, p) = {e \in Dispatch : job[e].sms = t /\ \E l \in BatchNo : p \in Live(batch[e][l])}
  BY DEF Pending
<1>4. \A e \in Dispatch \ {d} : e \in Pending(t, p)' => e \in Pending(t, p)
  BY <1>1, <1>2, <1>3
<1>5. t # s => d \notin Pending(t, p)'
  BY <1>1, <1>2
<1>6. (p \in Live(batch'[d][k]) => p \in Live(batch[d][k])) =>
         (d \in Pending(t, p)' => d \in Pending(t, p))
  BY <1>1, <1>2, <1>3
<1>7. Pending(t, p)' \subseteq Dispatch
  BY <1>2
<1> QED
  BY <1>4, <1>5, <1>6, <1>7

\* Faults are not taken back.
LEMMA FaultsGrow ==
  ASSUME Sound, [Next]_vars
  PROVE  used.faults \in Nat /\ used'.faults \in Nat /\ used.faults <= used'.faults
<1> USE DEF money, world, provider
<1>1. used \in Use /\ used' \in Use /\ MaxFaults \in Nat
  BY TypesStep, EnvironmentAssumption DEF Sound, BulkTypes
<1>2. used.faults \in Nat /\ used'.faults \in Nat
  BY <1>1 DEF Use
<1>3. \/ used' = used
      \/ used' = [used EXCEPT !.faults = @ + 1] \/ used' = [used EXCEPT !.edits = @ + 1]
      \/ used' = [used EXCEPT !.refreshes = @ + 1] \/ used' = [used EXCEPT !.optOuts = @ + 1]
  <2>1. ASSUME NEW d \in Dispatch, \/ \E s \in Sms : RequestSend(d, s)
                                   \/ DispatchStep(d) \/ FinalizeStep(d)
        PROVE  used' = used
    BY <2>1 DEF RequestSend, DispatchStep, LoadSms, EstimateCost, RejectDispatch, ReserveAndQueue,
                InsufficientCredits, EnqueueBatches, Publish, RejectAgain, FinalizeStep, ReadForFinalize, CountRows, RollUp, FindReservation, PriceReached,
                DebitActual, ReleaseRest
  <2>2. ASSUME NEW d \in Dispatch, NEW k \in BatchNo, BatchStep(d, k)
        PROVE  used' = used
    BY <2>2 DEF BatchStep, StartBatch, SendToProvider, SaveRecipient, FlushEvents, RetryBatch,
                EndBatch
  <2>3. CASE Environment
    BY <2>3 DEF Environment, EditRead, EditSave, OptOut, DeliveryReport, JoinSegment,
                RefreshPrices, EnqueueFails, PublishFails, Publish, Crash
  <2>4. CASE UNCHANGED vars
    BY <2>4 DEF vars
  <2> QED
    BY <2>1, <2>2, <2>3, <2>4 DEF Next
<1>4. used'.faults = used.faults \/ used'.faults = used.faults + 1
  BY <1>1, <1>3 DEF Use
<1> QED
  BY <1>2, <1>4

\* At the start no copy was taken, and nothing is pending.
LEMMA CopiesInit ==
  Init => CopiesCounted
<1> SUFFICES ASSUME Init, NEW s \in Sms, NEW p \in Phone
             PROVE  accepted[s][p] + Cardinality(Pending(s, p))
                      <= Cardinality(Dispatched(s)) + used.faults + unconfirmed[s][p]
  BY DEF CopiesCounted
<1>1. \A d \in Dispatch, k \in BatchNo : batch[d][k].pc = "none"
  BY DEF Init, NoBatch
<1>2. Pending(s, p) = {}
  BY <1>1 DEF Pending, Live
<1>3. Cardinality(Pending(s, p)) = 0
  BY <1>2, FS_EmptySet
<1>4. Dispatched(s) \in SUBSET Dispatch
  BY DEF Dispatched
<1>5. Cardinality(Dispatched(s)) \in Nat
  BY <1>4, Finite
<1>6. accepted[s][p] = 0 /\ unconfirmed[s][p] = 0 /\ used.faults = 0
  BY DEF Init
<1> QED
  BY <1>3, <1>5, <1>6

\* The numbers of one message and one phone.
CopiesAt(s, p) ==
  accepted[s][p] + Cardinality(Pending(s, p))
    <= Cardinality(Dispatched(s)) + used.faults + unconfirmed[s][p]

\* What the count of copies is made of are numbers, before and after a step, and dispatches
\* that have reserved stay so.
LEMMA CopyNumbers ==
  ASSUME Sound, [Next]_vars, NEW s \in Sms, NEW p \in Phone
  PROVE  /\ Pending(s, p) \in SUBSET Dispatch /\ Pending(s, p)' \in SUBSET Dispatch
         /\ Dispatched(s) \in SUBSET Dispatch /\ Dispatched(s)' \in SUBSET Dispatch
         /\ Cardinality(Pending(s, p)) \in Nat /\ Cardinality(Pending(s, p)') \in Nat
         /\ Cardinality(Dispatched(s)) \in Nat /\ Cardinality(Dispatched(s)') \in Nat
         /\ Cardinality(Dispatched(s)) <= Cardinality(Dispatched(s)')
         /\ accepted[s][p] \in Nat /\ unconfirmed[s][p] \in Nat
         /\ accepted'[s][p] \in Nat /\ unconfirmed'[s][p] \in Nat
<1>1. /\ Pending(s, p) \in SUBSET Dispatch /\ Pending(s, p)' \in SUBSET Dispatch
      /\ Dispatched(s) \in SUBSET Dispatch /\ Dispatched(s)' \in SUBSET Dispatch
  BY DEF Pending, Dispatched
<1>2. Dispatched(s) \subseteq Dispatched(s)'
  BY DispatchedGrows
<1>3. BulkTypes /\ BulkTypes'
  BY TypesStep DEF Sound
<1>4. /\ accepted[s][p] \in Nat /\ unconfirmed[s][p] \in Nat
      /\ accepted'[s][p] \in Nat /\ unconfirmed'[s][p] \in Nat
  BY <1>3 DEF BulkTypes
<1>5. /\ Cardinality(Pending(s, p)) \in Nat /\ Cardinality(Pending(s, p)') \in Nat
      /\ Cardinality(Dispatched(s)) \in Nat /\ Cardinality(Dispatched(s)') \in Nat
  BY <1>1, Finite
<1>6. Cardinality(Dispatched(s)) <= Cardinality(Dispatched(s)')
  <2>1. IsFiniteSet(Dispatched(s)')
    BY <1>1, Finite
  <2> QED
    BY <1>2, <2>1, FS_Subset
<1> QED
  BY <1>1, <1>4, <1>5, <1>6

\* Nothing is taken, and nobody becomes pending.
LEMMA CopiesKept ==
  ASSUME Sound, [Next]_vars, NEW s \in Sms, NEW p \in Phone, CopiesAt(s, p),
         Pending(s, p)' \subseteq Pending(s, p),
         \/ accepted'[s][p] = accepted[s][p] /\ unconfirmed'[s][p] = unconfirmed[s][p]
         \/ accepted'[s][p] = accepted[s][p] + 1 /\ unconfirmed'[s][p] = unconfirmed[s][p] + 1
  PROVE  CopiesAt(s, p)'
<1> DEFINE c == Cardinality(Pending(s, p))  e == Cardinality(Pending(s, p)')
           m == Cardinality(Dispatched(s))  n == Cardinality(Dispatched(s)')
<1>1. c \in Nat /\ e \in Nat /\ m \in Nat /\ n \in Nat /\ m <= n
  BY CopyNumbers
<1>2. e <= c
  <2>1. Pending(s, p) \in SUBSET Dispatch
    BY CopyNumbers
  <2>2. IsFiniteSet(Pending(s, p))
    BY <2>1, Finite
  <2> QED
    BY <2>2, FS_Subset
<1>3. accepted[s][p] + c <= m + used.faults + unconfirmed[s][p]
  BY DEF CopiesAt
<1>4. /\ accepted[s][p] \in Nat /\ unconfirmed[s][p] \in Nat
      /\ accepted'[s][p] \in Nat /\ unconfirmed'[s][p] \in Nat
  BY CopyNumbers
<1>5. used.faults \in Nat /\ used'.faults \in Nat /\ used.faults <= used'.faults
  BY FaultsGrow
<1> HIDE DEF c, e, m, n
<1>6. accepted'[s][p] + e <= n + used'.faults + unconfirmed'[s][p]
  BY <1>1, <1>2, <1>3, <1>4, <1>5
<1> QED
  BY <1>6 DEF CopiesAt, e, n

\* One dispatch becomes pending: it has just dispatched, or there was a fault.
LEMMA CopiesOneMore ==
  ASSUME Sound, [Next]_vars, NEW s \in Sms, NEW p \in Phone, NEW d \in Dispatch, CopiesAt(s, p),
         Pending(s, p)' \subseteq Pending(s, p) \cup {d},
         accepted'[s][p] = accepted[s][p] /\ unconfirmed'[s][p] = unconfirmed[s][p],
         \/ d \in Dispatched(s)' \ Dispatched(s) \/ used'.faults = used.faults + 1
  PROVE  CopiesAt(s, p)'
<1> DEFINE c == Cardinality(Pending(s, p))  e == Cardinality(Pending(s, p)')
           m == Cardinality(Dispatched(s))  n == Cardinality(Dispatched(s)')
<1>1. c \in Nat /\ e \in Nat /\ m \in Nat /\ n \in Nat /\ m <= n
  BY CopyNumbers
<1>2. /\ Pending(s, p) \in SUBSET Dispatch /\ Pending(s, p)' \in SUBSET Dispatch
      /\ Dispatched(s) \in SUBSET Dispatch /\ Dispatched(s)' \in SUBSET Dispatch
  BY CopyNumbers
<1>3. e <= c + 1
  <2> DEFINE A == Pending(s, p)'  B == Pending(s, p)
  <2>1. A \in SUBSET Dispatch /\ B \in SUBSET Dispatch /\ A \subseteq B \cup {d}
    BY <1>2
  <2> HIDE DEF A, B
  <2>2. Cardinality(A) <= Cardinality(B) + 1
    BY <2>1, Counts
  <2> QED
    BY <2>2 DEF A, B
<1>4. d \in Dispatched(s)' \ Dispatched(s) => m + 1 <= n
  <2> DEFINE A == Dispatched(s)  B == Dispatched(s)'
  <2>1. A \in SUBSET Dispatch /\ B \in SUBSET Dispatch /\ A \subseteq B
    BY <1>2, DispatchedGrows
  <2> HIDE DEF A, B
  <2>2. d \in B \ A => Cardinality(A) + 1 <= Cardinality(B)
    BY <2>1, Counts
  <2> QED
    BY <2>2 DEF A, B
<1>5. accepted[s][p] + c <= m + used.faults + unconfirmed[s][p]
  BY DEF CopiesAt
<1>6. /\ accepted[s][p] \in Nat /\ unconfirmed[s][p] \in Nat
  BY CopyNumbers
<1>7. used.faults \in Nat /\ used'.faults \in Nat /\ used.faults <= used'.faults
  BY FaultsGrow
<1>8. m + 1 <= n \/ used'.faults = used.faults + 1
  BY <1>4
<1> HIDE DEF c, e, m, n
<1>9. accepted'[s][p] + e <= n + used'.faults + unconfirmed'[s][p]
  BY <1>1, <1>3, <1>5, <1>6, <1>7, <1>8
<1> QED
  BY <1>9 DEF CopiesAt, e, n

\* A message is taken, and its dispatch is no longer pending.
LEMMA CopiesTaken ==
  ASSUME Sound, [Next]_vars, NEW s \in Sms, NEW p \in Phone, NEW d \in Pending(s, p), CopiesAt(s, p),
         Pending(s, p)' \subseteq Pending(s, p) \ {d},
         accepted'[s][p] = accepted[s][p] + 1 /\ unconfirmed'[s][p] = unconfirmed[s][p]
  PROVE  CopiesAt(s, p)'
<1> DEFINE c == Cardinality(Pending(s, p))  e == Cardinality(Pending(s, p)')
           m == Cardinality(Dispatched(s))  n == Cardinality(Dispatched(s)')
<1>1. c \in Nat /\ e \in Nat /\ m \in Nat /\ n \in Nat /\ m <= n
  BY CopyNumbers
<1>2. e + 1 <= c
  <2> DEFINE A == Pending(s, p)'  B == Pending(s, p)
  <2>1. A \in SUBSET Dispatch /\ B \in SUBSET Dispatch /\ d \in B /\ A \subseteq B \ {d}
    BY CopyNumbers
  <2> HIDE DEF A, B
  <2>2. Cardinality(A) + 1 <= Cardinality(B)
    BY <2>1, Counts
  <2> QED
    BY <2>2 DEF A, B
<1>3. accepted[s][p] + c <= m + used.faults + unconfirmed[s][p]
  BY DEF CopiesAt
<1>4. /\ accepted[s][p] \in Nat /\ unconfirmed[s][p] \in Nat
  BY CopyNumbers
<1>5. used.faults \in Nat /\ used'.faults \in Nat /\ used.faults <= used'.faults
  BY FaultsGrow
<1> HIDE DEF c, e, m, n
<1>6. accepted'[s][p] + e <= n + used'.faults + unconfirmed'[s][p]
  BY <1>1, <1>2, <1>3, <1>4, <1>5
<1> QED
  BY <1>6 DEF CopiesAt, e, n

\* Every step keeps the count: a message that is taken uses up a pending send, or is paid
\* for by a lost reply; a send is pending anew because of a dispatch or a fault.
LEMMA CopiesStep ==
  ASSUME Sound, CopiesCounted, [Next]_vars
  PROVE  CopiesCounted'
<1> USE DEF money, world, provider
<1> SUFFICES ASSUME NEW s \in Sms, NEW p \in Phone
             PROVE  CopiesAt(s, p)'
  BY DEF CopiesCounted, CopiesAt
<1>0. CopiesAt(s, p) /\ BulkTypes /\ BulkTypes'
  BY TypesStep DEF Sound, CopiesCounted, CopiesAt
<1> DEFINE Same == accepted' = accepted /\ unconfirmed' = unconfirmed
<1>1. CASE batch' = batch /\ Same
  BY <1>0, <1>1, PendingKept, CopiesKept
<1>2. ASSUME NEW d \in Dispatch, Enqueues(d)
      PROVE  CopiesAt(s, p)'
  <2>1. /\ Same /\ job[d].pc = "committed"
        /\ \A e \in Dispatch \ {d} : batch'[e] = batch[e]
    BY <1>2, EnqueueEffect DEF PublishedAs
  <2>2. fin[d].pc = "none" /\ fin'[d].pc = "waiting" /\ job'[d].sms = job[d].sms
    BY <1>2, <2>1, Owner, EnqueueEffect
  <2>3. \A e \in Dispatch \ {d} : e \in Pending(s, p)' => e \in Pending(s, p)
    <3>1. ASSUME NEW e \in Dispatch \ {d}, NEW k \in BatchNo, p \in Live(batch[e][k])
          PROVE  job'[e].sms = job[e].sms
      <4>1. batch[e][k].pc # "none"
        BY <3>1 DEF Live
      <4> QED
        BY <4>1, Owner, TasksKeep
    <3> QED
      BY <2>1, <3>1 DEF Pending
  <2>4. CASE job[d].sms = s
    <3>1. d \in Dispatched(s)' \ Dispatched(s)
      BY <2>2, <2>4 DEF Dispatched
    <3>2. Pending(s, p)' \subseteq Pending(s, p) \cup {d}
      BY <2>3 DEF Pending
    <3> QED
      BY <1>0, <2>1, <3>1, <3>2, CopiesOneMore
  <2>5. CASE job[d].sms # s
    <3>1. d \notin Pending(s, p)'
      BY <2>2, <2>5 DEF Pending
    <3>2. Pending(s, p)' \subseteq Pending(s, p)
      BY <2>3, <3>1 DEF Pending
    <3> QED
      BY <1>0, <2>1, <3>2, CopiesKept
  <2> QED
    BY <2>4, <2>5
<1>3. ASSUME NEW d \in Dispatch, NEW k \in BatchNo, StartBatch(d, k)
      PROVE  CopiesAt(s, p)'
  <2> DEFINE c == batch[d][k]  b == batch'[d][k]
  <2>1. /\ Working(d, k, job[d].sms) /\ c.pc = "queued" /\ b.pc = "running"
        /\ b.todo \subseteq c.ids /\ b.result = c.result /\ b.transient = c.transient
    BY <1>3, StartEffect
  <2>2. c.transient = {} /\ c.result = "none"
    BY <2>1 DEF Working, BatchSound
  <2>3. Live(b) \subseteq Live(c)
    <3> HIDE DEF b, c
    <3> QED
      BY <2>1, <2>2 DEF Live
  <2>4. Pending(s, p)' \subseteq Pending(s, p)
    BY <2>1, <2>3, PendingMoves
  <2> QED
    BY <1>0, <1>3, <2>4, CopiesKept DEF StartBatch
<1>4. ASSUME NEW d \in Dispatch, NEW k \in BatchNo, NEW q \in Phone, NEW o \in Outcomes,
             SendToProvider(d, k, q, o)
      PROVE  CopiesAt(s, p)'
  <2> DEFINE t == job[d].sms  c == batch[d][k]  b == batch'[d][k]
  <2>1. /\ Working(d, k, t) /\ c.pc = "running" /\ c.cur = NoPhone /\ q \in c.todo
        /\ b.pc = "running" /\ b.ids = c.ids /\ b.todo = c.todo \ {q} /\ b.cur = q
        /\ b.transient = c.transient
        /\ b.result = (IF o = "lost_reply" THEN "transient" ELSE o)
        /\ \A x \in Sms, y \in Phone :
             x # t \/ y # q => /\ accepted'[x][y] = accepted[x][y]
                               /\ unconfirmed'[x][y] = unconfirmed[x][y]
        /\ accepted[t][q] \in Nat /\ unconfirmed[t][q] \in Nat
        /\ accepted'[t][q] = accepted[t][q]
                               + (IF o \in {"success", "lost_reply"} THEN 1 ELSE 0)
        /\ unconfirmed'[t][q] = unconfirmed[t][q] + (IF o = "lost_reply" THEN 1 ELSE 0)
    BY <1>4, SendEffect DEF Working
  <2>2. BatchSound(c, DOMAIN row[t], accepted[t]) /\ t \in Sms /\ c \in Batch
    BY <2>1 DEF Working
  <2>3. Live(b) \subseteq Live(c)
    <3> HIDE DEF b, c, t
    <3> QED
      BY <2>1 DEF Live
  <2>4. Pending(s, p)' \subseteq Pending(s, p)
    BY <2>1, <2>3, PendingMoves
  <2>5. CASE s # t \/ p # q \/ o # "success"
    <3>1. \/ accepted'[s][p] = accepted[s][p] /\ unconfirmed'[s][p] = unconfirmed[s][p]
          \/ accepted'[s][p] = accepted[s][p] + 1 /\ unconfirmed'[s][p] = unconfirmed[s][p] + 1
      <4>1. CASE s # t \/ p # q
        <5> HIDE DEF t, b, c
        <5> QED
          BY <2>1, <4>1
      <4>2. CASE s = t /\ p = q /\ o # "success"
        BY <2>1, <2>5, <4>2
      <4> QED
        BY <2>5, <4>1, <4>2
    <3> QED
      BY <1>0, <2>4, <3>1, CopiesKept
  <2>6. CASE s = t /\ p = q /\ o = "success"
    <3>1. accepted'[s][p] = accepted[s][p] + 1 /\ unconfirmed'[s][p] = unconfirmed[s][p]
      BY <2>1, <2>6
    <3>2. d \in Pending(s, p)
      BY <2>1, <2>6 DEF Pending, Live
    <3>3. p \notin Live(b)
      <4>1. b.result = "success" /\ p \notin b.todo /\ p \notin b.transient
        BY <2>1, <2>2, <2>6 DEF BatchSound
      <4> HIDE DEF b
      <4> QED
        BY <2>1, <4>1 DEF Live
    <3>4. \A l \in BatchNo \ {k} : p \notin Live(batch[d][l])
      <4>1. SUFFICES ASSUME NEW l \in BatchNo \ {k}, p \in Live(batch[d][l])
                     PROVE  FALSE
        OBVIOUS
      <4>2. batch[d][l].pc # "none" /\ batch[d][l].result \in {"none", "success", "permanent", "transient"}
        BY <4>1, Owner DEF Live, Batch
      <4>3. BatchSound(batch[d][l], DOMAIN row[t], accepted[t])
        BY <4>2, Owner
      <4>4. p \in batch[d][l].ids
        BY <4>1, <4>3 DEF Live, BatchSound
      <4>5. p \in c.ids
        BY <2>1, <2>2, <2>6 DEF BatchSound
      <4>6. c.ids \cap batch[d][l].ids = {}
        BY DEF Sound, TasksSound, TaskSound
      <4> QED
        BY <4>4, <4>5, <4>6
    <3>5. d \notin Pending(s, p)'
      <4>1. Pending(s, p)' = {e \in Dispatch : job'[e].sms = s /\ \E l \in BatchNo : p \in Live(batch'[e][l])}
        BY DEF Pending, Live
      <4>2. \A l \in BatchNo \ {k} : batch'[d][l] = batch[d][l]
        BY <2>1 DEF Working, OneBatch
      <4> QED
        BY <3>3, <3>4, <4>1, <4>2
    <3>6. Pending(s, p)' \subseteq Pending(s, p) \ {d}
      BY <2>4, <3>5
    <3> QED
      BY <1>0, <3>1, <3>2, <3>6, CopiesTaken
  <2> QED
    BY <2>5, <2>6
<1>5. ASSUME NEW d \in Dispatch, NEW k \in BatchNo, SaveRecipient(d, k)
      PROVE  CopiesAt(s, p)'
  <2> DEFINE c == batch[d][k]  b == batch'[d][k]
  <2>1. /\ Working(d, k, job[d].sms) /\ c.pc = "running"
        /\ b.pc = "running" /\ b.todo = c.todo /\ b.result = "none"
        /\ b.transient = (IF c.result = "transient" THEN c.transient \cup {c.cur}
                                                   ELSE c.transient)
    BY <1>5, SaveEffect
  <2>2. Live(b) \subseteq Live(c)
    <3> HIDE DEF b, c
    <3> QED
      BY <2>1 DEF Live
  <2>3. Pending(s, p)' \subseteq Pending(s, p)
    BY <2>1, <2>2, PendingMoves
  <2> QED
    BY <1>0, <1>5, <2>3, CopiesKept DEF SaveRecipient
<1>6. ASSUME NEW d \in Dispatch, NEW k \in BatchNo, FlushEvents(d, k)
      PROVE  CopiesAt(s, p)'
  <2> DEFINE c == batch[d][k]  b == batch'[d][k]
  <2>1. /\ Working(d, k, job[d].sms) /\ c.pc = "running" /\ b.cur = c.cur
        /\ b.pc = "running" /\ b.todo = c.todo /\ b.result = c.result
        /\ b.transient = c.transient
    BY <1>6, FlushEffect
  <2>2. Live(b) \subseteq Live(c)
    <3> HIDE DEF b, c
    <3> QED
      BY <2>1 DEF Live
  <2>3. Pending(s, p)' \subseteq Pending(s, p)
    BY <2>1, <2>2, PendingMoves
  <2> QED
    BY <1>0, <1>6, <2>3, CopiesKept DEF FlushEvents
<1>7. ASSUME NEW d \in Dispatch, NEW k \in BatchNo, RetryBatch(d, k)
      PROVE  CopiesAt(s, p)'
  <2> DEFINE c == batch[d][k]  b == batch'[d][k]
  <2>1. /\ Working(d, k, job[d].sms) /\ c.pc = "running"
        /\ b.pc = "queued" /\ b.ids = c.transient
    BY <1>7, RetryEffect
  <2>2. Live(b) \subseteq Live(c)
    <3> HIDE DEF b, c
    <3> QED
      BY <2>1 DEF Live
  <2>3. Pending(s, p)' \subseteq Pending(s, p)
    BY <2>1, <2>2, PendingMoves
  <2> QED
    BY <1>0, <1>7, <2>3, CopiesKept DEF RetryBatch
<1>8. ASSUME NEW d \in Dispatch, NEW k \in BatchNo, EndBatch(d, k)
      PROVE  CopiesAt(s, p)'
  <2> DEFINE c == batch[d][k]  b == batch'[d][k]
  <2>1. Working(d, k, job[d].sms) /\ b.pc = "done"
    BY <1>8, EndEffect
  <2>2. Live(b) \subseteq Live(c)
    <3> HIDE DEF b, c
    <3> QED
      BY <2>1 DEF Live
  <2>3. Pending(s, p)' \subseteq Pending(s, p)
    BY <2>1, <2>2, PendingMoves
  <2> QED
    BY <1>0, <1>8, <2>3, CopiesKept DEF EndBatch
<1>9. ASSUME NEW d \in Dispatch, Crash(d)
      PROVE  CopiesAt(s, p)'
  <2>1. Same /\ used' = [used EXCEPT !.faults = @ + 1]
    BY <1>9 DEF Crash
  <2>2. used'.faults = used.faults + 1
    BY <1>0, <2>1 DEF BulkTypes, Use
  <2>3. CASE batch' = batch
    BY <1>1, <2>1, <2>3
  <2>4. ASSUME NEW k \in BatchNo, NEW after \in {"queued", "lost"}, CrashBatch(d, k, after)
        PROVE  CopiesAt(s, p)'
    <3>1. Working(d, k, job[d].sms)
      BY <2>4, CrashEffect
    <3>2. Pending(s, p)' \subseteq Pending(s, p) \cup {d}
      BY <3>1, PendingMoves
    <3> QED
      BY <1>0, <2>1, <2>2, <3>2, CopiesOneMore
  <2> QED
    BY <1>9, <2>3, <2>4 DEF Crash, CrashBatch
<1> HIDE DEF Same
<1>10. ASSUME NEW d \in Dispatch, DispatchStep(d), ~EnqueueBatches(d)
       PROVE  batch' = batch /\ Same
  BY <1>10 DEF DispatchStep, LoadSms, EstimateCost, RejectDispatch, RejectAgain,
               ReserveAndQueue, InsufficientCredits, Same
<1>11. ASSUME NEW d \in Dispatch, (\E t \in Sms : RequestSend(d, t)) \/ FinalizeStep(d)
       PROVE  batch' = batch /\ Same
  BY <1>11 DEF RequestSend, FinalizeStep, ReadForFinalize, CountRows, RollUp, FindReservation, PriceReached, DebitActual, ReleaseRest, Same
<1>12. ASSUME Environment, ~\E d \in Dispatch : PublishFails(d) \/ Crash(d)
       PROVE  batch' = batch /\ Same
  BY <1>12 DEF Environment, EditRead, EditSave, OptOut, DeliveryReport, JoinSegment,
               RefreshPrices, EnqueueFails, Same
<1>13. CASE UNCHANGED vars
  BY <1>1, <1>13 DEF vars, Same
<1> QED
  BY <1>1, <1>2, <1>3, <1>4, <1>5, <1>6, <1>7, <1>8, <1>9, <1>10, <1>11, <1>12, <1>13
     DEF Next, BatchStep, Environment, Enqueues

\* At the start nothing was asked for.
LEMMA ClicksInit ==
  Init => ClicksCounted
<1> SUFFICES ASSUME Init, NEW s \in Sms
             PROVE  Cardinality({d \in Dispatch : job[d].sms = s}) <= MaxClicks
  BY DEF ClicksCounted
<1>1. {d \in Dispatch : job[d].sms = s} = {}
  BY SendAssumption DEF Init, FreeJob
<1>2. Cardinality({d \in Dispatch : job[d].sms = s}) = 0
  BY <1>1, FS_EmptySet
<1>3. MaxClicks \in Nat
  BY EnvironmentAssumption
<1> QED
  BY <1>2, <1>3

\* A request is made when fewer than MaxClicks have been; no task changes its message.
LEMMA ClicksStep ==
  ASSUME Sound, ClicksCounted, [Next]_vars
  PROVE  ClicksCounted'
<1> SUFFICES ASSUME NEW s \in Sms
             PROVE  Cardinality({d \in Dispatch : job'[d].sms = s}) <= MaxClicks
  BY DEF ClicksCounted
<1> DEFINE A == {d \in Dispatch : job'[d].sms = s}  B == {d \in Dispatch : job[d].sms = s}
<1>1. A \in SUBSET Dispatch /\ B \in SUBSET Dispatch /\ Cardinality(B) <= MaxClicks
  BY DEF ClicksCounted
<1>2. ASSUME NEW d \in Dispatch, NEW t \in Sms, RequestSend(d, t)
      PROVE  Cardinality(A) <= MaxClicks
  <2>1. \A e \in Dispatch \ {d} : job'[e] = job[e]
    BY <1>2 DEF RequestSend, Sound, BulkTypes
  <2>2. CASE t = s
    <3>1. A \subseteq B \cup {d} /\ Cardinality(B) < MaxClicks
      BY <1>2, <2>1, <2>2 DEF RequestSend
    <3> HIDE DEF A, B
    <3>2. Cardinality(A) <= Cardinality(B) + 1 /\ Cardinality(A) \in Nat /\ Cardinality(B) \in Nat
      BY <1>1, <3>1, Counts
    <3> QED
      BY <3>1, <3>2, EnvironmentAssumption
  <2>3. CASE t # s
    <3>1. job'[d].sms = t
      BY <1>2 DEF RequestSend, Sound, BulkTypes, Job
    <3>2. A \subseteq B
      BY <2>1, <2>3, <3>1
    <3> HIDE DEF A, B
    <3>3. Cardinality(A) <= Cardinality(B) /\ Cardinality(A) \in Nat /\ Cardinality(B) \in Nat
      BY <1>1, <1>2, <3>2, Counts
    <3> QED
      BY <1>1, <3>3, EnvironmentAssumption
  <2> QED
    BY <2>2, <2>3
<1>3. CASE ~\E d \in Dispatch, t \in Sms : RequestSend(d, t)
  <2>1. A = B
    BY <1>3, TasksKeep
  <2> QED
    BY <1>1, <2>1
<1> QED
  BY <1>2, <1>3

\* With one click, a message has one dispatch.
LEMMA OneDispatch ==
  ASSUME ClicksCounted, OneClick, NEW d \in Dispatch, NEW e \in Dispatch,
         job[d].sms \in Sms, job[e].sms = job[d].sms
  PROVE  d = e
<1> DEFINE T == {c \in Dispatch : job[c].sms = job[d].sms}
<1>1. T \in SUBSET Dispatch /\ d \in T /\ e \in T /\ Cardinality(T) <= MaxClicks
  BY DEF ClicksCounted
<1> HIDE DEF T
<1>2. IsFiniteSet(T) /\ Cardinality(T) \in Nat
  BY <1>1, Finite
<1>3. Cardinality(T) <= 1
  BY <1>1, <1>2, EnvironmentAssumption DEF OneClick
<1> QED
  BY <1>1, <1>2, <1>3, AtMostOneElement

-----------------------------------------------------------------------------
(* Attempted *)

\* At the start nobody edits.
LEMMA UneditedInit ==
  Init => Unedited
BY DEF Init, Unedited, NoEdit

\* Who writes the status, and to what.
LEMMA StatusMoves ==
  ASSUME Sound, [Next]_vars, edit.pc = "idle", NoEdits
  PROVE  /\ edit' = edit
         /\ \/ status' = status
            \/ \E d \in Dispatch : \/ RejectDispatch(d) \/ RejectAgain(d)
                                  \/ ReserveAndQueue(d) \/ RollUp(d)
<1> USE DEF money, world, provider
<1> DEFINE Left == edit' = edit /\ status' = status
<1>1. ASSUME NEW d \in Dispatch, DispatchStep(d)
      PROVE  /\ edit' = edit
             /\ \/ status' = status
                \/ RejectDispatch(d) \/ RejectAgain(d) \/ ReserveAndQueue(d)
  BY <1>1 DEF DispatchStep, LoadSms, EstimateCost, RejectDispatch, ReserveAndQueue,
              InsufficientCredits, EnqueueBatches, Publish, RejectAgain
<1>2. ASSUME NEW d \in Dispatch, FinalizeStep(d)
      PROVE  edit' = edit /\ (status' = status \/ RollUp(d))
  BY <1>2 DEF FinalizeStep, ReadForFinalize, CountRows, RollUp, FindReservation, PriceReached, DebitActual, ReleaseRest
<1>3. ASSUME NEW d \in Dispatch, NEW k \in BatchNo, BatchStep(d, k)
      PROVE  Left
  BY <1>3 DEF BatchStep, StartBatch, SendToProvider, SaveRecipient, FlushEvents, RetryBatch,
              EndBatch
<1>4. ASSUME NEW d \in Dispatch, NEW s \in Sms, RequestSend(d, s)
      PROVE  Left
  BY <1>4 DEF RequestSend
<1>5. ASSUME Environment
      PROVE  Left
  <2>1. \A s \in Sms : ~EditRead(s)
    BY DEF Sound, BulkTypes, Use, EditRead, NoEdits
  <2>2. \A t, g : ~EditSave(t, g)
    BY DEF EditSave
  <2>3. CASE \E d \in Dispatch : EnqueueFails(d) \/ PublishFails(d) \/ Crash(d)
    BY <2>3 DEF EnqueueFails, PublishFails, Publish, Crash
  <2>4. CASE \/ \E s \in Sms, p \in Phone : OptOut(s, p)
             \/ \E s \in Sms, p \in Phone, v \in Reports : DeliveryReport(s, p, v)
             \/ \E p \in Phone : JoinSegment(p)
             \/ RefreshPrices
    BY <2>4 DEF OptOut, DeliveryReport, JoinSegment, RefreshPrices
  <2> QED
    BY <1>5, <2>1, <2>2, <2>3, <2>4 DEF Environment
<1>6. CASE UNCHANGED vars
  BY <1>6 DEF vars
<1> QED
  BY <1>1, <1>2, <1>3, <1>4, <1>5, <1>6 DEF Next

\* Only the dispatch adds rows.
LEMMA RowsAdded ==
  ASSUME Sound, [Next]_vars, NEW s \in Sms
  PROVE  \/ DOMAIN row'[s] = DOMAIN row[s]
         \/ \E d \in Dispatch : job[d].sms = s /\ ReserveAndQueue(d)
<1>1. ASSUME NEW d \in Dispatch, ReserveAndQueue(d)
      PROVE  DOMAIN row'[s] = DOMAIN row[s] \/ job[d].sms = s
  <2>1. \A t \in Sms \ {job[d].sms} : row'[t] = row[t]
    BY <1>1, ReserveEffect
  <2> QED
    BY <2>1
<1>2. ASSUME NEW d \in Dispatch, NEW k \in BatchNo, SaveRecipient(d, k)
      PROVE  DOMAIN row'[s] = DOMAIN row[s]
  BY <1>2, SaveEffect
<1>3. ASSUME NEW d \in Dispatch, NEW k \in BatchNo, EndBatch(d, k)
      PROVE  DOMAIN row'[s] = DOMAIN row[s]
  BY <1>3, EndEffect
<1>4. ASSUME NEW d \in Dispatch, NEW k \in BatchNo, NEW p \in Phone, NEW o \in Outcomes,
             SendToProvider(d, k, p, o)
      PROVE  DOMAIN row'[s] = DOMAIN row[s]
  BY <1>4 DEF SendToProvider
<1>5. ASSUME NEW t \in Sms, NEW p \in Phone, OptOut(t, p)
      PROVE  DOMAIN row'[s] = DOMAIN row[s]
  BY <1>5, OptOutEffect DEF RowReported
<1>6. ASSUME NEW t \in Sms, NEW p \in Phone, NEW v \in Reports, DeliveryReport(t, p, v)
      PROVE  DOMAIN row'[s] = DOMAIN row[s]
  BY <1>6, ReportEffect DEF RowReported
<1> QED
  BY <1>1, <1>2, <1>3, <1>4, <1>5, <1>6, RowsElsewhere

\* Without edits nobody starts one.
LEMMA UneditedStep ==
  ASSUME Sound, Unedited, [Next]_vars
  PROVE  Unedited'
BY StatusMoves DEF Unedited, NoEdits

\* What Attempts says of one dispatch.
AttemptAt(d) ==
  LET s == job[d].sms IN
  /\ job[d].pc = "committed" => QueuedIn(row[s]) \subseteq job[d].ids
  /\ job[d].pc = "enqueued" =>
       \A p \in QueuedIn(row[s]) : \E k \in BatchNo : p \in Waiting(batch[d][k])
  /\ fin[d].pc \in {"read"} \cup Rolled => AllBatchesDone(d)

\* At the start no recipient is queued.
LEMMA AttemptsInit ==
  Init => Attempts
BY DEF Init, Attempts, FreeJob, NoFin, Rolled

\* Who becomes queued: new rows, and the one a batch saves after a transient error.
LEMMA QueuedShrinks ==
  ASSUME Sound, [Next]_vars, NEW s \in Sms
  PROVE  \/ QueuedIn(row'[s]) \subseteq QueuedIn(row[s])
         \/ \E d \in Dispatch : job[d].sms = s /\ ReserveAndQueue(d)
         \/ \E d \in Dispatch, k \in BatchNo : job[d].sms = s /\ SaveRecipient(d, k)
<1> DEFINE Shrinks == QueuedIn(row'[s]) \subseteq QueuedIn(row[s])
<1>1. ASSUME NEW d \in Dispatch, ReserveAndQueue(d)
      PROVE  Shrinks \/ job[d].sms = s
  <2>1. \A t \in Sms \ {job[d].sms} : row'[t] = row[t]
    BY <1>1, ReserveEffect
  <2> QED
    BY <2>1
<1>2. ASSUME NEW d \in Dispatch, NEW k \in BatchNo, SaveRecipient(d, k)
      PROVE  Shrinks \/ job[d].sms = s
  <2>1. /\ \A t \in Sms : DOMAIN row'[t] = DOMAIN row[t]
        /\ \A t \in Sms : \A q \in DOMAIN row[t] :
             t # job[d].sms \/ q # batch[d][k].cur => row'[t][q] = row[t][q]
    BY <1>2, SaveEffect
  <2> QED
    BY <2>1 DEF QueuedIn
<1>3. ASSUME NEW d \in Dispatch, NEW k \in BatchNo, EndBatch(d, k)
      PROVE  Shrinks
  <2>1. /\ DOMAIN row'[s] = DOMAIN row[s]
        /\ \A p \in DOMAIN row[job[d].sms] :
             /\ p \notin batch[d][k].transient => row'[job[d].sms][p] = row[job[d].sms][p]
             /\ p \in batch[d][k].transient => row'[job[d].sms][p].status = "failed"
        /\ \A t \in Sms \ {job[d].sms} : row'[t] = row[t]
    BY <1>3, EndEffect
  <2>2. ASSUME NEW p \in DOMAIN row[s], row'[s][p].status = "queued"
        PROVE  row[s][p].status = "queued"
    BY <2>1, <2>2
  <2> QED
    BY <2>1, <2>2 DEF QueuedIn
<1>4. ASSUME NEW t \in Sms, NEW p \in Phone, RowReported(t, p), row'[t][p].status # "queued"
      PROVE  Shrinks
  BY <1>4 DEF RowReported, QueuedIn
<1>5. ASSUME row' = row
      PROVE  Shrinks
  BY <1>5
<1> HIDE DEF Shrinks
<1>6. ASSUME NEW t \in Sms, NEW p \in Phone, OptOut(t, p)
      PROVE  Shrinks
  <2>1. RowReported(t, p) /\ row'[t][p].status = "opted_out"
    BY <1>6, OptOutEffect
  <2> QED
    BY <1>4, <2>1
<1>7. ASSUME NEW t \in Sms, NEW p \in Phone, NEW v \in Reports, DeliveryReport(t, p, v)
      PROVE  Shrinks
  <2>1. RowReported(t, p) /\ row'[t][p].status \in {"sent", "delivered", "undelivered"}
    BY <1>7, ReportEffect
  <2> QED
    BY <1>4, <2>1
<1>8. ASSUME NEW d \in Dispatch, NEW k \in BatchNo, NEW p \in Phone, NEW o \in Outcomes,
             SendToProvider(d, k, p, o)
      PROVE  Shrinks
  <2>1. row' = row
    BY <1>8 DEF SendToProvider
  <2> QED
    BY <1>5, <2>1
<1> QED
  BY <1>1, <1>2, <1>3, <1>5, <1>6, <1>7, <1>8, RowsElsewhere DEF Shrinks

\* A dispatch that does not move keeps trying the same recipients.
LEMMA AttemptKept ==
  ASSUME Sound, [Next]_vars, NEW d \in Dispatch, AttemptAt(d),
         job'[d] = job[d], batch'[d] = batch[d], fin'[d] = fin[d],
         job[d].sms \in Sms => QueuedIn(row'[job[d].sms]) \subseteq QueuedIn(row[job[d].sms])
  PROVE  AttemptAt(d)'
<1>1. job[d].pc # "free" => job[d].sms \in Sms
  BY Owner
<1>2. fin[d].pc \in {"read"} \cup Rolled => AllBatchesDone(d)'
  BY DEF AttemptAt, AllBatchesDone
<1>3. job[d].pc \in {"committed", "enqueued"} =>
        QueuedIn(row'[job[d].sms]) \subseteq QueuedIn(row[job[d].sms])
  BY <1>1
<1>4. job'[d].pc = "committed" => QueuedIn(row'[job'[d].sms]) \subseteq job'[d].ids
  BY <1>3 DEF AttemptAt
<1>5. job'[d].pc = "enqueued" =>
        \A p \in QueuedIn(row'[job'[d].sms]) : \E k \in BatchNo : p \in Waiting(batch'[d][k])
  BY <1>3 DEF AttemptAt
<1> QED
  BY <1>2, <1>4, <1>5 DEF AttemptAt, Waiting, QueuedIn

\* A batch that moves holds on to whom it still has to try.
LEMMA AttemptMoves ==
  ASSUME Sound, [Next]_vars, NEW d \in Dispatch, NEW k \in BatchNo, NEW s, Working(d, k, s),
         AttemptAt(d), batch[d][k].pc \in {"queued", "running"},
         \A p \in QueuedIn(row'[s]) :
           \/ p \in QueuedIn(row[s]) /\ (p \in Waiting(batch[d][k]) => p \in Waiting(batch'[d][k]))
           \/ p \in Waiting(batch'[d][k])
  PROVE  AttemptAt(d)'
<1>1. /\ s = job[d].sms /\ job[d].pc = "enqueued" /\ job' = job /\ fin' = fin
      /\ \A l \in BatchNo \ {k} : batch'[d][l] = batch[d][l]
  BY DEF Working, OneBatch
<1>2. fin[d].pc \notin {"read"} \cup Rolled
  BY DEF AttemptAt, AllBatchesDone
<1>3. \A p \in QueuedIn(row'[s]) : \E l \in BatchNo : p \in Waiting(batch'[d][l])
  <2>1. SUFFICES ASSUME NEW p \in QueuedIn(row'[s]), p \notin Waiting(batch'[d][k])
                 PROVE  \E l \in BatchNo : p \in Waiting(batch'[d][l])
    OBVIOUS
  <2>2. p \in QueuedIn(row[s]) /\ p \notin Waiting(batch[d][k])
    BY <2>1
  <2>3. PICK l \in BatchNo : p \in Waiting(batch[d][l])
    BY <1>1, <2>2 DEF AttemptAt
  <2> QED
    BY <1>1, <2>2, <2>3
<1> QED
  BY <1>1, <1>2, <1>3 DEF AttemptAt, Waiting, QueuedIn

\* A step of a task changes the records of its dispatch only.
LEMMA OnlyOwn ==
  ASSUME Sound, NEW e \in Dispatch, NEW d \in Dispatch \ {e},
         \/ \E s \in Sms : RequestSend(e, s)
         \/ DispatchStep(e) \/ FinalizeStep(e) \/ EnqueueFails(e) \/ PublishFails(e)
         \/ Crash(e) \/ \E k \in BatchNo : BatchStep(e, k)
  PROVE  job'[d] = job[d] /\ batch'[d] = batch[d] /\ fin'[d] = fin[d]
<1>0. BulkTypes
  BY DEF Sound
<1>7. ASSUME Enqueues(e)
      PROVE  job'[d] = job[d] /\ batch'[d] = batch[d] /\ fin'[d] = fin[d]
  <2>1. job'[d] = job[d] /\ fin'[d] = fin[d] /\ \E n, ids, q : PublishedAs(e, n, ids, q)
    BY ZenonT(30), <1>7, EnqueueEffect
  <2>2. batch'[d] = batch[d]
    BY <2>1 DEF PublishedAs
  <2> QED
    BY <2>1, <2>2
<1>1. CASE \E s \in Sms : RequestSend(e, s)
  BY <1>0, <1>1 DEF RequestSend, BulkTypes
<1>2. CASE DispatchStep(e)
  <2>1. CASE InsufficientCredits(e)
    BY <1>0, <2>1, RetryMoves DEF InsufficientCredits
  <2>2. CASE EnqueueBatches(e)
    BY <1>7, <2>2 DEF Enqueues
  <2>3. CASE LoadSms(e) \/ EstimateCost(e) \/ RejectDispatch(e) \/ ReserveAndQueue(e)
    BY <1>0, <2>3 DEF LoadSms, EstimateCost, RejectDispatch, ReserveAndQueue, BulkTypes
  <2>4. CASE RejectAgain(e)
    BY <1>0, <2>4, AgainEffect DEF RejectAgain
  <2> QED
    BY <1>2, <2>1, <2>2, <2>3, <2>4 DEF DispatchStep
<1>3. CASE FinalizeStep(e)
  <2>1. CASE Reads(e)
    BY <2>1, ReadsEffect
  <2>2. CASE RollUp(e) \/ DebitActual(e) \/ ReleaseRest(e)
    BY <1>0, <2>2 DEF RollUp, DebitActual, ReleaseRest, BulkTypes
  <2> QED
    BY <1>3, <2>1, <2>2 DEF FinalizeStep, Reads
<1>4. CASE EnqueueFails(e)
  BY <1>0, <1>4, RetryMoves DEF EnqueueFails
<1>5. CASE Crash(e)
  BY <1>0, <1>5 DEF Crash, BulkTypes
<1>6. ASSUME NEW k \in BatchNo, BatchStep(e, k)
      PROVE  job'[d] = job[d] /\ batch'[d] = batch[d] /\ fin'[d] = fin[d]
  BY ZenonT(60), <1>0, <1>6 DEF BatchStep, StartBatch, SendToProvider, SaveRecipient, FlushEvents,
                    RetryBatch, EndBatch, BulkTypes
<1> QED
  BY <1>1, <1>2, <1>3, <1>4, <1>5, <1>6, <1>7 DEF Enqueues

\* So a dispatch moves by its own steps.
LEMMA OwnSteps ==
  ASSUME Sound, [Next]_vars, NEW d \in Dispatch
  PROVE  \/ job'[d] = job[d] /\ batch'[d] = batch[d] /\ fin'[d] = fin[d]
         \/ \E s \in Sms : RequestSend(d, s)
         \/ DispatchStep(d) \/ FinalizeStep(d) \/ EnqueueFails(d) \/ PublishFails(d) \/ Crash(d)
         \/ \E k \in BatchNo : BatchStep(d, k)
<1>1. CASE \E e \in Dispatch : \/ \E s \in Sms : RequestSend(e, s)
                              \/ DispatchStep(e) \/ FinalizeStep(e) \/ EnqueueFails(e)
                              \/ PublishFails(e) \/ Crash(e) \/ \E k \in BatchNo : BatchStep(e, k)
  BY <1>1, OnlyOwn
<1>2. CASE \/ \E s \in Sms : EditRead(s)
           \/ \E newStatus \in SmsStatus, newSegs \in Segments : EditSave(newStatus, newSegs)
           \/ \E s \in Sms, p \in Phone : OptOut(s, p)
           \/ \E s \in Sms, p \in Phone, v \in Reports : DeliveryReport(s, p, v)
           \/ \E p \in Phone : JoinSegment(p)
           \/ RefreshPrices \/ UNCHANGED vars
  <2>1. job' = job /\ fin' = fin /\ batch' = batch
    BY <1>2 DEF EditRead, EditSave, OptOut, DeliveryReport, JoinSegment, RefreshPrices, vars
  <2> QED
    BY <2>1
<1> QED
  BY <1>1, <1>2 DEF Next, Environment

\* With one dispatch for a message, whoever is queued is waiting in one of its batches.
LEMMA AttemptsStep ==
  ASSUME Sound, Sound', ClicksCounted, Attempts, [Next]_vars
  PROVE  Attempts'
<1> USE DEF money, world, provider
<1> SUFFICES ASSUME OneClick, NEW d \in Dispatch
             PROVE  AttemptAt(d)'
  BY DEF Attempts, AttemptAt, OneClick
<1>0. /\ BulkTypes /\ BulkTypes' /\ \A e \in Dispatch : AttemptAt(e)
      /\ \A e \in Dispatch : job[e].sms \in Sms /\ job[e].sms = job[d].sms => e = d
  BY OneDispatch DEF Sound, Attempts, AttemptAt
\* The steps of other dispatches, and of the environment.
<1>1. ASSUME job'[d] = job[d], batch'[d] = batch[d], fin'[d] = fin[d]
      PROVE  AttemptAt(d)'
  <2>1. ~ReserveAndQueue(d)
    <3>1. ReserveAndQueue(d) => job[d].pc = "estimated" /\ job'[d].pc = "committed"
      BY ReserveEffect
    <3> QED
      BY <1>1, <3>1
  <2>2. \A k \in BatchNo : ~SaveRecipient(d, k)
    <3>1. \A k \in BatchNo :
            SaveRecipient(d, k) => batch[d][k].cur # NoPhone /\ batch'[d][k].cur = NoPhone
      BY SaveEffect
    <3> QED
      BY <1>1, <3>1
  <2>3. job[d].sms \in Sms => QueuedIn(row'[job[d].sms]) \subseteq QueuedIn(row[job[d].sms])
    BY <1>0, <2>1, <2>2, QueuedShrinks
  <2> QED
    BY <1>0, <1>1, <2>3, AttemptKept
\* The steps of d before its batches.
<1>2. ASSUME job'[d].pc \notin {"committed", "enqueued"}, fin'[d].pc = "none"
      PROVE  AttemptAt(d)'
  BY <1>2 DEF AttemptAt, Rolled
<1>3. ASSUME ReserveAndQueue(d)
      PROVE  AttemptAt(d)'
  <2>1. /\ job'[d].pc = "committed" /\ job'[d].sms = job[d].sms
        /\ job'[d].ids = QueuedIn(row'[job[d].sms]) /\ fin' = fin /\ job[d].pc = "estimated"
    BY <1>3, ReserveEffect
  <2>2. fin[d].pc = "none"
    BY <2>1, Owner
  <2> QED
    BY <2>1, <2>2 DEF AttemptAt, Rolled, QueuedIn
<1>4. ASSUME Enqueues(d)
      PROVE  AttemptAt(d)'
  <2> DEFINE I == job[d].ids  n == Cardinality(I)  s == job[d].sms
  <2>1. /\ job[d] \in Job /\ job[d].pc = "committed" /\ row' = row
        /\ job'[d].pc = "enqueued" /\ job'[d].sms = s /\ fin'[d].pc = "waiting"
        /\ QueuedIn(row[s]) \subseteq I
    BY <1>0, <1>4, EnqueueEffect DEF AttemptAt
  <2>2. PICK size, ids, q : PublishedAs(d, size, ids, q)
    BY <1>4, EnqueueEffect
  <2>3. /\ ids \in Bijection(1 .. n, I)
        /\ \A k \in BatchNo : k <= CeilDiv(n, BatchSize) =>
             batch'[d][k].pc \in {"queued", "lost"} /\ batch'[d][k].ids = Slice(ids, k)
    BY <2>2 DEF PublishedAs
  <2>5. n \in Nat /\ n <= Cardinality(Phone) /\ Cardinality(Phone) \in Nat
    <3>1. I \in SUBSET Phone
      BY <2>1 DEF Job
    <3> QED
      BY <3>1, SendAssumption, FS_Subset, FS_CardinalityType
  <2>6. CeilDiv(n, BatchSize) <= CeilDiv(Cardinality(Phone), BatchSize)
    <3> DEFINE m == Cardinality(Phone)
    <3>1. BatchSize \in Nat \ {0} /\ m \in Nat
      BY <2>5, SendAssumption
    <3> HIDE DEF n, m
    <3>2. \A a, b \in Nat, c \in Nat \ {0} : a <= b => a \div c <= b \div c
      OBVIOUS
    <3>3. n + BatchSize - 1 \in Nat /\ m + BatchSize - 1 \in Nat
          /\ n + BatchSize - 1 <= m + BatchSize - 1
      BY <2>5, <3>1 DEF m
    <3> QED
      BY <3>1, <3>2, <3>3 DEF CeilDiv, m
  <2>7. CeilDiv(n, BatchSize) \in Int /\ CeilDiv(Cardinality(Phone), BatchSize) \in Int
    BY <2>5, SendAssumption DEF CeilDiv
  <2>8. ASSUME NEW p \in QueuedIn(row[s])
        PROVE  \E k \in BatchNo : p \in Waiting(batch'[d][k])
    <3>1. p \in I
      BY <2>1
    <3> HIDE DEF I, n, s
    <3>2. PICK k \in 1 .. CeilDiv(n, BatchSize) : p \in Slice(ids, k)
      BY <2>3, <2>5, <3>1, SlicesCover
    <3>3. k \in BatchNo /\ k <= CeilDiv(n, BatchSize)
      BY <2>6, <2>7, <3>2 DEF BatchNo
    <3>4. batch'[d][k].pc \in {"queued", "lost"} /\ p \in batch'[d][k].ids
      BY <2>3, <3>2, <3>3
    <3> QED
      BY <3>3, <3>4 DEF Waiting
  <2> QED
    BY <2>1, <2>8 DEF AttemptAt, Rolled, Waiting, QueuedIn
\* The steps of its batches.
<1>5. ASSUME NEW k \in BatchNo, StartBatch(d, k)
      PROVE  AttemptAt(d)'
  <2> DEFINE s == job[d].sms  c == batch[d][k]  b == batch'[d][k]
  <2>1. /\ Working(d, k, s) /\ c.pc = "queued" /\ b.pc = "running"
        /\ b.todo = c.ids \cap QueuedIn(row[s]) /\ row' = row
    BY <1>5, StartEffect DEF StartBatch
  <2>2. \A p \in QueuedIn(row[s]) : p \in Waiting(c) => p \in Waiting(b)
    <3> HIDE DEF b, c
    <3> QED
      BY <2>1 DEF Waiting
  <2> QED
    BY <1>0, <2>1, <2>2, AttemptMoves
<1>6. ASSUME NEW k \in BatchNo, NEW p \in Phone, NEW o \in Outcomes, SendToProvider(d, k, p, o)
      PROVE  AttemptAt(d)'
  <2> DEFINE s == job[d].sms  c == batch[d][k]  b == batch'[d][k]
  <2>1. /\ Working(d, k, s) /\ c.pc = "running" /\ c.cur = NoPhone
        /\ b.pc = "running" /\ b.todo = c.todo \ {p} /\ b.cur = p /\ b.transient = c.transient
        /\ b.ids = c.ids
    BY <1>6, SendEffect
  <2>2. row' = row /\ row[s] \in Recipients
    BY <1>0, <1>6, <2>1 DEF SendToProvider, BulkTypes, Working
  <2>3. QueuedIn(row[s]) \subseteq Phone
    BY <2>2, RowsTyped DEF QueuedIn
  <2>4. \A q \in QueuedIn(row[s]) : q \in Waiting(c) => q \in Waiting(b)
    <3> HIDE DEF b, c, s
    <3> QED
      BY <2>1, <2>3, SendAssumption DEF Waiting
  <2> QED
    BY <1>0, <2>1, <2>2, <2>4, AttemptMoves
<1>7. ASSUME NEW k \in BatchNo, SaveRecipient(d, k)
      PROVE  AttemptAt(d)'
  <2> DEFINE s == job[d].sms  c == batch[d][k]  b == batch'[d][k]
  <2>1. /\ Working(d, k, s) /\ c.pc = "running" /\ c.cur \in DOMAIN row[s]
        /\ c.result \in {"success", "permanent", "transient"}
        /\ b.pc = "running" /\ b.todo = c.todo
        /\ b.transient = (IF c.result = "transient" THEN c.transient \cup {c.cur}
                                                   ELSE c.transient)
        /\ row'[s][c.cur].status = ResultStatus(c.result)
        /\ \A t \in Sms : DOMAIN row'[t] = DOMAIN row[t]
        /\ \A t \in Sms : \A q \in DOMAIN row[t] : t # s \/ q # c.cur => row'[t][q] = row[t][q]
    BY <1>7, SaveEffect
  <2>2. s \in Sms
    BY <2>1 DEF Working
  <2>3. ASSUME NEW p \in QueuedIn(row'[s])
        PROVE  \/ p \in QueuedIn(row[s]) /\ (p \in Waiting(c) => p \in Waiting(b))
               \/ p \in Waiting(b)
    <3>1. p \in DOMAIN row[s] /\ row'[s][p].status = "queued"
      BY <2>1, <2>2, <2>3 DEF QueuedIn
    <3>2. CASE p = c.cur
      <4>1. c.result = "transient"
        BY <2>1, <3>1, <3>2 DEF ResultStatus
      <4> HIDE DEF b, c, s
      <4> QED
        BY <2>1, <3>2, <4>1 DEF Waiting
    <3>3. CASE p # c.cur
      <4>1. p \in QueuedIn(row[s])
        BY <2>1, <2>2, <3>1, <3>3 DEF QueuedIn
      <4>2. p \in Waiting(c) => p \in Waiting(b)
        <5> HIDE DEF b, c, s
        <5> QED
          BY <2>1, <3>3 DEF Waiting
      <4> QED
        BY <4>1, <4>2
    <3> QED
      BY <3>2, <3>3
  <2> QED
    BY <1>0, <2>1, <2>3, AttemptMoves
<1>8. ASSUME NEW k \in BatchNo, FlushEvents(d, k)
      PROVE  AttemptAt(d)'
  <2> DEFINE s == job[d].sms  c == batch[d][k]  b == batch'[d][k]
  <2>1. /\ Working(d, k, s) /\ c.pc = "running" /\ b.pc = "running" /\ b.todo = c.todo
        /\ b.cur = c.cur /\ b.transient = c.transient /\ row' = row
    BY <1>8, FlushEffect DEF FlushEvents
  <2>2. \A p \in QueuedIn(row[s]) : p \in Waiting(c) => p \in Waiting(b)
    <3> HIDE DEF b, c
    <3> QED
      BY <2>1 DEF Waiting
  <2> QED
    BY <1>0, <2>1, <2>2, AttemptMoves
<1>9. ASSUME NEW k \in BatchNo, RetryBatch(d, k)
      PROVE  AttemptAt(d)'
  <2> DEFINE s == job[d].sms  c == batch[d][k]  b == batch'[d][k]
  <2>1. /\ Working(d, k, s) /\ c.pc = "running" /\ c.cur = NoPhone /\ c.todo = {}
        /\ b.pc = "queued" /\ b.ids = c.transient /\ row' = row
    BY <1>9, RetryEffect DEF RetryBatch
  <2>2. QueuedIn(row[s]) \subseteq Phone
    <3>1. row[s] \in Recipients
      BY <1>0, <2>1 DEF BulkTypes, Working
    <3> QED
      BY <3>1, RowsTyped DEF QueuedIn
  <2>3. \A p \in QueuedIn(row[s]) : p \in Waiting(c) => p \in Waiting(b)
    <3> HIDE DEF b, c, s
    <3> QED
      BY <2>1, <2>2, SendAssumption DEF Waiting
  <2> QED
    BY <1>0, <2>1, <2>3, AttemptMoves
<1>10. ASSUME NEW k \in BatchNo, EndBatch(d, k)
       PROVE  AttemptAt(d)'
  <2> DEFINE s == job[d].sms  c == batch[d][k]  b == batch'[d][k]
  <2>1. /\ Working(d, k, s) /\ c.pc = "running" /\ c.cur = NoPhone /\ c.todo = {}
        /\ b.pc = "done"
        /\ \A t \in Sms : DOMAIN row'[t] = DOMAIN row[t]
        /\ \A p \in DOMAIN row[s] :
             /\ p \notin c.transient => row'[s][p] = row[s][p]
             /\ p \in c.transient => row'[s][p].status = "failed"
    BY <1>10, EndEffect
  <2>2. s \in Sms
    BY <2>1 DEF Working
  <2>3. DOMAIN row[s] \subseteq Phone
    BY <1>0, <2>2, RowsTyped DEF BulkTypes
  <2>4. ASSUME NEW p \in QueuedIn(row'[s])
        PROVE  p \in QueuedIn(row[s]) /\ p \notin Waiting(c)
    <3>1. p \in DOMAIN row[s] /\ row'[s][p].status = "queued"
      BY <2>1, <2>2, <2>4 DEF QueuedIn
    <3>2. p \notin c.transient /\ p \in QueuedIn(row[s])
      BY <2>1, <3>1 DEF QueuedIn
    <3> HIDE DEF b, c, s
    <3> QED
      BY <2>1, <2>3, <3>1, <3>2, SendAssumption DEF Waiting
  <2> QED
    BY <1>0, <2>1, <2>4, AttemptMoves
<1>11. ASSUME NEW k \in BatchNo, NEW after \in {"queued", "lost"}, CrashBatch(d, k, after),
              row' = row
       PROVE  AttemptAt(d)'
  <2> DEFINE s == job[d].sms  c == batch[d][k]  b == batch'[d][k]
  <2>1. /\ Working(d, k, s) /\ c.pc = "running" /\ b.pc = after /\ b.ids = c.ids
    BY <1>11, CrashEffect
  <2>2. BatchSound(c, DOMAIN row[s], accepted[s])
    BY <2>1 DEF Working
  <2>3. QueuedIn(row[s]) \subseteq Phone
    <3>1. row[s] \in Recipients
      BY <1>0, <2>1 DEF BulkTypes, Working
    <3> QED
      BY <3>1, RowsTyped DEF QueuedIn
  <2>4. \A p \in QueuedIn(row[s]) : p \in Waiting(c) => p \in Waiting(b)
    <3> HIDE DEF b, c, s
    <3> QED
      BY <2>1, <2>2, <2>3, SendAssumption DEF Waiting, BatchSound
  <2> QED
    BY <1>0, <1>11, <2>1, <2>4, AttemptMoves
\* The steps of its chord body.
<1>12. ASSUME FinalizeStep(d)
       PROVE  AttemptAt(d)'
  <2>1. row' = row /\ job' = job /\ batch' = batch
    BY <1>12 DEF FinalizeStep, ReadForFinalize, CountRows, RollUp, FindReservation, PriceReached,
                 DebitActual, ReleaseRest
  <2>2. AllBatchesDone(d)
    <3>1. ReadForFinalize(d) \/ fin[d].pc \in {"read"} \cup Rolled
      BY <1>12 DEF FinalizeStep, ReadForFinalize, CountRows, RollUp, FindReservation, PriceReached,
                   DebitActual, ReleaseRest, Rolled
    <3> QED
      BY <1>0, <3>1 DEF ReadForFinalize, AttemptAt
  <2> QED
    BY <1>0, <2>1, <2>2 DEF AttemptAt, AllBatchesDone, Waiting, QueuedIn
<1>13. ASSUME Crash(d)
       PROVE  AttemptAt(d)'
  <2>1. row' = row
    BY <1>13 DEF Crash
  <2>2. CASE /\ job[d].pc \in {"loaded", "estimated", "committed"}
             /\ job' = [job EXCEPT ![d].pc = "lost"]
             /\ UNCHANGED <<batch, fin>>
    <3>1. job'[d].pc = "lost" /\ fin'[d].pc = "none"
      BY <1>0, <2>2, Owner DEF BulkTypes, Job
    <3> QED
      BY <1>2, <3>1
  <2>3. CASE /\ fin[d].pc \in {"read", "counted", "rolled", "found", "priced", "debited"}
             /\ fin' = [fin EXCEPT ![d].pc = "lost"]
             /\ UNCHANGED <<job, batch>>
    <3>1. fin'[d].pc = "lost"
      BY <1>0, <2>3 DEF BulkTypes, Finalize
    <3> QED
      BY <1>0, <2>1, <2>3, <3>1 DEF AttemptAt, Rolled, Waiting, QueuedIn
  <2>4. CASE \E k \in BatchNo, after \in {"queued", "lost"} : CrashBatch(d, k, after)
    BY <1>11, <2>1, <2>4
  <2> QED
    BY <1>13, <2>2, <2>3, <2>4 DEF Crash, CrashBatch
<1>14. ASSUME RetryDispatch(d), job[d].pc \in {"estimated", "committed"}, fin' = fin
       PROVE  AttemptAt(d)'
  <2>1. job'[d].pc \in {"queued", "failed"} /\ fin'[d].pc = "none"
    BY <1>0, <1>14, RetryMoves, Owner
  <2> QED
    BY <1>2, <2>1
<1>15. ASSUME \/ \E s \in Sms : RequestSend(d, s)
              \/ LoadSms(d) \/ EstimateCost(d) \/ RejectDispatch(d)
       PROVE  AttemptAt(d)'
  <2>1. job[d].pc \in {"free", "queued", "loaded"} /\ fin' = fin
    BY <1>15 DEF RequestSend, LoadSms, EstimateCost, RejectDispatch
  <2>2. fin'[d].pc = "none"
    BY <2>1, Owner
  <2>3. job'[d].pc \in {"queued", "loaded", "estimated", "failed"}
    <3>1. job[d] \in Job
      BY Owner
    <3>2. CASE EstimateCost(d)
      <4> DEFINE n == Estimate(job[d].sms)
      <4>1. job' = [job EXCEPT ![d] = [job[d] EXCEPT !.pc = "estimated", !.counted = Eligible,
                                                     !.est = n]]
        BY <3>2 DEF EstimateCost
      <4> HIDE DEF n
      <4> QED
        BY <1>0, <3>1, <4>1 DEF BulkTypes, Job
    <3>3. CASE LoadSms(d)
      <4>1. job' = [job EXCEPT ![d] = [job[d] EXCEPT !.pc = "loaded", !.audience = Eligible]]
        BY <3>3 DEF LoadSms
      <4> QED
        BY <1>0, <3>1, <4>1 DEF BulkTypes, Job
    <3>4. CASE RejectDispatch(d)
      BY <1>0, <3>1, <3>4 DEF RejectDispatch, BulkTypes, Job
    <3>5. ASSUME NEW s \in Sms, RequestSend(d, s)
          PROVE  job'[d].pc = "queued"
      <4>1. job' = [job EXCEPT ![d] = [job[d] EXCEPT !.pc = "queued", !.sms = s]]
        BY <3>5 DEF RequestSend
      <4> QED
        BY <1>0, <3>1, <4>1 DEF BulkTypes, Job
    <3> QED
      BY <1>15, <3>2, <3>3, <3>4, <3>5
  <2> QED
    BY <1>2, <2>2, <2>3
<1>19. ASSUME RejectAgain(d)
       PROVE  AttemptAt(d)'
  <2>1. /\ job'[d].pc = job[d].pc /\ job'[d].sms = job[d].sms /\ job'[d].ids = job[d].ids
        /\ UNCHANGED <<row, batch, fin>>
    BY <1>0, <1>19, AgainEffect DEF RejectAgain
  <2> QED
    BY <1>0, <2>1 DEF AttemptAt, AllBatchesDone, Waiting, QueuedIn
\* Whose step it is.
<1>16. ASSUME NEW e \in Dispatch, \/ \E s \in Sms : RequestSend(e, s)
                                  \/ DispatchStep(e) \/ FinalizeStep(e) \/ EnqueueFails(e)
                                  \/ PublishFails(e) \/ Crash(e) \/ \E k \in BatchNo : BatchStep(e, k)
       PROVE  AttemptAt(d)'
  <2>1. CASE e # d
    <3>1. job'[d] = job[d] /\ batch'[d] = batch[d] /\ fin'[d] = fin[d]
      BY <1>0, <1>16, <2>1, OnlyOwn
    <3> QED
      BY <1>1, <3>1
  <2>2. CASE e = d
    <3>1. CASE DispatchStep(d)
      <4>1. InsufficientCredits(d) => RetryDispatch(d) /\ job[d].pc = "estimated" /\ fin' = fin
        BY DEF InsufficientCredits
      <4> QED
        BY <1>3, <1>4, <1>14, <1>15, <1>19, <3>1, <4>1 DEF DispatchStep, Enqueues
    <3>2. CASE EnqueueFails(d)
      <4>1. RetryDispatch(d) /\ job[d].pc = "committed" /\ fin' = fin
        BY <3>2 DEF EnqueueFails
      <4> QED
        BY <1>14, <4>1
    <3>3. CASE \E k \in BatchNo : BatchStep(d, k)
      BY <1>5, <1>6, <1>7, <1>8, <1>9, <1>10, <3>3 DEF BatchStep
    <3> QED
      BY <1>4, <1>12, <1>13, <1>15, <1>16, <2>2, <3>1, <3>2, <3>3 DEF Enqueues
  <2> QED
    BY <2>1, <2>2
<1>17. CASE UNCHANGED <<job, batch, fin>>
  BY <1>1, <1>17
<1>18. CASE \/ \E s \in Sms : EditRead(s)
            \/ \E newStatus \in SmsStatus, newSegs \in Segments : EditSave(newStatus, newSegs)
            \/ \E s \in Sms, p \in Phone : OptOut(s, p)
            \/ \E s \in Sms, p \in Phone, v \in Reports : DeliveryReport(s, p, v)
            \/ \E p \in Phone : JoinSegment(p)
            \/ RefreshPrices \/ UNCHANGED vars
  <2>1. UNCHANGED <<job, batch, fin>>
    BY <1>18 DEF EditRead, EditSave, OptOut, DeliveryReport, JoinSegment, RefreshPrices, vars
  <2> QED
    BY <1>17, <2>1
<1> QED
  BY <1>16, <1>18 DEF Next, Environment

-----------------------------------------------------------------------------
(* Money *)

\* The wallet opens with nothing reserved.
LEMMA SolventInit ==
  Init => Solvent
BY SendAssumption DEF Init, Solvent

\* A chord body, step by step and field by field.
LEMMA FinalizeFields ==
  ASSUME Sound, NEW d \in Dispatch, NEW s, s = job[d].sms
  PROVE  LET f == fin[d]  g == fin'[d] IN
         /\ FinalizeStep(d) => /\ s \in Sms /\ job' = job
                               /\ \A e \in Dispatch \ {d} : fin'[e] = fin[e]
         /\ ReadForFinalize(d) =>
              /\ f.pc = "waiting" /\ g.segs = segs[s]
              /\ g.pc = IF status[s] = "cancelled" THEN "skipped" ELSE "read"
         /\ CountRows(d) => f.pc = "read" /\ g = [f EXCEPT !.pc = "counted", !.status = FinalStatus(s)]
         /\ RollUp(d) => f.pc = "counted" /\ g = [f EXCEPT !.pc = "rolled"]
         /\ FindReservation(d) =>
              /\ f.pc = "rolled"
              /\ g = IF ledger[s].latest = NoEntry THEN [f EXCEPT !.pc = "skipped"]
                     ELSE [f EXCEPT !.pc = "found", !.est = ledger[s].latest]
         /\ PriceReached(d) => f.pc = "found" /\ g = [f EXCEPT !.pc = "priced", !.actual = ActualCost(d)]
         /\ DebitActual(d) => f.pc = "priced" /\ g = [f EXCEPT !.pc = "debited"]
         /\ ReleaseRest(d) => f.pc = "debited" /\ g = [f EXCEPT !.pc = "settled"]
<1> DEFINE f == fin[d]
<1>1. f \in Finalize /\ fin \in [Dispatch -> Finalize]
  BY DEF Sound, BulkTypes
<1>2. ASSUME FinalizeStep(d)
      PROVE  /\ s \in Sms /\ job' = job
             /\ \A e \in Dispatch \ {d} : fin'[e] = fin[e]
  <2>1. f.pc # "none" /\ job' = job
    BY <1>2 DEF FinalizeStep, ReadForFinalize, CountRows, RollUp, FindReservation, PriceReached,
                DebitActual, ReleaseRest
  <2>2. CASE Reads(d)
    BY <2>1, <2>2, ReadsEffect, Owner
  <2>3. CASE RollUp(d) \/ DebitActual(d) \/ ReleaseRest(d)
    BY <1>1, <2>1, <2>3, Owner DEF RollUp, DebitActual, ReleaseRest
  <2> QED
    BY <1>2, <2>2, <2>3 DEF FinalizeStep, Reads
<1>3. \A g : fin' = [fin EXCEPT ![d] = g] => fin'[d] = g
  BY <1>1
<1>4. ASSUME ReadForFinalize(d)
      PROVE  /\ f.pc = "waiting" /\ fin'[d].segs = segs[s]
             /\ fin'[d].pc = IF status[s] = "cancelled" THEN "skipped" ELSE "read"
  <2> DEFINE x == IF status[s] = "cancelled" THEN "skipped" ELSE "read"
             g == [f EXCEPT !.pc = x, !.segs = segs[s]]
  <2>1. f.pc = "waiting" /\ fin' = [fin EXCEPT ![d] = g]
    BY <1>4 DEF ReadForFinalize
  <2>2. g.pc = x /\ g.segs = segs[s]
    <3> HIDE DEF x
    <3> QED
      BY <1>1 DEF Finalize
  <2> HIDE DEF g
  <2> QED
    BY <1>3, <2>1, <2>2
<1>5. CountRows(d) => f.pc = "read" /\ fin'[d] = [f EXCEPT !.pc = "counted", !.status = FinalStatus(s)]
  <2> DEFINE g == [f EXCEPT !.pc = "counted", !.status = FinalStatus(s)]
  <2>1. CountRows(d) => f.pc = "read" /\ fin' = [fin EXCEPT ![d] = g]
    BY DEF CountRows
  <2> HIDE DEF g
  <2>2. CountRows(d) => f.pc = "read" /\ fin'[d] = g
    BY <1>3, <2>1
  <2> QED
    BY <2>2 DEF g
<1>6. RollUp(d) => f.pc = "counted" /\ fin'[d] = [f EXCEPT !.pc = "rolled"]
  BY <1>1 DEF RollUp
<1>7. ASSUME FindReservation(d)
      PROVE  /\ f.pc = "rolled"
             /\ fin'[d] = IF ledger[s].latest = NoEntry THEN [f EXCEPT !.pc = "skipped"]
                          ELSE [f EXCEPT !.pc = "found", !.est = ledger[s].latest]
  <2> DEFINE g == IF ledger[s].latest = NoEntry THEN [f EXCEPT !.pc = "skipped"]
                  ELSE [f EXCEPT !.pc = "found", !.est = ledger[s].latest]
  <2>1. f.pc = "rolled" /\ fin' = [fin EXCEPT ![d] = g]
    BY <1>7 DEF FindReservation
  <2> HIDE DEF g
  <2>2. fin'[d] = g
    BY <1>3, <2>1
  <2> QED
    BY <2>1, <2>2 DEF g
<1>8. PriceReached(d) => f.pc = "found" /\ fin'[d] = [f EXCEPT !.pc = "priced", !.actual = ActualCost(d)]
  <2> DEFINE g == [f EXCEPT !.pc = "priced", !.actual = ActualCost(d)]
  <2>1. PriceReached(d) => f.pc = "found" /\ fin' = [fin EXCEPT ![d] = g]
    BY DEF PriceReached
  <2> HIDE DEF g
  <2>2. PriceReached(d) => f.pc = "found" /\ fin'[d] = g
    BY <1>3, <2>1
  <2> QED
    BY <2>2 DEF g
<1>9. DebitActual(d) => f.pc = "priced" /\ fin'[d] = [f EXCEPT !.pc = "debited"]
  BY <1>1 DEF DebitActual
<1>10. ReleaseRest(d) => f.pc = "debited" /\ fin'[d] = [f EXCEPT !.pc = "settled"]
  BY <1>1 DEF ReleaseRest
<1> QED
  BY <1>2, <1>4, <1>5, <1>6, <1>7, <1>8, <1>9, <1>10

\* Who books on the wallet, and what.
LEMMA MoneyMoves ==
  ASSUME [Next]_vars
  PROVE  \/ money' = money
         \/ \E d \in Dispatch : ReserveAndQueue(d) \/ DebitActual(d) \/ ReleaseRest(d)
<1>1. ASSUME NEW d \in Dispatch, DispatchStep(d), ~ReserveAndQueue(d)
      PROVE  money' = money
  BY <1>1 DEF DispatchStep, LoadSms, EstimateCost, RejectDispatch, InsufficientCredits,
              EnqueueBatches, Publish, RejectAgain
<1>2. ASSUME NEW d \in Dispatch, FinalizeStep(d), ~DebitActual(d), ~ReleaseRest(d)
      PROVE  money' = money
  BY <1>2 DEF FinalizeStep, ReadForFinalize, CountRows, RollUp, FindReservation, PriceReached
<1>3. ASSUME NEW d \in Dispatch, NEW k \in BatchNo, BatchStep(d, k)
      PROVE  money' = money
  BY <1>3 DEF BatchStep, StartBatch, SendToProvider, SaveRecipient, FlushEvents, RetryBatch,
              EndBatch
<1>4. ASSUME NEW d \in Dispatch, NEW s \in Sms, RequestSend(d, s)
      PROVE  money' = money
  BY <1>4 DEF RequestSend
<1>5. ASSUME Environment
      PROVE  money' = money
  BY <1>5 DEF Environment, EditRead, EditSave, OptOut, DeliveryReport, JoinSegment, RefreshPrices,
              EnqueueFails, PublishFails, Publish, Crash
<1>6. ASSUME UNCHANGED vars
      PROVE  money' = money
  BY <1>6 DEF vars, money
<1> QED
  BY <1>1, <1>2, <1>3, <1>4, <1>5, <1>6 DEF Next

\* What the three bookings book, and on which message.
LEMMA BookingEffect ==
  ASSUME Sound, NEW d \in Dispatch, NEW s, s = job[d].sms
  PROVE  /\ ReserveAndQueue(d) =>
              LET a == job[d].est IN
              /\ s \in Sms /\ a \in Nat /\ CanReserve(a)
              /\ balance' = balance /\ reserved' = reserved + a
              /\ ledger' = [ledger EXCEPT ![s] =
                   [ledger[s] EXCEPT !.reservation = ledger[s].reservation + a, !.latest = a]]
         /\ DebitActual(d) =>
              LET a == fin[d].actual IN
              /\ s \in Sms /\ a \in Nat
              /\ \/ money' = money
                 \/ /\ a > 0 /\ reserved >= a
                    /\ balance' = balance - a /\ reserved' = reserved - a
                    /\ ledger' = [ledger EXCEPT ![s] =
                         [ledger[s] EXCEPT !.debit = ledger[s].debit + a]]
         /\ ReleaseRest(d) =>
              LET a == OverReserved(fin[d]) IN
              /\ s \in Sms /\ a \in Int /\ fin[d] \in Finalize
              /\ \/ a <= 0 /\ money' = money
                 \/ /\ a \in Nat /\ a > 0
                    /\ balance' = balance /\ reserved' = reserved - a
                    /\ ledger' = [ledger EXCEPT ![s] =
                         [ledger[s] EXCEPT !.adjustment = ledger[s].adjustment + a]]
<1>0. BulkTypes
  BY DEF Sound
<1>1. ASSUME ReserveAndQueue(d)
      PROVE  LET a == job[d].est IN
              /\ s \in Sms /\ a \in Nat /\ CanReserve(a)
              /\ balance' = balance /\ reserved' = reserved + a
              /\ ledger' = [ledger EXCEPT ![s] =
                   [ledger[s] EXCEPT !.reservation = ledger[s].reservation + a, !.latest = a]]
  <2>1. Reserve(s, job[d].est)
    BY <1>1 DEF ReserveAndQueue
  <2>2. s \in Sms /\ job[d].est \in Nat
    BY <1>1, ReserveEffect
  <2> QED
    BY <2>1, <2>2 DEF Reserve
<1>2. ASSUME DebitActual(d)
      PROVE  LET a == fin[d].actual IN
              /\ s \in Sms /\ a \in Nat
              /\ \/ money' = money
                 \/ /\ a > 0 /\ reserved >= a
                    /\ balance' = balance - a /\ reserved' = reserved - a
                    /\ ledger' = [ledger EXCEPT ![s] =
                         [ledger[s] EXCEPT !.debit = ledger[s].debit + a]]
  <2>1. s \in Sms
    BY <1>2, Owner DEF DebitActual
  <2>2. fin[d].actual \in Nat
    BY <1>0 DEF BulkTypes, Finalize
  <2>3. DebitFunds(s, fin[d].actual)
    BY <1>2 DEF DebitActual
  <2> DEFINE a == fin[d].actual
  <2> HIDE DEF a
  <2>4. DebitFunds(s, a) =>
          \/ money' = money
          \/ /\ a > 0 /\ reserved >= a
             /\ balance' = balance - a /\ reserved' = reserved - a
             /\ ledger' = [ledger EXCEPT ![s] = [ledger[s] EXCEPT !.debit = ledger[s].debit + a]]
    BY DEF DebitFunds
  <2> QED
    BY <2>1, <2>2, <2>3, <2>4 DEF a
<1>3. ASSUME ReleaseRest(d)
      PROVE  LET a == OverReserved(fin[d]) IN
              /\ s \in Sms /\ a \in Int /\ fin[d] \in Finalize
              /\ \/ a <= 0 /\ money' = money
                 \/ /\ a \in Nat /\ a > 0
                    /\ balance' = balance /\ reserved' = reserved - a
                    /\ ledger' = [ledger EXCEPT ![s] =
                         [ledger[s] EXCEPT !.adjustment = ledger[s].adjustment + a]]
  <2>1. s \in Sms /\ fin[d] \in Finalize
    BY <1>3, Owner DEF ReleaseRest
  <2> DEFINE a == OverReserved(fin[d])
  <2>2. a \in Int
    BY <2>1 DEF Finalize, OverReserved
  <2>3. \/ ~(a > 0) /\ money' = money
        \/ /\ a > 0 /\ balance' = balance /\ reserved' = reserved - a
           /\ ledger' = [ledger EXCEPT ![s] =
                [ledger[s] EXCEPT !.adjustment = ledger[s].adjustment + a]]
    BY <1>3 DEF ReleaseRest, money
  <2> HIDE DEF a
  <2>4. (a > 0 => a \in Nat) /\ (~(a > 0) => a <= 0)
    BY <2>2
  <2> QED
    BY <2>1, <2>2, <2>3, <2>4 DEF a
<1> QED
  BY <1>1, <1>2, <1>3

\* A reservation takes what is available; a debit takes at most what is reserved, from both
\* sides; a release makes more available.
LEMMA SolventStep ==
  ASSUME Sound, Solvent, [Next]_vars
  PROVE  Solvent'
<1>0. balance \in Int /\ reserved \in Int /\ balance >= 0 /\ reserved <= balance
  BY DEF Sound, BulkTypes, Solvent
<1>1. ASSUME NEW d \in Dispatch, ReserveAndQueue(d)
      PROVE  Solvent'
  <2> DEFINE a == job[d].est
  <2>1. a \in Nat /\ CanReserve(a) /\ balance' = balance /\ reserved' = reserved + a
    BY <1>1, BookingEffect
  <2> HIDE DEF a
  <2> QED
    BY <1>0, <2>1 DEF CanReserve, Solvent
<1>2. ASSUME NEW d \in Dispatch, DebitActual(d)
      PROVE  Solvent'
  <2> DEFINE a == fin[d].actual
  <2>1. /\ a \in Nat
        /\ \/ money' = money
           \/ /\ a > 0 /\ reserved >= a
              /\ balance' = balance - a /\ reserved' = reserved - a
    BY <1>2, BookingEffect
  <2> HIDE DEF a
  <2> QED
    BY <1>0, <2>1 DEF money, Solvent
<1>3. ASSUME NEW d \in Dispatch, ReleaseRest(d)
      PROVE  Solvent'
  <2> DEFINE a == OverReserved(fin[d])
  <2>1. \/ money' = money
        \/ a \in Nat /\ balance' = balance /\ reserved' = reserved - a
    BY <1>3, BookingEffect
  <2> HIDE DEF a
  <2> QED
    BY <1>0, <2>1 DEF money, Solvent
<1>4. CASE money' = money
  BY <1>0, <1>4 DEF money, Solvent
<1> QED
  BY <1>1, <1>2, <1>3, <1>4, MoneyMoves

-----------------------------------------------------------------------------
(* What is reserved, and for whom *)

\* The chord bodies that have read the SMS, its reservation, and what it costs.
Loaded == {"read"} \cup Rolled
Found == {"found", "priced", "debited", "settled"}
Priced == {"priced", "debited", "settled"}

\* The wallet has reserved what is outstanding of all messages.
Held == SumFunction([s \in Sms |-> Outstanding(s)])
MoneyAgrees == reserved = Held

\* A send is quiet when it is asked for once and not repriced; joining contacts, opt-outs,
\* faults and retries may disturb it.  Its estimate surely counts its audience when nobody
\* can opt out of another message meanwhile.
Quiet == OneClick /\ NoEdits /\ MaxRefreshes = 0
Sure == MaxOptOuts = 0 \/ \A s, t \in Sms : s = t
Extra(d) == Cost(job[d].sms, Cardinality(job[d].audience \ job[d].counted))
Fresh(s) ==
  /\ DOMAIN row[s] = {}
  /\ ledger[s] = [reservation |-> 0, debit |-> 0, adjustment |-> 0, latest |-> NoEntry]

\* What a message (entries e) has booked is what its one dispatch (job j, chord body f) has;
\* c is the price of the contacts the estimate missed.
QuietEntry(e, j, f, c) ==
  /\ e.latest = j.est /\ e.reservation = j.est
  /\ f.pc \in Found => f.est = j.est
  /\ f.pc \in Priced => f.actual <= j.est + c
  /\ f.pc \notin {"debited", "settled", "lost"} => e.debit = 0 /\ e.adjustment = 0
  /\ f.pc \in {"debited", "settled"} => e.debit \in {0, f.actual} /\ (Sure => e.debit = f.actual)
  /\ f.pc = "debited" => e.adjustment = 0
  /\ f.pc = "settled" => e.adjustment = IF f.est > f.actual THEN f.est - f.actual ELSE 0

\* A quiet dispatch reserves an upper bound of what it costs, but for what it missed.
QuietTask(d) ==
  LET s == job[d].sms  j == job[d] IN
  /\ j.pc \in {"loaded", "estimated"} => Fresh(s) /\ (Sure => j.audience \subseteq Eligible)
  /\ j.pc = "estimated" => j.est = Cost(s, Cardinality(j.counted))
  /\ j.pc = "estimated" \/ Reserving(d) => (Sure => j.audience \subseteq j.counted)
  /\ Reserving(d) => /\ QuietEntry(ledger[s], j, fin[d], Extra(d))
                     /\ Cost(s, Cardinality(DOMAIN row[s])) <= j.est + Extra(d)
  /\ fin[d].pc = "counted" => fin[d].status \notin Sendable

QuietMessage(s) ==
  /\ status[s] \in Sendable => Fresh(s)
  /\ \/ Outstanding(s) >= 0
     \/ \E d \in Dispatch : /\ job[d].sms = s /\ job[d].pc = "enqueued"
                            /\ Outstanding(s) >= - Extra(d)
  /\ Sure => Outstanding(s) >= 0

QuietSends ==
  Quiet => /\ \A s \in Sms : QuietMessage(s)
           /\ \A d \in Dispatch : QuietTask(d)

\* A message whose price stays is debited by its one dispatch only, and then for phones that
\* the provider took it for.
Taken(s) == {p \in Phone : accepted[s][p] > 0}
Charged(d) == fin[d].pc \in {"debited", "settled", "lost"}
FairlyCharged(s) ==
  /\ ledger[s].debit <= Cost(s, Cardinality(Taken(s)))
  /\ ledger[s].debit > 0 => \E d \in Dispatch : job[d].sms = s /\ Charged(d)
FairlyPriced(d) ==
  fin[d].pc \in Priced => fin[d].actual <= Cost(job[d].sms, Cardinality(Taken(job[d].sms)))
ChargesFair ==
  OneClick /\ NoEdits /\ MaxRefreshes = 0 =>
    (\A s \in Sms : FairlyCharged(s)) /\ \A d \in Dispatch : FairlyPriced(d)

\* Without faults what is booked last for a message is the estimate of a dispatch that
\* has reserved for it.
EstimateOf(s, n) == \E e \in Dispatch : job[e].sms = s /\ Reserving(e) /\ job[e].est = n
EstimatesBooked ==
  used.faults = 0 =>
    /\ \A s \in Sms : ledger[s].latest # NoEntry => EstimateOf(s, ledger[s].latest)
    /\ \A d \in Dispatch : /\ Reserving(d) => ledger[job[d].sms].latest # NoEntry
                           /\ fin[d].pc \in Found => EstimateOf(job[d].sms, fin[d].est)

\* Then every dispatch still holds its share of what is reserved, unless a message has
\* become dearer between two of its dispatches.
Share(d) ==
  IF ~Reserving(d) \/ fin[d].pc = "settled" THEN 0
  ELSE IF fin[d].pc = "debited" THEN fin[d].est - fin[d].actual
  ELSE job[d].est
Steady == \A s \in Sms : ~Repriced(s)
SharesHeld ==
  used.faults = 0 /\ Steady =>
    /\ reserved = SumFunction([d \in Dispatch |-> Share(d)])
    /\ \A s \in Sms : ledger[s].debit = Charges(s)

\* Without edits the body that finalize_sms_send has read is that of the message.
SegsRead ==
  NoEdits /\ MaxRefreshes = 0 =>
    \A d \in Dispatch : fin[d].pc \in Loaded => fin[d].segs = segs[job[d].sms]

\* When nothing changes the audience or the price and nothing fails, every dispatch of a
\* message estimates the same, and comes to its end.
Calm == NoEdits /\ MaxRefreshes = 0 /\ MaxOptOuts = 0 /\ Joining = {}
Full(s) == Cost(s, Cardinality(Phone))
CalmSends ==
  Calm /\ used.faults = 0 =>
    /\ Eligible = Phone
    /\ \A s \in Sms : status[s] # "cancelled"
    /\ \A d \in Dispatch :
         /\ fin[d].pc = "counted" => fin[d].status # "cancelled"
         /\ job[d].pc = "estimated" \/ Reserving(d) => job[d].est = Full(job[d].sms)
         /\ fin[d].pc \in Priced => fin[d].actual <= Full(job[d].sms)
         /\ fin[d].pc \notin {"skipped", "lost"}
         /\ \A k \in BatchNo : batch[d][k].pc # "lost"

\* Every amount is at most the price of some message for all contacts.
AmountsBooked ==
  /\ \A s \in Sms : ledger[s].latest # NoEntry => ledger[s].latest \in Amounts
  /\ \A d \in Dispatch : /\ job[d].pc = "estimated" => job[d].est \in Amounts
                         /\ fin[d].pc \in Loaded => fin[d].segs \in Segments
                         /\ fin[d].pc \in Found => fin[d].est \in Amounts
                         /\ fin[d].pc \in Priced => fin[d].actual \in Amounts

\* The totals of a message are numbers, and so is what is outstanding of it.
LEMMA EntryFields ==
  ASSUME NEW e \in Entries
  PROVE  /\ e.reservation \in Nat /\ e.debit \in Nat /\ e.adjustment \in Nat
         /\ e.reservation - e.debit - e.adjustment \in Int
<1>1. e.reservation \in Nat /\ e.debit \in Nat /\ e.adjustment \in Nat
  BY DEF Entries
<1> QED
  BY <1>1

\* At the start nothing is reserved.
LEMMA HeldInit ==
  Init => MoneyAgrees
<1> SUFFICES ASSUME Init
             PROVE  MoneyAgrees
  OBVIOUS
<1> DEFINE f == [s \in Sms |-> Outstanding(s)]
<1>1. \A s \in Sms : Outstanding(s) = 0
  BY DEF Init, Outstanding
<1>2. f \in [Sms -> Int] /\ \A s \in Sms : f[s] = 0
  BY <1>1
<1> HIDE DEF f
<1>3. SumFunction(f) = 0
  BY <1>2, SumOfZeros, SendAssumption
<1> QED
  BY <1>3 DEF Init, MoneyAgrees, Held, f

\* A booking for one message changes what is held by as much as what is outstanding of it.
LEMMA HeldMoves ==
  ASSUME BulkTypes, BulkTypes', NEW s \in Sms, \A t \in Sms \ {s} : ledger'[t] = ledger[t]
  PROVE  Held' = Held - Outstanding(s) + Outstanding(s)'
<1> DEFINE f == [t \in Sms |-> Outstanding(t)]
           g == [t \in Sms |-> Outstanding(t)']
<1>1. \A t \in Sms : Outstanding(t) \in Int
  BY EntryFields DEF Outstanding, BulkTypes
<1>2. \A t \in Sms : Outstanding(t)' \in Int
  BY EntryFields DEF Outstanding, BulkTypes
<1>3. \A t \in Sms : t # s => g[t] = f[t]
  BY DEF Outstanding
<1>4. f \in [Sms -> Int] /\ g \in [Sms -> Int]
  BY <1>1, <1>2
<1>5. Held = SumFunction(f) /\ Held' = SumFunction(g)
  BY DEF Held
<1>6. f[s] = Outstanding(s) /\ g[s] = Outstanding(s)'
  OBVIOUS
<1> HIDE DEF f, g
<1>7. SumFunction(g) = SumFunction(f) - f[s] + g[s]
  BY <1>3, <1>4, SumStep, SendAssumption
<1> QED
  BY <1>5, <1>6, <1>7

\* What is held is a number.
LEMMA HeldTyped ==
  ASSUME BulkTypes, NEW s \in Sms
  PROVE  Held \in Int
<1> DEFINE f == [t \in Sms |-> Outstanding(t)]
<1>1. f \in [Sms -> Int]
  BY EntryFields DEF Outstanding, BulkTypes
<1> HIDE DEF f
<1>2. SumFunction(f) \in Int
  BY <1>1, SumStep, SendAssumption
<1> QED
  BY <1>2 DEF Held, f


\* A reservation, a debit and a release change what is outstanding.
LEMMA EntryBooks ==
  ASSUME NEW e \in Entries, NEW a \in Nat
  PROVE  LET left(x) == x.reservation - x.debit - x.adjustment IN
         /\ left([e EXCEPT !.reservation = e.reservation + a, !.latest = a]) = left(e) + a
         /\ left([e EXCEPT !.debit = e.debit + a]) = left(e) - a
         /\ left([e EXCEPT !.adjustment = e.adjustment + a]) = left(e) - a
<1>1. e.reservation \in Nat /\ e.debit \in Nat /\ e.adjustment \in Nat
  BY DEF Entries
<1> DEFINE m == e.reservation + a  n == e.debit + a  o == e.adjustment + a
           x == [e EXCEPT !.reservation = m, !.latest = a]
           y == [e EXCEPT !.debit = n]
           z == [e EXCEPT !.adjustment = o]
<1>2. /\ x.reservation = m /\ x.debit = e.debit /\ x.adjustment = e.adjustment
      /\ y.reservation = e.reservation /\ y.debit = n /\ y.adjustment = e.adjustment
      /\ z.reservation = e.reservation /\ z.debit = e.debit /\ z.adjustment = o
  <2> HIDE DEF m, n, o
  <2> QED
    BY DEF Entries
<1> HIDE DEF x, y, z
<1>3. /\ x.reservation - x.debit - x.adjustment = e.reservation - e.debit - e.adjustment + a
      /\ y.reservation - y.debit - y.adjustment = e.reservation - e.debit - e.adjustment - a
      /\ z.reservation - z.debit - z.adjustment = e.reservation - e.debit - e.adjustment - a
  BY <1>1, <1>2
<1> QED
  BY <1>3 DEF x, y, z

\* Every booking changes the reserved credits by as much as what is outstanding of its message.
LEMMA OutstandingMoves ==
  ASSUME Sound, NEW d \in Dispatch, NEW s, s = job[d].sms,
         ReserveAndQueue(d) \/ DebitActual(d) \/ ReleaseRest(d)
  PROVE  \/ money' = money
         \/ /\ s \in Sms /\ \A t \in Sms \ {s} : ledger'[t] = ledger[t]
            /\ reserved' - reserved = Outstanding(s)' - Outstanding(s)
<1>0. BulkTypes /\ reserved \in Int
  BY DEF Sound, BulkTypes
<1>1. ASSUME NEW x \in Entries, NEW a \in Int, s \in Sms, reserved' = reserved + a,
             ledger' = [ledger EXCEPT ![s] = x],
             x.reservation - x.debit - x.adjustment = Outstanding(s) + a
      PROVE  /\ \A t \in Sms \ {s} : ledger'[t] = ledger[t]
             /\ reserved' - reserved = Outstanding(s)' - Outstanding(s)
  <2>1. ledger'[s] = x /\ \A t \in Sms \ {s} : ledger'[t] = ledger[t]
    BY <1>0, <1>1, LedgerMoves
  <2>2. Outstanding(s) \in Int
    BY <1>0, <1>1, EntryFields DEF Outstanding, BulkTypes
  <2>3. Outstanding(s)' = Outstanding(s) + a
    BY <1>1, <2>1 DEF Outstanding
  <2> QED
    BY <1>0, <1>1, <2>1, <2>2, <2>3
<1>2. CASE ReserveAndQueue(d)
  <2> DEFINE a == job[d].est  e == ledger[s]
             x == [e EXCEPT !.reservation = e.reservation + a, !.latest = a]
  <2>1. s \in Sms /\ a \in Nat /\ reserved' = reserved + a /\ ledger' = [ledger EXCEPT ![s] = x]
    BY <1>2, BookingEffect
  <2>2. e \in Entries
    BY <1>0, <2>1 DEF BulkTypes
  <2>3. x \in Entries /\ x.reservation - x.debit - x.adjustment = Outstanding(s) + a
    <3> HIDE DEF a
    <3> QED
      BY <2>1, <2>2, EntryTyped, EntryBooks DEF Outstanding
  <2> HIDE DEF a, x, e
  <2>4. a \in Int
    BY <2>1
  <2> QED
    BY <1>1, <2>1, <2>3, <2>4
<1>3. CASE DebitActual(d)
  <2> DEFINE a == fin[d].actual  e == ledger[s]
             x == [e EXCEPT !.debit = e.debit + a]
  <2>1. /\ s \in Sms /\ a \in Nat
        /\ \/ money' = money
           \/ reserved' = reserved - a /\ ledger' = [ledger EXCEPT ![s] = x]
    BY <1>3, BookingEffect
  <2>2. e \in Entries
    BY <1>0, <2>1 DEF BulkTypes
  <2> HIDE DEF a
  <2>3. x \in Entries /\ x.reservation - x.debit - x.adjustment = Outstanding(s) - a
    BY <2>1, <2>2, EntryTyped, EntryBooks DEF Outstanding
  <2>4. Outstanding(s) \in Int
    BY <2>2, EntryFields DEF Outstanding
  <2> HIDE DEF x
  <2>5. -a \in Int /\ reserved - a = reserved + (-a) /\ Outstanding(s) - a = Outstanding(s) + (-a)
    BY <1>0, <2>1, <2>4
  <2> QED
    BY <1>1, <2>1, <2>3, <2>5
<1>4. CASE ReleaseRest(d)
  <2> DEFINE a == OverReserved(fin[d])  e == ledger[s]
             x == [e EXCEPT !.adjustment = e.adjustment + a]
  <2>1. /\ s \in Sms
        /\ \/ money' = money
           \/ a \in Nat /\ reserved' = reserved - a /\ ledger' = [ledger EXCEPT ![s] = x]
    BY <1>4, BookingEffect
  <2>2. e \in Entries
    BY <1>0, <2>1 DEF BulkTypes
  <2> HIDE DEF a
  <2>3. a \in Nat => /\ x \in Entries
                     /\ x.reservation - x.debit - x.adjustment = Outstanding(s) - a
    BY <2>2, EntryTyped, EntryBooks DEF Outstanding
  <2>4. Outstanding(s) \in Int
    BY <2>2, EntryFields DEF Outstanding
  <2> HIDE DEF x
  <2>5. a \in Nat => /\ -a \in Int /\ reserved - a = reserved + (-a)
                     /\ Outstanding(s) - a = Outstanding(s) + (-a)
    BY <1>0, <2>4
  <2> QED
    BY <1>1, <2>1, <2>3, <2>5
<1> QED
  BY <1>2, <1>3, <1>4

\* The credits that are reserved stay those that are outstanding.
LEMMA HeldStep ==
  ASSUME Sound, MoneyAgrees, [Next]_vars
  PROVE  MoneyAgrees'
<1>0. BulkTypes /\ BulkTypes' /\ reserved \in Int /\ reserved' \in Int
  BY TypesStep DEF Sound, BulkTypes
<1>1. CASE money' = money
  BY <1>1 DEF money, MoneyAgrees, Held, Outstanding
<1>2. ASSUME NEW d \in Dispatch, ReserveAndQueue(d) \/ DebitActual(d) \/ ReleaseRest(d),
             money' # money
      PROVE  MoneyAgrees'
  <2>1. PICK s : s = job[d].sms
    OBVIOUS
  <2>2. /\ s \in Sms /\ \A t \in Sms \ {s} : ledger'[t] = ledger[t]
        /\ reserved' - reserved = Outstanding(s)' - Outstanding(s)
    BY <1>2, <2>1, OutstandingMoves
  <2>3. Held' = Held - Outstanding(s) + Outstanding(s)'
    BY <1>0, <2>2, HeldMoves
  <2>4. Outstanding(s) \in Int /\ Held \in Int /\ Outstanding(s)' \in Int
    BY <1>0, <2>2, EntryFields, HeldTyped DEF Outstanding, BulkTypes
  <2> QED
    BY <1>0, <2>2, <2>3, <2>4 DEF MoneyAgrees
<1> QED
  BY <1>1, <1>2, MoneyMoves

\* What a booking leaves in the ledger, field by field.
LEMMA LedgerBooks ==
  ASSUME BulkTypes, NEW s \in Sms, NEW a \in Nat
  PROVE  LET e == ledger[s]  b == ledger'[s] IN
         /\ ledger' = [ledger EXCEPT ![s] = [e EXCEPT !.reservation = e.reservation + a,
                                                      !.latest = a]] =>
              /\ b.reservation = e.reservation + a /\ b.latest = a
              /\ b.debit = e.debit /\ b.adjustment = e.adjustment
              /\ \A t \in Sms \ {s} : ledger'[t] = ledger[t]
         /\ ledger' = [ledger EXCEPT ![s] = [e EXCEPT !.debit = e.debit + a]] =>
              /\ b.reservation = e.reservation /\ b.latest = e.latest
              /\ b.debit = e.debit + a /\ b.adjustment = e.adjustment
              /\ \A t \in Sms \ {s} : ledger'[t] = ledger[t]
         /\ ledger' = [ledger EXCEPT ![s] = [e EXCEPT !.adjustment = e.adjustment + a]] =>
              /\ b.reservation = e.reservation /\ b.latest = e.latest
              /\ b.debit = e.debit /\ b.adjustment = e.adjustment + a
              /\ \A t \in Sms \ {s} : ledger'[t] = ledger[t]
<1> DEFINE e == ledger[s]  m == e.reservation + a  n == e.debit + a  o == e.adjustment + a
           x == [e EXCEPT !.reservation = m, !.latest = a]
           y == [e EXCEPT !.debit = n]
           z == [e EXCEPT !.adjustment = o]
<1>1. e \in Entries
  BY DEF BulkTypes
<1>2. x \in Entries /\ y \in Entries /\ z \in Entries
  BY <1>1, EntryTyped
<1>3. /\ x.reservation = m /\ x.latest = a /\ x.debit = e.debit /\ x.adjustment = e.adjustment
      /\ y.reservation = e.reservation /\ y.latest = e.latest /\ y.debit = n
      /\ y.adjustment = e.adjustment
      /\ z.reservation = e.reservation /\ z.latest = e.latest /\ z.debit = e.debit
      /\ z.adjustment = o
  <2> HIDE DEF m, n, o
  <2> QED
    BY <1>1 DEF Entries
<1> HIDE DEF x, y, z
<1>4. \A w \in Entries : ledger' = [ledger EXCEPT ![s] = w] =>
        ledger'[s] = w /\ \A t \in Sms \ {s} : ledger'[t] = ledger[t]
  BY LedgerMoves
<1>5. /\ ledger' = [ledger EXCEPT ![s] = x] =>
           ledger'[s] = x /\ \A t \in Sms \ {s} : ledger'[t] = ledger[t]
      /\ ledger' = [ledger EXCEPT ![s] = y] =>
           ledger'[s] = y /\ \A t \in Sms \ {s} : ledger'[t] = ledger[t]
      /\ ledger' = [ledger EXCEPT ![s] = z] =>
           ledger'[s] = z /\ \A t \in Sms \ {s} : ledger'[t] = ledger[t]
  BY <1>2, <1>4
<1>6. /\ ledger' = [ledger EXCEPT ![s] = x] =>
           /\ ledger'[s].reservation = m /\ ledger'[s].latest = a
           /\ ledger'[s].debit = e.debit /\ ledger'[s].adjustment = e.adjustment
           /\ \A t \in Sms \ {s} : ledger'[t] = ledger[t]
      /\ ledger' = [ledger EXCEPT ![s] = y] =>
           /\ ledger'[s].reservation = e.reservation /\ ledger'[s].latest = e.latest
           /\ ledger'[s].debit = n /\ ledger'[s].adjustment = e.adjustment
           /\ \A t \in Sms \ {s} : ledger'[t] = ledger[t]
      /\ ledger' = [ledger EXCEPT ![s] = z] =>
           /\ ledger'[s].reservation = e.reservation /\ ledger'[s].latest = e.latest
           /\ ledger'[s].debit = e.debit /\ ledger'[s].adjustment = o
           /\ \A t \in Sms \ {s} : ledger'[t] = ledger[t]
  BY <1>3, <1>5
<1> QED
  BY <1>6 DEF x, y, z

\* A reservation: the estimate is taken from what is available.
LEMMA ReserveBooks ==
  ASSUME Sound, NEW d \in Dispatch, NEW s, s = job[d].sms, ReserveAndQueue(d)
  PROVE  LET a == job[d].est IN
         /\ s \in Sms /\ a \in Nat /\ balance - reserved >= a
         /\ balance' = balance /\ reserved' = reserved + a
         /\ ledger'[s].reservation = ledger[s].reservation + a /\ ledger'[s].latest = a
         /\ ledger'[s].debit = ledger[s].debit /\ ledger'[s].adjustment = ledger[s].adjustment
         /\ \A t \in Sms \ {s} : ledger'[t] = ledger[t]
<1> DEFINE a == job[d].est
<1>1. /\ s \in Sms /\ a \in Nat /\ CanReserve(a) /\ balance' = balance /\ reserved' = reserved + a
      /\ ledger' = [ledger EXCEPT ![s] =
           [ledger[s] EXCEPT !.reservation = ledger[s].reservation + a, !.latest = a]]
  BY BookingEffect
<1>2. BulkTypes
  BY DEF Sound
<1> HIDE DEF a
<1>3. /\ ledger'[s].reservation = ledger[s].reservation + a /\ ledger'[s].latest = a
      /\ ledger'[s].debit = ledger[s].debit /\ ledger'[s].adjustment = ledger[s].adjustment
      /\ \A t \in Sms \ {s} : ledger'[t] = ledger[t]
  BY <1>1, <1>2, LedgerBooks
<1> QED
  BY <1>1, <1>3 DEF a, CanReserve

\* A debit: the cost is taken from the balance and from what is reserved, unless too little
\* is reserved.
LEMMA DebitEffect ==
  ASSUME Sound, NEW d \in Dispatch, NEW s, s = job[d].sms, DebitActual(d)
  PROVE  LET a == fin[d].actual IN
         /\ s \in Sms /\ a \in Nat /\ fin[d].pc = "priced" /\ job' = job
         /\ fin'[d].pc = "debited" /\ fin'[d].actual = a /\ fin'[d].est = fin[d].est
         /\ fin'[d].segs = fin[d].segs
         /\ \A e \in Dispatch \ {d} : fin'[e] = fin[e]
         /\ \/ ~(a > 0 /\ reserved >= a) /\ money' = money
            \/ /\ a > 0 /\ reserved >= a
               /\ balance' = balance - a /\ reserved' = reserved - a
               /\ ledger'[s].reservation = ledger[s].reservation
               /\ ledger'[s].latest = ledger[s].latest
               /\ ledger'[s].debit = ledger[s].debit + a
               /\ ledger'[s].adjustment = ledger[s].adjustment
               /\ \A t \in Sms \ {s} : ledger'[t] = ledger[t]
<1> DEFINE a == fin[d].actual
<1>0. BulkTypes /\ fin[d] \in Finalize /\ a \in Nat
  BY DEF Sound, BulkTypes, Finalize
<1>1. FinalizeStep(d) /\ DebitFunds(s, a)
  BY DEF FinalizeStep, DebitActual
<1>2. /\ s \in Sms /\ job' = job /\ \A e \in Dispatch \ {d} : fin'[e] = fin[e]
      /\ fin[d].pc = "priced" /\ fin'[d] = [fin[d] EXCEPT !.pc = "debited"]
  BY ZenonT(60), <1>1, FinalizeFields
<1>3. /\ fin'[d].pc = "debited" /\ fin'[d].actual = a /\ fin'[d].est = fin[d].est
      /\ fin'[d].segs = fin[d].segs
  BY <1>0, <1>2 DEF Finalize
<1> HIDE DEF a
<1>7. ASSUME DebitFunds(s, a), a > 0, reserved >= a
      PROVE  /\ balance' = balance - a /\ reserved' = reserved - a
             /\ ledger'[s].reservation = ledger[s].reservation
             /\ ledger'[s].latest = ledger[s].latest
             /\ ledger'[s].debit = ledger[s].debit + a
             /\ ledger'[s].adjustment = ledger[s].adjustment
             /\ \A t \in Sms \ {s} : ledger'[t] = ledger[t]
  <2>1. /\ balance' = balance - a /\ reserved' = reserved - a
        /\ ledger' = [ledger EXCEPT ![s] = [ledger[s] EXCEPT !.debit = ledger[s].debit + a]]
    BY <1>7 DEF DebitFunds
  <2> QED
    BY ZenonT(60), <1>0, <1>2, <2>1, LedgerBooks
<1>8. DebitFunds(s, a) /\ ~(a > 0 /\ reserved >= a) => money' = money
  BY DEF DebitFunds
<1> QED
  BY <1>0, <1>1, <1>2, <1>3, <1>7, <1>8 DEF a

\* A release: the rest of the estimate that was remembered is set free.
LEMMA ReleaseEffect ==
  ASSUME Sound, NEW d \in Dispatch, NEW s, s = job[d].sms, ReleaseRest(d)
  PROVE  LET a == fin[d].est - fin[d].actual IN
         /\ s \in Sms /\ a \in Int /\ job' = job
         /\ fin[d].pc = "debited" /\ fin'[d].pc = "settled"
         /\ fin'[d].est = fin[d].est /\ fin'[d].actual = fin[d].actual
         /\ \A e \in Dispatch \ {d} : fin'[e] = fin[e]
         /\ \/ a <= 0 /\ money' = money
            \/ /\ a > 0 /\ balance' = balance /\ reserved' = reserved - a
               /\ ledger'[s].reservation = ledger[s].reservation
               /\ ledger'[s].latest = ledger[s].latest
               /\ ledger'[s].debit = ledger[s].debit
               /\ ledger'[s].adjustment = ledger[s].adjustment + a
               /\ \A t \in Sms \ {s} : ledger'[t] = ledger[t]
<1>0. BulkTypes /\ fin \in [Dispatch -> Finalize]
  BY DEF Sound, BulkTypes
<1> DEFINE a == fin[d].est - fin[d].actual
<1>1. /\ s \in Sms /\ a \in Int
      /\ \/ a <= 0 /\ money' = money
         \/ /\ a \in Nat /\ a > 0
            /\ balance' = balance /\ reserved' = reserved - a
            /\ ledger' = [ledger EXCEPT ![s] =
                 [ledger[s] EXCEPT !.adjustment = ledger[s].adjustment + a]]
  <2>1. OverReserved(fin[d]) = a
    BY DEF OverReserved
  <2> HIDE DEF a
  <2> QED
    BY <2>1, BookingEffect
<1>2. job' = job /\ fin[d].pc = "debited" /\ fin' = [fin EXCEPT ![d].pc = "settled"]
  BY DEF ReleaseRest
<1>3. /\ fin'[d].pc = "settled" /\ fin'[d].est = fin[d].est /\ fin'[d].actual = fin[d].actual
      /\ \A e \in Dispatch \ {d} : fin'[e] = fin[e]
  BY <1>0, <1>2 DEF Finalize
<1> HIDE DEF a
<1>4. ASSUME a \in Nat, ledger' = [ledger EXCEPT ![s] =
                          [ledger[s] EXCEPT !.adjustment = ledger[s].adjustment + a]]
      PROVE  /\ ledger'[s].reservation = ledger[s].reservation
             /\ ledger'[s].latest = ledger[s].latest
             /\ ledger'[s].debit = ledger[s].debit
             /\ ledger'[s].adjustment = ledger[s].adjustment + a
             /\ \A t \in Sms \ {s} : ledger'[t] = ledger[t]
  BY ZenonT(60), <1>0, <1>1, <1>4, LedgerBooks
<1> QED
  BY <1>1, <1>2, <1>3, <1>4 DEF a

\* The chord bodies that have booked nothing.
Early == {"none", "waiting", "read", "counted", "rolled", "found", "priced", "skipped"}

\* What a step that books nothing does to a dispatch: only a fault takes away that it has
\* reserved, or stops its chord body.
LEMMA TaskProgress ==
  ASSUME Sound, [Next]_vars, NEW d \in Dispatch,
         ~ReserveAndQueue(d), ~DebitActual(d), ~ReleaseRest(d)
  PROVE  /\ \/ Reserving(d)' <=> Reserving(d)
            \/ ~Reserving(d)' /\ used'.faults = used.faults + 1
         /\ Reserving(d)' => job'[d].sms = job[d].sms /\ job'[d].est = job[d].est
         /\ \/ fin'[d] = fin[d]
            \/ fin[d].pc \in Early /\ fin'[d].pc \in Early
            \/ fin'[d].pc = "lost" /\ used'.faults = used.faults + 1
<1> DEFINE Goal ==
         /\ \/ Reserving(d)' <=> Reserving(d)
            \/ ~Reserving(d)' /\ used'.faults = used.faults + 1
         /\ Reserving(d)' => job'[d].sms = job[d].sms /\ job'[d].est = job[d].est
         /\ \/ fin'[d] = fin[d]
            \/ fin[d].pc \in Early /\ fin'[d].pc \in Early
            \/ fin'[d].pc = "lost" /\ used'.faults = used.faults + 1
<1> SUFFICES Goal
  OBVIOUS
<1>0. /\ BulkTypes /\ job[d] \in Job /\ fin[d] \in Finalize /\ used \in Use
      /\ job \in [Dispatch -> Job] /\ fin \in [Dispatch -> Finalize]
      /\ job[d].pc # "enqueued" => fin[d].pc = "none"
  BY Owner DEF Sound, BulkTypes
<1>1. CASE job'[d] = job[d] /\ fin'[d] = fin[d]
  BY <1>1 DEF Reserving
<1>2. ASSUME job[d].pc \notin {"committed", "enqueued"}, job'[d].pc \notin {"committed", "enqueued"},
             fin' = fin
      PROVE  Goal
  BY <1>2 DEF Reserving
<1>3. ASSUME NEW s \in Sms, RequestSend(d, s)
      PROVE  Goal
  <2>1. job[d].pc = "free" /\ job'[d].pc = "queued" /\ fin' = fin
    BY <1>0, <1>3 DEF RequestSend, Job
  <2> QED
    BY <1>2, <2>1
<1>4. ASSUME LoadSms(d) \/ EstimateCost(d) \/ RejectDispatch(d)
      PROVE  Goal
  <2>1. job[d].pc \in {"queued", "loaded"} /\ fin' = fin
    BY <1>4 DEF LoadSms, EstimateCost, RejectDispatch
  <2>2. job'[d].pc \in {"loaded", "estimated", "failed"}
    <3>1. CASE LoadSms(d)
      BY <1>0, <3>1 DEF LoadSms, Job
    <3>2. CASE EstimateCost(d)
      <4> DEFINE n == Estimate(job[d].sms)
      <4>1. job' = [job EXCEPT ![d] = [job[d] EXCEPT !.pc = "estimated", !.counted = Eligible,
                                                     !.est = n]]
        BY <3>2 DEF EstimateCost
      <4> HIDE DEF n
      <4> QED
        BY <1>0, <4>1 DEF Job
    <3>3. CASE RejectDispatch(d)
      BY <1>0, <3>3 DEF RejectDispatch, Job
    <3> QED
      BY <1>4, <3>1, <3>2, <3>3
  <2> QED
    BY <1>2, <2>1, <2>2
<1>5. ASSUME InsufficientCredits(d)
      PROVE  Goal
  <2>1. job[d].pc = "estimated" /\ RetryDispatch(d) /\ fin' = fin
    BY <1>5 DEF InsufficientCredits
  <2>2. job'[d].pc \in {"queued", "failed"}
    BY <1>0, <2>1, RetryMoves
  <2> QED
    BY <1>2, <2>1, <2>2
<1>6. ASSUME Enqueues(d)
      PROVE  Goal
  <2>1. /\ job[d].pc = "committed" /\ job'[d].pc = "enqueued" /\ job'[d].sms = job[d].sms
        /\ job'[d].est = job[d].est /\ fin'[d].pc = "waiting"
    BY <1>6, EnqueueEffect
  <2>2. fin[d].pc = "none"
    BY <1>0, <2>1
  <2> QED
    BY <2>1, <2>2 DEF Reserving, Early
<1>7. ASSUME NEW k \in BatchNo, BatchStep(d, k)
      PROVE  job' = job /\ fin' = fin
  BY <1>7 DEF BatchStep, StartBatch, SendToProvider, SaveRecipient, FlushEvents, RetryBatch,
              EndBatch
<1>8. ASSUME Reads(d) \/ RollUp(d)
      PROVE  Goal
  <2>1. job' = job /\ fin[d].pc \in Early
    BY <1>8 DEF Reads, ReadForFinalize, CountRows, RollUp, FindReservation, PriceReached, Early
  <2>2. fin'[d].pc \in Early
    <3>1. PICK s : s = job[d].sms
      OBVIOUS
    <3>2. CASE ReadForFinalize(d)
      BY <3>1, <3>2, FinalizeFields DEF Early
    <3>3. CASE CountRows(d) \/ PriceReached(d)
      <4>1. fin'[d].pc \in {"counted", "priced"}
        <5>1. \A x : [fin[d] EXCEPT !.pc = "counted", !.status = x].pc = "counted"
          BY <1>0 DEF Finalize
        <5>2. \A x : [fin[d] EXCEPT !.pc = "priced", !.actual = x].pc = "priced"
          BY <1>0 DEF Finalize
        <5>3. CountRows(d) => fin'[d] = [fin[d] EXCEPT !.pc = "counted", !.status = FinalStatus(s)]
          BY <3>1, FinalizeFields
        <5>4. PriceReached(d) => fin'[d] = [fin[d] EXCEPT !.pc = "priced", !.actual = ActualCost(d)]
          BY <3>1, FinalizeFields
        <5> QED
          BY <3>3, <5>1, <5>2, <5>3, <5>4
      <4> QED
        BY <4>1 DEF Early
    <3>4. CASE RollUp(d) \/ FindReservation(d)
      <4>1. \A x : /\ [fin[d] EXCEPT !.pc = "rolled"].pc = "rolled"
                   /\ [fin[d] EXCEPT !.pc = "skipped"].pc = "skipped"
                   /\ [fin[d] EXCEPT !.pc = "found", !.est = x].pc = "found"
        BY <1>0 DEF Finalize
      <4> QED
        BY ZenonT(30), <3>1, <3>4, <4>1, FinalizeFields DEF Early
    <3> QED
      BY <1>8, <3>2, <3>3, <3>4 DEF Reads
  <2> QED
    BY <2>1, <2>2 DEF Reserving
<1>9. ASSUME EnqueueFails(d)
      PROVE  Goal
  <2>1. RetryDispatch(d) /\ fin' = fin /\ used' = [used EXCEPT !.faults = @ + 1]
    BY <1>9 DEF EnqueueFails
  <2>2. job'[d].pc \in {"queued", "failed"}
    BY <1>0, <2>1, RetryMoves
  <2>3. used'.faults = used.faults + 1
    BY <1>0, <2>1 DEF Use
  <2> QED
    BY <2>1, <2>2, <2>3 DEF Reserving
<1>10. ASSUME Crash(d)
       PROVE  Goal
  <2>1. used' = [used EXCEPT !.faults = @ + 1]
    BY <1>10 DEF Crash
  <2>2. used'.faults = used.faults + 1
    BY <1>0, <2>1 DEF Use
  <2>3. \/ job' = [job EXCEPT ![d].pc = "lost"] /\ fin' = fin
        \/ fin' = [fin EXCEPT ![d].pc = "lost"] /\ job' = job
        \/ job' = job /\ fin' = fin
    BY <1>10 DEF Crash
  <2>4. \/ job'[d].pc = "lost" /\ fin' = fin
        \/ fin'[d].pc = "lost" /\ job' = job
        \/ job' = job /\ fin' = fin
    BY <1>0, <2>3 DEF Job, Finalize
  <2> QED
    BY <2>2, <2>4 DEF Reserving
<1>13. ASSUME RejectAgain(d)
       PROVE  Goal
  <2>1. /\ job'[d].pc = job[d].pc /\ job'[d].sms = job[d].sms /\ job'[d].est = job[d].est
        /\ fin' = fin
    BY <1>0, <1>13, AgainEffect DEF RejectAgain
  <2> QED
    BY <2>1 DEF Reserving
\* Whose step it is.
<1>11. ASSUME NEW e \in Dispatch, \/ \E s \in Sms : RequestSend(e, s)
                                  \/ DispatchStep(e) \/ FinalizeStep(e) \/ EnqueueFails(e)
                                  \/ PublishFails(e) \/ Crash(e) \/ \E k \in BatchNo : BatchStep(e, k)
       PROVE  Goal
  <2>1. CASE e # d
    <3>1. job'[d] = job[d] /\ fin'[d] = fin[d]
      BY <1>11, <2>1, OnlyOwn
    <3> QED
      BY <1>1, <3>1
  <2>2. CASE e = d
    <3> HIDE DEF Goal
    <3>1. CASE DispatchStep(d)
      BY <1>4, <1>5, <1>6, <1>13, <3>1 DEF DispatchStep, Enqueues
    <3>2. CASE FinalizeStep(d)
      BY <1>8, <3>2 DEF FinalizeStep, Reads
    <3>3. CASE \E k \in BatchNo : BatchStep(d, k)
      BY <1>1, <1>7, <3>3 DEF Goal
    <3> QED
      BY <1>3, <1>6, <1>9, <1>10, <1>11, <2>2, <3>1, <3>2, <3>3 DEF Enqueues
  <2> QED
    BY <2>1, <2>2
<1>12. CASE \/ \E s \in Sms : EditRead(s)
            \/ \E newStatus \in SmsStatus, newSegs \in Segments : EditSave(newStatus, newSegs)
            \/ \E s \in Sms, p \in Phone : OptOut(s, p)
            \/ \E s \in Sms, p \in Phone, v \in Reports : DeliveryReport(s, p, v)
            \/ \E p \in Phone : JoinSegment(p)
            \/ RefreshPrices \/ UNCHANGED vars
  <2>1. job' = job /\ fin' = fin
    BY <1>12 DEF EditRead, EditSave, OptOut, DeliveryReport, JoinSegment, RefreshPrices, vars
  <2> QED
    BY <1>1, <2>1
<1> HIDE DEF Goal
<1> QED
  BY <1>11, <1>12 DEF Next, Environment

\* Without faults a dispatch that has reserved stays one, for the same message and the same
\* estimate.
LEMMA ReservingStays ==
  ASSUME Sound, [Next]_vars, used'.faults = 0, NEW d \in Dispatch
  PROVE  /\ used.faults = 0
         /\ Reserving(d) => Reserving(d)'
         /\ Reserving(d)' => /\ Reserving(d) \/ ReserveAndQueue(d)
                             /\ job'[d].sms = job[d].sms /\ job'[d].est = job[d].est
         /\ Debited(d) => Debited(d)' /\ fin'[d].actual = fin[d].actual /\ fin'[d].est = fin[d].est
<1>0. used.faults = 0 /\ ~(used'.faults = used.faults + 1)
  BY FaultsGrow
<1>1. CASE ReserveAndQueue(d)
  <2>1. /\ job'[d].pc = "committed" /\ job'[d].sms = job[d].sms /\ job'[d].est = job[d].est
        /\ fin' = fin
    BY <1>1, ReserveEffect
  <2> QED
    BY <1>0, <1>1, <2>1 DEF Reserving, Debited
<1>2. CASE DebitActual(d)
  <2>1. job' = job /\ fin[d].pc = "priced"
    BY <1>2, DebitEffect
  <2> QED
    BY <1>0, <2>1 DEF Reserving, Debited
<1>3. CASE ReleaseRest(d)
  <2>1. /\ job' = job /\ fin'[d].pc = "settled"
        /\ fin'[d].est = fin[d].est /\ fin'[d].actual = fin[d].actual
    BY <1>3, ReleaseEffect
  <2> QED
    BY <1>0, <2>1 DEF Reserving, Debited
<1>4. CASE ~ReserveAndQueue(d) /\ ~DebitActual(d) /\ ~ReleaseRest(d)
  <2>1. /\ Reserving(d)' <=> Reserving(d)
        /\ Reserving(d)' => job'[d].sms = job[d].sms /\ job'[d].est = job[d].est
        /\ fin'[d] = fin[d] \/ (fin[d].pc \in Early /\ fin'[d].pc \in Early)
    BY <1>0, <1>4, TaskProgress
  <2>2. Debited(d) => fin'[d] = fin[d]
    BY <2>1 DEF Debited, Early
  <2> QED
    BY <1>0, <2>1, <2>2 DEF Debited
<1> QED
  BY <1>1, <1>2, <1>3, <1>4

\* A dispatch is debited by its own chord body.
LEMMA DebitedBy ==
  ASSUME Sound, [Next]_vars, NEW d \in Dispatch, Debited(d)'
  PROVE  \/ DebitActual(d)
         \/ Debited(d) /\ fin'[d].actual = fin[d].actual /\ fin'[d].est = fin[d].est
<1>1. CASE ReserveAndQueue(d)
  <2>1. fin' = fin
    BY <1>1, ReserveEffect
  <2> QED
    BY <2>1 DEF Debited
<1>2. CASE ReleaseRest(d)
  BY <1>2, ReleaseEffect DEF Debited
<1>3. CASE ~ReserveAndQueue(d) /\ ~DebitActual(d) /\ ~ReleaseRest(d)
  <2>1. \/ fin'[d] = fin[d]
        \/ fin[d].pc \in Early /\ fin'[d].pc \in Early
        \/ fin'[d].pc = "lost"
    BY <1>3, TaskProgress
  <2> QED
    BY <2>1 DEF Debited, Early
<1> QED
  BY <1>1, <1>2, <1>3

\* A chord body moves by its own steps, once it has been published.
LEMMA FinalizeMoves ==
  ASSUME Sound, [Next]_vars, NEW d \in Dispatch
  PROVE  \/ fin'[d] = fin[d] \/ fin'[d].pc \in {"waiting", "lost"} \/ FinalizeStep(d)
<1>0. BulkTypes /\ fin[d] \in Finalize /\ fin \in [Dispatch -> Finalize]
  BY DEF Sound, BulkTypes
<1>1. CASE \/ \E s \in Sms : RequestSend(d, s)
           \/ \E k \in BatchNo : BatchStep(d, k)
           \/ EnqueueFails(d)
  BY <1>1 DEF RequestSend, EnqueueFails, BatchStep, StartBatch, SendToProvider, SaveRecipient,
              FlushEvents, RetryBatch, EndBatch
<1>2. CASE Enqueues(d)
  BY <1>2, EnqueueEffect
<1>3. CASE DispatchStep(d) /\ ~Enqueues(d)
  BY <1>3 DEF DispatchStep, Enqueues, LoadSms, EstimateCost, RejectDispatch, RejectAgain,
              ReserveAndQueue, InsufficientCredits
<1>4. CASE Crash(d)
  <2>1. fin' = fin \/ fin' = [fin EXCEPT ![d].pc = "lost"]
    BY <1>4 DEF Crash
  <2> QED
    BY <1>0, <2>1 DEF Finalize
<1> QED
  BY <1>1, <1>2, <1>3, <1>4, OwnSteps DEF Enqueues

\* What a chord body has read it keeps.
LEMMA FinalizeKeeps ==
  ASSUME Sound, [Next]_vars, NEW d \in Dispatch
  PROVE  LET f == fin[d]  g == fin'[d] IN
         /\ g.pc \in Loaded => ReadForFinalize(d) \/ (f.pc \in Loaded /\ g.segs = f.segs)
         /\ g.pc = "counted" => CountRows(d) \/ g = f
         /\ g.pc \in Found => FindReservation(d) \/ (f.pc \in Found /\ g.est = f.est)
         /\ g.pc \in Priced => PriceReached(d) \/ (f.pc \in Priced /\ g.actual = f.actual)
<1> DEFINE f == fin[d]  g == fin'[d]
<1> USE DEF Loaded, Found, Priced, Rolled
<1>0. f \in Finalize
  BY DEF Sound, BulkTypes
<1>1. PICK s : s = job[d].sms
  OBVIOUS
<1>2. ASSUME NEW x, g = [f EXCEPT !.pc = x]
      PROVE  g.pc = x /\ g.segs = f.segs /\ g.est = f.est /\ g.actual = f.actual
  BY <1>0, <1>2 DEF Finalize
<1> HIDE DEF f, g
<1>3. CASE ReadForFinalize(d)
  <2>1. g.pc \in {"skipped", "read"}
    BY <1>1, <1>3, FinalizeFields DEF g
  <2> QED
    BY <1>3, <2>1 DEF f, g
<1>4. CASE CountRows(d)
  <2>1. PICK v : f.pc = "read" /\ g = [f EXCEPT !.pc = "counted", !.status = v]
    BY <1>1, <1>4, FinalizeFields DEF f, g
  <2>2. g.pc = "counted" /\ g.segs = f.segs
    BY <1>0, <2>1 DEF Finalize
  <2> QED
    BY <1>4, <2>1, <2>2 DEF f, g
<1>5. CASE RollUp(d)
  <2>1. f.pc = "counted" /\ g = [f EXCEPT !.pc = "rolled"]
    BY <1>1, <1>5, FinalizeFields DEF f, g
  <2> QED
    BY <1>2, <2>1 DEF f, g
<1>6. CASE FindReservation(d)
  <2>1. /\ f.pc = "rolled"
        /\ \/ g = [f EXCEPT !.pc = "skipped"]
           \/ \E n : g = [f EXCEPT !.pc = "found", !.est = n]
    BY <1>1, <1>6, FinalizeFields DEF f, g
  <2>2. g.pc = "skipped" \/ (g.pc = "found" /\ g.segs = f.segs)
    BY <1>0, <1>2, <2>1 DEF Finalize
  <2> QED
    BY <1>6, <2>1, <2>2 DEF f, g
<1>7. CASE PriceReached(d)
  <2>1. PICK n : f.pc = "found" /\ g = [f EXCEPT !.pc = "priced", !.actual = n]
    BY <1>1, <1>7, FinalizeFields DEF f, g
  <2>2. g.pc = "priced" /\ g.segs = f.segs /\ g.est = f.est
    BY <1>0, <2>1 DEF Finalize
  <2> QED
    BY <1>7, <2>1, <2>2 DEF f, g
<1>8. CASE DebitActual(d)
  <2>1. f.pc = "priced" /\ g = [f EXCEPT !.pc = "debited"]
    BY <1>1, <1>8, FinalizeFields DEF f, g
  <2> QED
    BY <1>2, <2>1 DEF f, g
<1>9. CASE ReleaseRest(d)
  <2>1. f.pc = "debited" /\ g = [f EXCEPT !.pc = "settled"]
    BY <1>1, <1>9, FinalizeFields DEF f, g
  <2> QED
    BY <1>2, <2>1 DEF f, g
<1>10. CASE fin'[d] = fin[d] \/ fin'[d].pc \in {"waiting", "lost"}
  BY <1>10 DEF f, g
<1> QED
  BY <1>3, <1>4, <1>5, <1>6, <1>7, <1>8, <1>9, <1>10, FinalizeMoves DEF FinalizeStep, f, g

\* What was booked last for a message is the estimate of the reservation that was made last.
LEMMA LatestMoves ==
  ASSUME Sound, [Next]_vars, NEW s \in Sms
  PROVE  /\ \/ ledger'[s].latest = ledger[s].latest
            \/ \E d \in Dispatch : /\ job[d].sms = s /\ ReserveAndQueue(d)
                                   /\ ledger'[s].latest = job[d].est /\ job[d].est \in Nat
         /\ ledger'[s].debit >= ledger[s].debit
<1>0. ledger[s] \in Entries /\ ledger[s].debit \in Nat
  BY EntryFields DEF Sound, BulkTypes
<1>1. CASE money' = money
  BY <1>0, <1>1 DEF money
<1>2. ASSUME NEW d \in Dispatch, ReserveAndQueue(d)
      PROVE  /\ \/ ledger'[s].latest = ledger[s].latest
                \/ /\ job[d].sms = s /\ ReserveAndQueue(d)
                   /\ ledger'[s].latest = job[d].est /\ job[d].est \in Nat
             /\ ledger'[s].debit >= ledger[s].debit
  <2>1. PICK t : t = job[d].sms
    OBVIOUS
  <2>2. /\ job[d].est \in Nat /\ ledger'[t].latest = job[d].est
        /\ ledger'[t].debit = ledger[t].debit
        /\ \A u \in Sms \ {t} : ledger'[u] = ledger[u]
    BY <1>2, <2>1, ReserveBooks
  <2>3. CASE s = t
    BY <1>0, <1>2, <2>1, <2>2, <2>3
  <2>4. CASE s # t
    BY <1>0, <2>2, <2>4
  <2> QED
    BY <2>3, <2>4
<1>3. ASSUME NEW d \in Dispatch, DebitActual(d)
      PROVE  ledger'[s].latest = ledger[s].latest /\ ledger'[s].debit >= ledger[s].debit
  <2>1. PICK t : t = job[d].sms
    OBVIOUS
  <2>2. PICK a : a = fin[d].actual
    OBVIOUS
  <2>3. /\ t \in Sms /\ a \in Nat
        /\ \/ money' = money
           \/ /\ ledger'[t].latest = ledger[t].latest /\ ledger'[t].debit = ledger[t].debit + a
              /\ \A u \in Sms \ {t} : ledger'[u] = ledger[u]
    BY <1>3, <2>1, <2>2, DebitEffect
  <2> QED
    BY <1>0, <2>3 DEF money
<1>4. ASSUME NEW d \in Dispatch, ReleaseRest(d)
      PROVE  ledger'[s].latest = ledger[s].latest /\ ledger'[s].debit >= ledger[s].debit
  <2>1. PICK t : t = job[d].sms
    OBVIOUS
  <2>2. \/ money' = money
        \/ /\ ledger'[t].latest = ledger[t].latest /\ ledger'[t].debit = ledger[t].debit
           /\ \A u \in Sms \ {t} : ledger'[u] = ledger[u]
    BY <1>4, <2>1, ReleaseEffect
  <2> QED
    BY <1>0, <2>2 DEF money
<1> QED
  BY <1>1, <1>2, <1>3, <1>4, MoneyMoves

\* At the start nothing is booked.
LEMMA EstimatesInit ==
  Init => EstimatesBooked
BY DEF Init, EstimatesBooked, Reserving, Found, FreeJob, NoFin

\* Every step keeps the estimates that are booked those of dispatches that have reserved.
LEMMA EstimatesStep ==
  ASSUME Sound, Sound', EstimatesBooked, [Next]_vars
  PROVE  EstimatesBooked'
<1> SUFFICES ASSUME used'.faults = 0
             PROVE  /\ \A s \in Sms : ledger'[s].latest # NoEntry =>
                                        EstimateOf(s, ledger[s].latest)'
                    /\ \A d \in Dispatch :
                         /\ Reserving(d)' => ledger'[job'[d].sms].latest # NoEntry
                         /\ fin'[d].pc \in Found => EstimateOf(job[d].sms, fin[d].est)'
  BY DEF EstimatesBooked
<1>0. used.faults = 0
  <2>1. used.faults \in Nat /\ used'.faults \in Nat /\ used.faults <= used'.faults
    BY FaultsGrow
  <2> QED
    BY <2>1
<1>1. \A s \in Sms : \A n : EstimateOf(s, n) =>
        \E e \in Dispatch : job'[e].sms = s /\ Reserving(e)' /\ job'[e].est = n
  BY ReservingStays DEF EstimateOf
<1>2. ASSUME NEW s \in Sms, ledger'[s].latest # NoEntry
      PROVE  EstimateOf(s, ledger[s].latest)'
  <2>1. CASE ledger'[s].latest = ledger[s].latest
    BY <1>0, <1>1, <1>2, <2>1 DEF EstimatesBooked, EstimateOf
  <2>2. ASSUME NEW d \in Dispatch, job[d].sms = s, ReserveAndQueue(d), ledger'[s].latest = job[d].est
        PROVE  EstimateOf(s, ledger[s].latest)'
    <3>1. job'[d].sms = s /\ job'[d].pc = "committed" /\ job'[d].est = job[d].est
      BY <2>2, ReserveEffect
    <3> QED
      BY <2>2, <3>1 DEF EstimateOf, Reserving
  <2> QED
    BY <2>1, <2>2, LatestMoves
<1>3. ASSUME NEW d \in Dispatch, Reserving(d)'
      PROVE  ledger'[job'[d].sms].latest # NoEntry
  <2>1. job'[d].sms = job[d].sms /\ (Reserving(d) \/ ReserveAndQueue(d))
    BY <1>3, ReservingStays
  <2>2. PICK s : s = job[d].sms
    OBVIOUS
  <2>3. s \in Sms
    BY <2>1, <2>2, Owner, ReserveEffect DEF Reserving
  <2>4. \A n \in Nat : n # NoEntry
    BY DEF NoEntry
  <2>5. CASE Reserving(d)
    BY <1>0, <2>1, <2>2, <2>3, <2>4, <2>5, LatestMoves DEF EstimatesBooked
  <2>6. CASE ReserveAndQueue(d)
    BY <2>1, <2>2, <2>4, <2>6, ReserveBooks
  <2> QED
    BY <2>1, <2>5, <2>6
<1>4. ASSUME NEW d \in Dispatch, fin'[d].pc \in Found
      PROVE  EstimateOf(job[d].sms, fin[d].est)'
  <2>1. PICK s : s = job[d].sms
    OBVIOUS
  <2>2. s \in Sms /\ job'[d].sms = s
    <3>1. job'[d].pc = "enqueued" /\ job'[d].sms \in Sms
      BY <1>4, Owner DEF Found, Sound, BulkTypes, TasksSound, TaskSound, Job
    <3> QED
      BY <2>1, <3>1, ReservingStays DEF Reserving
  <2>3. CASE FindReservation(d)
    <3>1. /\ fin[d] \in Finalize
          /\ fin'[d] = IF ledger[s].latest = NoEntry THEN [fin[d] EXCEPT !.pc = "skipped"]
                       ELSE [fin[d] EXCEPT !.pc = "found", !.est = ledger[s].latest]
      BY <2>1, <2>3, FinalizeFields DEF Sound, BulkTypes
    <3>2. [fin[d] EXCEPT !.pc = "skipped"].pc \notin Found
      BY <3>1 DEF Found, Finalize
    <3>3. ledger[s].latest # NoEntry /\ fin'[d].est = ledger[s].latest
      BY <1>4, <3>1, <3>2 DEF Finalize
    <3> QED
      BY <1>0, <1>1, <2>2, <3>3 DEF EstimatesBooked, EstimateOf
  <2>4. CASE fin[d].pc \in Found /\ fin'[d].est = fin[d].est
    <3>1. EstimateOf(s, fin[d].est)
      BY <1>0, <2>1, <2>4 DEF EstimatesBooked
    <3>2. \E e \in Dispatch : job'[e].sms = s /\ Reserving(e)' /\ job'[e].est = fin[d].est
      BY <1>1, <2>2, <3>1
    <3> QED
      BY <2>2, <2>4, <3>2 DEF EstimateOf
  <2> QED
    BY <1>4, <2>3, <2>4, FinalizeKeeps
<1> QED
  BY <1>2, <1>3, <1>4

\* While no message has become dearer, a dispatch that is debited has cost at most its own
\* estimate, and no share is negative.
LEMMA SharesTyped ==
  ASSUME Sound, EstimatesBooked, used.faults = 0, Steady, NEW d \in Dispatch
  PROVE  /\ Share(d) \in Nat
         /\ Debited(d) => fin[d].est = job[d].est /\ fin[d].actual <= job[d].est
<1>0. /\ job[d].est \in Nat /\ fin[d].est \in Nat /\ fin[d].actual \in Nat
      /\ Debited(d) => Reserving(d) /\ job[d].sms \in Sms
  BY Owner DEF Job, Finalize, Debited, Reserving
<1>1. ASSUME Debited(d)
      PROVE  fin[d].est = job[d].est /\ fin[d].actual <= job[d].est
  <2>1. PICK s \in Sms : s = job[d].sms
    BY <1>0, <1>1
  <2>2. ~Repriced(s) /\ d \in Sends(s)
    BY <1>0, <1>1, <2>1 DEF Steady, Sends
  <2>3. PICK e \in Dispatch : job[e].sms = s /\ Reserving(e) /\ job[e].est = fin[d].est
    BY <1>1, <2>1 DEF EstimatesBooked, EstimateOf, Debited, Found
  <2>4. job[e].est = job[d].est /\ ~(fin[d].actual > job[d].est)
    BY <1>1, <2>2, <2>3 DEF Repriced, Sends
  <2> QED
    BY <1>0, <2>3, <2>4
<1>2. fin[d].pc = "debited" => Debited(d)
  BY DEF Debited
<1> QED
  BY <1>0, <1>1, <1>2 DEF Share

\* A message that has become dearer stays so.
LEMMA SteadyBefore ==
  ASSUME Sound, [Next]_vars, used'.faults = 0, Steady'
  PROVE  Steady
<1> SUFFICES ASSUME NEW s \in Sms, Repriced(s)
             PROVE  FALSE
  BY DEF Steady
<1>1. PICK d, e \in Sends(s) : job[d].est # job[e].est \/ (Debited(e) /\ fin[e].actual > job[e].est)
  BY DEF Repriced
<1>2. ASSUME NEW c \in Sends(s)
      PROVE  /\ c \in Sends(s)' /\ job'[c].est = job[c].est
             /\ Debited(c) => Debited(c)' /\ fin'[c].actual = fin[c].actual
  BY <1>2, ReservingStays DEF Sends
<1>3. Repriced(s)'
  <2>1. d \in Sends(s)' /\ e \in Sends(s)'
    BY <1>1, <1>2
  <2>2. job'[d].est # job'[e].est \/ (Debited(e)' /\ fin'[e].actual > job'[e].est)
    BY <1>1, <1>2
  <2> QED
    BY <2>1, <2>2 DEF Repriced
<1> QED
  BY <1>3 DEF Steady

\* A step that changes one share changes the sum of them by as much.
LEMMA SharesMove ==
  ASSUME \A e \in Dispatch : Share(e) \in Int /\ Share(e)' \in Int, NEW d \in Dispatch,
         \A e \in Dispatch \ {d} : Share(e)' = Share(e)
  PROVE  LET sum == SumFunction([e \in Dispatch |-> Share(e)]) IN
         sum \in Int /\ sum' = sum - Share(d) + Share(d)'
<1> DEFINE f == [e \in Dispatch |-> Share(e)]
           g == [e \in Dispatch |-> Share(e)']
<1>1. /\ f \in [Dispatch -> Int] /\ g \in [Dispatch -> Int]
      /\ \A e \in Dispatch : e # d => g[e] = f[e]
      /\ f[d] = Share(d) /\ g[d] = Share(d)'
  OBVIOUS
<1>2. SumFunction([e \in Dispatch |-> Share(e)])' = SumFunction(g)
  OBVIOUS
<1> HIDE DEF g
<1>3. SumFunction(f) \in Int /\ SumFunction(g) = SumFunction(f) - f[d] + g[d]
  <2> HIDE DEF f
  <2> QED
    BY <1>1, SumStep, SendAssumption
<1> QED
  BY <1>1, <1>2, <1>3

\* What a dispatch adds to the charges of a message.
Charge(d, s) == IF job[d].sms = s /\ Debited(d) THEN fin[d].actual ELSE 0

\* A debit adds to the charges of its message as much as it comes to, no other step adds.
LEMMA ChargesMove ==
  ASSUME Sound, Sound', [Next]_vars, used'.faults = 0, NEW s \in Sms
  PROVE  /\ (\A d \in Dispatch : job[d].sms = s => ~DebitActual(d)) => Charges(s)' = Charges(s)
         /\ \A d \in Dispatch : job[d].sms = s /\ DebitActual(d) =>
              Charges(s)' = Charges(s) + fin[d].actual
<1> DEFINE f == [d \in Dispatch |-> Charge(d, s)]
           g == [d \in Dispatch |-> Charge(d, s)']
<1>1. Charges(s) = SumFunction(f) /\ Charges(s)' = SumFunction(g)
  BY DEF Charges, Charge
<1>2. \A d \in Dispatch : Charge(d, s) \in Int /\ Charge(d, s)' \in Int
  <2>1. \A d \in Dispatch : fin[d].actual \in Int /\ fin'[d].actual \in Int
    BY DEF Sound, BulkTypes, Finalize
  <2> QED
    BY <2>1 DEF Charge
<1>3. ASSUME NEW d \in Dispatch, job[d].sms # s \/ ~DebitActual(d)
      PROVE  Charge(d, s)' = Charge(d, s)
  <2>1. Debited(d) => Debited(d)' /\ fin'[d].actual = fin[d].actual /\ job'[d].sms = job[d].sms
    <3>1. Debited(d) => Reserving(d)
      BY Owner DEF Debited, Reserving
    <3> QED
      BY <3>1, ReservingStays
  <2>2. Debited(d)' => Debited(d) \/ (job[d].sms # s /\ job'[d].sms = job[d].sms)
    <3>1. DebitActual(d) => job' = job
      BY DEF DebitActual
    <3> QED
      BY <1>3, <3>1, DebitedBy
  <2> QED
    BY <2>1, <2>2 DEF Charge
<1>4. f \in [Dispatch -> Int] /\ g \in [Dispatch -> Int]
  BY <1>2
<1>5. \A d \in Dispatch : f[d] = Charge(d, s) /\ g[d] = Charge(d, s)'
  OBVIOUS
<1> HIDE DEF f, g
<1>7. ASSUME \A d \in Dispatch : job[d].sms = s => ~DebitActual(d)
      PROVE  Charges(s)' = Charges(s)
  <2>1. \A d \in Dispatch : f[d] = g[d]
    BY <1>3, <1>5, <1>7
  <2>2. f = g
    BY <1>4, <2>1
  <2> QED
    BY <1>1, <2>2
<1>8. ASSUME NEW d \in Dispatch, job[d].sms = s, DebitActual(d)
      PROVE  Charges(s)' = Charges(s) + fin[d].actual
  <2>1. \A e \in Dispatch : e # d => g[e] = f[e]
    <3>1. ASSUME NEW e \in Dispatch \ {d}
          PROVE  ~DebitActual(e)
      <4>1. fin'[e] = fin[e]
        BY <1>8, DebitEffect
      <4>2. DebitActual(e) => fin[e].pc = "priced" /\ fin'[e].pc = "debited"
        BY DebitEffect
      <4> QED
        BY <4>1, <4>2
    <3> QED
      BY <1>3, <1>5, <3>1
  <2>2. f[d] = 0 /\ g[d] = fin[d].actual
    <3>1. fin[d].pc = "priced" /\ job' = job /\ fin'[d].pc = "debited" /\ fin'[d].actual = fin[d].actual
      BY <1>8, DebitEffect
    <3> QED
      BY <1>5, <1>8, <3>1 DEF Charge, Debited
  <2>3. SumFunction(f) \in Int /\ SumFunction(g) = SumFunction(f) - f[d] + g[d]
    BY <1>4, <2>1, SumStep, SendAssumption
  <2>4. fin[d].actual \in Int
    BY DEF Sound, BulkTypes, Finalize
  <2> QED
    BY <1>1, <2>2, <2>3, <2>4
<1> QED
  BY <1>7, <1>8

\* A share is at most what is reserved.
LEMMA ShareReserved ==
  ASSUME Sound, EstimatesBooked, used.faults = 0, Steady, NEW d \in Dispatch
  PROVE  Share(d) <= SumFunction([e \in Dispatch |-> Share(e)])
<1> DEFINE f == [e \in Dispatch |-> Share(e)]
<1>1. f \in [Dispatch -> Nat] /\ f[d] = Share(d)
  BY SharesTyped
<1> HIDE DEF f
<1>2. f[d] <= SumFunction(f)
  BY <1>1, TermAtMostSum, SendAssumption
<1> QED
  BY <1>1, <1>2 DEF f

\* At the start nobody has a share.
LEMMA SharesInit ==
  Init => SharesHeld
<1> SUFFICES ASSUME Init
             PROVE  SharesHeld
  OBVIOUS
<1> DEFINE f == [d \in Dispatch |-> Share(d)]
<1>1. \A d \in Dispatch : Share(d) = 0 /\ \A s \in Sms : Charge(d, s) = 0
  BY DEF Init, Share, Charge, Reserving, Debited, FreeJob, NoFin
<1>2. f \in [Dispatch -> Int] /\ \A d \in Dispatch : f[d] = 0
  BY <1>1
<1> HIDE DEF f
<1>3. SumFunction(f) = 0
  BY <1>2, SumOfZeros, SendAssumption
<1>4. ASSUME NEW s \in Sms
      PROVE  ledger[s].debit = Charges(s)
  <2> DEFINE g == [d \in Dispatch |-> Charge(d, s)]
  <2>1. g \in [Dispatch -> Int] /\ \A d \in Dispatch : g[d] = 0
    BY <1>1
  <2>2. Charges(s) = SumFunction(g)
    BY DEF Charges, Charge
  <2> HIDE DEF g
  <2> QED
    BY <2>1, <2>2, SumOfZeros, SendAssumption DEF Init
<1> QED
  BY <1>3, <1>4 DEF Init, SharesHeld, f

\* The debit of a dispatch is not refused while no message has become dearer: its share is
\* the estimate, which is at least the cost.
LEMMA DebitShare ==
  ASSUME Sound, Sound', EstimatesBooked, EstimatesBooked', [Next]_vars, used'.faults = 0,
         Steady', reserved = SumFunction([e \in Dispatch |-> Share(e)]),
         NEW d \in Dispatch, NEW s, s = job[d].sms, DebitActual(d)
  PROVE  /\ reserved' - reserved = Share(d)' - Share(d)
         /\ s \in Sms /\ ledger'[s].debit = ledger[s].debit + fin[d].actual
         /\ \A t \in Sms \ {s} : ledger'[t].debit = ledger[t].debit
<1> DEFINE a == fin[d].actual
<1>0. /\ used.faults = 0 /\ Steady /\ reserved \in Int
      /\ s \in Sms /\ ledger[s].debit \in Nat
  <2>1. s \in Sms
    BY DebitEffect
  <2>2. ledger[s] \in Entries
    BY <2>1 DEF Sound, BulkTypes
  <2>3. ledger[s].debit \in Nat
    BY <2>2, EntryFields
  <2> QED
    BY <2>1, <2>3, ReservingStays, SteadyBefore DEF Sound, BulkTypes
<1>1. fin[d].pc = "priced" /\ job' = job /\ a \in Nat
  BY DebitEffect
<1>2. Reserving(d) /\ Share(d) = job[d].est /\ job[d].est \in Nat
  BY <1>1, Owner DEF Reserving, Share, Job
<1>4. /\ fin'[d].pc = "debited" /\ fin'[d].actual = a
      /\ \/ ~(a > 0 /\ reserved >= a) /\ money' = money
         \/ /\ reserved' = reserved - a /\ ledger'[s].debit = ledger[s].debit + a
            /\ \A t \in Sms \ {s} : ledger'[t] = ledger[t]
  BY DebitEffect
<1>5. Debited(d)' /\ Reserving(d)'
  BY <1>1, <1>2, <1>4 DEF Debited, Reserving
<1>6. fin'[d].est = job[d].est /\ a <= job[d].est
  <2>1. ~Repriced(s)' /\ d \in Sends(s)'
    BY <1>0, <1>1, <1>5 DEF Steady, Sends
  <2>2. PICK e \in Dispatch : job'[e].sms = job'[d].sms /\ Reserving(e)' /\ job'[e].est = fin'[d].est
    BY <1>5 DEF EstimatesBooked, EstimateOf, Debited, Found
  <2>3. e \in Sends(s)'
    BY <1>1, <2>2 DEF Sends
  <2>4. job'[e].est = job'[d].est /\ ~(fin'[d].actual > job'[d].est)
    BY <1>5, <2>1, <2>3 DEF Repriced
  <2> HIDE DEF a
  <2> QED
    BY <1>1, <1>2, <1>4, <2>2, <2>4
<1>7. Share(d)' = job[d].est - a
  BY <1>1, <1>4, <1>5, <1>6 DEF Share
<1>8. job[d].est <= reserved
  BY <1>0, <1>2, ShareReserved
<1> HIDE DEF a
<1>9. \/ reserved' = reserved - a /\ ledger'[s].debit = ledger[s].debit + a
         /\ \A t \in Sms \ {s} : ledger'[t] = ledger[t]
      \/ a = 0 /\ reserved' = reserved /\ ledger' = ledger
  <2>1. a <= reserved
    BY <1>0, <1>1, <1>2, <1>6, <1>8
  <2>2. ~(a > 0 /\ reserved >= a) => a = 0
    BY <1>0, <1>1, <2>1
  <2> QED
    BY <1>4, <2>2 DEF money
<1>10. reserved' - reserved = Share(d)' - Share(d)
  BY <1>0, <1>1, <1>2, <1>7, <1>9
<1>11. /\ ledger'[s].debit = ledger[s].debit + a
       /\ \A t \in Sms \ {s} : ledger'[t].debit = ledger[t].debit
  BY <1>0, <1>1, <1>9
<1> QED
  BY <1>0, <1>10, <1>11 DEF a

\* Every step keeps what is reserved the sum of the shares.
LEMMA SharesStep ==
  ASSUME Sound, Sound', EstimatesBooked, EstimatesBooked', SharesHeld, [Next]_vars
  PROVE  SharesHeld'
<1> SUFFICES ASSUME used'.faults = 0, Steady'
             PROVE  /\ reserved' = SumFunction([d \in Dispatch |-> Share(d)])'
                    /\ \A s \in Sms : ledger'[s].debit = Charges(s)'
  BY DEF SharesHeld
<1> DEFINE sum == SumFunction([d \in Dispatch |-> Share(d)])
<1>0. /\ used.faults = 0 /\ Steady
  <2>1. used.faults \in Nat /\ used'.faults \in Nat /\ used.faults <= used'.faults
    BY FaultsGrow
  <2> QED
    BY <2>1, SteadyBefore
<1>1. /\ reserved = sum /\ reserved \in Int /\ reserved' \in Int
      /\ \A s \in Sms : ledger[s].debit = Charges(s)
  BY <1>0 DEF SharesHeld, Sound, BulkTypes
<1>2. \A d \in Dispatch : Share(d) \in Int /\ Share(d)' \in Int
  <2>1. \A d \in Dispatch : /\ job[d].est \in Nat /\ fin[d].est \in Nat /\ fin[d].actual \in Nat
                            /\ job'[d].est \in Nat /\ fin'[d].est \in Nat /\ fin'[d].actual \in Nat
    BY DEF Sound, BulkTypes, Job, Finalize
  <2> QED
    BY <2>1 DEF Share
\* What is debited is what is charged.
<1>3. ASSUME NEW s \in Sms
      PROVE  ledger'[s].debit = Charges(s)'
  <2>1. CASE \E d \in Dispatch : job[d].sms = s /\ DebitActual(d)
    BY <1>1, <2>1, DebitShare, ChargesMove
  <2>2. CASE \A d \in Dispatch : job[d].sms = s => ~DebitActual(d)
    <3>1. Charges(s)' = Charges(s)
      BY <2>2, ChargesMove
    <3>2. ledger'[s].debit = ledger[s].debit
      <4>1. CASE money' = money
        BY <4>1 DEF money
      <4>2. ASSUME NEW d \in Dispatch, ReserveAndQueue(d)
            PROVE  ledger'[s].debit = ledger[s].debit
        BY <4>2, ReserveBooks
      <4>3. ASSUME NEW d \in Dispatch, DebitActual(d)
            PROVE  ledger'[s].debit = ledger[s].debit
        BY <1>1, <2>2, <4>3, DebitShare
      <4>4. ASSUME NEW d \in Dispatch, ReleaseRest(d)
            PROVE  ledger'[s].debit = ledger[s].debit
        BY <4>4, ReleaseEffect DEF money
      <4> QED
        BY <4>1, <4>2, <4>3, <4>4, MoneyMoves
    <3> QED
      BY <1>1, <3>1, <3>2
  <2> QED
    BY <2>1, <2>2
\* A booking changes one share.
<1>4. ASSUME NEW d \in Dispatch, \A e \in Dispatch \ {d} : Share(e)' = Share(e),
             reserved' - reserved = Share(d)' - Share(d)
      PROVE  reserved' = sum'
  <2>1. sum \in Int /\ sum' = sum - Share(d) + Share(d)'
    BY <1>2, <1>4, SharesMove
  <2> HIDE DEF sum
  <2> QED
    BY <1>1, <1>2, <1>4, <2>1
<1>5. ASSUME NEW d \in Dispatch, NEW e \in Dispatch \ {d}, ReserveAndQueue(d) \/ DebitActual(d)
                                                            \/ ReleaseRest(d)
      PROVE  Share(e)' = Share(e)
  <2>1. DispatchStep(d) \/ FinalizeStep(d)
    BY <1>5 DEF DispatchStep, FinalizeStep
  <2>2. job'[e] = job[e] /\ fin'[e] = fin[e]
    BY <2>1, OnlyOwn
  <2> QED
    BY <2>2 DEF Share, Reserving
<1>6. ASSUME NEW d \in Dispatch, ReserveAndQueue(d)
      PROVE  reserved' = sum'
  <2>1. /\ job[d].est \in Nat /\ reserved' = reserved + job[d].est
    BY <1>6, ReserveBooks
  <2>2. /\ job[d].pc = "estimated" /\ job'[d].pc = "committed" /\ job'[d].est = job[d].est
        /\ fin' = fin /\ fin[d].pc = "none"
    BY <1>6, ReserveEffect, Owner
  <2>3. Share(d) = 0 /\ Share(d)' = job[d].est
    BY <2>2 DEF Share, Reserving
  <2>4. reserved' - reserved = Share(d)' - Share(d)
    BY <1>1, <2>1, <2>3
  <2> QED
    BY <1>4, <1>5, <1>6, <2>3, <2>4
<1>7. ASSUME NEW d \in Dispatch, DebitActual(d)
      PROVE  reserved' = sum'
  <2>1. PICK s : s = job[d].sms
    OBVIOUS
  <2>2. reserved' - reserved = Share(d)' - Share(d)
    BY <1>1, <1>7, <2>1, DebitShare
  <2> QED
    BY <1>4, <1>5, <1>7, <2>2
<1>8. ASSUME NEW d \in Dispatch, ReleaseRest(d)
      PROVE  reserved' = sum'
  <2>1. PICK s : s = job[d].sms
    OBVIOUS
  <2> DEFINE a == fin[d].est - fin[d].actual
  <2>2. /\ job' = job /\ fin[d].pc = "debited" /\ fin'[d].pc = "settled"
        /\ \/ a <= 0 /\ money' = money
           \/ a > 0 /\ reserved' = reserved - a
    BY <1>8, <2>1, ReleaseEffect
  <2>3. Reserving(d) /\ Share(d) = a /\ Share(d)' = 0
    BY <2>2, Owner DEF Share, Reserving
  <2>4. Share(d) \in Nat
    BY <1>0, SharesTyped
  <2> HIDE DEF a
  <2>5. reserved' - reserved = Share(d)' - Share(d)
    BY <1>1, <2>2, <2>3, <2>4 DEF money
  <2> QED
    BY <1>4, <1>5, <1>8, <2>3, <2>5
<1>9. ASSUME \A d \in Dispatch : ~ReserveAndQueue(d) /\ ~DebitActual(d) /\ ~ReleaseRest(d)
      PROVE  reserved' = sum'
  <2>1. ASSUME NEW d \in Dispatch
        PROVE  Share(d)' = Share(d)
    <3>1. /\ Reserving(d)' <=> Reserving(d)
          /\ Reserving(d)' => job'[d].est = job[d].est
          /\ fin'[d] = fin[d] \/ (fin[d].pc \in Early /\ fin'[d].pc \in Early)
      <4>1. ~(used'.faults = used.faults + 1)
        BY <1>0
      <4> QED
        BY <1>9, <4>1, TaskProgress
    <3> QED
      BY <3>1 DEF Share, Early
  <2>2. reserved' = reserved
    BY <1>9, MoneyMoves DEF money
  <2>3. [d \in Dispatch |-> Share(d)]' = [d \in Dispatch |-> Share(d)]
    BY <2>1
  <2> QED
    BY <1>1, <2>2, <2>3
<1> HIDE DEF sum
<1>11. reserved' = sum'
  BY <1>6, <1>7, <1>8, <1>9
<1> QED
  BY <1>3, <1>11 DEF sum

-----------------------------------------------------------------------------
(* Sent, and failed *)

\* At the start nothing has failed, and no message has a verdict.
LEMMA RecordsInit ==
  Init => FailuresRecorded /\ AgainMeansFault /\ RowsReserved /\ VerdictsHold
BY DEF Init, FailuresRecorded, AgainMeansFault, RowsReserved, VerdictsHold, Verdict, FreeJob,
       NoBatch, NoFin

\* No event is ever lost.
LEMMA EventsGrow ==
  ASSUME [Next]_vars
  PROVE  event \subseteq event'
<1> USE DEF money, world, provider
<1>1. ASSUME NEW d \in Dispatch, DispatchStep(d) \/ \E s \in Sms : RequestSend(d, s)
      PROVE  event' = event
  BY <1>1 DEF DispatchStep, LoadSms, EstimateCost, RejectDispatch, ReserveAndQueue, RequestSend,
              InsufficientCredits, EnqueueBatches, Publish, RejectAgain
<1>2. ASSUME NEW d \in Dispatch, FinalizeStep(d)
      PROVE  event' = event
  BY <1>2 DEF FinalizeStep, ReadForFinalize, CountRows, RollUp, FindReservation, PriceReached,
              DebitActual, ReleaseRest
<1>3. ASSUME NEW d \in Dispatch, NEW k \in BatchNo, BatchStep(d, k)
      PROVE  event \subseteq event'
  BY <1>3 DEF BatchStep, StartBatch, SendToProvider, SaveRecipient, FlushEvents, RetryBatch,
              EndBatch
<1>4. ASSUME Environment
      PROVE  event \subseteq event'
  BY <1>4 DEF Environment, EditRead, EditSave, OptOut, DeliveryReport, JoinSegment, RefreshPrices,
              EnqueueFails, PublishFails, Publish, Crash
<1>5. CASE UNCHANGED vars
  BY <1>5 DEF vars
<1> QED
  BY <1>1, <1>2, <1>3, <1>4, <1>5 DEF Next

\* The events of a batch are written before it is queued again or ends.
LEMMA BatchEvents ==
  ASSUME Sound, NEW d \in Dispatch, NEW k \in BatchNo, BatchStep(d, k)
  PROVE  LET c == batch[d][k]  b == batch'[d][k] IN
         /\ OneBatch(d, k)
         /\ c.pc = "running" => \A x \in c.events :
                                  x \in event' \/ (b.pc = "running" /\ x \in b.events)
         /\ b.pc = "running" => \A p \in b.transient :
              \/ c.pc = "running" /\ p \in c.transient
              \/ <<job[d].sms, p, "failed">> \in b.events
<1> DEFINE c == batch[d][k]  b == batch'[d][k]
<1>1. CASE StartBatch(d, k)
  <2>1. /\ Working(d, k, job[d].sms) /\ c.pc = "queued" /\ b.transient = c.transient
    BY <1>1, StartEffect
  <2>2. c.transient = {}
    BY <2>1 DEF Working, BatchSound
  <2> QED
    BY <2>1, <2>2 DEF Working
<1>2. ASSUME NEW p \in Phone, NEW o \in Outcomes, SendToProvider(d, k, p, o)
      PROVE  /\ OneBatch(d, k) /\ c.pc = "running" /\ b.pc = "running"
             /\ b.events = c.events /\ b.transient = c.transient
  BY <1>2, SendEffect DEF Working
<1>3. CASE SaveRecipient(d, k)
  <2>1. /\ Working(d, k, job[d].sms) /\ c.pc = "running" /\ b.pc = "running"
        /\ b.transient = (IF c.result = "transient" THEN c.transient \cup {c.cur} ELSE c.transient)
        /\ b.events = c.events \cup {<<job[d].sms, c.cur, IF c.result = "success" THEN "sent"
                                                                            ELSE "failed">>}
    BY <1>3, SaveEffect
  <2> HIDE DEF b, c
  <2>2. \A p \in b.transient : p \in c.transient \/ <<job[d].sms, p, "failed">> \in b.events
    BY <2>1
  <2> QED
    BY <2>1, <2>2 DEF Working, b, c
<1>4. CASE FlushEvents(d, k)
  <2>1. /\ Working(d, k, job[d].sms) /\ c.pc = "running" /\ b.transient = c.transient
        /\ event' = event \cup c.events
    BY <1>4, FlushEffect
  <2> QED
    BY <2>1 DEF Working
<1>5. CASE RetryBatch(d, k)
  <2>1. Working(d, k, job[d].sms) /\ b.pc = "queued" /\ c.events = {}
    BY <1>5, RetryEffect DEF RetryBatch
  <2> QED
    BY <2>1 DEF Working
<1>6. CASE EndBatch(d, k)
  <2>1. Working(d, k, job[d].sms) /\ b.pc = "done" /\ c.events = {}
    BY <1>6, EndEffect DEF EndBatch
  <2> QED
    BY <2>1 DEF Working
<1> QED
  BY <1>1, <1>2, <1>3, <1>4, <1>5, <1>6 DEF BatchStep

\* A dispatch whose batches run is moved by them alone, but for faults.
LEMMA RunningMoves ==
  ASSUME Sound, [Next]_vars, used'.faults = 0, NEW d \in Dispatch, NEW k \in BatchNo,
         batch[d][k].pc = "running" \/ batch'[d][k].pc = "running"
  PROVE  \/ batch'[d] = batch[d] \/ \E l \in BatchNo : BatchStep(d, l)
<1>0. BulkTypes /\ used \in Use
  BY DEF Sound, BulkTypes
<1>1. CASE \/ \E s \in Sms : RequestSend(d, s)
           \/ DispatchStep(d) /\ ~Enqueues(d)
           \/ FinalizeStep(d) \/ EnqueueFails(d)
  BY ZenonT(60), <1>1 DEF RequestSend, DispatchStep, Enqueues, LoadSms, EstimateCost, RejectDispatch,
     RejectAgain, ReserveAndQueue, InsufficientCredits, FinalizeStep, ReadForFinalize, CountRows,
     RollUp, FindReservation, PriceReached, DebitActual, ReleaseRest, EnqueueFails
<1>2. CASE Enqueues(d)
  <2>1. job[d].pc = "committed" /\ \E n, ids, q : PublishedAs(d, n, ids, q)
    BY <1>2, EnqueueEffect
  <2>2. batch[d][k].pc # "running"
    BY <2>1, Owner
  <2>3. PICK n, ids, q : PublishedAs(d, n, ids, q)
    BY <2>1
  <2>4. /\ batch'[d][k] = q[k] /\ n \in Nat
        /\ k <= CeilDiv(n, BatchSize) => q[k].pc \in {"queued", "lost"}
        /\ k > CeilDiv(n, BatchSize) => q[k] = NoBatch
    BY <2>3 DEF PublishedAs
  <2>5. k \in Int /\ CeilDiv(n, BatchSize) \in Int
    BY <2>4, SendAssumption DEF BatchNo, CeilDiv
  <2>6. batch'[d][k].pc # "running"
    BY <2>4, <2>5 DEF NoBatch
  <2> QED
    BY <2>2, <2>6
<1>3. ~Crash(d)
  <2>1. Crash(d) => used' = [used EXCEPT !.faults = used.faults + 1]
    BY DEF Crash
  <2>2. used.faults \in Nat
    BY FaultsGrow
  <2> QED
    BY <1>0, <2>1, <2>2 DEF Use
<1> QED
  BY <1>1, <1>2, <1>3, OwnSteps DEF Enqueues

\* What is recorded stays so.
LEMMA RecordedStays ==
  ASSUME Sound, [Next]_vars, used'.faults = 0, NEW s, NEW p, Recorded(s, p)
  PROVE  Recorded(s, p)'
<1> DEFINE x == <<s, p, "failed">>
<1>1. event \subseteq event'
  BY EventsGrow
<1>2. CASE x \in event
  BY <1>1, <1>2 DEF Recorded
<1>3. ASSUME NEW d \in Dispatch, NEW k \in BatchNo, job[d].sms = s, batch[d][k].pc = "running",
             x \in batch[d][k].events
      PROVE  Recorded(s, p)'
  <2> HIDE DEF x
  <2>1. job'[d].sms = s
    BY <1>3, Owner, TasksKeep
  <2>2. \/ x \in event'
        \/ batch'[d][k].pc = "running" /\ x \in batch'[d][k].events
    <3>1. CASE batch'[d] = batch[d]
      BY <1>3, <3>1
    <3>2. ASSUME NEW l \in BatchNo \ {k}, BatchStep(d, l)
          PROVE  batch'[d][k] = batch[d][k]
      BY <3>2, BatchEvents DEF OneBatch
    <3>3. CASE BatchStep(d, k)
      BY <1>3, <3>3, BatchEvents
    <3> QED
      BY <1>3, <3>1, <3>2, <3>3, RunningMoves
  <2> QED
    BY <2>1, <2>2 DEF Recorded, x
<1> QED
  BY <1>2, <1>3 DEF Recorded

\* How a row comes to read as failed.
LEMMA FailedBy ==
  ASSUME Sound, [Next]_vars, NEW s \in Sms, NEW p \in DOMAIN row'[s], row'[s][p].status \in Failure
  PROVE  \/ p \in DOMAIN row[s] /\ row[s][p].status \in Failure
         \/ \E d \in Dispatch, k \in BatchNo :
              /\ job[d].sms = s
              /\ \/ /\ SaveRecipient(d, k)
                    /\ batch[d][k].cur = p /\ batch[d][k].result = "permanent"
                 \/ EndBatch(d, k) /\ p \in batch[d][k].transient
         \/ <<s, p, "failed">> \in event'
<1> DEFINE Was == p \in DOMAIN row[s] /\ row[s][p].status \in Failure
<1>1. ASSUME NEW d \in Dispatch, ReserveAndQueue(d)
      PROVE  Was
  <2>1. PICK t : t = job[d].sms
    OBVIOUS
  <2>2. /\ DOMAIN row'[t] = DOMAIN row[t] \cup job[d].audience
        /\ \A q \in DOMAIN row[t] : row'[t][q] = row[t][q]
        /\ \A q \in job[d].audience \ DOMAIN row[t] : row'[t][q] = NewRow
        /\ \A u \in Sms \ {t} : row'[u] = row[u]
    BY <1>1, <2>1, ReserveEffect
  <2>3. NewRow.status \notin Failure
    BY DEF NewRow, Failure
  <2> QED
    BY <2>2, <2>3
<1>2. ASSUME NEW d \in Dispatch, NEW k \in BatchNo, SaveRecipient(d, k)
      PROVE  Was \/ (job[d].sms = s /\ batch[d][k].cur = p /\ batch[d][k].result = "permanent")
  <2>1. PICK t, c : t = job[d].sms /\ c = batch[d][k]
    OBVIOUS
  <2>0. /\ batch[d][k].result \in {"success", "permanent", "transient"}
        /\ \A u \in Sms : DOMAIN row'[u] = DOMAIN row[u]
        /\ row'[job[d].sms][batch[d][k].cur].status = ResultStatus(batch[d][k].result)
        /\ \A u \in Sms : \A q \in DOMAIN row[u] :
             u # job[d].sms \/ q # batch[d][k].cur => row'[u][q] = row[u][q]
    BY ZenonT(60), <1>2, SaveEffect
  <2>2. /\ c.result \in {"success", "permanent", "transient"}
        /\ \A u \in Sms : DOMAIN row'[u] = DOMAIN row[u]
        /\ row'[t][c.cur].status = ResultStatus(c.result)
        /\ \A u \in Sms : \A q \in DOMAIN row[u] : u # t \/ q # c.cur => row'[u][q] = row[u][q]
    BY <2>0, <2>1
  <2>3. CASE s = t /\ p = c.cur
    <3>1. ResultStatus(c.result) \in Failure
      BY <2>2, <2>3
    <3>2. c.result = "permanent"
      BY <2>2, <3>1 DEF ResultStatus, Failure
    <3> QED
      BY <2>1, <2>3, <3>2
  <2> QED
    BY <2>2, <2>3
<1>3. ASSUME NEW d \in Dispatch, NEW k \in BatchNo, EndBatch(d, k)
      PROVE  Was \/ (job[d].sms = s /\ p \in batch[d][k].transient)
  <2>1. PICK t, c : t = job[d].sms /\ c = batch[d][k]
    OBVIOUS
  <2>2. /\ \A u \in Sms : DOMAIN row'[u] = DOMAIN row[u]
        /\ \A q \in DOMAIN row[t] : q \notin c.transient => row'[t][q] = row[t][q]
        /\ \A u \in Sms \ {t} : row'[u] = row[u]
    BY <1>3, <2>1, EndEffect
  <2> QED
    BY <2>1, <2>2
<1>4. ASSUME NEW t \in Sms, NEW q \in Phone, OptOut(t, q)
      PROVE  Was
  <2>1. RowReported(t, q) /\ row'[t][q].status = "opted_out"
    BY <1>4, OptOutEffect
  <2> QED
    BY <2>1 DEF RowReported, Failure
<1>5. ASSUME NEW t \in Sms, NEW q \in Phone, NEW v \in Reports, DeliveryReport(t, q, v)
      PROVE  Was \/ <<s, p, "failed">> \in event'
  <2>1. /\ RowReported(t, q) /\ row'[t][q].status \in {"sent", "delivered", "undelivered"}
    BY <1>5, ReportEffect
  <2>2. CASE t = s /\ q = p
    <3>1. row'[s][p].status = "undelivered"
      BY <2>1, <2>2 DEF Failure
    <3>2. BulkTypes /\ p \in DOMAIN row[s] /\ row[s] \in Recipients
      BY <2>1, <2>2 DEF Sound, BulkTypes, RowReported
    <3> DEFINE x == [row[s][p] EXCEPT !.status = ReportedStatus(v)]
    <3>3. x \in Recipient /\ x.status = ReportedStatus(v)
      <4>1. row[s][p] \in Recipient
        BY <3>2, RowsTyped
      <4>2. ReportedStatus(v) \in {"sent", "delivered", "undelivered"}
        BY EnvironmentAssumption DEF ReportedStatus
      <4> QED
        BY <4>1, <4>2 DEF Recipient
    <3>4. row' = [row EXCEPT ![s][p] = x]
      BY <1>5, <2>2 DEF DeliveryReport
    <3> HIDE DEF x
    <3>5. row'[s][p] = x
      BY <3>2, <3>3, <3>4, RowMoves
    <3>6. ReportedStatus(v) = "undelivered"
      BY <3>1, <3>3, <3>5
    <3> QED
      BY <1>5, <2>2, <3>6 DEF DeliveryReport
  <2>3. CASE ~(t = s /\ q = p)
    BY <2>1, <2>3 DEF RowReported
  <2> QED
    BY <2>2, <2>3
<1>6. ASSUME row' = row
      PROVE  Was
  BY <1>6
<1>7. ASSUME NEW d \in Dispatch, NEW k \in BatchNo, NEW q \in Phone, NEW o \in Outcomes,
             SendToProvider(d, k, q, o)
      PROVE  Was
  <2>1. row' = row
    BY <1>7 DEF SendToProvider
  <2> QED
    BY <1>6, <2>1
<1> HIDE DEF Was
<1>8. Was \/ ~Was
  OBVIOUS
<1>9. CASE ~Was
  BY <1>1, <1>2, <1>3, <1>4, <1>5, <1>6, <1>7, <1>9, RowsElsewhere
<1> QED
  BY <1>9 DEF Was

\* A failure is on record before it shows.
LEMMA FailuresStep ==
  ASSUME Sound, Sound', FailuresRecorded, [Next]_vars
  PROVE  FailuresRecorded'
<1> SUFFICES ASSUME used'.faults = 0
             PROVE  /\ \A s \in Sms : \A p \in DOMAIN row'[s] :
                         row'[s][p].status \in Failure => Recorded(s, p)'
                    /\ \A d \in Dispatch, k \in BatchNo :
                         batch'[d][k].pc = "running" =>
                           \A p \in batch'[d][k].transient : Recorded(job[d].sms, p)'
  BY DEF FailuresRecorded
<1>0. used.faults = 0
  <2>1. used.faults \in Nat /\ used'.faults \in Nat /\ used.faults <= used'.faults
    BY FaultsGrow
  <2> QED
    BY <2>1
<1>1. /\ \A s \in Sms : \A p \in DOMAIN row[s] : row[s][p].status \in Failure => Recorded(s, p)'
      /\ \A d \in Dispatch, k \in BatchNo :
           batch[d][k].pc = "running" =>
             \A p \in batch[d][k].transient :
               \E s : s = job[d].sms /\ Recorded(s, p)'
  <2>1. \A s \in Sms : \A p \in DOMAIN row[s] : row[s][p].status \in Failure => Recorded(s, p)
    BY <1>0 DEF FailuresRecorded
  <2>2. \A d \in Dispatch, k \in BatchNo :
           batch[d][k].pc = "running" => \A p \in batch[d][k].transient : Recorded(job[d].sms, p)
    BY <1>0 DEF FailuresRecorded
  <2> QED
    BY <2>1, <2>2, RecordedStays
<1>2. ASSUME NEW d \in Dispatch, NEW k \in BatchNo, NEW p, <<job[d].sms, p, "failed">> \in batch'[d][k].events,
             batch'[d][k].pc = "running", job'[d].sms = job[d].sms
      PROVE  \A s : s = job[d].sms => Recorded(s, p)'
  BY <1>2 DEF Recorded
<1>3. ASSUME NEW d \in Dispatch, NEW k \in BatchNo, NEW p, batch'[d][k].pc = "running",
             p \in batch'[d][k].transient
      PROVE  Recorded(job[d].sms, p)'
  <2>1. PICK s : s = job[d].sms
    OBVIOUS
  <2>2. CASE batch'[d] = batch[d]
    <3>1. batch[d][k].pc = "running" /\ p \in batch[d][k].transient
      BY <1>3, <2>2
    <3>2. Recorded(s, p)' /\ job'[d].sms = s
      BY <1>1, <2>1, <3>1, Owner, TasksKeep
    <3> QED
      BY <3>2 DEF Recorded
  <2>3. ASSUME NEW l \in BatchNo, BatchStep(d, l)
        PROVE  Recorded(job[d].sms, p)'
    <3>1. job'[d].sms = s
      BY <2>1, <2>3, BatchEvents DEF OneBatch
    <3>2. \/ batch[d][k].pc = "running" /\ p \in batch[d][k].transient
          \/ <<s, p, "failed">> \in batch'[d][k].events
      <4>1. CASE l = k
        BY <1>3, <2>1, <2>3, <4>1, BatchEvents
      <4>2. CASE l # k
        BY <1>3, <2>3, <4>2, BatchEvents DEF OneBatch
      <4> QED
        BY <4>1, <4>2
    <3>3. Recorded(s, p)'
      BY <1>1, <1>2, <1>3, <2>1, <3>1, <3>2
    <3> QED
      BY <3>1, <3>3 DEF Recorded
  <2> QED
    BY <1>3, <2>2, <2>3, RunningMoves
<1>4. ASSUME NEW s \in Sms, NEW p \in DOMAIN row'[s], row'[s][p].status \in Failure
      PROVE  Recorded(s, p)'
  <2>1. ASSUME NEW d \in Dispatch, NEW k \in BatchNo, job[d].sms = s, SaveRecipient(d, k),
               batch[d][k].cur = p, batch[d][k].result = "permanent"
        PROVE  Recorded(s, p)'
    <3>1. /\ batch'[d][k].pc = "running" /\ OneBatch(d, k)
          /\ batch'[d][k].events = batch[d][k].events \cup {<<s, p, "failed">>}
      BY <2>1, SaveEffect DEF Working
    <3>2. <<s, p, "failed">> \in batch'[d][k].events /\ job'[d].sms = job[d].sms
      BY <3>1 DEF OneBatch
    <3> QED
      BY <1>2, <2>1, <3>1, <3>2
  <2>2. ASSUME NEW d \in Dispatch, NEW k \in BatchNo, job[d].sms = s, EndBatch(d, k),
               p \in batch[d][k].transient
        PROVE  Recorded(s, p)'
    <3>1. batch[d][k].pc = "running"
      BY <2>2, EndEffect
    <3> QED
      BY <1>1, <2>2, <3>1
  <2>3. CASE <<s, p, "failed">> \in event'
    BY <2>3 DEF Recorded
  <2> QED
    BY <1>1, <1>4, <2>1, <2>2, <2>3, FailedBy
<1> QED
  BY <1>3, <1>4

\* Only a publication that fails is tried again.
LEMMA AgainStep ==
  ASSUME Sound, Sound', AgainMeansFault, [Next]_vars
  PROVE  AgainMeansFault'
<1> SUFFICES ASSUME NEW d \in Dispatch, job'[d].again
             PROVE  used'.faults > 0
  BY DEF AgainMeansFault
<1>0. /\ BulkTypes /\ job[d] \in Job /\ job \in [Dispatch -> Job]
      /\ job[d].again => used.faults > 0
  BY Owner DEF Sound, BulkTypes, AgainMeansFault
<1>1. used.faults \in Nat /\ used'.faults \in Nat /\ used.faults <= used'.faults
  BY FaultsGrow
<1>2. CASE job[d].again
  BY <1>0, <1>1, <1>2
<1>3. CASE ~job[d].again
  <2>1. job'[d] # job[d] /\ job' # job
    BY <1>3
  <2>2. ASSUME RetryDispatch(d)
        PROVE  FALSE
    <3> DEFINE j == job[d]
               x == IF j.tries < DispatchRetries
                      THEN [FreeJob EXCEPT !.pc = "queued", !.sms = j.sms, !.tries = j.tries + 1]
                      ELSE [j EXCEPT !.pc = "failed"]
    <3>1. job' = [job EXCEPT ![d] = x]
      BY <2>2 DEF RetryDispatch
    <3>2. x.again = FALSE \/ x.again = j.again
      BY <1>0 DEF FreeJob, Job
    <3> HIDE DEF x
    <3> QED
      BY <1>0, <1>3, <3>1, <3>2
  <2>3. ~\E s \in Sms : RequestSend(d, s)
    <3>1. ASSUME NEW s \in Sms, RequestSend(d, s)
          PROVE  FALSE
      <4>1. job' = [job EXCEPT ![d] = [job[d] EXCEPT !.pc = "queued", !.sms = s]]
        BY <3>1 DEF RequestSend
      <4> QED
        BY <1>0, <1>3, <4>1 DEF Job
    <3> QED
      BY <3>1
  <2>4. ~LoadSms(d) /\ ~EstimateCost(d) /\ ~RejectDispatch(d) /\ ~RejectAgain(d)
    <3>1. ~LoadSms(d)
      <4> DEFINE x == [job[d] EXCEPT !.pc = "loaded", !.audience = Eligible]
      <4>1. LoadSms(d) => job' = [job EXCEPT ![d] = x]
        BY DEF LoadSms
      <4>2. x.again = job[d].again
        BY <1>0 DEF Job
      <4> HIDE DEF x
      <4> QED
        BY <1>0, <1>3, <4>1, <4>2
    <3>2. ~EstimateCost(d)
      <4> DEFINE n == Estimate(job[d].sms)
                 x == [job[d] EXCEPT !.pc = "estimated", !.counted = Eligible, !.est = n]
      <4>1. EstimateCost(d) => job' = [job EXCEPT ![d] = x]
        BY DEF EstimateCost
      <4> HIDE DEF n
      <4>2. x.again = job[d].again
        BY <1>0 DEF Job
      <4> HIDE DEF x
      <4> QED
        BY <1>0, <1>3, <4>1, <4>2
    <3>3. ~RejectDispatch(d)
      BY <1>0, <1>3 DEF RejectDispatch, Job
    <3> QED
      BY <1>0, <1>3, <3>1, <3>2, <3>3, AgainEffect
  <2>5. ~ReserveAndQueue(d) /\ ~InsufficientCredits(d) /\ ~EnqueueFails(d)
    <3>1. ~ReserveAndQueue(d)
      <4> DEFINE I == QueuedIn(BuildRecipients(job[d].sms, job[d].audience))
                 x == [job[d] EXCEPT !.pc = "committed", !.ids = I]
      <4>1. ReserveAndQueue(d) => job' = [job EXCEPT ![d] = x]
        BY DEF ReserveAndQueue
      <4> HIDE DEF I
      <4>2. x.again = job[d].again
        BY <1>0 DEF Job
      <4> HIDE DEF x
      <4> QED
        BY <1>0, <1>3, <4>1, <4>2
    <3> QED
      BY <2>2, <3>1 DEF InsufficientCredits, EnqueueFails
  <2>6. ~FinalizeStep(d) /\ \A k \in BatchNo : ~BatchStep(d, k)
    BY <2>1, FinalizeFields, BatchEvents DEF OneBatch
  <2>7. ~Crash(d)
    <3>1. Crash(d) => job' = job \/ job' = [job EXCEPT ![d] = [job[d] EXCEPT !.pc = "lost"]]
      BY DEF Crash
    <3> QED
      BY <1>0, <1>3, <2>1, <3>1 DEF Job
  <2>8. Enqueues(d)
    BY <2>1, <2>3, <2>4, <2>5, <2>6, <2>7, OwnSteps DEF DispatchStep, Enqueues
  <2> QED
    BY <1>0, <2>8, EnqueueEffect
<1> QED
  BY <1>2, <1>3

\* Rows are of a message some dispatch has reserved for.
LEMMA ReservedStep ==
  ASSUME Sound, Sound', RowsReserved, [Next]_vars
  PROVE  RowsReserved'
<1> SUFFICES ASSUME used'.faults = 0, NEW s \in Sms, DOMAIN row'[s] # {}
             PROVE  \E d \in Dispatch : job'[d].sms = s /\ Reserving(d)'
  BY DEF RowsReserved
<1>1. ASSUME NEW d \in Dispatch, job[d].sms = s, ReserveAndQueue(d)
      PROVE  job'[d].sms = s /\ Reserving(d)'
  BY <1>1, ReserveEffect DEF Reserving
<1>2. ASSUME DOMAIN row'[s] = DOMAIN row[s]
      PROVE  \E d \in Dispatch : job'[d].sms = s /\ Reserving(d)'
  <2>1. PICK d \in Dispatch : job[d].sms = s /\ Reserving(d)
    <3>1. used.faults = 0
      BY FaultsGrow
    <3> QED
      BY <1>2, <3>1 DEF RowsReserved
  <2> QED
    BY <2>1, ReservingStays
<1> QED
  BY <1>1, <1>2, RowsAdded

\* A verdict that holds stays true while nobody is added.
LEMMA VerdictKept ==
  ASSUME Sound, [Next]_vars, NEW s \in Sms, NEW v, Verdict(v, s), DOMAIN row'[s] = DOMAIN row[s]
  PROVE  Verdict(v, s)'
<1>1. Grows /\ event \subseteq event'
  BY StepGrows, EventsGrow
<1>2. used'.faults = 0 => used.faults = 0
  <2>1. used.faults \in Nat /\ used'.faults \in Nat /\ used.faults <= used'.faults
    BY FaultsGrow
  <2> QED
    BY <2>1
<1> QED
  BY <1>1, <1>2 DEF Verdict, Grows

\* The roll-up of the one dispatch of a message is right when it counts.
LEMMA CountedRight ==
  ASSUME Sound, ClicksCounted, OneClick, Attempts, FailuresRecorded, NEW d \in Dispatch,
         NEW s, s = job[d].sms, CountRows(d)
  PROVE  Verdict(FinalStatus(s), s)
<1>0. s \in Sms /\ fin[d].pc = "read" /\ AllBatchesDone(d)
  <2>1. fin[d].pc = "read"
    BY DEF CountRows
  <2> QED
    BY <2>1, Owner DEF Attempts
<1>1. ASSUME NEW p \in Phone, p \in DOMAIN row[s], FinalStatus(s) = "sent"
      PROVE  accepted[s][p] > 0
  <2>1. RowsWith(s, Success) = DOMAIN row[s]
    BY <1>1 DEF FinalStatus
  <2>2. row[s][p].status \in Success
    BY <1>1, <2>1 DEF RowsWith
  <2> QED
    BY <1>0, <1>1, <2>2 DEF Sound, RowsSound, RowSound
<1>2. ASSUME NEW p \in Phone, p \in DOMAIN row[s], FinalStatus(s) = "failed", used.faults = 0
      PROVE  <<s, p, "failed">> \in event
  <2>1. RowsWith(s, Failure) = DOMAIN row[s]
    BY <1>2 DEF FinalStatus
  <2>2. row[s][p].status \in Failure
    BY <1>2, <2>1 DEF RowsWith
  <2>3. Recorded(s, p)
    BY <1>0, <1>2, <2>2 DEF FailuresRecorded
  <2>4. ASSUME NEW e \in Dispatch, NEW k \in BatchNo, job[e].sms = s, batch[e][k].pc = "running"
        PROVE  FALSE
    <3>1. e = d
      BY <1>0, <2>4, OneDispatch
    <3> QED
      BY <1>0, <2>4, <3>1 DEF AllBatchesDone
  <2> QED
    BY <2>3, <2>4 DEF Recorded
<1> QED
  BY <1>1, <1>2 DEF Verdict

\* What a message, or the count of its rows, says of its recipients stays right.
LEMMA VerdictsStep ==
  ASSUME Sound, Sound', ClicksCounted, Unedited, Attempts, FailuresRecorded, AgainMeansFault,
         RowsReserved, VerdictsHold, [Next]_vars
  PROVE  VerdictsHold'
<1> SUFFICES ASSUME OneClick, NoEdits
             PROVE  /\ \A s \in Sms : Verdict(status[s], s)'
                    /\ \A d \in Dispatch :
                         fin'[d].pc = "counted" => Verdict(fin[d].status, job[d].sms)'
  BY DEF VerdictsHold, OneClick, NoEdits
<1>0. /\ BulkTypes /\ edit.pc = "idle"
      /\ \A s \in Sms : Verdict(status[s], s)
      /\ \A d \in Dispatch : fin[d].pc = "counted" => Verdict(fin[d].status, job[d].sms)
  BY DEF Sound, Unedited, VerdictsHold
<1>1. ASSUME NEW s \in Sms, DOMAIN row'[s] # DOMAIN row[s]
      PROVE  \E d \in Dispatch : job[d].sms = s /\ ReserveAndQueue(d)
  BY <1>1, RowsAdded
<1>2. ASSUME NEW s \in Sms
      PROVE  Verdict(status[s], s)'
  <2>1. ASSUME NEW v, v = status'[s], Verdict(v, s), DOMAIN row'[s] = DOMAIN row[s]
        PROVE  Verdict(status[s], s)'
    <3>1. Verdict(v, s)'
      BY <2>1, VerdictKept
    <3> QED
      BY <2>1, <3>1 DEF Verdict
  <2>2. ASSUME status'[s] \notin {"sent", "failed"}
        PROVE  Verdict(status[s], s)'
    BY <2>2 DEF Verdict
  <2>3. ASSUME NEW d \in Dispatch, ReserveAndQueue(d), job[d].sms = s
        PROVE  status'[s] = "processing"
    BY <1>0, <2>3 DEF ReserveAndQueue, BulkTypes
  <2>4. CASE \E d \in Dispatch : ReserveAndQueue(d) /\ job[d].sms = s
    BY <2>2, <2>3, <2>4
  <2>5. CASE ~\E d \in Dispatch : ReserveAndQueue(d) /\ job[d].sms = s
    <3>1. DOMAIN row'[s] = DOMAIN row[s]
      BY <1>1, <2>5
    <3>2. CASE status'[s] = status[s]
      BY <1>0, <2>1, <3>1, <3>2
    <3>3. CASE status'[s] # status[s]
      <4>1. PICK d \in Dispatch : \/ RejectDispatch(d) \/ RejectAgain(d)
                                 \/ ReserveAndQueue(d) \/ RollUp(d)
        BY <1>0, <3>3, StatusMoves
      <4>2. job[d].sms = s
        BY <1>0, <3>3, <4>1 DEF RejectDispatch, RejectAgain, ReserveAndQueue, RollUp, BulkTypes
      <4>3. CASE RollUp(d)
        <5>1. status'[s] = fin[d].status /\ fin[d].pc = "counted"
          BY <1>0, <4>2, <4>3 DEF RollUp, BulkTypes
        <5>2. Verdict(fin[d].status, s)
          BY <1>0, <4>2, <5>1
        <5> QED
          BY <2>1, <3>1, <5>1, <5>2
      <4>4. CASE RejectDispatch(d)
        <5>1. status'[s] = "failed" /\ job[d].pc \in {"queued", "loaded"}
          BY <1>0, <4>2, <4>4 DEF RejectDispatch, BulkTypes
        <5>2. used.faults = 0 => DOMAIN row[s] = {}
          <6>1. ASSUME NEW e \in Dispatch, job[e].sms = s, Reserving(e)
                PROVE  FALSE
            <7>1. e = d
              BY <4>2, <6>1, OneDispatch
            <7> QED
              BY <5>1, <6>1, <7>1 DEF Reserving
          <6> QED
            BY <6>1 DEF RowsReserved
        <5>3. Verdict("failed", s)
          BY <5>2 DEF Verdict
        <5> QED
          BY <2>1, <3>1, <5>1, <5>3
      <4>5. CASE RejectAgain(d)
        <5>1. status'[s] = "failed" /\ used.faults > 0
          BY <1>0, <4>2, <4>5 DEF RejectAgain, BulkTypes, AgainMeansFault
        <5>2. used.faults # 0
          BY <5>1, FaultsGrow
        <5>3. Verdict("failed", s)
          BY <5>2 DEF Verdict
        <5> QED
          BY <2>1, <3>1, <5>1, <5>3
      <4> QED
        BY <2>5, <4>1, <4>2, <4>3, <4>4, <4>5
    <3> QED
      BY <3>2, <3>3
  <2> QED
    BY <2>4, <2>5
<1>3. ASSUME NEW d \in Dispatch, fin'[d].pc = "counted"
      PROVE  Verdict(fin[d].status, job[d].sms)'
  <2>1. PICK s : s = job[d].sms
    OBVIOUS
  <2>2. ASSUME NEW v, v = fin'[d].status, Verdict(v, s), fin[d].pc # "none"
        PROVE  Verdict(fin[d].status, job[d].sms)'
    <3>1. s \in Sms /\ job'[d].sms = s /\ job[d].pc = "enqueued"
      BY <2>1, <2>2, Owner, TasksKeep
    <3>2. DOMAIN row'[s] = DOMAIN row[s]
      <4>1. ASSUME NEW e \in Dispatch, job[e].sms = s, ReserveAndQueue(e)
            PROVE  FALSE
        <5>1. e = d
          BY <2>1, <3>1, <4>1, OneDispatch
        <5> QED
          BY <3>1, <4>1, <5>1 DEF ReserveAndQueue
      <4> QED
        BY <1>1, <3>1, <4>1
    <3>3. Verdict(v, s)'
      BY <2>2, <3>1, <3>2, VerdictKept
    <3> QED
      BY <2>2, <3>1, <3>3 DEF Verdict
  <2>3. CASE fin'[d] = fin[d]
    <3>1. fin[d].pc = "counted" /\ Verdict(fin[d].status, s)
      BY <1>0, <1>3, <2>1, <2>3
    <3> QED
      BY <2>2, <2>3, <3>1
  <2>4. CASE CountRows(d)
    <3>1. Verdict(FinalStatus(s), s) /\ fin[d].pc = "read"
      BY <2>1, <2>4, CountedRight DEF CountRows
    <3>2. fin'[d].status = FinalStatus(s)
      <4>1. fin[d] \in Finalize /\ fin'[d] = [fin[d] EXCEPT !.pc = "counted", !.status = FinalStatus(s)]
        BY <1>0, <2>1, <2>4, FinalizeFields DEF BulkTypes
      <4> DEFINE v == FinalStatus(s)
      <4>2. fin[d] \in Finalize /\ fin'[d] = [fin[d] EXCEPT !.pc = "counted", !.status = v]
        BY <4>1
      <4> HIDE DEF v
      <4>3. fin'[d].status = v
        BY <4>2 DEF Finalize
      <4> QED
        BY <4>3 DEF v
    <3> QED
      BY <2>2, <3>1, <3>2
  <2> QED
    BY <1>3, <2>3, <2>4, FinalizeKeeps
<1> QED
  BY <1>2, <1>3

-----------------------------------------------------------------------------
(* What a send costs *)

\* More messages cost more.
LEMMA CostGrows ==
  ASSUME BulkTypes, NEW s \in Sms, NEW m \in Nat, NEW n \in Nat, m <= n
  PROVE  Cost(s, m) <= Cost(s, n)
<1>1. price \in Nat /\ segs[s] \in Nat
  BY SendAssumption DEF BulkTypes
<1>2. \A c, k \in Nat : c * (m + k) = c * m + c * k /\ c * k \in Nat /\ c * m \in Nat
  OBVIOUS
<1>3. price * segs[s] \in Nat /\ n - m \in Nat /\ m + (n - m) = n
  BY <1>1
<1> DEFINE c == price * segs[s]  k == n - m
<1>4. c \in Nat /\ k \in Nat /\ m + k = n
  BY <1>3
<1>5. c * n = c * m + c * k /\ c * k \in Nat /\ c * m \in Nat
  <2> HIDE DEF c, k
  <2> QED
    BY <1>2, <1>4
<1>6. c * m <= c * n
  <2> HIDE DEF c, k
  <2> QED
    BY <1>5
<1> QED
  BY <1>6 DEF Cost

\* Without edits and refreshes a message costs the same all the time.
LEMMA PriceKept ==
  ASSUME Sound, Unedited, [Next]_vars, NoEdits, MaxRefreshes = 0
  PROVE  price' = price /\ segs' = segs
<1>0. edit.pc = "idle" /\ ~(used.refreshes < 0)
  BY DEF Unedited, Sound, BulkTypes, Use
<1>1. ASSUME NEW d \in Dispatch, \/ \E s \in Sms : RequestSend(d, s)
                                 \/ DispatchStep(d) \/ FinalizeStep(d)
                                 \/ \E k \in BatchNo : BatchStep(d, k)
      PROVE  price' = price /\ segs' = segs
  BY <1>1 DEF RequestSend, DispatchStep, LoadSms, EstimateCost, RejectDispatch, ReserveAndQueue,
              InsufficientCredits, EnqueueBatches, Publish, RejectAgain, FinalizeStep, ReadForFinalize, CountRows, RollUp, FindReservation, PriceReached,
              DebitActual, ReleaseRest, BatchStep, StartBatch, SendToProvider, SaveRecipient,
              FlushEvents, RetryBatch, EndBatch, world
<1>2. ASSUME Environment
      PROVE  price' = price /\ segs' = segs
  BY <1>0, <1>2 DEF Environment, EditRead, EditSave, OptOut, DeliveryReport, JoinSegment,
                    RefreshPrices, EnqueueFails, PublishFails, Publish, Crash, world
<1> QED
  BY <1>1, <1>2 DEF Next, vars

\* Only an opt-out takes a contact out of the audience.
LEMMA EligibleGrows ==
  ASSUME Sound, [Next]_vars
  PROVE  \/ Eligible \subseteq Eligible'
         \/ \E s \in Sms, p \in Phone : OptOut(s, p)
<1>1. CASE contact' = contact
  BY <1>1 DEF Eligible
<1>2. ASSUME NEW p \in Phone, JoinSegment(p)
      PROVE  Eligible \subseteq Eligible'
  BY <1>2 DEF JoinSegment, Eligible, Sound, BulkTypes
<1>3. ASSUME NEW d \in Dispatch, \/ \E s \in Sms : RequestSend(d, s)
                                 \/ DispatchStep(d) \/ FinalizeStep(d)
                                 \/ \E k \in BatchNo : BatchStep(d, k)
      PROVE  contact' = contact
  BY <1>3 DEF RequestSend, DispatchStep, LoadSms, EstimateCost, RejectDispatch, ReserveAndQueue,
              InsufficientCredits, EnqueueBatches, Publish, RejectAgain, FinalizeStep, ReadForFinalize, CountRows, RollUp, FindReservation, PriceReached,
              DebitActual, ReleaseRest, BatchStep, StartBatch, SendToProvider, SaveRecipient,
              FlushEvents, RetryBatch, EndBatch, world
<1>4. ASSUME \/ \E s \in Sms : EditRead(s)
             \/ \E newStatus \in SmsStatus, newSegs \in Segments : EditSave(newStatus, newSegs)
             \/ \E s \in Sms, p \in Phone, v \in Reports : DeliveryReport(s, p, v)
             \/ RefreshPrices \/ UNCHANGED vars
             \/ \E d \in Dispatch : EnqueueFails(d) \/ PublishFails(d) \/ Crash(d)
      PROVE  contact' = contact
  BY <1>4 DEF EditRead, EditSave, DeliveryReport, RefreshPrices, EnqueueFails, PublishFails, Publish, Crash, vars, world
<1> QED
  BY <1>1, <1>2, <1>3, <1>4 DEF Next, Environment

\* A task that only loses its flag is the same.
SameTask(d) ==
  /\ job'[d].pc = job[d].pc /\ job'[d].sms = job[d].sms /\ job'[d].est = job[d].est
  /\ job'[d].audience = job[d].audience /\ job'[d].counted = job[d].counted

\* How a dispatch comes to its audience and to its estimate, and that it keeps both.
LEMMA TaskBefore ==
  ASSUME Sound, [Next]_vars, NEW d \in Dispatch
  PROVE  \/ SameTask(d)
         \/ job[d].pc # "enqueued" /\ job'[d].pc \in {"queued", "failed", "lost"}
         \/ /\ LoadSms(d) /\ job'[d].pc = "loaded" /\ job[d].sms \in Sms
            /\ job'[d].sms = job[d].sms /\ job'[d].audience = Eligible
         \/ /\ EstimateCost(d) /\ job'[d].pc = "estimated" /\ job[d].pc = "loaded"
            /\ job[d].sms \in Sms /\ job'[d].sms = job[d].sms
            /\ job'[d].audience = job[d].audience /\ job'[d].est = Estimate(job[d].sms)
            /\ job'[d].counted = Eligible
         \/ /\ job[d].pc \in {"estimated", "committed"} /\ job'[d].pc \in {"committed", "enqueued"}
            /\ job'[d].sms = job[d].sms /\ job'[d].est = job[d].est
            /\ job'[d].audience = job[d].audience /\ job'[d].counted = job[d].counted
<1> DEFINE Ends == job[d].pc # "enqueued" /\ job'[d].pc \in {"queued", "failed", "lost"}
           Loads == /\ LoadSms(d) /\ job'[d].pc = "loaded" /\ job[d].sms \in Sms
                    /\ job'[d].sms = job[d].sms /\ job'[d].audience = Eligible
           Estimates == /\ EstimateCost(d) /\ job'[d].pc = "estimated" /\ job[d].pc = "loaded"
                        /\ job[d].sms \in Sms /\ job'[d].sms = job[d].sms
                        /\ job'[d].audience = job[d].audience
                        /\ job'[d].est = Estimate(job[d].sms) /\ job'[d].counted = Eligible
           Goes == /\ job[d].pc \in {"estimated", "committed"}
                   /\ job'[d].pc \in {"committed", "enqueued"}
                   /\ job'[d].sms = job[d].sms /\ job'[d].est = job[d].est
                   /\ job'[d].audience = job[d].audience /\ job'[d].counted = job[d].counted
<1> SUFFICES SameTask(d) \/ Ends \/ Loads \/ Estimates \/ Goes
  BY ZenonT(60)
<1>0. BulkTypes /\ job[d] \in Job /\ job \in [Dispatch -> Job]
  BY DEF Sound, BulkTypes
<1>11. ASSUME NEW x, job' = [job EXCEPT ![d] = x]
       PROVE  job'[d] = x
  BY <1>0, <1>11
<1>1. ASSUME NEW s \in Sms, RequestSend(d, s)
      PROVE  Ends
  <2> DEFINE x == [job[d] EXCEPT !.pc = "queued", !.sms = s]
  <2>1. job[d].pc = "free" /\ job' = [job EXCEPT ![d] = x]
    BY <1>1 DEF RequestSend
  <2>2. x.pc = "queued"
    BY <1>0 DEF Job
  <2> HIDE DEF x
  <2> QED
    BY <1>11, <2>1, <2>2
<1>2. ASSUME LoadSms(d)
      PROVE  Loads
  <2> DEFINE x == [job[d] EXCEPT !.pc = "loaded", !.audience = Eligible]
  <2>1. job[d].pc = "queued" /\ job' = [job EXCEPT ![d] = x]
    BY <1>2 DEF LoadSms
  <2>2. x.pc = "loaded" /\ x.sms = job[d].sms /\ x.audience = Eligible
    BY <1>0 DEF Job
  <2> HIDE DEF x
  <2> QED
    BY <1>2, <1>11, <2>1, <2>2, Owner
<1>3. ASSUME EstimateCost(d)
      PROVE  Estimates
  <2> DEFINE n == Estimate(job[d].sms)
             x == [job[d] EXCEPT !.pc = "estimated", !.counted = Eligible, !.est = n]
  <2>1. job[d].pc = "loaded" /\ job' = [job EXCEPT ![d] = x]
    BY <1>3 DEF EstimateCost
  <2> HIDE DEF n
  <2>2. /\ x.pc = "estimated" /\ x.sms = job[d].sms /\ x.audience = job[d].audience
        /\ x.est = n /\ x.counted = Eligible
    BY <1>0 DEF Job
  <2> HIDE DEF x
  <2>3. job'[d] = x /\ job[d].sms \in Sms
    BY <1>11, <2>1, Owner
  <2> QED
    BY <1>3, <2>1, <2>2, <2>3 DEF n
<1>4. ASSUME RejectDispatch(d)
      PROVE  Ends
  <2> DEFINE x == [job[d] EXCEPT !.pc = "failed"]
  <2>1. job[d].pc \in {"queued", "loaded"} /\ job' = [job EXCEPT ![d] = x]
    BY <1>4 DEF RejectDispatch
  <2>2. x.pc = "failed"
    BY <1>0 DEF Job
  <2> HIDE DEF x
  <2> QED
    BY <1>11, <2>1, <2>2
<1>5. ASSUME ReserveAndQueue(d)
      PROVE  Goes
  <2> DEFINE I == QueuedIn(BuildRecipients(job[d].sms, job[d].audience))
             x == [job[d] EXCEPT !.pc = "committed", !.ids = I]
  <2>1. job[d].pc = "estimated" /\ job' = [job EXCEPT ![d] = x]
    BY <1>5 DEF ReserveAndQueue
  <2> HIDE DEF I
  <2>2. /\ x.pc = "committed" /\ x.sms = job[d].sms /\ x.est = job[d].est
        /\ x.audience = job[d].audience /\ x.counted = job[d].counted
    BY <1>0 DEF Job
  <2> HIDE DEF x
  <2> QED
    BY <1>11, <2>1, <2>2
<1>6. ASSUME Enqueues(d)
      PROVE  Goes
  BY <1>6, EnqueueEffect
<1>7. ASSUME InsufficientCredits(d) \/ EnqueueFails(d)
      PROVE  Ends
  <2>1. RetryDispatch(d) /\ job[d].pc \in {"estimated", "committed"}
    BY <1>7 DEF InsufficientCredits, EnqueueFails
  <2>2. job'[d].pc \in {"queued", "failed"}
    BY <1>0, <2>1, RetryMoves
  <2> QED
    BY <2>1, <2>2
<1>8. ASSUME Crash(d)
      PROVE  SameTask(d) \/ Ends
  <2>1. \/ job' = job
        \/ job[d].pc \in {"loaded", "estimated", "committed"} /\ job' = [job EXCEPT ![d].pc = "lost"]
    BY <1>8 DEF Crash
  <2>2. job' = job \/ (job[d].pc # "enqueued" /\ job'[d].pc = "lost")
    BY <1>0, <2>1 DEF Job
  <2> QED
    BY <2>2 DEF SameTask
<1>9. ASSUME FinalizeStep(d) \/ \E k \in BatchNo : BatchStep(d, k)
      PROVE  SameTask(d)
  <2>1. job' = job
    BY <1>9 DEF FinalizeStep, ReadForFinalize, CountRows, RollUp, FindReservation, PriceReached,
                DebitActual, ReleaseRest, BatchStep, StartBatch, SendToProvider, SaveRecipient,
                FlushEvents, RetryBatch, EndBatch
  <2> QED
    BY <2>1 DEF SameTask
<1>10. ASSUME RejectAgain(d)
       PROVE  SameTask(d)
  BY <1>0, <1>10, AgainEffect DEF SameTask
<1>12. ASSUME job'[d] = job[d]
       PROVE  SameTask(d)
  BY <1>12 DEF SameTask
<1> HIDE DEF Ends, Loads, Estimates, Goes
<1> QED
  BY <1>1, <1>2, <1>3, <1>4, <1>5, <1>6, <1>7, <1>8, <1>9, <1>10, <1>12, OwnSteps
     DEF DispatchStep, Enqueues

\* A chord body skips when it reads, or when it looks for the reservation; it is lost by a fault.
LEMMA NotSkipped ==
  ASSUME Sound, [Next]_vars, used'.faults = used.faults, NEW d \in Dispatch,
         ~ReadForFinalize(d), ~FindReservation(d), fin[d].pc \notin {"skipped", "lost"}
  PROVE  fin'[d].pc \notin {"skipped", "lost"}
<1>0. fin[d] \in Finalize /\ fin \in [Dispatch -> Finalize] /\ used \in Use
  BY DEF Sound, BulkTypes
<1>1. ~Crash(d)
  <2>1. Crash(d) => used' = [used EXCEPT !.faults = used.faults + 1]
    BY DEF Crash
  <2> QED
    BY <1>0, <2>1, FaultsGrow DEF Use
<1>2. ASSUME fin'[d].pc \in {"skipped", "lost"}
      PROVE  FALSE
  <2>1. CASE FinalizeStep(d)
    <3>1. PICK s : s = job[d].sms
      OBVIOUS
    <3>2. PICK f : f = fin[d] /\ f \in Finalize
      BY <1>0
    <3>3. \A x : [f EXCEPT !.pc = x].pc = x
      BY <3>2 DEF Finalize
    <3>4. ~CountRows(d)
      <4>1. PICK v : v = FinalStatus(s)
        OBVIOUS
      <4>2. [f EXCEPT !.pc = "counted", !.status = v].pc = "counted"
        BY <3>2 DEF Finalize
      <4>3. CountRows(d) => fin'[d].pc = "counted"
        BY <3>1, <3>2, <4>1, <4>2, FinalizeFields
      <4> QED
        BY <1>2, <4>3
    <3>5. ~PriceReached(d)
      <4>1. PICK v : v = ActualCost(d)
        OBVIOUS
      <4>2. [f EXCEPT !.pc = "priced", !.actual = v].pc = "priced"
        BY <3>2 DEF Finalize
      <4>3. PriceReached(d) => fin'[d].pc = "priced"
        BY <3>1, <3>2, <4>1, <4>2, FinalizeFields
      <4> QED
        BY <1>2, <4>3
    <3>6. ~RollUp(d) /\ ~DebitActual(d) /\ ~ReleaseRest(d)
      BY <1>2, <3>1, <3>2, <3>3, FinalizeFields
    <3> QED
      BY <2>1, <3>4, <3>5, <3>6 DEF FinalizeStep
  <2>2. CASE \/ \E s \in Sms : RequestSend(d, s)
             \/ DispatchStep(d) /\ ~Enqueues(d)
             \/ \E k \in BatchNo : BatchStep(d, k)
             \/ EnqueueFails(d)
    <3>1. fin' = fin
      BY <2>2 DEF RequestSend, DispatchStep, Enqueues, LoadSms, EstimateCost, RejectDispatch,
                  RejectAgain, ReserveAndQueue, InsufficientCredits, EnqueueFails, BatchStep,
                  StartBatch, SendToProvider, SaveRecipient, FlushEvents, RetryBatch, EndBatch
    <3> QED
      BY <1>2, <3>1
  <2>3. CASE Enqueues(d)
    BY <1>2, <2>3, EnqueueEffect
  <2>4. CASE fin'[d] = fin[d]
    BY <1>2, <2>4
  <2> QED
    BY <1>1, <2>1, <2>2, <2>3, <2>4, OwnSteps DEF Enqueues
<1> QED
  BY <1>2

\* Without faults no batch is lost.
LEMMA BatchesKept ==
  ASSUME Sound, [Next]_vars, used'.faults = 0, NEW d \in Dispatch, NEW k \in BatchNo,
         batch'[d][k].pc = "lost"
  PROVE  batch[d][k].pc = "lost"
<1> SUFFICES ASSUME batch[d][k].pc # "lost"
             PROVE  FALSE
  OBVIOUS
<1>0. BulkTypes /\ batch \in [Dispatch -> [BatchNo -> Batch]] /\ used \in Use
  BY DEF Sound, BulkTypes
<1>1. ASSUME NEW l \in BatchNo, BatchStep(d, l)
      PROVE  FALSE
  <2>1. CASE StartBatch(d, l)
    BY <2>1, StartEffect DEF Working, OneBatch
  <2>2. ASSUME NEW p \in Phone, NEW o \in Outcomes, SendToProvider(d, l, p, o)
        PROVE  FALSE
    <3>1. batch'[d][l].pc = "running" /\ \A m \in BatchNo \ {l} : batch'[d][m] = batch[d][m]
      BY <2>2, SendEffect DEF Working, OneBatch
    <3> QED
      BY <3>1
  <2>3. CASE SaveRecipient(d, l)
    <3>1. PICK s : s = job[d].sms
      OBVIOUS
    <3>2. Working(d, l, s) /\ batch'[d][l].pc = "running"
      BY <2>3, <3>1, SaveEffect
    <3>3. \A m \in BatchNo \ {l} : batch'[d][m] = batch[d][m]
      BY <3>2 DEF Working, OneBatch
    <3> QED
      BY <3>2, <3>3
  <2>4. CASE FlushEvents(d, l)
    BY <2>4, FlushEffect DEF Working, OneBatch
  <2>5. CASE RetryBatch(d, l)
    BY <2>5, RetryEffect DEF Working, OneBatch
  <2>6. CASE EndBatch(d, l)
    <3>1. batch'[d][l].pc = "done" /\ \A m \in BatchNo \ {l} : batch'[d][m] = batch[d][m]
      BY <2>6, EndEffect DEF Working, OneBatch
    <3> QED
      BY <3>1
  <2> QED
    BY <1>1, <2>1, <2>2, <2>3, <2>4, <2>5, <2>6 DEF BatchStep
<1>2. ASSUME Enqueues(d)
      PROVE  FALSE
  <2>0. ~PublishFails(d)
    <3>1. PublishFails(d) => used'.faults > 0
      BY <1>2, EnqueueEffect
    <3> QED
      BY <3>1
  <2>1. EnqueueBatches(d)
    BY <1>2, <2>0 DEF Enqueues
  <2>2. PICK n, ids, q : PublishedAs(d, n, ids, q)
    BY <1>2, EnqueueEffect
  <2> QED
    BY <2>1, <2>2 DEF PublishedAs
<1>3. ~Crash(d)
  <2>1. Crash(d) => used' = [used EXCEPT !.faults = used.faults + 1]
    BY DEF Crash
  <2>2. used.faults \in Nat
    BY FaultsGrow
  <2> QED
    BY <1>0, <2>1, <2>2 DEF Use
<1>4. ASSUME \/ DispatchStep(d) /\ ~Enqueues(d)
             \/ FinalizeStep(d) \/ (\E s \in Sms : RequestSend(d, s)) \/ EnqueueFails(d)
      PROVE  batch'[d] = batch[d]
  BY <1>4 DEF DispatchStep, Enqueues, LoadSms, EstimateCost, RejectDispatch, RejectAgain,
              ReserveAndQueue, InsufficientCredits, FinalizeStep, ReadForFinalize, CountRows,
              RollUp, FindReservation, PriceReached, DebitActual, ReleaseRest, RequestSend,
              EnqueueFails
<1>5. batch'[d] # batch[d]
  OBVIOUS
<1> QED
  BY <1>1, <1>2, <1>3, <1>4, <1>5, OwnSteps DEF Enqueues

\* Without edits the body that finalize_sms_send has read is that of the message.
LEMMA SegsReadInit ==
  Init => SegsRead
BY DEF Init, SegsRead, NoFin, Loaded, Rolled

LEMMA SegsReadStep ==
  ASSUME Sound, Unedited, SegsRead, [Next]_vars
  PROVE  SegsRead'
<1> SUFFICES ASSUME NoEdits, MaxRefreshes = 0, NEW d \in Dispatch, fin'[d].pc \in Loaded
             PROVE  fin'[d].segs = segs'[job'[d].sms]
  BY DEF SegsRead, NoEdits
<1>1. segs' = segs
  BY PriceKept
<1>2. PICK s : s = job[d].sms
  OBVIOUS
<1>3. CASE ReadForFinalize(d)
  <2>1. fin'[d].segs = segs[s] /\ job' = job
    BY <1>2, <1>3, FinalizeFields DEF FinalizeStep
  <2> QED
    BY <1>1, <1>2, <2>1
<1>4. CASE fin[d].pc \in Loaded /\ fin'[d].segs = fin[d].segs
  <2>1. fin[d].segs = segs[s]
    BY <1>2, <1>4 DEF SegsRead
  <2>2. fin[d].pc # "none"
    BY <1>4 DEF Loaded, Rolled
  <2>3. job'[d].sms = s
    BY <1>2, <2>2, Owner, TasksKeep
  <2> QED
    BY <1>1, <1>4, <2>1, <2>3
<1> QED
  BY <1>3, <1>4, FinalizeKeeps

\* The actual cost of a message is at most that of all its rows, and of all it was taken for.
LEMMA ActualBounded ==
  ASSUME Sound, NEW d \in Dispatch, NEW s \in Sms, s = job[d].sms, fin[d].segs = segs[s]
  PROVE  LET taken == {p \in Phone : accepted[s][p] > 0} IN
         /\ ActualCost(d) \in Nat /\ ActualCost(d) <= Cost(s, Cardinality(DOMAIN row[s]))
         /\ Cardinality(taken) \in Nat /\ ActualCost(d) <= Cost(s, Cardinality(taken))
         /\ Cost(s, Cardinality(DOMAIN row[s])) \in Nat /\ Cost(s, Cardinality(taken)) \in Nat
         /\ ActualCost(d) <= Cost(s, Cardinality(Phone))
<1> DEFINE R == RowsWith(s, Success)  D == DOMAIN row[s]  T == {p \in Phone : accepted[s][p] > 0}
<1>1. R \subseteq D /\ D \in SUBSET Phone /\ ActualCost(d) \in Nat /\ BulkTypes
  BY RowsWithTyped, ActualTyped DEF Sound
<1>2. R \subseteq T /\ T \in SUBSET Phone
  <2>1. \A p \in R : p \in Phone /\ row[s][p].status \in Success
    BY <1>1 DEF RowsWith
  <2> QED
    BY <1>1, <2>1 DEF Sound, RowsSound, RowSound
<1>3. ActualCost(d) = Cost(s, Cardinality(R))
  BY DEF ActualCost, Cost
<1> HIDE DEF R, D, T
<1>4. /\ IsFiniteSet(D) /\ IsFiniteSet(T) /\ Cardinality(D) \in Nat /\ Cardinality(T) \in Nat
      /\ R \in SUBSET Phone /\ Phone \in SUBSET Phone
  BY <1>1, <1>2, Finite
<1>5. /\ Cardinality(R) \in Nat /\ Cardinality(R) <= Cardinality(D) /\ Cardinality(R) <= Cardinality(T)
      /\ Cardinality(Phone) \in Nat /\ Cardinality(R) <= Cardinality(Phone)
  BY <1>1, <1>2, <1>4, Finite, FS_Subset
<1>6. /\ ActualCost(d) <= Cost(s, Cardinality(D)) /\ ActualCost(d) <= Cost(s, Cardinality(T))
      /\ ActualCost(d) <= Cost(s, Cardinality(Phone))
  BY <1>1, <1>3, <1>4, <1>5, CostGrows
<1>7. Cost(s, Cardinality(D)) \in Nat /\ Cost(s, Cardinality(T)) \in Nat
  BY <1>1, <1>4, CostTyped
<1> QED
  BY <1>1, <1>4, <1>6, <1>7 DEF D, T

\* At the start everybody is in the audience, and nothing is asked for.
LEMMA CalmInit ==
  Init => CalmSends
BY DEF Init, CalmSends, Calm, Eligible, Reserving, Priced, FreeJob, NoFin, NoBatch

\* Every calm step keeps the audience and the estimates.
LEMMA CalmStep ==
  ASSUME Sound, Sound', Unedited, EstimatesBooked, SegsRead, CalmSends, [Next]_vars
  PROVE  CalmSends'
<1> SUFFICES ASSUME Calm, used'.faults = 0
             PROVE  /\ Eligible' = Phone
                    /\ \A s \in Sms : status'[s] # "cancelled"
                    /\ \A d \in Dispatch :
                         /\ fin'[d].pc = "counted" => fin'[d].status # "cancelled"
                         /\ job'[d].pc = "estimated" \/ Reserving(d)' =>
                              job'[d].est = Full(job[d].sms)'
                         /\ fin'[d].pc \in Priced => fin'[d].actual <= Full(job[d].sms)'
                         /\ fin'[d].pc \notin {"skipped", "lost"}
                         /\ \A k \in BatchNo : batch'[d][k].pc # "lost"
  BY DEF CalmSends
<1>0. used.faults = 0 /\ used'.faults = used.faults
  <2>1. used.faults \in Nat /\ used'.faults \in Nat /\ used.faults <= used'.faults
    BY FaultsGrow
  <2> QED
    BY <2>1
<1>1. /\ Eligible = Phone /\ \A s \in Sms : status[s] # "cancelled"
      /\ \A d \in Dispatch :
           /\ fin[d].pc = "counted" => fin[d].status # "cancelled"
           /\ job[d].pc = "estimated" \/ Reserving(d) => job[d].est = Full(job[d].sms)
           /\ fin[d].pc \in Priced => fin[d].actual <= Full(job[d].sms)
           /\ fin[d].pc \notin {"skipped", "lost"}
           /\ \A k \in BatchNo : batch[d][k].pc # "lost"
  BY <1>0 DEF CalmSends
<1>2. /\ price' = price /\ segs' = segs
      /\ \A s : Full(s)' = Full(s)
  BY PriceKept DEF Calm, Full, Cost
<1>3. Eligible' = Phone
  <2>1. ~(used.optOuts < 0)
    BY DEF Sound, BulkTypes, Use, Calm
  <2>2. ~ \E s \in Sms, p \in Phone : OptOut(s, p)
    BY <2>1 DEF OptOut, Calm
  <2>3. Eligible' \subseteq Phone
    BY DEF Eligible
  <2> QED
    BY <1>1, <2>2, <2>3, EligibleGrows
<1>4. \A s \in Sms : status'[s] # "cancelled"
  <2>1. status \in [Sms -> SmsStatus] /\ edit.pc = "idle"
    BY DEF Sound, BulkTypes, Unedited, Calm
  <2>3. ASSUME NEW d \in Dispatch, \/ RejectDispatch(d) \/ RejectAgain(d)
                                   \/ ReserveAndQueue(d) \/ RollUp(d)
        PROVE  \A s \in Sms : status'[s] # "cancelled"
    <3>1. PICK v \in SmsStatus : v # "cancelled" /\ status' = [status EXCEPT ![job[d].sms] = v]
      <4>1. CASE RollUp(d)
        <5>1. fin[d].status \in SmsStatus /\ fin[d].status # "cancelled"
          BY <1>1, <4>1 DEF RollUp, Sound, BulkTypes, Finalize
        <5> QED
          BY <4>1, <5>1 DEF RollUp
      <4>2. CASE RejectDispatch(d) \/ RejectAgain(d)
        BY <4>2 DEF RejectDispatch, RejectAgain, SmsStatus
      <4>3. CASE ReserveAndQueue(d)
        BY <4>3 DEF ReserveAndQueue, SmsStatus
      <4> QED
        BY <2>3, <4>1, <4>2, <4>3
    <3> QED
      BY <1>1, <2>1, <3>1
  <2> QED
    BY <1>1, <2>1, <2>3, StatusMoves DEF Calm
<1>5. ASSUME NEW d \in Dispatch, job'[d].pc = "estimated" \/ Reserving(d)'
      PROVE  job'[d].est = Full(job'[d].sms)
  <2>1. CASE Reserving(d)'
    <3>1. /\ job'[d].est = job[d].est /\ job'[d].sms = job[d].sms
          /\ Reserving(d) \/ ReserveAndQueue(d)
      BY <2>1, ReservingStays
    <3>2. ReserveAndQueue(d) => job[d].pc = "estimated"
      BY ReserveEffect
    <3> QED
      BY <1>1, <1>2, <3>1, <3>2 DEF Full, Cost
  <2>2. CASE job'[d].pc = "estimated"
    <3>1. /\ job'[d].sms = job[d].sms
          /\ \/ job[d].pc = "estimated" /\ job'[d].est = job[d].est
             \/ job'[d].est = Estimate(job[d].sms)
      BY <2>2, TaskBefore DEF SameTask
    <3>2. \A s : Estimate(s) = Full(s)
      BY <1>1 DEF Estimate, Full
    <3> QED
      BY <1>1, <1>2, <2>2, <3>1, <3>2
  <2> QED
    BY <1>5, <2>1, <2>2
<1>6. ASSUME NEW d \in Dispatch, fin'[d].pc \in Priced
      PROVE  fin'[d].actual <= Full(job'[d].sms)
  <2>1. job[d].sms \in Sms /\ job'[d].sms = job[d].sms
    <3>1. PriceReached(d) \/ fin[d].pc \in Priced
      BY <1>6, FinalizeKeeps
    <3>2. fin[d].pc # "none"
      BY <3>1 DEF PriceReached, Priced
    <3> QED
      BY <3>2, Owner, TasksKeep
  <2>2. CASE PriceReached(d)
    <3>1. PICK s \in Sms : s = job[d].sms
      BY <2>1
    <3>2. PICK n : n = ActualCost(d)
      OBVIOUS
    <3>3. fin[d] \in Finalize /\ fin[d].pc = "found" /\ fin'[d] = [fin[d] EXCEPT !.pc = "priced", !.actual = n]
      BY <2>2, <3>1, <3>2, FinalizeFields DEF Sound, BulkTypes
    <3>4. fin'[d].actual = n
      BY <3>3 DEF Finalize
    <3>5. fin[d].segs = segs[s]
      BY <3>1, <3>3 DEF SegsRead, Loaded, Rolled, Calm
    <3>6. n <= Full(s)
      BY <3>1, <3>2, <3>5, ActualBounded DEF Full
    <3> QED
      BY <1>2, <2>1, <3>1, <3>4, <3>6
  <2>3. CASE fin[d].pc \in Priced /\ fin'[d].actual = fin[d].actual
    BY <1>1, <1>2, <2>1, <2>3
  <2> QED
    BY <1>6, <2>2, <2>3, FinalizeKeeps
<1>7. ASSUME NEW d \in Dispatch
      PROVE  fin'[d].pc \notin {"skipped", "lost"}
  <2>1. PICK s : s = job[d].sms
    OBVIOUS
  <2>2. CASE FindReservation(d)
    <3>1. /\ fin[d] \in Finalize /\ fin[d].pc = "rolled"
          /\ fin'[d] = IF ledger[s].latest = NoEntry THEN [fin[d] EXCEPT !.pc = "skipped"]
                       ELSE [fin[d] EXCEPT !.pc = "found", !.est = ledger[s].latest]
      BY <2>1, <2>2, FinalizeFields DEF Sound, BulkTypes
    <3>2. ledger[s].latest # NoEntry
      BY <1>0, <2>1, <3>1, Owner DEF EstimatesBooked, Reserving
    <3>3. fin'[d].pc = "found"
      BY <3>1, <3>2 DEF Finalize
    <3> QED
      BY <3>3
  <2>3. CASE ReadForFinalize(d)
    <3>1. fin[d].pc = "waiting" /\ s \in Sms /\ fin'[d].pc = IF status[s] = "cancelled" THEN "skipped" ELSE "read"
      BY <2>1, <2>3, FinalizeFields DEF FinalizeStep
    <3> QED
      BY <1>1, <3>1
  <2>4. CASE ~FindReservation(d) /\ ~ReadForFinalize(d)
    BY <1>0, <1>1, <2>4, NotSkipped
  <2> QED
    BY <2>2, <2>3, <2>4
<1>8. \A d \in Dispatch, k \in BatchNo : batch'[d][k].pc # "lost"
  BY <1>1, BatchesKept
<1>10. ASSUME NEW d \in Dispatch, fin'[d].pc = "counted"
       PROVE  fin'[d].status # "cancelled"
  <2>1. PICK s : s = job[d].sms
    OBVIOUS
  <2>2. PICK v : v = FinalStatus(s)
    OBVIOUS
  <2>3. v # "cancelled"
    BY <2>2 DEF FinalStatus
  <2>4. CASE CountRows(d)
    <3>1. fin[d] \in Finalize /\ fin'[d] = [fin[d] EXCEPT !.pc = "counted", !.status = v]
      BY <2>1, <2>2, <2>4, FinalizeFields DEF Sound, BulkTypes
    <3>2. fin'[d].status = v
      BY <3>1 DEF Finalize
    <3> QED
      BY <2>3, <3>2
  <2> QED
    BY <1>1, <1>10, <2>4, FinalizeKeeps
<1>9. \A d \in Dispatch : Full(job[d].sms)' = Full(job'[d].sms)
  BY <1>2 DEF Full, Cost
<1> QED
  BY <1>3, <1>4, <1>5, <1>6, <1>7, <1>8, <1>9, <1>10

\* When nothing fails or changes, all dispatches of a message estimate the same.
LEMMA CalmSteady ==
  ASSUME Sound, CalmSends, Calm, used.faults = 0
  PROVE  Steady
<1>1. ASSUME NEW s \in Sms, NEW d \in Sends(s), NEW e \in Sends(s)
      PROVE  job[d].est = job[e].est /\ ~(Debited(e) /\ fin[e].actual > job[e].est)
  <2>1. /\ d \in Dispatch /\ e \in Dispatch /\ Reserving(d) /\ Reserving(e)
        /\ job[d].sms = s /\ job[e].sms = s
    BY DEF Sends
  <2>2. /\ job[d].est = Full(s) /\ job[e].est = Full(s)
        /\ Debited(e) => fin[e].actual <= Full(s)
    BY <2>1 DEF CalmSends, Debited, Priced
  <2>3. job[e].est \in Nat /\ fin[e].actual \in Nat
    BY <2>1, Owner DEF Job, Finalize
  <2> QED
    BY <2>2, <2>3
<1> QED
  BY <1>1 DEF Steady, Repriced

\* In the end every dispatch has given back its share.
LEMMA CalmEnds ==
  ASSUME Sound, EstimatesBooked, SharesHeld, CalmSends, Calm
  PROVE  NothingStaysReserved
<1> SUFFICES ASSUME TasksEnded, used.faults = 0
             PROVE  reserved = 0
  BY DEF NothingStaysReserved
<1>1. Steady /\ reserved = SumFunction([d \in Dispatch |-> Share(d)])
  BY CalmSteady DEF SharesHeld
<1>2. ASSUME NEW d \in Dispatch
      PROVE  Share(d) = 0
  <2>1. /\ job[d].pc \in {"free", "enqueued", "failed", "lost"}
        /\ fin[d].pc \in {"none", "settled"}
    BY DEF CalmSends, TasksEnded
  <2>2. job[d].pc = "enqueued" => fin[d].pc # "none"
    BY DEF Sound, TasksSound, TaskSound
  <2> QED
    BY <2>1, <2>2 DEF Share, Reserving
<1>3. [d \in Dispatch |-> Share(d)] \in [Dispatch -> Int]
  BY <1>2
<1> QED
  BY <1>1, <1>2, <1>3, SumOfZeros, SendAssumption

\* What a send costs for some contacts is at most what it costs for others and for those
\* that are not among them.
LEMMA CostSplits ==
  ASSUME BulkTypes, NEW s \in Sms, NEW A \in SUBSET Phone, NEW B \in SUBSET Phone
  PROVE  /\ Cost(s, Cardinality(A)) <= Cost(s, Cardinality(B)) + Cost(s, Cardinality(A \ B))
         /\ Cost(s, Cardinality(A)) \in Nat
         /\ A \subseteq B => Cost(s, Cardinality(A \ B)) = 0
<1>1. /\ IsFiniteSet(A) /\ IsFiniteSet(B) /\ A \cap B \subseteq B /\ A \ B \in SUBSET Phone
      /\ A \cap B \in SUBSET Phone /\ B \in SUBSET Phone
  BY Finite
<1>2. PICK a, b, c, i : /\ a = Cardinality(A) /\ b = Cardinality(B) /\ c = Cardinality(A \ B)
                        /\ i = Cardinality(A \cap B)
  OBVIOUS
<1>3. a \in Nat /\ b \in Nat /\ c \in Nat /\ i \in Nat
  BY <1>1, <1>2, Finite
<1>4. c = a - i
  BY <1>1, <1>2, FS_Difference
<1>5. i <= b
  BY <1>1, <1>2, FS_Subset
<1>6. a <= b + c /\ b + c \in Nat
  BY <1>3, <1>4, <1>5
<1>7. Cost(s, a) <= Cost(s, b + c) /\ Cost(s, a) \in Nat
  BY <1>3, <1>6, CostGrows, CostTyped
<1>8. PICK x \in Nat : x = price * segs[s]
  <2>1. price \in Nat /\ segs[s] \in Nat
    BY SendAssumption DEF BulkTypes
  <2> QED
    BY <2>1
<1>9. Cost(s, b + c) = x * (b + c) /\ Cost(s, b) = x * b /\ Cost(s, c) = x * c
  BY <1>8 DEF Cost
<1>10. x * (b + c) = x * b + x * c
  BY <1>3, <1>8
<1>11. ASSUME A \subseteq B
       PROVE  Cost(s, c) = 0
  <2>1. A \ B = {}
    BY <1>11
  <2>2. c = 0
    BY <1>2, <2>1, FS_EmptySet
  <2> QED
    BY <1>8, <1>9, <2>2
<1> QED
  BY <1>2, <1>7, <1>9, <1>10, <1>11

\* What an estimate missed has a price, which stays; nothing is missed when the audience is counted.
LEMMA ExtraTyped ==
  ASSUME BulkTypes, NEW d \in Dispatch, job[d].sms \in Sms
  PROVE  /\ Extra(d) \in Nat
         /\ job[d].audience \subseteq job[d].counted => Extra(d) = 0
<1>1. job[d].audience \in SUBSET Phone /\ job[d].counted \in SUBSET Phone
  BY DEF BulkTypes, Job
<1>2. PICK A, B : A = job[d].audience /\ B = job[d].counted
  OBVIOUS
<1>3. Cardinality(A \ B) \in Nat
  BY <1>1, <1>2, Finite
<1> QED
  BY <1>1, <1>2, <1>3, CostTyped, CostSplits DEF Extra

LEMMA ExtraKept ==
  ASSUME price' = price, segs' = segs, NEW d \in Dispatch, job'[d].sms = job[d].sms,
         job'[d].audience = job[d].audience, job'[d].counted = job[d].counted
  PROVE  Extra(d)' = Extra(d)
BY DEF Extra, Cost

\* The entries of a quiet send go below zero by what its estimate missed at most, and come to nothing.
LEMMA QuietLeft ==
  ASSUME NEW e \in Entries, NEW j \in Job, NEW f \in Finalize, NEW c \in Nat,
         QuietEntry(e, j, f, c), f.pc # "lost"
  PROVE  LET left == e.reservation - e.debit - e.adjustment IN
         /\ left >= - c
         /\ f.pc \notin {"debited", "settled"} => left >= 0
         /\ f.pc = "settled" /\ Sure /\ c = 0 => left = 0
<1>1. /\ j.est \in Nat /\ f.est \in Nat /\ f.actual \in Nat
      /\ e.reservation \in Nat /\ e.debit \in Nat /\ e.adjustment \in Nat
  BY EntryFields DEF Job, Finalize
<1>2. CASE f.pc \notin {"debited", "settled"}
  BY <1>1, <1>2 DEF QuietEntry
<1>3. CASE f.pc = "debited"
  BY <1>1, <1>3 DEF QuietEntry, Found, Priced
<1>4. CASE f.pc = "settled"
  <2>1. /\ e.reservation = j.est /\ f.est = j.est /\ f.actual <= j.est + c
        /\ e.debit \in {0, f.actual} /\ (Sure => e.debit = f.actual)
    BY <1>4 DEF QuietEntry, Found, Priced
  <2>2. CASE f.est > f.actual
    <3>1. e.adjustment = f.est - f.actual
      BY <1>4, <2>2 DEF QuietEntry
    <3> QED
      BY <1>1, <1>4, <2>1, <2>2, <3>1
  <2>3. CASE ~(f.est > f.actual)
    <3>1. e.adjustment = 0
      BY <1>4, <2>3 DEF QuietEntry
    <3> QED
      BY <1>1, <1>4, <2>1, <2>3, <3>1
  <2> QED
    BY <2>2, <2>3
<1> QED
  BY <1>2, <1>3, <1>4

\* The entries of a message change only by its own dispatches.
LEMMA LedgerKept ==
  ASSUME Sound, [Next]_vars, NEW s \in Sms
  PROVE  \/ ledger'[s] = ledger[s]
         \/ \E d \in Dispatch : /\ job[d].sms = s
                                /\ ReserveAndQueue(d) \/ DebitActual(d) \/ ReleaseRest(d)
<1>1. CASE money' = money
  BY <1>1 DEF money
<1>2. ASSUME NEW d \in Dispatch, ReserveAndQueue(d) \/ DebitActual(d) \/ ReleaseRest(d),
             job[d].sms # s
      PROVE  ledger'[s] = ledger[s]
  <2>1. PICK t : t = job[d].sms
    OBVIOUS
  <2>2. money' = money \/ \A u \in Sms \ {t} : ledger'[u] = ledger[u]
    BY <1>2, <2>1, ReserveBooks, DebitEffect, ReleaseEffect
  <2> QED
    BY <1>2, <2>1, <2>2 DEF money
<1> QED
  BY <1>1, <1>2, MoneyMoves

\* A message that nothing is booked for stays so until it is reserved for; opt-outs of it
\* do not reduce the audience before.
LEMMA FreshKept ==
  ASSUME Sound, Quiet, QuietSends, [Next]_vars, NEW s \in Sms, Fresh(s),
         \A d \in Dispatch : job[d].sms = s => ~ReserveAndQueue(d)
  PROVE  Fresh(s)' /\ (Sure => Eligible \subseteq Eligible')
<1>1. DOMAIN row'[s] = {}
  BY RowsAdded DEF Fresh
<1>2. ASSUME NEW d \in Dispatch, job[d].sms = s, DebitActual(d) \/ ReleaseRest(d)
      PROVE  FALSE
  <2>1. fin[d].pc # "none"
    BY <1>2 DEF DebitActual, ReleaseRest
  <2>2. Reserving(d) /\ job[d].est \in Nat
    BY <2>1, Owner DEF Reserving, Job
  <2>3. QuietTask(d)
    BY DEF QuietSends
  <2>4. QuietEntry(ledger[s], job[d], fin[d], Extra(d))
    BY <1>2, <2>2, <2>3 DEF QuietTask
  <2>5. ledger[s].latest = job[d].est
    BY <2>4 DEF QuietEntry
  <2>6. ledger[s].latest = -1
    BY DEF Fresh, NoEntry
  <2> QED
    BY <2>2, <2>5, <2>6
<1>3. ledger'[s] = ledger[s]
  BY <1>2, LedgerKept
<1>4. ASSUME Sure, NEW t \in Sms, NEW p \in Phone, OptOut(t, p)
      PROVE  FALSE
  <2>1. accepted[t][p] > 0 /\ used.optOuts < MaxOptOuts /\ used.optOuts \in 0 .. MaxOptOuts
    BY <1>4 DEF OptOut, Sound, BulkTypes, Use
  <2>2. MaxOptOuts # 0
    BY <2>1
  <2>3. t = s
    BY <1>4, <2>2 DEF Sure
  <2>4. p \in DOMAIN row[s]
    BY <2>1, <2>3 DEF Sound, RowsSound, RowSound
  <2> QED
    BY <2>4 DEF Fresh
<1> QED
  BY <1>1, <1>3, <1>4, EligibleGrows DEF Fresh

\* What is reserved covers the entries of each message.
LEMMA OutstandingCovered ==
  ASSUME Sound, Quiet, Sure, QuietSends, MoneyAgrees, NEW s \in Sms
  PROVE  Outstanding(s) \in Nat /\ Outstanding(s) <= reserved /\ reserved \in Nat
<1>1. ASSUME NEW t \in Sms
      PROVE  Outstanding(t) \in Nat
  <2>1. Outstanding(t) >= 0
    BY DEF QuietSends, QuietMessage
  <2>2. ledger[t] \in Entries
    BY DEF Sound, BulkTypes
  <2> QED
    BY <2>1, <2>2, EntryFields DEF Outstanding
<1>2. [t \in Sms |-> Outstanding(t)] \in [Sms -> Nat]
  BY <1>1
<1> DEFINE f == [t \in Sms |-> Outstanding(t)]
<1>3. f[s] = Outstanding(s) /\ f \in [Sms -> Nat]
  BY <1>2
<1>4. reserved = SumFunction(f)
  BY DEF MoneyAgrees, Held
<1> HIDE DEF f
<1> QED
  BY <1>1, <1>3, <1>4, TermAtMostSum, SendAssumption

\* At the start nothing is booked.
LEMMA QuietInit ==
  Init => QuietSends
<1> SUFFICES ASSUME Init
             PROVE  QuietSends
  OBVIOUS
<1>1. ASSUME NEW s \in Sms
      PROVE  QuietMessage(s)
  <2>1. Fresh(s)
    BY DEF Init, Fresh
  <2>2. Outstanding(s) = 0
    BY DEF Init, Outstanding
  <2> QED
    BY <2>1, <2>2 DEF QuietMessage
<1>2. ASSUME NEW d \in Dispatch
      PROVE  QuietTask(d)
  BY DEF Init, QuietTask, FreeJob, NoFin, Reserving
<1> QED
  BY <1>1, <1>2 DEF QuietSends

\* A dispatch that reserves keeps its audience.
LEMMA ReservedTask ==
  ASSUME Sound, NEW d \in Dispatch, ReserveAndQueue(d)
  PROVE  job'[d].audience = job[d].audience /\ job'[d].counted = job[d].counted
<1>1. PICK ids : job' = [job EXCEPT ![d] = [job[d] EXCEPT !.pc = "committed", !.ids = ids]]
  BY DEF ReserveAndQueue
<1> DEFINE x == [job[d] EXCEPT !.pc = "committed", !.ids = ids]
<1>2. x.audience = job[d].audience /\ x.counted = job[d].counted
  BY DEF Sound, BulkTypes, Job
<1>3. job \in [Dispatch -> Job] /\ job' = [job EXCEPT ![d] = x]
  BY <1>1 DEF Sound, BulkTypes
<1> HIDE DEF x
<1>4. job'[d] = x
  BY <1>3
<1> QED
  BY <1>2, <1>4

\* A dispatch that reserves for a quiet message books its estimate.
LEMMA QuietReserve ==
  ASSUME Sound, Sound', Quiet, QuietSends, price' = price, segs' = segs,
         NEW d \in Dispatch, ReserveAndQueue(d)
  PROVE  QuietTask(d)' /\ fin'[d].pc = "none"
<1>1. PICK s : s = job[d].sms
  OBVIOUS
<1>2. /\ s \in Sms /\ job[d].pc = "estimated" /\ job[d].est \in Nat
      /\ DOMAIN row'[s] = DOMAIN row[s] \cup job[d].audience
      /\ job'[d].pc = "committed" /\ job'[d].sms = s /\ job'[d].est = job[d].est /\ fin' = fin
  BY <1>1, ReserveEffect
<1>3. /\ Fresh(s) /\ job[d].est = Cost(s, Cardinality(job[d].counted))
      /\ (Sure => job[d].audience \subseteq job[d].counted)
  BY <1>1, <1>2 DEF QuietSends, QuietTask
<1>12. job'[d].audience = job[d].audience /\ job'[d].counted = job[d].counted
  BY <1>2, ReservedTask
<1>13. Extra(d)' = Extra(d) /\ Extra(d) \in Nat
  BY <1>1, <1>2, <1>12, ExtraKept, ExtraTyped DEF Sound
<1>4. /\ ledger'[s].reservation = ledger[s].reservation + job[d].est
      /\ ledger'[s].latest = job[d].est /\ ledger'[s].debit = ledger[s].debit
      /\ ledger'[s].adjustment = ledger[s].adjustment
  BY <1>1, ReserveBooks
<1>5. fin'[d].pc = "none"
  BY <1>2, Owner
<1>6. QuietEntry(ledger'[s], job'[d], fin'[d], Extra(d)')
  <2>1. ledger[s].reservation = 0 /\ ledger[s].debit = 0 /\ ledger[s].adjustment = 0
    BY <1>3 DEF Fresh
  <2>2. /\ ledger'[s].reservation = job'[d].est /\ ledger'[s].latest = job'[d].est
        /\ ledger'[s].debit = 0 /\ ledger'[s].adjustment = 0
    BY <1>2, <1>4, <2>1
  <2> QED
    BY <1>5, <2>2 DEF QuietEntry, Found, Priced
<1>7. Cost(s, Cardinality(DOMAIN row[s]))' <= job'[d].est + Extra(d)'
  <2>1. DOMAIN row'[s] = job[d].audience
    BY <1>2, <1>3 DEF Fresh
  <2>2. job[d].audience \in SUBSET Phone /\ job[d].counted \in SUBSET Phone /\ BulkTypes
    BY DEF Sound, BulkTypes, Job
  <2>3. Extra(d) = Cost(s, Cardinality(job[d].audience \ job[d].counted))
    BY <1>1 DEF Extra
  <2>4. Cost(s, Cardinality(job[d].audience)) <= job[d].est + Extra(d)
    BY <1>2, <1>3, <2>2, <2>3, CostSplits
  <2>5. Cost(s, Cardinality(DOMAIN row[s]))' = Cost(s, Cardinality(job[d].audience))
    BY <2>1 DEF Cost
  <2> QED
    BY <1>2, <1>13, <2>4, <2>5
<1>8. Sure => job'[d].audience \subseteq job'[d].counted
  BY <1>3, <1>12
<1> HIDE DEF Extra, QuietEntry, Cost
<1> QED
  BY <1>2, <1>5, <1>6, <1>7, <1>8 DEF QuietTask, Reserving

\* The debit of a quiet send is within its estimate and what that missed; it is made in full
\* when nothing was missed.
LEMMA QuietDebit ==
  ASSUME Sound, Sound', Quiet, QuietSends, MoneyAgrees, NEW d \in Dispatch, DebitActual(d),
         price' = price, segs' = segs
  PROVE  QuietTask(d)' /\ fin'[d].pc = "debited"
<1>0. PICK s : s = job[d].sms
  OBVIOUS
<1>1. PICK a : a = fin[d].actual
  OBVIOUS
<1>2. /\ s \in Sms /\ a \in Nat /\ fin[d].pc = "priced" /\ job' = job
      /\ fin'[d].pc = "debited" /\ fin'[d].actual = a /\ fin'[d].est = fin[d].est
      /\ \/ ~(a > 0 /\ reserved >= a) /\ money' = money
         \/ /\ ledger'[s].reservation = ledger[s].reservation
            /\ ledger'[s].latest = ledger[s].latest
            /\ ledger'[s].debit = ledger[s].debit + a
            /\ ledger'[s].adjustment = ledger[s].adjustment
  BY <1>0, <1>1, DebitEffect
<1>3. Reserving(d) /\ job[d].pc = "enqueued" /\ job[d].est \in Nat /\ fin[d].est \in Nat
  BY <1>2, Owner DEF Reserving, Job, Finalize
<1>4. /\ QuietEntry(ledger[s], job[d], fin[d], Extra(d))
      /\ Cost(s, Cardinality(DOMAIN row[s])) <= job[d].est + Extra(d)
      /\ (Sure => job[d].audience \subseteq job[d].counted)
  BY <1>0, <1>3 DEF QuietSends, QuietTask
<1>5. /\ ledger[s].latest = job[d].est /\ ledger[s].reservation = job[d].est
      /\ ledger[s].debit = 0 /\ ledger[s].adjustment = 0 /\ fin[d].est = job[d].est
      /\ a <= job[d].est + Extra(d)
  BY <1>1, <1>2, <1>4 DEF QuietEntry, Found, Priced
<1>6. Extra(d)' = Extra(d) /\ Extra(d) \in Nat /\ (Sure => Extra(d) = 0)
  BY <1>0, <1>2, <1>4, ExtraKept, ExtraTyped DEF Sound
<1>7. Sure => reserved \in Nat /\ a <= reserved
  <2>1. Outstanding(s) = job[d].est
    BY <1>3, <1>5 DEF Outstanding
  <2>2. Sure => Outstanding(s) <= reserved /\ reserved \in Nat
    BY <1>2, OutstandingCovered
  <2> QED
    BY <1>2, <1>3, <1>5, <1>6, <2>1, <2>2
<1>8. /\ ledger'[s].reservation = job[d].est /\ ledger'[s].latest = job[d].est
      /\ ledger'[s].debit \in {0, a} /\ (Sure => ledger'[s].debit = a)
      /\ ledger'[s].adjustment = 0
  <2>1. CASE ~(a > 0 /\ reserved >= a) /\ money' = money
    <3>1. Sure => a = 0
      BY <1>2, <1>7, <2>1
    <3> QED
      BY <1>5, <2>1, <3>1 DEF money
  <2>2. CASE /\ ledger'[s].reservation = ledger[s].reservation
             /\ ledger'[s].latest = ledger[s].latest
             /\ ledger'[s].debit = ledger[s].debit + a
             /\ ledger'[s].adjustment = ledger[s].adjustment
    BY <1>2, <1>5, <2>2
  <2> QED
    BY <1>2, <2>1, <2>2
<1>9. QuietEntry(ledger'[s], job'[d], fin'[d], Extra(d)')
  BY <1>2, <1>5, <1>6, <1>8 DEF QuietEntry, Found, Priced
<1>10. row' = row
  BY DEF DebitActual
<1>11. Cost(s, Cardinality(DOMAIN row[s]))' <= job'[d].est + Extra(d)'
  BY <1>2, <1>4, <1>6, <1>10 DEF Cost
<1>12. /\ job'[d].pc = "enqueued" /\ job'[d].sms = s
       /\ (Sure => job'[d].audience \subseteq job'[d].counted)
  BY <1>0, <1>2, <1>3, <1>4
<1> HIDE DEF Extra, QuietEntry, Cost
<1> QED
  BY <1>2, <1>9, <1>11, <1>12 DEF QuietTask

\* The release of a quiet send gives back the rest.
LEMMA QuietRelease ==
  ASSUME Sound, Sound', Quiet, QuietSends, NEW d \in Dispatch, ReleaseRest(d),
         price' = price, segs' = segs
  PROVE  QuietTask(d)' /\ fin'[d].pc = "settled"
<1>0. PICK s : s = job[d].sms
  OBVIOUS
<1>1. /\ s \in Sms /\ fin[d].pc = "debited" /\ job' = job
      /\ fin'[d].pc = "settled" /\ fin'[d].est = fin[d].est /\ fin'[d].actual = fin[d].actual
      /\ \/ fin[d].est - fin[d].actual <= 0 /\ money' = money
         \/ /\ fin[d].est - fin[d].actual > 0
            /\ ledger'[s].reservation = ledger[s].reservation
            /\ ledger'[s].latest = ledger[s].latest
            /\ ledger'[s].debit = ledger[s].debit
            /\ ledger'[s].adjustment = ledger[s].adjustment + (fin[d].est - fin[d].actual)
  BY <1>0, ReleaseEffect
<1>2. /\ Reserving(d) /\ job[d].pc = "enqueued" /\ job[d].est \in Nat
      /\ fin[d].est \in Nat /\ fin[d].actual \in Nat
  BY <1>1, Owner DEF Reserving, Job, Finalize
<1>3. /\ QuietEntry(ledger[s], job[d], fin[d], Extra(d))
      /\ Cost(s, Cardinality(DOMAIN row[s])) <= job[d].est + Extra(d)
      /\ (Sure => job[d].audience \subseteq job[d].counted)
  BY <1>0, <1>2 DEF QuietSends, QuietTask
<1>4. /\ ledger[s].latest = job[d].est /\ ledger[s].reservation = job[d].est
      /\ ledger[s].debit \in {0, fin[d].actual} /\ (Sure => ledger[s].debit = fin[d].actual)
      /\ ledger[s].adjustment = 0 /\ fin[d].est = job[d].est
      /\ fin[d].actual <= job[d].est + Extra(d)
  BY <1>1, <1>3 DEF QuietEntry, Found, Priced
<1>5. Extra(d)' = Extra(d)
  BY <1>1, ExtraKept
<1>6. /\ ledger'[s].reservation = job[d].est /\ ledger'[s].latest = job[d].est
      /\ ledger'[s].debit = ledger[s].debit
      /\ ledger'[s].adjustment = IF fin[d].est > fin[d].actual THEN fin[d].est - fin[d].actual
                                                              ELSE 0
  <2>1. CASE fin[d].est - fin[d].actual <= 0 /\ money' = money
    <3>1. ~(fin[d].est > fin[d].actual) /\ ledger' = ledger
      BY <1>2, <2>1 DEF money
    <3> QED
      BY <1>4, <3>1
  <2>2. CASE /\ fin[d].est - fin[d].actual > 0
             /\ ledger'[s].reservation = ledger[s].reservation
             /\ ledger'[s].latest = ledger[s].latest
             /\ ledger'[s].debit = ledger[s].debit
             /\ ledger'[s].adjustment = ledger[s].adjustment + (fin[d].est - fin[d].actual)
    BY <1>2, <1>4, <2>2
  <2> QED
    BY <1>1, <2>1, <2>2
<1>7. QuietEntry(ledger'[s], job'[d], fin'[d], Extra(d)')
  BY <1>1, <1>4, <1>5, <1>6 DEF QuietEntry, Found, Priced
<1>8. row' = row
  BY DEF ReleaseRest
<1>9. Cost(s, Cardinality(DOMAIN row[s]))' <= job'[d].est + Extra(d)'
  BY <1>1, <1>3, <1>5, <1>8 DEF Cost
<1>10. /\ job'[d].pc = "enqueued" /\ job'[d].sms = s
       /\ (Sure => job'[d].audience \subseteq job'[d].counted)
  BY <1>0, <1>1, <1>2, <1>3
<1> HIDE DEF Extra, QuietEntry, Cost
<1> QED
  BY <1>1, <1>7, <1>9, <1>10 DEF QuietTask

\* The chord body of a quiet send finds its reservation, and its cost is within it.
LEMMA QuietBody ==
  ASSUME Sound, Quiet, QuietSends, SegsRead, [Next]_vars, NEW d \in Dispatch,
         Reserving(d), NEW s \in Sms, s = job[d].sms, ledger'[s] = ledger[s],
         job'[d].est = job[d].est, Extra(d)' = Extra(d),
         ~DebitActual(d), ~ReleaseRest(d), ~ReserveAndQueue(d)
  PROVE  QuietEntry(ledger'[s], job'[d], fin'[d], Extra(d)')
<1>1. PICK f, g, c, e : f = fin[d] /\ g = fin'[d] /\ c = Extra(d) /\ e = ledger[s]
  OBVIOUS
<1>2. /\ QuietEntry(e, job[d], f, c)
      /\ Cost(s, Cardinality(DOMAIN row[s])) <= job[d].est + c
  BY <1>1 DEF QuietSends, QuietTask
<1>3. /\ job[d].est \in Nat /\ c \in Nat /\ f \in Finalize
  BY <1>1, Owner, ExtraTyped DEF Job, Sound
<1>4. g.pc \in Found => g.est = job[d].est
  <2>1. CASE FindReservation(d)
    <3>1. f.pc = "rolled" /\ g = IF e.latest = NoEntry THEN [f EXCEPT !.pc = "skipped"]
                                 ELSE [f EXCEPT !.pc = "found", !.est = e.latest]
      BY <1>1, <2>1, FinalizeFields
    <3>2. e.latest = job[d].est /\ e.latest # NoEntry
      BY <1>2, <1>3 DEF QuietEntry, NoEntry
    <3> QED
      BY <1>3, <3>1, <3>2 DEF Finalize
  <2>2. CASE f.pc \in Found /\ g.est = f.est
    BY <1>2, <2>2 DEF QuietEntry
  <2> QED
    BY <1>1, <2>1, <2>2, FinalizeKeeps
<1>5. g.pc \in Priced => g.actual <= job[d].est + c
  <2>1. CASE PriceReached(d)
    <3>1. PICK v : v = ActualCost(d)
      OBVIOUS
    <3>2. f.pc = "found" /\ g = [f EXCEPT !.pc = "priced", !.actual = v]
      BY <1>1, <2>1, <3>1, FinalizeFields
    <3>3. f.segs = segs[s]
      BY <1>1, <3>2 DEF SegsRead, Quiet, Loaded, Rolled
    <3>4. /\ v \in Nat /\ v <= Cost(s, Cardinality(DOMAIN row[s]))
          /\ Cost(s, Cardinality(DOMAIN row[s])) \in Nat
      BY <1>1, <3>1, <3>3, ActualBounded
    <3>5. g.actual = v
      BY <1>3, <3>2 DEF Finalize
    <3> QED
      BY <1>2, <1>3, <3>4, <3>5
  <2>2. CASE f.pc \in Priced /\ g.actual = f.actual
    BY <1>2, <2>2 DEF QuietEntry
  <2> QED
    BY <1>1, <2>1, <2>2, FinalizeKeeps
<1>6. \/ g = f
      \/ f.pc \in Early /\ g.pc \in Early
      \/ g.pc = "lost"
  BY <1>1, TaskProgress
<1>7. /\ e.latest = job[d].est /\ e.reservation = job[d].est
      /\ g.pc \notin {"debited", "settled", "lost"} => e.debit = 0 /\ e.adjustment = 0
      /\ g.pc \in {"debited", "settled"} => e.debit \in {0, g.actual} /\ (Sure => e.debit = g.actual)
      /\ g.pc = "debited" => e.adjustment = 0
      /\ g.pc = "settled" => e.adjustment = IF g.est > g.actual THEN g.est - g.actual ELSE 0
  <2>1. CASE g = f
    BY <1>2, <2>1 DEF QuietEntry
  <2>2. CASE f.pc \in Early /\ g.pc \in Early
    BY <1>2, <2>2 DEF QuietEntry, Early
  <2>3. CASE g.pc = "lost"
    BY <1>2, <2>3 DEF QuietEntry
  <2> QED
    BY <1>6, <2>1, <2>2, <2>3
<1>8. QuietEntry(e, job'[d], g, c)
  BY <1>4, <1>5, <1>7 DEF QuietEntry
<1> QED
  BY <1>1, <1>8

\* What the roll-up has counted is a final status.
LEMMA CountedFinal ==
  ASSUME Sound, Quiet, QuietSends, [Next]_vars, NEW d \in Dispatch, fin'[d].pc = "counted"
  PROVE  fin'[d].status \notin Sendable
<1>1. CASE CountRows(d)
  <2>1. PICK s : s = job[d].sms
    OBVIOUS
  <2>2. PICK v : v = FinalStatus(s)
    OBVIOUS
  <2>3. v \in {"sent", "failed", "partial"}
    BY <2>2 DEF FinalStatus
  <2>4. fin'[d] = [fin[d] EXCEPT !.pc = "counted", !.status = v] /\ fin[d] \in Finalize
    BY <1>1, <2>1, <2>2, FinalizeFields, Owner
  <2>5. fin'[d].status = v
    BY <2>4 DEF Finalize
  <2> QED
    BY <2>3, <2>5 DEF Sendable
<1>2. CASE fin'[d] = fin[d]
  BY <1>2 DEF QuietSends, QuietTask
<1> QED
  BY <1>1, <1>2, FinalizeKeeps

\* Every step of a dispatch keeps it quiet; what it books is accounted for.
LEMMA QuietTaskStep ==
  ASSUME Sound, Sound', ClicksCounted, Quiet, QuietSends, SegsRead, MoneyAgrees, price' = price,
         segs' = segs, [Next]_vars, NEW d \in Dispatch
  PROVE  QuietTask(d)'
<1>0. QuietTask(d) /\ OneClick
  BY DEF QuietSends, Quiet
<1>1. CASE ReserveAndQueue(d) \/ DebitActual(d) \/ ReleaseRest(d)
  BY <1>1, QuietReserve, QuietDebit, QuietRelease
<1>2. CASE ~ReserveAndQueue(d) /\ ~DebitActual(d) /\ ~ReleaseRest(d)
  \* The other dispatches are of other messages.
  <2>1. ASSUME job[d].sms \in Sms, NEW e \in Dispatch, job[e].sms = job[d].sms
        PROVE  ~ReserveAndQueue(e) /\ ~DebitActual(e) /\ ~ReleaseRest(e)
    BY <1>0, <1>2, <2>1, OneDispatch
  <2>0. fin'[d].pc = "counted" => fin'[d].status \notin Sendable
    BY CountedFinal
  <2>2. CASE job'[d].pc \in {"loaded", "estimated"}
    <3>1. \/ SameTask(d) /\ job[d].pc = job'[d].pc
          \/ LoadSms(d) /\ job'[d].pc = "loaded" /\ job'[d].audience = Eligible
          \/ /\ job'[d].pc = "estimated" /\ job[d].pc = "loaded"
             /\ job'[d].audience = job[d].audience /\ job'[d].est = Estimate(job[d].sms)
             /\ job'[d].counted = Eligible
      BY <2>2, TaskBefore DEF SameTask
    <3>2. PICK s \in Sms : s = job[d].sms /\ s = job'[d].sms
      BY <2>2, TaskBefore, Owner DEF SameTask
    <3>3. Fresh(s)
      <4>1. CASE LoadSms(d)
        BY <3>2, <4>1 DEF LoadSms, AssertSendable, QuietSends, QuietMessage
      <4>2. CASE job[d].pc \in {"loaded", "estimated"}
        BY <1>0, <3>2, <4>2 DEF QuietTask
      <4> QED
        BY <2>2, <3>1, <4>1, <4>2
    <3>4. Fresh(s)' /\ (Sure => Eligible \subseteq Eligible')
      BY <2>1, <3>2, <3>3, FreshKept
    <3>5. Sure => job'[d].audience \subseteq Eligible
      BY <1>0, <2>2, <3>1 DEF QuietTask, SameTask
    <3>6. ASSUME job'[d].pc = "estimated"
          PROVE  /\ job'[d].est = Cost(s, Cardinality(job'[d].counted))
                 /\ (Sure => job'[d].audience \subseteq job'[d].counted)
      <4>1. CASE SameTask(d) /\ job[d].pc = job'[d].pc
        BY <1>0, <3>2, <3>6, <4>1 DEF QuietTask, SameTask
      <4>2. CASE /\ job[d].pc = "loaded" /\ job'[d].audience = job[d].audience
                 /\ job'[d].est = Estimate(job[d].sms) /\ job'[d].counted = Eligible
        BY <1>0, <3>2, <4>2 DEF QuietTask, Estimate
      <4> QED
        BY <3>1, <3>6, <4>1, <4>2
    <3>7. ~Reserving(d)'
      BY <2>2 DEF Reserving
    <3>8. job'[d].pc = "estimated" => job'[d].est = Cost(s, Cardinality(job[d].counted))'
      BY <3>6 DEF Cost
    <3>9. Sure => job'[d].audience \subseteq Eligible'
      BY <3>4, <3>5
    <3> HIDE DEF Cost, Extra, Fresh, Eligible
    <3> QED
      BY <2>0, <3>2, <3>4, <3>6, <3>7, <3>8, <3>9 DEF QuietTask
  <2>3. CASE Reserving(d)'
    <3>1. Reserving(d) /\ job'[d].sms = job[d].sms /\ job'[d].est = job[d].est
      BY <1>2, <2>3, TaskProgress
    <3>2. PICK s \in Sms : s = job[d].sms
      BY <3>1, Owner DEF Reserving
    <3>3. job'[d].audience = job[d].audience /\ job'[d].counted = job[d].counted
      <4>1. job'[d].pc \in {"committed", "enqueued"} /\ job[d].pc \in {"committed", "enqueued"}
        BY <2>3, <3>1 DEF Reserving
      <4> QED
        BY <4>1, TaskBefore DEF SameTask
    <3>4. Extra(d)' = Extra(d)
      BY <3>1, <3>3, ExtraKept
    <3>5. /\ (Sure => job[d].audience \subseteq job[d].counted)
          /\ Cost(s, Cardinality(DOMAIN row[s])) <= job[d].est + Extra(d)
      BY <1>0, <3>1, <3>2 DEF QuietTask
    <3>6. ledger'[s] = ledger[s] /\ DOMAIN row'[s] = DOMAIN row[s]
      BY <2>1, <3>2, LedgerKept, RowsAdded
    <3>7. QuietEntry(ledger'[s], job'[d], fin'[d], Extra(d)')
      BY <1>2, <3>1, <3>2, <3>4, <3>6, QuietBody
    <3>8. Cost(s, Cardinality(DOMAIN row[s]))' <= job'[d].est + Extra(d)'
      BY <3>1, <3>4, <3>5, <3>6 DEF Cost
    <3>9. job'[d].pc \notin {"loaded", "estimated"}
      BY <2>3 DEF Reserving
    <3> HIDE DEF Cost, Extra, QuietEntry
    <3> QED
      BY <2>0, <3>1, <3>2, <3>3, <3>5, <3>7, <3>8, <3>9 DEF QuietTask
  <2>4. CASE job'[d].pc \notin {"loaded", "estimated"} /\ ~Reserving(d)'
    BY <2>0, <2>4 DEF QuietTask
  <2> QED
    BY <2>2, <2>3, <2>4
<1> QED
  BY <1>1, <1>2

\* Every step keeps the messages quiet.
LEMMA QuietMessageStep ==
  ASSUME Sound, Sound', ClicksCounted, Unedited, Quiet, QuietSends, SegsRead, MoneyAgrees,
         price' = price, segs' = segs, [Next]_vars, NEW s \in Sms
  PROVE  QuietMessage(s)'
<1>0. QuietMessage(s) /\ NoEdits /\ edit.pc = "idle"
  BY DEF QuietSends, Quiet, Unedited
<1>1. ASSUME status'[s] \in Sendable
      PROVE  Fresh(s)'
  <2> DEFINE Moves(d) == RejectDispatch(d) \/ RejectAgain(d) \/ ReserveAndQueue(d) \/ RollUp(d)
  <2>1. \A d \in Dispatch : job[d].sms = s => ~Moves(d)
    <3>1. SUFFICES ASSUME NEW d \in Dispatch, job[d].sms = s, Moves(d)
                   PROVE  FALSE
      OBVIOUS
    <3>2. fin[d].pc = "counted" => fin[d].status \notin Sendable
      BY DEF QuietSends, QuietTask
    <3>3. status'[s] \notin Sendable
      <4>0. status \in [Sms -> SmsStatus]
        BY DEF Sound, BulkTypes
      <4>1. ASSUME RejectDispatch(d) \/ RejectAgain(d)
            PROVE  status'[s] = "failed"
        <5>1. status' = [status EXCEPT ![s] = "failed"]
          BY <3>1, <4>1 DEF RejectDispatch, RejectAgain
        <5> QED
          BY <4>0, <5>1
      <4>2. ASSUME ReserveAndQueue(d)
            PROVE  status'[s] = "processing"
        <5>1. status' = [status EXCEPT ![s] = "processing"]
          BY <3>1, <4>2 DEF ReserveAndQueue
        <5> QED
          BY <4>0, <5>1
      <4>3. ASSUME RollUp(d)
            PROVE  status'[s] \notin Sendable
        <5>1. status' = [status EXCEPT ![s] = fin[d].status] /\ fin[d].pc = "counted"
          BY <3>1, <4>3 DEF RollUp
        <5> QED
          BY <3>2, <4>0, <5>1
      <4> QED
        BY <3>1, <4>1, <4>2, <4>3 DEF Sendable
    <3> QED
      BY <1>1, <3>3
  <2>2. status'[s] = status[s]
    <3>1. ASSUME NEW d \in Dispatch, job[d].sms # s, Moves(d)
          PROVE  status'[s] = status[s]
      <4>1. \E v : status' = [status EXCEPT ![job[d].sms] = v]
        BY <3>1 DEF RejectDispatch, RejectAgain, ReserveAndQueue, RollUp
      <4> QED
        BY <3>1, <4>1 DEF Sound, BulkTypes
    <3> QED
      BY <1>0, <2>1, <3>1, StatusMoves
  <2>3. Fresh(s)
    BY <1>0, <1>1, <2>2 DEF QuietMessage
  <2> QED
    BY <2>1, <2>3, FreshKept
<1>2. CASE ledger'[s] = ledger[s]
  <2>1. Outstanding(s)' = Outstanding(s)
    BY <1>2 DEF Outstanding
  <2>2. ASSUME NEW d \in Dispatch, job[d].sms = s, job[d].pc = "enqueued"
        PROVE  job'[d].sms = s /\ job'[d].pc = "enqueued" /\ Extra(d)' = Extra(d)
    <3>1. SameTask(d)
      BY <2>2, TaskBefore DEF LoadSms
    <3> QED
      BY <2>2, <3>1, ExtraKept DEF SameTask
  <2> HIDE DEF Extra, Outstanding
  <2>3. \/ Outstanding(s)' >= 0
        \/ \E d \in Dispatch : /\ job'[d].sms = s /\ job'[d].pc = "enqueued"
                               /\ Outstanding(s)' >= - Extra(d)'
    BY <1>0, <2>1, <2>2 DEF QuietMessage
  <2>4. Sure => Outstanding(s)' >= 0
    BY <1>0, <2>1 DEF QuietMessage
  <2> QED
    BY <1>1, <2>3, <2>4 DEF QuietMessage
<1>3. ASSUME NEW d \in Dispatch, job[d].sms = s,
             ReserveAndQueue(d) \/ DebitActual(d) \/ ReleaseRest(d)
      PROVE  QuietMessage(s)'
  <2>1. /\ QuietTask(d)' /\ fin'[d].pc # "lost" /\ Reserving(d)' /\ job'[d].sms = s
        /\ fin'[d].pc \in {"debited", "settled"} => job'[d].pc = "enqueued"
    <3>1. CASE ReserveAndQueue(d)
      BY <1>3, <3>1, QuietReserve, ReserveEffect DEF Reserving
    <3>2. CASE DebitActual(d) \/ ReleaseRest(d)
      <4>1. job' = job /\ fin[d].pc # "none"
        BY <3>2 DEF DebitActual, ReleaseRest
      <4>2. Reserving(d)' /\ job'[d].pc = "enqueued"
        BY <4>1, Owner DEF Reserving
      <4> QED
        BY <1>3, <3>2, <4>1, <4>2, QuietDebit, QuietRelease
    <3> QED
      BY <1>3, <3>1, <3>2
  <2>2. /\ QuietEntry(ledger'[s], job'[d], fin'[d], Extra(d)')
        /\ (Sure => job'[d].audience \subseteq job'[d].counted)
    BY <2>1 DEF QuietTask
  <2>3. ledger'[s] \in Entries /\ job'[d] \in Job /\ fin'[d] \in Finalize /\ BulkTypes'
    BY DEF Sound, BulkTypes
  <2>4. Extra(d)' \in Nat /\ (Sure => Extra(d)' = 0)
    <3>1. job'[d].audience = job[d].audience /\ job'[d].counted = job[d].counted
      BY <1>3, ReservedTask DEF DebitActual, ReleaseRest
    <3>2. Extra(d)' = Extra(d)
      BY <1>3, <2>1, <3>1, ExtraKept
    <3> QED
      BY <1>3, <2>2, <3>1, <3>2, ExtraTyped DEF Sound
  <2>5. /\ Outstanding(s)' >= - Extra(d)'
        /\ fin'[d].pc \notin {"debited", "settled"} => Outstanding(s)' >= 0
    BY <2>1, <2>2, <2>3, <2>4, QuietLeft DEF Outstanding
  <2>6. Sure => Outstanding(s)' >= 0
    BY <2>4, <2>5
  <2>7. \/ Outstanding(s)' >= 0
        \/ \E e \in Dispatch : /\ job'[e].sms = s /\ job'[e].pc = "enqueued"
                               /\ Outstanding(s)' >= - Extra(e)'
    BY <2>1, <2>5
  <2> HIDE DEF Extra, Outstanding
  <2> QED
    BY <1>1, <2>6, <2>7 DEF QuietMessage
<1> QED
  BY <1>2, <1>3, LedgerKept

\* Quiet sends stay quiet.
LEMMA QuietStep ==
  ASSUME Sound, Sound', ClicksCounted, Unedited, SegsRead, QuietSends, MoneyAgrees, [Next]_vars
  PROVE  QuietSends'
<1> SUFFICES ASSUME Quiet
             PROVE  /\ \A s \in Sms : QuietMessage(s)'
                    /\ \A d \in Dispatch : QuietTask(d)'
  BY DEF QuietSends, Quiet, OneClick, NoEdits
<1>1. price' = price /\ segs' = segs
  BY PriceKept DEF Quiet
<1> QED
  BY <1>1, QuietTaskStep, QuietMessageStep

\* The phones the provider took a message for become no fewer, and cost no less.
LEMMA TakenGrows ==
  ASSUME Sound, Sound', [Next]_vars, price' = price, segs' = segs, NEW s \in Sms
  PROVE  /\ Cost(s, Cardinality(Taken(s))) \in Nat /\ Cost(s, Cardinality(Taken(s)))' \in Nat
         /\ Cost(s, Cardinality(Taken(s))) <= Cost(s, Cardinality(Taken(s)))'
<1>1. /\ Taken(s) \subseteq Taken(s)' /\ Taken(s) \in SUBSET Phone /\ Taken(s)' \in SUBSET Phone
      /\ BulkTypes
  BY StepGrows DEF Grows, Sound, Taken
<1>2. PICK A, B : A = Taken(s) /\ B = Taken(s)'
  OBVIOUS
<1>3. IsFiniteSet(B) /\ Cardinality(A) \in Nat /\ Cardinality(B) \in Nat /\ A \subseteq B
  BY <1>1, <1>2, Finite
<1>4. Cardinality(A) <= Cardinality(B)
  BY <1>3, FS_Subset
<1>5. /\ Cost(s, Cardinality(A)) \in Nat /\ Cost(s, Cardinality(B)) \in Nat
      /\ Cost(s, Cardinality(A)) <= Cost(s, Cardinality(B))
  BY <1>1, <1>3, <1>4, CostGrows, CostTyped
<1>6. Cost(s, Cardinality(Taken(s)))' = Cost(s, Cardinality(B))
  BY <1>2 DEF Cost
<1> QED
  BY <1>2, <1>5, <1>6

\* At the start nobody is charged.
LEMMA FairInit ==
  Init => ChargesFair
<1> SUFFICES ASSUME Init
             PROVE  ChargesFair
  OBVIOUS
<1>1. ASSUME NEW s \in Sms
      PROVE  FairlyCharged(s)
  <2>1. Taken(s) \in SUBSET Phone /\ BulkTypes
    BY TypesInit DEF Taken
  <2>2. ledger[s].debit = 0
    BY DEF Init
  <2>3. Cardinality(Taken(s)) \in Nat
    BY <2>1, Finite
  <2>4. Cost(s, Cardinality(Taken(s))) \in Nat
    BY <2>1, <2>3, CostTyped
  <2>5. ledger[s].debit <= Cost(s, Cardinality(Taken(s))) /\ ~(ledger[s].debit > 0)
    BY <2>2, <2>4
  <2> QED
    BY <2>5 DEF FairlyCharged
<1>2. \A d \in Dispatch : FairlyPriced(d)
  BY DEF Init, FairlyPriced, NoFin, Priced
<1> QED
  BY <1>1, <1>2 DEF ChargesFair

\* A dispatch that has debited stays so, and the message its own.
LEMMA ChargedStays ==
  ASSUME Sound, Sound', [Next]_vars, NEW d \in Dispatch, Charged(d)
  PROVE  Charged(d)' /\ job'[d].sms = job[d].sms
<1>1. fin[d].pc # "priced" /\ job[d].pc = "enqueued"
  BY Owner DEF Charged
<1>2. ~ReserveAndQueue(d) /\ ~DebitActual(d)
  BY <1>1 DEF ReserveAndQueue, DebitActual
<1>3. CASE ReleaseRest(d)
  BY <1>3, ReleaseEffect DEF Charged
<1>4. CASE ~ReleaseRest(d)
  <2>1. Charged(d)'
    BY <1>2, <1>4, TaskProgress DEF Charged, Early
  <2>2. job'[d].pc = "enqueued"
    BY <2>1, Owner DEF Sound, TasksSound, TaskSound, Charged
  <2>3. Reserving(d)'
    BY <2>2 DEF Reserving
  <2> QED
    BY <1>2, <1>4, <2>1, <2>3, TaskProgress
<1> QED
  BY <1>3, <1>4

\* What finalize_sms_send works out is the price of phones the provider took the message for.
LEMMA PricedStep ==
  ASSUME Sound, Sound', SegsRead, ChargesFair, [Next]_vars, OneClick, NoEdits, MaxRefreshes = 0,
         price' = price, segs' = segs, NEW d \in Dispatch
  PROVE  FairlyPriced(d)'
<1>1. SUFFICES ASSUME fin'[d].pc \in Priced
               PROVE  fin'[d].actual <= Cost(job[d].sms, Cardinality(Taken(job[d].sms)))'
  BY DEF FairlyPriced
<1>2. fin'[d].pc # "none" /\ fin'[d] \in Finalize /\ fin[d] \in Finalize
  BY <1>1 DEF Priced, Sound, BulkTypes
<1>3. fin[d].pc # "none"
  BY <1>1, FinalizeKeeps, FinalizeFields DEF Priced
<1>4. PICK s \in Sms : s = job[d].sms /\ s = job'[d].sms
  BY <1>3, Owner, TasksKeep
<1>5. PICK c, e : /\ c = Cost(s, Cardinality(Taken(s))) /\ e = Cost(s, Cardinality(Taken(s)))'
                  /\ c \in Nat /\ e \in Nat /\ c <= e
  BY TakenGrows
<1>6. CASE PriceReached(d)
  <2>1. PICK v : v = ActualCost(d)
    OBVIOUS
  <2>2. fin[d].pc = "found" /\ fin'[d] = [fin[d] EXCEPT !.pc = "priced", !.actual = v]
    BY <1>4, <1>6, <2>1, FinalizeFields
  <2>3. fin[d].segs = segs[s]
    BY <1>4, <2>2 DEF SegsRead, Loaded, Rolled
  <2>4. v \in Nat /\ v <= c
    BY <1>4, <1>5, <2>1, <2>3, ActualBounded DEF Taken
  <2>5. fin'[d].actual = v
    BY <1>2, <2>2 DEF Finalize
  <2>6. v <= e
    BY <1>5, <2>4
  <2> QED
    BY <1>4, <1>5, <2>5, <2>6
<1>7. CASE fin[d].pc \in Priced /\ fin'[d].actual = fin[d].actual
  <2>1. fin[d].actual <= c /\ fin[d].actual \in Nat
    BY <1>2, <1>4, <1>5, <1>7 DEF ChargesFair, FairlyPriced, Finalize
  <2>2. fin[d].actual <= e
    BY <1>5, <2>1
  <2> QED
    BY <1>4, <1>5, <1>7, <2>2
<1> QED
  BY <1>1, <1>6, <1>7, FinalizeKeeps

\* Every step charges a message for what the provider took, once.
LEMMA FairStep ==
  ASSUME Sound, Sound', ClicksCounted, Unedited, SegsRead, ChargesFair, [Next]_vars
  PROVE  ChargesFair'
<1> SUFFICES ASSUME OneClick, NoEdits, MaxRefreshes = 0
             PROVE  /\ \A s \in Sms : FairlyCharged(s)'
                    /\ \A d \in Dispatch : FairlyPriced(d)'
  BY DEF ChargesFair, OneClick, NoEdits
<1>0. price' = price /\ segs' = segs
  BY PriceKept
<1>1. \A d \in Dispatch : FairlyPriced(d)'
  BY <1>0, PricedStep
<1>2. ASSUME NEW s \in Sms
      PROVE  FairlyCharged(s)'
  <2>1. PICK c, e : /\ c = Cost(s, Cardinality(Taken(s))) /\ e = Cost(s, Cardinality(Taken(s)))'
                    /\ c \in Nat /\ e \in Nat /\ c <= e
    BY <1>0, TakenGrows
  <2>2. /\ ledger[s].debit <= c
        /\ ledger[s].debit > 0 => \E d \in Dispatch : job[d].sms = s /\ Charged(d)
    BY <2>1 DEF ChargesFair, FairlyCharged
  <2>3. ASSUME ledger'[s].debit <= e,
               ledger'[s].debit > 0 => \E d \in Dispatch : job'[d].sms = s /\ Charged(d)'
        PROVE  FairlyCharged(s)'
    BY <2>1, <2>3 DEF FairlyCharged
  <2>4. ledger[s].debit \in Nat
    BY EntryFields DEF Sound, BulkTypes
  <2>5. ASSUME ledger'[s].debit = ledger[s].debit
        PROVE  FairlyCharged(s)'
    <3>1. ledger'[s].debit <= e
      BY <2>1, <2>2, <2>4, <2>5
    <3>2. ledger'[s].debit > 0 => \E d \in Dispatch : job'[d].sms = s /\ Charged(d)'
      BY <2>2, <2>5, ChargedStays
    <3> QED
      BY <2>3, <3>1, <3>2
  <2>6. ASSUME NEW d \in Dispatch, job[d].sms = s, DebitActual(d),
               ledger'[s].debit # ledger[s].debit
        PROVE  FairlyCharged(s)'
    <3>1. /\ fin[d].pc = "priced" /\ job' = job /\ fin'[d].pc = "debited"
          /\ ledger'[s].debit = ledger[s].debit + fin[d].actual /\ fin[d].actual \in Nat
      BY <2>6, DebitEffect DEF money
    <3>2. fin[d].actual <= c
      BY <2>1, <2>6, <3>1 DEF ChargesFair, FairlyPriced, Priced
    <3>3. ledger[s].debit = 0
      <4>1. \A f \in Dispatch : job[f].sms = s => f = d
        BY <2>6, OneDispatch
      <4>2. ~(ledger[s].debit > 0)
        BY <2>2, <3>1, <4>1 DEF Charged
      <4> QED
        BY <2>4, <4>2
    <3>4. ledger'[s].debit <= e
      BY <2>1, <3>1, <3>2, <3>3
    <3>5. job'[d].sms = s /\ Charged(d)'
      BY <2>6, <3>1 DEF Charged
    <3> QED
      BY <2>3, <3>4, <3>5
  <2>7. ASSUME NEW d \in Dispatch, job[d].sms = s, ReserveAndQueue(d) \/ ReleaseRest(d)
        PROVE  ledger'[s].debit = ledger[s].debit
    <3>1. CASE ReserveAndQueue(d)
      BY <2>7, <3>1, ReserveBooks
    <3>2. CASE ReleaseRest(d)
      BY <2>7, <3>2, ReleaseEffect DEF money
    <3> QED
      BY <2>7, <3>1, <3>2
  <2> QED
    BY <2>5, <2>6, <2>7, LedgerKept
<1> QED
  BY <1>1, <1>2

\* What a body of g segments costs at price p for any contacts is an amount.
LEMMA PriceIsAmount ==
  ASSUME NEW p \in Prices, NEW g \in Segments, NEW n \in Nat, n <= Cardinality(Phone)
  PROVE  p * g * n \in Amounts
<1>1. PICK m : m = Cardinality(Phone)
  OBVIOUS
<1>2. PICK x : x = p * g
  OBVIOUS
<1>3. m \in Nat /\ x \in Nat
  <2>1. p \in Nat /\ g \in Nat
    BY SendAssumption
  <2> QED
    BY <1>1, <1>2, <2>1, Finite
<1>4. x * n \in Nat /\ x * m \in Nat /\ x * n <= x * m
  BY <1>1, <1>3
<1>5. x * n \in 0 .. x * m
  BY <1>4
<1> DEFINE R == {0 .. p2 * g2 * Cardinality(Phone) : p2 \in Prices, g2 \in Segments}
<1>6. 0 .. x * m \in R
  BY <1>1, <1>2
<1>7. Amounts = UNION R
  BY DEF Amounts
<1> HIDE DEF R
<1> QED
  BY <1>2, <1>5, <1>6, <1>7

\* What any message costs for any contacts is an amount.
LEMMA CostInAmounts ==
  ASSUME BulkTypes, NEW s \in Sms, NEW n \in Nat, n <= Cardinality(Phone)
  PROVE  Cost(s, n) \in Amounts
<1>1. price \in Prices /\ segs[s] \in Segments
  BY DEF BulkTypes
<1> QED
  BY <1>1, PriceIsAmount DEF Cost

\* What is less than an amount is an amount.
LEMMA LessIsAmount ==
  ASSUME NEW a \in Amounts, NEW b \in Nat, b <= a
  PROVE  b \in Amounts
<1> DEFINE R == {0 .. p * g * Cardinality(Phone) : p \in Prices, g \in Segments}
<1>0. Amounts = UNION R
  BY DEF Amounts
<1>1. PICK p \in Prices, g \in Segments : a \in 0 .. p * g * Cardinality(Phone)
  <2>1. PICK T \in R : a \in T
    <3> HIDE DEF R
    <3> QED
      BY <1>0
  <2>2. PICK p \in Prices, g \in Segments : T = 0 .. p * g * Cardinality(Phone)
    OBVIOUS
  <2> QED
    BY <2>1, <2>2
<1>2. PICK c : c = p * g * Cardinality(Phone)
  OBVIOUS
<1>3. c \in Int
  <2>1. Cardinality(Phone) \in Nat /\ p \in Nat /\ g \in Nat
    BY Finite, SendAssumption
  <2>2. p * g \in Nat
    BY <2>1
  <2> QED
    BY <1>2, <2>1, <2>2
<1>4. a \in 0 .. c
  BY <1>1, <1>2
<1>5. b \in 0 .. c
  BY <1>3, <1>4
<1>6. 0 .. c \in R
  BY <1>2
<1> HIDE DEF R
<1> QED
  BY <1>0, <1>5, <1>6

\* At the start no amount is booked.
LEMMA AmountsInit ==
  Init => AmountsBooked
BY DEF Init, AmountsBooked, FreeJob, NoFin, Loaded, Rolled, Found, Priced

\* The chord body works out an amount, for the body it has read and the entry it has found.
LEMMA AmountsOfBody ==
  ASSUME Sound, Sound', AmountsBooked, [Next]_vars, NEW d \in Dispatch
  PROVE  /\ fin'[d].pc \in Loaded => fin'[d].segs \in Segments
         /\ fin'[d].pc \in Found => fin'[d].est \in Amounts
         /\ fin'[d].pc \in Priced => fin'[d].actual \in Amounts
<1>1. PICK f, g, s : f = fin[d] /\ g = fin'[d] /\ s = job[d].sms
  OBVIOUS
<1>2. /\ f.pc \in Loaded => f.segs \in Segments
      /\ f.pc \in Found => f.est \in Amounts
      /\ f.pc \in Priced => f.actual \in Amounts
      /\ f \in Finalize
  BY <1>1, Owner DEF AmountsBooked
<1>3. FinalizeStep(d) => s \in Sms
  BY <1>1, FinalizeFields
<1>4. g.pc \in Loaded => g.segs \in Segments
  <2>1. CASE ReadForFinalize(d)
    BY <1>1, <1>3, <2>1, FinalizeFields DEF FinalizeStep, Sound, BulkTypes
  <2> QED
    BY <1>1, <1>2, <2>1, FinalizeKeeps
<1>5. g.pc \in Found => g.est \in Amounts
  <2>1. CASE FindReservation(d) /\ g.pc \in Found
    <3>1. PICK n : n = ledger[s].latest
      OBVIOUS
    <3>2. g = IF n = NoEntry THEN [f EXCEPT !.pc = "skipped"]
              ELSE [f EXCEPT !.pc = "found", !.est = n]
      BY <1>1, <2>1, <3>1, FinalizeFields
    <3>3. n # NoEntry
      BY <1>2, <2>1, <3>2 DEF Finalize, Found
    <3>4. n \in Amounts
      BY <1>3, <2>1, <3>1, <3>3 DEF AmountsBooked, FinalizeStep
    <3>5. g.est = n
      BY <1>2, <3>2, <3>3 DEF Finalize
    <3> QED
      BY <3>4, <3>5
  <2> QED
    BY <1>1, <1>2, <2>1, FinalizeKeeps
<1>6. g.pc \in Priced => g.actual \in Amounts
  <2>1. CASE PriceReached(d)
    <3>1. PICK v : v = ActualCost(d)
      OBVIOUS
    <3>2. f.pc = "found" /\ g = [f EXCEPT !.pc = "priced", !.actual = v] /\ s \in Sms
      BY <1>1, <1>3, <2>1, <3>1, FinalizeFields DEF FinalizeStep
    <3>3. f.segs \in Segments /\ price \in Prices /\ BulkTypes
      BY <1>2, <3>2 DEF Loaded, Rolled, Sound, BulkTypes
    <3>4. PICK n : n = Cardinality(RowsWith(s, Success))
      OBVIOUS
    <3>5. n \in Nat /\ n <= Cardinality(Phone)
      <4>1. RowsWith(s, Success) \in SUBSET Phone /\ IsFiniteSet(Phone)
        BY <3>2, <3>3, RowsWithTyped, Finite
      <4> QED
        BY <3>4, <4>1, Finite, FS_Subset
    <3>6. v \in Amounts
      <4>1. v = price * f.segs * n
        BY <1>1, <3>1, <3>4 DEF ActualCost
      <4> QED
        BY <3>3, <3>5, <4>1, PriceIsAmount
    <3>7. g.actual = v
      BY <1>2, <3>2 DEF Finalize
    <3> QED
      BY <3>6, <3>7
  <2> QED
    BY <1>1, <1>2, <2>1, FinalizeKeeps
<1> QED
  BY <1>1, <1>4, <1>5, <1>6

\* Every step books amounts.
LEMMA AmountsStep ==
  ASSUME Sound, Sound', AmountsBooked, [Next]_vars
  PROVE  AmountsBooked'
<1>1. ASSUME NEW s \in Sms, ledger'[s].latest # NoEntry
      PROVE  ledger'[s].latest \in Amounts
  BY <1>1, LatestMoves, ReserveEffect DEF AmountsBooked
<1>2. ASSUME NEW d \in Dispatch, job'[d].pc = "estimated"
      PROVE  job'[d].est \in Amounts
  <2>1. CASE SameTask(d)
    BY <1>2, <2>1 DEF AmountsBooked, SameTask
  <2>2. CASE job[d].sms \in Sms /\ job'[d].est = Estimate(job[d].sms)
    <3>1. Eligible \in SUBSET Phone /\ IsFiniteSet(Phone) /\ BulkTypes
      BY Finite DEF Eligible, Sound
    <3>2. Cardinality(Eligible) \in Nat /\ Cardinality(Eligible) <= Cardinality(Phone)
      BY <3>1, Finite, FS_Subset
    <3> QED
      BY <2>2, <3>1, <3>2, CostInAmounts DEF Estimate
  <2> QED
    BY <1>2, <2>1, <2>2, TaskBefore
<1> QED
  BY <1>1, <1>2, AmountsOfBody DEF AmountsBooked, Amounts

\* A booking on one message changes the totals by what it changes there.
LEMMA TotalMoves ==
  ASSUME BulkTypes, BulkTypes', NEW s \in Sms, \A t \in Sms \ {s} : ledger'[t] = ledger[t]
  PROVE  /\ Total("reservation") \in Int
         /\ Total("reservation")' = Total("reservation") - ledger[s].reservation
                                      + ledger'[s].reservation
         /\ Total("debit") \in Int
         /\ Total("debit")' = Total("debit") - ledger[s].debit + ledger'[s].debit
         /\ Total("adjustment") \in Int
         /\ Total("adjustment")' = Total("adjustment") - ledger[s].adjustment
                                     + ledger'[s].adjustment
<1>1. ASSUME NEW t \in Sms
      PROVE  /\ ledger[t].reservation \in Int /\ ledger[t].debit \in Int
             /\ ledger[t].adjustment \in Int
             /\ ledger'[t].reservation \in Int /\ ledger'[t].debit \in Int
             /\ ledger'[t].adjustment \in Int
  <2>1. ledger[t] \in Entries /\ ledger'[t] \in Entries
    BY DEF BulkTypes
  <2> QED
    BY <2>1, EntryFields
<1>2. /\ Total("reservation") \in Int
      /\ Total("reservation")' = Total("reservation") - ledger[s].reservation
                                   + ledger'[s].reservation
  <2> DEFINE f == [t \in Sms |-> ledger[t].reservation]
             e == [t \in Sms |-> ledger'[t].reservation]
  <2>1. /\ f \in [Sms -> Int] /\ e \in [Sms -> Int] /\ \A t \in Sms : t # s => e[t] = f[t]
        /\ f[s] = ledger[s].reservation /\ e[s] = ledger'[s].reservation
    BY <1>1
  <2>2. Total("reservation") = SumFunction(f) /\ Total("reservation")' = SumFunction(e)
    BY DEF Total
  <2> HIDE DEF f, e
  <2> QED
    BY <2>1, <2>2, SumStep, SendAssumption
<1>3. /\ Total("debit") \in Int
      /\ Total("debit")' = Total("debit") - ledger[s].debit + ledger'[s].debit
  <2> DEFINE f == [t \in Sms |-> ledger[t].debit]
             e == [t \in Sms |-> ledger'[t].debit]
  <2>1. /\ f \in [Sms -> Int] /\ e \in [Sms -> Int] /\ \A t \in Sms : t # s => e[t] = f[t]
        /\ f[s] = ledger[s].debit /\ e[s] = ledger'[s].debit
    BY <1>1
  <2>2. Total("debit") = SumFunction(f) /\ Total("debit")' = SumFunction(e)
    BY DEF Total
  <2> HIDE DEF f, e
  <2> QED
    BY <2>1, <2>2, SumStep, SendAssumption
<1>4. /\ Total("adjustment") \in Int
      /\ Total("adjustment")' = Total("adjustment") - ledger[s].adjustment
                                  + ledger'[s].adjustment
  <2> DEFINE f == [t \in Sms |-> ledger[t].adjustment]
             e == [t \in Sms |-> ledger'[t].adjustment]
  <2>1. /\ f \in [Sms -> Int] /\ e \in [Sms -> Int] /\ \A t \in Sms : t # s => e[t] = f[t]
        /\ f[s] = ledger[s].adjustment /\ e[s] = ledger'[s].adjustment
    BY <1>1
  <2>2. Total("adjustment") = SumFunction(f) /\ Total("adjustment")' = SumFunction(e)
    BY DEF Total
  <2> HIDE DEF f, e
  <2> QED
    BY <2>1, <2>2, SumStep, SendAssumption
<1> QED
  BY <1>2, <1>3, <1>4

\* At the start the account has the credits it opened with.
LEMMA AccountInit ==
  Init => Account!Init
<1> SUFFICES ASSUME Init
             PROVE  Account!Init
  OBVIOUS
<1>1. balance \in Nat /\ reserved = 0
  BY SendAssumption DEF Init
<1>2. Total("debit") = 0 /\ Total("reservation") = 0 /\ Total("adjustment") = 0
  <2> DEFINE z == [s \in Sms |-> 0]
  <2>1. z \in [Sms -> Int] /\ \A s \in Sms : z[s] = 0
    OBVIOUS
  <2>2. Total("debit") = SumFunction(z)
    <3>1. [s \in Sms |-> ledger[s].debit] = z
      BY DEF Init
    <3> QED
      BY <3>1 DEF Total
  <2>3. Total("reservation") = SumFunction(z)
    <3>1. [s \in Sms |-> ledger[s].reservation] = z
      BY DEF Init
    <3> QED
      BY <3>1 DEF Total
  <2>4. Total("adjustment") = SumFunction(z)
    <3>1. [s \in Sms |-> ledger[s].adjustment] = z
      BY DEF Init
    <3> QED
      BY <3>1 DEF Total
  <2> HIDE DEF z
  <2> QED
    BY <2>1, <2>2, <2>3, <2>4, SumOfZeros, SendAssumption
<1>3. balance + Total("debit") = balance
  BY <1>1, <1>2
<1>4. Booked = [top_up |-> balance, reservation |-> 0, debit |-> 0, refund |-> 0, adjustment |-> 0]
  BY <1>2, <1>3 DEF Booked
<1>5. Booked = [type \in Account!EntryType |-> IF type = "top_up" THEN balance ELSE 0]
  BY <1>4 DEF Account!EntryType
<1> QED
  BY <1>1, <1>5 DEF Account!Init

\* Every step is one operation of the account, or leaves it alone.
LEMMA AccountStep ==
  ASSUME Sound, Sound', AmountsBooked, [Next]_vars
  PROVE  [Account!Next]_Account!accountVars
<1>0. balance \in Int /\ reserved \in Int /\ BulkTypes /\ BulkTypes'
  BY DEF Sound, BulkTypes
<1>1. CASE money' = money
  <2>1. Booked' = Booked
    BY <1>1 DEF Booked, Total, money
  <2> QED
    BY <1>1, <2>1 DEF Account!accountVars, money
<1>2. ASSUME NEW d \in Dispatch, ReserveAndQueue(d)
      PROVE  Account!Next
  <2>1. PICK s : s = job[d].sms
    OBVIOUS
  <2>2. PICK a \in Amounts : a = job[d].est
    BY <1>2, ReserveEffect DEF AmountsBooked
  <2>3. /\ s \in Sms /\ a \in Nat /\ balance - reserved >= a
        /\ balance' = balance /\ reserved' = reserved + a
        /\ ledger'[s].reservation = ledger[s].reservation + a
        /\ ledger'[s].debit = ledger[s].debit /\ ledger'[s].adjustment = ledger[s].adjustment
        /\ \A t \in Sms \ {s} : ledger'[t] = ledger[t]
    BY <1>2, <2>1, <2>2, ReserveBooks
  <2>4. /\ ledger[s].reservation \in Nat /\ ledger[s].debit \in Nat /\ ledger[s].adjustment \in Nat
    BY <1>0, <2>3, EntryFields DEF BulkTypes
  <2>5. /\ Total("reservation")' = Total("reservation") + a
        /\ Total("debit")' = Total("debit") /\ Total("adjustment")' = Total("adjustment")
    BY <1>0, <2>3, <2>4, TotalMoves
  <2>6. Booked' = [Booked EXCEPT !["reservation"] = Booked["reservation"] + a]
    BY <2>3, <2>5 DEF Booked
  <2>7. Account!Reserve(a)
    BY <2>3, <2>6 DEF Account!Reserve, Account!Book
  <2> QED
    BY <2>7 DEF Account!Next
<1>3. ASSUME NEW d \in Dispatch, DebitActual(d), money' # money
      PROVE  Account!Next
  <2>1. PICK s : s = job[d].sms
    OBVIOUS
  <2>2. PICK a : a = fin[d].actual
    OBVIOUS
  <2>3. /\ s \in Sms /\ a \in Nat /\ reserved >= a /\ fin[d].pc = "priced"
        /\ balance' = balance - a /\ reserved' = reserved - a
        /\ ledger'[s].reservation = ledger[s].reservation
        /\ ledger'[s].debit = ledger[s].debit + a
        /\ ledger'[s].adjustment = ledger[s].adjustment
        /\ \A t \in Sms \ {s} : ledger'[t] = ledger[t]
    BY <1>3, <2>1, <2>2, DebitEffect
  <2>4. /\ ledger[s].reservation \in Nat /\ ledger[s].debit \in Nat /\ ledger[s].adjustment \in Nat
    BY <1>0, <2>3, EntryFields DEF BulkTypes
  <2>5. /\ Total("reservation")' = Total("reservation") /\ Total("debit") \in Int
        /\ Total("debit")' = Total("debit") + a /\ Total("adjustment")' = Total("adjustment")
    BY <1>0, <2>3, <2>4, TotalMoves
  <2>6. balance' + Total("debit")' = balance + Total("debit")
    BY <1>0, <2>3, <2>5
  <2>7. Booked' = [Booked EXCEPT !["debit"] = Booked["debit"] + a]
    BY <2>3, <2>5, <2>6 DEF Booked
  <2>8. a \in Amounts
    BY <2>2, <2>3 DEF AmountsBooked, Priced
  <2>9. Account!Debit(a)
    BY <2>3, <2>7 DEF Account!Debit, Account!Book
  <2> QED
    BY <2>8, <2>9 DEF Account!Next
<1>4. ASSUME NEW d \in Dispatch, ReleaseRest(d), money' # money
      PROVE  Account!Next
  <2>1. PICK s : s = job[d].sms
    OBVIOUS
  <2>2. PICK a : a = fin[d].est - fin[d].actual
    OBVIOUS
  <2>3. /\ s \in Sms /\ a > 0 /\ fin[d].pc = "debited"
        /\ balance' = balance /\ reserved' = reserved - a
        /\ ledger'[s].reservation = ledger[s].reservation
        /\ ledger'[s].debit = ledger[s].debit
        /\ ledger'[s].adjustment = ledger[s].adjustment + a
        /\ \A t \in Sms \ {s} : ledger'[t] = ledger[t]
    BY <1>4, <2>1, <2>2, ReleaseEffect
  <2>4. fin[d].est \in Amounts /\ fin[d].est \in Nat /\ fin[d].actual \in Nat
    BY <2>3, Owner DEF AmountsBooked, Found, Finalize
  <2>5. a \in Nat /\ a \in Amounts
    <3>1. a \in Nat /\ a <= fin[d].est
      BY <2>2, <2>3, <2>4
    <3> QED
      BY <2>4, <3>1, LessIsAmount
  <2>6. /\ ledger[s].reservation \in Nat /\ ledger[s].debit \in Nat /\ ledger[s].adjustment \in Nat
    BY <1>0, <2>3, EntryFields DEF BulkTypes
  <2>7. /\ Total("reservation")' = Total("reservation")
        /\ Total("debit")' = Total("debit") /\ Total("adjustment")' = Total("adjustment") + a
    BY <1>0, <2>3, <2>5, <2>6, TotalMoves
  <2>8. Booked' = [Booked EXCEPT !["adjustment"] = Booked["adjustment"] + a]
    BY <2>3, <2>7 DEF Booked
  <2>9. Account!Release(a)
    BY <2>3, <2>8 DEF Account!Release, Account!Book
  <2> QED
    BY <2>5, <2>9 DEF Account!Next
<1> QED
  BY <1>1, <1>2, <1>3, <1>4, MoneyMoves

-----------------------------------------------------------------------------
(* Theorems *)

IInv ==
  /\ Sound /\ CopiesCounted /\ ClicksCounted /\ Unedited /\ Attempts
  /\ FailuresRecorded /\ AgainMeansFault /\ RowsReserved /\ VerdictsHold
  /\ Solvent /\ MoneyAgrees /\ EstimatesBooked /\ SharesHeld
  /\ SegsRead /\ CalmSends /\ QuietSends /\ ChargesFair /\ AmountsBooked

\* The inductive invariant: the tasks, batches and rows fit together, every copy is accounted
\* for, and what is reserved is reserved for somebody, whatever the tasks, the environment and the faults do.
THEOREM InvariantHolds == Spec => []IInv
<1>1. Init => IInv
  BY SoundInit, CopiesInit, ClicksInit, UneditedInit, AttemptsInit, RecordsInit, SolventInit,
     HeldInit, EstimatesInit, SharesInit, SegsReadInit, CalmInit, QuietInit, FairInit,
     AmountsInit DEF IInv
<1>2. ASSUME IInv, [Next]_vars
      PROVE  IInv'
  <2>1. Sound /\ Sound'
    BY <1>2, SoundStep DEF IInv
  <2>2. CopiesCounted' /\ ClicksCounted' /\ Unedited' /\ Attempts' /\ Solvent' /\ MoneyAgrees'
    BY <1>2, <2>1, CopiesStep, ClicksStep, UneditedStep, AttemptsStep, SolventStep, HeldStep DEF IInv
  <2>3. EstimatesBooked' /\ SegsRead'
    BY <1>2, <2>1, EstimatesStep, SegsReadStep DEF IInv
  <2>5. FailuresRecorded' /\ AgainMeansFault' /\ RowsReserved' /\ VerdictsHold'
    BY <1>2, <2>1, FailuresStep, AgainStep, ReservedStep, VerdictsStep DEF IInv
  <2>4. SharesHeld' /\ CalmSends' /\ QuietSends' /\ ChargesFair' /\ AmountsBooked'
    BY <1>2, <2>1, <2>3, SharesStep, CalmStep, QuietStep, FairStep, AmountsStep DEF IInv
  <2> QED
    BY <2>1, <2>2, <2>3, <2>4, <2>5 DEF IInv
<1> QED
  BY <1>1, <1>2, PTL DEF Spec

\* Every variable of the bulk send keeps its type, and no row is of a blocked region.
THEOREM BulkTypesHold == Spec => []BulkTypes
<1>1. IInv => BulkTypes
  BY DEF IInv, Sound
<1> QED
  BY <1>1, InvariantHolds, PTL

\* No mix of sends, double clicks, crashes and edits overdraws the wallet (Wallet.reserve_funds,
\* debit_funds and release_reservation as the tasks call them).
THEOREM AlwaysSolvent == Spec => []Solvent
<1>1. IInv => Solvent
  BY DEF IInv
<1> QED
  BY <1>1, InvariantHolds, PTL

\* No row, no reservation and no message for a blocked region, though contacts join the segment
\* between the checks of the request and of the tasks.
THEOREM BlockedNotQueued == Spec => []BlockedNeverQueued
<1>1. IInv => BlockedNeverQueued
  BY DEF IInv, Sound, RowsSound, RowSound, BlockedNeverQueued
<1> QED
  BY <1>1, InvariantHolds, PTL

\* Every copy of a message to one phone is accounted for by a dispatch that reserved for it,
\* a fault, or a reply that was lost.
THEOREM CopiesAlwaysBounded == Spec => []CopiesBounded
<1>1. ASSUME IInv, NEW s \in Sms, NEW p \in Phone
      PROVE  accepted[s][p] <= Cardinality(Dispatched(s)) + used.faults + unconfirmed[s][p]
  <2>1. Pending(s, p) \in SUBSET Dispatch /\ Dispatched(s) \in SUBSET Dispatch
    BY DEF Pending, Dispatched
  <2>2. Cardinality(Pending(s, p)) \in Nat /\ Cardinality(Dispatched(s)) \in Nat
    BY <2>1, Finite
  <2>3. accepted[s][p] \in Nat /\ unconfirmed[s][p] \in Nat /\ used.faults \in Nat
    BY <1>1, EnvironmentAssumption DEF IInv, Sound, BulkTypes, Use
  <2>4. accepted[s][p] + Cardinality(Pending(s, p))
          <= Cardinality(Dispatched(s)) + used.faults + unconfirmed[s][p]
    BY <1>1 DEF IInv, CopiesCounted
  <2> QED
    BY <2>2, <2>3, <2>4
<1>2. IInv => CopiesBounded
  BY <1>1 DEF CopiesBounded, Dispatched
<1> QED
  BY <1>2, InvariantHolds, PTL

\* A send that is asked for once, and meets no fault, sends a phone one copy; a further copy
\* needs a lost reply.
THEOREM CopiesAlwaysExplained ==
  ASSUME MaxClicks <= 1, MaxFaults = 0
  PROVE  Spec => []EveryCopyExplained
<1>1. ASSUME IInv, NEW s \in Sms, NEW p \in Phone
      PROVE  accepted[s][p] <= 1 + unconfirmed[s][p]
  <2> DEFINE C == {d \in Dispatch : job[d].sms = s}
  <2>1. Pending(s, p) \in SUBSET Dispatch /\ Dispatched(s) \in SUBSET Dispatch /\ C \in SUBSET Dispatch
    BY DEF Pending, Dispatched
  <2>2. Cardinality(Dispatched(s)) <= Cardinality(C) /\ Cardinality(C) \in Nat
    <3>1. IsFiniteSet(C) /\ Cardinality(C) \in Nat
      BY <2>1, Finite
    <3>2. Dispatched(s) \subseteq C
      BY DEF Dispatched
    <3> HIDE DEF C
    <3> QED
      BY <3>1, <3>2, FS_Subset
  <2>3. Cardinality(C) <= MaxClicks /\ MaxClicks \in Nat
    BY <1>1, EnvironmentAssumption DEF IInv, ClicksCounted
  <2>4. Cardinality(Pending(s, p)) \in Nat /\ Cardinality(Dispatched(s)) \in Nat
    BY <2>1, Finite
  <2>5. accepted[s][p] \in Nat /\ unconfirmed[s][p] \in Nat /\ used.faults = 0
    BY <1>1 DEF IInv, Sound, BulkTypes, Use
  <2>6. accepted[s][p] + Cardinality(Pending(s, p))
          <= Cardinality(Dispatched(s)) + used.faults + unconfirmed[s][p]
    BY <1>1 DEF IInv, CopiesCounted
  <2> HIDE DEF C
  <2> QED
    BY <2>2, <2>3, <2>4, <2>5, <2>6
<1>2. IInv => EveryCopyExplained
  BY <1>1 DEF EveryCopyExplained
<1> QED
  BY <1>2, InvariantHolds, PTL

\* A message that is sent once and not edited reads "sent" only when it went out to everybody it
\* has a recipient for, and "failed" only with a failure on record for each of them, whatever
\* reports, opt-outs and retries come between the count of finalize_sms_send and its save.
THEOREM SentAlwaysToAll ==
  ASSUME MaxClicks <= 1, MaxEdits = 0
  PROVE  Spec => []SentMeansSentToAll
<1>1. ASSUME IInv, NEW s \in Sms
      PROVE  Verdict(status[s], s)
  BY <1>1 DEF IInv, VerdictsHold, OneClick, NoEdits
<1>2. IInv => SentMeansSentToAll
  BY <1>1 DEF SentMeansSentToAll, Verdict
<1> QED
  BY <1>2, InvariantHolds, PTL

\* A send that is asked for once is not finalised while a recipient is still queued,
\* whatever crashes, edits and retries there are.
THEOREM FinalisedAlwaysAttempted ==
  ASSUME MaxClicks <= 1
  PROVE  Spec => []FinalisedMeansAttempted
<1>1. ASSUME IInv, NEW d \in Dispatch, fin[d].pc \in Rolled
      PROVE  RowsWith(job[d].sms, {"queued"}) = {}
  <2>1. job[d].pc = "enqueued"
    BY <1>1, Owner DEF IInv, Rolled
  <2>2. /\ \A p \in QueuedIn(row[job[d].sms]) : \E k \in BatchNo : p \in Waiting(batch[d][k])
        /\ AllBatchesDone(d)
    BY <1>1, <2>1 DEF IInv, Attempts, OneClick
  <2>3. \A k \in BatchNo : Waiting(batch[d][k]) = {}
    BY <2>2 DEF AllBatchesDone, Waiting
  <2> QED
    BY <2>2, <2>3 DEF RowsWith, QueuedIn
<1>2. IInv => FinalisedMeansAttempted
  BY <1>1 DEF FinalisedMeansAttempted
<1> QED
  BY <1>2, InvariantHolds, PTL

\* The sends use the wallet only as a prepaid account: whatever fails, crashes or is edited,
\* each step is at most one of the operations that WalletTransactionService promises.
THEOREM SendsUseAccount == Spec => AccountSpec
<1>1. IInv /\ IInv' /\ [Next]_vars => [Account!Next]_Account!accountVars
  BY AccountStep DEF IInv
<1> QED
  BY <1>1, InvariantHolds, AccountInit, PTL DEF Spec, AccountSpec, Account!Spec

\* When nothing changes the audience or the price, double clicks reserve twice and settle
\* twice, and in the end nothing stays reserved.
THEOREM NothingLeftReserved ==
  ASSUME MaxEdits = 0, MaxRefreshes = 0, MaxOptOuts = 0, Joining = {}
  PROVE  Spec => []NothingStaysReserved
<1>1. IInv => NothingStaysReserved
  BY CalmEnds DEF IInv, Calm, NoEdits
<1> QED
  BY <1>1, InvariantHolds, PTL

\* debit_funds refuses a debit only when some message was repriced between two dispatches
\* or became dearer after its reservation, or after a fault.
THEOREM AlwaysDebitedUnlessRepriced ==
  Spec => []DebitedUnlessRepriced
<1>1. IInv => DebitedUnlessRepriced
  BY DEF IInv, SharesHeld, Steady, DebitedUnlessRepriced
<1> QED
  BY <1>1, InvariantHolds, PTL

\* The entries of a quiet message.
LEMMA QuietEntries ==
  ASSUME IInv, Quiet, NEW d \in Dispatch, Debited(d)
  PROVE  /\ fin[d].actual <= fin[d].est + Extra(d)
         /\ fin[d].pc = "settled" /\ Sure => Outstanding(job[d].sms) = 0
<1>1. PICK s \in Sms : s = job[d].sms
  BY Owner DEF IInv, Debited
<1>2. Reserving(d)
  BY Owner DEF IInv, Debited, Reserving
<1>3. QuietTask(d) /\ ledger[s] \in Entries /\ job[d] \in Job /\ fin[d] \in Finalize
  BY DEF IInv, QuietSends, Sound, BulkTypes
<1>4. /\ QuietEntry(ledger[s], job[d], fin[d], Extra(d))
      /\ (Sure => job[d].audience \subseteq job[d].counted)
  BY <1>1, <1>2, <1>3 DEF QuietTask
<1>5. fin[d].actual <= fin[d].est + Extra(d) /\ fin[d].pc # "lost"
  BY <1>4 DEF QuietEntry, Debited, Found, Priced
<1>6. Extra(d) \in Nat /\ (Sure => Extra(d) = 0)
  BY <1>1, <1>4, ExtraTyped DEF IInv, Sound
<1>7. fin[d].pc = "settled" /\ Sure =>
        ledger[s].reservation - ledger[s].debit - ledger[s].adjustment = 0
  BY <1>3, <1>4, <1>5, <1>6, QuietLeft
<1> QED
  BY <1>1, <1>5, <1>7 DEF Outstanding

\* A send that is asked for once costs at most what was reserved for it and the price of the
\* recipients its estimate missed, though contacts join, opt out and are reported on, and
\* tasks retry and crash.
THEOREM CostsAlwaysReserved ==
  ASSUME MaxClicks <= 1, MaxEdits = 0, MaxRefreshes = 0
  PROVE  Spec => []CostsAtMostReserved
<1>1. IInv => CostsAtMostReserved
  BY QuietEntries DEF CostsAtMostReserved, Quiet, OneClick, NoEdits, Extra
<1> QED
  BY <1>1, InvariantHolds, PTL

\* Such sends settle within their own reservations, but for the recipients their estimates
\* missed: they do not pay for each other.
THEOREM SendsPayForThemselves ==
  ASSUME MaxClicks <= 1, MaxEdits = 0, MaxRefreshes = 0
  PROVE  Spec => []NoSendSpendsAnothersReservation
<1>1. ASSUME IInv, NEW s \in Sms
      PROVE  Outstanding(s) >= - Cost(s, Cardinality(Missed(s)))
  <2>1. QuietMessage(s) /\ BulkTypes /\ ledger[s] \in Entries
    BY <1>1 DEF IInv, QuietSends, Quiet, OneClick, NoEdits, Sound, BulkTypes
  <2>2. Outstanding(s) \in Int
    BY <2>1, EntryFields DEF Outstanding
  <2>3. Missed(s) \in SUBSET Phone
    BY <2>1 DEF Missed, Sends, BulkTypes, Job
  <2>4. PICK c, M : M = Missed(s) /\ c = Cost(s, Cardinality(M))
    OBVIOUS
  <2>5. IsFiniteSet(M) /\ Cardinality(M) \in Nat /\ c \in Nat
    BY <2>1, <2>3, <2>4, Finite, CostTyped
  <2>6. ASSUME NEW d \in Dispatch, job[d].sms = s, job[d].pc = "enqueued"
        PROVE  Extra(d) \in Nat /\ Extra(d) <= c
    <3>1. PICK B : B = job[d].audience \ job[d].counted
      OBVIOUS
    <3>2. B \subseteq M
      BY <2>4, <2>6, <3>1 DEF Missed, Sends, Reserving
    <3>3. Cardinality(B) \in Nat /\ Cardinality(B) <= Cardinality(M)
      BY <2>5, <3>2, FS_Subset, FS_CardinalityType
    <3>4. Cost(s, Cardinality(B)) \in Nat /\ Cost(s, Cardinality(B)) <= c
      BY <2>1, <2>4, <2>5, <3>3, CostGrows, CostTyped
    <3> QED
      BY <2>6, <3>1, <3>4 DEF Extra
  <2>7. CASE Outstanding(s) >= 0
    BY <2>2, <2>4, <2>5, <2>7
  <2>8. ASSUME NEW d \in Dispatch, job[d].sms = s, job[d].pc = "enqueued",
               Outstanding(s) >= - Extra(d)
        PROVE  Outstanding(s) >= - c
    BY <2>2, <2>5, <2>6, <2>8
  <2> QED
    BY <2>1, <2>4, <2>7, <2>8 DEF QuietMessage
<1>2. IInv => NoSendSpendsAnothersReservation
  BY <1>1 DEF NoSendSpendsAnothersReservation
<1> QED
  BY <1>2, InvariantHolds, PTL

\* The debit and the release of a send whose estimate counts its whole audience add up to
\* its reservation.
THEOREM AlwaysSettledInFull ==
  ASSUME MaxClicks <= 1, MaxEdits = 0, MaxRefreshes = 0, MaxOptOuts = 0 \/ \A s, t \in Sms : s = t
  PROVE  Spec => []SettledInFull
<1>1. IInv => SettledInFull
  BY QuietEntries DEF SettledInFull, Debited, Quiet, Sure, OneClick, NoEdits
<1> QED
  BY <1>1, InvariantHolds, PTL

\* For a send that is asked for once, and not repriced, the user pays for no more messages
\* than Vonage took, whoever joins or opts out meanwhile.
THEOREM AlwaysChargedForAccepted ==
  ASSUME MaxClicks <= 1, MaxEdits = 0, MaxRefreshes = 0
  PROVE  Spec => []ChargedForAccepted
<1>1. ASSUME IInv, NEW s \in Sms
      PROVE  ledger[s].debit <= Cost(s, SumFunction(accepted[s]))
  <2> DEFINE T == {p \in Phone : accepted[s][p] > 0}
  <2>1. ledger[s].debit <= Cost(s, Cardinality(T))
    BY <1>1 DEF IInv, ChargesFair, FairlyCharged, Taken, OneClick, NoEdits
  <2>2. accepted[s] \in [Phone -> Nat] /\ BulkTypes /\ T \in SUBSET Phone
    BY <1>1 DEF IInv, Sound, BulkTypes
  <2>3. Cardinality(T) <= SumFunction(accepted[s])
    BY <2>2, PositiveAtMostSum, SendAssumption
  <2>4. SumFunction(accepted[s]) \in Nat
    <3>1. CASE Phone = {}
      <4>1. accepted[s] \in [Phone -> Int] /\ \A p \in Phone : accepted[s][p] = 0
        BY <2>2, <3>1
      <4> QED
        BY <4>1, SumOfZeros, SendAssumption
    <3>2. CASE Phone # {}
      BY <2>2, <3>2, TermAtMostSum, SendAssumption
    <3> QED
      BY <3>1, <3>2
  <2>5. Cardinality(T) \in Nat
    BY <2>2, Finite
  <2> HIDE DEF T
  <2>6. Cost(s, Cardinality(T)) <= Cost(s, SumFunction(accepted[s]))
    BY <2>2, <2>3, <2>4, <2>5, CostGrows
  <2>7. /\ ledger[s].debit \in Nat /\ Cost(s, Cardinality(T)) \in Nat
        /\ Cost(s, SumFunction(accepted[s])) \in Nat
    BY <2>2, <2>4, <2>5, CostTyped, EntryFields DEF BulkTypes
  <2> QED
    BY <2>1, <2>6, <2>7
<1>2. IInv => ChargedForAccepted
  BY <1>1 DEF ChargedForAccepted
<1> QED
  BY <1>2, InvariantHolds, PTL
=============================================================================
