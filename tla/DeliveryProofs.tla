--------------------------- MODULE DeliveryProofs ---------------------------
(***************************************************************************)
(* The records of a message agree, and only a whole-row save forgets, for  *)
(* any number of recipients, requests and workers that die.                *)
(***************************************************************************)
EXTENDS Delivery, TLAPS

\* A client saves a row with what it has sent.
Edits(h) == \E patch \in Patches : EditSave(h, patch)

\* A request that is under way is about a recipient, and has read its row.
RequestsSound ==
  \A h \in Handler :
    /\ handler[h].pc = "idle" => handler[h].of = None
    /\ handler[h].pc # "idle" => handler[h].of \in Recipient /\ handler[h].copy \in RecipientType
    /\ handler[h].pc \in {"report", "reported"} => handler[h].report \in Reports

\* Before the worker has saved the message id, no row and no copy has it.
UnknownUntilSaved ==
  \A r \in Recipient :
    sender[r].pc \in {"queued", "answered"} =>
      /\ ~row[r].known
      /\ \A h \in Handler : handler[h].of = r => ~handler[h].copy.known

\* What a status says of a message is in its events, or is about to be written there.
Backed(r, st) ==
  /\ st # "pending"
  /\ \/ st \in {"queued", "opted_out"}
     \/ event[r][EventOfStatus(st)] > 0
     \/ sender[r].pc = "saved" /\ st = (IF Accepted(r) THEN "sent" ELSE "failed")
     \/ \E h \in Handler : /\ handler[h].pc = "reported" /\ handler[h].of = r
                           /\ ReportedEvent(handler[h].report) = EventOfStatus(st)

StatusesBacked ==
  faults = 0 =>
    \A r \in Recipient \ handmade :
      /\ Backed(r, row[r].status)
      /\ \A h \in Handler : handler[h].of = r => Backed(r, handler[h].copy.status)

IInv == TypeOK /\ RequestsSound /\ UnknownUntilSaved /\ StatusesBacked

\* An operator of the reports is one of the types'.
LEMMA ReportTypes ==
  ASSUME NEW v \in Reports
  PROVE  /\ ReportedStatus(v) \in {"sent", "delivered", "undelivered"}
         /\ ReportedEvent(v) = EventOfStatus(ReportedStatus(v))
         /\ ReportedEvent(v) \in EventType
  BY DEF Reports, ReportedStatus, ReportedEvent, EventOfStatus, EventType

\* The statuses that have an event have one of the known types.
LEMMA StatusTypes ==
  ASSUME NEW c \in RecipientType, c.status \notin {"pending", "queued", "opted_out"}
  PROVE  EventOfStatus(c.status) \in EventType
  BY DEF RecipientType, RecipientStatus, EventOfStatus, EventType

\* A patch makes a row of a row; it neither finds out the message id nor, unless the
\* client sends one, changes the status.
LEMMA PatchTypes ==
  ASSUME NEW c \in RecipientType, NEW f \in Patches
  PROVE  /\ Edited(c, f) \in RecipientType
         /\ ~c.known => ~Edited(c, f).known
         /\ "status" \notin DOMAIN f => Edited(c, f).status = c.status
<1> DEFINE e == Edited(c, f)  Columns == {"status", "known", "delivered", "opened"}
<1>1. DOMAIN c = Columns /\ DOMAIN Writable = Columns
  BY DEF RecipientType, Writable
<1>2. c.status \in RecipientStatus /\ c.known \in BOOLEAN /\ c.delivered \in BOOLEAN /\ c.opened \in BOOLEAN
  BY DEF RecipientType
<1>3. \A x \in DOMAIN f : x \in Columns /\ f[x] \in Writable[x]
  BY <1>1, DeliveryAssumption
<1>4. \A x \in Columns : e[x] = IF x \in DOMAIN f THEN f[x] ELSE c[x]
  BY <1>1 DEF Edited
<1>5. e = [status |-> e["status"], known |-> e["known"], delivered |-> e["delivered"],
           opened |-> e["opened"]]
  BY <1>1 DEF Edited
<1>6. e["status"] \in RecipientStatus /\ e["delivered"] \in BOOLEAN /\ e["opened"] \in BOOLEAN
  BY <1>2, <1>3, <1>4 DEF Writable
<1>7. e["known"] \in BOOLEAN /\ (~c.known => ~e["known"])
  BY <1>2, <1>3, <1>4 DEF Writable
<1>8. e \in RecipientType
  <2> HIDE DEF e
  <2> QED
    BY <1>5, <1>6, <1>7 DEF RecipientType
<1> QED
  BY <1>4, <1>7, <1>8

\* At the start nothing is known, logged or under way.
LEMMA InitIInv == Init => IInv
<1> SUFFICES ASSUME Init
             PROVE  IInv
  OBVIOUS
<1>1. TypeOK
  <2>1. Idle \in RequestType
    BY DEF Idle, RequestType
  <2>2. row \in [Recipient -> RecipientType]
    BY DEF Init, RecipientType, RecipientStatus
  <2>3. action \in [Block -> [live : BOOLEAN, made : Nat]]
    BY DEF Init
  <2> QED
    BY <2>1, <2>2, <2>3, DeliveryAssumption DEF Init, TypeOK
<1>2. \A h \in Handler : handler[h].pc = "idle" /\ handler[h].of = None
  BY DEF Init, Idle
<1>3. RequestsSound
  BY <1>2 DEF RequestsSound
<1>4. UnknownUntilSaved /\ StatusesBacked
  BY <1>2, DeliveryAssumption DEF Init, UnknownUntilSaved, StatusesBacked, Backed
<1> QED
  BY <1>1, <1>3, <1>4 DEF IInv

\* A request that begins keeps a copy of a row, and no row, event or sender changes.
Begins(h, r, pc, report, click) ==
  /\ Begin(h, pc, r, report, click)
  /\ pc \in {"report", "optOut", "edit", "open", "view", "click"}
  /\ report \in Reports \cup {None} /\ click \in [block : Block, made : Nat] \cup {None}
  /\ pc = "report" => report \in Reports

\* Whatever a request is for, its first step is to read the row, and that is all it does.
LEMMA BeginsOf ==
  ASSUME TypeOK, NEW h \in Handler, NEW r \in Recipient, 
         \/ \E v \in Reports : Report(h, r, v)
         \/ OptOut(h, r) \/ EditRecipient(h, r) \/ OpenPage(h, r)
         \/ \E b \in Block : Click(h, r, b)
  PROVE  /\ \E pc, report, click : Begins(h, r, pc, report, click)
         /\ UNCHANGED <<row, contact, event, sender, faults, handmade>>
<1>1. CASE \E v \in Reports : Report(h, r, v)
  BY <1>1 DEF Report, Begins
<1>2. CASE OptOut(h, r) \/ EditRecipient(h, r) \/ OpenPage(h, r)
  BY <1>2 DEF OptOut, EditRecipient, OpenPage, Begins
<1>3. ASSUME NEW b \in Block, Click(h, r, b)
      PROVE  \E click : Begins(h, r, "click", None, click)
  <2> DEFINE made == IF action[b].live THEN action[b].made ELSE action[b].made + 1
  <2>1. [block |-> b, made |-> made] \in [block : Block, made : Nat]
    BY DEF TypeOK
  <2> QED
    BY <1>3, <2>1 DEF Click, Begins
<1> QED
  BY <1>1, <1>2, <1>3 DEF Click

\* A request that has begun carries the row as it was, and the others go on as they were.
LEMMA BegunRequest ==
  ASSUME TypeOK, RequestsSound, NEW h \in Handler, NEW r \in Recipient, NEW pc,
         NEW report, NEW click, Begins(h, r, pc, report, click)
  PROVE  /\ handler' \in [Handler -> RequestType]
         /\ requests' \in 0 .. MaxRequests
         /\ handler'[h] = [pc |-> pc, of |-> r, copy |-> row[r], report |-> report, click |-> click]
         /\ \A g \in Handler \ {h} : handler'[g] = handler[g]
         /\ handler[h].pc = "idle"
<1>1. [pc |-> pc, of |-> r, copy |-> row[r], report |-> report, click |-> click] \in RequestType
  BY DEF Begins, RequestType, TypeOK
<1> QED
  BY <1>1, DeliveryAssumption DEF Begins, Begin, TypeOK

\* A request that goes on keeps what it is about, or ends.
LEMMA SteppedRequest ==
  ASSUME TypeOK, RequestsSound, NEW h \in Handler, NEW from, 
         NEW to \in {"idle", "reported", "optedOut", "view"}, Step(h, from, to), from # "idle",
         to = "reported" => from = "report"
  PROVE  /\ handler' \in [Handler -> RequestType]
         /\ RequestsSound'
         /\ handler[h].pc = from /\ handler'[h].pc = to /\ handler[h].of \in Recipient
         /\ handler[h].copy \in RecipientType
         /\ to = "idle" => handler'[h].of = None
         /\ to # "idle" => /\ handler'[h].of = handler[h].of
                           /\ handler'[h].copy = handler[h].copy
                           /\ handler'[h].report = handler[h].report
         /\ \A g \in Handler \ {h} : handler'[g] = handler[g]
         /\ UNCHANGED <<sender, requests, faults>>
<1>1. Idle \in RequestType /\ Idle.pc = "idle" /\ Idle.of = None
  BY DEF Idle, RequestType
<1>2. handler[h] \in RequestType /\ [handler[h] EXCEPT !.pc = to] \in RequestType
  BY ZenonT(60) DEF TypeOK, RequestType
<1>3. handler' = [handler EXCEPT ![h] = IF to = "idle" THEN Idle
                                                        ELSE [handler[h] EXCEPT !.pc = to]]
  BY DEF Step
<1>4. handler'[h] = (IF to = "idle" THEN Idle ELSE [handler[h] EXCEPT !.pc = to])
  BY <1>3 DEF TypeOK
<1>5. \A g \in Handler \ {h} : handler'[g] = handler[g]
  BY <1>3 DEF TypeOK
<1>6. handler[h].pc = from /\ handler[h].of \in Recipient /\ handler[h].copy \in RecipientType
  BY DEF Step, RequestsSound
<1>7. /\ handler'[h].pc = to
      /\ to = "idle" => handler'[h].of = None
      /\ to # "idle" => /\ handler'[h].of = handler[h].of
                        /\ handler'[h].copy = handler[h].copy
                        /\ handler'[h].report = handler[h].report
  BY <1>1, <1>2, <1>4 DEF RequestType
<1>8. handler' \in [Handler -> RequestType]
  BY <1>1, <1>2, <1>3 DEF TypeOK
<1>9. RequestsSound'
  BY <1>5, <1>6, <1>7 DEF RequestsSound
<1> QED
  BY <1>5, <1>6, <1>7, <1>8, <1>9 DEF Step
\* Logging adds an event and takes none away.
LEMMA LogType ==
  ASSUME TypeOK, NEW r \in Recipient, NEW e \in EventType, Log(r, e)
  PROVE  /\ event' \in [Recipient -> [EventType -> Nat]]
         /\ event'[r][e] > 0
         /\ \A q \in Recipient, d \in EventType : event'[q][d] >= event[q][d]
<1>1. [event[r] EXCEPT ![e] = event[r][e] + 1] \in [EventType -> Nat]
  BY DEF TypeOK
<1>2. event' = [event EXCEPT ![r] = [event[r] EXCEPT ![e] = event[r][e] + 1]]
  BY DEF Log
<1> QED
  BY <1>1, <1>2 DEF TypeOK

\* Nor does a client take one away that is not there, or from another recipient.
LEMMA WriteEventType ==
  ASSUME TypeOK, NEW r \in Recipient, NEW old \in EventType \cup {None},
         NEW new \in EventType \cup {None}, WriteEvent(r, old, new)
  PROVE  /\ event' \in [Recipient -> [EventType -> Nat]]
         /\ \A q \in Recipient \ {r} : event'[q] = event[q]
<1> DEFINE one(e, d) == IF e = d THEN 1 ELSE 0
<1>1. event[r] \in [EventType -> Nat] /\ (old # None => event[r][old] > 0)
  BY DEF TypeOK, WriteEvent
<1>2. PICK counts : counts = [e \in EventType |-> event[r][e] + one(e, new) - one(e, old)]
  OBVIOUS
<1>3. counts \in [EventType -> Nat]
  <2>1. \A e \in EventType : event[r][e] + one(e, new) - one(e, old) \in Nat
    BY <1>1, DeliveryAssumption
  <2> QED
    BY <1>2, <2>1
<1>4. event' = [event EXCEPT ![r] = counts]
  BY <1>2 DEF WriteEvent
<1> QED
  BY <1>3, <1>4 DEF TypeOK

\* The steps of the requests that are under way.
HandlerStep(h) ==
  \/ ReportSave(h) \/ ReportLog(h) \/ OptOutSave(h) \/ OptOutContact(h)
  \/ Edits(h) \/ OpenSave(h) \/ ViewLog(h) \/ ClickLog(h)

\* What a step of a request may do: it writes from its copy, logs, and goes on or ends.
LEMMA HandlerSteps ==
  ASSUME TypeOK, RequestsSound, NEW h \in Handler, HandlerStep(h)
  PROVE  /\ handler' \in [Handler -> RequestType]
         /\ RequestsSound'
         /\ handler[h].pc # "idle"
         /\ handler[h].of \in Recipient /\ handler[h].copy \in RecipientType
         /\ handler'[h].pc \in {"idle", "reported", "optedOut", "view"}
         /\ handler'[h].pc = "idle" => handler'[h].of = None
         /\ handler'[h].pc # "idle" => /\ handler'[h].of = handler[h].of
                                       /\ handler'[h].copy = handler[h].copy
                                       /\ handler'[h].report = handler[h].report
         /\ handler'[h].pc # handler[h].pc
         /\ \A g \in Handler \ {h} : handler'[g] = handler[g]
         /\ UNCHANGED <<sender, requests, faults>>
<1>1. CASE ReportSave(h)
  BY <1>1, SteppedRequest DEF ReportSave
<1>2. CASE OptOutSave(h)
  BY <1>2, SteppedRequest DEF OptOutSave
<1>3. CASE OpenSave(h)
  BY <1>3, SteppedRequest DEF OpenSave
<1>4. CASE ReportLog(h) \/ OptOutContact(h) \/ Edits(h) \/ ViewLog(h) \/ ClickLog(h)
  <2>1. PICK from : Step(h, from, "idle") /\ from # "idle"
    BY <1>4 DEF ReportLog, OptOutContact, Edits, EditSave, ViewLog, ClickLog
  <2> QED
    BY <2>1, SteppedRequest
<1> QED
  BY <1>1, <1>2, <1>3, <1>4 DEF HandlerStep

\* What the saves make of a row.
LEMMA RowSaved ==
  ASSUME TypeOK, RequestsSound, NEW h \in Handler, HandlerStep(h)
  PROVE  /\ row' \in [Recipient -> RecipientType]
         /\ \A r \in Recipient \ {handler[h].of} : row'[r] = row[r]
         /\ LET old == row[handler[h].of]
                new == row'[handler[h].of]
            IN
            /\ ReportSave(h) => /\ new.status = ReportedStatus(handler[h].report)
                                /\ new.known = old.known /\ new.opened = old.opened
                                /\ old.delivered => new.delivered
            /\ OptOutSave(h) => new = [handler[h].copy EXCEPT !.status = "opted_out"]
            /\ Edits(h) => /\ ~handler[h].copy.known => ~new.known
                           /\ handler[h].of \notin handmade' => new.status = handler[h].copy.status
            /\ OpenSave(h) => new = [old EXCEPT !.opened = TRUE]
            /\ handler[h].pc \notin {"report", "optOut", "edit", "open"} => new = old
<1> DEFINE r == handler[h].of
<1>1. r \in Recipient /\ handler[h].copy \in RecipientType /\ row[r] \in RecipientType
  BY HandlerSteps DEF TypeOK
<1>a. \A c \in RecipientType :
        /\ [c EXCEPT !.status = "opted_out"] \in RecipientType
        /\ [c EXCEPT !.opened = TRUE] \in RecipientType
  BY DEF RecipientType, RecipientStatus
<1>2. CASE ReportSave(h)
  <2>1. handler[h].pc = "report" /\ handler[h].report \in Reports
    BY <1>2 DEF ReportSave, Step, RequestsSound
  <2>2. row' = [row EXCEPT ![r] = ReportedRow(row[r], handler[h].copy, handler[h].report)]
    BY <1>2 DEF ReportSave
  <2>3. LET new == ReportedRow(row[r], handler[h].copy, handler[h].report) IN
          /\ new \in RecipientType
          /\ new.status = ReportedStatus(handler[h].report)
          /\ new.known = row[r].known /\ new.opened = row[r].opened
          /\ row[r].delivered => new.delivered
    BY <1>1, <2>1, ReportTypes DEF ReportedRow, RecipientType, RecipientStatus
  <2>4. ~OptOutSave(h) /\ ~Edits(h) /\ ~OpenSave(h)
    BY <2>1 DEF OptOutSave, Edits, EditSave, OpenSave, Step
  <2>5. /\ row' \in [Recipient -> RecipientType]
        /\ row'[r] = ReportedRow(row[r], handler[h].copy, handler[h].report)
        /\ \A q \in Recipient \ {r} : row'[q] = row[q]
    BY <1>1, <2>2, <2>3 DEF TypeOK
  <2> QED
    BY <2>1, <2>3, <2>4, <2>5
<1>3. CASE OptOutSave(h)
  <2>1. handler[h].pc = "optOut" /\ ~ReportSave(h) /\ ~Edits(h) /\ ~OpenSave(h)
    BY <1>3 DEF OptOutSave, ReportSave, Edits, EditSave, OpenSave, Step
  <2>2. row' = [row EXCEPT ![r] = [handler[h].copy EXCEPT !.status = "opted_out"]]
    BY <1>3 DEF OptOutSave
  <2>3. /\ row' \in [Recipient -> RecipientType]
        /\ row'[r] = [handler[h].copy EXCEPT !.status = "opted_out"]
        /\ \A q \in Recipient \ {r} : row'[q] = row[q]
    BY <1>1, <1>a, <2>2 DEF TypeOK
  <2> QED
    BY <2>1, <2>3
<1>4. CASE Edits(h)
  <2>1. handler[h].pc = "edit" /\ ~ReportSave(h) /\ ~OptOutSave(h) /\ ~OpenSave(h)
    BY <1>4 DEF Edits, EditSave, ReportSave, OptOutSave, OpenSave, Step
  <2>2. PICK f \in Patches : EditSave(h, f)
    BY <1>4 DEF Edits
  <2>3. row' = [row EXCEPT ![r] = Edited(handler[h].copy, f)]
    BY <2>2 DEF EditSave
  <2>4. /\ row' \in [Recipient -> RecipientType] /\ row'[r] = Edited(handler[h].copy, f)
        /\ \A q \in Recipient \ {r} : row'[q] = row[q]
    BY <1>1, <2>3, PatchTypes DEF TypeOK
  <2>5. "status" \in DOMAIN f => r \in handmade'
    BY <2>2 DEF EditSave
  <2>6. /\ ~handler[h].copy.known => ~row'[r].known
        /\ r \notin handmade' => row'[r].status = handler[h].copy.status
    BY <1>1, <2>4, <2>5, PatchTypes
  <2> QED
    BY <2>1, <2>4, <2>6
<1>5. CASE OpenSave(h)
  <2>1. handler[h].pc = "open" /\ ~ReportSave(h) /\ ~OptOutSave(h) /\ ~Edits(h)
    BY <1>5 DEF OpenSave, Edits, EditSave, ReportSave, OptOutSave, Step
  <2>2. row' = [row EXCEPT ![r] = [row[r] EXCEPT !.opened = TRUE]]
    BY <1>5 DEF OpenSave
  <2>3. /\ row' \in [Recipient -> RecipientType]
        /\ row'[r] = [row[r] EXCEPT !.opened = TRUE]
        /\ \A q \in Recipient \ {r} : row'[q] = row[q]
    BY <1>1, <1>a, <2>2 DEF TypeOK
  <2> QED
    BY <2>1, <2>3
<1>6. CASE ReportLog(h) \/ OptOutContact(h) \/ ViewLog(h) \/ ClickLog(h)
  <2>1. row' = row
    BY <1>6 DEF ReportLog, OptOutContact, ViewLog, ClickLog
  <2>2. ~ReportSave(h) /\ ~OptOutSave(h) /\ ~Edits(h) /\ ~OpenSave(h)
    BY <1>6 DEF ReportLog, OptOutContact, ViewLog, ClickLog, ReportSave, OptOutSave, Edits, EditSave,
                OpenSave, Step
  <2> QED
    BY <1>1, <2>1, <2>2 DEF TypeOK
<1> QED
  BY <1>2, <1>3, <1>4, <1>5, <1>6 DEF HandlerStep

\* Every step keeps the types, and the requests sound.
LEMMA TypeStep == TypeOK /\ RequestsSound /\ [Next]_deliveryVars => TypeOK' /\ RequestsSound'
<1> SUFFICES ASSUME TypeOK, RequestsSound, [Next]_deliveryVars
             PROVE  TypeOK' /\ RequestsSound'
  OBVIOUS
<1>1. ASSUME NEW r \in Recipient, NEW fate \in Fates \cup {None}, CallProvider(r, fate)
      PROVE  TypeOK' /\ RequestsSound'
  BY <1>1 DEF CallProvider, TypeOK, RequestsSound
<1>2. ASSUME NEW r \in Recipient, SaveAnswer(r)
      PROVE  TypeOK' /\ RequestsSound'
  <2>1. \A c \in RecipientType :
          [c EXCEPT !.status = IF Accepted(r) THEN "sent" ELSE "failed",
                    !.known = Accepted(r)] \in RecipientType
    BY DEF RecipientType, RecipientStatus, Accepted
  <2>2. row' \in [Recipient -> RecipientType]
    BY <1>2, <2>1 DEF SaveAnswer, TypeOK
  <2> QED
    BY <1>2, <2>2 DEF SaveAnswer, TypeOK, RequestsSound
<1>3. ASSUME NEW r \in Recipient, LogAnswer(r)
      PROVE  TypeOK' /\ RequestsSound'
  <2>1. event' \in [Recipient -> [EventType -> Nat]]
    BY <1>3, LogType DEF LogAnswer, EventType
  <2> QED
    BY <1>3, <2>1 DEF LogAnswer, TypeOK, RequestsSound
<1>4. ASSUME NEW r \in Recipient, LoseSender(r)
      PROVE  TypeOK' /\ RequestsSound'
  <2>1. faults' \in 0 .. MaxFaults
    BY <1>4, DeliveryAssumption DEF LoseSender, TypeOK
  <2>2. sender' \in [Recipient -> [pc : {"queued", "answered", "saved", "logged", "lost"},
                                  fate : Fates \cup {None}]]
    BY <1>4 DEF LoseSender, TypeOK
  <2> QED
    BY <1>4, <2>1, <2>2 DEF LoseSender, TypeOK, RequestsSound
<1>5. ASSUME NEW h \in Handler, NEW r \in Recipient,
             \/ \E v \in Reports : Report(h, r, v)
             \/ OptOut(h, r) \/ EditRecipient(h, r) \/ OpenPage(h, r)
             \/ \E b \in Block : Click(h, r, b)
      PROVE  TypeOK' /\ RequestsSound'
  <2>1. PICK pc, report, click : Begins(h, r, pc, report, click)
    BY <1>5, BeginsOf
  <2>2. action' \in [Block -> [live : BOOLEAN, made : Nat]]
    <3>1. CASE UNCHANGED action
      BY <3>1 DEF TypeOK
    <3>2. ASSUME NEW b \in Block, Click(h, r, b)
          PROVE  action' \in [Block -> [live : BOOLEAN, made : Nat]]
      BY <3>2 DEF Click, TypeOK
    <3> QED
      BY <1>5, <3>1, <3>2 DEF Report, OptOut, EditRecipient, OpenPage
  <2>3. TypeOK'
    BY <1>5, <2>1, <2>2, BeginsOf, BegunRequest DEF TypeOK
  <2>4. RequestsSound'
    <3>1. row[r] \in RecipientType
      BY DEF TypeOK
    <3>2. /\ handler'[h].pc = pc /\ handler'[h].of = r /\ handler'[h].copy = row[r]
          /\ handler'[h].report = report
          /\ \A g \in Handler \ {h} : handler'[g] = handler[g]
      <4>1. handler'[h] = [pc |-> pc, of |-> r, copy |-> row[r], report |-> report, click |-> click]
            /\ \A g \in Handler \ {h} : handler'[g] = handler[g]
        BY <2>1, BegunRequest
      <4> QED
        BY <4>1
    <3>3. pc # "idle" /\ pc # "reported" /\ (pc = "report" => report \in Reports)
      BY <2>1 DEF Begins
    <3> QED
      BY <3>1, <3>2, <3>3 DEF RequestsSound
  <2> QED
    BY <2>3, <2>4
<1>6. ASSUME NEW h \in Handler, HandlerStep(h)
      PROVE  TypeOK' /\ RequestsSound'
  <2>1. row' \in [Recipient -> RecipientType]
    BY <1>6, RowSaved
  <2>2. event' \in [Recipient -> [EventType -> Nat]]
    <3>1. handler[h].of \in Recipient
      BY <1>6, HandlerSteps
    <3>2. CASE ReportLog(h)
      <4>1. ReportedEvent(handler[h].report) \in EventType
        BY <3>2, ReportTypes DEF ReportLog, Step, RequestsSound
      <4> QED
        BY <3>1, <3>2, <4>1, LogType DEF ReportLog
    <3>3. CASE ViewLog(h) \/ ClickLog(h)
      BY <3>1, <3>3, LogType DEF ViewLog, ClickLog, EventType, TypeOK
    <3> QED
      BY <1>6, <3>2, <3>3 DEF HandlerStep, ReportSave, OptOutSave, OptOutContact, Edits, EditSave,
                              OpenSave, TypeOK
  <2>3. contact' \in [Recipient -> {"subscribed", "unsubscribed"}] /\ UNCHANGED action
    BY <1>6 DEF HandlerStep, ReportSave, ReportLog, OptOutSave, OptOutContact, Edits, EditSave, OpenSave,
                ViewLog, ClickLog, TypeOK
  <2>4. handmade' \subseteq Recipient
    <3>1. handler[h].of \in Recipient
      BY <1>6, HandlerSteps
    <3> QED
      BY <1>6, <3>1 DEF HandlerStep, ReportSave, ReportLog, OptOutSave, OptOutContact, Edits,
         EditSave, OpenSave, ViewLog, ClickLog, TypeOK
  <2> QED
    BY <1>6, <2>1, <2>2, <2>3, <2>4, HandlerSteps DEF TypeOK
<1>7. ASSUME NEW h \in Handler, LoseRequest(h)
      PROVE  TypeOK' /\ RequestsSound'
  <2>1. Idle \in RequestType /\ Idle.pc = "idle" /\ Idle.of = None
    BY DEF Idle, RequestType
  <2> QED
    BY <1>7, <2>1, DeliveryAssumption DEF LoseRequest, TypeOK, RequestsSound
<1>8. ASSUME NEW b \in Block, DeleteAction(b)
      PROVE  TypeOK' /\ RequestsSound'
  <2>1. requests' \in 0 .. MaxRequests
    BY <1>8, DeliveryAssumption DEF DeleteAction, WriteEvent, TypeOK
  <2>2. action' \in [Block -> [live : BOOLEAN, made : Nat]]
    BY <1>8 DEF DeleteAction, WriteEvent, TypeOK
  <2> QED
    BY <1>8, <2>1, <2>2 DEF DeleteAction, WriteEvent, TypeOK, RequestsSound
<1>9. CASE UNCHANGED deliveryVars
  BY <1>9 DEF deliveryVars, TypeOK, RequestsSound
<1>10. ASSUME NEW r \in Recipient, NEW old \in EventType \cup {None},
              NEW new \in EventType \cup {None}, WriteEvent(r, old, new)
       PROVE  TypeOK' /\ RequestsSound'
  <2>1. requests' \in 0 .. MaxRequests
    BY <1>10, DeliveryAssumption DEF WriteEvent, TypeOK
  <2>2. event' \in [Recipient -> [EventType -> Nat]]
    BY <1>10, WriteEventType
  <2> QED
    BY <1>10, <2>1, <2>2 DEF WriteEvent, TypeOK, RequestsSound
<1> QED
  BY <1>1, <1>2, <1>3, <1>4, <1>5, <1>6, <1>7, <1>8, <1>9, <1>10 DEF Next, HandlerStep, Edits
\* Nobody knows a message id before the worker has saved it.
LEMMA UnknownStep ==
  TypeOK /\ RequestsSound /\ UnknownUntilSaved /\ [Next]_deliveryVars => UnknownUntilSaved'
<1> SUFFICES ASSUME TypeOK, RequestsSound, UnknownUntilSaved, [Next]_deliveryVars,
                    NEW r \in Recipient, sender'[r].pc \in {"queued", "answered"}
             PROVE  /\ ~row'[r].known
                    /\ \A h \in Handler : handler'[h].of = r => ~handler'[h].copy.known
  BY DEF UnknownUntilSaved
<1> DEFINE Unknown == /\ ~row[r].known
                      /\ \A h \in Handler : handler[h].of = r => ~handler[h].copy.known
<1>1. ASSUME NEW q \in Recipient, 
             \/ \E fate \in Fates \cup {None} : CallProvider(q, fate)
             \/ SaveAnswer(q) \/ LogAnswer(q) \/ LoseSender(q)
      PROVE  Unknown'
  <2>1. UNCHANGED handler
    BY <1>1 DEF CallProvider, SaveAnswer, LogAnswer, LoseSender
  <2>2. UNCHANGED row[r] /\ sender[r].pc \in {"queued", "answered"}
    <3>1. CASE \E fate \in Fates \cup {None} : CallProvider(q, fate)
      BY <3>1 DEF CallProvider, TypeOK
    <3>2. CASE SaveAnswer(q)
      BY <3>2 DEF SaveAnswer, TypeOK
    <3>3. CASE LogAnswer(q) \/ LoseSender(q)
      BY <3>3 DEF LogAnswer, LoseSender, TypeOK
    <3> QED
      BY <1>1, <3>1, <3>2, <3>3
  <2> QED
    BY <2>1, <2>2 DEF UnknownUntilSaved
<1>2. ASSUME UNCHANGED <<row, sender, handler>>
      PROVE  Unknown'
  BY <1>2 DEF UnknownUntilSaved
<1>3. ASSUME UNCHANGED sender
      PROVE  Unknown
  BY <1>3 DEF UnknownUntilSaved
<1>4. ASSUME NEW h \in Handler, NEW q \in Recipient,
             \/ \E v \in Reports : Report(h, q, v)
             \/ OptOut(h, q) \/ EditRecipient(h, q) \/ OpenPage(h, q)
             \/ \E b \in Block : Click(h, q, b)
      PROVE  Unknown'
  <2>1. PICK pc, report, click : Begins(h, q, pc, report, click)
    BY <1>4, BeginsOf
  <2>2. /\ handler'[h] = [pc |-> pc, of |-> q, copy |-> row[q], report |-> report, click |-> click]
        /\ \A g \in Handler \ {h} : handler'[g] = handler[g]
    BY <2>1, BegunRequest
  <2>3. UNCHANGED row /\ Unknown
    BY <1>3, <1>4, BeginsOf
  <2> QED
    BY <2>2, <2>3
<1>5. ASSUME NEW h \in Handler, HandlerStep(h)
      PROVE  Unknown'
  <2>1. Unknown
    BY <1>3, <1>5, HandlerSteps
  <2>2. \A g \in Handler : handler'[g].of = r =>
          handler[g].of = r /\ handler'[g].copy = handler[g].copy
    BY <1>5, HandlerSteps, DeliveryAssumption
  <2>3. ~row'[r].known
    <3>1. CASE handler[h].of # r
      BY <1>5, <2>1, <3>1, RowSaved
    <3>2. CASE handler[h].of = r
      <4>1. ~handler[h].copy.known /\ handler[h].copy \in RecipientType
        BY <1>5, <2>1, <3>2, HandlerSteps
      <4>2. row[r] \in RecipientType
        BY DEF TypeOK
      <4>3. ~[handler[h].copy EXCEPT !.status = "opted_out"].known
            /\ ~[row[r] EXCEPT !.opened = TRUE].known
        BY <2>1, <4>1, <4>2 DEF RecipientType
      <4>4. CASE ReportSave(h)
        BY <1>5, <2>1, <3>2, <4>4, RowSaved
      <4>5. CASE OptOutSave(h)
        BY <1>5, <3>2, <4>3, <4>5, RowSaved
      <4>6. CASE Edits(h)
        BY <1>5, <3>2, <4>1, <4>6, RowSaved
      <4>7. CASE OpenSave(h)
        BY <1>5, <3>2, <4>3, <4>7, RowSaved
      <4>8. CASE ReportLog(h) \/ OptOutContact(h) \/ ViewLog(h) \/ ClickLog(h)
        BY <2>1, <4>8 DEF ReportLog, OptOutContact, ViewLog, ClickLog
      <4> QED
        BY <1>5, <4>4, <4>5, <4>6, <4>7, <4>8 DEF HandlerStep
    <3> QED
      BY <3>1, <3>2
  <2> QED
    BY <2>1, <2>2, <2>3
<1>6. ASSUME NEW h \in Handler, LoseRequest(h)
      PROVE  Unknown'
  <2>1. handler'[h] = Idle /\ \A g \in Handler \ {h} : handler'[g] = handler[g]
    BY <1>6 DEF LoseRequest, TypeOK
  <2>2. Unknown /\ UNCHANGED row
    BY <1>3, <1>6 DEF LoseRequest
  <2> QED
    BY <2>1, <2>2, DeliveryAssumption DEF Idle
<1> QED
  BY ZenonT(60), <1>1, <1>2, <1>4, <1>5, <1>6
  DEF Next, HandlerStep, Edits, DeleteAction, WriteEvent, deliveryVars

\* A row forgets only in the step of an opt-out or an edit that saves the whole of it.
LEMMA ForgetStep ==
  TypeOK /\ RequestsSound /\ UnknownUntilSaved /\ [Next]_deliveryVars =>
    \A r \in Recipient :
      Forgets(r) => \E h \in Handler : /\ handler[h].of = r
                                       /\ handler[h].pc \in {"optOut", "edit"}
                                       /\ handler'[h].pc # handler[h].pc
<1> SUFFICES ASSUME TypeOK, RequestsSound, UnknownUntilSaved, [Next]_deliveryVars,
                    NEW r \in Recipient, Forgets(r)
             PROVE  \E h \in Handler : /\ handler[h].of = r
                                       /\ handler[h].pc \in {"optOut", "edit"}
                                       /\ handler'[h].pc # handler[h].pc
  OBVIOUS
<1>1. row'[r] # row[r] /\ row[r] \in RecipientType
  BY DEF Forgets, TypeOK
<1>2. ASSUME NEW q \in Recipient, SaveAnswer(q)
      PROVE  FALSE
  <2>1. q = r /\ ~row[r].known
    BY <1>1, <1>2 DEF SaveAnswer, UnknownUntilSaved, TypeOK
  <2>2. row'[r].delivered = row[r].delivered /\ row'[r].opened = row[r].opened
    BY <1>1, <1>2, <2>1 DEF SaveAnswer, TypeOK, RecipientType
  <2> QED
    BY <2>1, <2>2 DEF Forgets
<1>3. ASSUME NEW h \in Handler, HandlerStep(h)
      PROVE  /\ handler[h].of = r /\ handler[h].pc \in {"optOut", "edit"}
             /\ handler'[h].pc # handler[h].pc
  <2>1. handler[h].of = r /\ handler'[h].pc # handler[h].pc
    BY <1>1, <1>3, RowSaved, HandlerSteps
  <2>2. ~ReportSave(h)
    BY <1>3, <2>1, RowSaved DEF Forgets
  <2>3. ~OpenSave(h)
    <3>1. LET new == [row[r] EXCEPT !.opened = TRUE] IN
            new.known = row[r].known /\ new.delivered = row[r].delivered /\ new.opened
      BY <1>1 DEF RecipientType
    <3> QED
      BY <1>3, <2>1, <3>1, RowSaved DEF Forgets
  <2>4. OptOutSave(h) \/ Edits(h)
    BY <1>1, <1>3, <2>2, <2>3 DEF HandlerStep, ReportLog, OptOutContact, ViewLog, ClickLog
  <2> QED
    BY <2>1, <2>4 DEF OptOutSave, Edits, EditSave, Step
<1>4. ~UNCHANGED row
  BY <1>1
<1> QED
  BY ZenonT(60), <1>2, <1>3, <1>4
  DEF Next, HandlerStep, Edits, CallProvider, LogAnswer, LoseSender, Report, OptOut, EditRecipient,
      OpenPage, Click, LoseRequest, DeleteAction, WriteEvent, deliveryVars
\* A status stays backed while no record is lost: whoever was about to log it has not, or
\* has, by the end of the step.
LEMMA BackedStays ==
  ASSUME TypeOK, RequestsSound, [Next]_deliveryVars, faults' = 0,
         NEW r \in Recipient \ handmade', NEW c \in RecipientType, Backed(r, c.status)
  PROVE  Backed(r, c.status)'
<1> DEFINE st == c.status
           e == EventOfStatus(c.status)
<1>1. CASE st \in {"queued", "opted_out"}
  BY <1>1 DEF Backed
<1> SUFFICES ASSUME st \notin {"pending", "queued", "opted_out"}
             PROVE  Backed(r, st)'
  BY <1>1 DEF Backed
<1>2. e \in EventType
  BY StatusTypes
<1>3. ASSUME NEW q \in Recipient, NEW d \in EventType, Log(q, d)
      PROVE  event[r][e] > 0 => event'[r][e] > 0
  BY <1>2, <1>3, LogType DEF TypeOK
<1>4. event[r][e] > 0 => event'[r][e] > 0
  <2>1. ASSUME NEW q \in Recipient, LogAnswer(q)
        PROVE  event[r][e] > 0 => event'[r][e] > 0
    BY <1>3, <2>1 DEF LogAnswer, EventType
  <2>2. ASSUME NEW h \in Handler, ReportLog(h) \/ ViewLog(h) \/ ClickLog(h)
        PROVE  event[r][e] > 0 => event'[r][e] > 0
    <3>1. handler[h].of \in Recipient
      BY <2>2 DEF ReportLog, ViewLog, ClickLog, Step, RequestsSound
    <3>2. CASE ReportLog(h)
      <4>1. ReportedEvent(handler[h].report) \in EventType
        BY <3>2, ReportTypes DEF ReportLog, Step, RequestsSound
      <4> QED
        BY <1>3, <3>1, <3>2, <4>1 DEF ReportLog
    <3>3. CASE ViewLog(h) \/ ClickLog(h)
      BY <1>3, <3>1, <3>3 DEF ViewLog, ClickLog, EventType
    <3> QED
      BY <2>2, <3>2, <3>3
  <2>3. CASE UNCHANGED event
    BY <2>3
  <2>4. ASSUME NEW q \in Recipient, NEW old \in EventType \cup {None},
               NEW new \in EventType \cup {None}, WriteEvent(q, old, new)
        PROVE  event[r][e] > 0 => event'[r][e] > 0
    <3>1. q # r
      BY <2>4 DEF WriteEvent
    <3> QED
      BY <2>4, <3>1, WriteEventType
  <2> QED
    BY ZenonT(60), <2>1, <2>2, <2>3, <2>4
    DEF Next, CallProvider, SaveAnswer, LoseSender, Report, OptOut, EditRecipient, OpenPage, Click,
        ReportSave, OptOutSave, OptOutContact, Edits, EditSave, OpenSave, LoseRequest, DeleteAction, WriteEvent,
        deliveryVars
<1>5. CASE event[r][e] > 0
  BY <1>4, <1>5 DEF Backed
<1>6. CASE sender[r].pc = "saved" /\ st = (IF Accepted(r) THEN "sent" ELSE "failed")
  <2>1. CASE UNCHANGED sender
    BY <1>6, <2>1 DEF Backed, Accepted
  <2>2. ASSUME NEW q \in Recipient, LogAnswer(q)
        PROVE  Backed(r, st)'
    <3>1. CASE q = r
      <4>1. e = (IF Accepted(r) THEN "sent" ELSE "failed")
        BY <1>6 DEF EventOfStatus
      <4>2. event'[r][e] > 0
        BY <1>2, <2>2, <3>1, <4>1, LogType DEF LogAnswer
      <4> QED
        BY <4>2 DEF Backed
    <3>2. CASE q # r
      <4>1. sender'[r] = sender[r]
        BY <2>2, <3>2 DEF LogAnswer, TypeOK
      <4> QED
        BY <1>6, <4>1 DEF Backed, Accepted
    <3> QED
      BY <3>1, <3>2
  <2>3. ASSUME NEW q \in Recipient, 
               SaveAnswer(q) \/ \E fate \in Fates \cup {None} : CallProvider(q, fate)
        PROVE  Backed(r, st)'
    <3>1. sender'[r] = sender[r]
      BY <1>6, <2>3 DEF SaveAnswer, CallProvider, TypeOK
    <3> QED
      BY <1>6, <3>1 DEF Backed, Accepted
  <2>4. ASSUME NEW q \in Recipient, LoseSender(q)
        PROVE  FALSE
    BY <2>4, DeliveryAssumption DEF LoseSender, TypeOK
  <2> QED
    BY ZenonT(60), <2>1, <2>2, <2>3, <2>4
    DEF Next, Report, OptOut, EditRecipient, OpenPage, Click, Begin, ReportSave, ReportLog,
        OptOutSave, OptOutContact, Edits, EditSave, OpenSave, ViewLog, ClickLog, Step, LoseRequest,
        DeleteAction, WriteEvent, deliveryVars
<1>7. ASSUME NEW h \in Handler, handler[h].pc = "reported", handler[h].of = r,
             ReportedEvent(handler[h].report) = e
      PROVE  Backed(r, st)'
  <2>1. CASE handler'[h] = handler[h]
    BY <1>7, <2>1 DEF Backed
  <2>2. CASE ReportLog(h)
    <3>1. event'[r][e] > 0
      BY <1>2, <1>7, <2>2, LogType DEF ReportLog
    <3> QED
      BY <3>1 DEF Backed
  <2>3. ASSUME NEW g \in Handler, NEW q \in Recipient,
               \/ \E v \in Reports : Report(g, q, v)
               \/ OptOut(g, q) \/ EditRecipient(g, q) \/ OpenPage(g, q)
               \/ \E b \in Block : Click(g, q, b)
        PROVE  handler'[h] = handler[h]
    <3>1. PICK pc, report, click : Begins(g, q, pc, report, click)
      BY <2>3, BeginsOf
    <3>2. handler[g].pc = "idle" /\ \A x \in Handler \ {g} : handler'[x] = handler[x]
      BY <3>1, BegunRequest
    <3> QED
      BY <1>7, <3>2
  <2>4. ASSUME NEW g \in Handler, HandlerStep(g), ~ReportLog(h)
        PROVE  handler'[h] = handler[h]
    <3>1. g # h
      BY <1>7, <2>4 DEF HandlerStep, ReportSave, OptOutSave, OptOutContact, Edits, EditSave, OpenSave,
                        ViewLog, ClickLog, Step
    <3> QED
      BY <2>4, <3>1, HandlerSteps
  <2>5. ASSUME NEW g \in Handler, LoseRequest(g)
        PROVE  FALSE
    BY <2>5, DeliveryAssumption DEF LoseRequest, TypeOK
  <2>6. CASE UNCHANGED handler
    BY <2>1, <2>6
  <2> QED
    BY ZenonT(60), <2>1, <2>2, <2>3, <2>4, <2>5, <2>6
    DEF Next, HandlerStep, Edits, CallProvider, SaveAnswer, LogAnswer, LoseSender, DeleteAction,
        WriteEvent, deliveryVars
<1> QED
  BY <1>5, <1>6, <1>7 DEF Backed
\* Every step keeps the statuses backed, in the rows and in the copies.
LEMMA BackedStep ==
  TypeOK /\ RequestsSound /\ StatusesBacked /\ [Next]_deliveryVars => StatusesBacked'
<1> SUFFICES ASSUME TypeOK, RequestsSound, StatusesBacked, [Next]_deliveryVars, faults' = 0,
                    NEW r \in Recipient \ handmade'
             PROVE  /\ Backed(r, row[r].status)'
                    /\ \A h \in Handler : handler'[h].of = r => Backed(r, handler[h].copy.status)'
  BY DEF StatusesBacked
<1>1. faults = 0
  <2>1. UNCHANGED faults \/ faults' = faults + 1
    BY DEF Next, CallProvider, SaveAnswer, LogAnswer, LoseSender, Report, OptOut, EditRecipient,
           OpenPage, Click, ReportSave, ReportLog, OptOutSave, OptOutContact, Edits, EditSave, OpenSave,
           ViewLog, ClickLog, Step, LoseRequest, DeleteAction, WriteEvent, deliveryVars, TypeOK
  <2> QED
    BY <2>1, DeliveryAssumption DEF TypeOK
<1>0. r \notin handmade
  BY DEF Next, CallProvider, SaveAnswer, LogAnswer, LoseSender, Report, OptOut, EditRecipient,
         OpenPage, Click, ReportSave, ReportLog, OptOutSave, OptOutContact, EditSave, OpenSave,
         ViewLog, ClickLog, LoseRequest, DeleteAction, WriteEvent, deliveryVars
<1>2. \A c \in RecipientType : Backed(r, c.status) => Backed(r, c.status)'
  BY BackedStays
<1>3. row[r] \in RecipientType /\ Backed(r, row[r].status)
  BY <1>0, <1>1 DEF TypeOK, StatusesBacked
<1>4. \A c \in RecipientType : c = row[r] => Backed(r, c.status)'
  BY <1>2, <1>3
<1>5. \A h \in Handler, c \in RecipientType :
        handler[h].of = r /\ c = handler[h].copy => Backed(r, c.status)'
  BY <1>0, <1>1, <1>2 DEF StatusesBacked
<1>6. Backed(r, row[r].status)'
  <2>1. CASE row'[r] = row[r]
    BY <1>3, <1>4, <2>1 DEF Backed, Accepted
  <2>2. ASSUME NEW q \in Recipient, SaveAnswer(q), row'[r] # row[r]
        PROVE  Backed(r, row[r].status)'
    <3>1. q = r
      BY <2>2 DEF SaveAnswer, TypeOK
    <3>2. sender'[r].pc = "saved" /\ sender'[r].fate = sender[r].fate
      BY <2>2, <3>1 DEF SaveAnswer, TypeOK
    <3>3. row'[r].status = IF Accepted(r) THEN "sent" ELSE "failed"
      BY <1>3, <2>2, <3>1 DEF SaveAnswer, TypeOK, RecipientType
    <3> QED
      BY <3>2, <3>3 DEF Backed, Accepted
  <2>3. ASSUME NEW h \in Handler, HandlerStep(h), row'[r] # row[r]
        PROVE  Backed(r, row[r].status)'
    <3>1. handler[h].of = r /\ handler[h].copy \in RecipientType
      BY <2>3, RowSaved, HandlerSteps
    <3>2. CASE ReportSave(h)
      <4>1. handler[h].report \in Reports /\ handler'[h].pc = "reported"
        BY <3>2, SteppedRequest DEF ReportSave, Step, RequestsSound
      <4>2. handler'[h].of = r /\ handler'[h].report = handler[h].report
        BY <2>3, <3>1, <4>1, HandlerSteps
      <4>3. row'[r].status = ReportedStatus(handler[h].report)
        BY <2>3, <3>1, <3>2, RowSaved
      <4>4. ReportedEvent(handler'[h].report) = EventOfStatus(row'[r].status)
        BY <4>1, <4>2, <4>3, ReportTypes
      <4>5. row'[r].status # "pending"
        BY <4>1, <4>3, ReportTypes
      <4> QED
        BY <4>1, <4>2, <4>4, <4>5 DEF Backed
    <3>3. CASE OptOutSave(h)
      <4>1. row'[r] = [handler[h].copy EXCEPT !.status = "opted_out"]
        BY <2>3, <3>1, <3>3, RowSaved
      <4>2. row'[r].status = "opted_out"
        BY <3>1, <4>1 DEF RecipientType
      <4> QED
        BY <4>2 DEF Backed
    <3>4. CASE Edits(h)
      <4>1. row'[r].status = handler[h].copy.status
        BY <2>3, <3>1, <3>4, RowSaved
      <4> QED
        BY <1>5, <3>1, <4>1 DEF Backed, Accepted
    <3>5. CASE OpenSave(h)
      <4>1. row'[r] = [row[r] EXCEPT !.opened = TRUE]
        BY <2>3, <3>1, <3>5, RowSaved
      <4>2. row'[r].status = row[r].status
        BY <1>3, <4>1 DEF RecipientType
      <4> QED
        BY <1>3, <1>4, <4>2 DEF Backed, Accepted
    <3> QED
      BY <2>3, <3>2, <3>3, <3>4, <3>5
      DEF HandlerStep, ReportLog, OptOutContact, ViewLog, ClickLog
  <2> QED
    BY ZenonT(60), <2>1, <2>2, <2>3
    DEF Next, HandlerStep, Edits, CallProvider, LogAnswer, LoseSender, Report, OptOut, EditRecipient,
        OpenPage, Click, LoseRequest, DeleteAction, WriteEvent, deliveryVars
<1>7. ASSUME NEW g \in Handler, handler'[g].of = r
      PROVE  Backed(r, handler[g].copy.status)'
  <2>1. CASE handler[g].of = r /\ handler'[g].copy = handler[g].copy
    <3>1. handler[g].copy \in RecipientType
      BY <2>1, DeliveryAssumption DEF RequestsSound
    <3> QED
      BY <1>5, <2>1, <3>1 DEF Backed, Accepted
  <2>2. CASE handler'[g].copy = row[r]
    BY <1>3, <1>4, <2>2 DEF Backed, Accepted
  <2>3. ASSUME NEW h \in Handler, NEW q \in Recipient,
               \/ \E v \in Reports : Report(h, q, v)
               \/ OptOut(h, q) \/ EditRecipient(h, q) \/ OpenPage(h, q)
               \/ \E b \in Block : Click(h, q, b)
        PROVE  \/ handler[g].of = r /\ handler'[g].copy = handler[g].copy
               \/ handler'[g].copy = row[r]
    <3>1. PICK pc, report, click : Begins(h, q, pc, report, click)
      BY <2>3, BeginsOf
    <3>2. /\ handler'[h] = [pc |-> pc, of |-> q, copy |-> row[q], report |-> report, click |-> click]
          /\ \A x \in Handler \ {h} : handler'[x] = handler[x]
      BY <3>1, BegunRequest
    <3> QED
      BY <1>7, <3>2
  <2>4. ASSUME NEW h \in Handler, HandlerStep(h)
        PROVE  handler[g].of = r /\ handler'[g].copy = handler[g].copy
    BY <1>7, <2>4, HandlerSteps, DeliveryAssumption
  <2>5. ASSUME NEW h \in Handler, LoseRequest(h)
        PROVE  FALSE
    BY <2>5, DeliveryAssumption DEF LoseRequest, TypeOK
  <2>6. CASE UNCHANGED handler
    BY <1>7, <2>1, <2>6
  <2> QED
    BY ZenonT(60), <2>1, <2>2, <2>3, <2>4, <2>5, <2>6
    DEF Next, HandlerStep, Edits, CallProvider, SaveAnswer, LogAnswer, LoseSender, DeleteAction, WriteEvent,
        deliveryVars
<1> QED
  BY <1>6, <1>7

\* The invariant of the deliveries holds in every reachable state.
LEMMA Inductive == Spec => []IInv
<1>1. IInv /\ [Next]_deliveryVars => IInv'
  BY TypeStep, UnknownStep, BackedStep DEF IInv
<1> QED
  BY InitIInv, <1>1, PTL DEF Spec

\* Rows, events, actions and requests keep their types.
THEOREM DeliveryTypes == Spec => []TypeOK
<1>1. IInv => TypeOK
  BY DEF IInv
<1> QED
  BY <1>1, Inductive, PTL

\* The status of a recipient and its events agree once nothing is under way, for any
\* number of recipients, reports, opt-outs, edits and workers: the writer of a status
\* is the one that logs it, and a copy of a row carries a status that was written.
THEOREM StatusesHaveEvents == Spec => []StatusHasItsEvent
<1>1. IInv => StatusHasItsEvent
  <2> SUFFICES ASSUME IInv, NEW r \in Recipient \ handmade, faults = 0, Quiet(r),
                      row[r].status \notin {"queued", "opted_out"}
               PROVE  event[r][EventOfStatus(row[r].status)] > 0
    BY DEF StatusHasItsEvent
  <2>1. Backed(r, row[r].status)
    BY DEF IInv, StatusesBacked
  <2> QED
    BY <2>1 DEF Backed, Quiet
<1> QED
  BY <1>1, Inductive, PTL

\* Nothing but an opt-out or an edit, which save the whole row, makes a recipient forget
\* that its message was sent, delivered or opened: the worker writes the message id
\* before anyone can know it, and the reports and the page write their own columns.
THEOREM OnlyWholeSavesForgetIt == Spec => OnlyWholeSavesForget
<1> DEFINE ByWholeSave ==
      \A r \in Recipient :
        Forgets(r) => \E h \in Handler : /\ handler[h].of = r
                                         /\ handler[h].pc \in {"optOut", "edit"}
                                         /\ handler'[h].pc # handler[h].pc
<1>1. IInv /\ [Next]_deliveryVars => ByWholeSave
  BY ForgetStep DEF IInv
<1>2. IInv /\ [Next]_deliveryVars => [ByWholeSave]_deliveryVars
  BY <1>1
<1> QED
  BY <1>2, Inductive, PTL DEF Spec, OnlyWholeSavesForget
=============================================================================
