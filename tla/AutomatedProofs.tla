-------------------------- MODULE AutomatedProofs --------------------------
(***************************************************************************)
(* The properties of automations and single sends, for any number of       *)
(* automations, messages, contacts and workers.  The two halves share no   *)
(* variable, so each has an invariant of its own.                          *)
(***************************************************************************)
EXTENDS Automated, SumProofs

UpdatePC == {"idle", "read", "schedule", "save", "unschedule"}

AutomationTypes ==
  /\ automation \in [Automation -> Row \cup {Missing}]
  /\ periodic \in Task \cup {Missing}
  /\ lastTask \in Nat
  /\ update \in [Writer -> [pc : UpdatePC, key : Automation \cup {Missing}, row : Row \cup {Missing}]]
  /\ \A w \in Writer : IF update[w].pc = "idle" THEN update[w].key = Missing
                       ELSE update[w].key \in Automation /\ update[w].row \in Row
  /\ disturbed \subseteq Automation /\ displaced \subseteq Automation

\* What the updates of an undisturbed automation know of it: there is one at most, and
\* its copy is the row.
CopiesSound ==
  \A w \in Writer :
    LET u == update[w]  a == u.key IN
    u.pc # "idle" /\ a \notin disturbed =>
      /\ Alone(w)
      /\ automation[a] # Missing => u.row = automation[a]
      /\ u.pc \in {"schedule", "save"} => Runs(u.row)
      /\ u.pc = "unschedule" => Stops(u.row)

\* An undisturbed automation knows the task that was made from it.
TaskKnown ==
  \A a \in Automation \ disturbed :
    automation[a] # Missing /\ ScheduledFor(a) => automation[a].task = periodic.id

\* The schedule agrees with the row before an update has saved, and after its last step.
Settled(a) == \A w \in Writer : update[w].key = a => update[w].pc = "read"
AgreesUnlessSaving ==
  \A a \in Automation \ disturbed :
    automation[a] # Missing /\ Settled(a) =>
      /\ Stops(automation[a]) => ~ScheduledFor(a)
      /\ Runs(automation[a]) /\ a \notin displaced => ScheduledFor(a)

\* A firing counts its attempts, the Sms it made and those it sent.
FiringPC == {"none", "queued", "created", "failed", "done"}
FiringSound(t) == t \in [pc : FiringPC, tries : Nat, made : Nat, sent : Nat]
FiringsSound ==
  /\ firing = [f \in Firing |-> firing[f]]
  /\ \A f \in Firing : FiringSound(firing[f])

AutomationInv ==
  AutomationTypes /\ CopiesSound /\ TaskKnown /\ AgreesUnlessSaving /\ FiringsSound

-----------------------------------------------------------------------------
Unreserved == {"none", "created", "dispatched", "broken", "validated", "rejected", "refused"}
Holding == {"reserved", "queued", "recipient", "answered", "finalize", "read", "rolled"}
Unsent == Unreserved \cup {"reserved", "queued", "unsendable", "recipient"}
Debited == {"debited", "settled"}
SendPC == Unreserved \cup Holding \cup Debited \cup Stranding

SendRow == [pc : SendPC, to : Contact \cup {None}, est : Nat, actual : Nat, outstanding : Int,
            status : {"none", "scheduled", "processing", "queued", "sent", "failed", "cancelled"},
            row : {"none", "queued", "sent", "failed"},
            result : {"none", "success", "permanent", "transient"}, accepted : Nat]
ContactRow == [phone : Phone, status : {"subscribed", "unsubscribed", "deleted"}]
OptInPC == {"idle", "refused", "checked", "registered", "duplicate", "crashed", "unwelcomed", "lost"}

SendTypes ==
  /\ contact \in [Contact -> ContactRow \cup {None}]
  /\ optIn \in [Worker -> [pc : OptInPC, who : Phone \cup Contact \cup {None}]]
  /\ \A w \in Worker : optIn[w].pc = "checked" => optIn[w].who \in Phone
  /\ send \in [Sms -> SendRow]
  /\ balance \in Int /\ reserved \in Int /\ price \in Prices

\* The contacts that are there have different phones.
PhonesUnique ==
  \A c, d \in Live : contact[c].phone = contact[d].phone => c = d

\* Before the call of the provider nothing was sent, and nothing is held or charged
\* before its step; an answer is one.
SendSound(t) ==
  /\ t.accepted <= 1
  /\ t.pc \in Unsent => t.accepted = 0
  /\ t.pc \in Unreserved => t.outstanding = 0
  /\ t.pc \in Unreserved \cup Holding => t.actual = 0
  /\ t.pc = "answered" => t.result # "none"

\* Unless some price rose, a send holds its estimate until it is debited, and nothing
\* when it is settled.
Funded(t) ==
  /\ t.outstanding >= 0
  /\ t.pc \in Holding => t.outstanding = t.est
  /\ t.pc = "debited" => t.outstanding = t.est - t.actual
  /\ t.pc = "settled" => t.outstanding = 0

SendsSound == \A s \in Sms : SendSound(send[s])
SendsFunded == ~PriceRose => \A s \in Sms : Funded(send[s])

Outstanding == [s \in Sms |-> send[s].outstanding]
Earmarked == reserved = SumFunction(Outstanding)

SendInv == SendTypes /\ PhonesUnique /\ SendsSound /\ SendsFunded /\ Earmarked

IInv == AutomationInv /\ SendInv

-----------------------------------------------------------------------------
(* Automations *)

\* At first there are no automations, updates or firings.
LEMMA AutomationInitInv == AutomationInit => AutomationInv
<1> SUFFICES ASSUME AutomationInit
             PROVE  AutomationInv
  OBVIOUS
<1> USE AutomationAssumption DEF AutomationInit
<1>1. AutomationTypes
  BY DEF AutomationTypes, NoUpdate, UpdatePC
<1>2. CopiesSound /\ TaskKnown /\ AgreesUnlessSaving
  BY DEF CopiesSound, TaskKnown, AgreesUnlessSaving, NoUpdate
<1>3. FiringsSound
  BY DEF FiringsSound, FiringSound, NoFiring, FiringPC
<1> QED
  BY <1>1, <1>2, <1>3 DEF AutomationInv

\* A firing that steps stays sound.
FiringStep(f) ==
  \/ Fire(f)
  \/ \E exists \in BOOLEAN : CreateScheduled(f, exists)
  \/ \E outcome \in {"enqueued", "ValueError", "error"}, published \in BOOLEAN :
       DispatchScheduled(f, outcome, published)

\* A step of a firing touches no automation and keeps every firing sound.
LEMMA FiringStepInv ==
  ASSUME AutomationInv, NEW f \in Firing, FiringStep(f)
  PROVE  AutomationInv'
<1>1. UNCHANGED <<rows, update, disturbed, displaced>>
  BY DEF FiringStep, Fire, CreateScheduled, DispatchScheduled, observers
<1>2. AutomationTypes' /\ CopiesSound' /\ TaskKnown' /\ AgreesUnlessSaving'
  BY <1>1 DEF AutomationInv, AutomationTypes, CopiesSound, TaskKnown, AgreesUnlessSaving, rows,
     Alone, ScheduledFor, Settled
<1>3. PICK u : firing' = [firing EXCEPT ![f] = u] /\ FiringSound(u)
  <2> DEFINE t == firing[f]
  <2>1. FiringSound(t)
    BY DEF AutomationInv, FiringsSound
  <2>5. t.tries + 1 \in Nat /\ t.made + 1 \in Nat /\ t.sent + 1 \in Nat
    BY <2>1 DEF FiringSound
  <2>2. CASE Fire(f)
    <3>1. firing' = [firing EXCEPT ![f] = [t EXCEPT !.pc = "queued"]] /\ t.pc = "none"
      BY <2>2 DEF Fire
    <3>2. FiringSound([t EXCEPT !.pc = "queued"])
      BY <2>1, <3>1 DEF FiringSound, FiringPC
    <3> QED
      BY <3>1, <3>2
  <2>3. ASSUME NEW exists \in BOOLEAN, CreateScheduled(f, exists)
        PROVE  \E u : firing' = [firing EXCEPT ![f] = u] /\ FiringSound(u)
    <3> DEFINE u == IF exists THEN [t EXCEPT !.pc = "created", !.made = @ + 1]
                              ELSE [t EXCEPT !.pc = "failed"]
    <3>1. firing' = [firing EXCEPT ![f] = u] /\ t.pc = "queued"
      BY <2>3 DEF CreateScheduled
    <3>2. FiringSound([t EXCEPT !.pc = "created", !.made = @ + 1])
      BY <2>1, <2>5, <3>1 DEF FiringSound, FiringPC
    <3>3. FiringSound([t EXCEPT !.pc = "failed"])
      BY <2>1, <3>1 DEF FiringSound, FiringPC
    <3>4. FiringSound(u)
      BY <3>2, <3>3
    <3> HIDE DEF u
    <3> QED
      BY <3>1, <3>4
  <2>4. ASSUME NEW outcome \in {"enqueued", "ValueError", "error"}, NEW published \in BOOLEAN,
               DispatchScheduled(f, outcome, published)
        PROVE  \E u : firing' = [firing EXCEPT ![f] = u] /\ FiringSound(u)
    <3>1. PICK pc \in FiringPC, n \in Nat, m \in Nat :
            firing' = [firing EXCEPT ![f] = [t EXCEPT !.pc = pc, !.tries = n, !.sent = m]]
      <4>1. t.tries \in Nat /\ t.sent \in Nat
        BY <2>1 DEF FiringSound
      <4> QED
        BY <2>4, <2>5, <4>1 DEF DispatchScheduled, FiringPC
    <3>2. FiringSound([t EXCEPT !.pc = pc, !.tries = n, !.sent = m])
      BY <2>1 DEF FiringSound
    <3> QED
      BY <3>1, <3>2
  <2> QED
    BY <2>2, <2>3, <2>4 DEF FiringStep
<1>4. FiringsSound'
  BY <1>3 DEF AutomationInv, FiringsSound
<1> QED
  BY <1>2, <1>4 DEF AutomationInv

\* A new automation is neither scheduled nor to be: its status is the default.
LEMMA CreateAutomationInv ==
  ASSUME AutomationInv, NEW a \in Automation, NEW row \in Created, CreateAutomation(a, row)
  PROVE  AutomationInv'
<1> USE AutomationAssumption DEF CreateAutomation, rows, observers, NoUpdate
<1>1. AutomationTypes'
  BY DEF AutomationInv, AutomationTypes, UpdatePC
<1>2. CopiesSound'
  BY DEF AutomationInv, CopiesSound, Alone
<1>3. TaskKnown'
  BY DEF AutomationInv, TaskKnown, ScheduledFor
<1>4. AgreesUnlessSaving'
  BY DEF AutomationInv, AgreesUnlessSaving, Settled, Runs, ScheduledFor
<1>5. FiringsSound'
  BY DEF AutomationInv, FiringsSound
<1> QED
  BY <1>1, <1>2, <1>3, <1>4, <1>5 DEF AutomationInv

\* An update that starts beside another one disturbs its automation.
LEMMA UpdateReadInv ==
  ASSUME AutomationInv, NEW w \in Writer, NEW a \in Automation, UpdateRead(w, a)
  PROVE  AutomationInv'
<1> USE AutomationAssumption DEF UpdateRead, Busy, rows, observers, NoUpdate
<1>1. AutomationTypes'
  BY DEF AutomationInv, AutomationTypes, UpdatePC
<1>2. CopiesSound'
  BY DEF AutomationInv, AutomationTypes, CopiesSound, Alone
<1>3. TaskKnown'
  BY DEF AutomationInv, TaskKnown, ScheduledFor
<1>4. AgreesUnlessSaving'
  BY DEF AutomationInv, AutomationTypes, AgreesUnlessSaving, Settled, ScheduledFor
<1>5. FiringsSound'
  BY DEF AutomationInv, FiringsSound
<1> QED
  BY <1>1, <1>2, <1>3, <1>4, <1>5 DEF AutomationInv

\* The save leaves the schedule to the steps that follow when it must change.
LEMMA UpdateSaveInv ==
  ASSUME AutomationInv, NEW w \in Writer, NEW change \in Changes, UpdateSave(w, change)
  PROVE  AutomationInv'
<1> USE AutomationAssumption DEF UpdateSave, rows, observers, NoUpdate
<1> DEFINE u == update[w]
           row == [f \in Fields |-> IF f \in DOMAIN change THEN change[f] ELSE u.row[f]]
<1>0. u.row \in Row /\ u.key \in Automation
  BY DEF AutomationInv, AutomationTypes
<1>6. row \in Row
  <2>1. \A f \in Fields : row[f] \in Column[f]
    BY <1>0 DEF Fields, Row, Column
  <2>2. row = [type |-> row["type"], active |-> row["active"], status |-> row["status"],
               valid |-> row["valid"], task |-> row["task"]]
    BY DEF Fields
  <2> QED
    BY <2>1, <2>2 DEF Row, Column
<1>1. AutomationTypes'
  BY <1>0, <1>6 DEF AutomationInv, AutomationTypes, UpdatePC
<1>2. CopiesSound'
  BY SMTT(40) DEF AutomationInv, AutomationTypes, CopiesSound, Alone, Runs, Stops, Recurring
<1>3. TaskKnown'
  BY DEF AutomationInv, CopiesSound, TaskKnown, ScheduledFor
<1>4. AgreesUnlessSaving'
  BY DEF AutomationInv, AutomationTypes, AgreesUnlessSaving, Settled, ScheduledFor
<1>5. FiringsSound'
  BY DEF AutomationInv, FiringsSound
<1> QED
  BY <1>1, <1>2, <1>3, <1>4, <1>5 DEF AutomationInv

\* An undisturbed automation is read again as it was saved.
LEMMA ScheduleReadInv ==
  ASSUME AutomationInv, NEW w \in Writer, ScheduleRead(w)
  PROVE  AutomationInv'
<1> USE AutomationAssumption DEF ScheduleRead, rows, observers, NoUpdate
<1>1. AutomationTypes'
  BY DEF AutomationInv, AutomationTypes, UpdatePC
<1>2. CopiesSound'
  BY DEF AutomationInv, AutomationTypes, CopiesSound, Alone
<1>3. TaskKnown'
  BY DEF AutomationInv, TaskKnown, ScheduledFor
<1>4. AgreesUnlessSaving'
  BY DEF AutomationInv, AutomationTypes, AgreesUnlessSaving, Settled, ScheduledFor
<1>5. FiringsSound'
  BY DEF AutomationInv, FiringsSound
<1> QED
  BY <1>1, <1>2, <1>3, <1>4, <1>5 DEF AutomationInv

\* The transaction makes the row this automation's; whoever had it is displaced.
LEMMA ScheduleSaveInv ==
  ASSUME AutomationInv, NEW w \in Writer, ScheduleSave(w)
  PROVE  AutomationInv'
<1> USE AutomationAssumption DEF ScheduleSave, Remember, rows, observers, NoUpdate
<1> DEFINE u == update[w]
           id == IF periodic = Missing THEN lastTask + 1 ELSE periodic.id
<1>0. u.row \in Row /\ u.key \in Automation /\ id \in Nat
  BY DEF AutomationInv, AutomationTypes, Task
<1>6. [u.row EXCEPT !.task = id] \in Row
  BY <1>0 DEF Row
<1>7. periodic' \in Task /\ lastTask' \in Nat
  BY <1>0 DEF AutomationInv, AutomationTypes, Task
<1>8. displaced' \subseteq Automation /\ disturbed' \subseteq Automation
  BY <1>0 DEF AutomationInv, AutomationTypes, Task
<1>1. AutomationTypes'
  BY <1>0, <1>6, <1>7, <1>8 DEF AutomationInv, AutomationTypes, UpdatePC
<1>2. CopiesSound'
  BY DEF AutomationInv, AutomationTypes, CopiesSound, Alone
<1>3. TaskKnown'
  BY DEF AutomationInv, AutomationTypes, TaskKnown, ScheduledFor
<1>4. AgreesUnlessSaving'
  <2> SUFFICES ASSUME NEW b \in Automation, b \notin disturbed', automation'[b] # Missing,
                      Settled(b)'
               PROVE  /\ Stops(automation'[b]) => ~ScheduledFor(b)'
                      /\ Runs(automation'[b]) /\ b \notin displaced' => ScheduledFor(b)'
    BY DEF AgreesUnlessSaving
  <2>1. CASE b = u.key
    <3>1. Runs(u.row)
      BY <2>1 DEF AutomationInv, AutomationTypes, CopiesSound
    <3>2. automation'[b] = [u.row EXCEPT !.task = id] /\ ScheduledFor(b)'
      BY <1>0, <1>7, <2>1 DEF ScheduledFor, AutomationInv, AutomationTypes
    <3>3. ~Stops(automation'[b])
      BY <1>0, <3>1, <3>2 DEF Runs, Stops, Row
    <3> QED
      BY <3>2, <3>3
  <2>2. CASE b # u.key
    <3>1. /\ automation'[b] = automation[b] /\ ~ScheduledFor(b)'
          /\ b \notin disturbed /\ Settled(b)
      BY <1>0, <2>2 DEF ScheduledFor, Settled
    <3>2. ASSUME Runs(automation[b])
          PROVE  b \in displaced'
      <4>1. b \in displaced \/ ScheduledFor(b)
        BY <3>1, <3>2 DEF AutomationInv, AgreesUnlessSaving
      <4> QED
        BY <2>2, <4>1 DEF ScheduledFor
    <3> QED
      BY <3>1, <3>2
  <2> QED
    BY <2>1, <2>2
<1>5. FiringsSound'
  BY DEF AutomationInv, FiringsSound
<1> QED
  BY <1>1, <1>2, <1>3, <1>4, <1>5 DEF AutomationInv

\* The removal hits the row by the task id, which an undisturbed automation knows.
LEMMA UnscheduleInv ==
  ASSUME AutomationInv, NEW w \in Writer, Unschedule(w)
  PROVE  AutomationInv'
<1> USE AutomationAssumption DEF Unschedule, rows, observers, NoUpdate
<1>6. displaced' \subseteq Automation
  BY DEF AutomationInv, AutomationTypes, Task
<1>1. AutomationTypes'
  BY <1>6 DEF AutomationInv, AutomationTypes, UpdatePC
<1>2. CopiesSound'
  BY DEF AutomationInv, AutomationTypes, CopiesSound, Alone
<1>3. TaskKnown'
  BY DEF AutomationInv, TaskKnown, ScheduledFor
<1>4. AgreesUnlessSaving'
  BY DEF AutomationInv, CopiesSound, TaskKnown, AgreesUnlessSaving, Settled, Runs, Stops,
     ScheduledFor
<1>5. FiringsSound'
  BY DEF AutomationInv, FiringsSound
<1> QED
  BY <1>1, <1>2, <1>3, <1>4, <1>5 DEF AutomationInv

\* Of an automation that is deleted nothing is said, and its PeriodicTask stays.
LEMMA DestroyAutomationInv ==
  ASSUME AutomationInv, NEW a \in Automation, DestroyAutomation(a)
  PROVE  AutomationInv'
<1> USE AutomationAssumption DEF DestroyAutomation, rows, observers, NoUpdate
<1>1. AutomationTypes'
  BY DEF AutomationInv, AutomationTypes, UpdatePC
<1>2. CopiesSound'
  BY DEF AutomationInv, CopiesSound, Alone
<1>3. TaskKnown'
  BY DEF AutomationInv, TaskKnown, ScheduledFor
<1>4. AgreesUnlessSaving'
  BY DEF AutomationInv, AgreesUnlessSaving, Settled, ScheduledFor
<1>5. FiringsSound'
  BY DEF AutomationInv, FiringsSound
<1> QED
  BY <1>1, <1>2, <1>3, <1>4, <1>5 DEF AutomationInv

\* A worker that dies disturbs the automation it updated.
LEMMA LoseUpdateInv ==
  ASSUME AutomationInv, NEW w \in Writer, LoseUpdate(w)
  PROVE  AutomationInv'
<1> USE AutomationAssumption DEF LoseUpdate, rows, observers, NoUpdate
<1>1. AutomationTypes'
  BY DEF AutomationInv, AutomationTypes, UpdatePC
<1>2. CopiesSound'
  BY DEF AutomationInv, AutomationTypes, CopiesSound, Alone
<1>3. TaskKnown'
  BY DEF AutomationInv, TaskKnown, ScheduledFor
<1>4. AgreesUnlessSaving'
  BY DEF AutomationInv, AgreesUnlessSaving, Settled, ScheduledFor
<1>5. FiringsSound'
  BY DEF AutomationInv, FiringsSound
<1> QED
  BY <1>1, <1>2, <1>3, <1>4, <1>5 DEF AutomationInv

\* Every step of the automations keeps their invariant.
LEMMA AutomationNextInv ==
  ASSUME AutomationInv, AutomationNext
  PROVE  AutomationInv'
BY CreateAutomationInv, UpdateReadInv, UpdateSaveInv, ScheduleReadInv, ScheduleSaveInv,
   UnscheduleInv, DestroyAutomationInv, LoseUpdateInv, FiringStepInv DEF AutomationNext,
   FiringStep

-----------------------------------------------------------------------------
(* Single sends *)

\* An Sms that is not there yet holds, sends and owes nothing.
LEMMA NoSendSound ==
  NoSend \in SendRow /\ SendSound(NoSend) /\ Funded(NoSend) /\ NoSend.outstanding = 0
BY DEF NoSend, SendRow, SendSound, Funded, SendPC, Unreserved

\* At first nothing is sent or reserved, and the contacts have different phones.
LEMMA SendInitInv == SendInit => SendInv
<1> SUFFICES ASSUME SendInit
             PROVE  SendInv
  OBVIOUS
<1> USE SingleSendAssumption DEF SendInit
<1>1. NoSend \in SendRow /\ SendSound(NoSend) /\ Funded(NoSend) /\ NoSend.outstanding = 0
  BY NoSendSound
<1>2. SendTypes
  BY <1>1 DEF SendTypes, ContactRow, OptInPC
<1>3. PhonesUnique
  <2> SUFFICES ASSUME NEW c \in Live, NEW d \in Live, contact[c].phone = contact[d].phone
               PROVE  c = d
    BY DEF PhonesUnique
  <2> DEFINE p == contact[c].phone  same == {x \in Live : contact[x].phone = p}
  <2>1. p \in Phone /\ c \in same /\ d \in same
    BY DEF Live
  <2>2. IsFiniteSet(same) /\ Cardinality(same) <= 1
    BY <2>1, FS_Subset DEF Live
  <2> HIDE DEF same
  <2> QED
    BY <2>1, <2>2, AtMostOneElement
<1>4. SendsSound /\ SendsFunded
  BY <1>1 DEF SendsSound, SendsFunded
<1>5. Earmarked
  <2>1. Outstanding \in [Sms -> Int] /\ \A s \in Sms : Outstanding[s] = 0
    BY <1>1 DEF Outstanding
  <2> QED
    BY <2>1, SumOfZeros DEF Earmarked
<1> QED
  BY <1>2, <1>3, <1>4, <1>5 DEF SendInv

\* A step of one send: it keeps the invariant when the new row is sound, and the wallet
\* reserves as much more or less as the row holds.
LEMMA OneSendInv ==
  ASSUME SendInv, NEW s \in Sms, NEW u \in SendRow,
         send' = [send EXCEPT ![s] = u], UNCHANGED <<contact, optIn>>,
         balance' \in Int, price' \in Prices,
         reserved' = reserved - send[s].outstanding + u.outstanding,
         SendSound(u),
         send[s].actual > send[s].est => u.actual > u.est,
         ~PriceRose /\ u.actual <= u.est => Funded(u)
  PROVE  SendInv'
<1>1. send' \in [Sms -> SendRow] /\ send'[s] = u /\ send[s] \in SendRow
      /\ \A x \in Sms : x # s => send'[x] = send[x]
  BY DEF SendInv, SendTypes
<1>2. Earmarked'
  <2>1. Outstanding \in [Sms -> Int] /\ Outstanding' \in [Sms -> Int]
    BY <1>1 DEF Outstanding, SendRow
  <2>2. /\ \A x \in Sms : x # s => Outstanding'[x] = Outstanding[x]
        /\ Outstanding[s] = send[s].outstanding /\ Outstanding'[s] = u.outstanding
    BY <1>1 DEF Outstanding
  <2>3. SumFunction(Outstanding') = SumFunction(Outstanding) - send[s].outstanding + u.outstanding
    <3> DEFINE f == Outstanding  e == Outstanding'
    <3>1. /\ f \in [Sms -> Int] /\ e \in [Sms -> Int] /\ IsFiniteSet(Sms)
          /\ \A x \in Sms : x # s => e[x] = f[x]
      BY <2>1, <2>2, SingleSendAssumption
    <3>2. SumFunction(e) = SumFunction(f) - f[s] + e[s]
      <4> HIDE DEF f, e
      <4> QED
        BY <3>1, SumStep
    <3> QED
      BY <2>2, <3>2
  <2> QED
    BY <2>3 DEF Earmarked, SendInv
<1>3. SendTypes' /\ PhonesUnique'
  <2>1. reserved' \in Int
    BY <1>1 DEF SendInv, SendTypes, SendRow
  <2> QED
    BY <1>1, <2>1 DEF SendInv, SendTypes, PhonesUnique, Live
<1>4. SendsSound'
  BY <1>1 DEF SendInv, SendsSound
<1>5. SendsFunded'
  <2> SUFFICES ASSUME ~PriceRose', NEW x \in Sms
               PROVE  Funded(send'[x])
    BY DEF SendsFunded
  <2>1. \A y \in Sms : ~ (send'[y].actual > send'[y].est)
    BY DEF PriceRose
  <2>2. ~PriceRose
    BY <1>1, <2>1 DEF PriceRose
  <2>3. u.actual <= u.est
    BY <1>1, <2>1 DEF SendRow
  <2> QED
    BY <1>1, <2>2, <2>3 DEF SendInv, SendsFunded
<1> QED
  BY <1>2, <1>3, <1>4, <1>5 DEF SendInv

\* Where a send may go on without a change of what it holds, was charged or has sent.
MayMove(from, to) ==
  /\ \/ from = to
     \/ from \in Unreserved /\ to \in Unreserved \cup Stranding
     \/ from \in Holding /\ to \in Holding \cup Stranding
     \/ from = "debited" /\ to \in Stranding
  /\ to \in Unsent => from \in Unsent
  /\ to = "answered" => from = to

\* Such a step keeps the invariant.
LEMMA MoveInv ==
  ASSUME SendInv, NEW s \in Sms, NEW u \in SendRow,
         send' = [send EXCEPT ![s] = u],
         UNCHANGED <<contact, optIn, balance, reserved, price>>,
         u.est = send[s].est, u.actual = send[s].actual, u.accepted = send[s].accepted,
         u.outstanding = send[s].outstanding, u.result = send[s].result,
         MayMove(send[s].pc, u.pc)
  PROVE  SendInv'
<1> DEFINE t == send[s]
<1>1. t \in SendRow /\ SendSound(t) /\ (~PriceRose => Funded(t))
  BY DEF SendInv, SendTypes, SendsSound, SendsFunded
<1>2. balance \in Int /\ reserved \in Int /\ price \in Prices
  BY DEF SendInv, SendTypes
<1> HIDE DEF t
<1>3. SendSound(u)
  BY <1>1 DEF t, SendSound, MayMove, Unreserved, Holding, Stranding
<1>4. ~PriceRose => Funded(u)
  BY <1>1 DEF t, Funded, MayMove, Unreserved, Holding, Stranding
<1>5. reserved' = reserved - send[s].outstanding + u.outstanding
  BY <1>1, <1>2 DEF t, SendRow
<1> QED
  BY <1>2, <1>3, <1>4, <1>5, OneSendInv

\* The request hands the Sms over to dispatch_single_sms.
LEMMA DelayInv ==
  ASSUME SendInv, NEW s \in Sms, Delay(s)
  PROVE  SendInv'
<1> DEFINE t == send[s]
<1>0. t \in SendRow /\ (t.pc = "answered" => t.result # "none")
  BY DEF SendInv, SendTypes, SendsSound, SendSound
<1> DEFINE u == [t EXCEPT !.pc = "dispatched"]
<1>1. send' = [send EXCEPT ![s] = u] /\ t.pc = "created"
  BY <1>0 DEF Delay, At, OnlySend
<1>2. UNCHANGED <<contact, optIn, balance, reserved, price>>
  BY DEF Delay, At, OnlySend
<1>3. u \in SendRow
  BY <1>0 DEF SendRow, SendPC, Unreserved
<1>4. /\ u.est = t.est /\ u.actual = t.actual /\ u.accepted = t.accepted
      /\ u.outstanding = t.outstanding /\ u.result = t.result /\ MayMove(t.pc, u.pc)
  BY <1>0, <1>1 DEF MayMove, Unreserved, Unsent
<1> HIDE DEF u
<1> QED
  BY <1>1, <1>2, <1>3, <1>4, MoveInv

\* A refused reservation ends the send with nothing held.
LEMMA ReserveRefusedInv ==
  ASSUME SendInv, NEW s \in Sms, ReserveRefused(s)
  PROVE  SendInv'
<1> DEFINE t == send[s]
<1>0. t \in SendRow /\ (t.pc = "answered" => t.result # "none")
  BY DEF SendInv, SendTypes, SendsSound, SendSound
<1> DEFINE u == [t EXCEPT !.pc = "refused"]
<1>1. send' = [send EXCEPT ![s] = u] /\ t.pc = "validated"
  BY <1>0 DEF ReserveRefused, At, OnlySend
<1>2. UNCHANGED <<contact, optIn, balance, reserved, price>>
  BY DEF ReserveRefused, At, OnlySend
<1>3. u \in SendRow
  BY <1>0 DEF SendRow, SendPC, Unreserved
<1>4. /\ u.est = t.est /\ u.actual = t.actual /\ u.accepted = t.accepted
      /\ u.outstanding = t.outstanding /\ u.result = t.result /\ MayMove(t.pc, u.pc)
  BY <1>0, <1>1 DEF MayMove, Unreserved, Unsent
<1> HIDE DEF u
<1> QED
  BY <1>1, <1>2, <1>3, <1>4, MoveInv

\* The chain is enqueued with the estimate held.
LEMMA EnqueueChainInv ==
  ASSUME SendInv, NEW s \in Sms, EnqueueChain(s)
  PROVE  SendInv'
<1> DEFINE t == send[s]
<1>0. t \in SendRow /\ (t.pc = "answered" => t.result # "none")
  BY DEF SendInv, SendTypes, SendsSound, SendSound
<1> DEFINE u == [t EXCEPT !.pc = "queued"]
<1>1. send' = [send EXCEPT ![s] = u] /\ t.pc = "reserved"
  BY <1>0 DEF EnqueueChain, At, OnlySend
<1>2. UNCHANGED <<contact, optIn, balance, reserved, price>>
  BY DEF EnqueueChain, At, OnlySend
<1>3. u \in SendRow
  BY <1>0 DEF SendRow, SendPC, Holding
<1>4. /\ u.est = t.est /\ u.actual = t.actual /\ u.accepted = t.accepted
      /\ u.outstanding = t.outstanding /\ u.result = t.result /\ MayMove(t.pc, u.pc)
  BY <1>0, <1>1 DEF MayMove, Holding, Unsent
<1> HIDE DEF u
<1> QED
  BY <1>1, <1>2, <1>3, <1>4, MoveInv

\* A contact that may not receive stops the chain, with the estimate held.
LEMMA BuildRecipientInv ==
  ASSUME SendInv, NEW s \in Sms, BuildRecipient(s)
  PROVE  SendInv'
<1> DEFINE t == send[s]
<1>1. t \in SendRow /\ (t.pc = "answered" => t.result # "none")
  BY DEF SendInv, SendTypes, SendsSound, SendSound
<1>2. CASE MayReceive(t.to)
  <2> DEFINE u == [t EXCEPT !.pc = "recipient", !.row = "queued"]
  <2>1. send' = [send EXCEPT ![s] = u] /\ t.pc = "queued"
    BY <1>2, <1>1 DEF BuildRecipient, OnlySend
  <2>2. UNCHANGED <<contact, optIn, balance, reserved, price>>
    BY DEF BuildRecipient, OnlySend
  <2>3. u \in SendRow
    BY <1>1 DEF SendRow, SendPC, Holding
  <2>4. /\ u.est = t.est /\ u.actual = t.actual /\ u.accepted = t.accepted
        /\ u.outstanding = t.outstanding /\ u.result = t.result /\ MayMove(t.pc, u.pc)
    BY <1>1, <2>1 DEF MayMove, Holding, Unsent
  <2> HIDE DEF u
  <2> QED
    BY <2>1, <2>2, <2>3, <2>4, MoveInv
<1>3. CASE ~MayReceive(t.to)
  <2> DEFINE u == [t EXCEPT !.pc = "unsendable"]
  <2>1. send' = [send EXCEPT ![s] = u] /\ t.pc = "queued"
    BY <1>3, <1>1 DEF BuildRecipient, OnlySend
  <2>2. UNCHANGED <<contact, optIn, balance, reserved, price>>
    BY DEF BuildRecipient, OnlySend
  <2>3. u \in SendRow
    BY <1>1 DEF SendRow, SendPC, Stranding
  <2>4. /\ u.est = t.est /\ u.actual = t.actual /\ u.accepted = t.accepted
        /\ u.outstanding = t.outstanding /\ u.result = t.result /\ MayMove(t.pc, u.pc)
    BY <1>1, <2>1 DEF MayMove, Holding, Unsent, Stranding
  <2> HIDE DEF u
  <2> QED
    BY <2>1, <2>2, <2>3, <2>4, MoveInv
<1> QED
  BY <1>1, <1>2, <1>3

\* The answer sends the task to finalize_sms_send, or to a retry that dies.
LEMMA SaveResultInv ==
  ASSUME SendInv, NEW s \in Sms, SaveResult(s)
  PROVE  SendInv'
<1> DEFINE t == send[s]
<1>1. t \in SendRow /\ (t.pc = "answered" => t.result # "none")
  BY DEF SendInv, SendTypes, SendsSound, SendSound
<1>2. CASE t.result = "success"
  <2> DEFINE u == [t EXCEPT !.row = "sent", !.pc = "finalize"]
  <2>1. send' = [send EXCEPT ![s] = u] /\ t.pc = "answered"
    BY <1>2, <1>1 DEF SaveResult
  <2>2. UNCHANGED <<contact, optIn, balance, reserved, price>>
    BY DEF SaveResult, AfterRetry, OnlySend, SendRow
  <2>3. u \in SendRow
    BY <1>1 DEF SendRow, SendPC, Holding
  <2>4. /\ u.est = t.est /\ u.actual = t.actual /\ u.accepted = t.accepted
        /\ u.outstanding = t.outstanding /\ u.result = t.result /\ MayMove(t.pc, u.pc)
    BY <1>1, <2>1 DEF MayMove, Unreserved, Holding, Unsent
  <2> HIDE DEF u
  <2> QED
    BY <2>1, <2>2, <2>3, <2>4, MoveInv
<1>3. CASE t.result = "permanent"
  <2> DEFINE u == [t EXCEPT !.row = "failed", !.pc = "finalize"]
  <2>1. send' = [send EXCEPT ![s] = u] /\ t.pc = "answered"
    BY <1>3, <1>1 DEF SaveResult
  <2>2. UNCHANGED <<contact, optIn, balance, reserved, price>>
    BY DEF SaveResult, AfterRetry, OnlySend, SendRow
  <2>3. u \in SendRow
    BY <1>1 DEF SendRow, SendPC, Holding
  <2>4. /\ u.est = t.est /\ u.actual = t.actual /\ u.accepted = t.accepted
        /\ u.outstanding = t.outstanding /\ u.result = t.result /\ MayMove(t.pc, u.pc)
    BY <1>1, <2>1 DEF MayMove, Unreserved, Holding, Unsent
  <2> HIDE DEF u
  <2> QED
    BY <2>1, <2>2, <2>3, <2>4, MoveInv
<1>4. CASE t.result = "transient"
  <2> DEFINE u == [t EXCEPT !.pc = "dead"]
  <2>1. send' = [send EXCEPT ![s] = u] /\ t.pc = "answered"
    BY <1>4, <1>1 DEF SaveResult, AfterRetry
  <2>2. UNCHANGED <<contact, optIn, balance, reserved, price>>
    BY DEF SaveResult, AfterRetry, OnlySend, SendRow
  <2>3. u \in SendRow
    BY <1>1 DEF SendRow, SendPC, Stranding
  <2>4. /\ u.est = t.est /\ u.actual = t.actual /\ u.accepted = t.accepted
        /\ u.outstanding = t.outstanding /\ u.result = t.result /\ MayMove(t.pc, u.pc)
    BY <1>1, <2>1 DEF MayMove, Unreserved, Holding, Unsent, Stranding
  <2> HIDE DEF u
  <2> QED
    BY <2>1, <2>2, <2>3, <2>4, MoveInv
<1> QED
  BY <1>1, <1>2, <1>3, <1>4 DEF SaveResult, SendRow

\* A cancelled Sms is not finalised.
LEMMA ReadForFinalizeInv ==
  ASSUME SendInv, NEW s \in Sms, ReadForFinalize(s)
  PROVE  SendInv'
<1> DEFINE t == send[s]
<1>1. t \in SendRow /\ (t.pc = "answered" => t.result # "none")
  BY DEF SendInv, SendTypes, SendsSound, SendSound
<1>2. CASE t.status = "cancelled"
  <2> DEFINE u == [t EXCEPT !.pc = "skipped"]
  <2>1. send' = [send EXCEPT ![s] = u] /\ t.pc = "finalize"
    BY <1>2, <1>1 DEF ReadForFinalize, At
  <2>2. UNCHANGED <<contact, optIn, balance, reserved, price>>
    BY DEF ReadForFinalize, At, OnlySend
  <2>3. u \in SendRow
    BY <1>1 DEF SendRow, SendPC, Stranding
  <2>4. /\ u.est = t.est /\ u.actual = t.actual /\ u.accepted = t.accepted
        /\ u.outstanding = t.outstanding /\ u.result = t.result /\ MayMove(t.pc, u.pc)
    BY <1>1, <2>1 DEF MayMove, Unreserved, Holding, Unsent, Stranding
  <2> HIDE DEF u
  <2> QED
    BY <2>1, <2>2, <2>3, <2>4, MoveInv
<1>3. CASE t.status # "cancelled"
  <2> DEFINE u == [t EXCEPT !.pc = "read"]
  <2>1. send' = [send EXCEPT ![s] = u] /\ t.pc = "finalize"
    BY <1>3, <1>1 DEF ReadForFinalize, At
  <2>2. UNCHANGED <<contact, optIn, balance, reserved, price>>
    BY DEF ReadForFinalize, At, OnlySend
  <2>3. u \in SendRow
    BY <1>1 DEF SendRow, SendPC, Holding
  <2>4. /\ u.est = t.est /\ u.actual = t.actual /\ u.accepted = t.accepted
        /\ u.outstanding = t.outstanding /\ u.result = t.result /\ MayMove(t.pc, u.pc)
    BY <1>1, <2>1 DEF MayMove, Unreserved, Holding, Unsent
  <2> HIDE DEF u
  <2> QED
    BY <2>1, <2>2, <2>3, <2>4, MoveInv
<1> QED
  BY <1>1, <1>2, <1>3

\* The status of the Sms follows its recipient.
LEMMA RollUpInv ==
  ASSUME SendInv, NEW s \in Sms, RollUp(s)
  PROVE  SendInv'
<1> DEFINE t == send[s]
<1>0. t \in SendRow /\ (t.pc = "answered" => t.result # "none")
  BY DEF SendInv, SendTypes, SendsSound, SendSound
<1> DEFINE u == [t EXCEPT !.pc = "rolled", !.status = t.row]
<1>1. send' = [send EXCEPT ![s] = u] /\ t.pc = "read"
  BY <1>0 DEF RollUp, OnlySend
<1>2. UNCHANGED <<contact, optIn, balance, reserved, price>>
  BY DEF RollUp, OnlySend
<1>3. u \in SendRow
  BY ZenonT(60), <1>0 DEF SendRow, SendPC, Unreserved, Holding, Unsent, Debited, Stranding
<1>4. /\ u.est = t.est /\ u.actual = t.actual /\ u.accepted = t.accepted
      /\ u.outstanding = t.outstanding /\ u.result = t.result /\ MayMove(t.pc, u.pc)
  BY <1>0, <1>1 DEF MayMove, Unreserved, Holding, Unsent
<1> HIDE DEF u
<1> QED
  BY <1>1, <1>2, <1>3, <1>4, MoveInv

\* A cancellation changes the status alone.
LEMMA CancelInv ==
  ASSUME SendInv, NEW s \in Sms, Cancel(s)
  PROVE  SendInv'
<1> DEFINE t == send[s]
<1>0. t \in SendRow /\ (t.pc = "answered" => t.result # "none")
  BY DEF SendInv, SendTypes, SendsSound, SendSound
<1> DEFINE u == [t EXCEPT !.status = "cancelled"]
<1>1. send' = [send EXCEPT ![s] = u] /\ TRUE
  BY <1>0 DEF Cancel
<1>2. UNCHANGED <<contact, optIn, balance, reserved, price>>
  BY DEF Cancel
<1>3. u \in SendRow
  BY <1>0 DEF SendRow
<1>4. /\ u.est = t.est /\ u.actual = t.actual /\ u.accepted = t.accepted
      /\ u.outstanding = t.outstanding /\ u.result = t.result /\ MayMove(t.pc, u.pc)
  BY <1>0, <1>1 DEF MayMove
<1> HIDE DEF u
<1> QED
  BY <1>1, <1>2, <1>3, <1>4, MoveInv

\* A task that is lost leaves what it held.
LEMMA LoseTaskInv ==
  ASSUME SendInv, NEW s \in Sms, LoseTask(s)
  PROVE  SendInv'
<1> DEFINE t == send[s]
<1>0. t \in SendRow /\ (t.pc = "answered" => t.result # "none")
  BY DEF SendInv, SendTypes, SendsSound, SendSound
<1> DEFINE u == [t EXCEPT !.pc = "lost"]
<1>1. send' = [send EXCEPT ![s] = u] /\ t.pc \in Running
  BY <1>0 DEF LoseTask
<1>2. UNCHANGED <<contact, optIn, balance, reserved, price>>
  BY DEF LoseTask
<1>3. u \in SendRow
  BY <1>0 DEF SendRow, SendPC, Stranding
<1>4. /\ u.est = t.est /\ u.actual = t.actual /\ u.accepted = t.accepted
      /\ u.outstanding = t.outstanding /\ u.result = t.result /\ MayMove(t.pc, u.pc)
  BY <1>0, <1>1 DEF MayMove, Running, Unreserved, Holding, Unsent, Stranding
<1> HIDE DEF u
<1> QED
  BY <1>1, <1>2, <1>3, <1>4, MoveInv

\* A new send holds nothing.
LEMMA RequestSingleSendInv ==
  ASSUME SendInv, NEW s \in Sms, NEW c \in Contact, RequestSingleSend(s, c)
  PROVE  SendInv'
<1> DEFINE t == send[s]
<1>0. /\ t \in SendRow /\ SendSound(t) /\ (~PriceRose => Funded(t))
      /\ balance \in Int /\ reserved \in Int /\ price \in Prices /\ price \in Nat
  BY SingleSendAssumption DEF SendInv, SendTypes, SendsSound, SendsFunded
<1> DEFINE u == [NoSend EXCEPT !.pc = "created", !.status = "scheduled", !.to = c]
<1>1. send' = [send EXCEPT ![s] = u] /\ t.pc = "none"
  BY <1>0 DEF RequestSingleSend, CreateSms
<1>2. UNCHANGED <<contact, optIn, price>>
  BY DEF RequestSingleSend, CreateSms
<1>3. u \in SendRow
  <2>1. NoSend \in SendRow
    BY NoSendSound
  <2> QED
    BY <2>1 DEF SendRow, SendPC, Unreserved
<1>4. SendSound(u)
  BY <1>0, <1>1 DEF SendSound, NoSend
<1>5. send[s].actual > send[s].est => u.actual > u.est
  BY <1>0, <1>1 DEF SendRow, SendSound, Unreserved
<1>6. ~PriceRose /\ u.actual <= u.est => Funded(u)
  BY <1>0, <1>1 DEF NoSend, Funded
<1>7. balance' \in Int /\ reserved' = reserved - t.outstanding + u.outstanding
  BY <1>0, <1>1 DEF NoSend, SendSound, RequestSingleSend, Unreserved
<1> HIDE DEF u
<1> QED
  BY <1>0, <1>1, <1>2, <1>3, <1>4, <1>5, <1>6, <1>7, OneSendInv

\* The atomic block reserves the estimate.
LEMMA ReserveSingleInv ==
  ASSUME SendInv, NEW s \in Sms, ReserveSingle(s)
  PROVE  SendInv'
<1> DEFINE t == send[s]
<1>0. /\ t \in SendRow /\ SendSound(t) /\ (~PriceRose => Funded(t))
      /\ balance \in Int /\ reserved \in Int /\ price \in Prices /\ price \in Nat
  BY SingleSendAssumption DEF SendInv, SendTypes, SendsSound, SendsFunded
<1> DEFINE u == [t EXCEPT !.pc = "reserved", !.status = "processing", !.outstanding = t.est]
<1>1. send' = [send EXCEPT ![s] = u] /\ t.pc = "validated"
  BY <1>0 DEF ReserveSingle
<1>2. UNCHANGED <<contact, optIn, price>>
  BY DEF ReserveSingle
<1>3. u \in SendRow
  <2>1. t.est \in Int
    BY <1>0 DEF SendRow
  <2> HIDE DEF t
  <2> QED
    BY <1>0, <2>1 DEF SendRow, SendPC, Holding
<1>4. SendSound(u)
  BY <1>0, <1>1 DEF SendSound, Unreserved, Unsent
<1>5. send[s].actual > send[s].est => u.actual > u.est
  BY <1>0, <1>1
<1>6. ~PriceRose /\ u.actual <= u.est => Funded(u)
  BY <1>0, <1>1 DEF SendSound, Funded, Unreserved
<1>7. balance' \in Int /\ reserved' = reserved - t.outstanding + u.outstanding
  BY <1>0, <1>1 DEF SendSound, ReserveSingle, Unreserved
<1> HIDE DEF u
<1> QED
  BY <1>0, <1>1, <1>2, <1>3, <1>4, <1>5, <1>6, <1>7, OneSendInv

\* The provider is called once, with nothing sent before.
LEMMA CallProviderInv ==
  ASSUME SendInv, NEW s \in Sms, NEW o \in Outcomes, CallProvider(s, o)
  PROVE  SendInv'
<1> DEFINE t == send[s]
<1>0. /\ t \in SendRow /\ SendSound(t) /\ (~PriceRose => Funded(t))
      /\ balance \in Int /\ reserved \in Int /\ price \in Prices /\ price \in Nat
  BY SingleSendAssumption DEF SendInv, SendTypes, SendsSound, SendsFunded
<1> DEFINE u == [t EXCEPT !.pc = "answered",
                     !.accepted = IF o \in {"success", "lost_reply"} THEN @ + 1 ELSE @,
                     !.result = IF o = "lost_reply" THEN "transient" ELSE o]
<1>1. send' = [send EXCEPT ![s] = u] /\ t.pc = "recipient"
  BY <1>0 DEF CallProvider, OnlySend
<1>2. UNCHANGED <<contact, optIn, price>>
  BY DEF CallProvider, OnlySend
<1>8. o \in {"success", "permanent", "transient", "lost_reply"} /\ t.accepted = 0
  BY <1>0, <1>1, SingleSendAssumption DEF SendSound, Unsent
<1>3. u \in SendRow
  <2> DEFINE accepted == IF o \in {"success", "lost_reply"} THEN t.accepted + 1 ELSE t.accepted
             result == IF o = "lost_reply" THEN "transient" ELSE o
  <2>1. accepted \in Nat /\ result \in {"none", "success", "permanent", "transient"}
    BY <1>8
  <2>2. u = [t EXCEPT !.pc = "answered", !.accepted = accepted, !.result = result]
    BY <1>0 DEF SendRow
  <2> HIDE DEF t, u, accepted, result
  <2> QED
    BY <1>0, <2>1, <2>2 DEF SendRow, SendPC, Holding
<1>4. SendSound(u)
  BY <1>0, <1>1, <1>8 DEF SendSound, Unreserved, Holding, Unsent
<1>5. send[s].actual > send[s].est => u.actual > u.est
  BY <1>0, <1>1, <1>8
<1>6. ~PriceRose /\ u.actual <= u.est => Funded(u)
  BY <1>0, <1>1, <1>8 DEF Funded, Holding
<1>7. balance' \in Int /\ reserved' = reserved - t.outstanding + u.outstanding
  BY <1>0, <1>1, <1>8 DEF SendRow, CallProvider, OnlySend
<1> HIDE DEF u
<1> QED
  BY <1>0, <1>1, <1>2, <1>3, <1>4, <1>5, <1>6, <1>7, OneSendInv

\* What is left of the estimate is released.
LEMMA ReleaseRestInv ==
  ASSUME SendInv, NEW s \in Sms, ReleaseRest(s)
  PROVE  SendInv'
<1> DEFINE t == send[s]
<1>0. /\ t \in SendRow /\ SendSound(t) /\ (~PriceRose => Funded(t))
      /\ balance \in Int /\ reserved \in Int /\ price \in Prices /\ price \in Nat
  BY SingleSendAssumption DEF SendInv, SendTypes, SendsSound, SendsFunded
<1> DEFINE rest == IF t.est > t.actual THEN t.est - t.actual ELSE 0
<1> DEFINE u == [t EXCEPT !.pc = "settled", !.outstanding = @ - rest]
<1>1. send' = [send EXCEPT ![s] = u] /\ t.pc = "debited"
  BY <1>0 DEF ReleaseRest, Rest
<1>2. UNCHANGED <<contact, optIn, price>>
  BY DEF ReleaseRest, Rest
<1>8. rest \in Int /\ t.outstanding - rest \in Int
  BY <1>0 DEF SendRow
<1>3. u \in SendRow
  BY <1>0, <1>8 DEF SendRow, SendPC, Debited
<1>4. SendSound(u)
  BY <1>0, <1>1, <1>8 DEF SendSound, Unreserved, Holding, Unsent
<1>5. send[s].actual > send[s].est => u.actual > u.est
  BY <1>0, <1>1, <1>8
<1>6. ~PriceRose /\ u.actual <= u.est => Funded(u)
  BY <1>0, <1>1, <1>8 DEF SendRow, Funded, Holding
<1>7. balance' \in Int /\ reserved' = reserved - t.outstanding + u.outstanding
  BY <1>0, <1>1, <1>8 DEF SendRow, ReleaseRest, Rest
<1> HIDE DEF u
<1> QED
  BY <1>0, <1>1, <1>2, <1>3, <1>4, <1>5, <1>6, <1>7, OneSendInv

\* Unless a price rose, the wallet reserves enough for the debit, whatever other sends do.
LEMMA DebitActualInv ==
  ASSUME SendInv, NEW s \in Sms, DebitActual(s)
  PROVE  SendInv'
<1> DEFINE t == send[s]
<1>0. /\ t \in SendRow /\ SendSound(t) /\ (~PriceRose => Funded(t))
      /\ balance \in Int /\ reserved \in Int /\ price \in Prices /\ price \in Nat
  BY SingleSendAssumption DEF SendInv, SendTypes, SendsSound, SendsFunded
<1> DEFINE cost == ActualCost(s)
           paid == IF cost <= reserved THEN cost ELSE 0
<1> DEFINE u == [t EXCEPT !.pc = "debited", !.actual = cost, !.outstanding = @ - paid]
<1>1. send' = [send EXCEPT ![s] = u] /\ t.pc = "rolled"
  BY <1>0 DEF DebitActual
<1>2. UNCHANGED <<contact, optIn, price>>
  BY DEF DebitActual
<1>8. cost \in Nat /\ paid \in Nat /\ t.outstanding - paid \in Int
  BY <1>0 DEF ActualCost, SendRow
<1>9. ASSUME ~PriceRose, cost <= t.est
      PROVE  paid = cost
  <2> DEFINE f == Outstanding
  <2>1. f \in [Sms -> Nat] /\ f[s] = t.outstanding
    BY <1>9 DEF SendInv, SendsFunded, Funded, SendTypes, SendRow, Outstanding
  <2>2. reserved = SumFunction(f)
    BY DEF SendInv, Earmarked
  <2>3. f[s] <= SumFunction(f) /\ SumFunction(f) \in Nat
    <3> HIDE DEF f
    <3> QED
      BY <2>1, TermAtMostSum, SingleSendAssumption
  <2>4. t.outstanding = t.est
    BY <1>0, <1>1, <1>9 DEF Funded, Holding
  <2> HIDE DEF f, t, cost
  <2> QED
    BY <1>0, <1>8, <1>9, <2>1, <2>2, <2>3, <2>4
<1>3. u \in SendRow
  BY <1>0, <1>8, <1>9 DEF SendRow, SendPC, Debited
<1>4. SendSound(u)
  BY <1>0, <1>1, <1>8, <1>9 DEF SendSound, Unreserved, Holding, Unsent
<1>5. send[s].actual > send[s].est => u.actual > u.est
  BY <1>0, <1>1, <1>8, <1>9 DEF SendRow, SendSound, Holding
<1>6. ~PriceRose /\ u.actual <= u.est => Funded(u)
  BY <1>0, <1>1, <1>8, <1>9 DEF SendRow, Funded, Holding
<1>7. balance' \in Int /\ reserved' = reserved - t.outstanding + u.outstanding
  BY <1>0, <1>1, <1>8, <1>9 DEF SendRow, DebitActual
<1> HIDE DEF u
<1> QED
  BY <1>0, <1>1, <1>2, <1>3, <1>4, <1>5, <1>6, <1>7, OneSendInv

\* Validation estimates what the send will hold; before, it holds nothing.
LEMMA ValidateInv ==
  ASSUME SendInv, NEW s \in Sms, Validate(s)
  PROVE  SendInv'
<1> DEFINE t == send[s]
<1>0. /\ t \in SendRow /\ SendSound(t) /\ (~PriceRose => Funded(t))
      /\ balance \in Int /\ reserved \in Int /\ price \in Prices /\ price \in Nat
  BY SingleSendAssumption DEF SendInv, SendTypes, SendsSound, SendsFunded
<1>1. t.pc = "dispatched" /\ UNCHANGED <<contact, optIn, balance, reserved, price>>
  BY DEF Validate, OnlySend
<1>2. ASSUME NEW u, u = [t EXCEPT !.pc = "broken"] \/ u = [t EXCEPT !.pc = "rejected", !.status = "failed"],
             send' = [send EXCEPT ![s] = u]
      PROVE  SendInv'
  <2>1. u \in SendRow
    BY <1>0, <1>2 DEF SendRow, SendPC, Unreserved
  <2>2. /\ u.est = t.est /\ u.actual = t.actual /\ u.accepted = t.accepted
        /\ u.outstanding = t.outstanding /\ u.result = t.result /\ MayMove(t.pc, u.pc)
    BY <1>0, <1>1, <1>2 DEF SendRow, MayMove, Unreserved, Unsent
  <2> QED
    BY <1>1, <1>2, <2>1, <2>2, MoveInv
<1>3. ASSUME NEW u, u = [t EXCEPT !.pc = "validated", !.est = price], send' = [send EXCEPT ![s] = u]
      PROVE  SendInv'
  <2>1. u \in SendRow
    BY <1>0, <1>3 DEF SendRow, SendPC, Unreserved
  <2>2. SendSound(u) /\ (~PriceRose => Funded(u))
    BY <1>0, <1>1, <1>3 DEF SendSound, Funded, Unreserved, Holding, Unsent
  <2>3. ~ (t.actual > t.est)
    BY <1>0, <1>1 DEF SendRow, SendSound, Unreserved
  <2>4. balance' \in Int /\ reserved' = reserved - t.outstanding + u.outstanding
    BY <1>0, <1>1, <1>3 DEF SendRow
  <2> HIDE DEF t
  <2> QED
    BY <1>0, <1>1, <1>3, <2>1, <2>2, <2>3, <2>4, OneSendInv DEF t
<1>4. \/ send' = [send EXCEPT ![s] = [t EXCEPT !.pc = "broken"]]
      \/ send' = [send EXCEPT ![s] = [t EXCEPT !.pc = "rejected", !.status = "failed"]]
      \/ send' = [send EXCEPT ![s] = [t EXCEPT !.pc = "validated", !.est = price]]
  BY DEF Validate, Estimate
<1> QED
  BY <1>2, <1>3, <1>4

-----------------------------------------------------------------------------
\* Steps that leave the sends alone keep what is said of them.
LEMMA SendsKept ==
  ASSUME SendInv, UNCHANGED <<send, reserved, balance>>, price' \in Prices,
         SendTypes' /\ PhonesUnique'
  PROVE  SendInv'
BY DEF SendInv, SendsSound, SendsFunded, PriceRose, Earmarked, Outstanding

\* The look-up of an opt-in changes no contact.
LEMMA OptInInv ==
  ASSUME SendInv, NEW w \in Worker, NEW p \in Phone, OptIn(w, p)
  PROVE  SendInv'
<1>1. SendTypes' /\ PhonesUnique'
  BY DEF SendInv, SendTypes, PhonesUnique, Live, OptIn, OptInPC
<1> QED
  BY <1>1, SendsKept DEF OptIn, SendTypes

\* An opt-in that is lost leaves the contacts as they are.
LEMMA LoseOptInInv ==
  ASSUME SendInv, NEW w \in Worker, LoseOptIn(w)
  PROVE  SendInv'
<1>1. SendTypes' /\ PhonesUnique'
  BY DEF SendInv, SendTypes, PhonesUnique, Live, LoseOptIn, OptInPC
<1> QED
  BY <1>1, SendsKept DEF LoseOptIn, SendTypes

\* Nor does the welcome, which fails.
LEMMA SendWelcomeInv ==
  ASSUME SendInv, NEW w \in Worker, SendWelcome(w)
  PROVE  SendInv'
<1>1. SendTypes' /\ PhonesUnique'
  BY DEF SendInv, SendTypes, PhonesUnique, Live, SendWelcome, FailToWelcome, OptInPC
<1> QED
  BY <1>1, SendsKept DEF SendWelcome, FailToWelcome, SendTypes

\* A contact is registered for a phone that no other has at that moment, whatever
\* the look-up found before.
LEMMA RegisterContactInv ==
  ASSUME SendInv, NEW w \in Worker, NEW c \in Contact, RegisterContact(w, c)
  PROVE  SendInv'
<1>1. SendTypes'
  BY DEF SendInv, SendTypes, RegisterContact, OptInPC, ContactRow
<1>2. PhonesUnique'
  BY SingleSendAssumption DEF SendInv, SendTypes, PhonesUnique, Live, Taken, RegisterContact,
     MayInsert
<1> QED
  BY <1>1, <1>2, SendsKept DEF RegisterContact, SendTypes

\* An opt-out or a deletion makes no phone taken twice.
LEMMA ChangeContactInv ==
  ASSUME SendInv, NEW c \in Contact, NEW to \in {"unsubscribed", "deleted"}, ChangeContact(c, to)
  PROVE  SendInv'
<1>1. SendTypes'
  BY DEF SendInv, SendTypes, ChangeContact, ContactRow, Live
<1>2. PhonesUnique'
  BY DEF SendInv, PhonesUnique, Live, ChangeContact
<1> QED
  BY <1>1, <1>2, SendsKept DEF ChangeContact, SendTypes

\* A new price changes what is to come, not what is held.
LEMMA RefreshPricesInv ==
  ASSUME SendInv, RefreshPrices
  PROVE  SendInv'
<1>1. SendTypes' /\ PhonesUnique'
  BY DEF SendInv, SendTypes, PhonesUnique, Live, RefreshPrices
<1> QED
  BY <1>1, SendsKept DEF RefreshPrices

\* Every step of the single sends and opt-ins keeps their invariant.
LEMMA SendNextInv ==
  ASSUME SendInv, SendNext
  PROVE  SendInv'
<1>1. ASSUME NEW s \in Sms, SendStep(s)
      PROVE  SendInv'
  BY <1>1, DelayInv, ValidateInv, ReserveSingleInv, ReserveRefusedInv, EnqueueChainInv,
     BuildRecipientInv, SaveResultInv, CallProviderInv, ReadForFinalizeInv, RollUpInv,
     DebitActualInv, ReleaseRestInv DEF SendStep
<1> QED
  BY <1>1, OptInInv, RegisterContactInv, LoseOptInInv, RequestSingleSendInv, CancelInv,
     LoseTaskInv, ChangeContactInv, RefreshPricesInv DEF SendNext

-----------------------------------------------------------------------------
\* The invariant holds at first ...
LEMMA InitInv == Init => IInv
BY AutomationInitInv, SendInitInv DEF Init, IInv

\* ... and every step of the two halves keeps it.
LEMMA StepInv == IInv /\ [Next]_vars => IInv'
<1> SUFFICES ASSUME IInv, [Next]_vars
             PROVE  IInv'
  OBVIOUS
<1> USE DEF IInv
<1>1. ASSUME UNCHANGED automationVars
      PROVE  AutomationInv'
  BY <1>1 DEF automationVars, AutomationInv, AutomationTypes, CopiesSound, TaskKnown,
     AgreesUnlessSaving, FiringsSound, Alone, ScheduledFor, Settled
<1>2. ASSUME UNCHANGED sendVars
      PROVE  SendInv'
  BY <1>2 DEF sendVars, SendInv, SendTypes, PhonesUnique, Live, SendsSound, SendsFunded,
     PriceRose, Earmarked, Outstanding
<1>3. CASE AutomationNext /\ UNCHANGED sendVars
  BY <1>2, <1>3, AutomationNextInv
<1>4. CASE SendNext /\ UNCHANGED automationVars
  BY <1>1, <1>4, SendNextInv
<1>5. CASE \E w \in Worker : SendWelcome(w)
  BY <1>1, <1>5, SendWelcomeInv DEF SendWelcome
<1>6. CASE UNCHANGED vars
  BY <1>1, <1>2, <1>6 DEF vars
<1> QED
  BY <1>3, <1>4, <1>5, <1>6 DEF Next

\* The inductive invariant holds in every reachable state.
THEOREM InvariantHolds == Spec => []IInv
<1> QED
  BY InitInv, StepInv, PTL DEF Spec

\* What every row and variable may hold, in every reachable state.
THEOREM AutomatedTypesHold == Spec => [](AutomationTypes /\ SendTypes)
<1>1. IInv => AutomationTypes /\ SendTypes
  BY DEF IInv, AutomationInv, SendInv
<1> QED
  BY <1>1, InvariantHolds, PTL

\* Once the updates of an automation are over, the schedule says what its status says
\* (AutomationService), however many automations share the row and workers update them.
THEOREM ScheduleAlwaysAgrees == Spec => []ScheduleAgrees
<1>1. IInv => ScheduleAgrees
  <2> SUFFICES ASSUME IInv, NEW a \in Automation, automation[a] # Missing, ~Busy(a),
                      a \notin disturbed
               PROVE  /\ Stops(automation[a]) => ~ScheduledFor(a)
                      /\ Runs(automation[a]) /\ a \notin displaced => ScheduledFor(a)
    BY DEF ScheduleAgrees
  <2>1. Settled(a)
    BY AutomationAssumption DEF IInv, AutomationInv, AutomationTypes, Settled, Busy
  <2> QED
    BY <2>1 DEF IInv, AutomationInv, AgreesUnlessSaving
<1> QED
  BY <1>1, InvariantHolds, PTL

\* The provider accepts one message at most for an Sms of one contact.
THEOREM SendsOneCopy == Spec => []OneCopyPerSend
<1>1. IInv => OneCopyPerSend
  BY DEF IInv, SendInv, SendsSound, SendSound, OneCopyPerSend
<1> QED
  BY <1>1, InvariantHolds, PTL

\* What the wallet reserves is what the single sends hold, for any number of them at any
\* prices, and a send that has ended in order holds nothing.
THEOREM ReservationAlwaysExplained == Spec => []ReservationExplained
<1>1. IInv => ReservationExplained
  <2> SUFFICES ASSUME IInv
               PROVE  ReservationExplained
    OBVIOUS
  <2>1. reserved = SumFunction([s \in Sms |-> send[s].outstanding])
    BY DEF IInv, SendInv, Earmarked, Outstanding
  <2>2. ASSUME ~PriceRose, NEW s \in Sms, send[s].pc \in Ended \ Stranding
        PROVE  send[s].outstanding = 0
    BY <2>2 DEF IInv, SendInv, SendsSound, SendSound, SendsFunded, Funded, Ended, Stranding,
       Unreserved
  <2> QED
    BY <2>1, <2>2 DEF ReservationExplained
<1> QED
  BY <1>1, InvariantHolds, PTL

\* A phone has one contact that is not deleted, for any number of opt-ins at a time.
THEOREM PhonesRegisteredOnce == Spec => []RegisteredOnce
<1>1. IInv => RegisteredOnce
  <2> SUFFICES ASSUME IInv, NEW p \in Phone
               PROVE  LET ofPhone == {c \in Contact : contact[c] # None /\ contact[c].phone = p} IN
                      Cardinality(ofPhone) <= 1 + Cardinality(ofPhone \ Live)
    BY DEF RegisteredOnce
  <2> DEFINE ofPhone == {c \in Contact : contact[c] # None /\ contact[c].phone = p}
             live == ofPhone \cap Live  gone == ofPhone \ Live
  <2>1. IsFiniteSet(live) /\ IsFiniteSet(gone)
    BY SingleSendAssumption, FS_Subset
  <2>2. \A c, d \in live : c = d
    BY DEF IInv, SendInv, PhonesUnique
  <2>3. Cardinality(live) <= 1
    <3> HIDE DEF live
    <3> QED
      BY <2>1, <2>2, AtMostOneElement
  <2>4. live \cap gone = {} /\ ofPhone = live \cup gone
    OBVIOUS
  <2>5. Cardinality(live) \in Nat /\ Cardinality(gone) \in Nat
    BY <2>1, FS_CardinalityType
  <2>6. Cardinality(ofPhone) = Cardinality(live) + Cardinality(gone)
    <3> HIDE DEF live, gone, ofPhone
    <3>1. Cardinality(live \cup gone) = Cardinality(live) + Cardinality(gone) - Cardinality(live \cap gone)
      BY <2>1, FS_Union
    <3>2. Cardinality(live \cap gone) = 0 /\ Cardinality(ofPhone) = Cardinality(live \cup gone)
      BY <2>4, FS_EmptySet
    <3> QED
      BY <2>5, <3>1, <3>2
  <2> HIDE DEF live
  <2> QED
    BY <2>3, <2>5, <2>6
<1> QED
  BY <1>1, InvariantHolds, PTL
=============================================================================
