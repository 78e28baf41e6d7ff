-------------------------- MODULE CustomersProofs --------------------------
(***************************************************************************)
(* The properties of contacts, segments and Shopify customers, for any     *)
(* number of them, of workers and of webhooks.                             *)
(***************************************************************************)
EXTENDS Customers, SumProofs

Counts == UNION {[G -> Nat \cup {None}] : G \in SUBSET Segment}
Request == [pc : {"idle", "commit", "update", "optout", "length", "segment", "shopify"},
            key : Contact \cup Segment \cup {None}, row : ContactRow \cup {None}, given : BOOLEAN,
            join : SUBSET Segment, segs : SUBSET SUBSET Segment, counts : Counts,
            aged : SUBSET Segment, late : BOOLEAN, holds : SUBSET Contact,
            taken : SUBSET (Phone \cup {NoPhone})]

ContactTypes ==
  /\ contact \in [Contact -> ContactRow \cup {None}]
  /\ list \subseteq Segment /\ member \subseteq Segment \X Contact
  /\ stored \in [Segment -> Nat \cup {None}]
  /\ request \in [Worker -> Request]

\* Keys were given out before rows have them; who opted out is there, and memberships
\* are of segments that are there.
KeysBorn ==
  /\ Rows \cup list \subseteq born /\ silenced \subseteq Rows
  /\ \A m \in member : m[1] \in list

\* What a request works on was there once, and a commit holds its contact and its
\* segments (B are the keys that were given out, L the segments).
HoldsBorn(r, B, L) ==
  /\ r.pc \in {"update", "commit", "optout"} => r.key \in Contact \cap B /\ r.row \in ContactRow
  /\ r.pc \in {"length", "segment"} => r.key \in Segment \cap B /\ DOMAIN r.counts = {r.key}
  /\ r.pc = "commit" => DOMAIN r.counts \subseteq L /\ r.key \in r.holds
  /\ r.pc = "optout" => r.row.status # "subscribed"
  /\ r.holds \subseteq B

\* A copy of a contact that has opted out does not say it is subscribed, unless the
\* client says so or the copy is older (S are those who opted out).
CopiesSilence(r, S) ==
  r.pc \in {"update", "commit"} /\ r.key \in S /\ ~r.given /\ ~r.late
    => r.row.status # "subscribed"

\* A count that has not aged is right: of the members there are, and the one to come;
\* and a length that was read is the one that is stored.
CountsRight(r, M, st, L) ==
  \A g \in DOMAIN r.counts \ r.aged :
    LET there == {c \in Contact : <<g, c>> \in M} IN
    /\ r.pc = "commit" => r.counts[g] = Cardinality(there \cup {r.key})
    /\ r.pc = "length" => r.counts[g] = Cardinality(there)
    /\ r.pc = "segment" /\ ~r.given => r.counts[g] = st[g] /\ g \in L

Sound(r, B, L, S, M, st) ==
  HoldsBorn(r, B, L) /\ CopiesSilence(r, S) /\ CountsRight(r, M, st, L)
RequestsSound == \A w \in Worker : Sound(request[w], born, list, silenced, member, stored)

\* No two workers hold a contact.
Exclusive ==
  \A v, w \in Worker : v # w => request[v].holds \cap request[w].holds = {}

ContactInv ==
  ContactTypes /\ KeysBorn /\ RequestsSound /\ Exclusive /\ SilencedStaysSilent /\ LengthExact

-----------------------------------------------------------------------------
Webhook == [customer : Customer, topic : {"create", "update", "delete"},
            phone : Phone \cup {NoPhone, "gone"}]
Hooked == UNION {[K -> Phone \cup {NoPhone, "gone"}] : K \in SUBSET Customer}
Found == UNION {[P -> Contact \cup {None}] : P \in SUBSET Phone}
Seen == UNION {[K -> LinkRow \cup {None}] : K \in SUBSET Customer}
Job(n) == [pc : {"none", "pages", "save", "links", "update", "delete"}, hook : 0 .. n,
           page : Nat, at : 0 .. n, phoneOf : Hooked, known : Found, keys : Found, seen : Seen]

CustomerTypes ==
  /\ shop \in [Customer -> {"before", "gone"} \cup Phone \cup {NoPhone}]
  /\ sent \in Seq(Webhook)
  /\ unanswered \cup handled = 1 .. Len(sent) /\ unanswered \cap handled = {}
  /\ link \in [Customer -> LinkRow \cup {None}]

JobTypes == job \in [Worker -> Job(Len(sent))]

\* A link points to a contact that is there.
LinkedRows == \A k \in Customer : link[k] # None => link[k].contact \in Rows \cup {None}

\* The last webhook of a customer says what Shopify has; one of a deletion is the last.
LastNews ==
  \A n \in 1 .. Len(sent) :
    LET k == sent[n].customer
        last == \A m \in 1 .. Len(sent) : m > n => sent[m].customer # k IN
    /\ last => shop[k] = sent[n].phone
    /\ sent[n].topic = "delete" <=> sent[n].phone = "gone"
    /\ sent[n].topic = "delete" => last

\* A link is there after a create, and only a deletion ends it.
LinkNews ==
  /\ \A n \in handled : sent[n].topic = "create" => link[sent[n].customer] # None
  /\ \A k \in Customer :
       link[k] # None /\ ~link[k].live =>
         \E n \in handled : sent[n].customer = k /\ sent[n].topic = "delete"

\* What is known of the customers only, whatever happens to the contacts.
News == CustomerTypes /\ LastNews /\ LinkNews /\ SettledMeansLinked

\* What an import has fetched is what Shopify has, or a webhook was sent since (S are the
\* webhooks, sh what Shopify has).
FetchedSound(j, S, sh) ==
  j.hook = 0 => \A k \in DOMAIN j.phoneOf :
    j.phoneOf[k] = sh[k] \/ \E n \in 1 .. Len(S) : n > j.at /\ S[n].customer = k

\* A job of a webhook is about its customer; the link that an update has read is the one
\* there is, but for its contact, or the customer is crossed (ln are the links, X those
\* who are crossed).
HookSound(j, S, ln, X) ==
  /\ j.pc = "none" => j = NoJob
  /\ j.pc = "pages" => j.hook = 0
  /\ j.hook = 0 => /\ j.pc \notin {"update", "delete"}
                   /\ \A k \in DOMAIN j.phoneOf : j.phoneOf[k] # "gone"
  /\ j.hook # 0 =>
       LET k == S[j.hook].customer IN
       /\ DOMAIN j.phoneOf = {k} /\ j.phoneOf[k] = S[j.hook].phone
       /\ j.pc \in {"save", "links"} => S[j.hook].topic = "create"
       /\ j.pc \in {"update", "delete"} =>
            /\ S[j.hook].topic = j.pc
            /\ DOMAIN j.seen = {k} /\ j.seen[k] \in LinkRow /\ ln[k] # None
            /\ j.pc = "update" /\ k \notin X => ln[k].contact \in {j.seen[k].contact, None}

\* A transaction that has saved its contacts holds them (H): they are there or will be,
\* each for one phone, and so is the contact of each customer that is not crossed (ct are
\* the contacts).
KeysSound(j, H, ct, X) ==
  /\ j.pc = "save" => DOMAIN j.known = Phones(j.phoneOf)
  /\ j.pc = "links" =>
       /\ DOMAIN j.keys = Phones(j.phoneOf) /\ DOMAIN j.seen = DOMAIN j.phoneOf
       /\ \A p, q \in DOMAIN j.keys : j.keys[p] = j.keys[q] /\ j.keys[p] # None => p = q
       /\ \A c \in H : ct[c] # None \/ \E p \in DOMAIN j.keys : j.keys[p] = c
       /\ \A p \in DOMAIN j.keys :
            j.keys[p] \in H /\ ct[j.keys[p]] # None => ct[j.keys[p]].phone = p
       /\ \A k \in DOMAIN j.phoneOf \ X :
            j.phoneOf[k] # NoPhone => j.keys[j.phoneOf[k]] \in H

JobSound(j, H, S, sh, ln, ct, X) ==
  FetchedSound(j, S, sh) /\ HookSound(j, S, ln, X) /\ KeysSound(j, H, ct, X)

JobsSound ==
  \A w \in Worker : JobSound(job[w], request[w].holds, sent, shop, link, contact, crossed)

\* Two workers have a customer in hand only if it is crossed.
Crossing == \A v, w \in Worker : v # w => InHand(v) \cap InHand(w) \subseteq crossed

JobInv == JobTypes /\ JobsSound /\ Crossing

IInv == ContactInv /\ LinkedRows /\ LinkAgrees /\ News /\ JobInv

-----------------------------------------------------------------------------
(* Requests *)

\* An idle request is a request.
LEMMA IdleTyped == Idle \in Request /\ Idle.holds = {}
<1>1. <<>> \in Counts
  BY DEF Counts
<1> QED
  BY <1>1 DEF Idle, Request

\* An idle request holds nothing.
LEMMA IdleSound ==
  ASSUME NEW B, NEW L, NEW S, NEW M, NEW st
  PROVE  Sound(Idle, B, L, S, M, st)
BY DEF Sound, HoldsBorn, CopiesSilence, CountsRight, Idle

\* A segment has finitely many members, whoever joins.
LEMMA MembersFinite ==
  ASSUME NEW g, NEW c \in Contact, NEW d \in Contact
  PROVE  /\ Cardinality(Members(g) \cup {c}) \in Nat
         /\ Cardinality(Members(g)) \in Nat
         /\ Cardinality(Members(g) \ {c}) \in Nat
<1>1. /\ Members(g) \cup {c} \subseteq Contact /\ Members(g) \subseteq Contact
      /\ Members(g) \ {c} \subseteq Contact
  BY DEF Members
<1>2. IsFiniteSet(Contact)
  BY ContactsAssumption DEF Status
<1>3. \A T \in SUBSET Contact : IsFiniteSet(T)
  BY <1>2, FS_Subset
<1> QED
  BY <1>1, <1>3, FS_CardinalityType

\* The counts of a contact's segments.
LEMMA LengthsTyped ==
  ASSUME NEW c \in Contact, NEW G \in SUBSET Segment
  PROVE  /\ LengthsWith(c, G) \in Counts /\ DOMAIN LengthsWith(c, G) = G
         /\ \A g \in G : LengthsWith(c, G)[g] = Cardinality(Members(g) \cup {c})
<1>1. \A g \in G : Cardinality(Members(g) \cup {c}) \in Nat \cup {None}
  BY MembersFinite
<1>2. LengthsWith(c, G) \in [G -> Nat \cup {None}]
  BY <1>1 DEF LengthsWith
<1>3. LengthsWith(c, G) \in Counts
  BY <1>2 DEF Counts
<1>4. DOMAIN LengthsWith(c, G) = G
  BY DEF LengthsWith
<1>5. \A g \in G : LengthsWith(c, G)[g] = Cardinality(Members(g) \cup {c})
  BY DEF LengthsWith
<1> QED
  BY <1>3, <1>4, <1>5

\* A request q that is r, but that what it knows of the segments G has aged.
Follows(q, r, G) ==
  /\ q \in Request
  /\ q.pc = r.pc /\ q.key = r.key /\ q.row = r.row /\ q.given = r.given
  /\ q.counts = r.counts /\ q.late = r.late /\ q.holds = r.holds
  /\ r.aged \cup (G \cap DOMAIN r.counts) \subseteq q.aged

\* A request that ages goes on as it was.
LEMMA AgedFollows ==
  ASSUME NEW r \in Request, NEW G \in SUBSET Segment
  PROVE  Follows(Aged(r, G), r, G)
BY DEF Aged, Request, Follows

\* A request stays sound while others change the segments G: what it counted of them
\* has aged, and its own are still there.
LEMMA SoundKept ==
  ASSUME NEW r \in Request, NEW q, NEW G \in SUBSET Segment, Follows(q, r, G),
         NEW B, NEW L, NEW S, NEW M, NEW st, Sound(r, B, L, S, M, st),
         NEW B2, NEW L2, NEW S2, NEW M2, NEW st2,
         B \subseteq B2, L \subseteq B, S2 \subseteq S,
         r.pc = "commit" => DOMAIN r.counts \subseteq L2,
         \A g \in (Segment \cap B) \ G :
           /\ \A c \in Contact : <<g, c>> \in M2 <=> <<g, c>> \in M
           /\ st2[g] = st[g] /\ (g \in L => g \in L2)
  PROVE  Sound(q, B2, L2, S2, M2, st2)
<1>1. HoldsBorn(q, B2, L2) /\ CopiesSilence(q, S2)
  BY DEF Sound, HoldsBorn, CopiesSilence, Follows
<1>2. CountsRight(q, M2, st2, L2)
  <2> SUFFICES ASSUME NEW g \in DOMAIN r.counts, g \notin r.aged, g \notin G,
                      r.pc \in {"commit", "length", "segment"}
               PROVE  LET there == {c \in Contact : <<g, c>> \in M2} IN
                      /\ r.pc = "commit" => r.counts[g] = Cardinality(there \cup {r.key})
                      /\ r.pc = "length" => r.counts[g] = Cardinality(there)
                      /\ r.pc = "segment" /\ ~r.given => r.counts[g] = st2[g] /\ g \in L2
    BY DEF CountsRight, Follows
  <2>1. g \in Segment \cap B
    BY DEF Sound, HoldsBorn, Request, Counts
  <2>2. {c \in Contact : <<g, c>> \in M2} = {c \in Contact : <<g, c>> \in M}
    BY <2>1
  <2> QED
    BY <2>1, <2>2 DEF Sound, CountsRight
<1> QED
  BY <1>1, <1>2 DEF Sound

\* So do all of the workers W, when a step changes the segments G.
LEMMA AllSound ==
  ASSUME ContactInv, NEW W \in SUBSET Worker, NEW G \in SUBSET Segment,
         \A v \in W : Follows(request'[v], request[v], G),
         born \subseteq born', silenced' \subseteq silenced,
         \A v \in W : request[v].pc = "commit" => DOMAIN request[v].counts \subseteq list',
         \A g \in (Segment \cap born) \ G :
           /\ \A c \in Contact : <<g, c>> \in member' <=> <<g, c>> \in member
           /\ stored'[g] = stored[g] /\ (g \in list => g \in list')
  PROVE  \A v \in W : /\ request'[v] \in Request
                      /\ Sound(request'[v], born', list', silenced', member', stored')
<1> SUFFICES ASSUME NEW v \in W
             PROVE  /\ request'[v] \in Request
                    /\ Sound(request'[v], born', list', silenced', member', stored')
  OBVIOUS
<1> DEFINE r == request[v]  q == request'[v]
<1>1. r \in Request /\ Sound(r, born, list, silenced, member, stored)
  BY DEF ContactInv, ContactTypes, RequestsSound
<1>2. Follows(q, r, G) /\ (r.pc = "commit" => DOMAIN r.counts \subseteq list')
  OBVIOUS
<1>3. /\ born \subseteq born' /\ list \subseteq born /\ silenced' \subseteq silenced
      /\ \A g \in (Segment \cap born) \ G :
           /\ \A c \in Contact : <<g, c>> \in member' <=> <<g, c>> \in member
           /\ stored'[g] = stored[g] /\ (g \in list => g \in list')
  BY DEF ContactInv, KeysBorn
<1> HIDE DEF r, q
<1>4. Sound(q, born', list', silenced', member', stored')
  BY <1>1, <1>2, <1>3, SoundKept
<1> QED
  BY <1>2, <1>4 DEF q, Follows

\* Worker w goes on as r: it is sound if r is, and the others age.
LEMMA ContinueSound ==
  ASSUME ContactInv, NEW w \in Worker, NEW r \in Request, NEW G \in SUBSET Segment,
         Continue(w, r, G) \/ (request' = [request EXCEPT ![w] = r] /\ G = {}),
         Sound(r, born', list', silenced', member', stored'),
         \A v \in Worker \ {w} : r.holds \cap request[v].holds = {},
         born \subseteq born', silenced' \subseteq silenced,
         \A v \in Worker \ {w} :
           request[v].pc = "commit" => DOMAIN request[v].counts \subseteq list',
         \A g \in (Segment \cap born) \ G :
           /\ \A c \in Contact : <<g, c>> \in member' <=> <<g, c>> \in member
           /\ stored'[g] = stored[g] /\ (g \in list => g \in list')
  PROVE  request' \in [Worker -> Request] /\ RequestsSound' /\ Exclusive'
<1> DEFINE W == Worker \ {w}
<1>1. \A v \in W : Follows(request'[v], request[v], G)
  <2>1. CASE Continue(w, r, G)
    BY <2>1, AgedFollows DEF Continue, ContactInv, ContactTypes
  <2>2. CASE request' = [request EXCEPT ![w] = r] /\ G = {}
    BY <2>2 DEF Follows, ContactInv, ContactTypes
  <2> QED
    BY <2>1, <2>2
<1>2. \A v \in W : request[v].pc = "commit" => DOMAIN request[v].counts \subseteq list'
  OBVIOUS
<1>3. \A v \in W : /\ request'[v] \in Request
                   /\ Sound(request'[v], born', list', silenced', member', stored')
  <2>1. W \in SUBSET Worker
    OBVIOUS
  <2> HIDE DEF W
  <2> QED
    BY <1>1, <1>2, <2>1, AllSound
<1>4. request'[w] = r /\ request' = [v \in Worker |-> request'[v]]
  <2>1. CASE Continue(w, r, G)
    BY <2>1 DEF Continue
  <2>2. CASE request' = [request EXCEPT ![w] = r] /\ G = {}
    BY <2>2 DEF ContactInv, ContactTypes
  <2> QED
    BY <2>1, <2>2
<1>5. Exclusive'
  BY <1>1, <1>4 DEF Follows, ContactInv, Exclusive
<1> QED
  BY <1>3, <1>4, <1>5 DEF RequestsSound

\* Every request ages, or nothing is changed that a request knows of.
LEMMA AgeSound ==
  ASSUME ContactInv, NEW G \in SUBSET Segment,
         \/ request' = [v \in Worker |-> Aged(request[v], G)]
         \/ UNCHANGED request /\ G = {},
         born \subseteq born', silenced' \subseteq silenced,
         \A v \in Worker : request[v].pc = "commit" => DOMAIN request[v].counts \subseteq list',
         \A g \in (Segment \cap born) \ G :
           /\ \A c \in Contact : <<g, c>> \in member' <=> <<g, c>> \in member
           /\ stored'[g] = stored[g] /\ (g \in list => g \in list')
  PROVE  request' \in [Worker -> Request] /\ RequestsSound' /\ Exclusive'
<1>1. \A v \in Worker : Follows(request'[v], request[v], G)
  <2>1. CASE request' = [v \in Worker |-> Aged(request[v], G)]
    BY <2>1, AgedFollows DEF ContactInv, ContactTypes
  <2>2. CASE UNCHANGED request /\ G = {}
    BY <2>2 DEF Follows, ContactInv, ContactTypes
  <2> QED
    BY <2>1, <2>2
<1>2. \A v \in Worker : /\ request'[v] \in Request
                        /\ Sound(request'[v], born', list', silenced', member', stored')
  BY <1>1, AllSound
<1>3. request' = [v \in Worker |-> request'[v]]
  BY DEF ContactInv, ContactTypes
<1>4. Exclusive'
  BY <1>1 DEF Follows, ContactInv, Exclusive
<1> QED
  BY <1>2, <1>3, <1>4 DEF RequestsSound

-----------------------------------------------------------------------------
(* Contacts and segments *)

\* What a request knows of the contact it writes, after its last save but the commit.
LEMMA SavedSound ==
  ASSUME ContactInv, NEW u \in Request, NEW G \in SUBSET Segment, G \subseteq list,
         u.key \in Contact \cap born', u.row \in ContactRow,
         u.key \in silenced /\ ~u.given /\ ~u.late => u.row.status # "subscribed",
         UNCHANGED <<list, member, stored, silenced>>
  PROVE  /\ Saved(u, G) \in Request /\ Saved(u, G).holds = {u.key}
         /\ Sound(Saved(u, G), born', list', silenced', member', stored')
<1> DEFINE r == Saved(u, G)
<1>1. u.row.phone \in Phone \cup {NoPhone}
  BY DEF ContactRow
<1>2. /\ r \in Request /\ r.pc = "commit" /\ r.key = u.key /\ r.row = u.row /\ r.given = u.given
      /\ r.late = u.late /\ r.counts = LengthsWith(u.key, G) /\ r.holds = {u.key}
  BY <1>1, LengthsTyped DEF Saved, Request
<1> HIDE DEF r
<1>3. HoldsBorn(r, born', list')
  BY <1>2, LengthsTyped DEF HoldsBorn
<1>4. CopiesSilence(r, silenced')
  BY <1>2 DEF CopiesSilence
<1>5. CountsRight(r, member', stored', list')
  BY <1>2, LengthsTyped DEF CountsRight, Members
<1> QED
  BY <1>2, <1>3, <1>4, <1>5 DEF Sound, r

\* create_contact copies what the contact has, or inserts one, which nobody knows of.
LEMMA CreateContactInv ==
  ASSUME ContactInv, NEW w \in Worker, NEW c \in Contact, NEW p \in Phone,
         NEW status \in Writes \cup {None}, NEW G \in SUBSET Segment,
         CreateContact(w, c, p, status, G)
  PROVE  ContactInv'
<1> USE ContactsAssumption DEF Status
<1> DEFINE r == [Idle EXCEPT !.pc = "update", !.key = c, !.given = status # None, !.join = G,
                     !.row = [phone |-> p, status |-> StatusAfter(c, status)]]
<1>0. [phone |-> p, status |-> StatusAfter(c, status)] \in ContactRow
  <2>1. StatusAfter(c, status) \in Status
    BY DEF StatusAfter, Rows, ContactInv, ContactTypes, ContactRow
  <2> QED
    BY <2>1 DEF ContactRow
<1>1. /\ r \in Request /\ r.pc = "update" /\ r.key = c /\ r.given = (status # None)
      /\ r.row \in ContactRow /\ r.row.status = StatusAfter(c, status) /\ r.holds = {}
      /\ ~r.late
  BY <1>0, IdleTyped DEF Request, Idle
<1>2. c \in silenced /\ status = None => StatusAfter(c, status) # "subscribed"
  BY DEF StatusAfter, ContactInv, KeysBorn, SilencedStaysSilent
<1>9. /\ born \subseteq born' /\ silenced' = silenced /\ list' = list /\ member' = member
      /\ stored' = stored /\ UNCHANGED <<contact, drifted>> /\ G \subseteq list
      /\ \A v \in Worker : request[v].pc = "commit" => DOMAIN request[v].counts \subseteq list
      /\ \/ Continue(w, Saved(r, G), {}) /\ c \notin born /\ born' = born \cup {c}
         \/ Continue(w, r, {}) /\ c \in Rows /\ born' = born
  BY DEF CreateContact, WithPhone, ContactInv, RequestsSound, Sound, HoldsBorn
<1> HIDE DEF r
<1>3. request' \in [Worker -> Request] /\ RequestsSound' /\ Exclusive'
  <2>1. CASE Continue(w, Saved(r, G), {}) /\ c \notin born /\ born' = born \cup {c}
    <3>1. /\ Saved(r, G) \in Request /\ Saved(r, G).holds = {c}
          /\ Sound(Saved(r, G), born', list', silenced', member', stored')
      BY <1>1, <1>2, <1>9, <2>1, SavedSound
    <3>2. \A v \in Worker : {c} \cap request[v].holds = {}
      BY <2>1 DEF ContactInv, RequestsSound, Sound, HoldsBorn
    <3> QED
      BY <1>9, <2>1, <3>1, <3>2, ContinueSound
  <2>2. CASE Continue(w, r, {}) /\ c \in Rows /\ born' = born
    <3>1. Sound(r, born', list', silenced', member', stored')
      <4>1. HoldsBorn(r, born', list') /\ CountsRight(r, member', stored', list')
        BY <1>1, <2>2 DEF HoldsBorn, CountsRight, ContactInv, KeysBorn
      <4>2. CopiesSilence(r, silenced')
        BY <1>1, <1>2, <1>9 DEF CopiesSilence
      <4> QED
        BY <4>1, <4>2 DEF Sound
    <3> QED
      BY <1>1, <1>9, <2>2, <3>1, ContinueSound
  <2> QED
    BY <1>9, <2>1, <2>2
<1>4. ContactTypes'
  BY <1>3, <1>9 DEF ContactInv, ContactTypes
<1>5. KeysBorn'
  BY <1>9 DEF ContactInv, KeysBorn, Rows
<1>6. SilencedStaysSilent' /\ LengthExact'
  BY <1>9 DEF ContactInv, SilencedStaysSilent, LengthExact, Shown, Size, Members
<1> QED
  BY <1>3, <1>4, <1>5, <1>6 DEF ContactInv

\* An update starts from the contact as it is.
LEMMA OpenContactInv ==
  ASSUME ContactInv, NEW w \in Worker, NEW c \in Contact, NEW p \in Phone \cup {None},
         NEW status \in Writes \cup {None}, NEW G \in {{}} \cup {{H} : H \in SUBSET Segment},
         OpenContact(w, c, p, status, G)
  PROVE  ContactInv'
<1> USE ContactsAssumption DEF Status
<1> DEFINE row == [phone |-> IF p = None THEN contact[c].phone ELSE p,
                   status |-> IF status = None THEN contact[c].status ELSE status]
           r == [Idle EXCEPT !.pc = "update", !.key = c, !.given = status # None,
                     !.join = UNION G, !.segs = G, !.row = row]
<1>0. /\ contact[c] \in ContactRow /\ row \in ContactRow
      /\ row.status = IF status = None THEN contact[c].status ELSE status
  <2>1. contact[c] \in ContactRow
    BY DEF OpenContact, Rows, ContactInv, ContactTypes
  <2> QED
    BY <2>1 DEF ContactRow
<1> HIDE DEF row
<1>1. /\ r \in Request /\ r.pc = "update" /\ r.key = c /\ r.given = (status # None)
      /\ r.row = row /\ r.holds = {} /\ ~r.late
  <2>1. G \in SUBSET SUBSET Segment /\ UNION G \in SUBSET Segment
    OBVIOUS
  <2> QED
    BY <1>0, <2>1, IdleTyped DEF Request, Idle
<1>2. Continue(w, r, {})
  BY DEF OpenContact, row
<1> HIDE DEF r
<1>8. Sound(r, born', list', silenced', member', stored')
  <2>2. HoldsBorn(r, born', list')
    BY <1>0, <1>1 DEF HoldsBorn, OpenContact, tables, ContactInv, KeysBorn
  <2>3. CopiesSilence(r, silenced')
    <3>1. silenced' = silenced /\ (c \in silenced => contact[c].status # "subscribed")
      BY DEF OpenContact, ContactInv, SilencedStaysSilent
    <3> QED
      BY <1>0, <1>1, <3>1 DEF CopiesSilence
  <2>4. CountsRight(r, member', stored', list')
    BY <1>1 DEF CountsRight
  <2> QED
    BY <2>2, <2>3, <2>4 DEF Sound
<1>9. /\ born' = born /\ silenced' = silenced /\ list' = list /\ member' = member
      /\ stored' = stored
      /\ \A v \in Worker : request[v].pc = "commit" => DOMAIN request[v].counts \subseteq list
  BY DEF OpenContact, tables, ContactInv, RequestsSound, Sound, HoldsBorn
<1>3. request' \in [Worker -> Request] /\ RequestsSound' /\ Exclusive'
  BY <1>1, <1>2, <1>8, <1>9, ContinueSound
<1>4. ContactTypes'
  BY <1>3 DEF ContactInv, ContactTypes, OpenContact, tables
<1>5. KeysBorn'
  BY DEF ContactInv, KeysBorn, OpenContact, Rows, tables
<1>6. SilencedStaysSilent' /\ LengthExact'
  BY DEF ContactInv, SilencedStaysSilent, LengthExact, Shown, Size, Members, OpenContact, tables
<1> QED
  BY <1>3, <1>4, <1>5, <1>6 DEF ContactInv

\* The copy is saved and the segments of the contact are counted now, or that is refused.
LEMMA SaveContactInv ==
  ASSUME ContactInv, NEW w \in Worker, SaveContact(w)
  PROVE  ContactInv'
<1> USE ContactsAssumption DEF Status
<1> DEFINE u == request[w]
<1>0. /\ u \in Request /\ u.key \in Contact \cap born /\ u.row \in ContactRow
      /\ u.key \in silenced /\ ~u.given /\ ~u.late => u.row.status # "subscribed"
      /\ u.join \in SUBSET Segment
  BY DEF ContactInv, ContactTypes, RequestsSound, SaveContact, Sound, HoldsBorn, CopiesSilence, Request
<1>1. /\ \/ Continue(w, Saved(u, u.join), {}) /\ u.join \subseteq list
         \/ Continue(w, Idle, {})
      /\ \A v \in Worker : u.key \notin request[v].holds
  BY DEF SaveContact, HeldContact
<1>9. /\ born' = born /\ silenced' = silenced /\ list' = list /\ member' = member
      /\ stored' = stored /\ UNCHANGED <<contact, drifted>>
      /\ \A v \in Worker : request[v].pc = "commit" => DOMAIN request[v].counts \subseteq list
  BY DEF SaveContact, tables, ContactInv, RequestsSound, Sound, HoldsBorn
<1> HIDE DEF u
<1>3. request' \in [Worker -> Request] /\ RequestsSound' /\ Exclusive'
  <2>1. CASE Continue(w, Saved(u, u.join), {}) /\ u.join \subseteq list
    <3>1. /\ Saved(u, u.join) \in Request /\ Saved(u, u.join).holds = {u.key}
          /\ Sound(Saved(u, u.join), born', list', silenced', member', stored')
      BY <1>0, <1>9, <2>1, SavedSound
    <3> QED
      BY <1>1, <1>9, <2>1, <3>1, ContinueSound
  <2>2. CASE Continue(w, Idle, {})
    BY <1>9, <2>2, IdleTyped, IdleSound, ContinueSound
  <2> QED
    BY <1>1, <2>1, <2>2
<1>4. ContactTypes'
  BY <1>3, <1>9 DEF ContactInv, ContactTypes
<1>5. KeysBorn'
  BY <1>9 DEF ContactInv, KeysBorn, Rows
<1>6. SilencedStaysSilent' /\ LengthExact'
  BY <1>9 DEF ContactInv, SilencedStaysSilent, LengthExact, Shown, Size, Members
<1> QED
  BY <1>3, <1>4, <1>5, <1>6 DEF ContactInv

\* The commit puts its counts in place of the lengths of the segments it joins, and what
\* was counted of them, or of those the contact leaves, has aged.
LEMMA CommitInv ==
  ASSUME ContactInv, NEW w \in Worker, Commit(w)
  PROVE  ContactInv'
<1> USE ContactsAssumption DEF Status
<1> DEFINE r == request[w]  c == r.key  G == DOMAIN r.counts
           left == UNION {SegmentsOf(c) \ H : H \in r.segs}
<1>1. /\ r \in Request /\ Sound(r, born, list, silenced, member, stored) /\ r.pc = "commit"
      /\ c \in Contact \cap born /\ r.row \in ContactRow /\ G \subseteq list /\ G \subseteq Segment
      /\ left \subseteq Segment /\ G \cup left \in SUBSET Segment
  BY DEF ContactInv, ContactTypes, RequestsSound, Commit, Sound, HoldsBorn, SegmentsOf
<1>2. /\ contact' = [contact EXCEPT ![c] = r.row]
      /\ member' = (member \ Joined(c, left)) \cup Joined(c, G)
      /\ stored' = [g \in Segment |-> IF g \in G THEN r.counts[g] ELSE stored[g]]
      /\ drifted' = ((drifted \ G) \cup (r.aged \cap G)) \cup left
      /\ silenced' = IF r.given \/ r.late THEN silenced \ {c} ELSE silenced
      /\ Continue(w, Idle, G \cup left) /\ UNCHANGED <<born, list>>
  BY DEF Commit
<1>3. /\ \A g \in G : r.counts[g] \in Nat \cup {None}
      /\ CopiesSilence(r, silenced) /\ CountsRight(r, member, stored, list)
  BY <1>1 DEF Request, Counts, Sound
<1> HIDE DEF r, c, G, left
<1>4. \A g \in Segment, d \in Contact :
        <<g, d>> \in member' <=> \/ <<g, d>> \in member /\ ~ (d = c /\ g \in left)
                                 \/ d = c /\ g \in G
  BY <1>2 DEF Joined
<1>5. request' \in [Worker -> Request] /\ RequestsSound' /\ Exclusive'
  <2>1. /\ born \subseteq born' /\ silenced' \subseteq silenced
        /\ \A v \in Worker \ {w} :
             request[v].pc = "commit" => DOMAIN request[v].counts \subseteq list'
    BY <1>2 DEF ContactInv, RequestsSound, Sound, HoldsBorn
  <2>2. \A g \in (Segment \cap born) \ (G \cup left) :
          /\ \A d \in Contact : <<g, d>> \in member' <=> <<g, d>> \in member
          /\ stored'[g] = stored[g] /\ (g \in list => g \in list')
    BY <1>2, <1>4
  <2> QED
    BY <1>1, <1>2, <2>1, <2>2, IdleTyped, IdleSound, ContinueSound
<1>6. ContactTypes'
  BY <1>1, <1>2, <1>3, <1>5 DEF ContactInv, ContactTypes, Joined
<1>7. KeysBorn'
  <2>1. c \in Rows' /\ Rows' = Rows \cup {c}
    BY <1>1, <1>2 DEF ContactInv, ContactTypes, Rows
  <2>2. \A m \in member' : m \in member \/ m[1] \in G
    BY <1>2 DEF Joined
  <2> QED
    BY <1>1, <1>2, <2>1, <2>2 DEF ContactInv, KeysBorn
<1>8. SilencedStaysSilent'
  <2> SUFFICES ASSUME NEW d \in silenced'
               PROVE  contact'[d].status # "subscribed"
    BY DEF SilencedStaysSilent
  <2>1. d \in silenced /\ d \in Contact
    BY <1>2 DEF ContactInv, KeysBorn, Rows
  <2>2. CASE d = c
    <3>1. ~r.given /\ ~r.late /\ contact'[c] = r.row
      BY <1>1, <1>2, <2>2 DEF ContactInv, ContactTypes
    <3> QED
      BY <1>1, <1>3, <2>1, <2>2, <3>1 DEF CopiesSilence, c
  <2>3. CASE d # c
    BY <1>2, <2>1, <2>3 DEF ContactInv, ContactTypes, SilencedStaysSilent
  <2> QED
    BY <2>2, <2>3
<1>9. LengthExact'
  <2> SUFFICES ASSUME NEW g \in list', g \notin drifted'
               PROVE  Shown(g)' = Size(g)'
    BY DEF LengthExact
  <2>0. g \in Segment /\ g \in list /\ g \notin left
    BY <1>2 DEF ContactInv, ContactTypes
  <2>1. CASE g \in G
    <3>1. g \notin r.aged
      BY <1>2, <2>1
    <3>2. Members(g)' = Members(g) \cup {c}
      BY <1>1, <1>4, <2>0, <2>1 DEF Members
    <3>3. stored'[g] = Cardinality(Members(g) \cup {c})
      BY <1>1, <1>2, <1>3, <2>0, <2>1, <3>1 DEF G, CountsRight, Members, c
    <3>4. stored'[g] \in Nat
      BY <1>1, <3>3, MembersFinite
    <3> QED
      BY <3>2, <3>3, <3>4 DEF Shown, Size
  <2>2. CASE g \notin G
    <3>1. Members(g)' = Members(g)
      BY <1>4, <2>0, <2>2 DEF Members
    <3>2. stored'[g] = stored[g] /\ g \notin drifted
      BY <1>2, <2>0, <2>2
    <3> QED
      BY <2>0, <3>1, <3>2 DEF Shown, Size, ContactInv, LengthExact
  <2> QED
    BY <2>1, <2>2
<1> QED
  BY <1>5, <1>6, <1>7, <1>8, <1>9 DEF ContactInv

\* A contact that is deleted takes its memberships along, and what was counted of its
\* segments has aged.
LEMMA DeleteContactInv ==
  ASSUME ContactInv, NEW c \in Contact, DeleteContact(c)
  PROVE  ContactInv'
<1> USE ContactsAssumption DEF Status
<1>1. SegmentsOf(c) \in SUBSET Segment
  BY DEF SegmentsOf
<1>2. \A g \in Segment, d \in Contact : <<g, d>> \in member' <=> <<g, d>> \in member /\ d # c
  BY DEF DeleteContact
<1>3. \A g \in Segment \ SegmentsOf(c), d \in Contact : <<g, d>> \in member' <=> <<g, d>> \in member
  BY <1>2 DEF SegmentsOf
<1>4. request' \in [Worker -> Request] /\ RequestsSound' /\ Exclusive'
  <2>1. /\ born \subseteq born' /\ silenced' \subseteq silenced
        /\ request' = [v \in Worker |-> Aged(request[v], SegmentsOf(c))]
        /\ \A v \in Worker : request[v].pc = "commit" => DOMAIN request[v].counts \subseteq list'
    BY DEF DeleteContact, ContactInv, RequestsSound, Sound, HoldsBorn
  <2>2. \A g \in (Segment \cap born) \ SegmentsOf(c) :
          /\ \A d \in Contact : <<g, d>> \in member' <=> <<g, d>> \in member
          /\ stored'[g] = stored[g] /\ (g \in list => g \in list')
    BY <1>3 DEF DeleteContact
  <2> QED
    BY <1>1, <2>1, <2>2, AgeSound
<1>5. ContactTypes'
  BY <1>4 DEF ContactInv, ContactTypes, DeleteContact
<1>6. KeysBorn' /\ SilencedStaysSilent'
  BY DEF ContactInv, ContactTypes, KeysBorn, SilencedStaysSilent, Rows, DeleteContact
<1>7. LengthExact'
  <2> SUFFICES ASSUME NEW g \in list', g \notin drifted'
               PROVE  Shown(g)' = Size(g)'
    BY DEF LengthExact
  <2>1. g \in list /\ g \notin drifted /\ g \in Segment \ SegmentsOf(c) /\ stored' = stored
    BY DEF DeleteContact, ContactInv, ContactTypes
  <2>2. Members(g)' = Members(g)
    BY <1>3, <2>1 DEF Members
  <2> QED
    BY <2>1, <2>2 DEF Shown, Size, ContactInv, LengthExact
<1> QED
  BY <1>4, <1>5, <1>6, <1>7 DEF ContactInv

\* A request that is told to be late, for a contact that opts out now and that no
\* transaction holds, has nothing to say about it; and one that ends has nothing to say.
LEMMA LateSound ==
  ASSUME ContactInv, NEW c \in Contact, ~HeldContact(c),
         request' = [v \in Worker |-> request'[v]],
         \A v \in Worker : request'[v] \in {Idle, Late(request[v], c)},
         silenced' = silenced \cup {c}, UNCHANGED <<born, list, member, stored>>
  PROVE  request' \in [Worker -> Request] /\ RequestsSound' /\ Exclusive'
<1>1. ASSUME NEW v \in Worker
      PROVE  /\ request'[v] \in Request /\ request'[v].holds \subseteq request[v].holds
             /\ Sound(request'[v], born', list', silenced', member', stored')
  <2> DEFINE r == request[v]  q == request'[v]
  <2>1. r \in Request /\ Sound(r, born, list, silenced, member, stored)
    BY DEF ContactInv, ContactTypes, RequestsSound
  <2>2. q = Idle \/ q = IF r.pc = "update" /\ r.key = c THEN [r EXCEPT !.late = TRUE] ELSE r
    BY DEF Late
  <2>3. ~ (r.pc = "commit" /\ r.key = c)
    BY <2>1 DEF HeldContact, Sound, HoldsBorn
  <2> HIDE DEF r, q
  <2>4. CASE q = Idle
    BY <2>4, IdleTyped, IdleSound DEF q, r
  <2>5. CASE q # Idle
    <3>1. /\ q \in Request /\ q.pc = r.pc /\ q.key = r.key /\ q.row = r.row /\ q.given = r.given
          /\ q.counts = r.counts /\ q.aged = r.aged /\ q.holds = r.holds
          /\ q.late = (r.late \/ (r.pc = "update" /\ r.key = c))
      <4>1. CASE r.pc = "update" /\ r.key = c
        <5>1. q = [r EXCEPT !.late = TRUE]
          BY <2>2, <2>5, <4>1
        <5>2. q \in Request
          BY <2>1, <5>1 DEF Request
        <5>3. /\ q.pc = r.pc /\ q.key = r.key /\ q.row = r.row /\ q.given = r.given
              /\ q.counts = r.counts /\ q.aged = r.aged /\ q.holds = r.holds /\ q.late = TRUE
          BY <2>1, <5>1 DEF Request
        <5> QED
          BY <4>1, <5>2, <5>3
      <4>2. CASE ~ (r.pc = "update" /\ r.key = c)
        <5>1. q = r
          BY <2>2, <2>5, <4>2
        <5>2. r.late \in BOOLEAN
          BY <2>1 DEF Request
        <5>3. r.late = (r.late \/ (r.pc = "update" /\ r.key = c))
          BY <4>2, <5>2
        <5> QED
          BY <2>1, <5>1, <5>3
      <4> QED
        BY <4>1, <4>2
    <3>2. Sound(q, born, list, silenced \cup {c}, member, stored)
      BY <2>1, <2>3, <3>1 DEF Sound, HoldsBorn, CopiesSilence, CountsRight
    <3> QED
      BY <3>1, <3>2 DEF q, r
  <2> QED
    BY <2>4, <2>5
<1>2. Exclusive'
  BY <1>1 DEF ContactInv, Exclusive
<1> QED
  BY <1>1, <1>2 DEF RequestsSound

\* Who opts out is silent, and so is every copy of it that is not late.
LEMMA SilenceInv ==
  ASSUME ContactInv, NEW c \in Contact \cap born, ~HeldContact(c),
         NEW row \in ContactRow, row.status # "subscribed",
         contact' = [contact EXCEPT ![c] = row], silenced' = silenced \cup {c},
         request' = [v \in Worker |-> request'[v]],
         \A v \in Worker : request'[v] \in {Idle, Late(request[v], c)},
         UNCHANGED <<born, member, list, stored, drifted>>
  PROVE  ContactInv'
<1> USE ContactsAssumption DEF Status
<1>2. request' \in [Worker -> Request] /\ RequestsSound' /\ Exclusive'
  BY LateSound
<1>3. contact'[c] = row /\ \A d \in Contact \ {c} : contact'[d] = contact[d]
  BY DEF ContactInv, ContactTypes
<1>5. Rows' = Rows \cup {c}
  BY <1>3 DEF Rows
<1>6. ContactTypes'
  BY <1>2, <1>3 DEF ContactInv, ContactTypes
<1>7. KeysBorn' /\ SilencedStaysSilent'
  BY <1>3, <1>5 DEF ContactInv, KeysBorn, SilencedStaysSilent, Rows
<1>8. LengthExact'
  BY DEF ContactInv, LengthExact, Shown, Size, Members
<1> QED
  BY <1>2, <1>6, <1>7, <1>8 DEF ContactInv

\* Nothing that a request knows of changes.
LEMMA QuietInv ==
  ASSUME ContactInv, UNCHANGED <<tables, request, drifted, silenced>>
  PROVE  ContactInv'
BY DEF ContactInv, ContactTypes, KeysBorn, RequestsSound, Exclusive, SilencedStaysSilent,
       LengthExact, tables, Rows, Shown, Size, Members

\* A request ends, or a transaction is rolled back, and leaves nothing behind.
LEMMA EndInv ==
  ASSUME ContactInv, NEW w \in Worker,
         request' = [request EXCEPT ![w] = Idle] \/ Continue(w, Idle, {}),
         UNCHANGED <<tables, drifted, silenced>>
  PROVE  ContactInv'
<1>1. UNCHANGED <<contact, born, member, list, stored>>
  BY DEF tables
<1>2. \A v \in Worker : request[v].pc = "commit" => DOMAIN request[v].counts \subseteq list
  BY DEF ContactInv, RequestsSound, Sound, HoldsBorn
<1>3. request' \in [Worker -> Request] /\ RequestsSound' /\ Exclusive'
  <2> DEFINE G == {}
  <2>1. G \in SUBSET Segment /\ (Continue(w, Idle, G) \/ (request' = [request EXCEPT ![w] = Idle] /\ G = {}))
    OBVIOUS
  <2> HIDE DEF G
  <2> QED
    BY <1>1, <1>2, <2>1, IdleTyped, IdleSound, ContinueSound
<1> QED
  BY <1>1, <1>3 DEF ContactInv, ContactTypes, KeysBorn, SilencedStaysSilent, LengthExact,
                    Rows, Shown, Size, Members

\* An opt-out reads the contact as it is.
LEMMA OpenOptOutInv ==
  ASSUME ContactInv, NEW w \in Worker, NEW c \in Contact, OpenOptOut(w, c)
  PROVE  ContactInv'
<1> USE ContactsAssumption DEF Status
<1> DEFINE row == [contact[c] EXCEPT !.status = "unsubscribed"]
           r == [Idle EXCEPT !.pc = "optout", !.key = c, !.row = row]
<1>1. /\ Continue(w, r, {}) /\ c \in Rows /\ UNCHANGED <<tables, drifted, silenced>>
  BY DEF OpenOptOut
<1>2. row \in ContactRow /\ row.status = "unsubscribed" /\ c \in Contact \cap born
  <2>1. contact[c] \in ContactRow /\ c \in born
    BY <1>1 DEF Rows, ContactInv, ContactTypes, KeysBorn
  <2> QED
    BY <2>1 DEF ContactRow
<1> HIDE DEF row
<1>3. /\ r \in Request /\ r.pc = "optout" /\ r.key = c /\ r.row = row /\ r.holds = {}
  BY <1>2, IdleTyped DEF Request, Idle
<1> HIDE DEF r
<1>4. Sound(r, born', list', silenced', member', stored')
  BY <1>1, <1>2, <1>3 DEF Sound, HoldsBorn, CopiesSilence, CountsRight, tables
<1>5. /\ UNCHANGED <<contact, born, member, list, stored, drifted, silenced>>
      /\ \A v \in Worker : request[v].pc = "commit" => DOMAIN request[v].counts \subseteq list
  BY <1>1 DEF tables, ContactInv, RequestsSound, Sound, HoldsBorn
<1>6. request' \in [Worker -> Request] /\ RequestsSound' /\ Exclusive'
  BY <1>1, <1>3, <1>4, <1>5, ContinueSound
<1> QED
  BY <1>5, <1>6 DEF ContactInv, ContactTypes, KeysBorn, SilencedStaysSilent, LengthExact,
                    Rows, Shown, Size, Members

\* It saves its copy, or fails.
LEMMA SaveOptOutInv ==
  ASSUME ContactInv, NEW w \in Worker, SaveOptOut(w)
  PROVE  ContactInv'
<1> DEFINE r == request[w]  c == r.key
<1>1. /\ c \in Contact \cap born /\ r.row \in ContactRow /\ r.row.status # "subscribed"
      /\ ~HeldContact(c)
  BY DEF SaveOptOut, ContactInv, RequestsSound, Sound, HoldsBorn
<1>2. \/ /\ contact' = [contact EXCEPT ![c] = r.row] /\ silenced' = silenced \cup {c}
         /\ request' = [v \in Worker |-> IF v = w THEN Idle ELSE Late(request[v], c)]
         /\ UNCHANGED <<born, member, list, stored, drifted>>
      \/ Continue(w, Idle, {}) /\ UNCHANGED <<tables, drifted, silenced>>
  BY DEF SaveOptOut, tables
<1> HIDE DEF r, c
<1>3. CASE /\ contact' = [contact EXCEPT ![c] = r.row] /\ silenced' = silenced \cup {c}
           /\ request' = [v \in Worker |-> IF v = w THEN Idle ELSE Late(request[v], c)]
           /\ UNCHANGED <<born, member, list, stored, drifted>>
  <2>1. /\ request' = [v \in Worker |-> request'[v]]
        /\ \A v \in Worker : request'[v] \in {Idle, Late(request[v], c)}
    BY <1>3
  <2> QED
    BY <1>1, <1>3, <2>1, SilenceInv
<1> QED
  BY <1>2, <1>3, EndInv

\* The length to be saved is what is left.
LEMMA RemoveMemberInv ==
  ASSUME ContactInv, NEW w \in Worker, NEW g \in Segment, NEW c \in Contact, RemoveMember(w, g, c)
  PROVE  ContactInv'
<1> USE ContactsAssumption DEF Status
<1> DEFINE n == Cardinality(Members(g) \ {c})
           r == [Idle EXCEPT !.pc = "length", !.key = g, !.counts = [x \in {g} |-> n]]
<1>1. Continue(w, r, {g}) /\ g \in list \cap born
  BY DEF RemoveMember, ContactInv, KeysBorn
<1>2. n \in Nat
  BY MembersFinite
<1>3. r \in Request
  <2>1. [x \in {g} |-> n] \in [{g} -> Nat \cup {None}] /\ {g} \in SUBSET Segment
    BY <1>2
  <2>2. [x \in {g} |-> n] \in Counts
    BY <2>1 DEF Counts
  <2> QED
    BY <2>2, IdleTyped DEF Request
<1>4. \A x \in Segment, d \in Contact :
        <<x, d>> \in member' <=> <<x, d>> \in member /\ ~ (x = g /\ d = c)
  BY DEF RemoveMember
<1>5. Sound(r, born', list', silenced', member', stored')
  <2>1. r.pc = "length" /\ r.key = g /\ r.counts = [x \in {g} |-> n] /\ r.holds = {}
    BY DEF Idle
  <2>2. {d \in Contact : <<g, d>> \in member'} = Members(g) \ {c}
    BY <1>4 DEF Members
  <2>3. HoldsBorn(r, born', list') /\ CopiesSilence(r, silenced')
    BY <1>1, <2>1 DEF HoldsBorn, CopiesSilence, RemoveMember
  <2>4. CountsRight(r, member', stored', list')
    BY <2>1, <2>2 DEF CountsRight
  <2> QED
    BY <2>3, <2>4 DEF Sound
<1>6. request' \in [Worker -> Request] /\ RequestsSound' /\ Exclusive'
  <2>1. /\ born \subseteq born' /\ silenced' \subseteq silenced
        /\ \A v \in Worker \ {w} :
             request[v].pc = "commit" => DOMAIN request[v].counts \subseteq list'
    BY DEF RemoveMember, ContactInv, RequestsSound, Sound, HoldsBorn
  <2>2. \A x \in (Segment \cap born) \ {g} :
          /\ \A d \in Contact : <<x, d>> \in member' <=> <<x, d>> \in member
          /\ stored'[x] = stored[x] /\ (x \in list => x \in list')
    BY <1>4 DEF RemoveMember
  <2>3. r.holds = {}
    BY DEF Idle
  <2> HIDE DEF r
  <2> QED
    BY <1>1, <1>3, <1>5, <2>1, <2>2, <2>3, ContinueSound
<1>7. ContactTypes' /\ KeysBorn' /\ SilencedStaysSilent'
  BY <1>6 DEF RemoveMember, ContactInv, ContactTypes, KeysBorn, SilencedStaysSilent, Rows
<1>8. LengthExact'
  <2> SUFFICES ASSUME NEW x \in list', x \notin drifted'
               PROVE  Shown(x)' = Size(x)'
    BY DEF LengthExact
  <2>1. x \in list /\ x \notin drifted /\ x \in Segment /\ x # g /\ stored' = stored
    BY DEF RemoveMember, ContactInv, ContactTypes
  <2>2. Members(x)' = Members(x)
    BY <1>4, <2>1 DEF Members
  <2> QED
    BY <2>1, <2>2 DEF Shown, Size, ContactInv, LengthExact
<1> QED
  BY <1>6, <1>7, <1>8 DEF ContactInv

\* A count that has not aged is the length of its segment.
LEMMA SaveLengthInv ==
  ASSUME ContactInv, NEW w \in Worker, SaveLength(w)
  PROVE  ContactInv'
<1> USE ContactsAssumption DEF Status
<1> DEFINE r == request[w]  g == r.key
<1>1. /\ r \in Request /\ Sound(r, born, list, silenced, member, stored) /\ r.pc = "length"
      /\ g \in Segment \cap born /\ DOMAIN r.counts = {g} /\ r.counts[g] \in Nat \cup {None}
  BY DEF ContactInv, ContactTypes, RequestsSound, SaveLength, Sound, HoldsBorn, Request, Counts
<1>2. /\ UNCHANGED <<contact, born, member, list, silenced>>
      /\ \/ /\ g \in list
            /\ stored' = [stored EXCEPT ![g] = r.counts[g]]
            /\ drifted' = IF g \in r.aged THEN drifted \cup {g} ELSE drifted \ {g}
            /\ Continue(w, Idle, {g})
         \/ UNCHANGED <<stored, drifted>> /\ Continue(w, Idle, {})
  BY DEF SaveLength
<1>3. g \notin r.aged => r.counts[g] = Cardinality(Members(g))
  BY <1>1 DEF Sound, CountsRight, Members
<1> HIDE DEF r, g
<1>4. request' \in [Worker -> Request] /\ RequestsSound' /\ Exclusive'
  <2>1. /\ born \subseteq born' /\ silenced' \subseteq silenced
        /\ \A v \in Worker \ {w} :
             request[v].pc = "commit" => DOMAIN request[v].counts \subseteq list'
    BY <1>2 DEF ContactInv, RequestsSound, Sound, HoldsBorn
  <2>2. \A G \in {{}, {g}} : Continue(w, Idle, G) /\ (\A x \in Segment \ G : stored'[x] = stored[x])
          => request' \in [Worker -> Request] /\ RequestsSound' /\ Exclusive'
    BY <1>1, <1>2, <2>1, IdleTyped, IdleSound, ContinueSound
  <2> QED
    BY <1>2, <2>2 DEF ContactInv, ContactTypes
<1>5. ContactTypes' /\ KeysBorn' /\ SilencedStaysSilent'
  BY <1>1, <1>2, <1>4 DEF ContactInv, ContactTypes, KeysBorn, SilencedStaysSilent, Rows
<1>6. LengthExact'
  <2> SUFFICES ASSUME NEW x \in list', x \notin drifted'
               PROVE  Shown(x)' = Size(x)'
    BY DEF LengthExact
  <2>1. x \in list /\ x \in Segment /\ Members(x)' = Members(x)
    BY <1>2 DEF ContactInv, ContactTypes, Members
  <2>2. CASE /\ x = g /\ stored' = [stored EXCEPT ![g] = r.counts[g]]
             /\ drifted' = IF g \in r.aged THEN drifted \cup {g} ELSE drifted \ {g}
    <3>1. stored'[g] = r.counts[g]
      BY <1>1, <2>2 DEF ContactInv, ContactTypes
    <3>2. CASE g \notin r.aged
      <4>1. Cardinality(Members(g)) \in Nat
        <5>1. Members(g) \in SUBSET Contact
          BY DEF Members
        <5> QED
          BY <5>1, FS_Subset, FS_CardinalityType
      <4> QED
        BY <1>3, <2>1, <2>2, <3>1, <3>2, <4>1 DEF Shown, Size
    <3> QED
      BY <2>2, <3>2
  <2>3. CASE x # g \/ UNCHANGED <<stored, drifted>>
    <3>1. stored'[x] = stored[x] /\ x \notin drifted
      BY <1>2, <2>1, <2>3 DEF ContactInv, ContactTypes
    <3> QED
      BY <2>1, <3>1 DEF Shown, Size, ContactInv, LengthExact
  <2> QED
    BY <1>2, <2>2, <2>3
<1> QED
  BY <1>4, <1>5, <1>6 DEF ContactInv

\* A segment is new, empty and nobody's.
LEMMA CreateSegmentInv ==
  ASSUME ContactInv, NEW g \in Segment, NEW length \in Lengths \cup {None},
         CreateSegment(g, length)
  PROVE  ContactInv'
<1> USE ContactsAssumption DEF Status
<1>1. /\ g \notin born /\ list' = list \cup {g} /\ born' = born \cup {g}
      /\ stored' = [stored EXCEPT ![g] = length]
      /\ drifted' = IF length = None THEN drifted ELSE drifted \cup {g}
      /\ UNCHANGED <<contact, member, request, silenced>>
  BY DEF CreateSegment
<1>2. length \in Nat \cup {None}
  OBVIOUS
<1>3. request' \in [Worker -> Request] /\ RequestsSound' /\ Exclusive'
  <2>1. \A v \in Worker : request[v].pc = "commit" => DOMAIN request[v].counts \subseteq list'
    BY <1>1 DEF ContactInv, RequestsSound, Sound, HoldsBorn
  <2>2. \A x \in (Segment \cap born) \ {} :
          /\ \A d \in Contact : <<x, d>> \in member' <=> <<x, d>> \in member
          /\ stored'[x] = stored[x] /\ (x \in list => x \in list')
    BY <1>1 DEF ContactInv, ContactTypes
  <2>3. born \subseteq born' /\ silenced' \subseteq silenced
    BY <1>1
  <2> DEFINE G == {}
  <2>4. G \in SUBSET Segment /\ UNCHANGED request /\ G = {}
    BY <1>1
  <2> HIDE DEF G
  <2> QED
    BY <2>1, <2>2, <2>3, <2>4, AgeSound
<1>4. ContactTypes' /\ KeysBorn' /\ SilencedStaysSilent'
  BY <1>1, <1>2, <1>3 DEF ContactInv, ContactTypes, KeysBorn, SilencedStaysSilent, Rows
<1>5. LengthExact'
  <2> SUFFICES ASSUME NEW x \in list', x \notin drifted'
               PROVE  Shown(x)' = Size(x)'
    BY DEF LengthExact
  <2>1. Members(x)' = Members(x) /\ x \in Segment
    BY <1>1 DEF ContactInv, ContactTypes, Members
  <2>2. CASE x = g
    <3>1. Members(g) = {}
      BY <1>1 DEF Members, ContactInv, KeysBorn
    <3>2. stored'[g] = None
      BY <1>1, <2>2 DEF ContactInv, ContactTypes
    <3> QED
      BY <2>1, <2>2, <3>1, <3>2, FS_EmptySet DEF Shown, Size
  <2>3. CASE x # g
    <3>1. stored'[x] = stored[x] /\ x \in list /\ x \notin drifted
      BY <1>1, <2>3 DEF ContactInv, ContactTypes
    <3> QED
      BY <2>1, <3>1 DEF Shown, Size, ContactInv, LengthExact
  <2> QED
    BY <2>2, <2>3
<1> QED
  BY <1>3, <1>4, <1>5 DEF ContactInv

\* A segment is read with the length it has.
LEMMA OpenSegmentInv ==
  ASSUME ContactInv, NEW w \in Worker, NEW g \in Segment, NEW length \in Lengths \cup {None},
         OpenSegment(w, g, length)
  PROVE  ContactInv'
<1> USE ContactsAssumption DEF Status
<1> DEFINE n == IF length = None THEN stored[g] ELSE length
           r == [Idle EXCEPT !.pc = "segment", !.key = g, !.given = length # None,
                     !.counts = [x \in {g} |-> n]]
<1>1. /\ Continue(w, r, {}) /\ g \in list \cap born
      /\ born' = born /\ silenced' = silenced /\ list' = list /\ member' = member
      /\ stored' = stored /\ contact' = contact /\ drifted' = drifted
      /\ \A v \in Worker : request[v].pc = "commit" => DOMAIN request[v].counts \subseteq list
  BY DEF OpenSegment, tables, ContactInv, KeysBorn, RequestsSound, Sound, HoldsBorn
<1>2. n \in Nat \cup {None}
  BY DEF ContactInv, ContactTypes
<1>3. r \in Request
  <2>1. [x \in {g} |-> n] \in [{g} -> Nat \cup {None}] /\ {g} \in SUBSET Segment
    BY <1>2
  <2>2. [x \in {g} |-> n] \in Counts
    BY <2>1 DEF Counts
  <2> QED
    BY <2>2, IdleTyped DEF Request
<1>4. Sound(r, born', list', silenced', member', stored')
  <2>1. /\ r.pc = "segment" /\ r.key = g /\ r.counts = [x \in {g} |-> n]
        /\ r.given = (length # None) /\ r.holds = {}
    BY DEF Idle
  <2>2. HoldsBorn(r, born', list') /\ CopiesSilence(r, silenced')
    BY <1>1, <2>1 DEF HoldsBorn, CopiesSilence
  <2>3. CountsRight(r, member', stored', list')
    BY <1>1, <2>1 DEF CountsRight
  <2> QED
    BY <2>2, <2>3 DEF Sound
<1>5. request' \in [Worker -> Request] /\ RequestsSound' /\ Exclusive'
  <2>1. r.holds = {}
    BY DEF Idle
  <2> HIDE DEF r
  <2> QED
    BY <1>1, <1>3, <1>4, <2>1, ContinueSound
<1> QED
  BY <1>1, <1>5 DEF ContactInv, ContactTypes, KeysBorn, SilencedStaysSilent, LengthExact, Rows,
                    Shown, Size, Members

\* The length that was read is saved again: it is the one that is stored, or it drifts.
LEMMA SaveSegmentInv ==
  ASSUME ContactInv, NEW w \in Worker, SaveSegment(w)
  PROVE  ContactInv'
<1> USE ContactsAssumption DEF Status
<1> DEFINE r == request[w]  g == r.key
<1>1. /\ r \in Request /\ Sound(r, born, list, silenced, member, stored) /\ r.pc = "segment"
      /\ g \in Segment \cap born /\ DOMAIN r.counts = {g} /\ r.counts[g] \in Nat \cup {None}
  BY DEF ContactInv, ContactTypes, RequestsSound, SaveSegment, Sound, HoldsBorn, Request, Counts
<1>2. /\ UNCHANGED <<contact, born, member, silenced>> /\ list' = list \cup {g}
      /\ stored' = [stored EXCEPT ![g] = r.counts[g]]
      /\ drifted' = IF r.given \/ g \in r.aged THEN drifted \cup {g} ELSE drifted
      /\ Continue(w, Idle, {g})
  BY DEF SaveSegment
<1>3. ~r.given /\ g \notin r.aged => r.counts[g] = stored[g] /\ g \in list
  BY <1>1 DEF Sound, CountsRight
<1> HIDE DEF r, g
<1>4. request' \in [Worker -> Request] /\ RequestsSound' /\ Exclusive'
  <2>1. /\ born \subseteq born' /\ silenced' \subseteq silenced
        /\ \A v \in Worker \ {w} :
             request[v].pc = "commit" => DOMAIN request[v].counts \subseteq list'
    BY <1>2 DEF ContactInv, RequestsSound, Sound, HoldsBorn
  <2>2. \A x \in (Segment \cap born) \ {g} :
          /\ \A d \in Contact : <<x, d>> \in member' <=> <<x, d>> \in member
          /\ stored'[x] = stored[x] /\ (x \in list => x \in list')
    BY <1>2 DEF ContactInv, ContactTypes
  <2> QED
    BY <1>1, <1>2, <2>1, <2>2, IdleTyped, IdleSound, ContinueSound
<1>5. ContactTypes' /\ KeysBorn' /\ SilencedStaysSilent'
  BY <1>1, <1>2, <1>4 DEF ContactInv, ContactTypes, KeysBorn, SilencedStaysSilent, Rows
<1>6. LengthExact'
  <2> SUFFICES ASSUME NEW x \in list', x \notin drifted'
               PROVE  Shown(x)' = Size(x)'
    BY DEF LengthExact
  <2>1. x \in list /\ x \notin drifted /\ x \in Segment /\ stored'[x] = stored[x]
    BY <1>1, <1>2, <1>3 DEF ContactInv, ContactTypes
  <2>2. Members(x)' = Members(x)
    BY <1>2 DEF Members
  <2> QED
    BY <2>1, <2>2 DEF Shown, Size, ContactInv, LengthExact
<1> QED
  BY <1>4, <1>5, <1>6 DEF ContactInv

\* A segment that is deleted takes its memberships along; no commit holds it.
LEMMA DeleteSegmentInv ==
  ASSUME ContactInv, NEW g \in Segment, DeleteSegment(g)
  PROVE  ContactInv'
<1> USE ContactsAssumption DEF Status
<1>1. /\ ~HeldSegment(g) /\ list' = list \ {g} /\ member' = {m \in member : m[1] # g}
      /\ request' = [v \in Worker |-> Aged(request[v], {g})]
      /\ UNCHANGED <<contact, born, stored, drifted, silenced>>
  BY DEF DeleteSegment
<1>2. \A x \in Segment \ {g}, d \in Contact : <<x, d>> \in member' <=> <<x, d>> \in member
  BY <1>1
<1>3. request' \in [Worker -> Request] /\ RequestsSound' /\ Exclusive'
  <2>1. \A v \in Worker : request[v].pc = "commit" => DOMAIN request[v].counts \subseteq list'
    BY <1>1 DEF ContactInv, RequestsSound, Sound, HoldsBorn, HeldSegment
  <2>2. \A x \in (Segment \cap born) \ {g} :
          /\ \A d \in Contact : <<x, d>> \in member' <=> <<x, d>> \in member
          /\ stored'[x] = stored[x] /\ (x \in list => x \in list')
    BY <1>1, <1>2
  <2>3. born \subseteq born' /\ silenced' \subseteq silenced /\ {g} \in SUBSET Segment
    BY <1>1
  <2> QED
    BY <1>1, <2>1, <2>2, <2>3, AgeSound
<1>4. ContactTypes' /\ KeysBorn' /\ SilencedStaysSilent'
  BY <1>1, <1>3 DEF ContactInv, ContactTypes, KeysBorn, SilencedStaysSilent, Rows
<1>5. LengthExact'
  <2> SUFFICES ASSUME NEW x \in list', x \notin drifted'
               PROVE  Shown(x)' = Size(x)'
    BY DEF LengthExact
  <2>1. x \in list /\ x \notin drifted /\ x \in Segment \ {g} /\ stored' = stored
    BY <1>1 DEF ContactInv, ContactTypes
  <2>2. Members(x)' = Members(x)
    BY <1>2, <2>1 DEF Members
  <2> QED
    BY <2>1, <2>2 DEF Shown, Size, ContactInv, LengthExact
<1> QED
  BY <1>3, <1>4, <1>5 DEF ContactInv

\* Every request about contacts keeps the invariant.
LEMMA ContactStepInv ==
  ASSUME ContactInv, ContactStep
  PROVE  ContactInv'
<1>1. CASE \E w \in Worker : ContactRequest(w)
  <2>1. PICK w \in Worker : ContactRequest(w)
    BY <1>1
  <2>2. CASE RequestDies(w)
    BY <2>2, EndInv DEF RequestDies
  <2> QED
    BY <2>1, <2>2, CreateContactInv, OpenContactInv, SaveContactInv, CommitInv, OpenOptOutInv,
       SaveOptOutInv, RemoveMemberInv, SaveLengthInv, OpenSegmentInv, SaveSegmentInv
    DEF ContactRequest
<1>2. CASE \E g \in Segment :
             DeleteSegment(g) \/ \E length \in Lengths \cup {None} : CreateSegment(g, length)
  BY <1>2, DeleteSegmentInv, CreateSegmentInv
<1> QED
  BY <1>1, <1>2 DEF ContactStep

-----------------------------------------------------------------------------
(* Shopify customers *)

\* The contact of a link stays, and has the same phone or is renumbered, when the row of
\* one contact is written.
LEMMA RowKeeps ==
  ASSUME ContactInv, NEW r \in Request, r.key \in Contact, r.row \in ContactRow,
         contact' = [contact EXCEPT ![r.key] = r.row], renumbered' = RenumberedBy(r)
  PROVE  /\ Rows \subseteq Rows'
         /\ \A c \in Rows' \ renumbered' :
              c \in Rows \ renumbered /\ contact'[c].phone = contact[c].phone
         /\ \A c \in Contact \ {r.key} : contact'[c] = contact[c]
<1>1. contact'[r.key] = r.row /\ \A d \in Contact \ {r.key} : contact'[d] = contact[d]
  BY DEF ContactInv, ContactTypes
<1>2. r.row # None
  BY ContactsAssumption DEF Status
<1> QED
  BY <1>1, <1>2 DEF Rows, RenumberedBy

\* What a request about contacts does to the contact of a link: it stays, and another
\* phone is the merchant's; and what a job holds stays as it is.
LEMMA ContactStepKeeps ==
  ASSUME ContactInv, ContactStep
  PROVE  /\ Rows \subseteq Rows'
         /\ \A c \in Rows' \ renumbered' :
              c \in Rows \ renumbered /\ contact'[c].phone = contact[c].phone
         /\ \A v \in Worker : job[v] # NoJob =>
              /\ request'[v].holds = request[v].holds
              /\ \A c \in request[v].holds : contact'[c] = contact[c]
<1> DEFINE Kept == /\ Rows \subseteq Rows'
                   /\ \A c \in Rows' \ renumbered' :
                        c \in Rows \ renumbered /\ contact'[c].phone = contact[c].phone
           HeldKept == \A v \in Worker : job[v] # NoJob =>
                         \A c \in request[v].holds : contact'[c] = contact[c]
<1>0. /\ request \in [Worker -> Request]
      /\ \A v \in Worker : request[v].holds \subseteq Contact
  BY DEF ContactInv, ContactTypes, Request
<1>1. UNCHANGED <<contact, renumbered>> => Kept /\ HeldKept
  BY DEF Rows
<1>2. ASSUME NEW w \in Worker, job[w] = NoJob, SaveOptOut(w)
      PROVE  Kept /\ HeldKept
  <2> DEFINE r == request[w]  c == r.key
  <2>1. r \in Request /\ c \in Contact /\ r.row \in ContactRow
    BY <1>0, <1>2 DEF ContactInv, RequestsSound, Sound, HoldsBorn, SaveOptOut
  <2>2. ~HeldContact(c)
    BY <1>2 DEF SaveOptOut
  <2>3. CASE contact' = [contact EXCEPT ![c] = r.row] /\ renumbered' = RenumberedBy(r)
    <3>1. Kept /\ \A d \in Contact \ {c} : contact'[d] = contact[d]
      BY <2>1, <2>3, RowKeeps
    <3> QED
      BY <1>0, <2>2, <3>1 DEF HeldContact
  <2>4. CASE UNCHANGED <<contact, renumbered>>
    BY <1>1, <2>4
  <2> QED
    BY <1>2, <2>3, <2>4 DEF SaveOptOut
<1>3. ASSUME NEW w \in Worker, job[w] = NoJob, Commit(w)
      PROVE  Kept /\ HeldKept
  <2> DEFINE r == request[w]  c == r.key
  <2>1. /\ r \in Request /\ c \in Contact /\ r.row \in ContactRow /\ c \in r.holds
        /\ contact' = [contact EXCEPT ![c] = r.row] /\ renumbered' = RenumberedBy(r)
    BY <1>0, <1>3 DEF ContactInv, RequestsSound, Sound, HoldsBorn, Commit
  <2>2. Kept /\ \A d \in Contact \ {c} : contact'[d] = contact[d]
    BY <2>1, RowKeeps
  <2>3. \A v \in Worker : job[v] # NoJob => c \notin request[v].holds
    BY <1>3, <2>1 DEF ContactInv, Exclusive
  <2> QED
    BY <1>0, <2>2, <2>3
<1>4. ASSUME NEW w \in Worker, job[w] = NoJob, ContactRequest(w)
      PROVE  Kept /\ HeldKept
  <2>1. CASE SaveOptOut(w) \/ Commit(w)
    BY <1>2, <1>3, <1>4, <2>1
  <2>2. CASE ~(SaveOptOut(w) \/ Commit(w))
    <3>1. UNCHANGED <<contact, renumbered>>
      BY ZenonT(60), <1>4, <2>2 DEF ContactRequest, CreateContact, OpenContact, SaveContact,
         RemoveMember, SaveLength, OpenSegment, SaveSegment, RequestDies, OpenOptOut, tables
    <3> QED
      BY <1>1, <3>1
  <2> QED
    BY <2>1, <2>2
<1>5. (\E g \in Segment :
         DeleteSegment(g) \/ \E length \in Lengths \cup {None} : CreateSegment(g, length))
        => UNCHANGED <<contact, renumbered>>
  BY DEF DeleteSegment, CreateSegment
<1>6. Kept /\ HeldKept
  BY <1>1, <1>4, <1>5 DEF ContactStep
<1>7. ASSUME NEW v \in Worker, job[v] # NoJob
      PROVE  request'[v].holds = request[v].holds
  <2>1. \A G, c : Aged(request[v], G).holds = request[v].holds /\ Late(request[v], c).holds = request[v].holds
    BY <1>0 DEF Aged, Late, Request
  <2>2. ASSUME NEW w \in Worker, job[w] = NoJob, ContactRequest(w)
        PROVE  request'[v].holds = request[v].holds
    <3>1. v # w
      BY <1>7, <2>2
    <3>2. CASE RequestDies(w)
      BY <1>0, <3>1, <3>2 DEF RequestDies
    <3>3. CASE SaveOptOut(w)
      BY <2>1, <3>1, <3>3 DEF SaveOptOut, Continue
    <3>4. CASE ~RequestDies(w) /\ ~SaveOptOut(w)
      <4>1. \E r, G : Continue(w, r, G)
        <5>1. CASE SaveContact(w)
          BY <5>1 DEF SaveContact
        <5>2. CASE \E c \in Contact, p \in Phone, status \in Writes \cup {None}, G \in SUBSET Segment :
                     CreateContact(w, c, p, status, G)
          BY <5>2 DEF CreateContact
        <5>3. CASE \E c \in Contact, p \in Phone \cup {None}, status \in Writes \cup {None},
                     G \in {{}} \cup {{H} : H \in SUBSET Segment} : OpenContact(w, c, p, status, G)
          BY <5>3 DEF OpenContact
        <5>4. CASE Commit(w)
          BY <5>4 DEF Commit
        <5>5. CASE \E c \in Contact : OpenOptOut(w, c)
          BY <5>5 DEF OpenOptOut
        <5>6. CASE \E g \in Segment, c \in Contact : RemoveMember(w, g, c)
          BY <5>6 DEF RemoveMember
        <5>7. CASE SaveLength(w)
          BY <5>7 DEF SaveLength
        <5>8. CASE \E g \in Segment, length \in Lengths \cup {None} : OpenSegment(w, g, length)
          BY <5>8 DEF OpenSegment
        <5>9. CASE SaveSegment(w)
          BY <5>9 DEF SaveSegment
        <5> QED
          BY <2>2, <3>4, <5>1, <5>2, <5>3, <5>4, <5>5, <5>6, <5>7, <5>8, <5>9
          DEF ContactRequest
      <4> QED
        BY <2>1, <3>1, <4>1 DEF Continue
    <3> QED
      BY <3>2, <3>3, <3>4
  <2>3. CASE \E g \in Segment :
               DeleteSegment(g) \/ \E length \in Lengths \cup {None} : CreateSegment(g, length)
    BY <2>1, <2>3 DEF DeleteSegment, CreateSegment
  <2> QED
    BY <2>2, <2>3 DEF ContactStep
<1> QED
  BY <1>6, <1>7

\* Links and webhooks stay as they are.
LEMMA NewsKept ==
  ASSUME News, UNCHANGED <<shop, sent, unanswered, link, handled, outOfOrder>>
  PROVE  News'
BY DEF News, CustomerTypes, LastNews, LinkNews, SettledMeansLinked, Answered, Announced

\* A new change at Shopify is not answered yet.
LEMMA ChangeNews ==
  ASSUME News, NEW k \in Customer, NEW now \in Phone \cup {NoPhone, "gone"},
         ChangeCustomer(k, now)
  PROVE  News'
<1> USE CustomersAssumption
<1> DEFINE topic == IF now = "gone" THEN "delete" ELSE IF shop[k] = "before" THEN "create" ELSE "update"
           news == [customer |-> k, topic |-> topic, phone |-> now]
           N == Len(sent)
<1>1. /\ shop' = [shop EXCEPT ![k] = now] /\ sent' = Append(sent, news)
      /\ unanswered' = unanswered \cup {N + 1}
      /\ shop[k] = "before" \/ Known(k)
      /\ UNCHANGED <<link, handled, outOfOrder>>
  BY DEF ChangeCustomer, links
<1>2. /\ shop \in [Customer -> {"before", "gone"} \cup Phone \cup {NoPhone}]
      /\ sent \in Seq(Webhook) /\ N \in Nat
      /\ unanswered \cup handled = 1 .. N /\ unanswered \cap handled = {}
      /\ link \in [Customer -> LinkRow \cup {None}]
  BY DEF News, CustomerTypes
<1>3. news \in Webhook /\ news.customer = k /\ news.phone = now /\ news.topic = topic
  BY DEF Webhook
<1> HIDE DEF news, topic, N
<1>4. /\ sent' \in Seq(Webhook) /\ Len(sent') = N + 1
      /\ sent'[N + 1] = news /\ \A n \in 1 .. N : sent'[n] = sent[n]
  BY <1>1, <1>2, <1>3 DEF N
<1>5. shop'[k] = now /\ \A j \in Customer \ {k} : shop'[j] = shop[j]
  BY <1>1, <1>2
<1>6. CustomerTypes'
  <2>1. 1 .. N + 1 = (1 .. N) \cup {N + 1} /\ N + 1 \notin 1 .. N
    BY <1>2
  <2> QED
    BY <1>1, <1>2, <1>4, <2>1 DEF CustomerTypes
<1>7. LastNews'
  <2> SUFFICES ASSUME NEW n \in 1 .. N + 1
               PROVE  LET j == sent'[n].customer
                          last == \A m \in 1 .. N + 1 : m > n => sent'[m].customer # j IN
                      /\ last => shop'[j] = sent'[n].phone
                      /\ sent'[n].topic = "delete" <=> sent'[n].phone = "gone"
                      /\ sent'[n].topic = "delete" => last
    BY <1>4 DEF LastNews
  <2>1. CASE n = N + 1
    BY <1>2, <1>3, <1>4, <1>5, <2>1 DEF topic
  <2>2. CASE n \in 1 .. N
    <3>0. sent[n] \in Webhook
      BY <1>2, <2>2 DEF N
    <3>1. sent'[n] = sent[n] /\ sent[n].customer \in Customer /\ n < N + 1 /\ N + 1 \in 1 .. N + 1
      BY <1>2, <1>4, <2>2, <3>0 DEF Webhook
    <3>2. CASE sent[n].customer = k
      <4>1. sent'[N + 1].customer = k
        BY <1>3, <1>4
      <4>2. sent[n].topic # "delete"
        <5> SUFFICES ASSUME sent[n].topic = "delete" PROVE FALSE
          OBVIOUS
        <5>1. shop[k] = sent[n].phone /\ sent[n].phone = "gone"
          BY <2>2, <3>2 DEF News, LastNews, N
        <5> QED
          BY <1>1, <5>1 DEF Known
      <4> QED
        BY <2>2, <3>1, <3>2, <4>1, <4>2 DEF News, LastNews, N
    <3>3. CASE sent[n].customer # k
      <4>1. (\A m \in 1 .. N : m > n => sent[m].customer # sent[n].customer)
              <=> (\A m \in 1 .. N + 1 : m > n => sent'[m].customer # sent'[n].customer)
        <5>1. sent'[N + 1].customer # sent'[n].customer
          BY <1>3, <1>4, <3>1, <3>3
        <5>2. \A m \in 1 .. N + 1 : m \in 1 .. N \/ m = N + 1
          BY <1>2
        <5>3. \A m \in 1 .. N : m \in 1 .. N + 1 /\ sent'[m] = sent[m]
          BY <1>2, <1>4
        <5> QED
          BY <3>1, <5>1, <5>2, <5>3
      <4>2. shop'[sent[n].customer] = shop[sent[n].customer]
        BY <1>5, <3>1, <3>3
      <4> QED
        BY <2>2, <3>1, <4>1, <4>2 DEF News, LastNews, N
    <3> QED
      BY <3>2, <3>3
  <2> QED
    BY <1>2, <2>1, <2>2
<1>8. LinkNews'
  <2>1. \A n \in handled : sent'[n] = sent[n]
    BY <1>2, <1>4
  <2>2. LinkNews /\ handled' = handled /\ link' = link
    BY <1>1 DEF News
  <2> QED
    BY <2>1, <2>2 DEF LinkNews
<1>9. SettledMeansLinked'
  <2> SUFFICES ASSUME NEW j \in Customer \ outOfOrder, Answered(j)'
               PROVE  /\ Announced(j)' => link[j] # None
                      /\ link[j] # None => /\ link[j].live <=> shop'[j] # "gone"
                                           /\ shop'[j] \in Phone => link[j].phone = shop'[j]
    BY <1>1 DEF SettledMeansLinked
  <2>1. j # k
    BY <1>1, <1>3, <1>4 DEF Answered
  <2>2. Answered(j) /\ (Announced(j)' => Announced(j))
    BY <1>1, <1>2, <1>3, <1>4, <2>1 DEF Answered, Announced, N
  <2> QED
    BY <1>5, <2>1, <2>2 DEF News, SettledMeansLinked
<1> QED
  BY <1>6, <1>7, <1>8, <1>9 DEF News

\* What Shopify has of a customer whose webhooks are all answered, webhook n now, and
\* none after a later one: what n says, and no other webhook has deleted it.
LEMMA LastAnswer ==
  ASSUME News, NEW n \in 1 .. Len(sent), Answer(n), Answered(sent[n].customer)',
         sent[n].customer \notin outOfOrder'
  PROVE  /\ shop[sent[n].customer] = sent[n].phone
         /\ \A m \in handled \ {n} : sent[m].customer = sent[n].customer => sent[m].topic # "delete"
<1> DEFINE k == sent[n].customer
<1>1. /\ unanswered \cup handled = 1 .. Len(sent) /\ Len(sent) \in Nat
      /\ unanswered' = unanswered \ {n} /\ sent' = sent
  BY DEF News, CustomerTypes, Answer
<1>2. \A m \in 1 .. Len(sent) : sent[m].customer = k /\ m # n => m \in handled
  BY <1>1 DEF Answered
<1>3. \A m \in handled : sent[m].customer = k => m <= n
  BY <1>1 DEF Answer
<1>4. \A m \in 1 .. Len(sent) : m > n => sent[m].customer # k
  BY <1>1, <1>2, <1>3
<1>5. shop[k] = sent[n].phone
  BY <1>4 DEF News, LastNews
<1>6. ASSUME NEW m \in handled \ {n}, sent[m].customer = k, sent[m].topic = "delete"
      PROVE  FALSE
  <2>1. m \in 1 .. Len(sent) /\ n > m
    BY <1>1, <1>3, <1>6
  <2> QED
    BY <1>6, <2>1 DEF News, LastNews
<1> QED
  BY <1>5, <1>6

\* A webhook is answered and leaves this link: what is known of the customers stays known.
LEMMA AnswerNews ==
  ASSUME News, NEW n \in 1 .. Len(sent), Answer(n),
         link' \in [Customer -> LinkRow \cup {None}],
         \A k \in Customer \ {sent[n].customer} : link'[k] = link[k],
         LET k == sent[n].customer IN
           /\ link[k] # None \/ sent[n].topic = "create" => link'[k] # None
           /\ link'[k] # None /\ ~link'[k].live =>
                sent[n].topic = "delete" \/ (link[k] # None /\ ~link[k].live)
           /\ /\ link'[k] # None /\ shop[k] = sent[n].phone
              /\ (link[k] # None /\ ~link[k].live => sent[n].topic = "delete")
              => /\ link'[k].live <=> shop[k] # "gone"
                 /\ shop[k] \in Phone => link'[k].phone = shop[k]
  PROVE  News'
<1> DEFINE k == sent[n].customer
<1>1. /\ unanswered \cup handled = 1 .. Len(sent) /\ unanswered \cap handled = {}
      /\ unanswered' = unanswered \ {n} /\ handled' = handled \cup {n}
      /\ UNCHANGED <<shop, sent>> /\ sent \in Seq(Webhook)
      /\ outOfOrder \subseteq outOfOrder'
  BY DEF News, CustomerTypes, Answer
<1>2. k \in Customer
  <2>1. sent[n] \in Webhook
    BY <1>1
  <2> QED
    BY <2>1 DEF Webhook
<1>3. CustomerTypes'
  BY <1>1 DEF News, CustomerTypes
<1>4. LastNews'
  BY <1>1 DEF News, LastNews
<1>5. LinkNews'
  <2>1. ASSUME NEW m \in handled', sent[m].topic = "create"
        PROVE  link'[sent[m].customer] # None
    <3>1. sent[m] \in Webhook
      BY <1>1
    <3>2. sent[m].customer \in Customer
      BY <3>1 DEF Webhook
    <3>3. CASE m \in handled
      BY <2>1, <3>2, <3>3 DEF News, LinkNews
    <3>4. CASE m = n
      BY <2>1, <3>4
    <3> QED
      BY <1>1, <3>3, <3>4
  <2>2. ASSUME NEW j \in Customer, link'[j] # None, ~link'[j].live
        PROVE  \E m \in handled' : sent[m].customer = j /\ sent[m].topic = "delete"
    <3>1. CASE link[j] # None /\ ~link[j].live
      BY <1>1, <3>1 DEF News, LinkNews
    <3>2. CASE ~ (link[j] # None /\ ~link[j].live)
      BY <1>1, <2>2, <3>2
    <3> QED
      BY <3>1, <3>2
  <2> QED
    BY <1>1, <2>1, <2>2 DEF LinkNews
<1>6. SettledMeansLinked'
  <2> SUFFICES ASSUME NEW j \in Customer, j \notin outOfOrder', Answered(j)'
               PROVE  /\ Announced(j)' => link'[j] # None
                      /\ link'[j] # None => /\ link'[j].live <=> shop[j] # "gone"
                                            /\ shop[j] \in Phone => link'[j].phone = shop[j]
    BY <1>1 DEF SettledMeansLinked
  <2>1. CASE j # k
    <3>1. Answered(j) /\ (Announced(j)' <=> Announced(j)) /\ link'[j] = link[j]
      BY <1>1, <2>1 DEF Answered, Announced
    <3> QED
      BY <1>1, <3>1 DEF News, SettledMeansLinked
  <2>2. CASE j = k
    <3>1. Announced(k)' => link'[k] # None
      <4>1. \A m \in 1 .. Len(sent) : sent[m].customer = k => m \in handled'
        BY <1>1, <2>2 DEF Answered
      <4> QED
        BY <1>1, <1>5, <4>1 DEF Announced, LinkNews
    <3>2. /\ shop[k] = sent[n].phone
          /\ \A m \in handled \ {n} : sent[m].customer = k => sent[m].topic # "delete"
      <4>1. Answered(sent[n].customer)' /\ sent[n].customer \notin outOfOrder'
        BY <1>1, <2>2 DEF Answered
      <4> QED
        BY <4>1, LastAnswer
    <3>3. link[k] # None /\ ~link[k].live => sent[n].topic = "delete"
      BY <1>2, <3>2 DEF News, LinkNews
    <3>4. link'[k] # None => /\ link'[k].live <=> shop[k] # "gone"
                             /\ shop[k] \in Phone => link'[k].phone = shop[k]
      BY <3>2, <3>3
    <3>5. Announced(k)' <=> Announced(j)'
      BY <1>1, <2>2 DEF Announced
    <3> QED
      BY <2>2, <3>1, <3>4, <3>5
  <2> QED
    BY <2>1, <2>2
<1> QED
  BY <1>3, <1>4, <1>5, <1>6 DEF News

-----------------------------------------------------------------------------
(* Jobs *)

\* A job that knows nothing yet.
LEMMA EmptyTyped == <<>> \in Hooked /\ <<>> \in Found /\ <<>> \in Seen
<1>1. <<>> \in Hooked
  BY DEF Hooked
<1>2. <<>> \in Found
  BY DEF Found
<1>3. <<>> \in [{} -> LinkRow \cup {None}]
  OBVIOUS
<1>4. <<>> \in Seen
  BY <1>3 DEF Seen
<1> QED
  BY <1>1, <1>2, <1>4

\* A worker without a job knows nothing.
LEMMA NoJobSound ==
  ASSUME NEW n \in Nat
  PROVE  /\ NoJob \in Job(n)
         /\ \A H, S, sh, ln, ct, X : JobSound(NoJob, H, S, sh, ln, ct, X)
<1>2. NoJob \in Job(n)
  BY EmptyTyped DEF NoJob, Job
<1>3. /\ NoJob.pc = "none" /\ NoJob.hook = 0 /\ DOMAIN NoJob.phoneOf = {}
  BY DEF NoJob
<1> QED
  BY <1>2, <1>3 DEF JobSound, FetchedSound, HookSound, KeysSound

\* A job stays sound while others write what it does not hold.
LEMMA JobKept ==
  ASSUME NEW S \in Seq(Webhook), NEW S2 \in Seq(Webhook), NEW j \in Job(Len(S)),
         NEW H, NEW sh, NEW ln, NEW ct, NEW X, JobSound(j, H, S, sh, ln, ct, X),
         NEW sh2, NEW ln2, NEW ct2, NEW X2, X \subseteq X2,
         Len(S) <= Len(S2), \A n \in 1 .. Len(S) : S2[n] = S[n],
         \A k \in Customer :
           sh2[k] = sh[k] \/ \E n \in 1 .. Len(S2) : n > Len(S) /\ S2[n].customer = k,
         \A c \in H : /\ ct2[c] = None <=> ct[c] = None
                      /\ ct[c] # None => ct2[c].phone = ct[c].phone,
         \A k \in Customer : ln[k] # None =>
           /\ ln2[k] # None
           /\ j.pc = "update" /\ k \in DOMAIN j.phoneOf \ X2
                => ln2[k].contact \in {ln[k].contact, None}
  PROVE  j \in Job(Len(S2)) /\ JobSound(j, H, S2, sh2, ln2, ct2, X2)
<1>1. /\ Len(S) \in Nat /\ Len(S2) \in Nat /\ j.hook \in 0 .. Len(S) /\ j.at \in 0 .. Len(S)
      /\ DOMAIN j.phoneOf \subseteq Customer
  BY DEF Job, Hooked
<1>2. j \in Job(Len(S2))
  <2>1. 0 .. Len(S) \subseteq 0 .. Len(S2)
    BY <1>1
  <2> QED
    BY <1>1, <2>1 DEF Job
<1>3. FetchedSound(j, S2, sh2)
  <2> SUFFICES ASSUME j.hook = 0, NEW k \in DOMAIN j.phoneOf
               PROVE  j.phoneOf[k] = sh2[k] \/ \E n \in 1 .. Len(S2) : n > j.at /\ S2[n].customer = k
    BY DEF FetchedSound
  <2>1. \/ j.phoneOf[k] = sh[k]
        \/ \E n \in 1 .. Len(S) : n > j.at /\ S[n].customer = k
    BY DEF JobSound, FetchedSound
  <2>2. \A n \in 1 .. Len(S) : n \in 1 .. Len(S2)
    BY <1>1
  <2>3. \A n \in 1 .. Len(S2) : n > Len(S) => n > j.at
    BY <1>1
  <2>4. sh2[k] = sh[k] \/ \E n \in 1 .. Len(S2) : n > Len(S) /\ S2[n].customer = k
    BY <1>1
  <2> QED
    BY <2>1, <2>2, <2>3, <2>4
<1>4. HookSound(j, S2, ln2, X2)
  <2>1. HookSound(j, S, ln, X)
    BY DEF JobSound
  <2>2. CASE j.hook = 0
    BY <2>1, <2>2 DEF HookSound
  <2>3. CASE j.hook # 0
    <3>1. j.hook \in 1 .. Len(S)
      BY <1>1, <2>3
    <3>2. S2[j.hook] = S[j.hook] /\ S[j.hook].customer \in DOMAIN j.phoneOf
      BY <2>1, <2>3, <3>1 DEF HookSound
    <3> DEFINE k == S[j.hook].customer
    <3>3. k \in Customer
      BY <1>1, <3>2
    <3>4. j.pc \in {"update", "delete"} => ln2[k] # None
      BY <2>1, <2>3, <3>3 DEF HookSound
    <3>5. j.pc = "update" /\ k \notin X2 => ln2[k].contact \in {j.seen[k].contact, None}
      <4> SUFFICES ASSUME j.pc = "update", k \notin X2
                   PROVE  ln2[k].contact \in {j.seen[k].contact, None}
        OBVIOUS
      <4>1. ln[k] # None /\ ln[k].contact \in {j.seen[k].contact, None}
        BY <2>1, <2>3 DEF HookSound
      <4>2. ln2[k].contact \in {ln[k].contact, None}
        BY <3>2, <3>3, <4>1
      <4> QED
        BY <4>1, <4>2
    <3> QED
      BY <2>1, <2>3, <3>2, <3>4, <3>5 DEF HookSound
  <2> QED
    BY <2>2, <2>3
<1>5. KeysSound(j, H, ct2, X2)
  BY DEF JobSound, KeysSound
<1> QED
  BY <1>2, <1>3, <1>4, <1>5 DEF JobSound

\* What the others hold, and what they have in hand, stays as it is.
Untouched(W) ==
  /\ UNCHANGED <<sent, shop>> /\ crossed \subseteq crossed'
  /\ \A v \in W : job[v] # NoJob =>
       /\ request'[v].holds = request[v].holds
       /\ \A c \in request[v].holds : /\ contact'[c] = None <=> contact[c] = None
                                      /\ contact[c] # None => contact'[c].phone = contact[c].phone
  /\ \A k \in Customer : link[k] # None =>
       /\ link'[k] # None
       /\ \A v \in W : k \in InHand(v) \ crossed' => link'[k].contact \in {link[k].contact, None}

\* So the others' jobs stay sound.
LEMMA OthersSound ==
  ASSUME IInv, NEW W \in SUBSET Worker, Untouched(W)
  PROVE  \A v \in W : JobSound(job[v], request'[v].holds, sent, shop, link', contact', crossed')
<1> SUFFICES ASSUME NEW v \in W
             PROVE  JobSound(job[v], request'[v].holds, sent, shop, link', contact', crossed')
  OBVIOUS
<1>1. /\ sent \in Seq(Webhook) /\ Len(sent) \in Nat /\ job[v] \in Job(Len(sent))
      /\ JobSound(job[v], request[v].holds, sent, shop, link, contact, crossed)
  BY DEF IInv, News, CustomerTypes, JobInv, JobTypes, JobsSound
<1>2. CASE job[v] = NoJob
  BY <1>1, <1>2, NoJobSound
<1>3. CASE job[v] # NoJob
  <2> DEFINE j == job[v]  H == request[v].holds
  <2>1. /\ request'[v].holds = H
        /\ \A c \in H : /\ contact'[c] = None <=> contact[c] = None
                        /\ contact[c] # None => contact'[c].phone = contact[c].phone
        /\ crossed \subseteq crossed'
    BY <1>3 DEF Untouched
  <2>2. \A k \in Customer : link[k] # None =>
          /\ link'[k] # None
          /\ j.pc = "update" /\ k \in DOMAIN j.phoneOf \ crossed'
               => link'[k].contact \in {link[k].contact, None}
    BY DEF Untouched, InHand, Handling
  <2>3. /\ Len(sent) <= Len(sent) /\ \A n \in 1 .. Len(sent) : sent[n] = sent[n]
        /\ \A k \in Customer : shop[k] = shop[k]
    BY <1>1
  <2> HIDE DEF j, H
  <2>4. JobSound(j, H, sent, shop, link', contact', crossed')
    BY <1>1, <2>1, <2>2, <2>3, JobKept DEF j, H
  <2> QED
    BY <2>1, <2>4 DEF j
<1> QED
  BY <1>2, <1>3

\* No worker's job changes.
LEMMA JobsKept ==
  ASSUME IInv, Untouched(Worker), UNCHANGED job
  PROVE  JobInv'
<1>1. JobsSound'
  BY OthersSound DEF JobsSound, Untouched
<1>2. JobTypes' /\ Crossing'
  BY DEF IInv, JobInv, JobTypes, Crossing, InHand, Untouched
<1> QED
  BY <1>1, <1>2 DEF JobInv

\* The job of worker w is j now, which is sound, and has nobody in hand that another has
\* but who is crossed.
LEMMA JobReplaced ==
  ASSUME IInv, NEW w \in Worker, NEW j \in Job(Len(sent)), job' = [job EXCEPT ![w] = j],
         Untouched(Worker \ {w}),
         JobSound(j, request'[w].holds, sent, shop, link', contact', crossed'),
         j.pc \in Handling => \A v \in Worker \ {w} : DOMAIN j.phoneOf \cap InHand(v) \subseteq crossed'
  PROVE  JobInv'
<1> DEFINE W == Worker \ {w}
<1>0. W \in SUBSET Worker /\ UNCHANGED <<sent, shop>> /\ crossed \subseteq crossed'
  BY DEF Untouched
<1>1. job \in [Worker -> Job(Len(sent))]
  BY DEF IInv, JobInv, JobTypes
<1>2. job'[w] = j /\ \A v \in W : job'[v] = job[v]
  BY <1>1
<1>3. \A v \in W : JobSound(job[v], request'[v].holds, sent, shop, link', contact', crossed')
  <2> HIDE DEF W
  <2>1. Untouched(W)
    BY DEF W
  <2> QED
    BY <1>0, <2>1, OthersSound
<1>4. JobsSound'
  <2> SUFFICES ASSUME NEW v \in Worker
               PROVE  JobSound(job'[v], request'[v].holds, sent, shop, link', contact', crossed')
    BY <1>0 DEF JobsSound
  <2> QED
    BY <1>2, <1>3
<1>5. JobTypes'
  BY <1>0, <1>1 DEF JobTypes
<1>6. Crossing'
  <2> SUFFICES ASSUME NEW u \in Worker, NEW v \in Worker, u # v
               PROVE  InHand(u)' \cap InHand(v)' \subseteq crossed'
    BY DEF Crossing
  <2>1. InHand(w)' = IF j.pc \in Handling THEN DOMAIN j.phoneOf ELSE {}
    BY <1>2 DEF InHand
  <2>2. \A x \in W : InHand(x)' = InHand(x)
    BY <1>2 DEF InHand
  <2>3. CASE u = w \/ v = w
    BY <2>1, <2>2, <2>3
  <2>4. CASE u # w /\ v # w
    <3>1. InHand(u) \cap InHand(v) \subseteq crossed
      BY DEF IInv, JobInv, Crossing
    <3> QED
      BY <1>0, <2>2, <2>4, <3>1
  <2> QED
    BY <2>3, <2>4
<1> QED
  BY <1>4, <1>5, <1>6 DEF JobInv

\* A worker goes on with a job, and writes neither contacts nor links.
LEMMA QuietJobInv ==
  ASSUME IInv, ContactInv', NEW w \in Worker, NEW j \in Job(Len(sent)),
         job' = [job EXCEPT ![w] = j], crossed \subseteq crossed',
         JobSound(j, request'[w].holds, sent, shop, link, contact, crossed'),
         j.pc \in Handling => \A v \in Worker \ {w} : DOMAIN j.phoneOf \cap InHand(v) \subseteq crossed',
         \A v \in Worker \ {w} : request'[v] = request[v],
         UNCHANGED <<contact, renumbered, shop, sent, unanswered, link, handled, outOfOrder>>
  PROVE  IInv'
<1>1. News'
  BY NewsKept DEF IInv
<1>2. Rows' = Rows
  BY DEF Rows
<1>3. LinkedRows' /\ LinkAgrees'
  BY <1>2 DEF IInv, LinkedRows, LinkAgrees
<1>4. Untouched(Worker \ {w})
  BY DEF Untouched
<1>5. JobSound(j, request'[w].holds, sent, shop, link', contact', crossed')
  OBVIOUS
<1>6. JobInv'
  BY <1>4, <1>5, JobReplaced
<1> QED
  BY <1>1, <1>3, <1>6 DEF IInv

\* A webhook has a phone, unless it deletes the customer.
LEMMA WebhookTyped ==
  ASSUME News, NEW n \in 1 .. Len(sent)
  PROVE  /\ sent[n].customer \in Customer
         /\ sent[n].topic # "delete" => sent[n].phone \in Phone \cup {NoPhone}
         /\ sent[n].topic = "delete" <=> sent[n].phone = "gone"
<1>1. sent[n] \in Webhook
  BY DEF News, CustomerTypes
<1>2. sent[n].topic = "delete" <=> sent[n].phone = "gone"
  BY DEF News, LastNews
<1> QED
  BY <1>1, <1>2 DEF Webhook

\* A worker gives up, and nothing is left of its transaction.
LEMMA GiveUpInv ==
  ASSUME IInv, NEW w \in Worker, GiveUp(w)
  PROVE  IInv'
<1>1. /\ request' = [request EXCEPT ![w] = Idle] /\ job' = [job EXCEPT ![w] = NoJob]
      /\ UNCHANGED <<tables, drifted, renumbered, silenced, shop, sent, unanswered, link,
                     handled, outOfOrder, crossed>>
  BY DEF GiveUp, shopify
<1>2. ContactInv'
  BY <1>1, EndInv DEF IInv
<1>3. Len(sent) \in Nat
  BY DEF IInv, News, CustomerTypes
<1>4. /\ NoJob \in Job(Len(sent)) /\ NoJob.pc \notin Handling
      /\ JobSound(NoJob, request'[w].holds, sent, shop, link, contact, crossed')
  BY <1>3, NoJobSound DEF NoJob, Handling
<1>5. \A v \in Worker \ {w} : request'[v] = request[v]
  BY <1>1 DEF IInv, ContactInv, ContactTypes
<1> QED
  BY <1>1, <1>2, <1>4, <1>5, QuietJobInv DEF tables

\* What a worker reads with a job leaves contacts and links as they are.
LEMMA ReadInv ==
  ASSUME IInv, NEW w \in Worker, NEW j \in Job(Len(sent)),
         job' = [job EXCEPT ![w] = j], crossed \subseteq crossed',
         JobSound(j, request[w].holds, sent, shop, link, contact, crossed'),
         j.pc \in Handling => \A v \in Worker \ {w} : DOMAIN j.phoneOf \cap InHand(v) \subseteq crossed',
         UNCHANGED <<contactState, shop, sent, unanswered, link, handled, outOfOrder>>
  PROVE  IInv'
<1>1. UNCHANGED <<tables, request, drifted, renumbered, silenced>>
  BY DEF contactState
<1>2. ContactInv'
  BY <1>1, QuietInv DEF IInv
<1> QED
  BY <1>1, <1>2, QuietJobInv DEF tables

\* The job a worker has is of its type, and sound.
LEMMA JobFacts ==
  ASSUME IInv, NEW w \in Worker
  PROVE  /\ Len(sent) \in Nat /\ job[w] \in Job(Len(sent)) /\ job \in [Worker -> Job(Len(sent))]
         /\ JobSound(job[w], request[w].holds, sent, shop, link, contact, crossed)
BY DEF IInv, News, CustomerTypes, JobInv, JobTypes, JobsSound

\* An import begins, before its first page.
LEMMA StartImportInv ==
  ASSUME IInv, NEW w \in Worker, StartImport(w)
  PROVE  IInv'
<1> DEFINE j == [NoJob EXCEPT !.pc = "pages", !.page = 1, !.at = Len(sent)]
<1>1. NoJob \in Job(Len(sent)) /\ Len(sent) \in Nat
  BY JobFacts, NoJobSound
<1>2. /\ j \in Job(Len(sent)) /\ j.pc = "pages" /\ j.hook = 0 /\ DOMAIN j.phoneOf = {}
  <2>1. Len(sent) \in 0 .. Len(sent) /\ 1 \in Nat
    BY <1>1
  <2>2. j \in Job(Len(sent))
    BY <1>1, <2>1 DEF Job
  <2> QED
    BY <2>2 DEF NoJob
<1>3. job' = [job EXCEPT ![w] = j]
  BY DEF StartImport
<1> HIDE DEF j
<1>4. JobSound(j, request[w].holds, sent, shop, link, contact, crossed')
  BY <1>2 DEF JobSound, FetchedSound, HookSound, KeysSound
<1> QED
  BY <1>2, <1>3, <1>4, ReadInv DEF StartImport, shopify, Handling

\* A page is what Shopify has of its customers now.
LEMMA FetchPageInv ==
  ASSUME IInv, NEW w \in Worker, FetchPage(w)
  PROVE  IInv'
<1> DEFINE j == job[w]
           here == {k \in Customer : PageOf[k] = j.page /\ Known(k)}
           phoneOf == [k \in DOMAIN j.phoneOf \cup here |-> IF k \in here THEN shop[k] ELSE j.phoneOf[k]]
           jj == [j EXCEPT !.page = @ + 1, !.phoneOf = phoneOf]
<1>1. /\ j \in Job(Len(sent)) /\ j.pc = "pages" /\ j.hook = 0 /\ FetchedSound(j, sent, shop)
      /\ \A k \in DOMAIN j.phoneOf : j.phoneOf[k] # "gone"
  BY JobFacts DEF FetchPage, JobSound, HookSound
<1>2. /\ DOMAIN j.phoneOf \in SUBSET Customer
      /\ \A k \in DOMAIN j.phoneOf : j.phoneOf[k] \in Phone \cup {NoPhone, "gone"}
  BY <1>1 DEF Job, Hooked
<1>3. \A k \in here : shop[k] \in Phone \cup {NoPhone} /\ shop[k] # "gone"
  BY CustomersAssumption DEF Known
<1>4. job' = [job EXCEPT ![w] = jj]
  <2>1. jj = [j EXCEPT !.page = @ + 1,
                !.phoneOf = [k \in DOMAIN @ \cup here |-> IF k \in here THEN shop[k] ELSE @[k]]]
    OBVIOUS
  <2> QED
    BY <2>1 DEF FetchPage
<1>5. phoneOf \in Hooked
  <2>1. phoneOf \in [DOMAIN j.phoneOf \cup here -> Phone \cup {NoPhone, "gone"}]
    BY <1>2, <1>3
  <2>2. DOMAIN j.phoneOf \cup here \in SUBSET Customer
    BY <1>2
  <2> HIDE DEF phoneOf, here
  <2> QED
    BY <2>1, <2>2 DEF Hooked
<1>6. DOMAIN phoneOf = DOMAIN j.phoneOf \cup here
  OBVIOUS
<1>7. \A k \in DOMAIN phoneOf : phoneOf[k] = IF k \in here THEN shop[k] ELSE j.phoneOf[k]
  OBVIOUS
<1> HIDE DEF phoneOf, here
<1>8. /\ jj \in Job(Len(sent)) /\ jj.pc = "pages" /\ jj.hook = 0 /\ jj.at = j.at
      /\ jj.phoneOf = phoneOf
  <2>1. j.page + 1 \in Nat
    BY <1>1 DEF Job
  <2> QED
    BY <1>1, <1>5, <2>1 DEF Job
<1> HIDE DEF jj, j
<1>9. JobSound(jj, request[w].holds, sent, shop, link, contact, crossed')
  <2>1. FetchedSound(jj, sent, shop)
    BY <1>1, <1>6, <1>7, <1>8 DEF FetchedSound
  <2>2. \A k \in DOMAIN phoneOf : phoneOf[k] # "gone"
    BY <1>1, <1>3, <1>6, <1>7
  <2> QED
    BY <1>8, <2>1, <2>2 DEF JobSound, HookSound, KeysSound
<1> QED
  <2>1. UNCHANGED <<contactState, shop, sent, unanswered, link, handled, outOfOrder, crossed>>
    BY DEF FetchPage, contactVars, shopify
  <2>2. crossed \subseteq crossed' /\ jj.pc \notin Handling
    BY <1>8, <2>1 DEF Handling
  <2> QED
    BY <1>4, <1>8, <1>9, <2>1, <2>2, ReadInv

\* _upsert_contacts looks up the phones it was given.
LEMMA ReadContactsInv ==
  ASSUME IInv, NEW w \in Worker, NEW j \in Job(Len(sent)), ReadContacts(w, j),
         FetchedSound(j, sent, shop), \A k \in DOMAIN j.phoneOf : j.phoneOf[k] # "gone",
         j.hook # 0 => LET k == sent[j.hook].customer IN
           /\ DOMAIN j.phoneOf = {k} /\ j.phoneOf[k] = sent[j.hook].phone
           /\ sent[j.hook].topic = "create",
         UNCHANGED <<contactState, shop, sent, unanswered, link, handled, outOfOrder>>
  PROVE  IInv'
<1> DEFINE known == [p \in Phones(j.phoneOf) |-> ContactOf(p)]
           jj == [j EXCEPT !.pc = "save", !.page = 0, !.known = known]
<1>1. job' = [job EXCEPT ![w] = jj]
      /\ crossed' = crossed \cup (DOMAIN jj.phoneOf \cap UNION {InHand(v) : v \in Worker \ {w}})
  BY DEF ReadContacts, Begin
<1>2. known \in Found
  <2>1. Phones(j.phoneOf) \in SUBSET Phone
    BY DEF Phones, Job, Hooked
  <2>2. \A p : ContactOf(p) \in Contact \cup {None}
    BY DEF ContactOf, WithPhone, Rows
  <2>3. known \in [Phones(j.phoneOf) -> Contact \cup {None}]
    BY <2>2
  <2> HIDE DEF known
  <2> QED
    BY <2>1, <2>3 DEF Found
<1>3. DOMAIN known = Phones(j.phoneOf)
  OBVIOUS
<1> HIDE DEF known
<1>4. /\ jj \in Job(Len(sent)) /\ jj.pc = "save" /\ jj.hook = j.hook /\ jj.at = j.at
      /\ jj.phoneOf = j.phoneOf /\ jj.known = known
  BY <1>2 DEF Job
<1> HIDE DEF jj
<1>5. JobSound(jj, request[w].holds, sent, shop, link, contact, crossed')
  <2>1. FetchedSound(jj, sent, shop)
    BY <1>4 DEF FetchedSound
  <2>2. HookSound(jj, sent, link, crossed')
    BY <1>4 DEF HookSound
  <2>3. KeysSound(jj, request[w].holds, contact, crossed')
    BY <1>3, <1>4 DEF KeysSound
  <2> QED
    BY <2>1, <2>2, <2>3 DEF JobSound
<1>6. \A v \in Worker \ {w} : DOMAIN jj.phoneOf \cap InHand(v) \subseteq crossed'
  BY <1>1
<1>7. crossed \subseteq crossed'
  BY <1>1
<1> QED
  BY <1>1, <1>4, <1>5, <1>6, <1>7, ReadInv

\* The import has its pages and opens its transaction.
LEMMA OpenImportInv ==
  ASSUME IInv, NEW w \in Worker, OpenImport(w)
  PROVE  IInv'
<1>1. /\ job[w] \in Job(Len(sent)) /\ job[w].hook = 0 /\ FetchedSound(job[w], sent, shop)
      /\ \A k \in DOMAIN job[w].phoneOf : job[w].phoneOf[k] # "gone"
  BY JobFacts DEF OpenImport, JobSound, HookSound
<1>2. UNCHANGED <<contactState, shop, sent, unanswered, link, handled, outOfOrder>>
  BY DEF OpenImport, contactVars, shopify
<1> QED
  BY <1>1, <1>2, ReadContactsInv DEF OpenImport

\* The job of a webhook is about its customer, and the link it has.
LEMMA HookTyped ==
  ASSUME IInv, NEW n \in 1 .. Len(sent), NEW pc \in {"save", "update", "delete"}
  PROVE  LET j == Hook(n, pc)  k == sent[n].customer IN
         /\ j \in Job(Len(sent)) /\ j.pc = pc /\ j.hook = n
         /\ DOMAIN j.phoneOf = {k} /\ j.phoneOf[k] = sent[n].phone
         /\ DOMAIN j.seen = {k} /\ j.seen[k] = link[k]
<1> DEFINE k == sent[n].customer
           phoneOf == [x \in {k} |-> sent[n].phone]  seen == [x \in {k} |-> link[k]]
           j == [NoJob EXCEPT !.pc = pc, !.hook = n, !.phoneOf = phoneOf, !.seen = seen]
<1>1. k \in Customer /\ sent[n].phone \in Phone \cup {NoPhone, "gone"}
  BY WebhookTyped DEF IInv
<1>2. link[k] \in LinkRow \cup {None} /\ Len(sent) \in Nat /\ NoJob \in Job(Len(sent))
  BY <1>1, NoJobSound DEF IInv, News, CustomerTypes
<1>3. phoneOf \in Hooked /\ seen \in Seen
  <2>1. /\ phoneOf \in [{k} -> Phone \cup {NoPhone, "gone"}] /\ seen \in [{k} -> LinkRow \cup {None}]
        /\ {k} \in SUBSET Customer
    BY <1>1, <1>2
  <2> HIDE DEF phoneOf, seen, k
  <2> QED
    BY <2>1 DEF Hooked, Seen
<1>4. DOMAIN phoneOf = {k} /\ phoneOf[k] = sent[n].phone /\ DOMAIN seen = {k} /\ seen[k] = link[k]
  OBVIOUS
<1>5. Hook(n, pc) = j
  BY DEF Hook
<1> HIDE DEF phoneOf, seen
<1>6. n \in 0 .. Len(sent)
  BY <1>2
<1>7. /\ j \in Job(Len(sent)) /\ j.pc = pc /\ j.hook = n /\ j.phoneOf = phoneOf /\ j.seen = seen
  BY <1>2, <1>3, <1>6 DEF Job
<1> QED
  BY <1>4, <1>5, <1>7

\* sync_customer looks up its phone.
LEMMA SyncCustomerInv ==
  ASSUME IInv, NEW w \in Worker, NEW n \in 1 .. Len(sent), SyncCustomer(w, n)
  PROVE  IInv'
<1> DEFINE j == Hook(n, "save")  jj == [j EXCEPT !.seen = <<>>]  k == sent[n].customer
<1>1. sent[n].topic = "create" /\ sent[n].phone # "gone"
  BY WebhookTyped DEF IInv, SyncCustomer
<1>2. /\ j \in Job(Len(sent)) /\ j.pc = "save" /\ j.hook = n
      /\ DOMAIN j.phoneOf = {k} /\ j.phoneOf[k] = sent[n].phone
  BY HookTyped
<1>3. ReadContacts(w, jj)
  BY DEF SyncCustomer
<1> HIDE DEF j
<1>4. <<>> \in Seen
  BY DEF Seen
<1>5. jj \in Job(Len(sent)) /\ jj.hook = n /\ jj.phoneOf = j.phoneOf
  BY <1>2, <1>4 DEF Job
<1> HIDE DEF jj
<1>6. FetchedSound(jj, sent, shop)
  <2>1. n # 0
    BY JobFacts
  <2> QED
    BY <1>5, <2>1 DEF FetchedSound
<1> QED
  BY <1>1, <1>2, <1>3, <1>5, <1>6, ReadContactsInv DEF SyncCustomer

\* update_customer and delete_customer read the link of their customer.
LEMMA ReadLinkInv ==
  ASSUME IInv, NEW w \in Worker, NEW n \in 1 .. Len(sent), NEW pc \in {"update", "delete"},
         sent[n].topic = pc, link[sent[n].customer] # None, Begin(w, Hook(n, pc)),
         UNCHANGED <<contactState, shop, sent, unanswered, link, handled, outOfOrder>>
  PROVE  IInv'
<1> DEFINE j == Hook(n, pc)  k == sent[n].customer
<1>1. /\ j \in Job(Len(sent)) /\ j.pc = pc /\ j.hook = n /\ n # 0
      /\ DOMAIN j.phoneOf = {k} /\ j.phoneOf[k] = sent[n].phone
      /\ DOMAIN j.seen = {k} /\ j.seen[k] = link[k]
  BY HookTyped
<1>2. job' = [job EXCEPT ![w] = j]
      /\ crossed' = crossed \cup (DOMAIN j.phoneOf \cap UNION {InHand(v) : v \in Worker \ {w}})
  BY DEF Begin
<1>3. link[k] \in LinkRow
  <2>1. k \in Customer
    BY WebhookTyped DEF IInv
  <2> QED
    BY <2>1 DEF IInv, News, CustomerTypes
<1> HIDE DEF j
<1>4. JobSound(j, request[w].holds, sent, shop, link, contact, crossed')
  <2>1. FetchedSound(j, sent, shop)
    BY <1>1 DEF FetchedSound
  <2>2. HookSound(j, sent, link, crossed')
    BY <1>1, <1>3 DEF HookSound
  <2>3. KeysSound(j, request[w].holds, contact, crossed')
    BY <1>1 DEF KeysSound
  <2> QED
    BY <2>1, <2>2, <2>3 DEF JobSound
<1>5. crossed \subseteq crossed' /\ \A v \in Worker \ {w} : DOMAIN j.phoneOf \cap InHand(v) \subseteq crossed'
  BY <1>2
<1> QED
  BY <1>1, <1>2, <1>4, <1>5, ReadInv

\* A worker is done with its job, having written what no other holds.
LEMMA JobDone ==
  ASSUME IInv, NEW w \in Worker, job' = [job EXCEPT ![w] = NoJob], Untouched(Worker \ {w})
  PROVE  JobInv'
<1>1. /\ NoJob \in Job(Len(sent)) /\ NoJob.pc \notin Handling
      /\ JobSound(NoJob, request'[w].holds, sent, shop, link', contact', crossed')
  <2>1. Len(sent) \in Nat
    BY JobFacts
  <2> QED
    BY <2>1, NoJobSound DEF NoJob, Handling
<1> QED
  BY <1>1, JobReplaced

\* The webhook of a worker that is at an update or a deletion, and the link it has read.
LEMMA LinkJob ==
  ASSUME IInv, NEW w \in Worker, job[w].pc \in {"update", "delete"}
  PROVE  LET j == job[w]  k == TheCustomer(j) IN
         /\ j.hook \in 1 .. Len(sent) /\ sent[j.hook].customer = k /\ sent[j.hook].topic = j.pc
         /\ k \in Customer /\ DOMAIN j.phoneOf = {k} /\ j.phoneOf[k] = sent[j.hook].phone
         /\ j.seen[k] \in LinkRow /\ link[k] \in LinkRow /\ link[k] # None
         /\ j.pc = "update" /\ k \notin crossed => link[k].contact \in {j.seen[k].contact, None}
<1> DEFINE j == job[w]  n == j.hook  x == sent[n].customer
<1>1. /\ Len(sent) \in Nat /\ j \in Job(Len(sent)) /\ HookSound(j, sent, link, crossed)
  BY JobFacts DEF JobSound
<1>2. n # 0 /\ n \in 1 .. Len(sent)
  BY <1>1 DEF Job, HookSound
<1>3. /\ DOMAIN j.phoneOf = {x} /\ j.phoneOf[x] = sent[n].phone /\ sent[n].topic = j.pc
      /\ DOMAIN j.seen = {x} /\ j.seen[x] \in LinkRow /\ link[x] # None
      /\ j.pc = "update" /\ x \notin crossed => link[x].contact \in {j.seen[x].contact, None}
  BY <1>1, <1>2 DEF HookSound
<1>4. x \in Customer
  BY <1>2, WebhookTyped DEF IInv
<1>5. link[x] \in LinkRow
  BY <1>3, <1>4 DEF IInv, News, CustomerTypes
<1>6. TheCustomer(j) = x
  BY <1>3 DEF TheCustomer
<1> QED
  BY <1>2, <1>3, <1>4, <1>5, <1>6

\* A link is written, but for its contact.
LEMMA LinkWritten ==
  ASSUME News, NEW k \in Customer, NEW l \in LinkRow, link' = [link EXCEPT ![k] = l]
  PROVE  /\ link' \in [Customer -> LinkRow \cup {None}]
         /\ link'[k] = l /\ \A j \in Customer \ {k} : link'[j] = link[j]
BY DEF News, CustomerTypes

\* A contact gets another phone.
LEMMA RenumberedInv ==
  ASSUME ContactInv, NEW c \in Rows, NEW p \in Phone \cup {NoPhone},
         contact' = Renumbered(c, p),
         UNCHANGED <<born, member, list, stored, request, drifted, silenced>>
  PROVE  /\ ContactInv' /\ Rows' = Rows
         /\ contact'[c] # None /\ contact'[c].phone = p
         /\ \A d \in Contact \ {c} : contact'[d] = contact[d]
<1> USE ContactsAssumption DEF Status
<1>1. c \in Contact /\ contact[c] \in ContactRow
  BY DEF Rows, ContactInv, ContactTypes
<1>2. contact'[c] = [contact[c] EXCEPT !.phone = p] /\ \A d \in Contact \ {c} : contact'[d] = contact[d]
  BY <1>1 DEF Renumbered, ContactInv, ContactTypes
<1>3. /\ contact'[c] \in ContactRow /\ contact'[c].status = contact[c].status
      /\ contact'[c].phone = p /\ contact'[c] # None
  BY <1>1, <1>2 DEF ContactRow
<1>4. Rows' = Rows
  BY <1>1, <1>2, <1>3 DEF Rows
<1>5. ContactTypes'
  BY <1>2, <1>3 DEF Renumbered, ContactInv, ContactTypes
<1>6. RequestsSound' /\ Exclusive' /\ LengthExact'
  BY DEF ContactInv, RequestsSound, Exclusive, LengthExact, Shown, Size, Members
<1>7. KeysBorn' /\ SilencedStaysSilent'
  BY ZenonT(60), <1>2, <1>3, <1>4 DEF ContactInv, KeysBorn, SilencedStaysSilent, Rows
<1> QED
  BY <1>2, <1>3, <1>4, <1>5, <1>6, <1>7 DEF ContactInv

\* update_customer: whoever shares the contact has another phone in its link.
LEMMA SaveUpdateInv ==
  ASSUME IInv, NEW w \in Worker, SaveUpdate(w)
  PROVE  IInv'
<1> DEFINE j == job[w]  n == j.hook  k == TheCustomer(j)  l == j.seen[k]
           c == l.contact  phone == PhoneAfter(l, j.phoneOf[k])
<1>0. j.pc = "update"
  BY DEF SaveUpdate
<1>1. /\ n \in 1 .. Len(sent) /\ sent[n].customer = k /\ sent[n].topic = "update"
      /\ k \in Customer /\ DOMAIN j.phoneOf = {k} /\ j.phoneOf[k] = sent[n].phone
      /\ l \in LinkRow /\ link[k] \in LinkRow /\ link[k] # None
      /\ k \notin crossed => link[k].contact \in {c, None}
  BY <1>0, LinkJob
<1>2. /\ sent[n].phone \in Phone \cup {NoPhone} /\ sent[n].phone # "gone"
      /\ c \in Contact \cup {None}
  BY <1>1, WebhookTyped DEF IInv, LinkRow
<1>3. phone \in Phone \cup {NoPhone} /\ (sent[n].phone \in Phone => phone = sent[n].phone)
  BY <1>1, <1>2, ContactsAssumption DEF PhoneAfter, LinkRow
<1>4. CASE c # None /\ ~(c \in Rows /\ WithPhone(phone) \subseteq {c})
  BY <1>4, GiveUpInv DEF SaveUpdate
<1>5. CASE ~(c # None /\ ~(c \in Rows /\ WithPhone(phone) \subseteq {c}))
  <2>1. /\ link' = [link EXCEPT ![k].phone = phone]
        /\ contact' = IF c = None THEN contact ELSE Renumbered(c, phone)
        /\ renumbered' = IF c # None /\ ~(LinkedTo(c) \subseteq {k})
                           THEN renumbered \cup {c} ELSE renumbered
        /\ job' = [job EXCEPT ![w] = NoJob] /\ Answer(n)
        /\ UNCHANGED <<born, member, list, stored, request, drifted, silenced, crossed>>
        /\ c # None => ~HeldContact(c)
    BY <1>5 DEF SaveUpdate
  <2> HIDE DEF phone
  <2> DEFINE ll == [link[k] EXCEPT !.phone = phone]
  <2>2. ll \in LinkRow /\ ll.phone = phone /\ ll.live = link[k].live /\ ll.contact = link[k].contact
    BY <1>1, <1>3 DEF LinkRow
  <2>3. link' = [link EXCEPT ![k] = ll]
    BY <2>1
  <2> HIDE DEF ll
  <2>4. /\ link'[k] = ll /\ link' \in [Customer -> LinkRow \cup {None}]
        /\ \A i \in Customer \ {k} : link'[i] = link[i]
    BY <1>1, <2>2, <2>3, LinkWritten DEF IInv
  <2>5. News'
    <3>1. link'[k] # None /\ link[k].live \in BOOLEAN
      BY <1>1, <2>2, <2>4, CustomersAssumption DEF LinkRow
    <3> QED
      BY <1>1, <1>2, <1>3, <2>1, <2>2, <2>4, <3>1, AnswerNews DEF IInv
  <2>6. /\ ContactInv' /\ Rows' = Rows
        /\ c # None => contact'[c] # None /\ contact'[c].phone = phone
        /\ \A d \in Contact \ {c} : contact'[d] = contact[d]
    <3>1. CASE c = None
      BY <2>1, <3>1, QuietInv DEF IInv, tables, Rows
    <3>2. CASE c # None
      <4>1. c \in Rows /\ contact' = Renumbered(c, phone)
        BY <1>5, <2>1, <3>2
      <4> QED
        BY <1>3, <2>1, <4>1, RenumberedInv DEF IInv
    <3> QED
      BY <3>1, <3>2
  <2>7. LinkedRows'
    BY <1>1, <2>2, <2>4, <2>6 DEF IInv, LinkedRows
  <2>8. LinkAgrees'
    <3> SUFFICES ASSUME NEW i \in Customer \ crossed, link'[i] # None,
                        link'[i].contact \in Rows \ renumbered', link'[i].phone # NoPhone
                 PROVE  contact'[link'[i].contact].phone = link'[i].phone
      BY <2>1, <2>6 DEF LinkAgrees
    <3> DEFINE d == link'[i].contact
    <3>0. d # None /\ d \in Contact
      BY ContactsAssumption DEF Rows
    <3>1. CASE i = k
      BY <1>1, <2>2, <2>4, <2>6, <3>0, <3>1
    <3>2. CASE i # k
      <4>1. link'[i] = link[i] /\ d \in Rows \ renumbered
        BY <2>1, <2>4, <3>2
      <4>2. d # c
        <5> SUFFICES ASSUME d = c PROVE FALSE
          OBVIOUS
        <5>1. i \in LinkedTo(c)
          BY <4>1 DEF LinkedTo
        <5> QED
          BY <2>1, <3>0, <3>2, <5>1
      <4>3. contact[d].phone = link[i].phone
        BY <4>1 DEF IInv, LinkAgrees
      <4> QED
        BY <2>6, <3>0, <4>1, <4>2, <4>3
    <3> QED
      BY <3>1, <3>2
  <2>9. Untouched(Worker \ {w})
    <3>1. UNCHANGED <<sent, shop, request, crossed>>
      BY <2>1 DEF Answer
    <3>2. \A v \in Worker : request[v].holds \subseteq Contact \ {c}
      BY <2>1, ContactsAssumption DEF IInv, ContactInv, ContactTypes, Request, HeldContact
    <3>3. \A i \in Customer : link[i] # None => link'[i] # None /\ link'[i].contact = link[i].contact
      BY <2>2, <2>4, CustomersAssumption
    <3> QED
      BY <2>6, <3>1, <3>2, <3>3 DEF Untouched
  <2> QED
    BY <2>1, <2>5, <2>6, <2>7, <2>8, <2>9, JobDone DEF IInv
<1> QED
  BY <1>4, <1>5

\* delete_customer: the last word about a customer.
LEMMA SaveDeleteInv ==
  ASSUME IInv, NEW w \in Worker, SaveDelete(w)
  PROVE  IInv'
<1> DEFINE j == job[w]  n == j.hook  k == TheCustomer(j)  c == j.seen[k].contact
<1>0. j.pc = "delete"
  BY DEF SaveDelete
<1>1. /\ n \in 1 .. Len(sent) /\ sent[n].customer = k /\ sent[n].topic = "delete"
      /\ k \in Customer /\ link[k] \in LinkRow /\ link[k] # None /\ c \in Contact \cup {None}
  BY <1>0, LinkJob DEF LinkRow
<1>2. sent[n].phone = "gone"
  BY <1>1, WebhookTyped DEF IInv
<1>3. CASE c \notin Rows \cup {None}
  BY <1>3, GiveUpInv DEF SaveDelete
<1>4. CASE c \in Rows \cup {None}
  <2>1. /\ c # None => ~HeldContact(c)
        /\ contact' = IF c = None THEN contact ELSE [contact EXCEPT ![c].status = "opted_out"]
        /\ silenced' = silenced \cup ({c} \ {None})
        /\ request' = [v \in Worker |-> Late(request[v], c)]
        /\ link' = [link EXCEPT ![k].live = FALSE]
        /\ job' = [job EXCEPT ![w] = NoJob] /\ Answer(n)
        /\ UNCHANGED <<born, member, list, stored, drifted, renumbered, crossed>>
    BY <1>4 DEF SaveDelete
  <2> DEFINE ll == [link[k] EXCEPT !.live = FALSE]
  <2>2. ll \in LinkRow /\ ll.phone = link[k].phone /\ ~ll.live /\ ll.contact = link[k].contact
    BY <1>1 DEF LinkRow
  <2>3. link' = [link EXCEPT ![k] = ll]
    BY <2>1
  <2> HIDE DEF ll
  <2>4. /\ link'[k] = ll /\ link' \in [Customer -> LinkRow \cup {None}]
        /\ \A i \in Customer \ {k} : link'[i] = link[i]
    BY <1>1, <2>2, <2>3, LinkWritten DEF IInv
  <2>5. News'
    <3>1. "gone" \notin Phone /\ link'[k] # None
      BY <2>2, <2>4, CustomersAssumption
    <3> QED
      BY <1>1, <1>2, <2>1, <2>2, <2>4, <3>1, AnswerNews DEF IInv
  <2>6. /\ ContactInv' /\ Rows' = Rows /\ \A d \in Rows : contact'[d].phone = contact[d].phone
        /\ \A d \in Contact \ {c} : contact'[d] = contact[d]
    <3>1. CASE c = None
      <4>1. request' = request
        <5>1. \A v \in Worker : request[v].pc = "update" => request[v].key # None
          BY ContactsAssumption DEF IInv, ContactInv, RequestsSound, Sound, HoldsBorn
        <5>2. request = [v \in Worker |-> request[v]]
          BY DEF IInv, ContactInv, ContactTypes
        <5>3. \A v \in Worker : Late(request[v], c) = request[v]
          BY <3>1, <5>1 DEF Late
        <5> QED
          BY <2>1, <5>2, <5>3
      <4> QED
        BY <2>1, <3>1, <4>1, QuietInv DEF IInv, tables, Rows
    <3>2. CASE c # None
      <4> DEFINE row == [contact[c] EXCEPT !.status = "opted_out"]
      <4>1. c \in Rows /\ c \in Contact \cap born /\ contact[c] \in ContactRow
        BY <1>4, <3>2 DEF Rows, IInv, ContactInv, ContactTypes, KeysBorn
      <4>2. row \in ContactRow /\ row.status # "subscribed" /\ row.phone = contact[c].phone
        BY <4>1 DEF ContactRow, Status
      <4>3. contact' = [contact EXCEPT ![c] = row]
        BY <2>1, <3>2
      <4> HIDE DEF row
      <4>4. ContactInv'
        <5>1. /\ request' = [v \in Worker |-> request'[v]] /\ silenced' = silenced \cup {c}
              /\ \A v \in Worker : request'[v] \in {Idle, Late(request[v], c)}
          BY <2>1, <3>2
        <5> QED
          BY <2>1, <3>2, <4>1, <4>2, <4>3, <5>1, SilenceInv DEF IInv
      <4>5. contact'[c] = row /\ \A d \in Contact \ {c} : contact'[d] = contact[d]
        BY <4>1, <4>3 DEF IInv, ContactInv, ContactTypes
      <4>6. row # None
        BY <4>2, ContactsAssumption
      <4> QED
        BY <4>1, <4>2, <4>4, <4>5, <4>6 DEF Rows
    <3> QED
      BY <3>1, <3>2
  <2>7. LinkedRows' /\ LinkAgrees'
    <3>1. \A i \in Customer : link'[i] # None =>
            /\ link[i] # None /\ link'[i].contact = link[i].contact /\ link'[i].phone = link[i].phone
      BY <1>1, <2>2, <2>4
    <3>2. LinkedRows'
      BY <2>6, <3>1 DEF IInv, LinkedRows
    <3>3. LinkAgrees'
      BY <2>1, <2>6, <3>1 DEF IInv, LinkAgrees
    <3> QED
      BY <3>2, <3>3
  <2>8. Untouched(Worker \ {w})
    <3>1. UNCHANGED <<sent, shop, crossed>> /\ \A v \in Worker : request'[v].holds = request[v].holds
      BY <2>1 DEF Answer, Late, IInv, ContactInv, ContactTypes, Request
    <3>2. \A v \in Worker : request[v].holds \subseteq Contact \ {c}
      BY <2>1, ContactsAssumption DEF IInv, ContactInv, ContactTypes, Request, HeldContact
    <3>3. \A i \in Customer : link[i] # None => link'[i] # None /\ link'[i].contact = link[i].contact
      BY <2>2, <2>4, CustomersAssumption
    <3> QED
      BY <2>6, <3>1, <3>2, <3>3 DEF Untouched
  <2> QED
    BY <2>1, <2>5, <2>6, <2>7, <2>8, JobDone DEF IInv
<1> QED
  BY <1>3, <1>4

\* delete_customer reads the link; a webhook about a customer without one is answered.
LEMMA DeleteCustomerInv ==
  ASSUME IInv, NEW w \in Worker, NEW n \in 1 .. Len(sent), DeleteCustomer(w, n)
  PROVE  IInv'
<1> DEFINE k == sent[n].customer
<1>1. /\ sent[n].topic = "delete" /\ sent[n].phone = "gone" /\ k \in Customer
      /\ UNCHANGED <<contactState, link>>
  BY WebhookTyped DEF DeleteCustomer, IInv
<1>2. CASE Deletable(k)
  BY <1>1, <1>2, ReadLinkInv DEF DeleteCustomer, Deletable
<1>3. CASE ~Deletable(k)
  <2>1. Answer(n) /\ UNCHANGED <<job, crossed, shop, sent>>
    BY <1>3 DEF DeleteCustomer, Answer
  <2>2. UNCHANGED <<tables, request, drifted, renumbered, silenced, contact>>
    BY <1>1 DEF contactState, tables
  <2>3. ContactInv' /\ Rows' = Rows
    BY <2>2, QuietInv DEF IInv, Rows
  <2>4. LinkedRows' /\ LinkAgrees'
    BY <1>1, <2>1, <2>2, <2>3 DEF IInv, LinkedRows, LinkAgrees
  <2>5. News'
    <3>1. /\ link' \in [Customer -> LinkRow \cup {None}] /\ \A i \in Customer \ {k} : link'[i] = link[i]
          /\ link'[k] = link[k] /\ sent[n].topic # "create"
          /\ "gone" \notin Phone /\ (link[k] # None => ~link[k].live)
      BY <1>1, <1>3, CustomersAssumption DEF Deletable, IInv, News, CustomerTypes
    <3> QED
      BY <1>1, <2>1, <3>1, AnswerNews DEF IInv
  <2>6. JobInv'
    <3>1. Untouched(Worker)
      BY <1>1, <2>1, <2>2 DEF Untouched
    <3> QED
      BY <2>1, <3>1, JobsKept
  <2> QED
    BY <2>3, <2>4, <2>5, <2>6 DEF IInv
<1> QED
  BY <1>2, <1>3

\* A contact that is deleted leaves its links without one.
LEMMA DeleteLinkedContactInv ==
  ASSUME IInv, NEW c \in Contact, DeleteLinkedContact(c)
  PROVE  IInv'
<1>1. /\ DeleteContact(c)
      /\ link' = [k \in Customer |-> IF k \in LinkedTo(c) THEN [link[k] EXCEPT !.contact = None]
                                                         ELSE link[k]]
      /\ UNCHANGED <<shopify, imported, job, handled, outOfOrder, crossed>>
  BY DEF DeleteLinkedContact
<1>2. ContactInv'
  BY <1>1, DeleteContactInv DEF IInv
<1>3. /\ Rows' = Rows \ {c} /\ renumbered' = renumbered
      /\ \A d \in Contact \ {c} : contact'[d] = contact[d]
  BY <1>1, ContactsAssumption DEF DeleteContact, Rows, IInv, ContactInv, ContactTypes
<1>4. link \in [Customer -> LinkRow \cup {None}]
  BY DEF IInv, News, CustomerTypes
<1>5. ASSUME NEW k \in Customer
      PROVE  \/ k \notin LinkedTo(c) /\ link'[k] = link[k]
             \/ /\ k \in LinkedTo(c) /\ link[k] # None /\ link'[k] \in LinkRow /\ link'[k].contact = None
                /\ link'[k].phone = link[k].phone /\ link'[k].live = link[k].live
  <2>1. CASE k \in LinkedTo(c)
    <3>1. link[k] \in LinkRow /\ link'[k] = [link[k] EXCEPT !.contact = None] /\ link[k] # None
      BY <1>1, <1>4, <2>1 DEF LinkedTo
    <3> QED
      BY <2>1, <3>1 DEF LinkRow
  <2>2. CASE k \notin LinkedTo(c)
    BY <1>1, <2>2
  <2> QED
    BY <2>1, <2>2
<1>6. link' \in [Customer -> LinkRow \cup {None}]
  <2>1. link' = [k \in Customer |-> link'[k]]
    BY <1>1
  <2> QED
    BY <1>4, <1>5, <2>1
<1>7. /\ UNCHANGED <<shop, sent, unanswered, job, handled, outOfOrder, crossed>>
      /\ \A k \in Customer : link'[k] = None <=> link[k] = None
      /\ \A k \in Customer : link[k] # None => /\ link'[k].live = link[k].live
                                               /\ link'[k].phone = link[k].phone
                                               /\ link'[k].contact \in {link[k].contact, None}
  BY <1>1, <1>5, CustomersAssumption DEF shopify
<1>8. LinkedRows'
  <2> SUFFICES ASSUME NEW k \in Customer, link'[k] # None
               PROVE  link'[k].contact \in Rows' \cup {None}
    BY DEF LinkedRows
  <2>1. CASE k \in LinkedTo(c)
    BY <1>5, <2>1
  <2>2. CASE k \notin LinkedTo(c)
    BY <1>3, <1>5, <2>2 DEF LinkedTo, IInv, LinkedRows
  <2> QED
    BY <2>1, <2>2
<1>9. LinkAgrees'
  <2> SUFFICES ASSUME NEW k \in Customer \ crossed, link'[k] # None,
                      link'[k].contact \in Rows' \ renumbered', link'[k].phone # NoPhone
               PROVE  contact'[link'[k].contact].phone = link'[k].phone
    BY <1>7 DEF LinkAgrees
  <2>1. link'[k].contact # None
    BY ContactsAssumption DEF Rows
  <2>2. link'[k] = link[k]
    BY <1>5, <2>1
  <2>3. link[k].contact \in Rows \ renumbered /\ contact'[link[k].contact] = contact[link[k].contact]
    BY <1>3, <2>2 DEF Rows
  <2> QED
    BY <2>2, <2>3 DEF IInv, LinkAgrees
<1>10. News'
  <2>1. CustomerTypes'
    BY <1>6, <1>7 DEF IInv, News, CustomerTypes
  <2>2. LastNews'
    BY <1>7 DEF IInv, News, LastNews
  <2>3. LinkNews'
    <3>1. \A n \in handled : sent[n].customer \in Customer
      <4>1. handled \subseteq 1 .. Len(sent)
        BY DEF IInv, News, CustomerTypes
      <4> QED
        BY <4>1, WebhookTyped DEF IInv
    <3> QED
      BY <1>7, <3>1 DEF IInv, News, LinkNews
  <2>4. SettledMeansLinked'
    BY <1>7 DEF IInv, News, SettledMeansLinked, Answered, Announced
  <2> QED
    BY <2>1, <2>2, <2>3, <2>4 DEF News
<1>11. JobInv'
  <2>1. \A v \in Worker : /\ request'[v].holds = request[v].holds
                          /\ request[v].holds \subseteq Contact \ {c}
    BY <1>1, ContactsAssumption DEF DeleteContact, Aged, IInv, ContactInv, ContactTypes, Request, HeldContact
  <2>2. Untouched(Worker)
    BY <1>3, <1>7, <2>1 DEF Untouched
  <2> QED
    BY <1>7, <2>2, JobsKept
<1> QED
  BY <1>2, <1>8, <1>9, <1>10, <1>11 DEF IInv

\* The contacts of the phones P: those that were known and are still there, and fresh ones.
Established(P, known, fresh, keys, H) ==
  /\ P \in SUBSET Phone /\ known \in [P -> Contact \cup {None}] /\ keys \in [P -> Contact \cup {None}]
  /\ \A p \in P : known[p] = None => fresh[p] \in Contact \ born
  /\ \A p, q \in P : known[p] = None /\ known[q] = None /\ fresh[p] = fresh[q] => p = q
  /\ \A p \in P : keys[p] = IF known[p] = None THEN fresh[p] ELSE ContactOf(p)
  /\ \A c : c \in H <=> \E p \in P : \/ known[p] # None /\ known[p] = c /\ c \in Rows
                                     \/ known[p] = None /\ fresh[p] = c

\* _upsert_contacts: every phone has a contact that is held now, unless its contact has
\* changed since it was looked up.
LEMMA KeysEstablished ==
  ASSUME ContactInv, NEW P, NEW known, NEW fresh, NEW keys, NEW H,
         Established(P, known, fresh, keys, H)
  PROVE  /\ H \subseteq Contact
         /\ \A p, q \in P : keys[p] = keys[q] /\ keys[p] # None => p = q
         /\ \A c \in H : contact[c] # None \/ \E p \in P : keys[p] = c
         /\ \A p \in P : keys[p] \in H /\ contact[keys[p]] # None => contact[keys[p]].phone = p
         /\ \A p \in P : known[p] = None \/ keys[p] = known[p] => keys[p] \in H
<1> USE ContactsAssumption
<1>0. /\ P \in SUBSET Phone /\ known \in [P -> Contact \cup {None}] /\ keys \in [P -> Contact \cup {None}]
      /\ \A p \in P : known[p] = None => fresh[p] \in Contact \ born
      /\ \A p, q \in P : known[p] = None /\ known[q] = None /\ fresh[p] = fresh[q] => p = q
      /\ \A p \in P : keys[p] = IF known[p] = None THEN fresh[p] ELSE ContactOf(p)
      /\ \A c : c \in H <=> \E p \in P : \/ known[p] # None /\ known[p] = c /\ c \in Rows
                                         \/ known[p] = None /\ fresh[p] = c
  BY DEF Established
<1>1. \A p \in P : ContactOf(p) # None => ContactOf(p) \in Rows /\ contact[ContactOf(p)].phone = p
  BY DEF ContactOf, WithPhone, Rows
<1>2. Rows \subseteq born
  BY DEF ContactInv, KeysBorn
<1>3. \A p \in P : \/ known[p] = None /\ keys[p] = fresh[p] /\ keys[p] \in Contact /\ keys[p] \notin Rows
                   \/ known[p] # None /\ keys[p] = ContactOf(p)
  BY <1>0, <1>2
<1>4. H \subseteq Contact
  BY <1>0 DEF Rows
<1>5. ASSUME NEW p \in P, NEW q \in P, keys[p] = keys[q], keys[p] # None
      PROVE  p = q
  <2>1. CASE known[p] = None /\ known[q] = None
    BY <1>0, <1>3, <1>5, <2>1
  <2>2. CASE known[p] # None \/ known[q] # None
    BY <1>1, <1>3, <1>5, <2>2
  <2> QED
    BY <2>1, <2>2
<1>6. \A c \in H : contact[c] # None \/ \E p \in P : keys[p] = c
  BY <1>0, <1>3 DEF Rows
<1>7. ASSUME NEW p \in P, keys[p] \in H, contact[keys[p]] # None
      PROVE  contact[keys[p]].phone = p
  BY <1>1, <1>3, <1>4, <1>7 DEF Rows
<1>8. ASSUME NEW p \in P, known[p] = None \/ keys[p] = known[p]
      PROVE  keys[p] \in H
  BY <1>0, <1>1, <1>3, <1>8
<1> QED
  BY <1>4, <1>5, <1>6, <1>7, <1>8

\* A transaction has saved its contacts, and holds them.
LEMMA HoldInv ==
  ASSUME ContactInv, NEW w \in Worker, NEW r \in Request,
         r.pc = "shopify" /\ r.holds \subseteq born',
         request' = [request EXCEPT ![w] = r],
         \A v \in Worker \ {w} : r.holds \cap request[v].holds = {},
         born \subseteq born', UNCHANGED <<contact, member, list, stored, drifted, silenced>>
  PROVE  ContactInv'
<1>1. Sound(r, born', list', silenced', member', stored')
  BY DEF Sound, HoldsBorn, CopiesSilence, CountsRight
<1>2. \A v \in Worker : request[v].pc = "commit" => DOMAIN request[v].counts \subseteq list
  BY DEF ContactInv, RequestsSound, Sound, HoldsBorn
<1>3. request' \in [Worker -> Request] /\ RequestsSound' /\ Exclusive'
  <2> DEFINE G == {}
  <2>1. G \in SUBSET Segment /\ (Continue(w, r, G) \/ (request' = [request EXCEPT ![w] = r] /\ G = {}))
    OBVIOUS
  <2>2. /\ silenced' \subseteq silenced
        /\ \A v \in Worker \ {w} : request[v].pc = "commit" => DOMAIN request[v].counts \subseteq list'
        /\ \A g \in (Segment \cap born) \ G :
             /\ \A c \in Contact : <<g, c>> \in member' <=> <<g, c>> \in member
             /\ stored'[g] = stored[g] /\ (g \in list => g \in list')
    BY <1>2
  <2> HIDE DEF G
  <2> QED
    BY <1>1, <2>1, <2>2, ContinueSound
<1> QED
  BY <1>3 DEF ContactInv, ContactTypes, KeysBorn, SilencedStaysSilent, LengthExact, Rows, Shown,
              Size, Members

\* _upsert_contacts of a worker.
LEMMA SaveContactsInv ==
  ASSUME IInv, NEW w \in Worker, SaveContacts(w)
  PROVE  IInv'
<1> DEFINE j == job[w]  P == DOMAIN j.known
<1>1. j.pc = "save" /\ \A c \in StillThere(j) : ~HeldContact(c)
  BY DEF SaveContacts
<1>2. /\ j \in Job(Len(sent)) /\ FetchedSound(j, sent, shop) /\ HookSound(j, sent, link, crossed)
      /\ P = Phones(j.phoneOf)
  BY <1>1, JobFacts DEF JobSound, KeysSound
<1>3. P \in SUBSET Phone /\ j.known \in [P -> Contact \cup {None}]
  BY <1>2 DEF Job, Found
<1>4. CASE \E p \in NewPhones(j) : WithPhone(p) # {}
  BY <1>4, GiveUpInv DEF SaveContacts
<1>5. CASE ~ \E p \in NewPhones(j) : WithPhone(p) # {}
  <2>1. PICK fresh \in [NewPhones(j) -> Contact \ born] : CreateMissing(w, fresh)
    BY <1>5 DEF SaveContacts
  <2> DEFINE keys == KeysWith(j, fresh)  new == {fresh[p] : p \in NewPhones(j)}
             H == StillThere(j) \cup new
             seen == [k \in DOMAIN j.phoneOf |-> link[k]]
             r == [Idle EXCEPT !.pc = "shopify", !.holds = H, !.taken = NewPhones(j)]
             jj == [j EXCEPT !.pc = "links", !.known = <<>>, !.keys = keys, !.seen = seen]
  <2>2. r = Holding(H, NewPhones(j)) /\ jj = WithKeys(j, keys)
    BY DEF Holding, WithKeys
  <2>3. /\ DOMAIN fresh = NewPhones(j)
        /\ \A p \in NewPhones(j) : fresh[p] \in Contact /\ fresh[p] \notin born
    OBVIOUS
  <2>4. /\ H \subseteq Contact /\ DOMAIN keys = P /\ keys \in Found
        /\ \A p, q \in P : keys[p] = keys[q] /\ keys[p] # None => p = q
        /\ \A c \in H : contact[c] # None \/ \E p \in P : keys[p] = c
        /\ \A p \in P : keys[p] \in H /\ contact[keys[p]] # None => contact[keys[p]].phone = p
        /\ \A p \in P : j.known[p] = None \/ keys[p] = j.known[p] => keys[p] \in H
    <3> DEFINE known == j.known
    <3>1. /\ known \in [P -> Contact \cup {None}]
          /\ \A p \in P : p \in NewPhones(j) <=> known[p] = None
      BY <1>3 DEF NewPhones
    <3>2. \A p \in P : known[p] = None => fresh[p] \in Contact \ born
      BY <2>3, <3>1
    <3>3. \A p, q \in P : known[p] = None /\ known[q] = None /\ fresh[p] = fresh[q] => p = q
      BY <2>1, <3>1 DEF CreateMissing
    <3>4. \A p \in P : keys[p] = IF known[p] = None THEN fresh[p] ELSE ContactOf(p)
      BY <3>1 DEF KeysWith
    <3>5. DOMAIN keys = P /\ keys \in [P -> Contact \cup {None}]
      <4>1. \A p : ContactOf(p) \in Contact \cup {None}
        BY DEF ContactOf, WithPhone, Rows
      <4>2. keys = [p \in P |-> keys[p]]
        BY DEF KeysWith
      <4>3. \A p \in P : keys[p] \in Contact \cup {None}
        BY <3>2, <3>4, <4>1
      <4> QED
        BY <4>2, <4>3
    <3>6. keys \in Found
      BY <1>3, <3>5 DEF Found
    <3>7. \A c : c \in H <=> \E p \in P : \/ known[p] # None /\ known[p] = c /\ c \in Rows
                                          \/ known[p] = None /\ fresh[p] = c
      BY <3>1 DEF StillThere, NewPhones
    <3>8. ContactInv
      BY DEF IInv
    <3> HIDE DEF known, keys, H, P, new
    <3>9. Established(P, known, fresh, keys, H)
      BY <1>3, <3>1, <3>2, <3>3, <3>4, <3>5, <3>7 DEF Established
    <3>10. /\ H \subseteq Contact
           /\ \A p, q \in P : keys[p] = keys[q] /\ keys[p] # None => p = q
           /\ \A c \in H : contact[c] # None \/ \E p \in P : keys[p] = c
           /\ \A p \in P : keys[p] \in H /\ contact[keys[p]] # None => contact[keys[p]].phone = p
           /\ \A p \in P : known[p] = None \/ keys[p] = known[p] => keys[p] \in H
      BY <3>8, <3>9, KeysEstablished
    <3> QED
      BY <3>5, <3>6, <3>10 DEF known
  <2>5. /\ born' = born \cup new /\ request' = [request EXCEPT ![w] = r]
        /\ job' = [job EXCEPT ![w] = jj] /\ crossed' = crossed \cup Moved(j, keys)
        /\ UNCHANGED <<contact, member, list, stored, drifted, renumbered, silenced, shop, sent,
                       unanswered, link, handled, outOfOrder>>
    BY <2>1, <2>2 DEF CreateMissing, shopify
  <2>6. NewPhones(j) \subseteq Phone
    BY <1>3 DEF NewPhones
  <2>7. H \subseteq born' /\ \A v \in Worker \ {w} : H \cap request[v].holds = {}
    <3>1. Rows \subseteq born /\ \A v \in Worker : request[v].holds \subseteq born
      BY DEF IInv, ContactInv, KeysBorn, RequestsSound, Sound, HoldsBorn
    <3>2. StillThere(j) \subseteq Rows /\ \A v \in Worker : StillThere(j) \cap request[v].holds = {}
      BY <1>1 DEF HeldContact, StillThere
    <3> QED
      BY <2>3, <2>5, <3>1, <3>2
  <2>8. DOMAIN seen = DOMAIN j.phoneOf /\ seen \in Seen
    <3>1. DOMAIN j.phoneOf \in SUBSET Customer
      BY <1>2 DEF Job, Hooked
    <3>2. seen \in [DOMAIN j.phoneOf -> LinkRow \cup {None}]
      BY <3>1 DEF IInv, News, CustomerTypes
    <3> HIDE DEF seen
    <3> QED
      BY <3>1, <3>2 DEF Seen
  <2> HIDE DEF keys, H, seen, new
  <2>9. r \in Request /\ r.pc = "shopify" /\ r.holds = H
    BY <2>4, <2>6, IdleTyped DEF Request
  <2> HIDE DEF r
  <2>10. ContactInv'
    BY <2>5, <2>7, <2>9, HoldInv DEF IInv
  <2>11. /\ jj \in Job(Len(sent)) /\ jj.pc = "links" /\ jj.hook = j.hook /\ jj.at = j.at
         /\ jj.phoneOf = j.phoneOf /\ jj.keys = keys /\ jj.seen = seen
    BY <1>2, <2>4, <2>8, EmptyTyped DEF Job
  <2> HIDE DEF jj
  <2>12. request'[w].holds = H /\ \A v \in Worker \ {w} : request'[v] = request[v]
    BY <2>5, <2>9 DEF IInv, ContactInv, ContactTypes
  <2>13. JobSound(jj, H, sent, shop, link, contact, crossed')
    <3>1. FetchedSound(jj, sent, shop)
      BY <1>2, <2>11 DEF FetchedSound
    <3>2. HookSound(jj, sent, link, crossed')
      BY <1>1, <1>2, <2>11 DEF HookSound
    <3>3. KeysSound(jj, H, contact, crossed')
      <4>1. ASSUME NEW k \in DOMAIN j.phoneOf \ crossed', j.phoneOf[k] # NoPhone
            PROVE  keys[j.phoneOf[k]] \in H
        <5>1. j.phoneOf[k] \in P
          BY <1>2, <4>1 DEF Phones
        <5>2. j.known[j.phoneOf[k]] = None \/ keys[j.phoneOf[k]] = j.known[j.phoneOf[k]]
          BY <2>5, <4>1, <5>1 DEF Moved, NewPhones
        <5> QED
          BY <2>4, <5>1, <5>2
      <4> QED
        BY <1>2, <2>4, <2>8, <2>11, <4>1 DEF KeysSound
    <3> QED
      BY <3>1, <3>2, <3>3 DEF JobSound
  <2>14. crossed \subseteq crossed' /\ \A v \in Worker \ {w} : DOMAIN jj.phoneOf \cap InHand(v) \subseteq crossed'
    <3>1. InHand(w) = DOMAIN j.phoneOf
      BY <1>1 DEF InHand, Handling
    <3> QED
      BY <2>5, <2>11, <3>1 DEF IInv, JobInv, Crossing
  <2>15. JobSound(jj, request'[w].holds, sent, shop, link, contact, crossed')
    BY <2>12, <2>13
  <2> HIDE DEF j, P
  <2> QED
    BY <2>5, <2>10, <2>11, <2>12, <2>14, <2>15, QuietJobInv
<1> QED
  BY <1>4, <1>5

\* A transaction subscribes the contacts that it holds.
LEMMA UpsertsInv ==
  ASSUME ContactInv, NEW w \in Worker, NEW H, H = request[w].holds,
         \A c \in Contact \ H : contact'[c] = contact[c],
         \A c \in H : contact'[c] \in ContactRow,
         contact' = [c \in Contact |-> contact'[c]],
         silenced' = silenced \ H, request' = [request EXCEPT ![w] = Idle],
         UNCHANGED <<born, member, list, stored, drifted>>
  PROVE  ContactInv' /\ Rows' = Rows \cup H /\ H \subseteq Contact
<1> USE ContactsAssumption
<1>1. H \subseteq Contact /\ H \subseteq born
  BY DEF ContactInv, ContactTypes, Request, RequestsSound, Sound, HoldsBorn
<1>2. Rows' = Rows \cup H
  BY <1>1 DEF Rows
<1>3. \A v \in Worker : request[v].pc = "commit" => DOMAIN request[v].counts \subseteq list
  BY DEF ContactInv, RequestsSound, Sound, HoldsBorn
<1>4. request' \in [Worker -> Request] /\ RequestsSound' /\ Exclusive'
  <2> DEFINE G == {}
  <2>1. G \in SUBSET Segment /\ (Continue(w, Idle, G) \/ (request' = [request EXCEPT ![w] = Idle] /\ G = {}))
    OBVIOUS
  <2>2. /\ silenced' \subseteq silenced
        /\ \A v \in Worker \ {w} : request[v].pc = "commit" => DOMAIN request[v].counts \subseteq list'
        /\ \A g \in (Segment \cap born) \ G :
             /\ \A c \in Contact : <<g, c>> \in member' <=> <<g, c>> \in member
             /\ stored'[g] = stored[g] /\ (g \in list => g \in list')
    BY <1>3
  <2>3. /\ Sound(Idle, born', list', silenced', member', stored') /\ Idle \in Request
        /\ \A v \in Worker \ {w} : Idle.holds \cap request[v].holds = {}
    BY IdleTyped, IdleSound
  <2> HIDE DEF G
  <2> QED
    BY <2>1, <2>2, <2>3, ContinueSound
<1>5. ContactTypes'
  <2>1. \A c \in Contact : contact'[c] \in ContactRow \cup {None}
    BY DEF ContactInv, ContactTypes
  <2> QED
    BY <1>4, <2>1 DEF ContactInv, ContactTypes
<1>6. KeysBorn'
  BY <1>1, <1>2 DEF ContactInv, KeysBorn
<1>7. SilencedStaysSilent'
  BY DEF ContactInv, KeysBorn, SilencedStaysSilent, Rows
<1>8. LengthExact'
  BY DEF ContactInv, LengthExact, Shown, Size, Members
<1> QED
  BY <1>1, <1>2, <1>4, <1>5, <1>6, <1>7, <1>8 DEF ContactInv

\* What a transaction writes: the contacts it holds, and the links of its customers.
LEMMA LinksWritten ==
  ASSUME IInv, NEW w \in Worker, job[w].pc = "links",
         LET r == request[w]  j == job[w] IN
           /\ ~LinksFail(r, j) /\ contact' = Upserted(r, j) /\ silenced' = silenced \ r.holds
           /\ link' = [k \in Customer |-> IF k \in DOMAIN j.phoneOf THEN LinkOf(j, k) ELSE link[k]],
         request' = [request EXCEPT ![w] = Idle],
         UNCHANGED <<born, member, list, stored, drifted, renumbered, crossed>>
  PROVE  LET r == request[w]  j == job[w] IN
         /\ ContactInv' /\ LinkedRows' /\ LinkAgrees'
         /\ DOMAIN j.phoneOf \subseteq Customer
         /\ link' \in [Customer -> LinkRow \cup {None}]
         /\ \A k \in Customer \ DOMAIN j.phoneOf : link'[k] = link[k]
         /\ \A k \in DOMAIN j.phoneOf : /\ link'[k] # None /\ link'[k].live
                                        /\ link'[k].phone = j.phoneOf[k] /\ j.phoneOf[k] # "gone"
         /\ \A c \in Contact \ r.holds : contact'[c] = contact[c]
<1> USE ContactsAssumption, CustomersAssumption
<1> DEFINE r == request[w]  j == job[w]  H == r.holds  here == DOMAIN j.phoneOf  P == DOMAIN j.keys
<1>1. /\ j \in Job(Len(sent)) /\ HookSound(j, sent, link, crossed) /\ KeysSound(j, H, contact, crossed)
      /\ H \subseteq Contact
  BY JobFacts DEF JobSound, IInv, ContactInv, ContactTypes, Request
<1>2. /\ P = Phones(j.phoneOf) /\ DOMAIN j.seen = here
      /\ \A p, q \in P : j.keys[p] = j.keys[q] /\ j.keys[p] # None => p = q
      /\ \A c \in H : contact[c] # None \/ \E p \in P : j.keys[p] = c
      /\ \A p \in P : j.keys[p] \in H /\ contact[j.keys[p]] # None => contact[j.keys[p]].phone = p
      /\ \A k \in here \ crossed : j.phoneOf[k] # NoPhone => j.keys[j.phoneOf[k]] \in H
  BY <1>1 DEF KeysSound
<1>3. /\ here \subseteq Customer /\ P \subseteq Phone
      /\ \A p \in P : j.keys[p] \in Contact \cup {None}
      /\ \A k \in here : j.phoneOf[k] \in Phone \cup {NoPhone, "gone"} /\ j.seen[k] \in LinkRow \cup {None}
  BY <1>1, <1>2 DEF Job, Hooked, Found, Seen
<1>4. \A k \in here : j.phoneOf[k] \in Phone \cup {NoPhone} /\ j.phoneOf[k] # "gone"
  <2>1. CASE j.hook = 0
    BY <1>1, <1>3, <2>1 DEF HookSound
  <2>2. CASE j.hook # 0
    <3>1. j.hook \in 1 .. Len(sent)
      BY <1>1, <2>2, JobFacts DEF Job
    <3>2. sent[j.hook].topic = "create"
      BY <1>1, <2>2 DEF HookSound
    <3>3. sent[j.hook].phone \in Phone \cup {NoPhone}
      BY <3>1, <3>2, WebhookTyped DEF IInv
    <3> QED
      BY <1>1, <2>2, <3>3 DEF HookSound
  <2> QED
    BY <2>1, <2>2
<1>5. \A c \in Contact \ H : contact'[c] = contact[c]
  BY DEF Upserted
<1>6. ASSUME NEW c \in H
      PROVE  /\ contact'[c] \in ContactRow /\ contact'[c].status = "subscribed"
             /\ c \in Rows => contact'[c].phone = contact[c].phone
             /\ c \notin Rows => contact'[c].phone \in P /\ j.keys[contact'[c].phone] = c
  <2> DEFINE p == IF c \in Rows THEN contact[c].phone ELSE CHOOSE q \in P : j.keys[q] = c
  <2>1. c \in Contact
    BY <1>1
  <2>2. contact'[c] = [phone |-> p, status |-> "subscribed"]
    BY <2>1 DEF Upserted
  <2>3. c \notin Rows => p \in P /\ j.keys[p] = c
    BY <1>2, <2>1 DEF Rows
  <2>4. c \in Rows => p = contact[c].phone /\ p \in Phone \cup {NoPhone}
    BY DEF Rows, IInv, ContactInv, ContactTypes, ContactRow
  <2>5. p \in Phone \cup {NoPhone}
    BY <1>3, <2>3, <2>4
  <2> HIDE DEF p
  <2> QED
    BY <2>2, <2>3, <2>4, <2>5 DEF ContactRow, Status
<1>7. ContactInv' /\ Rows' = Rows \cup H
  <2>1. contact' = [c \in Contact |-> contact'[c]]
    BY DEF Upserted
  <2>2. \A c \in H : contact'[c] \in ContactRow
    BY <1>6
  <2>3. silenced' = silenced \ H /\ ContactInv
    BY DEF IInv
  <2> QED
    BY <1>5, <2>1, <2>2, <2>3, UpsertsInv
<1>8. ASSUME NEW k \in here
      PROVE  /\ link'[k] \in LinkRow /\ link'[k].live /\ link'[k].phone = j.phoneOf[k]
             /\ link'[k].contact = ContactFor(j, k) /\ ContactFor(j, k) \in Rows' \cup {None}
  <2>1. link'[k] = [contact |-> ContactFor(j, k), phone |-> j.phoneOf[k], live |-> TRUE]
    BY <1>3 DEF LinkOf
  <2>2. ContactFor(j, k) \in Rows' \cup {None}
    BY <1>7 DEF LinksFail
  <2>3. ContactFor(j, k) \in Contact \cup {None}
    BY <2>2 DEF Rows
  <2>4. \A c \in Contact \cup {None}, p \in Phone \cup {NoPhone} :
          LET l == [contact |-> c, phone |-> p, live |-> TRUE] IN
          l \in LinkRow /\ l.live /\ l.phone = p /\ l.contact = c
    BY DEF LinkRow
  <2> HIDE DEF j, r, here
  <2> QED
    BY <1>4, <2>1, <2>2, <2>3, <2>4
<1>9. link' \in [Customer -> LinkRow \cup {None}] /\ \A k \in Customer \ here : link'[k] = link[k]
  <2>1. link \in [Customer -> LinkRow \cup {None}]
    BY DEF IInv, News, CustomerTypes
  <2>2. \A k \in Customer \ here : link'[k] = link[k]
    OBVIOUS
  <2>3. link' = [k \in Customer |-> link'[k]]
    OBVIOUS
  <2>4. \A k \in Customer : link'[k] \in LinkRow \cup {None}
    BY <1>8, <2>1, <2>2
  <2> QED
    BY <2>2, <2>3, <2>4
<1>10. LinkedRows'
  <2> SUFFICES ASSUME NEW k \in Customer, link'[k] # None
               PROVE  link'[k].contact \in Rows' \cup {None}
    BY DEF LinkedRows
  <2>1. CASE k \in here
    BY <1>8, <2>1
  <2>2. CASE k \notin here
    BY <1>7, <1>9, <2>2 DEF IInv, LinkedRows
  <2> QED
    BY <2>1, <2>2
<1>11. LinkAgrees'
  <2> SUFFICES ASSUME NEW k \in Customer \ crossed, link'[k] # None,
                      link'[k].contact \in Rows' \ renumbered, link'[k].phone # NoPhone
               PROVE  contact'[link'[k].contact].phone = link'[k].phone
    BY DEF LinkAgrees
  <2>1. CASE k \in here
    <3> DEFINE p == j.phoneOf[k]  c == j.keys[p]
    <3>0. p # NoPhone
      BY <1>8, <2>1
    <3>1. p # NoPhone /\ p \in P
      <4>1. p \in Phones(j.phoneOf)
        BY <2>1, <3>0 DEF Phones
      <4> QED
        BY <1>2, <3>0, <4>1
    <3>2. c \in H /\ c # None
      BY <1>1, <1>2, <2>1, <3>1
    <3>3. link'[k].contact = c /\ link'[k].phone = p
      BY <1>8, <2>1, <3>1, <3>2 DEF ContactFor
    <3>4. contact'[c].phone = p
      <4>1. CASE c \in Rows
        BY <1>2, <1>6, <3>1, <3>2, <4>1 DEF Rows
      <4>2. CASE c \notin Rows
        BY <1>2, <1>6, <3>1, <3>2, <4>2
      <4> QED
        BY <4>1, <4>2
    <3> QED
      BY <3>3, <3>4
  <2>2. CASE k \notin here
    <3>1. link'[k] = link[k] /\ link[k].contact # None
      BY <1>9, <2>2 DEF Rows
    <3>2. link[k].contact \in Rows \ renumbered
      BY <3>1 DEF IInv, LinkedRows
    <3>3. contact'[link[k].contact].phone = contact[link[k].contact].phone
      BY <1>5, <1>6, <3>2 DEF Rows
    <3> QED
      BY <3>1, <3>2, <3>3 DEF IInv, LinkAgrees
  <2> QED
    BY <2>1, <2>2
<1>12. \A k \in here : link'[k] # None
  BY <1>8
<1> QED
  BY <1>3, <1>4, <1>5, <1>7, <1>8, <1>9, <1>10, <1>11, <1>12

\* The import writes what it has fetched; a customer of which it missed a webhook that is
\* handled by now is out of order.
LEMMA ImportNews ==
  ASSUME IInv, NEW j, FetchedSound(j, sent, shop), j.hook = 0, DOMAIN j.phoneOf \subseteq Customer,
         link' \in [Customer -> LinkRow \cup {None}],
         \A k \in Customer \ DOMAIN j.phoneOf : link'[k] = link[k],
         \A k \in DOMAIN j.phoneOf : /\ link'[k] # None /\ link'[k].live
                                     /\ link'[k].phone = j.phoneOf[k] /\ j.phoneOf[k] # "gone",
         outOfOrder' = outOfOrder \cup
           ({sent[n].customer : n \in {m \in handled : m > j.at}} \cap DOMAIN j.phoneOf),
         UNCHANGED <<shop, sent, unanswered, handled>>
  PROVE  News'
<1> DEFINE here == DOMAIN j.phoneOf
<1>1. /\ sent \in Seq(Webhook) /\ Len(sent) \in Nat
      /\ unanswered \cup handled = 1 .. Len(sent) /\ unanswered \cap handled = {}
  BY DEF IInv, News, CustomerTypes
<1>2. CustomerTypes' /\ LastNews'
  BY DEF IInv, News, CustomerTypes, LastNews
<1>3. LinkNews'
  <2>1. \A n \in handled : sent[n].customer \in Customer
    BY <1>1, WebhookTyped DEF IInv
  <2>2. \A n \in handled : sent[n].topic = "create" => link'[sent[n].customer] # None
    BY <2>1 DEF IInv, News, LinkNews
  <2>3. \A k \in Customer :
          link'[k] # None /\ ~link'[k].live =>
            \E n \in handled : sent[n].customer = k /\ sent[n].topic = "delete"
    BY DEF IInv, News, LinkNews
  <2> QED
    BY <2>2, <2>3 DEF LinkNews
<1>4. SettledMeansLinked'
  <2> SUFFICES ASSUME NEW k \in Customer, k \notin outOfOrder', Answered(k)
               PROVE  /\ Announced(k) => link'[k] # None
                      /\ link'[k] # None => /\ link'[k].live <=> shop[k] # "gone"
                                            /\ shop[k] \in Phone => link'[k].phone = shop[k]
    BY DEF SettledMeansLinked, Answered, Announced
  <2>1. CASE k \notin here
    BY <2>1 DEF IInv, News, SettledMeansLinked
  <2>2. CASE k \in here
    <3>1. ~ \E n \in 1 .. Len(sent) : n > j.at /\ sent[n].customer = k
      BY <1>1, <2>2 DEF Answered
    <3>2. j.phoneOf[k] = shop[k]
      BY <2>2, <3>1 DEF FetchedSound
    <3> QED
      BY <2>2, <3>2
  <2> QED
    BY <2>1, <2>2
<1> QED
  BY <1>2, <1>3, <1>4 DEF News

\* An import or sync_customer writes its links and commits.
LEMMA SaveLinksInv ==
  ASSUME IInv, NEW w \in Worker, SaveLinks(w)
  PROVE  IInv'
<1> DEFINE r == request[w]  j == job[w]  here == DOMAIN j.phoneOf
<1>1. j.pc = "links"
  BY DEF SaveLinks
<1>2. /\ Len(sent) \in Nat /\ j \in Job(Len(sent)) /\ FetchedSound(j, sent, shop)
      /\ HookSound(j, sent, link, crossed)
  BY JobFacts DEF JobSound
<1>3. CASE LinksFail(r, j)
  BY <1>3, GiveUpInv DEF SaveLinks
<1>4. CASE ~LinksFail(r, j)
  <2>1. /\ contact' = Upserted(r, j) /\ silenced' = silenced \ r.holds
        /\ link' = [k \in Customer |-> IF k \in here THEN LinkOf(j, k) ELSE link[k]]
        /\ request' = [request EXCEPT ![w] = Idle] /\ job' = [job EXCEPT ![w] = NoJob]
        /\ UNCHANGED <<born, member, list, stored, drifted, renumbered, crossed>>
    BY <1>4 DEF SaveLinks
  <2>2. /\ ContactInv' /\ LinkedRows' /\ LinkAgrees'
        /\ here \subseteq Customer /\ link' \in [Customer -> LinkRow \cup {None}]
        /\ \A k \in Customer \ here : link'[k] = link[k]
        /\ \A k \in here : /\ link'[k] # None /\ link'[k].live
                           /\ link'[k].phone = j.phoneOf[k] /\ j.phoneOf[k] # "gone"
        /\ \A c \in Contact \ r.holds : contact'[c] = contact[c]
    BY <1>1, <1>4, <2>1, LinksWritten
  <2>3. News' /\ UNCHANGED <<sent, shop>>
    <3>1. CASE j.hook = 0
      <4>1. /\ outOfOrder' = outOfOrder \cup ({sent[n].customer : n \in {m \in handled : m > j.at}} \cap here)
            /\ UNCHANGED <<shop, sent, unanswered, handled>>
        BY <1>4, <3>1 DEF SaveLinks, shopify
      <4> HIDE DEF j
      <4> QED
        BY <1>2, <2>2, <3>1, <4>1, ImportNews
    <3>2. CASE j.hook # 0
      <4> DEFINE n == j.hook
      <4>1. n \in 1 .. Len(sent) /\ Answer(n)
        BY <1>2, <1>4, <3>2 DEF SaveLinks, Job
      <4>2. here = {sent[n].customer} /\ j.phoneOf[sent[n].customer] = sent[n].phone
        BY <1>2, <3>2 DEF HookSound
      <4>3. /\ link'[sent[n].customer] # None /\ link'[sent[n].customer].live
            /\ link'[sent[n].customer].phone = sent[n].phone /\ sent[n].phone # "gone"
        BY <2>2, <4>2
      <4>4. \A k \in Customer \ {sent[n].customer} : link'[k] = link[k]
        BY <2>2, <4>2
      <4> QED
        <5>1. News'
          BY <2>2, <4>1, <4>3, <4>4, AnswerNews DEF IInv
        <5> QED
          BY <4>1, <5>1 DEF Answer
    <3> QED
      BY <3>1, <3>2
  <2>4. Untouched(Worker \ {w})
    <3>1. /\ \A v \in Worker \ {w} : request'[v].holds = request[v].holds
          /\ \A v \in Worker \ {w} : request[v].holds \subseteq Contact \ r.holds
      BY <2>1 DEF IInv, ContactInv, ContactTypes, Request, Exclusive
    <3>2. \A k \in Customer : link[k] # None => link'[k] # None
      BY <2>2
    <3>3. InHand(w) = here
      BY <1>1 DEF InHand, Handling
    <3>4. \A v \in Worker \ {w} : InHand(v) \cap here \subseteq crossed
      BY <3>3 DEF IInv, JobInv, Crossing
    <3>5. \A k \in Customer, v \in Worker \ {w} : k \in InHand(v) \ crossed => link'[k] = link[k]
      BY <2>2, <3>4
    <3> HIDE DEF r, j, here
    <3> QED
      BY <2>1, <2>2, <2>3, <3>1, <3>2, <3>5 DEF Untouched
  <2> QED
    BY <2>1, <2>2, <2>3, <2>4, JobDone DEF IInv
<1> QED
  BY <1>3, <1>4

\* Nothing of it changes: the failed webhook, for one.
LEMMA StutterInv ==
  ASSUME IInv, UNCHANGED <<contactState, shop, sent, unanswered, links>>
  PROVE  IInv'
<1>1. UNCHANGED <<tables, contact, request, drifted, renumbered, silenced, link, job, handled,
                  outOfOrder, crossed>>
  BY DEF contactState, tables, links
<1>2. News'
  BY <1>1, NewsKept DEF IInv
<1>3. ContactInv' /\ Rows' = Rows
  BY <1>1, QuietInv DEF IInv, Rows
<1>4. LinkedRows' /\ LinkAgrees'
  BY <1>1, <1>3 DEF IInv, LinkedRows, LinkAgrees
<1>5. JobInv'
  <2>1. Untouched(Worker)
    BY <1>1 DEF Untouched
  <2> QED
    BY <1>1, <2>1, JobsKept
<1> QED
  BY <1>2, <1>3, <1>4, <1>5 DEF IInv

\* Requests about contacts leave customers alone.
LEMMA ContactsOnlyInv ==
  ASSUME IInv, ContactStep
  PROVE  IInv'
<1>1. /\ UNCHANGED <<shop, sent, unanswered, link, job, handled, outOfOrder, crossed>>
  BY DEF ContactStep, shopify, links
<1>2. ContactInv'
  BY ContactStepInv DEF IInv
<1>3. News'
  BY <1>1, NewsKept DEF IInv
<1>4. /\ Rows \subseteq Rows'
      /\ \A c \in Rows' \ renumbered' : c \in Rows \ renumbered /\ contact'[c].phone = contact[c].phone
      /\ \A v \in Worker : job[v] # NoJob =>
           /\ request'[v].holds = request[v].holds
           /\ \A c \in request[v].holds : contact'[c] = contact[c]
  BY ContactStepKeeps DEF IInv
<1>5. LinkedRows' /\ LinkAgrees'
  BY <1>1, <1>4 DEF IInv, LinkedRows, LinkAgrees
<1>6. JobInv'
  <2>1. Untouched(Worker)
    BY <1>1, <1>4 DEF Untouched
  <2> QED
    BY <1>1, <2>1, JobsKept
<1> QED
  BY <1>2, <1>3, <1>5, <1>6 DEF IInv

\* Shopify has news of a customer: what a job has read is older now.
LEMMA ChangeInv ==
  ASSUME IInv, NEW k \in Customer, NEW now \in Phone \cup {NoPhone, "gone"},
         ChangeCustomer(k, now)
  PROVE  IInv'
<1>1. /\ shop' = [shop EXCEPT ![k] = now]
      /\ \E topic : sent' = Append(sent, [customer |-> k, topic |-> topic, phone |-> now])
      /\ UNCHANGED <<contactState, links>>
  BY DEF ChangeCustomer
<1>2. UNCHANGED <<tables, contact, request, drifted, renumbered, silenced, link, job, handled,
                  outOfOrder, crossed>>
  BY <1>1 DEF contactState, tables, links
<1>3. ContactInv' /\ Rows' = Rows
  BY <1>2, QuietInv DEF IInv, Rows
<1>4. LinkedRows' /\ LinkAgrees'
  BY <1>2, <1>3 DEF IInv, LinkedRows, LinkAgrees
<1>5. News'
  BY ChangeNews DEF IInv
<1>6. JobInv'
  <2>1. sent \in Seq(Webhook) /\ sent' \in Seq(Webhook)
    BY <1>5 DEF IInv, News, CustomerTypes
  <2>2. /\ Len(sent) \in Nat /\ Len(sent') = Len(sent) + 1 /\ sent'[Len(sent) + 1].customer = k
        /\ \A n \in 1 .. Len(sent) : sent'[n] = sent[n]
    BY <1>1, <2>1
  <2>3. \A x \in Customer :
          shop'[x] = shop[x] \/ \E n \in 1 .. Len(sent') : n > Len(sent) /\ sent'[n].customer = x
    <3>1. Len(sent) + 1 \in 1 .. Len(sent') /\ Len(sent) + 1 > Len(sent)
      BY <2>2
    <3>2. \A x \in Customer \ {k} : shop'[x] = shop[x]
      BY <1>1 DEF IInv, News, CustomerTypes
    <3> QED
      BY <2>2, <3>1, <3>2
  <2>4. ASSUME NEW v \in Worker
        PROVE  /\ job[v] \in Job(Len(sent'))
               /\ JobSound(job[v], request[v].holds, sent', shop', link, contact, crossed)
    <3> DEFINE j == job[v]  H == request[v].holds
    <3>1. j \in Job(Len(sent)) /\ JobSound(j, H, sent, shop, link, contact, crossed)
      BY JobFacts
    <3>2. /\ Len(sent) <= Len(sent') /\ crossed \subseteq crossed
          /\ \A c \in H : /\ contact[c] = None <=> contact[c] = None
                          /\ contact[c] # None => contact[c].phone = contact[c].phone
          /\ \A x \in Customer : link[x] # None =>
               /\ link[x] # None
               /\ j.pc = "update" /\ x \in DOMAIN j.phoneOf \ crossed
                    => link[x].contact \in {link[x].contact, None}
      BY <2>2
    <3> HIDE DEF j, H
    <3>3. \A S \in Seq(Webhook), T \in Seq(Webhook) : \A sh : S = sent /\ T = sent' /\ sh = shop' =>
            j \in Job(Len(T)) /\ JobSound(j, H, T, sh, link, contact, crossed)
      <4> SUFFICES ASSUME NEW S \in Seq(Webhook), NEW T \in Seq(Webhook), NEW sh,
                          S = sent, T = sent', sh = shop'
                   PROVE  j \in Job(Len(T)) /\ JobSound(j, H, T, sh, link, contact, crossed)
        OBVIOUS
      <4>1. /\ j \in Job(Len(S)) /\ JobSound(j, H, S, shop, link, contact, crossed)
            /\ Len(S) <= Len(T) /\ \A n \in 1 .. Len(S) : T[n] = S[n]
            /\ \A x \in Customer : sh[x] = shop[x] \/ \E n \in 1 .. Len(T) : n > Len(S) /\ T[n].customer = x
        BY <2>2, <2>3, <3>1, <3>2
      <4>2. \A x \in Customer : link[x] # None =>
              /\ link[x] # None
              /\ j.pc = "update" /\ x \in DOMAIN j.phoneOf \ crossed
                   => link[x].contact \in {link[x].contact, None}
        OBVIOUS
      <4> QED
        BY ONLY <4>1, <4>2, JobKept
    <3> QED
      BY <2>1, <3>3 DEF j, H
  <2>5. JobTypes'
    BY <1>2, <2>4 DEF IInv, JobInv, JobTypes
  <2>6. JobsSound' /\ Crossing'
    BY <1>2, <2>4 DEF IInv, JobInv, JobsSound, Crossing, InHand
  <2> QED
    BY <2>5, <2>6 DEF JobInv
<1> QED
  BY <1>3, <1>4, <1>5, <1>6 DEF IInv

\* Nothing is there at first but segments without members.
LEMMA InitInv == CustomersInit => IInv
<1> SUFFICES ASSUME CustomersInit PROVE IInv
  OBVIOUS
<1>1. ContactInv
  <2>1. ContactTypes
    BY IdleTyped, ContactsAssumption DEF CustomersInit, Init, ContactTypes
  <2>2. KeysBorn /\ SilencedStaysSilent
    BY DEF CustomersInit, Init, KeysBorn, SilencedStaysSilent, Rows
  <2>3. RequestsSound /\ Exclusive
    BY IdleSound, IdleTyped DEF CustomersInit, Init, RequestsSound, Exclusive
  <2>4. LengthExact
    <3> SUFFICES ASSUME NEW g \in list
                 PROVE  Shown(g) = Size(g)
      BY DEF LengthExact
    <3>1. stored[g] = None /\ Members(g) = {}
      BY DEF CustomersInit, Init, Members
    <3> QED
      BY <3>1, FS_EmptySet DEF Shown, Size
  <2> QED
    BY <2>1, <2>2, <2>3, <2>4 DEF ContactInv
<1>2. CustomerTypes /\ Len(sent) = 0
  <2>1. <<>> \in Seq(Webhook) /\ Len(<<>>) = 0 /\ 1 .. 0 = {}
    OBVIOUS
  <2> QED
    BY <2>1 DEF CustomersInit, CustomerTypes
<1>3. LastNews /\ LinkNews /\ SettledMeansLinked
  BY DEF CustomersInit, LastNews, LinkNews, SettledMeansLinked, Announced
<1>4. LinkedRows /\ LinkAgrees
  BY DEF CustomersInit, LinkedRows, LinkAgrees
<1>5. JobInv
  <2>1. NoJob \in Job(Len(sent)) /\ \A v \in Worker : job[v] = NoJob
    BY <1>2, NoJobSound DEF CustomersInit
  <2>2. JobTypes
    BY <2>1 DEF CustomersInit, JobTypes
  <2>3. JobsSound
    BY <1>2, <2>1, NoJobSound DEF JobsSound
  <2>4. \A v \in Worker : InHand(v) = {}
    BY <2>1 DEF InHand, NoJob, Handling
  <2> QED
    BY <2>2, <2>3, <2>4 DEF JobInv, Crossing
<1> QED
  BY <1>1, <1>2, <1>3, <1>4, <1>5 DEF IInv, News

\* The four ways a webhook is handled.
LEMMA HandleInv ==
  ASSUME IInv, NEW w \in Worker, NEW n \in 1 .. Len(sent), Handle(w, n)
  PROVE  IInv'
<1>1. CASE UpdateCustomer(w, n)
  BY <1>1, ReadLinkInv DEF UpdateCustomer
<1>2. CASE UpdateFails(n)
  BY <1>2, StutterInv DEF UpdateFails
<1> QED
  BY <1>1, <1>2, SyncCustomerInv, DeleteCustomerInv DEF Handle

\* Every step keeps the invariant.
LEMMA NextInv == IInv /\ [CustomersNext]_vars => IInv'
<1> SUFFICES ASSUME IInv, [CustomersNext]_vars PROVE IInv'
  OBVIOUS
<1>1. CASE ContactStep
  BY <1>1, ContactsOnlyInv
<1>2. ASSUME NEW k \in Customer, NEW now \in Phone \cup {NoPhone, "gone"}, ChangeCustomer(k, now)
      PROVE  IInv'
  BY <1>2, ChangeInv
<1>3. ASSUME NEW w \in Worker, JobStep(w)
      PROVE  IInv'
  BY <1>3, StartImportInv, FetchPageInv, OpenImportInv, SaveContactsInv, SaveLinksInv, SaveUpdateInv,
     SaveDeleteInv, GiveUpInv DEF JobStep, JobFails
<1>4. ASSUME NEW c \in Contact, DeleteLinkedContact(c)
      PROVE  IInv'
  BY <1>4, DeleteLinkedContactInv
<1>5. ASSUME NEW w \in Worker, NEW n \in 1 .. Len(sent), Deliver(w, n) \/ DeliverAgain(w, n)
      PROVE  IInv'
  BY <1>5, HandleInv DEF Deliver, DeliverAgain
<1>6. CASE UNCHANGED vars
  BY <1>6, StutterInv DEF vars, contactVars, shopify
<1> QED
  BY <1>1, <1>2, <1>3, <1>4, <1>5, <1>6 DEF CustomersNext

-----------------------------------------------------------------------------
\* The invariant of contacts, segments, customers, webhooks and the workers that handle
\* them.
THEOREM InvariantHolds == CustomersSpec => []IInv
<1> QED
  BY InitInv, NextInv, PTL DEF CustomersSpec

\* Contacts, segments, memberships, requests, links, webhooks and what a worker knows of
\* them are always of their types.
THEOREM CustomerTypesHold == CustomersSpec => [](ContactTypes /\ CustomerTypes /\ JobTypes)
<1>1. IInv => ContactTypes /\ CustomerTypes /\ JobTypes
  BY DEF IInv, ContactInv, News, JobInv
<1> QED
  BY <1>1, InvariantHolds, PTL

\* A segment shows its number of members, unless something has happened that the code
\* does not count: whichever requests, imports and webhooks ran side by side.
THEOREM LengthAlwaysExact == CustomersSpec => []LengthExact
<1>1. IInv => LengthExact
  BY DEF IInv, ContactInv
<1> QED
  BY <1>1, InvariantHolds, PTL

\* Who opted out, by the link in a message or by leaving the shop, is not subscribed
\* again by a request that does not say so.
THEOREM SilencedAlwaysSilent == CustomersSpec => []SilencedStaysSilent
<1>1. IInv => SilencedStaysSilent
  BY DEF IInv, ContactInv
<1> QED
  BY <1>1, InvariantHolds, PTL

\* The contact of a link has the phone of the link, unless the contact got its phone from
\* elsewhere, or another handler or an opt-out wrote between a handler's reads and saves.
THEOREM LinkAlwaysAgrees == CustomersSpec => []LinkAgrees
<1>1. IInv => LinkAgrees
  BY DEF IInv
<1> QED
  BY <1>1, InvariantHolds, PTL

\* When all its webhooks are answered, a customer has the link Shopify's state calls for.
THEOREM SettledAlwaysLinked == CustomersSpec => []SettledMeansLinked
<1>1. IInv => SettledMeansLinked
  BY DEF IInv, News
<1> QED
  BY <1>1, InvariantHolds, PTL
=============================================================================
