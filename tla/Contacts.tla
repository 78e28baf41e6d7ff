------------------------------ MODULE Contacts ------------------------------
(***************************************************************************)
(* The contacts and segments of one user (ContactService and               *)
(* ContactListService in apps/contacts).  A segment stores its number of   *)
(* members, and the code refreshes it by counting and saving.              *)
(*                                                                         *)
(* The web workers run requests side by side.  A view, get_or_create and   *)
(* an opt-out read their contact without a lock and save it later: a save  *)
(* without update_fields writes every column of the copy that was read,    *)
(* and inserts the row again when it is gone.  create_contact and          *)
(* update_contact are transactions whose writes show at the commit, while  *)
(* their counts are older.  A transaction holds the rows it has saved:     *)
(* whoever wants them waits.                                               *)
(***************************************************************************)
EXTENDS Integers, FiniteSets

CONSTANTS
  Contact,           \* primary keys a contact may get
  Phone, NoPhone,
  Segment,
  Worker,            \* web workers
  None,
  Writes,            \* statuses a client may write through the contact API
  Lengths,           \* lengths a client may write through the segment API
  MaxRequests        \* requests, and changes from outside, in all

Status == {"subscribed", "opted_out", "unsubscribed"}
ContactRow == [phone : Phone \cup {NoPhone}, status : Status]

ASSUME ContactsAssumption ==
  /\ NoPhone \notin Phone
  /\ None \notin Contact \cup Phone \cup Segment \cup Status \cup {NoPhone} \cup ContactRow
  /\ Writes \subseteq Status /\ Lengths \subseteq Nat /\ None \notin Nat
  /\ MaxRequests \in Nat
  /\ IsFiniteSet(Contact)                          \* a database has finitely many rows

VARIABLES
  contact,           \* Contact rows, by key
  born,              \* keys that were given out; none is given out twice
  member,            \* SegmentMembership rows
  list,              \* ContactList rows, by key
  stored,            \* ContactList.contact_lenght
  request,           \* what a web worker does
  requests,          \* how many there were
  drifted,           \* observer: lengths that something may have made wrong
  renumbered,        \* observer: contacts whose phone was changed from two sides
  silenced           \* observer: contacts that opted out, until someone subscribes them

tables == <<contact, born, member, list, stored>>
contactState == <<tables, request, drifted, renumbered, silenced>>
contactVars == <<contactState, requests>>

Idle == [pc |-> "idle", key |-> None, row |-> None, given |-> FALSE, join |-> {}, segs |-> {},
         counts |-> <<>>, aged |-> {}, late |-> FALSE, holds |-> {}, taken |-> {}]

Init ==
  /\ contact = [c \in Contact |-> None]
  /\ member = {}
  /\ list \in SUBSET Segment
  /\ born = list
  /\ stored = [g \in Segment |-> None]
  /\ request = [w \in Worker |-> Idle]
  /\ requests = 0
  /\ drifted = {} /\ renumbered = {} /\ silenced = {}

-----------------------------------------------------------------------------
(* Rows and locks                                                          *)

Rows == {c \in Contact : contact[c] # None}
WithPhone(p) == {c \in Rows : contact[c].phone = p}
Members(g) == {c \in Contact : <<g, c>> \in member}
SegmentsOf(c) == {g \in Segment : <<g, c>> \in member}

\* A transaction that has not committed yet holds its contacts, their new phones and
\* its segments.
HeldContact(c) == \E w \in Worker : c \in request[w].holds
HeldPhone(p) == \E w \in Worker : p \in request[w].taken
HeldSegment(g) == \E w \in Worker : request[w].pc = "commit" /\ g \in DOMAIN request[w].counts

Count == requests < MaxRequests /\ requests' = requests + 1

\* What was counted or read of the length of the segments G before is old now.
Aged(r, G) == [r EXCEPT !.aged = @ \cup (G \cap DOMAIN r.counts)]

\* Worker w goes on as r, having changed the segments G.
Continue(w, r, G) ==
  request' = [v \in Worker |-> IF v = w THEN r ELSE Aged(request[v], G)]

-----------------------------------------------------------------------------
(* ContactService                                                          *)

\* The memberships of c after segment_ids G.
Joined(c, G) == {<<g, c>> : g \in G}

\* Fault: the memberships are counted before they are created.
LengthsBeforeJoining(c, G) == [g \in G |-> Cardinality(Members(g))]

\* _refresh_segment_lengths counts what is committed, and its own memberships.
LengthsWith(c, G) == [g \in G |-> Cardinality(Members(g) \cup {c})]

\* Fault: an existing contact gets the default of a new one.
StatusOfNew(c, status) == IF status # None THEN status ELSE "subscribed"

\* The status create_contact leaves: the one given, or what the contact has.
StatusAfter(c, status) ==
  IF status # None THEN status ELSE IF c \in Rows THEN contact[c].status ELSE "subscribed"

\* The last save but the commit: the row, the memberships and the lengths.
Saved(r, G) ==
  [r EXCEPT !.pc = "commit", !.aged = {}, !.counts = LengthsWith(r.key, G),
            !.holds = {r.key}, !.taken = {r.row.phone}]

\* create_contact: get_or_create inserts a contact, or reads the one with this phone.
CreateContact(w, c, p, status, G) ==
  LET r == [Idle EXCEPT !.pc = "update", !.key = c, !.given = status # None, !.join = G,
                        !.row = [phone |-> p, status |-> StatusAfter(c, status)]] IN
  /\ request[w].pc = "idle" /\ Count
  /\ G \subseteq list
  /\ \/ /\ WithPhone(p) = {} /\ ~HeldPhone(p) /\ c \notin born
        /\ Continue(w, Saved(r, G), {})
        /\ born' = born \cup {c}
     \/ /\ c \in WithPhone(p)
        /\ Continue(w, r, {})
        /\ UNCHANGED born
  /\ UNCHANGED <<contact, member, list, stored, drifted, renumbered, silenced>>

\* ContactViewSet.update reads the contact (G is empty, or holds the segment_ids).
OpenContact(w, c, p, status, G) ==
  /\ request[w].pc = "idle" /\ Count
  /\ c \in Rows
  /\ Continue(w, [Idle EXCEPT !.pc = "update", !.key = c, !.given = status # None,
                    !.join = UNION G, !.segs = G,
                    !.row = [phone |-> IF p = None THEN contact[c].phone ELSE p,
                             status |-> IF status = None THEN contact[c].status ELSE status]],
              {})
  /\ UNCHANGED <<tables, drifted, renumbered, silenced>>

\* create_contact and update_contact save the copy they have, and count; a phone that is
\* taken or a segment that is gone by now is an error.
SaveContact(w) ==
  LET r == request[w] IN
  /\ r.pc = "update"
  /\ ~HeldContact(r.key) /\ ~HeldPhone(r.row.phone)
  /\ IF r.join \subseteq list /\ WithPhone(r.row.phone) \subseteq {r.key}
       THEN Continue(w, Saved(r, r.join), {})
       ELSE Continue(w, Idle, {})
  /\ UNCHANGED <<tables, requests, drifted, renumbered, silenced>>

\* What the save of a whole row may change without meaning to.
RenumberedBy(r) ==
  IF r.key \in Rows /\ contact[r.key].phone = r.row.phone THEN renumbered
                                                         ELSE renumbered \cup {r.key}

\* The commit of either.  A length is right if it was counted from what is there
\* now; the segments an update takes the contact out of are not counted at all.
Commit(w) ==
  LET r == request[w]  c == r.key  G == DOMAIN r.counts
      left == UNION {SegmentsOf(c) \ H : H \in r.segs} IN
  /\ r.pc = "commit"
  /\ contact' = [contact EXCEPT ![c] = r.row]
  /\ member' = (member \ Joined(c, left)) \cup Joined(c, G)
  /\ stored' = [g \in Segment |-> IF g \in G THEN r.counts[g] ELSE stored[g]]
  /\ drifted' = ((drifted \ G) \cup (r.aged \cap G)) \cup left
  /\ renumbered' = RenumberedBy(r)
  /\ silenced' = IF r.given \/ r.late THEN silenced \ {c} ELSE silenced
  /\ Continue(w, Idle, G \cup left)
  /\ UNCHANGED <<born, list, requests>>

\* delete_contact: the memberships go with the contact; the queryset of its
\* segments is evaluated after that, finds none, and no length is refreshed.
DeleteContact(c) ==
  /\ Count
  /\ c \in Rows /\ ~HeldContact(c)
  /\ contact' = [contact EXCEPT ![c] = None]
  /\ member' = {m \in member : m[2] # c}
  /\ drifted' = drifted \cup SegmentsOf(c)
  /\ silenced' = silenced \ {c}
  /\ request' = [v \in Worker |-> Aged(request[v], SegmentsOf(c))]
  /\ UNCHANGED <<born, list, stored, renumbered>>

\* A copy of c that is under way holds the status of before.
Late(r, c) == IF r.pc = "update" /\ r.key = c THEN [r EXCEPT !.late = TRUE] ELSE r

\* optout_sms_recipient reads the contact of a message ...
OpenOptOut(w, c) ==
  /\ request[w].pc = "idle" /\ Count
  /\ c \in Rows
  /\ Continue(w, [Idle EXCEPT !.pc = "optout", !.key = c,
                    !.row = [contact[c] EXCEPT !.status = "unsubscribed"]], {})
  /\ UNCHANGED <<tables, drifted, renumbered, silenced>>

\* ... and saves all of it, an old phone too, unless that is another contact's by now.
SaveOptOut(w) ==
  LET r == request[w]  c == r.key IN
  /\ r.pc = "optout"
  /\ ~HeldContact(c) /\ ~HeldPhone(r.row.phone)
  /\ IF WithPhone(r.row.phone) \subseteq {c}
       THEN /\ contact' = [contact EXCEPT ![c] = r.row]
            /\ renumbered' = RenumberedBy(r)
            /\ silenced' = silenced \cup {c}
            /\ request' = [v \in Worker |-> IF v = w THEN Idle ELSE Late(request[v], c)]
       ELSE /\ Continue(w, Idle, {})
            /\ UNCHANGED <<contact, renumbered, silenced>>
  /\ UNCHANGED <<born, member, list, stored, requests, drifted>>

-----------------------------------------------------------------------------
(* ContactListService                                                      *)

\* remove_contact_membership, which is no transaction: it deletes and counts ...
RemoveMember(w, g, c) ==
  /\ request[w].pc = "idle" /\ Count
  /\ <<g, c>> \in member
  /\ member' = member \ {<<g, c>>}
  /\ drifted' = drifted \cup {g}
  /\ Continue(w, [Idle EXCEPT !.pc = "length", !.key = g,
                    !.counts = [x \in {g} |-> Cardinality(Members(g) \ {c})]], {g})
  /\ UNCHANGED <<contact, born, list, stored, renumbered, silenced>>

\* ... and saves the length; the save fails when the segment is gone.
SaveLength(w) ==
  LET r == request[w] IN
  /\ r.pc = "length"
  /\ ~HeldSegment(r.key)
  /\ IF r.key \in list
       THEN /\ stored' = [stored EXCEPT ![r.key] = r.counts[r.key]]
            /\ drifted' = IF r.key \in r.aged THEN drifted \cup {r.key} ELSE drifted \ {r.key}
            /\ Continue(w, Idle, {r.key})
       ELSE /\ UNCHANGED <<stored, drifted>>
            /\ Continue(w, Idle, {})
  /\ UNCHANGED <<contact, born, member, list, requests, renumbered, silenced>>

\* create_contact_list.
CreateSegment(g, length) ==
  /\ Count
  /\ g \notin born
  /\ list' = list \cup {g} /\ born' = born \cup {g}
  /\ stored' = [stored EXCEPT ![g] = length]
  /\ drifted' = IF length = None THEN drifted ELSE drifted \cup {g}
  /\ UNCHANGED <<contact, member, request, renumbered, silenced>>

\* ContactListViewSet.update reads the segment ...
OpenSegment(w, g, length) ==
  /\ request[w].pc = "idle" /\ Count
  /\ g \in list
  /\ Continue(w, [Idle EXCEPT !.pc = "segment", !.key = g, !.given = length # None,
                    !.counts = [x \in {g} |-> IF length = None THEN stored[g] ELSE length]], {})
  /\ UNCHANGED <<tables, drifted, renumbered, silenced>>

\* ... and update_contact_list saves all of it, the length included.
SaveSegment(w) ==
  LET r == request[w] IN
  /\ r.pc = "segment"
  /\ ~HeldSegment(r.key)
  /\ list' = list \cup {r.key}
  /\ stored' = [stored EXCEPT ![r.key] = r.counts[r.key]]
  /\ drifted' = IF r.given \/ r.key \in r.aged THEN drifted \cup {r.key} ELSE drifted
  /\ Continue(w, Idle, {r.key})
  /\ UNCHANGED <<contact, born, member, requests, renumbered, silenced>>

\* delete_contact_list: the memberships go with the segment.
DeleteSegment(g) ==
  /\ Count
  /\ g \in list /\ ~HeldSegment(g)
  /\ list' = list \ {g}
  /\ member' = {m \in member : m[1] # g}
  /\ request' = [v \in Worker |-> Aged(request[v], {g})]
  /\ UNCHANGED <<contact, born, stored, drifted, renumbered, silenced>>

\* A worker dies: its transaction is rolled back.
RequestDies(w) ==
  /\ request[w].pc # "idle" /\ Count
  /\ request' = [request EXCEPT ![w] = Idle]
  /\ UNCHANGED <<tables, drifted, renumbered, silenced>>

-----------------------------------------------------------------------------
\* What a request of worker w does.
ContactRequest(w) ==
  \/ \E c \in Contact, p \in Phone, status \in Writes \cup {None}, G \in SUBSET Segment :
       CreateContact(w, c, p, status, G)
  \/ \E c \in Contact, p \in Phone \cup {None}, status \in Writes \cup {None},
        G \in {{}} \cup {{H} : H \in SUBSET Segment} : OpenContact(w, c, p, status, G)
  \/ SaveContact(w) \/ Commit(w)
  \/ (\E c \in Contact : OpenOptOut(w, c)) \/ SaveOptOut(w)
  \/ \E g \in Segment, c \in Contact : RemoveMember(w, g, c)
  \/ SaveLength(w)
  \/ \E g \in Segment, length \in Lengths \cup {None} : OpenSegment(w, g, length)
  \/ SaveSegment(w) \/ RequestDies(w)

ContactNext ==
  \/ \E w \in Worker : ContactRequest(w)
  \/ \E c \in Contact : DeleteContact(c)
  \/ \E g \in Segment : DeleteSegment(g) \/ \E length \in Lengths \cup {None} : CreateSegment(g, length)

Spec == Init /\ [][ContactNext]_contactVars

-----------------------------------------------------------------------------
(* Properties *)

Size(g) == Cardinality(Members(g))
Shown(g) == IF stored[g] = None THEN 0 ELSE stored[g]

\* The length a segment shows is its number of members, whenever no request is
\* between its count and its save, unless something the code does not count has
\* touched it since the last count: a contact that was deleted or moved away, a
\* length the client sent, a rename that wrote an old length back, a request that
\* died, or two requests that counted at the same time.
LengthExact ==
  \A g \in list \ drifted : Shown(g) = Size(g)

\* Who opted out is not written to: nothing subscribes the contact again but a
\* request that says so, or the save of a copy that was read before the opt-out.
SilencedStaysSilent ==
  \A c \in silenced : contact[c].status # "subscribed"
=============================================================================
