---------------------------- MODULE GlobalNumbering ----------------------------
(***************************************************************************)
(* The GLOBAL numbering regime of shared/numbering.py: one sequence per    *)
(* year for the whole municipality.  Whoever inserts a row holds the       *)
(* advisory lock 888888: reserve_number, reserve_citizen_number,           *)
(* _generate_confirmed_number (covers, transfers) and the job that fills   *)
(* gaps with test documents (TST).  Whoever confirms, cancels or rejects a *)
(* reservation does not.  Under READ COMMITTED each statement of a         *)
(* reservation has its own snapshot: the search for a CANCELLED number and *)
(* the MAX of the live ones are two steps.                                 *)
(*                                                                         *)
(* The table has a unique index on global numbers; its definition is not   *)
(* in this repository, so the statuses it covers are a parameter.          *)
(***************************************************************************)
EXTENDS Naturals

CONSTANTS Docs,        \* documents signed by users
          Citizens,    \* documents signed by a citizen
          Automatic,   \* covers and transfers: inserted CONFIRMED
          Tests,       \* ids for TST documents
          NoDoc,       \* nobody
          Indexed,     \* external: statuses under the unique index
          MaxSeq,      \* bound: numbers of the year
          MaxClock     \* bound: rows inserted in one behaviour

Live == {"RESERVED", "CONFIRMING", "CONFIRMED"}
Drafts == Docs \union Citizens \union Automatic
All == Drafts \union Tests

ASSUME DistinctAssumption ==
  /\ NoDoc \notin All
  /\ Docs \intersect Citizens = {} /\ Docs \intersect Automatic = {}
  /\ Citizens \intersect Automatic = {} /\ Drafts \intersect Tests = {}
ASSUME BoundAssumption == MaxSeq \in Nat /\ MaxClock \in Nat
ASSUME IndexAssumption == Indexed \in SUBSET (Live \union {"CANCELLED"}) /\ Live \subseteq Indexed

VARIABLES rows,        \* official_documents, by document id
          rejecting,   \* documents whose row a rejection has locked
          holder,      \* the reservation that holds the advisory lock
          gap,         \* what the TST job remembers of a CANCELLED row
          clock        \* NOW(), as a count of insertions

vars == <<rows, rejecting, holder, gap, clock>>

NoRow == [st |-> "NONE", seq |-> 0, at |-> 0]
Row == [st : Live \union {"CANCELLED"}, seq : 1 .. MaxSeq, at : Nat]

\* A reservation that found nothing to recycle; seq is 0 until it has read
\* MAX.
Idle == [doc |-> NoDoc, seq |-> 0]

TypeOK == /\ rows \in [All -> Row \union {NoRow}]
          /\ rejecting \in SUBSET Drafts
          /\ holder \in [doc : Drafts \union {NoDoc}, seq : 0 .. MaxSeq]
          /\ gap \in [doc : All \union {NoDoc}, seq : 0 .. MaxSeq]
          /\ clock \in Nat

Init == /\ rows = [d \in All |-> NoRow]
        /\ rejecting = {}
        /\ holder = Idle
        /\ gap = Idle
        /\ clock = 0

-----------------------------------------------------------------------------
(* reserve_number, reserve_citizen_number, _generate_confirmed_number *)

HasRow(d) == rows[d].st # "NONE"

\* The rows _next_global_sequence may recycle for d: CANCELLED and not locked.
\* The document's own reservation is among them when it is older than
\* GLOBAL_NUMBERING_TIMEOUT_MIN, because the same transaction cancels it; a
\* younger one is answered as it is, and nothing happens.
Recyclable(d) == {r \in All : /\ r \notin rejecting
                              /\ \/ rows[r].st = "CANCELLED"
                                 \/ r = d /\ rows[r].st = "RESERVED"}

Oldest(S, r) == r \in S /\ \A q \in S : rows[r].at <= rows[q].at

\* DELETE ... WHERE id = d AND reservation_status = 'CANCELLED'; a rejection
\* that has the row locked makes it wait.
AnyOwnRowGivesWay(d) == d \notin rejecting
OwnRowGivesWay(d) == /\ rows[d].st \in {"NONE", "CANCELLED", "RESERVED"}
                     /\ d \notin rejecting

\* The unique index lets a row with number n in when no other row that stays
\* and that it covers carries n.
IndexAllows(n, gone) ==
  \A e \in All \ gone : rows[e].st \in Indexed => rows[e].seq # n

Insert(d, st, n, gone) ==
  /\ clock < MaxClock
  /\ IndexAllows(n, gone \union {d})
  /\ rows' = [x \in All |-> IF x = d THEN [st |-> st, seq |-> n, at |-> clock]
                            ELSE IF x \in gone THEN NoRow ELSE rows[x]]
  /\ clock' = clock + 1

NewStatus(d) == IF d \in Automatic THEN "CONFIRMED" ELSE "RESERVED"

\* Only reserve_number deletes a CANCELLED row of its own document: a citizen
\* whose row is not the one recycled, or a cover that exists, fails on the
\* primary key.
PrimaryKeyAllows(d, r) == d \notin Docs => (d = r \/ ~HasRow(d))

ReserveRecycled(d) ==
  /\ holder = Idle
  /\ OwnRowGivesWay(d)
  /\ \E r \in All : /\ Oldest(Recyclable(d), r)
                    /\ PrimaryKeyAllows(d, r)
                    /\ Insert(d, NewStatus(d), rows[r].seq, {r})
  /\ UNCHANGED <<rejecting, holder, gap>>

\* reserve_number for a document past RESERVED: the INSERT fails on the
\* primary key, the savepoint rolls back, the row that was there is returned.
\* The recycled row stays deleted.
ReserveClash(d) ==
  /\ holder = Idle
  /\ d \in Docs
  /\ rows[d].st \in {"CONFIRMING", "CONFIRMED"}
  /\ \E r \in All : /\ Oldest(Recyclable(d), r)
                    /\ rows' = [rows EXCEPT ![r] = NoRow]
  /\ UNCHANGED <<rejecting, holder, gap, clock>>

\* Nothing to recycle: the transaction goes on, with the lock.
ReserveLook(d) ==
  /\ holder = Idle
  /\ rows[d].st \in {"NONE", "CANCELLED"}
  /\ Recyclable(d) = {}
  /\ holder' = [doc |-> d, seq |-> 0]
  /\ UNCHANGED <<rows, rejecting, gap, clock>>

\* COALESCE(MAX(global_sequence), 0) + 1 over the live rows.
ReadsMax(n) == n = 0 \/ \E e \in All : rows[e].st \in Live /\ rows[e].seq = n
MaxPlusOne(n) == /\ ReadsMax(n - 1)
                 /\ \A e \in All : rows[e].st \in Live => rows[e].seq < n

ReserveMax ==
  /\ holder # Idle /\ holder.seq = 0
  /\ \E n \in 1 .. MaxSeq : MaxPlusOne(n) /\ holder' = [holder EXCEPT !.seq = n]
  /\ UNCHANGED <<rows, rejecting, gap, clock>>

ReserveNext ==
  /\ holder.seq # 0
  /\ OwnRowGivesWay(holder.doc)
  /\ PrimaryKeyAllows(holder.doc, NoDoc)
  /\ Insert(holder.doc, NewStatus(holder.doc), holder.seq, {})
  /\ holder' = Idle
  /\ UNCHANGED <<rejecting, gap>>

\* A constraint refuses the row, or the connection is lost: the transaction
\* rolls back.
ReserveFails == /\ holder # Idle
                /\ holder' = Idle
                /\ UNCHANGED <<rows, rejecting, gap, clock>>

-----------------------------------------------------------------------------
(* confirm_number, finalize_number, cancel_number, reject_document *)

Move(d, from, to) == /\ d \notin rejecting
                     /\ rows[d].st \in from
                     /\ rows' = [rows EXCEPT ![d].st = to]
                     /\ UNCHANGED <<rejecting, holder, gap, clock>>

Confirm(d) == d \notin Tests /\ Move(d, {"RESERVED"}, "CONFIRMING")

Finalize(d) == Move(d, {"CONFIRMING"}, "CONFIRMED")

\* The signer's error paths and the sweeper's orphans; CONFIRMING only for an
\* orphan of a digital signature.
Cancel(d) == Move(d, IF d \in Docs THEN {"RESERVED", "CONFIRMING"}
                                   ELSE {"RESERVED"}, "CANCELLED")

\* SELECT ... FOR UPDATE; CONFIRMING and CONFIRMED raise an error.
RejectBegin(d) == /\ d \notin rejecting
                  /\ rows[d].st \in {"RESERVED", "CANCELLED"}
                  /\ rejecting' = rejecting \union {d}
                  /\ UNCHANGED <<rows, holder, gap, clock>>

RejectCommit(d) == /\ d \in rejecting
                   /\ rows' = [rows EXCEPT ![d].st = "CANCELLED"]
                   /\ rejecting' = rejecting \ {d}
                   /\ UNCHANGED <<holder, gap, clock>>

-----------------------------------------------------------------------------
(* fill_number_gaps_tst and create_tst_document_signed_by_system *)

FindGap(r) == /\ gap = Idle
              /\ rows[r].st = "CANCELLED"
              /\ \A e \in All : rows[e].st \in Live => rows[e].seq # rows[r].seq
              /\ gap' = [doc |-> r, seq |-> rows[r].seq]
              /\ UNCHANGED <<rows, rejecting, holder, clock>>

\* DELETE of the remembered id if it is CANCELLED, INSERT of the remembered
\* number.
StillCancelled(r) == rows[r].st = "CANCELLED"

TstClaim(t) == /\ gap # Idle
               /\ holder = Idle
               /\ gap.doc \notin rejecting
               /\ StillCancelled(gap.doc)
               /\ ~HasRow(t)
               /\ Insert(t, "RESERVED", gap.seq, {gap.doc})
               /\ gap' = Idle
               /\ UNCHANGED <<rejecting, holder>>

\* The recycling won, or a constraint refused the row, or the job stopped.
TstGivesUp == /\ gap # Idle
              /\ gap' = Idle
              /\ UNCHANGED <<rows, rejecting, holder, clock>>

TstFinish(t) == Move(t, {"RESERVED"}, "CONFIRMED")

-----------------------------------------------------------------------------
Next == \/ \E d \in Drafts : \/ ReserveRecycled(d) \/ ReserveClash(d)
                             \/ ReserveLook(d)
                             \/ Confirm(d) \/ Finalize(d)
                             \/ RejectBegin(d) \/ RejectCommit(d)
        \/ ReserveMax \/ ReserveNext \/ ReserveFails
        \/ \E d \in All : Cancel(d) \/ FindGap(d)
        \/ \E t \in Tests : TstClaim(t) \/ TstFinish(t)
        \/ TstGivesUp

Spec == Init /\ [][Next]_vars

-----------------------------------------------------------------------------
(* Properties *)

\* The GLOBAL regime implements the registry of numbers.
Registry == INSTANCE NumberRegistry WITH
  Docs    <- All,
  Numbers <- 1 .. MaxSeq,
  held    <- {<<d, rows[d].seq>> : d \in {x \in All : rows[x].st \in Live}},
  sealed  <- {<<d, rows[d].seq>> : d \in {x \in All : rows[x].st = "CONFIRMED"}}

ImplementsRegistry == Registry!Spec
=============================================================================
