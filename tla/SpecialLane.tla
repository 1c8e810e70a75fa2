----------------------------- MODULE SpecialLane -----------------------------
(***************************************************************************)
(* The SPECIAL numbering regime of shared/numbering.py: every triple (type,*)
(* department, year), a lane, has a row in document_number_counters with   *)
(* its last number and the reservation that occupies it.                   *)
(*                                                                         *)
(* reserve_number locks the counter row with its first statement and keeps *)
(* it until it commits, so reservations of one lane are serial and one     *)
(* action each.  confirm_number, cancel_number and reject_document do not  *)
(* take that lock first: they are transactions of two steps, the update of *)
(* their own row (and the count of live siblings of its batch), and the    *)
(* commit, which releases the lane.  Until the commit everybody else reads *)
(* the old row.                                                            *)
(***************************************************************************)
EXTENDS Naturals

CONSTANTS Docs,        \* document ids
          Lanes,       \* triples (document type, department, year)
          Users,       \* numerators
          Batches,     \* batch ids of digital signing sessions
          NoDoc, NoLane, NoUser, NoBatch,   \* SQL NULLs
          MaxNumber,   \* bound: numbers a lane may issue
          MaxClock     \* bound: reservations made in one behaviour

ASSUME NullAssumption == /\ NoDoc \notin Docs
                         /\ NoBatch \notin Batches
ASSUME BoundAssumption == MaxNumber \in Nat /\ MaxClock \in Nat

VARIABLES rows,        \* official_documents, by document id
          counters,    \* document_number_counters, by lane
          tx,          \* the open transaction on a document's row
          clock        \* NOW(), as a count of reservations

vars == <<rows, counters, tx, clock>>

Live == {"RESERVED", "CONFIRMING", "CONFIRMED"}

NoRow == [st |-> "NONE", lane |-> NoLane, num |-> 0, user |-> NoUser,
          batch |-> NoBatch, at |-> 0]

Row == [st : Live \union {"CANCELLED"}, lane : Lanes, num : Nat,
        user : Users, batch : Batches \union {NoBatch}, at : Nat]

Counter == [last : Nat, active : Docs \union {NoDoc},
            batch : Batches \union {NoBatch}]

\* op: the statement the transaction has executed; shared: what its COUNT(*)
\* of live siblings said.
Tx == [op : {"none", "confirm", "cancel", "reject"}, shared : BOOLEAN]
NoTx == [op |-> "none", shared |-> FALSE]

TypeOK == /\ rows \in [Docs -> Row \union {NoRow}]
          /\ counters \in [Lanes -> Counter]
          /\ tx \in [Docs -> Tx]
          /\ clock \in Nat

Init == /\ rows = [d \in Docs |-> NoRow]
        /\ counters = [l \in Lanes |->
                         [last |-> 0, active |-> NoDoc, batch |-> NoBatch]]
        /\ tx = [d \in Docs |-> NoTx]
        /\ clock = 0

-----------------------------------------------------------------------------
(* reserve_number *)

\* _misma_tanda_y_mismo_usuario
SameBatchAndUser(l, u, b) == /\ b # NoBatch
                             /\ counters[l].batch = b
                             /\ rows[counters[l].active].user = u

\* The occupant of the lane is another document that is still RESERVED and
\* does not belong to the same batch and user: SpecialLaneBusyError.  A retry
\* of the occupant itself is answered with its own reservation and changes
\* nothing either.
LaneTaken(l, u, b) ==
  LET a == counters[l].active IN
  /\ a # NoDoc
  /\ rows[a].st = "RESERVED"
  /\ ~SameBatchAndUser(l, u, b)

Retry(d, l) == counters[l].active = d /\ rows[d].st = "RESERVED"

MayReserve(d, l, u, b) == /\ ~Retry(d, l)
                          /\ ~LaneTaken(l, u, b)
                          /\ clock < MaxClock

\* CANCELLED rows of the lane that FOR UPDATE SKIP LOCKED does not skip.
Recyclable(l) == {r \in Docs : /\ rows[r].st = "CANCELLED"
                               /\ rows[r].lane = l
                               /\ tx[r].op = "none"}

Oldest(S, r) == r \in S /\ \A q \in S : rows[r].at <= rows[q].at

\* last_number = GREATEST(last_number, %s)
Overwritten(last, n) == n
Greatest(last, n) == IF n > last THEN n ELSE last

\* DELETE of the rows in gone, INSERT of d, UPDATE of the counter.
Insert(d, l, u, b, n, gone) ==
  /\ rows' = [x \in Docs |->
                IF x = d
                THEN [st |-> "RESERVED", lane |-> l, num |-> n, user |-> u,
                      batch |-> b, at |-> clock]
                ELSE IF x \in gone THEN NoRow ELSE rows[x]]
  /\ counters' = [counters EXCEPT ![l] =
                    [last |-> Greatest(counters[l].last, n),
                     active |-> d, batch |-> b]]
  /\ clock' = clock + 1
  /\ UNCHANGED tx

\* The reservation deletes a CANCELLED row of its own document, whatever its
\* number: that waits for a rejection that has the row locked.
AnyOwnRowGivesWay(d) == tx[d].op = "none"
OwnRowGivesWay(d) == /\ rows[d].st \in {"NONE", "CANCELLED"}
                     /\ tx[d].op = "none"

ReserveRecycled(d, l, u, b) ==
  /\ MayReserve(d, l, u, b)
  /\ OwnRowGivesWay(d)
  /\ \E r \in Docs : /\ Oldest(Recyclable(l), r)
                     /\ Insert(d, l, u, b, rows[r].num, {r})

ReserveNext(d, l, u, b) ==
  /\ MayReserve(d, l, u, b)
  /\ OwnRowGivesWay(d)
  /\ Recyclable(l) = {}
  /\ counters[l].last < MaxNumber
  /\ Insert(d, l, u, b, counters[l].last + 1, {})

\* The document already has a live row (a sibling of the batch is the
\* occupant, or the row belongs to another lane): the INSERT fails on the
\* primary key, the savepoint rolls back and the existing reservation is
\* returned.  The row recycled before the savepoint stays deleted.
ReserveClash(d, l, u, b) ==
  /\ MayReserve(d, l, u, b)
  /\ rows[d].st \in Live
  /\ \E r \in Docs : /\ Oldest(Recyclable(l), r)
                     /\ rows' = [rows EXCEPT ![r] = NoRow]
  /\ clock' = clock + 1
  /\ UNCHANGED <<counters, tx>>

-----------------------------------------------------------------------------
(* confirm_number, finalize_number, cancel_number, reject_document *)

\* _liberar_carril_special, first half: live siblings of the batch.
LiveSiblings(d) == /\ rows[d].batch # NoBatch
                   /\ \E e \in Docs \ {d} : /\ rows[e].batch = rows[d].batch
                                            /\ rows[e].st = "RESERVED"

\* UPDATE ... WHERE reservation_status IN from: the row is locked.
Begin(d, op, from) ==
  /\ tx[d].op = "none"
  /\ rows[d].st \in from
  /\ tx' = [tx EXCEPT ![d] = [op |-> op, shared |-> LiveSiblings(d)]]
  /\ UNCHANGED <<rows, counters, clock>>

ConfirmBegin(d) == Begin(d, "confirm", {"RESERVED"})

\* from_states is RESERVED, and also CONFIRMING when the sweeper resolves a
\* digital orphan.
CancelBegin(d) == Begin(d, "cancel", {"RESERVED", "CONFIRMING"})

\* SELECT ... FOR UPDATE; CONFIRMING and CONFIRMED raise an error.
RejectBegin(d) == Begin(d, "reject", {"RESERVED", "CANCELLED"})

ClearedCounter(l) == [counters[l] EXCEPT !.active = NoDoc, !.batch = NoBatch]

\* _liberar_carril_special, second half: the UPDATE matches the occupant or
\* the batch that occupies the lane when it runs.
AnyOccupant(d, c) == TRUE
Occupies(d, c) == \/ c.active = d
                  \/ rows[d].batch # NoBatch /\ c.batch = rows[d].batch

Release(d) ==
  LET l == rows[d].lane
      c == counters[l]
  IN  counters' = [counters EXCEPT ![l] =
                     IF Occupies(d, c) /\ ~tx[d].shared THEN ClearedCounter(l) ELSE c]

Commit(d, op, st) ==
  /\ tx[d].op = op
  /\ rows' = [rows EXCEPT ![d].st = st]
  /\ tx' = [tx EXCEPT ![d] = NoTx]
  /\ UNCHANGED clock

ConfirmCommit(d) == Commit(d, "confirm", "CONFIRMING") /\ Release(d)

CancelCommit(d) == Commit(d, "cancel", "CANCELLED") /\ Release(d)

\* reject_document clears the occupant only, and only for a RESERVED row; the
\* batch of the counter stays.
RejectCommit(d) ==
  LET l == rows[d].lane IN
  /\ Commit(d, "reject", "CANCELLED")
  /\ counters' = [counters EXCEPT ![l].active =
                    IF rows[d].st = "RESERVED" /\ @ = d THEN NoDoc ELSE @]

Finalize(d) == /\ tx[d].op = "none"
               /\ rows[d].st = "CONFIRMING"
               /\ rows' = [rows EXCEPT ![d].st = "CONFIRMED"]
               /\ UNCHANGED <<counters, tx, clock>>

-----------------------------------------------------------------------------
Reserve(d) == \E l \in Lanes, u \in Users, b \in Batches \union {NoBatch} :
                 \/ ReserveRecycled(d, l, u, b)
                 \/ ReserveNext(d, l, u, b)
                 \/ ReserveClash(d, l, u, b)

Next == \E d \in Docs :
          \/ Reserve(d)
          \/ ConfirmBegin(d) \/ ConfirmCommit(d)
          \/ CancelBegin(d)  \/ CancelCommit(d)
          \/ RejectBegin(d)  \/ RejectCommit(d)
          \/ Finalize(d)

Spec == Init /\ [][Next]_vars

-----------------------------------------------------------------------------
(* Properties *)

\* An open transaction on a row holds the row's lock: the status it was begun
\* on is still there when it commits.
LockedRowKeepsItsStatus ==
  \A d \in Docs :
    /\ tx[d].op = "confirm" => rows[d].st = "RESERVED"
    /\ tx[d].op = "cancel"  => rows[d].st \in {"RESERVED", "CONFIRMING"}
    /\ tx[d].op = "reject"  => rows[d].st \in {"RESERVED", "CANCELLED"}

HasRow(d) == rows[d].st # "NONE"

\* Two rows of one lane never carry the same number, not even when one of
\* them is CANCELLED and waits to be recycled: reserve_number computes a
\* number from what it reads while confirmations, cancellations and
\* rejections that do not hold the counter commit around it.
UniqueNumbers ==
  \A d, e \in Docs :
    (d # e /\ HasRow(d) /\ HasRow(e) /\ rows[d].lane = rows[e].lane)
      => rows[d].num # rows[e].num

\* The counter never runs behind a number that is on file (the GREATEST of
\* the counter UPDATE), so last_number + 1 is always new.
CounterCoversRows ==
  /\ \A l \in Lanes : counters[l].last <= MaxNumber
  /\ \A d \in Docs : HasRow(d) => rows[d].num \in 1 .. counters[rows[d].lane].last

\* A reservation made outside a batch occupies its lane alone until it is
\* confirmed, cancelled or rejected: nothing that ends another reservation
\* or a batch of the same lane clears its mark.
LoneReservationOwnsItsLane ==
  \A d \in Docs :
    (rows[d].st = "RESERVED" /\ rows[d].batch = NoBatch)
      => /\ counters[rows[d].lane].active = d
         /\ counters[rows[d].lane].batch = NoBatch

\* A CONFIRMED row is final: no retry, recycling, cancellation or rejection,
\* however it interleaves, changes or deletes it.
ConfirmedIsFinal ==
  [][\A d \in Docs : rows[d].st = "CONFIRMED" => rows'[d] = rows[d]]_vars

\* The lane implements the registry of numbers: documents with a live row
\* hold the pair (lane, number), and CONFIRMED seals it.
Number(d) == <<rows[d].lane, rows[d].num>>

Registry == INSTANCE NumberRegistry WITH
  Docs    <- Docs,
  Numbers <- Lanes \X (1 .. MaxNumber),
  held    <- {<<d, Number(d)>> : d \in {x \in Docs : rows[x].st \in Live}},
  sealed  <- {<<d, Number(d)>> : d \in {x \in Docs : rows[x].st = "CONFIRMED"}}

ImplementsRegistry == Registry!Spec
=============================================================================
