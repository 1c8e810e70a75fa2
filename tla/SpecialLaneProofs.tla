-------------------------- MODULE SpecialLaneProofs --------------------------
(***************************************************************************)
(* Proofs about SpecialLane for every number of documents, lanes, users    *)
(* and batches.  The inductive invariant adds to the properties the shape  *)
(* of the rows and the meaning of an open transaction.                     *)
(***************************************************************************)
EXTENDS SpecialLane, TLAPS

IInv == /\ TypeOK
        /\ LockedRowKeepsItsStatus
        /\ UniqueNumbers
        /\ CounterCoversRows
        /\ LoneReservationOwnsItsLane

\* The initial state, with no row and every counter at zero, satisfies the
\* inductive invariant.
LEMMA InitIInv == Init => IInv
<1> SUFFICES ASSUME Init PROVE IInv
  OBVIOUS
<1>1. TypeOK
  BY DEF Init, TypeOK, Counter, Tx, NoTx
<1>2. LockedRowKeepsItsStatus
  BY DEF Init, LockedRowKeepsItsStatus, NoTx
<1>3. UniqueNumbers /\ LoneReservationOwnsItsLane
  BY DEF Init, UniqueNumbers, LoneReservationOwnsItsLane, HasRow, NoRow
<1>4. CounterCoversRows
  BY BoundAssumption DEF Init, CounterCoversRows, HasRow, NoRow
<1> QED BY <1>1, <1>2, <1>3, <1>4 DEF IInv

\* What a successful reservation does: d gets a number in 1 .. MaxNumber that
\* no surviving row of the lane carries, and the lane had no lone occupant.
LEMMA InsertIInv ==
  ASSUME IInv,
         NEW d \in Docs, NEW l \in Lanes, NEW u \in Users,
         NEW b \in Batches \union {NoBatch}, NEW n \in 1 .. MaxNumber,
         NEW gone \in SUBSET Docs,
         OwnRowGivesWay(d),
         MayReserve(d, l, u, b),
         \A x \in gone : tx[x].op = "none" /\ rows[x].st = "CANCELLED",
         \A x \in Docs \ gone : HasRow(x) /\ rows[x].lane = l => rows[x].num # n,
         Insert(d, l, u, b, n, gone)
  PROVE  IInv'
<1> DEFINE new == [st |-> "RESERVED", lane |-> l, num |-> n, user |-> u,
                   batch |-> b, at |-> clock]
           cnt == [last |-> IF n > counters[l].last THEN n ELSE counters[l].last,
                   active |-> d, batch |-> b]
<1> USE DEF IInv
<1>1. /\ rows'[d] = new
      /\ \A x \in Docs \ {d} : rows'[x] = IF x \in gone THEN NoRow ELSE rows[x]
      /\ counters'[l] = cnt
      /\ \A k \in Lanes \ {l} : counters'[k] = counters[k]
      /\ tx' = tx
  BY DEF Insert, Greatest, TypeOK
<1>2. n \in Nat /\ n >= 1 /\ n <= MaxNumber /\ counters[l].last \in Nat
  BY BoundAssumption DEF TypeOK, Counter
<1>3. cnt.last \in Nat /\ cnt.last >= n /\ cnt.last >= counters[l].last
      /\ cnt.last <= MaxNumber
  BY <1>2, BoundAssumption DEF CounterCoversRows
<1>4. new \in Row /\ cnt \in Counter
  BY <1>2, <1>3 DEF Row, Counter, Live, TypeOK
<1>5. TypeOK'
  <2>1. rows' \in [Docs -> Row \union {NoRow}]
    BY <1>4 DEF Insert, Greatest, TypeOK
  <2>2. counters' \in [Lanes -> Counter]
    BY <1>4 DEF Insert, Greatest, TypeOK
  <2>3. tx' \in [Docs -> Tx] /\ clock' \in Nat
    BY DEF Insert, Greatest, TypeOK
  <2> QED BY <2>1, <2>2, <2>3 DEF TypeOK
<1>6. LockedRowKeepsItsStatus'
  BY <1>1 DEF LockedRowKeepsItsStatus, OwnRowGivesWay
<1>7. UniqueNumbers'
  BY <1>1 DEF UniqueNumbers, HasRow, NoRow
<1>8. CounterCoversRows'
  <2>1. \A k \in Lanes : counters'[k].last <= MaxNumber
    BY <1>1, <1>3 DEF CounterCoversRows
  <2>2. ASSUME NEW x \in Docs, HasRow(x)'
        PROVE  rows'[x].num \in 1 .. counters'[rows'[x].lane].last
    <3>1. CASE x = d
      BY <3>1, <1>1, <1>2, <1>3
    <3>2. CASE x # d
      <4>1. rows'[x] = rows[x] /\ HasRow(x) /\ rows[x] \in Row
        BY <2>2, <3>2, <1>1 DEF HasRow, NoRow, TypeOK
      <4>2. /\ rows[x].num \in 1 .. counters[rows[x].lane].last
            /\ rows[x].lane \in Lanes /\ rows[x].num \in Nat
        BY <4>1 DEF CounterCoversRows, Row
      <4>3. counters'[rows[x].lane].last >= counters[rows[x].lane].last
            /\ counters[rows[x].lane].last \in Nat
            /\ counters'[rows[x].lane].last \in Nat
        BY <4>2, <1>1, <1>2, <1>3 DEF TypeOK, Counter
      <4> QED BY <4>1, <4>2, <4>3
    <3> QED BY <3>1, <3>2
  <2> QED BY <2>1, <2>2 DEF CounterCoversRows
<1>9. LoneReservationOwnsItsLane'
  <2> SUFFICES ASSUME NEW x \in Docs, rows'[x].st = "RESERVED",
                      rows'[x].batch = NoBatch
               PROVE  /\ counters'[rows'[x].lane].active = x
                      /\ counters'[rows'[x].lane].batch = NoBatch
    BY DEF LoneReservationOwnsItsLane
  <2>1. CASE x = d
    BY <2>1, <1>1
  <2>2. CASE x # d
    <3>1. rows'[x] = rows[x]
      BY <2>2, <1>1 DEF NoRow
    <3>2. counters[rows[x].lane].active = x /\ counters[rows[x].lane].batch = NoBatch
      BY <3>1 DEF LoneReservationOwnsItsLane
    <3>3. rows[x].lane # l
      BY <3>1, <3>2, NullAssumption
      DEF MayReserve, LaneTaken, SameBatchAndUser
    <3>4. rows[x].lane \in Lanes
      BY <3>1 DEF TypeOK, Row, NoRow
    <3> QED BY <3>1, <3>2, <3>3, <3>4, <1>1
  <2> QED BY <2>1, <2>2
<1> QED BY <1>5, <1>6, <1>7, <1>8, <1>9

\* A step that changes no row number, lane, user, batch or counter maximum,
\* keeps lone occupants and their marks, and respects the open transactions,
\* preserves the invariant.  Every step but an insertion is of this kind.
LEMMA UpdateIInv ==
  ASSUME IInv, NEW d \in Docs,
         rows' \in [Docs -> Row \union {NoRow}],
         counters' \in [Lanes -> Counter],
         tx' \in [Docs -> Tx],
         clock' \in Nat,
         \A x \in Docs : \/ rows'[x] = rows[x]
                         \/ rows'[x] = NoRow
                         \/ /\ x = d
                            /\ HasRow(x)
                            /\ rows'[x] = [rows[x] EXCEPT !.st = rows'[x].st]
                            /\ rows'[x].st # "RESERVED",
         \A l \in Lanes : counters'[l].last = counters[l].last,
         \A l \in Lanes : \/ counters'[l] = counters[l]
                          \/ /\ \/ counters[l].active = d
                                \/ counters[l].batch # NoBatch
                             /\ rows'[d].st # "RESERVED",
         LockedRowKeepsItsStatus'
  PROVE  IInv'
<1> USE DEF IInv
<1>1. TypeOK'
  BY DEF TypeOK
<1>2. \A x \in Docs : HasRow(x)' => /\ HasRow(x)
                                    /\ rows'[x].num = rows[x].num
                                    /\ rows'[x].lane = rows[x].lane
                                    /\ rows'[x].batch = rows[x].batch
                                    /\ rows[x] \in Row
  BY DEF HasRow, NoRow, TypeOK, Row
<1>3. UniqueNumbers'
  BY <1>2 DEF UniqueNumbers
<1>4. CounterCoversRows'
  <2>1. \A l \in Lanes : counters'[l].last <= MaxNumber
    BY DEF CounterCoversRows
  <2>2. ASSUME NEW x \in Docs, HasRow(x)'
        PROVE  rows'[x].num \in 1 .. counters'[rows'[x].lane].last
    <3>1. rows[x].lane \in Lanes
      BY <2>2, <1>2 DEF Row
    <3> QED BY <2>2, <1>2, <3>1 DEF CounterCoversRows
  <2> QED BY <2>1, <2>2 DEF CounterCoversRows
<1>5. LoneReservationOwnsItsLane'
  <2> SUFFICES ASSUME NEW x \in Docs, rows'[x].st = "RESERVED",
                      rows'[x].batch = NoBatch
               PROVE  /\ counters'[rows'[x].lane].active = x
                      /\ counters'[rows'[x].lane].batch = NoBatch
    BY DEF LoneReservationOwnsItsLane
  <2>1. rows'[x] = rows[x]
    BY DEF NoRow
  <2>2. counters[rows[x].lane].active = x /\ counters[rows[x].lane].batch = NoBatch
    BY <2>1 DEF LoneReservationOwnsItsLane
  <2>3. rows[x].lane \in Lanes
    BY <2>1 DEF TypeOK, Row, NoRow
  <2> QED BY <2>1, <2>2, <2>3
<1> QED BY <1>1, <1>3, <1>4, <1>5

\* The first step of a confirmation, cancellation or rejection only locks.
LEMMA BeginIInv ==
  ASSUME IInv, NEW d \in Docs,
         ConfirmBegin(d) \/ CancelBegin(d) \/ RejectBegin(d)
  PROVE  IInv'
<1>1. LiveSiblings(d) \in BOOLEAN
  BY DEF LiveSiblings
<1>2. PICK op \in {"confirm", "cancel", "reject"} :
        /\ op = "confirm" => rows[d].st = "RESERVED"
        /\ op = "cancel" => rows[d].st \in {"RESERVED", "CONFIRMING"}
        /\ op = "reject" => rows[d].st \in {"RESERVED", "CANCELLED"}
        /\ tx' = [tx EXCEPT ![d] = [op |-> op, shared |-> LiveSiblings(d)]]
        /\ UNCHANGED <<rows, counters, clock>>
  BY DEF ConfirmBegin, CancelBegin, RejectBegin, Begin
<1>3. tx' \in [Docs -> Tx]
  BY <1>1, <1>2 DEF IInv, TypeOK, Tx
<1>4. LockedRowKeepsItsStatus'
  BY <1>2 DEF IInv, LockedRowKeepsItsStatus, TypeOK
<1>5. rows' = rows /\ counters' = counters /\ clock' = clock
  BY <1>2
<1> QED BY <1>3, <1>4, <1>5, UpdateIInv DEF IInv, TypeOK

\* The commit of a confirmation, cancellation or rejection changes the status
\* of its row and may free the lane it occupies.
LEMMA CommitIInv ==
  ASSUME IInv, NEW d \in Docs,
         ConfirmCommit(d) \/ CancelCommit(d) \/ RejectCommit(d)
  PROVE  IInv'
<1> USE DEF IInv
<1>1. PICK st \in {"CONFIRMING", "CANCELLED"} :
        /\ tx[d].op # "none"
        /\ rows' = [rows EXCEPT ![d].st = st]
        /\ tx' = [tx EXCEPT ![d] = NoTx]
        /\ UNCHANGED clock
  BY DEF ConfirmCommit, CancelCommit, RejectCommit, Commit
<1>2. HasRow(d) /\ rows[d] \in Row
  <2>1. tx[d] \in Tx
    BY DEF TypeOK
  <2>2. HasRow(d)
    BY <1>1, <2>1 DEF Tx, LockedRowKeepsItsStatus, HasRow
  <2> QED BY <2>2 DEF HasRow, NoRow, TypeOK
<1>3. rows' \in [Docs -> Row \union {NoRow}] /\ rows'[d] = [rows[d] EXCEPT !.st = st]
  BY <1>1, <1>2 DEF TypeOK, Row, Live
<1>4. /\ \A x \in Docs \ {d} : rows'[x] = rows[x]
      /\ rows'[d].st = st
  BY <1>1, <1>2, <1>3 DEF TypeOK, Row
<1>5. tx' \in [Docs -> Tx] /\ LockedRowKeepsItsStatus'
  BY <1>1, <1>4 DEF TypeOK, Tx, NoTx, LockedRowKeepsItsStatus
<1>6. rows[d].lane \in Lanes
  BY <1>2 DEF Row
<1>7. /\ counters' \in [Lanes -> Counter]
      /\ \A l \in Lanes : counters'[l].last = counters[l].last
      /\ \A l \in Lanes : \/ counters'[l] = counters[l]
                          \/ counters[l].active = d
                          \/ counters[l].batch # NoBatch
  <2>1. CASE ConfirmCommit(d) \/ CancelCommit(d)
    <3> DEFINE k == rows[d].lane
    <3>1. PICK c \in {counters[k], ClearedCounter(k)} :
            /\ counters' = [counters EXCEPT ![k] = c]
            /\ \/ c = counters[k]
               \/ counters[k].active = d
               \/ counters[k].batch # NoBatch
      BY <2>1 DEF ConfirmCommit, CancelCommit, Release, Occupies
    <3>2. counters[k] \in Counter
      BY <1>6 DEF TypeOK
    <3>3. ClearedCounter(k) \in Counter /\ ClearedCounter(k).last = counters[k].last
      BY <3>2 DEF ClearedCounter, Counter
    <3>4. c \in Counter /\ c.last = counters[k].last
      BY <3>1, <3>2, <3>3
    <3> QED BY <3>1, <3>4, <1>6 DEF TypeOK
  <2>2. CASE RejectCommit(d)
    BY <2>2, <1>6 DEF RejectCommit, TypeOK, Counter
  <2> QED BY <2>1, <2>2
<1>8. clock' \in Nat
  BY <1>1 DEF TypeOK
<1> QED BY <1>1, <1>2, <1>3, <1>4, <1>5, <1>7, <1>8, UpdateIInv

\* A finished upload seals the number and touches nothing else.
LEMMA FinalizeIInv ==
  ASSUME IInv, NEW d \in Docs, Finalize(d)
  PROVE  IInv'
<1> USE DEF IInv
<1>1. HasRow(d) /\ rows[d] \in Row
  BY DEF Finalize, HasRow, NoRow, TypeOK
<1>2. rows' \in [Docs -> Row \union {NoRow}]
      /\ rows'[d] = [rows[d] EXCEPT !.st = "CONFIRMED"]
      /\ rows'[d].st = "CONFIRMED"
      /\ \A x \in Docs \ {d} : rows'[x] = rows[x]
  BY <1>1 DEF Finalize, TypeOK, Row, Live
<1>3. LockedRowKeepsItsStatus'
  BY <1>2 DEF Finalize, LockedRowKeepsItsStatus
<1>4. counters' = counters /\ tx' = tx /\ clock' = clock
  BY DEF Finalize
<1>5. rows'[d] = [rows[d] EXCEPT !.st = rows'[d].st] /\ rows'[d].st # "RESERVED"
  BY <1>2
<1>6. /\ \A x \in Docs : \/ rows'[x] = rows[x]
                         \/ rows'[x] = NoRow
                         \/ /\ x = d
                            /\ HasRow(x)
                            /\ rows'[x] = [rows[x] EXCEPT !.st = rows'[x].st]
                            /\ rows'[x].st # "RESERVED"
      /\ \A l \in Lanes : counters'[l] = counters[l]
  BY <1>1, <1>2, <1>4, <1>5
<1>7. counters' \in [Lanes -> Counter] /\ tx' \in [Docs -> Tx] /\ clock' \in Nat
  BY <1>4 DEF TypeOK
<1> QED BY <1>2, <1>3, <1>6, <1>7, UpdateIInv

\* A reservation that fails on the primary key deletes at most one CANCELLED row.
LEMMA ClashIInv ==
  ASSUME IInv, NEW d \in Docs, NEW l \in Lanes, NEW u \in Users,
         NEW b \in Batches \union {NoBatch}, ReserveClash(d, l, u, b)
  PROVE  IInv'
<1> USE DEF IInv
<1>1. PICK r \in Recyclable(l) : rows' = [rows EXCEPT ![r] = NoRow]
  BY DEF ReserveClash, Oldest
<1>2. r \in Docs /\ tx[r].op = "none"
  BY DEF Recyclable
<1>3. /\ rows' \in [Docs -> Row \union {NoRow}]
      /\ rows'[r] = NoRow
      /\ \A x \in Docs \ {r} : rows'[x] = rows[x]
  BY <1>1, <1>2 DEF TypeOK
<1>4. counters' = counters /\ tx' = tx /\ clock' = clock + 1
  BY DEF ReserveClash
<1>5. LockedRowKeepsItsStatus'
  BY <1>2, <1>3, <1>4 DEF LockedRowKeepsItsStatus
<1> QED BY <1>2, <1>3, <1>4, <1>5, UpdateIInv DEF TypeOK

\* A reservation that recycles the oldest CANCELLED row of the lane takes a
\* number that only that row carried.
LEMMA RecycledIInv ==
  ASSUME IInv, NEW d \in Docs, NEW l \in Lanes, NEW u \in Users,
         NEW b \in Batches \union {NoBatch}, ReserveRecycled(d, l, u, b)
  PROVE  IInv'
<1> USE DEF IInv
<1>1. PICK r \in Recyclable(l) : Insert(d, l, u, b, rows[r].num, {r})
  BY DEF ReserveRecycled, Oldest
<1>2. /\ r \in Docs /\ tx[r].op = "none" /\ rows[r].st = "CANCELLED"
      /\ rows[r].lane = l /\ HasRow(r)
  BY DEF Recyclable, HasRow
<1>3. rows[r].num \in 1 .. MaxNumber
  <2>1. rows[r].num \in 1 .. counters[l].last /\ counters[l].last <= MaxNumber
    BY <1>2 DEF CounterCoversRows
  <2>2. counters[l].last \in Nat
    BY DEF TypeOK, Counter
  <2> QED BY <2>1, <2>2, BoundAssumption
<1>4. \A x \in Docs \ {r} : HasRow(x) /\ rows[x].lane = l => rows[x].num # rows[r].num
  BY <1>2 DEF UniqueNumbers
<1>5. MayReserve(d, l, u, b) /\ OwnRowGivesWay(d)
  BY DEF ReserveRecycled
<1> QED BY <1>1, <1>2, <1>3, <1>4, <1>5, InsertIInv

\* last_number + 1 is above every number of the lane.
LEMMA NextIInv ==
  ASSUME IInv, NEW d \in Docs, NEW l \in Lanes, NEW u \in Users,
         NEW b \in Batches \union {NoBatch}, ReserveNext(d, l, u, b)
  PROVE  IInv'
<1> USE DEF IInv
<1>1. counters[l].last \in Nat /\ counters[l].last + 1 \in 1 .. MaxNumber
  BY BoundAssumption DEF ReserveNext, TypeOK, Counter
<1>2. \A x \in Docs : HasRow(x) /\ rows[x].lane = l => rows[x].num # counters[l].last + 1
  BY <1>1 DEF CounterCoversRows
<1>3. /\ MayReserve(d, l, u, b) /\ OwnRowGivesWay(d)
      /\ Insert(d, l, u, b, counters[l].last + 1, {})
  BY DEF ReserveNext
<1> QED BY <1>1, <1>2, <1>3, InsertIInv

\* Every step preserves the inductive invariant.
LEMMA StepIInv == IInv /\ [Next]_vars => IInv'
<1> SUFFICES ASSUME IInv, [Next]_vars PROVE IInv'
  OBVIOUS
<1>1. CASE UNCHANGED vars
  BY <1>1 DEF vars, IInv, TypeOK, LockedRowKeepsItsStatus, UniqueNumbers,
              HasRow, CounterCoversRows, LoneReservationOwnsItsLane
<1>2. ASSUME NEW d \in Docs, Reserve(d) PROVE IInv'
  BY <1>2, RecycledIInv, NextIInv, ClashIInv DEF Reserve
<1>3. ASSUME NEW d \in Docs, ConfirmBegin(d) \/ CancelBegin(d) \/ RejectBegin(d)
      PROVE  IInv'
  BY <1>3, BeginIInv
<1>4. ASSUME NEW d \in Docs, ConfirmCommit(d) \/ CancelCommit(d) \/ RejectCommit(d)
      PROVE  IInv'
  BY <1>4, CommitIInv
<1>5. ASSUME NEW d \in Docs, Finalize(d) PROVE IInv'
  BY <1>5, FinalizeIInv
<1> QED BY <1>1, <1>2, <1>3, <1>4, <1>5 DEF Next

\* The inductive invariant holds in every behaviour of the lane.
THEOREM SpecIInv == Spec => []IInv
<1> QED BY InitIInv, StepIInv, PTL DEF Spec

\* Type correctness of rows, counters and open transactions.
THEOREM SpecTypeOK == Spec => []TypeOK
<1>1. IInv => TypeOK
  BY DEF IInv
<1> QED BY <1>1, SpecIInv, PTL

\* No two rows of a lane ever carry the same number, whatever reservations,
\* confirmations, cancellations and rejections interleave.
THEOREM SpecUniqueNumbers == Spec => []UniqueNumbers
<1>1. IInv => UniqueNumbers
  BY DEF IInv
<1> QED BY <1>1, SpecIInv, PTL

\* The counter covers every number on file.
THEOREM SpecCounterCoversRows == Spec => []CounterCoversRows
<1>1. IInv => CounterCoversRows
  BY DEF IInv
<1> QED BY <1>1, SpecIInv, PTL

\* A reservation made outside a batch keeps its lane to itself.
THEOREM SpecLoneReservation == Spec => []LoneReservationOwnsItsLane
<1>1. IInv => LoneReservationOwnsItsLane
  BY DEF IInv
<1> QED BY <1>1, SpecIInv, PTL

-----------------------------------------------------------------------------
\* A row whose status is CONFIRMED is left alone by every step: it is neither
\* locked by a transaction, nor recycled, nor replaced.
LEMMA StepKeepsConfirmed ==
  IInv /\ [Next]_vars
    => \A x \in Docs : rows[x].st = "CONFIRMED" => rows'[x] = rows[x]
<1> SUFFICES ASSUME IInv, [Next]_vars, NEW x \in Docs, rows[x].st = "CONFIRMED"
             PROVE  rows'[x] = rows[x]
  OBVIOUS
<1> USE DEF IInv
<1>1. CASE UNCHANGED vars
  BY <1>1 DEF vars
<1>2. ASSUME NEW d \in Docs, Reserve(d) PROVE rows'[x] = rows[x]
  <2>1. PICK l \in Lanes, u \in Users, b \in Batches \union {NoBatch} :
          ReserveRecycled(d, l, u, b) \/ ReserveNext(d, l, u, b) \/ ReserveClash(d, l, u, b)
    BY <1>2 DEF Reserve
  <2>2. CASE ReserveRecycled(d, l, u, b)
    BY <2>2 DEF ReserveRecycled, OwnRowGivesWay, Oldest, Recyclable, Insert
  <2>3. CASE ReserveNext(d, l, u, b)
    BY <2>3 DEF ReserveNext, OwnRowGivesWay, Insert
  <2>4. CASE ReserveClash(d, l, u, b)
    BY <2>4 DEF ReserveClash, Oldest, Recyclable, TypeOK
  <2> QED BY <2>1, <2>2, <2>3, <2>4
<1>3. ASSUME NEW d \in Docs, ConfirmBegin(d) \/ CancelBegin(d) \/ RejectBegin(d)
      PROVE  rows'[x] = rows[x]
  BY <1>3 DEF ConfirmBegin, CancelBegin, RejectBegin, Begin
<1>4. ASSUME NEW d \in Docs, ConfirmCommit(d) \/ CancelCommit(d) \/ RejectCommit(d)
      PROVE  rows'[x] = rows[x]
  BY <1>4 DEF ConfirmCommit, CancelCommit, RejectCommit, Commit,
              LockedRowKeepsItsStatus, TypeOK
<1>5. ASSUME NEW d \in Docs, Finalize(d) PROVE rows'[x] = rows[x]
  BY <1>5 DEF Finalize, TypeOK
<1> QED BY <1>1, <1>2, <1>3, <1>4, <1>5 DEF Next

\* CONFIRMED is final for every interleaving.
THEOREM SpecConfirmedIsFinal == Spec => ConfirmedIsFinal
<1>1. IInv /\ [Next]_vars
        => [\A d \in Docs : rows[d].st = "CONFIRMED" => rows'[d] = rows[d]]_vars
  BY StepKeepsConfirmed
<1> QED BY <1>1, SpecIInv, PTL DEF Spec, ConfirmedIsFinal

-----------------------------------------------------------------------------
(* Refinement of NumberRegistry *)

Held == {<<d, Number(d)>> : d \in {x \in Docs : rows[x].st \in Live}}
Sealed == {<<d, Number(d)>> : d \in {x \in Docs : rows[x].st = "CONFIRMED"}}

\* A live row carries a real number.
LEMMA HeldTyped ==
  ASSUME IInv, NEW d \in Docs, rows[d].st \in Live
  PROVE  Number(d) \in Lanes \X (1 .. MaxNumber)
<1>1. rows[d] \in Row /\ HasRow(d)
  BY DEF IInv, TypeOK, NoRow, Live, HasRow
<1>2. rows[d].lane \in Lanes /\ rows[d].num \in 1 .. counters[rows[d].lane].last
  BY <1>1 DEF IInv, CounterCoversRows, Row
<1>3. counters[rows[d].lane].last \in Nat /\ counters[rows[d].lane].last <= MaxNumber
  BY <1>2 DEF IInv, CounterCoversRows, TypeOK, Counter
<1>4. rows[d].num \in 1 .. MaxNumber
  BY <1>2, <1>3, BoundAssumption
<1> QED BY <1>2, <1>4 DEF Number

\* A step that leaves the held rows and their numbers alone is a stutter of
\* the registry.
LEMMA StutterStep ==
  ASSUME \A x \in Docs : rows[x].st \in Live \/ rows'[x].st \in Live
           => /\ rows[x].st \in Live /\ rows'[x].st \in Live
              /\ rows'[x].lane = rows[x].lane /\ rows'[x].num = rows[x].num
              /\ rows[x].st = "CONFIRMED" <=> rows'[x].st = "CONFIRMED"
  PROVE  Held' = Held /\ Sealed' = Sealed
<1>1. Held' = Held
  BY DEF Held, Number
<1>2. Sealed' = Sealed
  BY DEF Sealed, Number, Live
<1> QED BY <1>1, <1>2

\* An insertion takes the number.
LEMMA InsertTakes ==
  ASSUME NEW d \in Docs, NEW l \in Lanes, NEW n \in Nat, NEW gone \in SUBSET Docs,
         rows[d].st \notin Live,
         \A x \in gone : rows[x].st = "CANCELLED",
         \A x \in Docs \ gone : HasRow(x) /\ rows[x].lane = l => rows[x].num # n,
         rows'[d].st = "RESERVED" /\ rows'[d].lane = l /\ rows'[d].num = n,
         \A x \in Docs \ {d} : rows'[x] = IF x \in gone THEN NoRow ELSE rows[x]
  PROVE  /\ \A p \in Held : p[1] # d /\ p[2] # <<l, n>>
         /\ Held' = Held \union {<<d, <<l, n>>>>}
         /\ Sealed' = Sealed
<1>1. /\ rows'[d].st = "RESERVED" /\ rows'[d].lane = l /\ rows'[d].num = n
      /\ rows[d].st \notin Live
      /\ \A x \in Docs \ {d} : rows'[x] = IF x \in gone THEN NoRow ELSE rows[x]
  OBVIOUS
<1>2. \A p \in Held : p[1] # d /\ p[2] # <<l, n>>
  <2> SUFFICES ASSUME NEW x \in Docs, rows[x].st \in Live
               PROVE  x # d /\ Number(x) # <<l, n>>
    BY DEF Held
  <2>1. x \notin gone /\ HasRow(x) /\ x # d
    BY <1>1 DEF Live, HasRow
  <2> QED BY <2>1 DEF Number
<1>3. \A x \in Docs \ {d} : rows'[x].st \in Live \/ rows[x].st \in Live
                               => rows'[x] = rows[x]
  BY <1>1 DEF Live, NoRow
<1>4. Held' = Held \union {<<d, <<l, n>>>>}
  <2>1. ASSUME NEW p \in Held' PROVE p \in Held \union {<<d, <<l, n>>>>}
    <3>1. PICK x \in Docs : rows'[x].st \in Live /\ p = <<x, <<rows'[x].lane, rows'[x].num>>>>
      BY <2>1 DEF Held, Number
    <3> QED BY <3>1, <1>1, <1>3 DEF Held, Number
  <2>2. ASSUME NEW p \in Held PROVE p \in Held'
    <3>1. PICK x \in Docs : rows[x].st \in Live /\ p = <<x, Number(x)>>
      BY <2>2 DEF Held
    <3> QED BY <3>1, <1>1, <1>3 DEF Held, Number
  <2>3. <<d, <<l, n>>>> \in Held'
    BY <1>1 DEF Held, Number, Live
  <2> QED BY <2>1, <2>2, <2>3
<1>5. Sealed' = Sealed
  <2>1. \A x \in Docs : rows'[x].st = "CONFIRMED" \/ rows[x].st = "CONFIRMED"
                         => rows'[x] = rows[x]
    BY <1>1, <1>3 DEF Live
  <2> QED BY <2>1 DEF Sealed, Number
<1> QED BY <1>2, <1>4, <1>5

\* A cancellation or rejection of a reservation gives the number back.
LEMMA CancelDrops ==
  ASSUME NEW d \in Docs, rows[d].st \in {"RESERVED", "CONFIRMING"},
         rows'[d].st = "CANCELLED",
         \A x \in Docs \ {d} : rows'[x] = rows[x]
  PROVE  Registry!Drop(d, Number(d))
<1>1. <<d, Number(d)>> \in Held /\ <<d, Number(d)>> \notin Sealed
  BY DEF Held, Sealed, Live
<1>2. Held' = Held \ {<<d, Number(d)>>}
  BY DEF Held, Number, Live
<1>3. Sealed' = Sealed
  BY DEF Sealed, Number
<1> QED BY <1>1, <1>2, <1>3 DEF Registry!Drop, Held, Sealed

\* Finalizing seals the number.
LEMMA FinalizeSeals ==
  ASSUME IInv, NEW d \in Docs, Finalize(d)
  PROVE  Registry!Seal(d, Number(d))
<1>1. rows[d] \in Row /\ rows[d].st = "CONFIRMING"
  BY DEF Finalize, IInv, TypeOK, NoRow
<1>2. /\ rows'[d].st = "CONFIRMED"
      /\ rows'[d].lane = rows[d].lane /\ rows'[d].num = rows[d].num
      /\ \A x \in Docs \ {d} : rows'[x] = rows[x]
  BY <1>1 DEF Finalize, IInv, TypeOK, Row
<1>3. <<d, Number(d)>> \in Held
  BY <1>1 DEF Held, Live
<1>4. Held' = Held
  BY <1>1, <1>2 DEF Held, Number, Live
<1>5. Sealed' = Sealed \union {<<d, Number(d)>>}
  BY <1>1, <1>2 DEF Sealed, Number
<1> QED BY <1>3, <1>4, <1>5 DEF Registry!Seal, Held, Sealed

\* Every step of the lane is a step of the registry or a stutter of it.
LEMMA StepRefines ==
  ASSUME IInv, [Next]_vars
  PROVE  [Registry!Next]_(Registry!vars)
<1> USE DEF IInv
<1> DEFINE Pairs == Lanes \X (1 .. MaxNumber)
<1>1. SUFFICES ASSUME ~(Held' = Held /\ Sealed' = Sealed)
               PROVE  \E d \in Docs, n \in Pairs :
                        Registry!Take(d, n) \/ Registry!Drop(d, n) \/ Registry!Seal(d, n)
  BY DEF Registry!Next, Registry!vars, Held, Sealed
<1>2. ASSUME NEW d \in Docs, rows[d].st \in Live PROVE Number(d) \in Pairs
  BY <1>2, HeldTyped
<1>3. CASE UNCHANGED vars
  BY <1>1, <1>3 DEF vars, Held, Sealed, Number
<1>4. ASSUME NEW d \in Docs, Reserve(d)
      PROVE  \E n \in Pairs : Registry!Take(d, n)
  <2>1. PICK l \in Lanes, u \in Users, b \in Batches \union {NoBatch} :
          ReserveRecycled(d, l, u, b) \/ ReserveNext(d, l, u, b) \/ ReserveClash(d, l, u, b)
    BY <1>4 DEF Reserve
  <2>2. CASE ReserveRecycled(d, l, u, b)
    <3>1. PICK r \in Recyclable(l) : Insert(d, l, u, b, rows[r].num, {r})
      BY <2>2 DEF ReserveRecycled, Oldest
    <3>2. /\ r \in Docs /\ rows[r].st = "CANCELLED" /\ rows[r].lane = l /\ HasRow(r)
      BY DEF Recyclable, HasRow
    <3>3. rows[r].num \in 1 .. counters[l].last /\ counters[l].last <= MaxNumber
          /\ counters[l].last \in Nat
      BY <3>2 DEF CounterCoversRows, TypeOK, Counter
    <3>4. rows[r].num \in 1 .. MaxNumber
      BY <3>3, BoundAssumption
    <3>5. \A x \in Docs \ {r} : HasRow(x) /\ rows[x].lane = l => rows[x].num # rows[r].num
      BY <3>2 DEF UniqueNumbers
    <3>6. /\ rows[d].st \notin Live
          /\ rows'[d].st = "RESERVED" /\ rows'[d].lane = l
          /\ rows'[d].num = rows[r].num
          /\ \A x \in Docs \ {d} : rows'[x] = IF x \in {r} THEN NoRow ELSE rows[x]
      BY <2>2, <3>1 DEF ReserveRecycled, OwnRowGivesWay, Insert, Live
    <3>7. Registry!Take(d, <<l, rows[r].num>>)
      <4> DEFINE n == rows[r].num
                 gone == {r}
      <4>1. /\ n \in Nat /\ gone \in SUBSET Docs
            /\ \A x \in gone : rows[x].st = "CANCELLED"
            /\ \A x \in Docs \ gone : HasRow(x) /\ rows[x].lane = l => rows[x].num # n
        BY <3>2, <3>4, <3>5
      <4>2. rows'[d].num = n
            /\ \A x \in Docs \ {d} : rows'[x] = IF x \in gone THEN NoRow ELSE rows[x]
        BY <3>6
      <4> HIDE DEF n, gone
      <4>3. /\ \A p \in Held : p[1] # d /\ p[2] # <<l, n>>
            /\ Held' = Held \union {<<d, <<l, n>>>>}
            /\ Sealed' = Sealed
        BY <4>1, <4>2, <3>6, InsertTakes
      <4> QED BY <4>3 DEF n, Registry!Take, Held, Sealed
    <3> QED BY <3>4, <3>7 DEF Registry!Take
  <2>3. CASE ReserveNext(d, l, u, b)
    <3> DEFINE n == counters[l].last + 1
    <3>1. n \in 1 .. MaxNumber
      BY <2>3, BoundAssumption DEF ReserveNext, TypeOK, Counter
    <3>2. \A x \in Docs : HasRow(x) /\ rows[x].lane = l => rows[x].num # n
      BY <3>1 DEF CounterCoversRows, TypeOK, Counter
    <3>3. /\ rows[d].st \notin Live
          /\ rows'[d].st = "RESERVED" /\ rows'[d].lane = l /\ rows'[d].num = n
          /\ \A x \in Docs \ {d} : rows'[x] = IF x \in {} THEN NoRow ELSE rows[x]
      BY <2>3 DEF ReserveNext, OwnRowGivesWay, Insert, Live
    <3>4. Registry!Take(d, <<l, n>>)
      <4> DEFINE gone == {}
      <4>1. /\ n \in Nat /\ gone \in SUBSET Docs
            /\ \A x \in gone : rows[x].st = "CANCELLED"
            /\ \A x \in Docs \ gone : HasRow(x) /\ rows[x].lane = l => rows[x].num # n
            /\ \A x \in Docs \ {d} : rows'[x] = IF x \in gone THEN NoRow ELSE rows[x]
        BY <3>1, <3>2, <3>3
      <4> HIDE DEF n, gone
      <4>2. /\ \A p \in Held : p[1] # d /\ p[2] # <<l, n>>
            /\ Held' = Held \union {<<d, <<l, n>>>>}
            /\ Sealed' = Sealed
        BY <4>1, <3>3, InsertTakes
      <4> QED BY <4>2 DEF Registry!Take, Held, Sealed
    <3> QED BY <3>1, <3>4 DEF Registry!Take
  <2>4. CASE ReserveClash(d, l, u, b)
    <3>1. PICK r \in Recyclable(l) : rows' = [rows EXCEPT ![r] = NoRow]
      BY <2>4 DEF ReserveClash, Oldest
    <3>2. r \in Docs /\ rows[r].st = "CANCELLED" /\ rows'[r].st = "NONE"
          /\ \A x \in Docs \ {r} : rows'[x] = rows[x]
      BY <3>1 DEF Recyclable, TypeOK, NoRow
    <3> QED BY <3>2, <1>1, StutterStep DEF Live
  <2> QED BY <2>1, <2>2, <2>3, <2>4
<1>5. ASSUME NEW d \in Docs, ConfirmBegin(d) \/ CancelBegin(d) \/ RejectBegin(d)
      PROVE  FALSE
  BY <1>1, <1>5 DEF ConfirmBegin, CancelBegin, RejectBegin, Begin, Held, Sealed, Number
<1>6. ASSUME NEW d \in Docs, NEW st \in {"CONFIRMING", "CANCELLED"},
             tx[d].op # "none", rows' = [rows EXCEPT ![d].st = st]
      PROVE  /\ \A x \in Docs \ {d} : rows'[x] = rows[x]
             /\ rows'[d].st = st
             /\ rows'[d].lane = rows[d].lane /\ rows'[d].num = rows[d].num
  <2>1. tx[d] \in Tx /\ HasRow(d)
    BY <1>6 DEF TypeOK, Tx, LockedRowKeepsItsStatus, HasRow
  <2>2. rows[d] \in Row
    BY <2>1 DEF HasRow, NoRow, TypeOK
  <2> QED BY <1>6, <2>2 DEF TypeOK, Row
<1>7. ASSUME NEW d \in Docs, ConfirmCommit(d) PROVE FALSE
  <2>1. rows[d].st = "RESERVED" /\ tx[d].op # "none"
        /\ rows' = [rows EXCEPT ![d].st = "CONFIRMING"]
    BY <1>7 DEF ConfirmCommit, Commit, LockedRowKeepsItsStatus
  <2> QED BY <1>1, <1>6, <2>1, StutterStep DEF Live
<1>8. ASSUME NEW d \in Docs, CancelCommit(d) \/ RejectCommit(d)
      PROVE  \E n \in Pairs : Registry!Drop(d, n)
  <2>1. rows[d].st \in {"RESERVED", "CONFIRMING", "CANCELLED"} /\ tx[d].op # "none"
        /\ rows' = [rows EXCEPT ![d].st = "CANCELLED"]
    BY <1>8 DEF CancelCommit, RejectCommit, Commit, LockedRowKeepsItsStatus
  <2>2. CASE rows[d].st = "CANCELLED"
    BY <1>1, <1>6, <2>1, <2>2, StutterStep DEF Live
  <2>3. CASE rows[d].st # "CANCELLED"
    BY <1>2, <1>6, <2>1, <2>3, CancelDrops DEF Live, Registry!Drop
  <2> QED BY <2>2, <2>3
<1>9. ASSUME NEW d \in Docs, Finalize(d)
      PROVE  \E n \in Pairs : Registry!Seal(d, n)
  BY <1>2, <1>9, FinalizeSeals DEF Finalize, Live, Registry!Seal
<1> QED BY <1>3, <1>4, <1>5, <1>7, <1>8, <1>9 DEF Next

\* The SPECIAL regime implements the abstract registry: a number has one
\* holder, and a confirmed one keeps it.
THEOREM SpecImplementsRegistry == Spec => ImplementsRegistry
<1>1. Init => Registry!Init
  BY DEF Init, NoRow, Live, Registry!Init
<1>2. IInv /\ [Next]_vars => [Registry!Next]_(Registry!vars)
  BY StepRefines
<1> QED BY <1>1, <1>2, SpecIInv, PTL DEF Spec, ImplementsRegistry, Registry!Spec

=============================================================================
