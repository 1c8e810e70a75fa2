------------------------ MODULE GlobalNumberingProofs ------------------------
(***************************************************************************)
(* Proofs about GlobalNumbering for every number of documents, numbers and *)
(* insertions, and for every unique index that covers the live statuses.   *)
(*                                                                         *)
(* The advisory lock is not what makes a number unique: whoever holds it   *)
(* may have read a MAX that is old by the time of the insertion, and the   *)
(* TST job remembers a number that was recycled meanwhile.  The argument   *)
(* rests on the index, on the locks of a rejection and on what a document  *)
(* that is inserted anew may have been before.                             *)
(***************************************************************************)
EXTENDS GlobalNumbering, TLAPS

IsLive(d) == rows[d].st \in Live

\* Two live rows never carry the same number.
UniqueNumbers == \A d, e \in All : IsLive(d) /\ IsLive(e) /\ rows[d].seq = rows[e].seq => d = e

\* A row that a rejection holds is neither confirmed nor being confirmed.
RejectsUnissued == \A d \in rejecting : rows[d].st \in {"RESERVED", "CANCELLED"}

\* Covers and transfers have no reservation.
AutoIsConfirmed == \A a \in Automatic : rows[a].st \in {"NONE", "CONFIRMED"}

\* What a reservation and the TST job remember is a document and its number.
MemoryOK == /\ holder \in [doc : Drafts \union {NoDoc}, seq : 0 .. MaxSeq]
            /\ holder.seq # 0 => holder.doc \in Drafts
            /\ gap \in [doc : All \union {NoDoc}, seq : 0 .. MaxSeq]
            /\ gap # Idle => gap.doc \in All /\ gap.seq # 0

IInv == TypeOK /\ UniqueNumbers /\ RejectsUnissued /\ AutoIsConfirmed /\ MemoryOK

\* The registry as the rows of the regime show it.
Held == {<<d, rows[d].seq>> : d \in {x \in All : rows[x].st \in Live}}
Sealed == {<<d, rows[d].seq>> : d \in {x \in All : rows[x].st = "CONFIRMED"}}

-----------------------------------------------------------------------------
(* One row changes *)

\* For the registry the row is as it was.
Kept(e) == /\ rows'[e].st \in Live <=> rows[e].st \in Live
           /\ rows[e].st \in Live => rows'[e].seq = rows[e].seq
           /\ rows'[e].st = "CONFIRMED" <=> rows[e].st = "CONFIRMED"

\* What a row may be.
LEMMA RowTyped ==
  ASSUME IInv, NEW d \in All
  PROVE  /\ rows[d] \in Row \union {NoRow}
         /\ rows[d].st # "NONE" => rows[d] \in Row /\ rows[d].seq \in 1 .. MaxSeq
         /\ rows[d].st = "NONE" => rows[d] = NoRow
         /\ rows[d].st \in Live \union {"CANCELLED", "NONE"}
BY DEF IInv, TypeOK, Row, NoRow, Live

\* The kinds of documents.
LEMMA Kinds ==
  /\ Docs \subseteq Drafts /\ Citizens \subseteq Drafts /\ Automatic \subseteq Drafts
  /\ Drafts \subseteq All /\ Tests \subseteq All /\ Automatic \subseteq All
  /\ \A t \in Tests : t \notin Drafts /\ t \notin Automatic
<1>1. Automatic \subseteq Drafts /\ Docs \subseteq Drafts /\ Citizens \subseteq Drafts
  BY DEF Drafts
<1>2. Drafts \subseteq All /\ Tests \subseteq All
  BY DEF All
<1>3. \A t \in Tests : t \notin Drafts
  BY DistinctAssumption
<1> QED BY <1>1, <1>2, <1>3

\* When no row changes for the registry, nothing happens to it.
LEMMA NoRowChanges ==
  ASSUME IInv, \A e \in All : Kept(e)
  PROVE  UniqueNumbers' /\ UNCHANGED Registry!vars
<1>1. Held' = Held
  BY DEF Held, Kept
<1>2. Sealed' = Sealed
  BY DEF Sealed, Kept, Live
<1>3. UniqueNumbers'
  BY DEF IInv, UniqueNumbers, IsLive, Kept
<1> QED BY <1>1, <1>2, <1>3 DEF Registry!vars, Held, Sealed

\* The steps of the registry, in these terms.
LEMMA RegistrySteps ==
  ASSUME NEW d \in All, NEW m \in 1 .. MaxSeq, NEW n \in 1 .. MaxSeq
  PROVE  /\ Held' = Held /\ Sealed' = Sealed => UNCHANGED Registry!vars
         /\ (\A p \in Held : p[1] # d /\ p[2] # n) /\ Held' = Held \union {<<d, n>>}
            /\ Sealed' = Sealed => Registry!Take(d, n)
         /\ (\A p \in Held : p[1] # d /\ p[2] # n) /\ Held' = Held \union {<<d, n>>}
            /\ Sealed' = Sealed \union {<<d, n>>} => Registry!TakeForGood(d, n)
         /\ <<d, n>> \in Held \ Sealed /\ Held' = Held \ {<<d, n>>}
            /\ Sealed' = Sealed => Registry!Drop(d, n)
         /\ <<d, n>> \in Held /\ Held' = Held
            /\ Sealed' = Sealed \union {<<d, n>>} => Registry!Seal(d, n)
         /\ <<d, m>> \in Held \ Sealed /\ (\A p \in Held : p[2] # n)
            /\ Held' = (Held \ {<<d, m>>}) \union {<<d, n>>}
            /\ Sealed' = Sealed => Registry!Exchange(d, m, n)
BY DEF Held, Sealed, Registry!vars, Registry!Take, Registry!TakeForGood, Registry!Drop,
       Registry!Seal, Registry!Exchange

\* A row that is not confirmed changes: its document takes, drops, exchanges or
\* seals a number that no other live row carries.
LEMMA OneRowChanges ==
  ASSUME IInv, NEW d \in All, \A e \in All \ {d} : Kept(e), NEW n \in 1 .. MaxSeq,
         rows[d].st # "CONFIRMED",
         rows'[d].st \in Live =>
           /\ rows'[d].seq = n
           /\ \A e \in All \ {d} : IsLive(e) => rows[e].seq # n,
         rows'[d].st = "CONFIRMED" => ~IsLive(d) \/ rows[d].seq = n
  PROVE  UniqueNumbers' /\ [Registry!Next]_(Registry!vars)
<1>1. UniqueNumbers'
  BY DEF IInv, UniqueNumbers, IsLive, Kept
<1> DEFINE Rest == {<<e, rows[e].seq>> : e \in {x \in All \ {d} : rows[x].st \in Live}}
           RestSealed == {<<e, rows[e].seq>> : e \in {x \in All \ {d} : rows[x].st = "CONFIRMED"}}
<1>2. /\ IsLive(d) => Held = Rest \union {<<d, rows[d].seq>>}
      /\ ~IsLive(d) => Held = Rest
  BY DEF Held, IsLive
<1>3. Sealed = RestSealed
  BY DEF Sealed
<1>4. /\ rows'[d].st \in Live => Held' = Rest \union {<<d, n>>}
      /\ rows'[d].st \notin Live => Held' = Rest
  <2>1. Rest = {<<e, rows'[e].seq>> : e \in {x \in All \ {d} : rows'[x].st \in Live}}
    BY DEF Kept
  <2> HIDE DEF Rest
  <2> QED BY <2>1 DEF Held
<1>5. /\ rows'[d].st = "CONFIRMED" => Sealed' = RestSealed \union {<<d, n>>}
      /\ rows'[d].st # "CONFIRMED" => Sealed' = RestSealed
  <2>1. RestSealed = {<<e, rows'[e].seq>> : e \in {x \in All \ {d} : rows'[x].st = "CONFIRMED"}}
    BY DEF Kept, Live
  <2>2. rows'[d].st = "CONFIRMED" => rows'[d].seq = n
    BY DEF Live
  <2> HIDE DEF RestSealed
  <2> QED BY <2>1, <2>2 DEF Sealed
<1>6. /\ \A p \in Rest : p[1] # d
      /\ \A p \in RestSealed : p[1] # d
      /\ rows'[d].st \in Live => \A p \in Rest : p[2] # n
  BY DEF IsLive
<1>7. IsLive(d) => rows[d].seq \in 1 .. MaxSeq
  BY RowTyped DEF IsLive, Live
<1>8. "CONFIRMED" \in Live
  BY DEF Live
<1> HIDE DEF Rest, RestSealed
<1> DEFINE Unchanged == Held' = Held /\ Sealed' = Sealed
           Some(m) == \/ Registry!Take(d, m) \/ Registry!Drop(d, m) \/ Registry!Seal(d, m)
                      \/ Registry!TakeForGood(d, m)
                      \/ \E k \in 1 .. MaxSeq : Registry!Exchange(d, k, m)
<1>9. ASSUME ~IsLive(d), rows'[d].st \notin Live PROVE Unchanged
  BY <1>2, <1>3, <1>4, <1>5, <1>8, <1>9
<1>10. ASSUME ~IsLive(d), rows'[d].st \in Live, rows'[d].st # "CONFIRMED"
       PROVE  Registry!Take(d, n)
  BY <1>2, <1>3, <1>4, <1>5, <1>6, <1>10, RegistrySteps
<1>11. ASSUME ~IsLive(d), rows'[d].st = "CONFIRMED" PROVE Registry!TakeForGood(d, n)
  BY <1>2, <1>3, <1>4, <1>5, <1>6, <1>8, <1>11, RegistrySteps
<1>12. ASSUME IsLive(d), rows'[d].st \notin Live PROVE \E m \in 1 .. MaxSeq : Registry!Drop(d, m)
  <2>1. PICK m \in 1 .. MaxSeq : m = rows[d].seq
    BY <1>7, <1>12
  <2>2. <<d, m>> \notin Rest /\ <<d, m>> \notin RestSealed
    BY <1>6
  <2>3. <<d, m>> \in Held \ Sealed /\ Held' = Held \ {<<d, m>>} /\ Sealed' = Sealed
    BY <1>2, <1>3, <1>4, <1>5, <1>8, <1>12, <2>1, <2>2
  <2> QED BY <2>3, RegistrySteps
<1>13. ASSUME IsLive(d), rows'[d].st = "CONFIRMED" PROVE Registry!Seal(d, n)
  BY <1>2, <1>3, <1>4, <1>5, <1>8, <1>13, RegistrySteps
<1>14. ASSUME IsLive(d), rows'[d].st \in Live, rows'[d].st # "CONFIRMED"
       PROVE  Unchanged \/ Registry!Exchange(d, rows[d].seq, n)
  <2>1. CASE rows[d].seq = n
    BY <1>2, <1>3, <1>4, <1>5, <1>14, <2>1
  <2>2. CASE rows[d].seq # n
    <3>1. PICK m \in 1 .. MaxSeq : m = rows[d].seq
      BY <1>7, <1>14
    <3>2. <<d, m>> \notin Rest /\ <<d, m>> \notin RestSealed
      BY <1>6
    <3>3. /\ <<d, m>> \in Held \ Sealed /\ Held' = (Held \ {<<d, m>>}) \union {<<d, n>>}
          /\ Sealed' = Sealed
      BY <1>2, <1>3, <1>4, <1>5, <1>14, <3>1, <3>2
    <3>4. \A p \in Held : p[2] # n
      BY <1>2, <1>6, <1>14, <2>2
    <3> QED BY <3>1, <3>3, <3>4, RegistrySteps
  <2> QED BY <2>1, <2>2
<1>15. Unchanged \/ \E m \in 1 .. MaxSeq : Some(m)
  <2>1. CASE rows'[d].st \in Live /\ ~IsLive(d)
    <3>1. Some(n)
      BY <1>10, <1>11, <2>1
    <3> HIDE DEF Some
    <3> QED BY <3>1
  <2>2. CASE rows'[d].st \in Live /\ IsLive(d)
    <3>1. Unchanged \/ Some(n)
      BY <1>7, <1>13, <1>14, <2>2
    <3> QED BY <3>1
  <2>3. CASE rows'[d].st \notin Live /\ IsLive(d)
    BY <1>12, <2>3
  <2>4. CASE rows'[d].st \notin Live /\ ~IsLive(d)
    BY <1>9, <2>4
  <2> QED BY <2>1, <2>2, <2>3, <2>4
<1> QED BY <1>1, <1>15, RegistrySteps DEF Registry!Next

-----------------------------------------------------------------------------
(* The three ways in which the rows change *)

\* A row is inserted in the place of some that are cancelled.
LEMMA Inserts ==
  ASSUME IInv, NEW d \in All, NEW st \in {"RESERVED", "CONFIRMED"}, NEW n \in 1 .. MaxSeq,
         NEW gone \in SUBSET All,
         Insert(d, st, n, gone), UNCHANGED rejecting, MemoryOK',
         \A r \in gone \ {d} : rows[r].st = "CANCELLED" /\ r \notin rejecting,
         rows[d].st \in {"NONE", "CANCELLED", "RESERVED"}, d \notin rejecting,
         d \in Automatic <=> st = "CONFIRMED"
  PROVE  IInv' /\ [Registry!Next]_(Registry!vars)
<1>1. PICK c : c = [st |-> st, seq |-> n, at |-> clock]
  OBVIOUS
<1>2. c \in Row /\ c.st = st /\ c.seq = n
  BY <1>1 DEF IInv, TypeOK, Row, Live
<1>3. /\ clock' = clock + 1 /\ IndexAllows(n, gone \union {d})
      /\ rows' = [x \in All |-> IF x = d THEN c ELSE IF x \in gone THEN NoRow ELSE rows[x]]
  BY <1>1 DEF Insert
<1>4. rows'[d] = c /\ \A e \in All \ {d} : rows'[e] = IF e \in gone THEN NoRow ELSE rows[e]
  BY <1>3
<1>5. rows' \in [All -> Row \union {NoRow}] /\ clock' \in Nat
  BY <1>2, <1>3 DEF IInv, TypeOK
<1>6. \A e \in All \ {d} : Kept(e)
  BY <1>4 DEF Kept, NoRow, Live
<1>7. ASSUME NEW e \in All \ {d}, IsLive(e) PROVE rows[e].seq # n
  <2>1. e \notin gone
    BY <1>7 DEF IsLive, Live
  <2>2. rows[e].st \in Indexed
    BY <1>7, IndexAssumption DEF IsLive
  <2> QED BY <1>3, <2>1, <2>2 DEF IndexAllows
<1>8. st = "CONFIRMED" => ~IsLive(d)
  BY DEF IInv, AutoIsConfirmed, IsLive, Live
<1>9. UniqueNumbers' /\ [Registry!Next]_(Registry!vars)
  BY <1>2, <1>4, <1>6, <1>7, <1>8, OneRowChanges
<1>10. RejectsUnissued'
  <2>1. \A e \in rejecting : e \in All /\ e # d /\ e \notin gone
    BY Kinds DEF IInv, TypeOK
  <2> QED BY <1>4, <2>1 DEF IInv, RejectsUnissued
<1>11. AutoIsConfirmed'
  BY <1>2, <1>4, Kinds DEF IInv, AutoIsConfirmed, NoRow
<1>12. TypeOK'
  BY <1>5 DEF IInv, TypeOK, MemoryOK
<1> QED BY <1>9, <1>10, <1>11, <1>12 DEF IInv

\* A row goes from one status to another.
LEMMA Moves ==
  ASSUME IInv, NEW d \in All, NEW to \in {"CONFIRMING", "CONFIRMED", "CANCELLED"},
         rows' = [rows EXCEPT ![d].st = to], UNCHANGED <<holder, gap, clock>>,
         \/ rows[d].st = "RESERVED"
         \/ rows[d].st = "CONFIRMING" /\ to # "CONFIRMING"
         \/ rows[d].st = "CANCELLED" /\ to = "CANCELLED",
         rejecting' = rejecting \ {d}
  PROVE  IInv' /\ [Registry!Next]_(Registry!vars)
<1>1. PICK c : c = [rows[d] EXCEPT !.st = to]
  OBVIOUS
<1>2. c \in Row /\ c.st = to /\ c.seq = rows[d].seq /\ c.seq \in 1 .. MaxSeq
  BY <1>1, RowTyped DEF Row, Live
<1>3. rows' = [rows EXCEPT ![d] = c]
  BY <1>1
<1>4. /\ rows' \in [All -> Row \union {NoRow}] /\ rows'[d] = c
      /\ \A e \in All \ {d} : rows'[e] = rows[e]
  BY <1>2, <1>3 DEF IInv, TypeOK
<1>5. d \notin Automatic
  BY DEF IInv, AutoIsConfirmed
<1>6. UniqueNumbers' /\ [Registry!Next]_(Registry!vars)
  <2>1. \A e \in All \ {d} : Kept(e)
    BY <1>4 DEF Kept
  <2>2. CASE rows[d].st = "CANCELLED"
    BY <1>2, <1>4, <2>1, <2>2, NoRowChanges DEF Kept, Live
  <2>3. CASE rows[d].st # "CANCELLED"
    <3>1. IsLive(d) /\ rows[d].st # "CONFIRMED"
      BY <2>3 DEF IsLive, Live
    <3>2. \A e \in All \ {d} : IsLive(e) => rows[e].seq # rows[d].seq
      BY <3>1 DEF IInv, UniqueNumbers
    <3> QED BY <1>2, <1>4, <2>1, <3>1, <3>2, OneRowChanges
  <2> QED BY <2>2, <2>3
<1>7. RejectsUnissued'
  BY <1>4, Kinds DEF IInv, RejectsUnissued, TypeOK
<1>8. AutoIsConfirmed'
  BY <1>4, <1>5, Kinds DEF IInv, AutoIsConfirmed
<1>9. MemoryOK'
  BY DEF IInv, MemoryOK
<1>10. TypeOK'
  BY <1>4 DEF IInv, TypeOK
<1> QED BY <1>6, <1>7, <1>8, <1>9, <1>10 DEF IInv

\* The rows are as they were, or a cancelled one is gone.
LEMMA Stays ==
  ASSUME IInv, MemoryOK', UNCHANGED clock,
         \/ UNCHANGED rows
         \/ \E r \in All : /\ rows[r].st = "CANCELLED" /\ r \notin rejecting'
                           /\ rows' = [rows EXCEPT ![r] = NoRow],
         rejecting' \in SUBSET Drafts,
         \A d \in rejecting' : rows[d].st \in {"RESERVED", "CANCELLED"}
  PROVE  IInv' /\ [Registry!Next]_(Registry!vars)
<1>1. rows \in [All -> Row \union {NoRow}]
  BY DEF IInv, TypeOK
<1>2. /\ rows' \in [All -> Row \union {NoRow}]
      /\ \A e \in All : \/ rows'[e] = rows[e]
                        \/ rows[e].st = "CANCELLED" /\ e \notin rejecting' /\ rows'[e] = NoRow
  BY <1>1
<1>3. \A e \in All : Kept(e)
  BY <1>2 DEF Kept, NoRow, Live
<1>4. UniqueNumbers' /\ [Registry!Next]_(Registry!vars)
  BY <1>3, NoRowChanges
<1>5. RejectsUnissued'
  BY <1>2, Kinds DEF RejectsUnissued
<1>6. AutoIsConfirmed'
  BY <1>2, Kinds DEF IInv, AutoIsConfirmed, NoRow
<1>7. TypeOK'
  BY <1>2 DEF IInv, TypeOK, MemoryOK
<1> QED BY <1>4, <1>5, <1>6, <1>7 DEF IInv

-----------------------------------------------------------------------------
(* Every step *)

\* The first state satisfies the invariant, and is one of the registry.
LEMMA InitInvariant == Init => IInv /\ Registry!Init
<1> SUFFICES ASSUME Init PROVE IInv /\ Registry!Init
  OBVIOUS
<1>1. \A d \in All : rows[d] = NoRow /\ rows[d].st = "NONE"
  BY DEF Init, NoRow
<1>2. MemoryOK
  BY BoundAssumption DEF Init, MemoryOK, Idle
<1>3. TypeOK
  BY <1>2 DEF Init, TypeOK, MemoryOK
<1>4. UniqueNumbers /\ RejectsUnissued /\ AutoIsConfirmed
  BY <1>1, Kinds DEF Init, UniqueNumbers, RejectsUnissued, AutoIsConfirmed, IsLive, Live
<1>5. Registry!Init
  BY <1>1 DEF Registry!Init, Live
<1> QED BY <1>2, <1>3, <1>4, <1>5 DEF IInv

\* reserve_number and its likes: a recycled number, a clash of keys, the next one.
LEMMA ReserveSteps ==
  ASSUME IInv,
         \/ \E d \in Drafts : ReserveRecycled(d) \/ ReserveClash(d) \/ ReserveLook(d)
         \/ ReserveMax \/ ReserveNext \/ ReserveFails
  PROVE  IInv' /\ [Registry!Next]_(Registry!vars)
<1> USE BoundAssumption
<1> DEFINE Good == IInv' /\ [Registry!Next]_(Registry!vars)
<1>0. /\ \A d \in Drafts : NewStatus(d) \in {"RESERVED", "CONFIRMED"}
                           /\ (d \in Automatic <=> NewStatus(d) = "CONFIRMED")
      /\ Drafts \subseteq All /\ rejecting \in SUBSET Drafts
      /\ \A d \in rejecting : rows[d].st \in {"RESERVED", "CANCELLED"}
  <2>1. \A d \in Drafts : /\ NewStatus(d) \in {"RESERVED", "CONFIRMED"}
                          /\ d \in Automatic <=> NewStatus(d) = "CONFIRMED"
    BY DEF NewStatus
  <2> QED BY <2>1, Kinds DEF IInv, TypeOK, RejectsUnissued
<1>1. ASSUME NEW d \in Drafts, ReserveRecycled(d) PROVE Good
  <2>1. PICK r \in All : r \in Recyclable(d) /\ Insert(d, NewStatus(d), rows[r].seq, {r})
    BY <1>1 DEF ReserveRecycled, Oldest
  <2>2. /\ rows[d].st \in {"NONE", "CANCELLED", "RESERVED"} /\ d \notin rejecting
        /\ UNCHANGED <<rejecting, holder, gap>>
    BY <1>1 DEF ReserveRecycled, OwnRowGivesWay
  <2>3. r \notin rejecting /\ (rows[r].st = "CANCELLED" \/ (r = d /\ rows[r].st = "RESERVED"))
    BY <2>1 DEF Recyclable
  <2>4. rows[r].seq \in 1 .. MaxSeq
    BY <2>3, RowTyped
  <2>5. MemoryOK'
    BY <2>2 DEF IInv, MemoryOK
  <2> QED BY <1>0, <2>1, <2>2, <2>3, <2>4, <2>5, Inserts
<1>2. ASSUME NEW d \in Drafts, ReserveClash(d) PROVE Good
  <2>1. PICK r \in All : r \in Recyclable(d) /\ rows' = [rows EXCEPT ![r] = NoRow]
    BY <1>2 DEF ReserveClash, Oldest
  <2>2. r \notin rejecting /\ rows[r].st = "CANCELLED"
    BY <1>2, <2>1 DEF ReserveClash, Recyclable
  <2>3. UNCHANGED <<rejecting, holder, gap, clock>>
    BY <1>2 DEF ReserveClash
  <2>4. MemoryOK'
    BY <2>3 DEF IInv, MemoryOK
  <2> QED BY <1>0, <2>1, <2>2, <2>3, <2>4, Stays
<1>3. CASE (\E d \in Drafts : ReserveLook(d)) \/ ReserveMax \/ ReserveFails
  <2>1. MemoryOK'
    <3>1. CASE \E d \in Drafts : ReserveLook(d)
      BY <3>1 DEF ReserveLook, IInv, MemoryOK
    <3>2. CASE ReserveMax
      <4>1. PICK n \in 1 .. MaxSeq : holder' = [holder EXCEPT !.seq = n]
        BY <3>2 DEF ReserveMax
      <4>2. holder.doc \in Drafts
        BY <3>2, DistinctAssumption DEF ReserveMax, IInv, MemoryOK, Idle
      <4>3. holder'.doc = holder.doc /\ holder' \in [doc : Drafts \union {NoDoc}, seq : 0 .. MaxSeq]
        BY <4>1 DEF IInv, MemoryOK
      <4> QED BY <3>2, <4>2, <4>3 DEF ReserveMax, IInv, MemoryOK
    <3>3. CASE ReserveFails
      BY <3>3 DEF ReserveFails, IInv, MemoryOK, Idle
    <3> QED BY <1>3, <3>1, <3>2, <3>3
  <2>2. UNCHANGED <<rows, rejecting, clock>>
    BY <1>3 DEF ReserveLook, ReserveMax, ReserveFails
  <2> QED BY <1>0, <2>1, <2>2, Stays
<1>4. CASE ReserveNext
  <2>1. PICK d \in Drafts : d = holder.doc
    BY <1>4 DEF ReserveNext, IInv, MemoryOK
  <2>2. /\ rows[d].st \in {"NONE", "CANCELLED", "RESERVED"} /\ d \notin rejecting
        /\ Insert(d, NewStatus(d), holder.seq, {}) /\ UNCHANGED <<rejecting, gap>>
        /\ holder' = Idle
    BY <1>4, <2>1 DEF ReserveNext, OwnRowGivesWay
  <2>3. holder.seq \in 1 .. MaxSeq
    BY <1>4 DEF ReserveNext, IInv, MemoryOK
  <2>4. MemoryOK'
    BY <2>2 DEF IInv, MemoryOK, Idle
  <2>5. DEFINE gone == {}
  <2>6. gone \in SUBSET All /\ \A r \in gone \ {d} : rows[r].st = "CANCELLED" /\ r \notin rejecting
    OBVIOUS
  <2> QED BY <1>0, <2>2, <2>3, <2>4, <2>6, Inserts
<1> QED BY <1>1, <1>2, <1>3, <1>4

\* confirm_number, finalize_number, cancel_number and reject_document.
LEMMA StatusSteps ==
  ASSUME IInv, NEW d \in All,
         \/ Confirm(d) \/ Finalize(d) \/ Cancel(d) \/ TstFinish(d)
         \/ d \in Drafts /\ (RejectBegin(d) \/ RejectCommit(d))
  PROVE  IInv' /\ [Registry!Next]_(Registry!vars)
<1>1. CASE Confirm(d) \/ Finalize(d) \/ Cancel(d) \/ TstFinish(d)
  <2>1. PICK to \in {"CONFIRMING", "CONFIRMED", "CANCELLED"} :
          /\ rows' = [rows EXCEPT ![d].st = to]
          /\ rows[d].st = "RESERVED" \/ (rows[d].st = "CONFIRMING" /\ to # "CONFIRMING")
    BY <1>1 DEF Confirm, Finalize, Cancel, TstFinish, Move
  <2>2. UNCHANGED <<rejecting, holder, gap, clock>> /\ d \notin rejecting
    BY <1>1 DEF Confirm, Finalize, Cancel, TstFinish, Move
  <2> QED BY <2>1, <2>2, Moves
<1>2. CASE d \in Drafts /\ RejectBegin(d)
  <2>1. MemoryOK'
    BY <1>2 DEF RejectBegin, IInv, MemoryOK
  <2> QED BY <1>2, <2>1, Stays DEF RejectBegin, IInv, TypeOK, RejectsUnissued
<1>3. CASE RejectCommit(d)
  <2>1. rows[d].st \in {"RESERVED", "CANCELLED"}
    BY <1>3 DEF RejectCommit, IInv, RejectsUnissued
  <2> QED BY <1>3, <2>1, Moves DEF RejectCommit
<1> QED BY <1>1, <1>2, <1>3

\* fill_number_gaps_tst: what it remembers may be old, the insertion looks again.
LEMMA GapSteps ==
  ASSUME IInv,
         (\E r \in All : FindGap(r)) \/ (\E t \in Tests : TstClaim(t)) \/ TstGivesUp
  PROVE  IInv' /\ [Registry!Next]_(Registry!vars)
<1> DEFINE Good == IInv' /\ [Registry!Next]_(Registry!vars)
<1>0. /\ rejecting \in SUBSET Drafts
      /\ \A d \in rejecting : rows[d].st \in {"RESERVED", "CANCELLED"}
  BY DEF IInv, TypeOK, RejectsUnissued
<1>1. ASSUME NEW r \in All, FindGap(r) PROVE Good
  <2>1. rows[r].seq \in 1 .. MaxSeq /\ gap' = [doc |-> r, seq |-> rows[r].seq]
        /\ UNCHANGED <<rows, rejecting, holder, clock>>
    BY <1>1, RowTyped DEF FindGap
  <2>2. MemoryOK'
    BY <2>1, BoundAssumption DEF IInv, MemoryOK
  <2> QED BY <1>0, <2>1, <2>2, Stays
<1>2. ASSUME NEW t \in Tests, TstClaim(t) PROVE Good
  <2>1. PICK r \in All : /\ r = gap.doc /\ gap.seq \in 1 .. MaxSeq
                         /\ rows[r].st = "CANCELLED" /\ r \notin rejecting
    BY <1>2, BoundAssumption DEF TstClaim, StillCancelled, IInv, MemoryOK
  <2>2. /\ Insert(t, "RESERVED", gap.seq, {r}) /\ rows[t].st = "NONE"
        /\ UNCHANGED <<rejecting, holder>> /\ gap' = Idle
    BY <1>2, <2>1 DEF TstClaim, HasRow
  <2>3. t \in All /\ t \notin rejecting /\ t \notin Automatic
    BY <1>0, Kinds
  <2>4. MemoryOK'
    BY <2>2, BoundAssumption DEF IInv, MemoryOK, Idle
  <2> QED BY <2>1, <2>2, <2>3, <2>4, Inserts
<1>3. CASE TstGivesUp
  <2>1. MemoryOK' /\ UNCHANGED <<rows, rejecting, clock>>
    BY <1>3, BoundAssumption DEF TstGivesUp, IInv, MemoryOK, Idle
  <2> QED BY <1>0, <2>1, Stays
<1> QED BY <1>1, <1>2, <1>3

\* Every step keeps it, and is a step of the registry or none.
LEMMA NextInvariant == IInv /\ [Next]_vars => IInv' /\ [Registry!Next]_(Registry!vars)
<1> SUFFICES ASSUME IInv, [Next]_vars PROVE IInv' /\ [Registry!Next]_(Registry!vars)
  OBVIOUS
<1>1. CASE Next
  <2>1. Drafts \subseteq All /\ Tests \subseteq All
    BY Kinds
  <2> QED BY <1>1, <2>1, ReserveSteps, StatusSteps, GapSteps DEF Next
<1>2. CASE UNCHANGED vars
  <2>1. MemoryOK'
    BY <1>2 DEF vars, IInv, MemoryOK
  <2> QED BY <1>2, <2>1, Stays DEF vars, IInv, TypeOK, RejectsUnissued
<1> QED BY <1>1, <1>2

\* The inductive invariant holds throughout.
LEMMA Invariance == Spec => []IInv
BY InitInvariant, NextInvariant, PTL DEF Spec

-----------------------------------------------------------------------------
(* The theorems *)

\* Every variable keeps its type.
THEOREM TypeCorrect == Spec => []TypeOK
<1>1. IInv => TypeOK
  BY DEF IInv
<1> QED BY <1>1, Invariance, PTL

\* However reservations, rejections and the filling of gaps interleave, and
\* whatever they read before: two live documents never carry the same number.
THEOREM NumbersAreUnique == Spec => []UniqueNumbers
<1>1. IInv => UniqueNumbers
  BY DEF IInv
<1> QED BY <1>1, Invariance, PTL

\* The GLOBAL regime implements the abstract registry: a document takes a number
\* that nobody holds, gives it back or swaps it while it is not final, and keeps
\* it for ever once it is.
THEOREM RegistryIsImplemented == Spec => ImplementsRegistry
BY InitInvariant, NextInvariant, Invariance, PTL DEF Spec, ImplementsRegistry, Registry!Spec

=============================================================================
