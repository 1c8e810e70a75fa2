------------------------- MODULE DigitalSigningProofs -------------------------
(***************************************************************************)
(* What is proved of DigitalSigning for every number of documents,         *)
(* sessions, requests and faults, batches included: its types, that no     *)
(* number is CONFIRMED without its PDF, that no session changes after its  *)
(* end, and that nothing of a batch is signed before all of it is.  Every  *)
(* step is shown to keep IInv and to leave the sessions that ended as they *)
(* were, one lemma for each kind of process; BInv adds to IInv what the    *)
(* requests know of the batches, and SInv what holds without batches.      *)
(***************************************************************************)
EXTENDS DigitalSigning, FiniteSetTheorems, SequenceTheorems, WellFoundedInduction, TLAPS

-----------------------------------------------------------------------------
(* Types, one part for each group of variables *)

OpenMemory == [at : {"idle", "lock", "wait", "reserve", "again", "read", "start", "undo"},
               d : Docs \union {NoDoc}, tk : Nat, left : SUBSET Docs,
               batch : 0 .. MaxSessions, pdf : Pdfs]
AskMemory == [at : {"idle", "ask", "consume", "cert", "confirm", "save", "enqueue",
                    "completing", "register", "siblings", "closing", "marking", "undo",
                    "clear", "tx", "expire", "number"},
              s : 0 .. MaxSessions, d : Docs \union {NoDoc}, todo : Todos,
              left : SUBSET Sessions]
CloseMemory == [at : {"idle", "check", "read", "upload", "finalize", "draft", "put",
                      "settle", "signer", "mark", "tidy", "row", "fail", "failed", "drop"},
                why : {"none", "stale", "lost", "upload"}, pdf : 0 .. MaxSessions]
FallMemory == [at : {"idle", "select", "next", "pdf", "number", "release"},
               batch : 0 .. MaxSessions, live : SUBSET Sessions, flying : SUBSET Sessions,
               left : SUBSET Sessions, s : 0 .. MaxSessions]

DocumentTyped == /\ draft \in [Docs -> {"sent_to_sign", "signed", "rejected"}]
                 /\ signer \in [Docs -> {"pending", "signed", "rejected"}]
                 /\ od \in [Docs -> Number]
                 /\ saved \in [Docs -> 0 .. MaxSessions]
                 /\ official \in [Docs -> 0 .. MaxSessions]
                 /\ row \in [Docs -> QueueRow]
SessTyped == sess \in [Sessions -> Session]
OpenTyped == open \in [Openers -> OpenMemory]
AskTyped == req \in [Requests \union {Job} -> AskMemory]
CloseTyped == close \in [Docs -> CloseMemory]
FallTyped == fall \in [Fallers -> FallMemory]
FaultsTyped == faults \in 0 .. MaxFaults

Parts == /\ LockTypeOK /\ DocumentTyped /\ SessTyped /\ OpenTyped /\ AskTyped
         /\ CloseTyped /\ FallTyped /\ FaultsTyped

\* The type invariant, by parts.
LEMMA TypeParts == (TypeOK <=> Parts) /\ (TypeOK' <=> Parts')
<1>1. TypeOK <=> Parts
  BY DEF Parts, TypeOK, DocumentTyped, SessTyped, OpenTyped, AskTyped, CloseTyped, FallTyped,
         FaultsTyped, OpenMemory, AskMemory, CloseMemory, FallMemory
<1>2. TypeOK' <=> Parts'
  BY DEF Parts, TypeOK, DocumentTyped, SessTyped, OpenTyped, AskTyped, CloseTyped, FallTyped,
         FaultsTyped, OpenMemory, AskMemory, CloseMemory, FallMemory
<1> QED BY <1>1, <1>2

\* Some relation that contains < has no infinite descent.
LEMMA LessIsWellFounded ==
  \E R : IsWellFoundedOn(R, Nat) /\ \A a, b \in Nat : a < b => <<a, b>> \in R
<1>1. \A a, b \in Nat : a < b => <<a, b>> \in OpToRel(<, Nat)
  BY Zenon DEF OpToRel
<1> QED BY <1>1, NatLessThanWellFounded, Zenon

\* The least of some sessions is one of them.
LEMMA LeastSession ==
  ASSUME NEW S \in SUBSET Sessions, S # {}
  PROVE  \E s \in S : \A t \in S : s <= t
<1>1. S \subseteq Nat
  BY DigitalAssumption DEF Sessions
<1>2. PICK R : IsWellFoundedOn(R, Nat) /\ \A a, b \in Nat : a < b => <<a, b>> \in R
  BY LessIsWellFounded
<1>3. IsWellFoundedOn(R, Nat)
  BY <1>2
<1>4. \E x \in S : \A y \in S : ~(<<y, x>> \in R)
  BY <1>1, <1>3, WFMin, Zenon
<1>5. PICK x \in S : \A y \in S : ~(<<y, x>> \in R)
  BY <1>4
<1>6. ASSUME NEW y \in S PROVE x <= y
  <2>1. x \in Nat /\ y \in Nat
    BY <1>1
  <2>2. ~(y < x)
    BY <1>2, <1>5, <2>1
  <2> QED BY <2>1, <2>2
<1> QED BY <1>6

\* First chooses one of them.
LEMMA FirstIsOne ==
  ASSUME NEW S \in SUBSET Sessions, S # {}
  PROVE  First(S) \in S
BY LeastSession DEF First

\* Every step on a lock keeps its types.
LEMMA LockMoves ==
  ASSUME LockTypeOK, NEW a \in Callers, NEW d \in Docs \union {NoDoc},
         \/ Acquire(a, d) \/ Release(a, d) \/ Settle(a, d)
         \/ Dead(a) /\ UNCHANGED store
         \/ LockStep(a) \/ KeyExpires(d)
         \/ UNCHANGED lockVars
  PROVE  LockTypeOK'
<1>1. CASE Acquire(a, d)
  BY <1>1 DEF LockTypeOK, Acquire, Goes, LockSteps
<1>2. CASE Release(a, d)
  BY <1>2 DEF LockTypeOK, Release, Goes, LockSteps
<1>3. CASE Settle(a, d)
  BY <1>3 DEF LockTypeOK, Settle, Goes, LockSteps
<1>4. CASE Dead(a) /\ UNCHANGED store
  BY <1>4 DEF LockTypeOK, Dead, Still, LockSteps, store
<1>5. CASE Check(a)
  <2>1. move[a].d \in Docs \union {NoDoc}
    BY DEF LockTypeOK
  <2>2. CASE inprocess[move[a].d] = NoPdf
    BY <1>5, <2>1, <2>2 DEF LockTypeOK, Check, Goes, LockSteps
  <2>3. CASE inprocess[move[a].d] # NoPdf
    <3>1. /\ move' = [move EXCEPT ![a] = [at |-> "lost", d |-> move[a].d]]
          /\ key' = [key EXCEPT ![move[a].d] = FALSE]
          /\ UNCHANGED <<tosign, inprocess>>
      BY <1>5, <2>3 DEF Check, Goes
    <3>2. key' \in [Docs -> BOOLEAN]
      BY <3>1 DEF LockTypeOK
    <3> QED BY <2>1, <3>1, <3>2 DEF LockTypeOK, LockSteps
  <2> QED BY <2>2, <2>3
<1>6. CASE Take(a)
  <2>1. move[a].d \in Docs \union {NoDoc}
    BY DEF LockTypeOK
  <2>2. CASE tosign[move[a].d] = NoPdf
    <3>1. /\ move' = [move EXCEPT ![a] = [at |-> "lost", d |-> move[a].d]]
          /\ key' = [key EXCEPT ![move[a].d] = FALSE]
          /\ UNCHANGED <<tosign, inprocess>>
      BY <1>6, <2>2 DEF Take, Goes
    <3>2. key' \in [Docs -> BOOLEAN]
      BY <3>1 DEF LockTypeOK
    <3> QED BY <2>1, <3>1, <3>2 DEF LockTypeOK, LockSteps
  <2>3. CASE tosign[move[a].d] # NoPdf
    BY <1>6, <2>1, <2>3 DEF LockTypeOK, Take, Goes, LockSteps
  <2> QED BY <2>2, <2>3
<1>7. CASE Clear(a)
  BY <1>7 DEF LockTypeOK, Clear, Goes, LockSteps
<1>8. CASE Back(a)
  BY <1>8 DEF LockTypeOK, Back, Goes, LockSteps
<1>9. CASE Drop(a)
  BY <1>9 DEF LockTypeOK, Drop, Goes, LockSteps
<1>10. CASE KeyExpires(d)
  BY <1>10 DEF LockTypeOK, KeyExpires
<1>11. CASE UNCHANGED lockVars
  BY <1>11 DEF LockTypeOK, lockVars, store
<1> QED BY <1>1, <1>2, <1>3, <1>4, <1>5, <1>6, <1>7, <1>8, <1>9, <1>10, <1>11 DEF LockStep

-----------------------------------------------------------------------------
(* What changes a session *)

\* What a session is about, and that its answer was used, stay.
Same(t) == /\ sess'[t].d = sess[t].d /\ sess'[t].tk = sess[t].tk
           /\ sess'[t].batch = sess[t].batch /\ sess'[t].pdf = sess[t].pdf
           /\ sess'[t].used = sess[t].used /\ sess'[t].answer = sess[t].answer

\* One session changes, the others stay.
LEMMA OneSessionMoves ==
  ASSUME SessTyped, NEW s \in Sessions, NEW c \in Session, sess' = [sess EXCEPT ![s] = c]
  PROVE  /\ SessTyped' /\ sess'[s] = c
         /\ \A t \in Sessions : t # s => sess'[t] = sess[t]
BY DEF SessTyped

\* UPDATE ... WHERE status IN (from).
LEMMA MarkMoves ==
  ASSUME SessTyped, NEW s \in 0 .. MaxSessions, NEW st \in Statuses, NEW from,
         sess' = Marked(s, from, st)
  PROVE  /\ SessTyped' /\ \A t \in Sessions : Same(t)
         /\ \A t \in Sessions : sess'[t] # sess[t] =>
              t = s /\ sess[t].st \in from /\ sess'[t].st = st
<1>1. CASE s \in Sessions /\ sess[s].st \in from
  <2>1. PICK c : c = [sess[s] EXCEPT !.st = st, !.clean = @ \/ st = "cancelled"]
    OBVIOUS
  <2>2. sess[s] \in Session
    BY <1>1 DEF SessTyped
  <2>3. c \in Session /\ c.st = st
    BY <2>1, <2>2 DEF Session
  <2>4. /\ c.d = sess[s].d /\ c.tk = sess[s].tk /\ c.batch = sess[s].batch
        /\ c.pdf = sess[s].pdf /\ c.used = sess[s].used /\ c.answer = sess[s].answer
    BY <2>1, <2>2 DEF Session
  <2>5. sess' = [sess EXCEPT ![s] = c]
    <3>1. sess' = [sess EXCEPT ![s].st = st, ![s].clean = @ \/ st = "cancelled"]
      BY <1>1 DEF Marked
    <3> QED BY <1>1, <2>1, <3>1 DEF SessTyped
  <2>6. /\ SessTyped' /\ sess'[s] = c
        /\ \A t \in Sessions : t # s => sess'[t] = sess[t]
    BY <1>1, <2>3, <2>5, OneSessionMoves
  <2>7. \A t \in Sessions : Same(t)
    BY <2>4, <2>6 DEF Same
  <2> QED BY <1>1, <2>3, <2>6, <2>7
<1>2. CASE s \in Sessions /\ sess[s].st \notin from
  BY <1>2 DEF Marked, Same, SessTyped
<1>3. CASE s \notin Sessions
  BY <1>3 DEF Marked, Same, SessTyped, Sessions
<1> QED BY <1>1, <1>2, <1>3

-----------------------------------------------------------------------------
(* The invariant *)

\* There is room for every session that an opener may still start.
Room == /\ IsFiniteSet(Opening) /\ IsFiniteSet(ToOpen)
        /\ Cardinality(Begun) + Cardinality(Opening) + Cardinality(ToOpen) <= MaxSessions

Opens == \A o \in Openers : ~AtO(o, "idle") => open[o].d \in Docs

\* What a request works on.
AsksOf(r) == /\ req[r].at \notin {"idle", "tx", "expire", "number"} => req[r].s \in Sessions
             /\ req[r].at = "undo" => req[r].todo # <<>>
             /\ req[r].at \in {"closing", "marking"} => req[r].left # {}
             /\ r = Job => req[r].at \in {"idle", "undo"}
Asks == \A r \in Requests \union {Job} : AsksOf(r)

\* How far the closing of a document has got.
ClosingOf(d) == /\ row[d].st # "none" => row[d].s \in Sessions
                /\ close[d].at # "idle" => row[d].st # "none"
                /\ close[d].at \in {"upload", "put"} => close[d].pdf # 0
                /\ close[d].at \in {"upload", "finalize", "draft"} => d \in Numbered
                /\ close[d].at = "finalize" => official[d] # 0
                /\ od[d].st = "CONFIRMED" => official[d] # 0
Closing == \A d \in Docs : ClosingOf(d)

FallsOf(f) == fall[f].at \in {"pdf", "number", "release"} => fall[f].s \in Sessions
Falls == \A f \in Fallers : FallsOf(f)

IInv == TypeOK /\ Room /\ Opens /\ Asks /\ Closing /\ Falls

\* The types, as IInv has them.
LEMMA Typed ==
  ASSUME IInv
  PROVE  /\ LockTypeOK /\ DocumentTyped /\ SessTyped /\ OpenTyped /\ AskTyped
         /\ CloseTyped /\ FallTyped /\ FaultsTyped
BY TypeParts DEF IInv, Parts

\* Who calls cancelar_tanda finds an execution that rests.
LEMMA CallsMoves ==
  ASSUME FallTyped, Falls, NEW b \in 0 .. MaxSessions, Calls(b) \/ UNCHANGED fall
  PROVE  FallTyped' /\ Falls'
<1>1. CASE UNCHANGED fall
  BY <1>1 DEF FallTyped, Falls, FallsOf
<1>2. CASE Calls(b)
  BY <1>2 DEF FallTyped, Falls, FallsOf, Calls, FallMemory
<1> QED BY <1>1, <1>2

\* One thing more goes wrong, or nothing.
LEMMA FaultsMove ==
  ASSUME FaultsTyped, Fault \/ NoFault
  PROVE  FaultsTyped'
BY DigitalAssumption DEF FaultsTyped, Fault, NoFault

-----------------------------------------------------------------------------
(* Openers *)

\* An opener that starts finds a session that was not used.
LEMMA RoomToStart ==
  ASSUME IInv, NEW o \in Openers, ~AtO(o, "idle")
  PROVE  NextSession \in Sessions \ Begun
<1>1. IsFiniteSet(Sessions) /\ Cardinality(Sessions) = MaxSessions /\ MaxSessions \in Nat
  BY FS_Interval, DigitalAssumption DEF Sessions
<1>2. IsFiniteSet(Begun) /\ Cardinality(Begun) \in Nat
  BY <1>1, FS_Subset, FS_CardinalityType DEF Begun
<1>3. IsFiniteSet(Opening) /\ Cardinality(Opening) \in Nat /\ Cardinality(Opening) # 0
  BY FS_EmptySet, FS_CardinalityType DEF IInv, Room, Opening
<1>4. Cardinality(ToOpen) \in Nat
  BY FS_CardinalityType DEF IInv, Room
<1>5. Begun # Sessions
  BY <1>1, <1>2, <1>3, <1>4 DEF IInv, Room
<1>6. Sessions \ Begun # {}
  BY <1>5 DEF Begun
<1>7. PICK s \in Sessions \ Begun : \A t \in Sessions \ Begun : s <= t
  BY <1>6, LeastSession
<1> QED BY <1>7 DEF NextSession, Begun

\* What cancel_number does to the numbers.
Cancels == /\ od' \in [Docs -> Number]
           /\ \A e \in Docs : od'[e].tk = od[e].tk
           /\ \A e \in Docs : od'[e] # od[e] =>
                od[e].st \in {"RESERVED", "CONFIRMING"} /\ od'[e].st = "CANCELLED"

\* cancel_number without a ticket leaves a number that is CONFIRMING alone.
LEMMA CancelMoves ==
  ASSUME DocumentTyped, NEW d, CancelNumber(d) \/ UNCHANGED od
  PROVE  Cancels /\ \A e \in Docs : od[e].st = "CONFIRMING" => od'[e] = od[e]
<1>1. CASE CancelNumber(d)
  BY <1>1 DEF CancelNumber, DocumentTyped, Number, Cancels
<1> QED BY <1>1 DEF DocumentTyped, Cancels

\* cancel_number with a ticket takes back what it may take back, and no more.
LEMMA CancelTicketMoves ==
  ASSUME DocumentTyped, NEW d, NEW tk, NEW from \in SUBSET {"RESERVED", "CONFIRMING"},
         CancelTicket(d, tk, from)
  PROVE  /\ Cancels
         /\ "CONFIRMING" \notin from =>
              \A e \in Docs : od[e].st = "CONFIRMING" => od'[e] = od[e]
BY DEF CancelTicket, DocumentTyped, Number, Cancels

\* What an opener leaves alone, and the types of what it changes.
LEMMA OpenerTypes ==
  ASSUME IInv, NEW o \in Openers, OpenNext(o)
  PROVE  /\ LockTypeOK' /\ OpenTyped' /\ FallTyped' /\ Falls' /\ FaultsTyped'
         /\ od' \in [Docs -> Number]
         /\ \A d \in Docs : od[d].st \in {"CONFIRMING", "CONFIRMED"} => od'[d] = od[d]
         /\ \A d \in Docs : od'[d] # od[d] => od'[d].st \in {"RESERVED", "CANCELLED"}
<1> USE Typed
<1>0. /\ o \in Callers /\ open[o] \in OpenMemory /\ open[o].d \in Docs \union {NoDoc}
      /\ open[o].batch \in 0 .. MaxSessions
  BY DigitalAssumption DEF OpenTyped, OpenMemory
<1>1. LockTypeOK'
  <2>1. \/ Acquire(o, open[o].d) \/ Release(o, open[o].d)
        \/ Dead(o) /\ UNCHANGED store
        \/ UNCHANGED lockVars
    BY DEF OpenNext, OpenLook, OpenGoes, OpenLock, OpenLost, OpenWon, OpenReserve, OpenAgain,
           OpenRead, OpenStart, OpenUndo, OpenReserveFails, OpenStartFails, OpenDies
  <2> QED BY <1>0, <2>1, LockMoves
<1>2. FallTyped' /\ Falls'
  <2>1. Calls(open[o].batch) \/ UNCHANGED fall
    BY DEF OpenNext, OpenLook, OpenGoes, OpenLock, OpenLost, OpenWon, OpenReserve, OpenAgain,
           OpenRead, OpenStart, OpenUndo, OpenReserveFails, OpenStartFails, OpenDies, Reverts
  <2> QED BY <1>0, <2>1, CallsMoves DEF IInv
<1>3. FaultsTyped'
  <2>1. Fault \/ NoFault
    BY DEF OpenNext, OpenLook, OpenGoes, OpenLock, OpenLost, OpenWon, OpenReserve, OpenAgain,
           OpenRead, OpenStart, OpenUndo, OpenReserveFails, OpenStartFails, OpenDies, NoFault
  <2> QED BY <2>1, FaultsMove
<1>4. open' = [open EXCEPT ![o] = open'[o]] /\ open'[o] \in OpenMemory
  <2>0. Closed \in OpenMemory
    BY DigitalAssumption DEF Closed, OpenMemory
  <2>1. CASE OpenLook(o)
    <3>1. open[o].left \subseteq Docs
      BY <1>0 DEF OpenMemory
    <3>2. PICK d \in (IF open[o].left # {} THEN open[o].left ELSE Docs) :
            open' = [open EXCEPT ![o].at = "lock", ![o].d = d,
                       ![o].left = (IF open[o].left # {} THEN open[o].left
                                    ELSE IF o \in Batches THEN Docs ELSE {d}) \ {d}]
      BY <2>1 DEF OpenLook
    <3>3. d \in Docs
      BY <3>1, <3>2
    <3>4. PICK L : L = (IF open[o].left # {} THEN open[o].left
                        ELSE IF o \in Batches THEN Docs ELSE {d}) \ {d}
      OBVIOUS
    <3>5. L \in SUBSET Docs
      BY <3>1, <3>3, <3>4
    <3>6. open' = [open EXCEPT ![o].at = "lock", ![o].d = d, ![o].left = L]
      BY <3>2, <3>4
    <3> QED BY <1>0, <3>3, <3>5, <3>6 DEF OpenTyped, OpenMemory
  <2>2. CASE OpenLock(o)
    BY <1>0, <2>2 DEF OpenLock, StepO, OpenTyped, OpenMemory
  <2>3. CASE OpenLost(o) \/ OpenUndo(o)
    BY <2>0, <2>3 DEF OpenLost, OpenUndo, Reverts, OpenTyped
  <2>4. CASE OpenWon(o)
    BY <1>0, <2>4 DEF OpenWon, StepO, OpenTyped, OpenMemory
  <2>5. CASE OpenReserve(o)
    <3>1. open[o].d \in Docs
      BY <2>5 DEF IInv, Opens, OpenReserve, AtO
    <3>2. od[open[o].d].tk \in Nat
      BY <3>1 DEF DocumentTyped, Number
    <3>3. od[open[o].d].tk + 1 \in Nat
      BY <3>2
    <3>4. PICK tk \in Nat : open' = [open EXCEPT ![o].at = "read", ![o].tk = tk]
      BY <2>5, <3>2, <3>3 DEF OpenReserve
    <3> QED BY <1>0, <3>4 DEF OpenTyped, OpenMemory
  <2>6. CASE OpenReserveFails(o) \/ OpenAgain(o) \/ OpenStartFails(o)
    BY <1>0, <2>6 DEF OpenReserveFails, OpenAgain, OpenStartFails, StepO, OpenTyped, OpenMemory
  <2>7. CASE OpenRead(o)
    BY <1>0, <2>7 DEF OpenRead, StepO, OpenTyped, OpenMemory, LockTypeOK
  <2>8. CASE OpenStart(o)
    <3>1. PICK b : b = IF o \notin Batches THEN 0
                       ELSE IF open[o].batch = 0 THEN NextSession ELSE open[o].batch
      OBVIOUS
    <3>2. b \in 0 .. MaxSessions
      <4>1. NextSession \in Sessions
        BY <2>8, RoomToStart DEF OpenStart, AtO
      <4> QED BY <1>0, <3>1, <4>1, DigitalAssumption DEF Sessions
    <3>3. [Closed EXCEPT !.left = open[o].left, !.batch = b] \in OpenMemory
      BY <1>0, <2>0, <3>2 DEF OpenMemory
    <3>4. open' = [open EXCEPT ![o] = IF open[o].left = {} THEN Closed
                                      ELSE [Closed EXCEPT !.left = open[o].left, !.batch = b]]
      BY <2>8, <3>1 DEF OpenStart
    <3> QED BY <2>0, <3>3, <3>4 DEF OpenTyped
  <2>9. CASE OpenDies(o)
    BY <2>0, <2>9 DEF OpenDies, OpenTyped
  <2> QED BY <2>1, <2>2, <2>3, <2>4, <2>5, <2>6, <2>7, <2>8, <2>9 DEF OpenNext, OpenGoes
<1>5. OpenTyped'
  BY <1>4 DEF OpenTyped
<1>6. /\ od' \in [Docs -> Number]
      /\ \A d \in Docs : od[d].st \in {"CONFIRMING", "CONFIRMED"} => od'[d] = od[d]
      /\ \A d \in Docs : od'[d] # od[d] => od'[d].st \in {"RESERVED", "CANCELLED"}
  <2>1. CASE OpenReserve(o)
    BY <2>1 DEF OpenReserve, DocumentTyped, Number
  <2>2. CASE OpenUndo(o)
    <3>1. CancelNumber(open[o].d) \/ UNCHANGED od
      BY <2>2 DEF OpenUndo
    <3> QED BY <3>1, CancelMoves DEF Cancels
  <2>3. CASE UNCHANGED od
    BY <2>3 DEF DocumentTyped
  <2>4. OpenReserve(o) \/ OpenUndo(o) \/ UNCHANGED od
    BY DEF OpenNext, OpenLook, OpenGoes, OpenLock, OpenLost, OpenWon, OpenAgain,
           OpenRead, OpenStart, OpenReserveFails, OpenStartFails, OpenDies
  <2> QED BY <2>1, <2>2, <2>3, <2>4
<1> QED BY <1>1, <1>2, <1>3, <1>5, <1>6

\* What has no part in the opening of sessions.
LEMMA RoomStands ==
  ASSUME IInv, UNCHANGED open,
         \A s \in Sessions : sess'[s].st = "none" <=> sess[s].st = "none"
  PROVE  Room' /\ Opens' /\ OpenTyped'
<1>1. Begun' = Begun /\ Opening' = Opening /\ ToOpen' = ToOpen
  BY DEF Begun, Opening, ToOpen, AtO
<1> QED BY <1>1, Typed DEF IInv, Room, Opens, AtO, OpenTyped

\* The sizes in Room are natural numbers.
LEMMA RoomSizes ==
  ASSUME IInv
  PROVE  /\ IsFiniteSet(Begun) /\ Cardinality(Begun) \in Nat
         /\ IsFiniteSet(Opening) /\ Cardinality(Opening) \in Nat
         /\ IsFiniteSet(ToOpen) /\ Cardinality(ToOpen) \in Nat
         /\ MaxSessions \in Nat
<1>1. IsFiniteSet(Sessions)
  BY FS_Interval, DigitalAssumption DEF Sessions
<1>2. IsFiniteSet(Begun)
  BY <1>1, FS_Subset DEF Begun
<1> QED BY <1>2, FS_CardinalityType, DigitalAssumption DEF IInv, Room

\* An opener ends and leaves fewer documents to open.
LEMMA RoomGrows ==
  ASSUME IInv, NEW o \in Openers, ~AtO(o, "idle"), Begun' = Begun,
         Opening' = Opening \ {o}, ToOpen' \subseteq ToOpen
  PROVE  Room'
<1> USE RoomSizes
<1>0. o \in Opening
  BY DEF Opening
<1>1. IsFiniteSet(Opening') /\ Cardinality(Opening') = Cardinality(Opening) - 1
  <2>1. IsFiniteSet(Opening \ {o}) /\ Cardinality(Opening \ {o}) = Cardinality(Opening) - 1
    BY <1>0, FS_RemoveElement
  <2> QED BY <2>1
<1>2. /\ IsFiniteSet(ToOpen') /\ Cardinality(ToOpen') \in Nat
      /\ Cardinality(ToOpen') <= Cardinality(ToOpen)
  BY FS_Subset, FS_CardinalityType
<1> QED BY <1>1, <1>2 DEF IInv, Room

\* The first document of an opener: the others of a batch wait.
LEMMA RoomForFirst ==
  ASSUME IInv, NEW o \in Openers, AtO(o, "idle"), open[o].left = {},
         MayOpen(IF o \in Batches THEN Cardinality(Docs) ELSE 1),
         NEW d \in Docs, Begun' = Begun, Opening' = Opening \union {o},
         ToOpen' = ToOpen \union ({o} \X (IF o \in Batches THEN Docs \ {d} ELSE {}))
  PROVE  Room'
<1> USE RoomSizes
<1> DEFINE L == IF o \in Batches THEN Docs \ {d} ELSE {}
           n == IF o \in Batches THEN Cardinality(Docs) ELSE 1
<1>1. IsFiniteSet(L) /\ Cardinality(L) \in Nat /\ n = Cardinality(L) + 1
  <2>1. IsFiniteSet(Docs) /\ Cardinality(Docs) \in Nat
    BY DigitalAssumption, FS_CardinalityType
  <2>2. IsFiniteSet(Docs \ {d}) /\ Cardinality(Docs \ {d}) = Cardinality(Docs) - 1
    BY <2>1, FS_RemoveElement
  <2>3. Cardinality(Docs \ {d}) \in Nat
    BY <2>2, FS_CardinalityType
  <2> QED BY <2>1, <2>2, <2>3, FS_EmptySet
<1>2. IsFiniteSet({o} \X L) /\ Cardinality({o} \X L) = Cardinality(L)
  <2>1. IsFiniteSet({o}) /\ Cardinality({o}) = 1
    BY FS_Singleton
  <2> HIDE DEF L, n
  <2>2. /\ IsFiniteSet({o} \X L)
        /\ Cardinality({o} \X L) = Cardinality({o}) * Cardinality(L)
    BY <1>1, <2>1, FS_Product
  <2>3. 1 * Cardinality(L) = Cardinality(L)
    BY <1>1
  <2> QED BY <2>1, <2>2, <2>3
<1>3. ToOpen \cap ({o} \X L) = {}
  BY DEF ToOpen
<1>4. /\ IsFiniteSet(ToOpen')
      /\ Cardinality(ToOpen') = Cardinality(ToOpen) + Cardinality(L)
  <2> HIDE DEF L
  <2>1. Cardinality(ToOpen \cap ({o} \X L)) = 0
    BY <1>3, FS_EmptySet
  <2>2. ToOpen' = ToOpen \union ({o} \X L)
    BY DEF L
  <2>3. PICK T : T = {o} \X L
    OBVIOUS
  <2>4. /\ IsFiniteSet(T) /\ Cardinality(T) = Cardinality(L)
        /\ Cardinality(ToOpen \cap T) = 0
    BY <1>2, <2>1, <2>3
  <2>5. /\ IsFiniteSet(ToOpen \union T)
        /\ Cardinality(ToOpen \union T)
             = Cardinality(ToOpen) + Cardinality(T) - Cardinality(ToOpen \cap T)
    BY <2>4, FS_Union
  <2>6. Cardinality(ToOpen) + Cardinality(L) - 0 = Cardinality(ToOpen) + Cardinality(L)
    BY <1>1
  <2>7. ToOpen' = ToOpen \union T
    BY <2>2, <2>3
  <2> QED BY <2>4, <2>5, <2>6, <2>7
<1>5. IsFiniteSet(Opening') /\ Cardinality(Opening') = Cardinality(Opening) + 1
  <2>1. o \notin Opening
    BY DEF Opening
  <2>2. /\ IsFiniteSet(Opening \union {o})
        /\ Cardinality(Opening \union {o}) = Cardinality(Opening) + 1
    BY <2>1, FS_AddElement
  <2> QED BY <2>2
<1>6. Cardinality(Begun) + Cardinality(Opening) + Cardinality(ToOpen) + n <= MaxSessions
  BY DEF MayOpen
<1> HIDE DEF L, n
<1> QED BY <1>1, <1>4, <1>5, <1>6 DEF Room

\* What is to be opened, one pair at a time.
LEMMA PairsToOpen ==
  /\ \A x : x \in ToOpen <=> \E p \in Openers : \E e \in open[p].left : x = <<p, e>>
  /\ \A x : x \in ToOpen' <=> \E p \in Openers : \E e \in open'[p].left : x = <<p, e>>
<1>1. \A x : x \in ToOpen <=> \E p \in Openers : \E e \in open[p].left : x = <<p, e>>
  BY DEF ToOpen
<1>2. \A x : x \in ToOpen' <=> \E p \in Openers : \E e \in open'[p].left : x = <<p, e>>
  BY DEF ToOpen
<1> QED BY <1>1, <1>2

\* The next document of a batch was counted when the batch began.
LEMMA RoomForNext ==
  ASSUME IInv, NEW o \in Openers, AtO(o, "idle"), NEW d \in open[o].left,
         Begun' = Begun, Opening' = Opening \union {o}, ToOpen' = ToOpen \ {<<o, d>>}
  PROVE  Room'
<1> USE RoomSizes
<1>1. IsFiniteSet(Opening') /\ Cardinality(Opening') = Cardinality(Opening) + 1
  <2>1. o \notin Opening
    BY DEF Opening
  <2>2. /\ IsFiniteSet(Opening \union {o})
        /\ Cardinality(Opening \union {o}) = Cardinality(Opening) + 1
    BY <2>1, FS_AddElement
  <2> QED BY <2>2
<1>2. IsFiniteSet(ToOpen') /\ Cardinality(ToOpen') = Cardinality(ToOpen) - 1
  <2>1. PICK x : x = <<o, d>>
    OBVIOUS
  <2>2. x \in ToOpen
    BY <2>1, PairsToOpen
  <2>3. IsFiniteSet(ToOpen \ {x}) /\ Cardinality(ToOpen \ {x}) = Cardinality(ToOpen) - 1
    BY <2>2, FS_RemoveElement
  <2> QED BY <2>1, <2>3
<1> QED BY <1>1, <1>2 DEF IInv, Room

\* An opener starts its session.
LEMMA RoomForSession ==
  ASSUME IInv, NEW o \in Openers, ~AtO(o, "idle"), NEW s \in Sessions \ Begun,
         Begun' = Begun \union {s}, Opening' = Opening \ {o}, ToOpen' = ToOpen
  PROVE  Room'
<1> USE RoomSizes
<1>1. IsFiniteSet(Opening') /\ Cardinality(Opening') = Cardinality(Opening) - 1
  <2>1. o \in Opening
    BY DEF Opening
  <2>2. IsFiniteSet(Opening \ {o}) /\ Cardinality(Opening \ {o}) = Cardinality(Opening) - 1
    BY <2>1, FS_RemoveElement
  <2> QED BY <2>2
<1>2. Cardinality(Begun') = Cardinality(Begun) + 1
  <2>1. Cardinality(Begun \union {s}) = Cardinality(Begun) + 1
    BY FS_AddElement
  <2> QED BY <2>1
<1> QED BY <1>1, <1>2 DEF IInv, Room

\* Whoever opens takes a place that was counted.
LEMMA OpenerRoom ==
  ASSUME IInv, NEW o \in Openers, OpenNext(o), OpenTyped'
  PROVE  Room' /\ Opens'
<1> USE Typed
<1>0. \A p \in Openers : open[p].left \subseteq Docs /\ open'[p].left \subseteq Docs
  BY DEF OpenTyped, OpenMemory
<1>1. CASE OpenLook(o)
  <2>1. PICK d \in (IF open[o].left # {} THEN open[o].left ELSE Docs) :
          open' = [open EXCEPT ![o].at = "lock", ![o].d = d,
                     ![o].left = (IF open[o].left # {} THEN open[o].left
                                  ELSE IF o \in Batches THEN Docs ELSE {d}) \ {d}]
    BY <1>1 DEF OpenLook
  <2>2. PICK L : L = (IF open[o].left # {} THEN open[o].left
                      ELSE IF o \in Batches THEN Docs ELSE {d}) \ {d}
    OBVIOUS
  <2>3. d \in Docs
    BY <1>0, <2>1
  <2>4. open' = [open EXCEPT ![o].at = "lock", ![o].d = d, ![o].left = L]
    BY <2>1, <2>2
  <2>5. /\ open'[o].at = "lock" /\ open'[o].d = d /\ open'[o].left = L
        /\ \A p \in Openers : p # o => open'[p] = open[p]
    BY <2>4 DEF OpenTyped, OpenMemory
  <2>6. Opens'
    BY <2>3, <2>5 DEF IInv, Opens, AtO
  <2>7. Begun' = Begun
    BY <1>1 DEF OpenLook, Begun
  <2>8. Opening' = Opening \union {o} /\ AtO(o, "idle")
    BY <1>1, <2>5 DEF OpenLook, Opening, AtO
  <2>9. CASE open[o].left # {}
    <3>1. L = open[o].left \ {d} /\ d \in open[o].left
      BY <2>1, <2>2, <2>9
    <3>2. ToOpen' = ToOpen \ {<<o, d>>}
      BY <2>5, <3>1, PairsToOpen
    <3> QED BY <2>6, <2>7, <2>8, <3>1, <3>2, RoomForNext
  <2>10. CASE open[o].left = {}
    <3>1. L = IF o \in Batches THEN Docs \ {d} ELSE {}
      BY <2>2, <2>10
    <3>2. ToOpen' = ToOpen \union ({o} \X L)
      BY <2>5, <2>10, PairsToOpen
    <3>3. MayOpen(IF o \in Batches THEN Cardinality(Docs) ELSE 1)
      BY <1>1, <2>10 DEF OpenLook
    <3>4. ToOpen' = ToOpen \union ({o} \X (IF o \in Batches THEN Docs \ {d} ELSE {}))
      BY <3>1, <3>2
    <3> QED BY <2>3, <2>6, <2>7, <2>8, <2>10, <3>3, <3>4, RoomForFirst
  <2> QED BY <2>9, <2>10
<1>2. CASE OpenStart(o)
  <2>1. NextSession \in Sessions \ Begun /\ ~AtO(o, "idle")
    BY <1>2, RoomToStart DEF OpenStart, AtO
  <2>2. /\ open'[o].at = "idle" /\ open'[o].left = open[o].left
        /\ \A p \in Openers : p # o => open'[p] = open[p]
    BY <1>2 DEF OpenStart, OpenTyped, Closed
  <2>3. Opens'
    BY <2>2 DEF IInv, Opens, AtO
  <2>4. Opening' = Opening \ {o}
    BY <2>2 DEF Opening, AtO
  <2>5. ToOpen' = ToOpen
    BY <2>2, PairsToOpen
  <2>6. PICK s \in Sessions \ Begun : s = NextSession
    BY <2>1
  <2>7. PICK c : sess' = [sess EXCEPT ![s] = c] /\ c.st = "pending"
    <3>1. PICK b : b = IF o \notin Batches THEN 0
                       ELSE IF open[o].batch = 0 THEN s ELSE open[o].batch
      OBVIOUS
    <3>2. PICK c : c = [NoSession EXCEPT !.st = "pending", !.d = open[o].d,
                                         !.tk = open[o].tk, !.batch = b, !.pdf = open[o].pdf]
      OBVIOUS
    <3>3. c.st = "pending"
      BY <3>2 DEF NoSession
    <3>4. sess' = [sess EXCEPT ![s] = c]
      BY <1>2, <2>6, <3>1, <3>2 DEF OpenStart
    <3> QED BY <3>3, <3>4
  <2>8. Begun' = Begun \union {s}
    BY <2>7 DEF Begun, SessTyped
  <2> QED BY <2>1, <2>3, <2>4, <2>5, <2>8, RoomForSession
<1>3. CASE OpenLost(o) \/ OpenUndo(o) \/ OpenDies(o)
  <2>1. ~AtO(o, "idle") /\ open' = [open EXCEPT ![o] = Closed] /\ UNCHANGED sess
    BY <1>3 DEF OpenLost, OpenUndo, OpenDies, Reverts, AtO
  <2>2. /\ open'[o].at = "idle" /\ open'[o].left = {}
        /\ \A p \in Openers : p # o => open'[p] = open[p]
    BY <2>1 DEF OpenTyped, Closed
  <2>3. Opens'
    BY <2>2 DEF IInv, Opens, AtO
  <2>4. Opening' = Opening \ {o}
    BY <2>2 DEF Opening, AtO
  <2>5. ToOpen' \subseteq ToOpen
    BY <2>2, PairsToOpen
  <2>6. Begun' = Begun
    BY <2>1 DEF Begun
  <2> QED BY <2>1, <2>3, <2>4, <2>5, <2>6, RoomGrows
<1>4. CASE \/ OpenLock(o) \/ OpenWon(o) \/ OpenReserve(o) \/ OpenReserveFails(o)
           \/ OpenAgain(o) \/ OpenRead(o) \/ OpenStartFails(o)
  <2>1. UNCHANGED sess /\ ~AtO(o, "idle")
    BY <1>4 DEF OpenLock, OpenWon, OpenReserve, OpenReserveFails, OpenAgain, OpenRead,
                OpenStartFails, AtO
  <2>2. /\ open'[o].at # "idle" /\ open'[o].left = open[o].left /\ open'[o].d = open[o].d
        /\ \A p \in Openers : p # o => open'[p] = open[p]
    BY <1>4 DEF OpenLock, OpenWon, OpenReserve, OpenReserveFails, OpenAgain, OpenRead,
                OpenStartFails, OpenTyped, OpenMemory, StepO
  <2>3. Begun' = Begun
    BY <2>1 DEF Begun
  <2>4. Opening' = Opening
    BY <2>1, <2>2 DEF Opening, AtO
  <2>5. ToOpen' = ToOpen
    BY <2>2, PairsToOpen
  <2>6. Opens'
    BY <2>1, <2>2 DEF IInv, Opens, AtO
  <2> QED BY <2>3, <2>4, <2>5, <2>6 DEF IInv, Room
<1> QED BY <1>1, <1>2, <1>3, <1>4 DEF OpenNext, OpenGoes

-----------------------------------------------------------------------------
(* Every step *)

\* No step revives a session that ended.
EndedStep == \A s \in Sessions : sess[s].st \in Ended => sess'[s].st = sess[s].st

\* What a step that closes nothing leaves as it was.
LEMMA ClosingStands ==
  ASSUME IInv, UNCHANGED <<official, row, close>>,
         \A d \in Docs : od'[d].st = "CONFIRMED" => od[d].st = "CONFIRMED"
  PROVE  Closing' /\ CloseTyped'
BY Typed DEF IInv, Closing, ClosingOf, CloseTyped

\* Openers.
LEMMA OpenerStep ==
  ASSUME IInv, NEW o \in Openers, OpenNext(o)
  PROVE  IInv' /\ EndedStep
<1> USE Typed
<1>1. /\ LockTypeOK' /\ OpenTyped' /\ FallTyped' /\ Falls' /\ FaultsTyped'
      /\ od' \in [Docs -> Number]
      /\ \A d \in Docs : od[d].st \in {"CONFIRMING", "CONFIRMED"} => od'[d] = od[d]
      /\ \A d \in Docs : od'[d] # od[d] => od'[d].st \in {"RESERVED", "CANCELLED"}
  BY OpenerTypes
<1>2. UNCHANGED <<saved, official, row, req, close, draft, signer>>
  BY DEF OpenNext, OpenLook, OpenGoes, OpenLock, OpenLost, OpenWon, OpenReserve, OpenAgain,
         OpenRead, OpenStart, OpenUndo, OpenReserveFails, OpenStartFails, OpenDies, OpenKeeps,
         results
<1>3. Room' /\ Opens'
  BY <1>1, OpenerRoom
<1>4. DocumentTyped' /\ AskTyped' /\ Asks'
  BY <1>1, <1>2 DEF IInv, DocumentTyped, AskTyped, Asks, AsksOf
<1>5. Closing' /\ CloseTyped'
  BY <1>1, <1>2, ClosingStands
<1>6. SessTyped' /\ EndedStep
  <2>1. CASE OpenStart(o)
    <3>1. PICK s \in Sessions \ Begun : s = NextSession
      BY <2>1, RoomToStart DEF OpenStart, AtO
    <3>2. PICK b : b = IF o \notin Batches THEN 0
                       ELSE IF open[o].batch = 0 THEN s ELSE open[o].batch
      OBVIOUS
    <3>3. open[o] \in OpenMemory /\ open[o].d \in Docs /\ b \in 0 .. MaxSessions
      <4>1. open[o] \in OpenMemory /\ open[o].d \in Docs
        BY <2>1 DEF OpenTyped, IInv, Opens, OpenStart, AtO
      <4> QED BY <4>1, <3>2, DigitalAssumption DEF OpenMemory, Sessions
    <3>4. PICK c : c = [NoSession EXCEPT !.st = "pending", !.d = open[o].d, !.tk = open[o].tk,
                                         !.batch = b, !.pdf = open[o].pdf]
      OBVIOUS
    <3>5. c \in Session
      BY <3>3, <3>4, DigitalAssumption DEF Session, NoSession, OpenMemory, Statuses, Vivos
    <3>6. sess' = [sess EXCEPT ![s] = c]
      BY <2>1, <3>1, <3>2, <3>4 DEF OpenStart
    <3>7. SessTyped' /\ \A t \in Sessions : t # s => sess'[t] = sess[t]
      BY <3>5, <3>6, OneSessionMoves
    <3>8. sess[s].st \notin Ended
      BY <3>1 DEF Begun, Ended, Caidos
    <3> QED BY <3>7, <3>8 DEF EndedStep
  <2>2. CASE UNCHANGED sess
    BY <2>2 DEF SessTyped, EndedStep
  <2>3. OpenStart(o) \/ UNCHANGED sess
    BY DEF OpenNext, OpenLook, OpenGoes, OpenLock, OpenLost, OpenWon, OpenReserve, OpenAgain,
           OpenRead, OpenUndo, OpenReserveFails, OpenStartFails, OpenDies
  <2> QED BY <2>1, <2>2, <2>3
<1>7. TypeOK'
  BY <1>1, <1>4, <1>5, <1>6, TypeParts DEF Parts
<1> QED BY <1>1, <1>3, <1>4, <1>5, <1>6, <1>7 DEF IInv

-----------------------------------------------------------------------------
(* Requests *)

\* What is left to do after the first thing.
LEMMA TodoTails ==
  ASSUME NEW t \in Todos, Len(t) # 1, t # <<>>
  PROVE Tail(t) \in Todos \ {<<>>}
<1>1. \A x, y : Tail(<<x, y>>) = <<y>>
  OBVIOUS
<1>2. \A x : Len(<<x>>) = 1 /\ <<x>> # <<>>
  OBVIOUS
<1>3. t \in {<<"expired", "ticket">>, <<"ticket", "cancelled">>, <<"ticket", "failed">>,
          <<"number", "failed">>}
  BY <1>2, Zenon DEF Todos
<1>4. PICK x, y : t = <<x, y>> /\ <<y>> \in Todos
   BY <1>3 DEF Todos
<1> QED BY <1>1, <1>2, <1>4

\* A list of two steps.
LEMMA TwoJoin ==
  ASSUME NEW x, NEW y
  PROVE  <<x>> \o <<y>> = <<x, y>>
<1> DEFINE S == {x, y}
<1>1. <<x>> \in Seq(S) /\ Len(<<x>>) = 1 /\ <<x>>[1] = x
  OBVIOUS
<1>2. <<y>> \in Seq(S) /\ Len(<<y>>) = 1 /\ <<y>>[1] = y
  OBVIOUS
<1>3. <<x, y>> \in Seq(S) /\ Len(<<x, y>>) = 2 /\ <<x, y>>[1] = x /\ <<x, y>>[2] = y
  OBVIOUS
<1> HIDE DEF S
<1>4. PICK p, q, r : p = <<x>> /\ q = <<y>> /\ r = <<x, y>>
  OBVIOUS
<1>5. /\ p \in Seq(S) /\ Len(p) = 1 /\ p[1] = x
      /\ q \in Seq(S) /\ Len(q) = 1 /\ q[1] = y
      /\ r \in Seq(S) /\ Len(r) = 2 /\ r[1] = x /\ r[2] = y
  BY <1>1, <1>2, <1>3, <1>4
<1>6. /\ p \o q \in Seq(S) /\ Len(p \o q) = Len(p) + Len(q)
      /\ \A i \in 1 .. Len(p) + Len(q) :
           (p \o q)[i] = IF i <= Len(p) THEN p[i] ELSE q[i - Len(p)]
  BY <1>5, ConcatProperties
<1>7. Len(p \o q) = 2 /\ (p \o q)[1] = x /\ (p \o q)[2] = y
  BY <1>5, <1>6
<1>8. \A i \in 1 .. 2 : (p \o q)[i] = r[i]
  BY <1>5, <1>7
<1>9. p \o q = r
  BY <1>5, <1>6, <1>7, <1>8, SeqEqual
<1> QED BY <1>4, <1>9

\* What polls have to do.
LEMMA TodoJoins ==
  ASSUME NEW s
  PROVE  /\ <<"expired">> \o IfNumbered(s, "ticket") \in Todos \ {<<>>}
         /\ IfNumbered(s, "ticket") \o <<"cancelled">> \in Todos \ {<<>>}
         /\ IfNumbered(s, "ticket") \o <<"failed">> \in Todos \ {<<>>}
         /\ IfNumbered(s, "number") \o <<"failed">> \in Todos \ {<<>>}
<1>1. CASE Doc(s) \in Numbered
  <2>1. <<"expired">> \o IfNumbered(s, "ticket") = <<"expired", "ticket">>
    BY <1>1, TwoJoin, Zenon DEF IfNumbered
  <2>2. IfNumbered(s, "ticket") \o <<"cancelled">> = <<"ticket", "cancelled">>
    BY <1>1, TwoJoin, Zenon DEF IfNumbered
  <2>3. IfNumbered(s, "ticket") \o <<"failed">> = <<"ticket", "failed">>
    BY <1>1, TwoJoin, Zenon DEF IfNumbered
  <2>4. IfNumbered(s, "number") \o <<"failed">> = <<"number", "failed">>
    BY <1>1, TwoJoin, Zenon DEF IfNumbered
  <2>5. \A x, y : <<x, y>> # <<>>
    OBVIOUS
  <2> QED BY <2>1, <2>2, <2>3, <2>4, <2>5, Zenon DEF Todos
<1>2. CASE Doc(s) \notin Numbered
  BY <1>2 DEF Todos, IfNumbered
<1> QED BY <1>1, <1>2

\* What a request may remember.
Fits(r, m) == /\ m \in AskMemory
              /\ m.at \notin {"idle", "tx", "expire", "number"} => m.s \in Sessions
              /\ m.at = "undo" => m.todo # <<>>
              /\ m.at \in {"closing", "marking"} => m.left # {}
              /\ r = Job => m.at \in {"idle", "undo"}

\* A request remembers something that fits.
LEMMA AskMoves ==
  ASSUME AskTyped, Asks, NEW r \in Requests \union {Job}, NEW m, Fits(r, m),
         req' = [req EXCEPT ![r] = m]
  PROVE  /\ AskTyped' /\ Asks' /\ req'[r] = m
         /\ \A q \in Requests \union {Job} : q # r => req'[q] = req[q]
<1>1. /\ AskTyped' /\ req'[r] = m
      /\ \A q \in Requests \union {Job} : q # r => req'[q] = req[q]
  BY DEF AskTyped, Fits
<1>2. Asks'
  BY <1>1 DEF Asks, AsksOf, Fits
<1> QED BY <1>1, <1>2

\* A request that rests.
LEMMA RestingFits ==
  Resting \in AskMemory /\ Resting.at = "idle"
<1>1. <<>> \in Todos
  BY DEF Todos
<1>2. 0 \in 0 .. MaxSessions
  BY DigitalAssumption
<1> QED BY <1>1, <1>2 DEF Resting, AskMemory

\* A request ends.
LEMMA AskRests ==
  ASSUME AskTyped, Asks, NEW r \in Requests \union {Job}, Rest(r)
  PROVE  /\ AskTyped' /\ Asks' /\ req'[r] = Resting
         /\ \A q \in Requests \union {Job} : q # r => req'[q] = req[q]
<1>1. Fits(r, Resting)
  BY RestingFits DEF Fits
<1> QED BY <1>1, AskMoves DEF Rest

\* A request with a session goes on with it.
LEMMA AskGoes ==
  ASSUME AskTyped, Asks, NEW r \in Requests, req[r].s \in Sessions,
         NEW at \in {"consume", "cert", "confirm", "save", "enqueue", "completing",
                     "register", "siblings"},
         StepR(r, at)
  PROVE  /\ AskTyped' /\ Asks' /\ req'[r] = [req[r] EXCEPT !.at = at]
         /\ \A q \in Requests \union {Job} : q # r => req'[q] = req[q]
<1>1. PICK m : m = [req[r] EXCEPT !.at = at]
  OBVIOUS
<1>2. m \in AskMemory /\ m.at = at /\ m.s = req[r].s
  BY <1>1 DEF AskTyped, AskMemory
<1>3. Fits(r, m)
  BY <1>2, DigitalAssumption DEF Fits
<1>4. req' = [req EXCEPT ![r] = m]
  BY <1>1 DEF StepR
<1> QED BY <1>1, <1>3, <1>4, AskMoves

\* A request gives a PDF back.
LEMMA AskGivesBack ==
  ASSUME LockTypeOK, SessTyped, AskTyped, Asks, NEW r \in Requests \union {Job},
         NEW s \in Sessions, NEW todo \in Todos \ {<<>>}, GivesBack(r, s, todo)
  PROVE  /\ LockTypeOK' /\ AskTyped' /\ Asks'
         /\ req'[r] = [Resting EXCEPT !.at = "undo", !.s = s, !.todo = todo]
         /\ \A q \in Requests \union {Job} : q # r => req'[q] = req[q]
<1>1. r \in Callers /\ Doc(s) \in Docs \union {NoDoc}
  BY DigitalAssumption DEF SessTyped, Session, Doc
<1>2. LockTypeOK'
  BY <1>1, LockMoves DEF GivesBack
<1>3. PICK m : m = [Resting EXCEPT !.at = "undo", !.s = s, !.todo = todo]
  OBVIOUS
<1>4. m \in AskMemory /\ m.at = "undo" /\ m.s = s /\ m.todo = todo
  <2>1. s \in 0 .. MaxSessions /\ todo \in Todos
    BY DigitalAssumption DEF Sessions
  <2> QED BY <1>3, <2>1, RestingFits DEF AskMemory, Resting
<1>5. Fits(r, m)
  BY <1>4 DEF Fits
<1> QED BY <1>2, <1>3, <1>5, AskMoves DEF GivesBack

RequestNext(r) == \/ PollLook(r) \/ SessionGoes(r) \/ Cancel(r) \/ Reject(r)
                  \/ PollConfirmFails(r) \/ PollSaveFails(r) \/ RequestDies(r)
                  \/ BatchGoes(r) \/ CloseFails(r)

\* A request goes on with its list.
LEMMA UndoAsks ==
  ASSUME IInv, NEW r \in Requests \union {Job}, Undo(r)
  PROVE  /\ LockTypeOK' /\ AskTyped' /\ Asks'
         /\ \A q \in Requests \union {Job} : q # r => req'[q] = req[q]
         /\ req'[r].at \in {"idle", "undo"}
<1> USE Typed
<1>1. LockTypeOK'
  BY DEF Undo, LockTypeOK, lockVars, store
<1>2. req[r] \in AskMemory /\ req[r].at = "undo" /\ req[r].s \in Sessions
      /\ req[r].todo \in Todos \ {<<>>}
  BY DEF Undo, AtR, AskTyped, AskMemory, IInv, Asks, AsksOf
<1>3. CASE Len(req[r].todo) = 1
  <2>1. Rest(r)
    BY <1>3 DEF Undo, Rest
  <2> QED BY <1>1, <2>1, AskRests, RestingFits DEF IInv
<1>4. CASE Len(req[r].todo) # 1
  <2>1. Tail(req[r].todo) \in Todos \ {<<>>}
    BY <1>2, <1>4, TodoTails
  <2>2. PICK m : m = [req[r] EXCEPT !.todo = Tail(req[r].todo)]
    OBVIOUS
  <2>3. m \in AskMemory /\ m.at = "undo" /\ m.s = req[r].s /\ m.todo # <<>>
    BY <1>2, <2>1, <2>2 DEF AskMemory
  <2>4. Fits(r, m)
    BY <1>2, <2>3 DEF Fits
  <2>5. req' = [req EXCEPT ![r] = m]
    <3>1. req' = [req EXCEPT ![r] = IF Len(req[r].todo) = 1 THEN Resting
                                    ELSE [req[r] EXCEPT !.todo = Tail(req[r].todo)]]
      BY DEF Undo
    <3> QED BY <1>4, <2>2, <3>1, Zenon
  <2> QED BY <1>1, <2>3, <2>4, <2>5, AskMoves DEF IInv
<1> QED BY <1>3, <1>4

\* A request dies.
LEMMA DiesAsks ==
  ASSUME IInv, NEW r \in Requests \union {Job}, RequestDies(r)
  PROVE  /\ LockTypeOK' /\ AskTyped' /\ Asks' /\ req'[r] = Resting
         /\ \A q \in Requests \union {Job} : q # r => req'[q] = req[q]
<1>1. LockTypeOK'
  <2>1. r \in Callers /\ NoDoc \in Docs \union {NoDoc}
    BY DigitalAssumption
  <2>2. Dead(r) /\ UNCHANGED store
    BY DEF RequestDies
  <2> QED BY <2>1, <2>2, LockMoves, Typed
<1> QED BY <1>1, AskRests, Typed DEF RequestDies, IInv

\* What a poll remembers.
LEMMA PollAsks ==
  ASSUME IInv, NEW r \in Requests, PollLook(r) \/ PollGoes(r)
  PROVE  LockTypeOK' /\ AskTyped' /\ Asks'
<1> USE Typed
<1>0. /\ r # Job /\ AskTyped /\ Asks /\ LockTypeOK
      /\ req[r] \in AskMemory
  BY DigitalAssumption DEF IInv, AskTyped
<1>1. CASE PollLook(r)
  <2>1. PICK s \in Sessions :
           IF sess[s].late
           THEN GivesBack(r, s, <<"expired">> \o IfNumbered(s, "ticket"))
           ELSE /\ req' = [req EXCEPT ![r].at = "ask", ![r].s = s]
                /\ UNCHANGED lockVars
    BY <1>1 DEF PollLook
  <2>2. CASE sess[s].late
    <3>1. PICK todo \in Todos \ {<<>>} : GivesBack(r, s, todo)
      BY <2>1, <2>2, TodoJoins
    <3> QED BY <1>0, <3>1, AskGivesBack
  <2>3. CASE ~sess[s].late
    <3>1. req' = [req EXCEPT ![r].at = "ask", ![r].s = s] /\ UNCHANGED lockVars
      BY <2>1, <2>3
    <3>2. PICK m : m = [req[r] EXCEPT !.at = "ask", !.s = s]
      OBVIOUS
    <3>3. m \in AskMemory /\ m.at = "ask" /\ m.s = s
      <4>1. s \in 0 .. MaxSessions
        BY DigitalAssumption DEF Sessions
      <4> QED BY <1>0, <3>2, <4>1 DEF AskMemory
    <3>4. Fits(r, m)
      BY <1>0, <3>3 DEF Fits
    <3>5. req' = [req EXCEPT ![r] = m]
      BY <1>0, <3>1, <3>2 DEF AskTyped
    <3> QED BY <1>0, <3>1, <3>4, <3>5, AskMoves DEF LockTypeOK, lockVars, store
  <2> QED BY <2>2, <2>3
<1>2. ASSUME req[r].at # "idle", req[r].at \notin {"tx", "expire", "number"}
      PROVE  req[r].s \in Sessions
  BY <1>2 DEF IInv, Asks, AsksOf
<1>3. ASSUME UNCHANGED lockVars
      PROVE  LockTypeOK'
  BY <1>3 DEF LockTypeOK, lockVars, store
<1>4. CASE PollAsk(r)
  <2>1. req[r].s \in Sessions
    BY <1>2, <1>4 DEF PollAsk, AtR
  <2>2. \/ Rest(r) /\ UNCHANGED lockVars
        \/ StepR(r, "consume") /\ UNCHANGED lockVars
        \/ GivesBack(r, req[r].s, IfNumbered(req[r].s, "ticket") \o <<"cancelled">>)
        \/ GivesBack(r, req[r].s, <<"failed">>)
        \/ GivesBack(r, req[r].s, IfNumbered(req[r].s, "number") \o <<"failed">>)
    BY <1>4 DEF PollAsk
  <2>3. CASE Rest(r) /\ UNCHANGED lockVars
    BY <1>0, <1>3, <2>3, AskRests
  <2>4. CASE StepR(r, "consume") /\ UNCHANGED lockVars
    BY <1>0, <1>3, <2>1, <2>4, AskGoes
  <2>5. CASE \E todo \in Todos \ {<<>>} : GivesBack(r, req[r].s, todo)
    BY <1>0, <2>1, <2>5, AskGivesBack
  <2>6. <<"failed">> \in Todos \ {<<>>}
    BY DEF Todos
  <2> QED BY <2>2, <2>3, <2>4, <2>5, <2>6, TodoJoins
<1>5. CASE PollConsume(r)
  <2>1. req[r].s \in Sessions
    BY <1>2, <1>5 DEF PollConsume, AtR
  <2>2. (Rest(r) \/ StepR(r, "cert")) /\ UNCHANGED lockVars
    BY <1>5 DEF PollConsume
  <2>3. CASE Rest(r)
    BY <1>0, <1>3, <2>2, <2>3, AskRests
  <2>4. CASE StepR(r, "cert")
    BY <1>0, <1>3, <2>1, <2>2, <2>4, AskGoes
  <2> QED BY <2>2, <2>3, <2>4
<1>6. CASE PollCert(r)
  <2>1. req[r].s \in Sessions
    BY <1>2, <1>6 DEF PollCert, AtR
  <2>2. \/ GivesBack(r, req[r].s, IfNumbered(req[r].s, "number") \o <<"failed">>)
        \/ StepR(r, AfterCert(req[r].s)) /\ UNCHANGED lockVars
    BY <1>6 DEF PollCert
  <2>3. CASE GivesBack(r, req[r].s, IfNumbered(req[r].s, "number") \o <<"failed">>)
    BY <1>0, <2>1, <2>3, TodoJoins, AskGivesBack
  <2>4. CASE StepR(r, AfterCert(req[r].s)) /\ UNCHANGED lockVars
    <3>1. AfterCert(req[r].s) \in {"confirm", "save"}
      BY DEF AfterCert
    <3> QED BY <1>0, <1>3, <2>1, <2>4, <3>1, AskGoes
  <2> QED BY <2>2, <2>3, <2>4
<1>7. CASE PollConfirm(r)
  <2>1. req[r].s \in Sessions
    BY <1>2, <1>7 DEF PollConfirm, AtR
  <2>2. \/ GivesBack(r, req[r].s, <<"failed">>)
        \/ StepR(r, "save") /\ UNCHANGED lockVars
    <3>1. CASE Confirms(Doc(req[r].s), sess[req[r].s].tk)
      BY <1>7, <3>1 DEF PollConfirm
    <3>2. CASE ~Confirms(Doc(req[r].s), sess[req[r].s].tk)
      BY <1>7, <3>2 DEF PollConfirm
    <3> QED BY <3>1, <3>2
  <2>3. CASE GivesBack(r, req[r].s, <<"failed">>)
    <3>1. <<"failed">> \in Todos \ {<<>>}
      BY DEF Todos
    <3> QED BY <1>0, <2>1, <2>3, <3>1, AskGivesBack
  <2>4. CASE StepR(r, "save") /\ UNCHANGED lockVars
    BY <1>0, <1>3, <2>1, <2>4, AskGoes
  <2> QED BY <2>2, <2>3, <2>4
<1>8. CASE PollSave(r)
  <2>1. req[r].s \in Sessions
    BY <1>2, <1>8 DEF PollSave, AtR
  <2>2. /\ StepR(r, IF sess[req[r].s].batch # 0 THEN "register" ELSE "enqueue")
        /\ UNCHANGED lockVars
    BY <1>8 DEF PollSave
  <2> QED BY <1>0, <1>3, <2>1, <2>2, AskGoes
<1>9. CASE PollEnqueue(r)
  <2>1. req[r].s \in Sessions
    BY <1>2, <1>9 DEF PollEnqueue, AtR
  <2> QED BY <1>0, <1>3, <1>9, <2>1, AskGoes DEF PollEnqueue
<1>10. CASE PollCompleting(r)
  BY <1>0, <1>3, <1>10, AskRests DEF PollCompleting
<1>11. CASE Undo(r)
  BY <1>11, UndoAsks
<1> QED BY <1>1, <1>4, <1>5, <1>6, <1>7, <1>8, <1>9, <1>10, <1>11 DEF PollGoes

\* What a cancellation or a rejection remembers.
LEMMA CancelAsks ==
  ASSUME IInv, NEW r \in Requests, Cancel(r) \/ CancelClear(r) \/ Reject(r) \/ RejectGoes(r)
  PROVE  LockTypeOK' /\ AskTyped' /\ Asks'
<1> USE Typed
<1>0. /\ r # Job /\ AskTyped /\ Asks /\ LockTypeOK /\ r \in Callers
      /\ req[r] \in AskMemory /\ req[r].d \in Docs \union {NoDoc}
  BY DigitalAssumption DEF IInv, AskTyped, AskMemory
<1>1. ASSUME UNCHANGED lockVars
      PROVE  LockTypeOK'
  BY <1>1 DEF LockTypeOK, lockVars, store
<1>2. ASSUME NEW at \in {"tx", "expire", "number"}, NEW d \in Docs \union {NoDoc},
             req' = [req EXCEPT ![r].at = at, ![r].d = d]
      PROVE  AskTyped' /\ Asks'
  <2>1. PICK m : m = [req[r] EXCEPT !.at = at, !.d = d]
    OBVIOUS
  <2>2. m \in AskMemory /\ m.at = at
    BY <1>0, <2>1 DEF AskMemory
  <2>3. Fits(r, m)
    BY <1>0, <2>2 DEF Fits
  <2>4. req' = [req EXCEPT ![r] = m]
    BY <1>0, <1>2, <2>1 DEF AskTyped
  <2> QED BY <1>0, <2>3, <2>4, AskMoves
<1>3. ASSUME NEW at \in {"tx", "expire", "number"}, StepR(r, at)
      PROVE  AskTyped' /\ Asks'
  <2>1. req' = [req EXCEPT ![r].at = at, ![r].d = req[r].d]
    BY <1>0, <1>3 DEF StepR, AskTyped, AskMemory
  <2> QED BY <1>0, <1>2, <2>1
<1>4. CASE Cancel(r)
  <2>1. PICK s \in Sessions : req' = [req EXCEPT ![r].at = "clear", ![r].s = s]
    BY <1>4 DEF Cancel
  <2>2. PICK m : m = [req[r] EXCEPT !.at = "clear", !.s = s]
    OBVIOUS
  <2>3. m \in AskMemory /\ m.at = "clear" /\ m.s = s
    <3>1. s \in 0 .. MaxSessions
      BY DigitalAssumption DEF Sessions
    <3> QED BY <1>0, <2>2, <3>1 DEF AskMemory
  <2>4. Fits(r, m)
    BY <1>0, <2>3 DEF Fits
  <2>5. req' = [req EXCEPT ![r] = m]
    BY <1>0, <2>1, <2>2 DEF AskTyped
  <2>6. UNCHANGED lockVars
    BY <1>4 DEF Cancel
  <2> QED BY <1>0, <1>1, <2>4, <2>5, <2>6, AskMoves
<1>5. CASE CancelClear(r)
  <2>1. req[r].s \in Sessions /\ Doc(req[r].s) \in Docs \union {NoDoc}
    BY <1>5 DEF CancelClear, AtR, IInv, Asks, AsksOf, SessTyped, Session, Doc
  <2>2. \/ GivesBack(r, req[r].s, <<"ticket">>)
        \/ Release(r, Doc(req[r].s)) /\ Rest(r)
    BY <1>5 DEF CancelClear
  <2>3. CASE GivesBack(r, req[r].s, <<"ticket">>)
    <3>1. <<"ticket">> \in Todos \ {<<>>}
      BY DEF Todos
    <3> QED BY <1>0, <2>1, <2>3, <3>1, AskGivesBack
  <2>4. CASE Release(r, Doc(req[r].s)) /\ Rest(r)
    BY <1>0, <2>1, <2>4, AskRests, LockMoves
  <2> QED BY <2>2, <2>3, <2>4
<1>6. CASE Reject(r)
  <2>1. PICK d \in Docs : /\ tosign' = [tosign EXCEPT ![d] = NoPdf]
                          /\ req' = [req EXCEPT ![r].at = "tx", ![r].d = d]
    BY <1>6 DEF Reject
  <2>2. UNCHANGED <<key, inprocess, move>>
    BY <1>6 DEF Reject
  <2>3. LockTypeOK'
    BY <1>0, <2>1, <2>2 DEF LockTypeOK
  <2> QED BY <1>2, <2>1, <2>3
<1>7. CASE RejectTx(r)
  <2>1. (Rest(r) \/ StepR(r, "expire")) /\ UNCHANGED lockVars
    BY <1>7 DEF RejectTx
  <2> QED BY <1>0, <1>1, <1>3, <2>1, AskRests
<1>8. CASE RejectExpire(r)
  BY <1>1, <1>3, <1>8 DEF RejectExpire
<1>9. CASE RejectNumber(r)
  <2>1. Settle(r, req[r].d) /\ Rest(r)
    BY <1>9 DEF RejectNumber
  <2> QED BY <1>0, <2>1, AskRests, LockMoves
<1> QED BY <1>4, <1>5, <1>6, <1>7, <1>8, <1>9 DEF RejectGoes

\* What a poll of a batch remembers.
LEMMA BatchAsks ==
  ASSUME IInv, NEW r \in Requests, BatchGoes(r) \/ CloseFails(r)
  PROVE  LockTypeOK' /\ AskTyped' /\ Asks'
<1> USE Typed
<1>0. /\ r # Job /\ AskTyped /\ Asks
      /\ req[r] \in AskMemory
  BY DigitalAssumption DEF IInv, AskTyped
<1>1. LockTypeOK'
  <2>1. UNCHANGED lockVars
    BY DEF BatchGoes, PollRegister, PollSiblings, CloseEnqueue, CloseMark, CloseFails
  <2> QED BY <2>1 DEF LockTypeOK, lockVars, store
<1>2. req[r].s \in Sessions /\ req[r].left \subseteq Sessions
      /\ (req[r].at \in {"closing", "marking"} => req[r].left # {})
  BY <1>0 DEF BatchGoes, PollRegister, PollSiblings, CloseEnqueue, CloseMark, CloseFails,
         AtR, Asks, AsksOf, AskMemory
<1>3. ASSUME NEW at \in {"closing", "marking"}, NEW L \in SUBSET Sessions, L # {},
             req' = [req EXCEPT ![r] = [req[r] EXCEPT !.at = at, !.left = L]]
      PROVE  AskTyped' /\ Asks'
  <2>1. PICK m : m = [req[r] EXCEPT !.at = at, !.left = L]
    OBVIOUS
  <2>2. m \in AskMemory /\ m.at = at /\ m.left = L /\ m.s = req[r].s
    BY <1>0, <2>1 DEF AskMemory
  <2>3. Fits(r, m)
    BY <1>0, <1>2, <1>3, <2>2 DEF Fits
  <2> QED BY <1>0, <1>3, <2>1, <2>3, AskMoves
<1>4. CASE PollRegister(r)
  BY <1>0, <1>1, <1>2, <1>4, AskGoes DEF PollRegister
<1>5. CASE PollSiblings(r)
  <2>1. PICK L : L = In(sess[req[r].s].batch, {"waiting_batch", "completing"})
    OBVIOUS
  <2>2. L \in SUBSET Sessions
    BY <2>1 DEF In, OfBatch
  <2>3. \/ Rest(r)
        \/ /\ ~Waits(sess[req[r].s].batch)
           /\ req' = [req EXCEPT ![r].at = "closing", ![r].left = L]
    BY <1>5, <2>1 DEF PollSiblings
  <2>4. CASE Rest(r)
    BY <1>0, <2>4, AskRests, <1>1
  <2>5. CASE /\ ~Waits(sess[req[r].s].batch)
             /\ req' = [req EXCEPT ![r].at = "closing", ![r].left = L]
    <3>1. L # {}
      BY <2>1, <2>5 DEF Waits
    <3>2. req' = [req EXCEPT ![r] = [req[r] EXCEPT !.at = "closing", !.left = L]]
      BY <1>0, <2>5 DEF AskTyped
    <3> QED BY <1>1, <1>3, <2>2, <3>1, <3>2
  <2> QED BY <2>3, <2>4, <2>5
<1>6. CASE CloseEnqueue(r)
  <2>1. req[r].left # {}
    BY <1>2, <1>6 DEF CloseEnqueue, AtR
  <2>2. req' = [req EXCEPT ![r] = [req[r] EXCEPT !.at = "marking", !.left = req[r].left]]
    BY <1>0, <1>6 DEF CloseEnqueue, StepR, AskTyped, AskMemory
  <2> QED BY <1>1, <1>2, <1>3, <2>1, <2>2
<1>7. CASE CloseMark(r)
  <2>1. PICK s : s = First(req[r].left)
    OBVIOUS
  <2>2. req' = [req EXCEPT ![r] = IF req[r].left = {s} THEN Resting
                                  ELSE [req[r] EXCEPT !.at = "closing",
                                                      !.left = req[r].left \ {s}]]
    BY <1>7, <2>1 DEF CloseMark
  <2>3. CASE req[r].left = {s}
    BY <1>0, <1>1, <2>2, <2>3, AskRests DEF Rest
  <2>4. CASE req[r].left # {s}
    <3>1. PICK L : L = req[r].left \ {s}
      OBVIOUS
    <3>2. L \in SUBSET Sessions /\ L # {}
      <4>1. req[r].left # {}
        BY <1>2, <1>7 DEF CloseMark, AtR
      <4>2. s \in req[r].left
        BY <1>2, <2>1, <4>1, FirstIsOne
      <4> QED BY <1>2, <2>4, <3>1, <4>2
    <3>3. req' = [req EXCEPT ![r] = [req[r] EXCEPT !.at = "closing", !.left = L]]
      BY <2>2, <2>4, <3>1
    <3> QED BY <1>1, <1>3, <3>2, <3>3
  <2> QED BY <2>3, <2>4
<1>8. CASE CloseFails(r)
  BY <1>0, <1>1, <1>8, AskRests DEF CloseFails
<1> QED BY <1>1, <1>4, <1>5, <1>6, <1>7, <1>8 DEF BatchGoes

\* What any request remembers.
LEMMA RequestAsks ==
  ASSUME IInv, NEW r \in Requests, RequestNext(r)
  PROVE  LockTypeOK' /\ AskTyped' /\ Asks'
<1>1. CASE PollLook(r) \/ PollGoes(r)
  BY <1>1, PollAsks
<1>2. CASE Cancel(r) \/ CancelClear(r) \/ Reject(r) \/ RejectGoes(r)
  BY <1>2, CancelAsks
<1>3. CASE BatchGoes(r) \/ CloseFails(r)
  BY <1>3, BatchAsks
<1>4. CASE RequestDies(r)
  BY <1>4, DiesAsks
<1>5. CASE PollConfirmFails(r) \/ PollSaveFails(r)
  <2>1. req[r].s \in Sessions
    BY <1>5 DEF PollConfirmFails, PollSaveFails, AtR, IInv, Asks, AsksOf
  <2>2. PICK todo \in Todos \ {<<>>} : GivesBack(r, req[r].s, todo)
    <3>1. <<"failed">> \in Todos \ {<<>>}
      BY DEF Todos
    <3> QED BY <1>5, <3>1, TodoJoins DEF PollConfirmFails, PollSaveFails
  <2> QED BY <2>1, <2>2, AskGivesBack, Typed DEF IInv
<1> QED BY <1>1, <1>2, <1>3, <1>4, <1>5 DEF RequestNext, SessionGoes

\* What a step of anybody but an opener does to the sessions.
SessStep == /\ SessTyped' /\ EndedStep
            /\ \A t \in Sessions : sess'[t].st = "none" <=> sess[t].st = "none"

\* A session that ended is not marked again, and one that was not opened neither.
LEMMA MarkSteps ==
  ASSUME SessTyped, NEW s \in 0 .. MaxSessions, NEW st \in Statuses \ {"none"},
         NEW from \in SUBSET Vivos, sess' = Marked(s, from, st)
  PROVE  SessStep
<1>1. /\ SessTyped'
      /\ \A t \in Sessions : sess'[t] # sess[t] =>
           t = s /\ sess[t].st \in from /\ sess'[t].st = st
  BY MarkMoves
<1>2. \A x \in from : x \notin Ended /\ x # "none"
  BY DEF Vivos, Ended, Caidos
<1>3. ASSUME NEW t \in Sessions
      PROVE  /\ sess[t].st \in Ended => sess'[t].st = sess[t].st
             /\ sess'[t].st = "none" <=> sess[t].st = "none"
  <2>1. CASE sess'[t] = sess[t]
    BY <2>1
  <2>2. CASE sess'[t] # sess[t]
    <3>1. sess[t].st \in from /\ sess'[t].st = st /\ st # "none"
      BY <1>1, <2>2
    <3> QED BY <1>2, <3>1
  <2> QED BY <2>1, <2>2
<1> QED BY <1>1, <1>3 DEF SessStep, EndedStep

\* What keeps the status of a session keeps all that matters here.
LEMMA StatusKept ==
  ASSUME SessTyped, NEW s \in Sessions, NEW c \in Session, c.st = sess[s].st,
         sess' = [sess EXCEPT ![s] = c]
  PROVE  SessStep
<1>1. /\ SessTyped' /\ sess'[s] = c
      /\ \A t \in Sessions : t # s => sess'[t] = sess[t]
  BY OneSessionMoves
<1> QED BY <1>1 DEF SessStep, EndedStep

\* A step that leaves the sessions alone.
LEMMA SessStands ==
  ASSUME SessTyped, UNCHANGED sess
  PROVE  SessStep
BY DEF SessTyped, SessStep, EndedStep

\* The list of a request revives no session.
LEMMA UndoSess ==
  ASSUME IInv, NEW r \in Requests \union {Job}, Undo(r)
  PROVE  SessStep
<1> USE Typed
<1>1. req[r].s \in 0 .. MaxSessions
  BY DEF AskTyped, AskMemory
<1>2. CASE Head(req[r].todo) \in Caidos
  <2>1. PICK st : st = Head(req[r].todo)
    OBVIOUS
  <2>2. st \in Statuses \ {"none"} /\ {"pending"} \in SUBSET Vivos
    BY <1>2, <2>1 DEF Statuses, Caidos, Vivos
  <2>3. sess' = Marked(req[r].s, {"pending"}, st)
    BY <1>2, <2>1 DEF Undo
  <2> QED BY <1>1, <2>2, <2>3, MarkSteps
<1>3. CASE Head(req[r].todo) \notin Caidos
  BY <1>3, SessStands DEF Undo
<1> QED BY <1>2, <1>3

\* No request revives a session.
LEMMA RequestSess ==
  ASSUME IInv, NEW r \in Requests, RequestNext(r)
  PROVE  SessStep
<1> USE Typed
<1>0. /\ req[r].s \in 0 .. MaxSessions /\ req[r].left \subseteq Sessions
      /\ {"pending"} \in SUBSET Vivos /\ {"waiting_batch"} \in SUBSET Vivos
      /\ "completing" \in Statuses \ {"none"} /\ "waiting_batch" \in Statuses \ {"none"}
      /\ "cancelled" \in Statuses \ {"none"}
  <2>1. req[r] \in AskMemory
    BY DEF AskTyped
  <2>2. req[r].s \in 0 .. MaxSessions /\ req[r].left \subseteq Sessions
    BY <2>1 DEF AskMemory
  <2> QED BY <2>2 DEF Vivos, Caidos, Statuses
<1>1. CASE Undo(r)
  BY <1>1, UndoSess
<1>2. CASE PollCompleting(r)
  <2>1. sess' = Marked(req[r].s, {"pending"}, "completing")
    BY <1>2 DEF PollCompleting
  <2> QED BY <1>0, <2>1, MarkSteps
<1>3. CASE PollRegister(r)
  <2>1. sess' = Marked(req[r].s, {"pending"}, "waiting_batch")
    BY <1>3 DEF PollRegister
  <2> QED BY <1>0, <2>1, MarkSteps
<1>4. CASE CloseMark(r)
  <2>1. req[r].left # {}
    BY <1>4 DEF CloseMark, AtR, IInv, Asks, AsksOf
  <2>2. First(req[r].left) \in 0 .. MaxSessions
    BY <1>0, <2>1, FirstIsOne, DigitalAssumption DEF Sessions
  <2>3. sess' = Marked(First(req[r].left), {"waiting_batch"}, "completing")
    BY <1>4 DEF CloseMark
  <2> QED BY <1>0, <2>2, <2>3, MarkSteps
<1>5. CASE PollConsume(r)
  <2>1. req[r].s \in Sessions
    BY <1>5 DEF PollConsume, AtR, IInv, Asks, AsksOf
  <2>2. UNCHANGED sess \/ sess' = [sess EXCEPT ![req[r].s].used = TRUE]
    BY <1>5 DEF PollConsume
  <2>3. CASE sess' = [sess EXCEPT ![req[r].s].used = TRUE]
    <3>1. PICK c : c = [sess[req[r].s] EXCEPT !.used = TRUE]
      OBVIOUS
    <3>2. c \in Session /\ c.st = sess[req[r].s].st
      <4>1. sess[req[r].s] \in Session
        BY <2>1 DEF SessTyped
      <4> QED BY <3>1, <4>1 DEF Session
    <3>3. sess' = [sess EXCEPT ![req[r].s] = c]
      BY <2>1, <2>3, <3>1 DEF SessTyped
    <3> QED BY <2>1, <3>2, <3>3, StatusKept
  <2> QED BY <2>2, <2>3, SessStands
<1>6. CASE CancelClear(r)
  <2>1. req[r].s \in Sessions
    BY <1>6 DEF CancelClear, AtR, IInv, Asks, AsksOf
  <2>2. sess' = [sess EXCEPT ![req[r].s].answer = "none"]
    BY <1>6 DEF CancelClear
  <2>3. PICK c : c = [sess[req[r].s] EXCEPT !.answer = "none"]
    OBVIOUS
  <2>4. c \in Session /\ c.st = sess[req[r].s].st
    BY <2>1, <2>3 DEF SessTyped, Session
  <2>5. sess' = [sess EXCEPT ![req[r].s] = c]
    BY <2>1, <2>2, <2>3 DEF SessTyped
  <2> QED BY <2>1, <2>4, <2>5, StatusKept
<1>7. CASE Cancel(r)
  <2>1. PICK s \in Sessions :
          /\ sess[s].st = "pending"
          /\ sess' = [Marked(s, {"pending"}, "cancelled") EXCEPT ![s].clean = TRUE]
    BY <1>7 DEF Cancel
  <2>2. PICK c : c = [sess[s] EXCEPT !.st = "cancelled", !.clean = TRUE]
    OBVIOUS
  <2>3. c \in Session /\ c.st = "cancelled"
    BY <2>2 DEF SessTyped, Session, Statuses, Caidos
  <2>4. sess' = [sess EXCEPT ![s] = c]
    <3>1. Marked(s, {"pending"}, "cancelled")
            = [sess EXCEPT ![s].st = "cancelled", ![s].clean = TRUE]
      BY <2>1 DEF Marked, SessTyped, Session
    <3> QED BY <2>1, <2>2, <3>1 DEF SessTyped, Session
  <2>5. /\ SessTyped' /\ sess'[s] = c
        /\ \A t \in Sessions : t # s => sess'[t] = sess[t]
    BY <2>3, <2>4, OneSessionMoves
  <2> QED BY <2>1, <2>3, <2>5 DEF SessStep, EndedStep, Ended, Caidos
<1>8. CASE UNCHANGED sess
  BY <1>8, SessStands
<1>9. \/ Undo(r) \/ PollCompleting(r) \/ PollRegister(r) \/ CloseMark(r) \/ PollConsume(r)
      \/ CancelClear(r) \/ Cancel(r) \/ UNCHANGED sess
  BY DEF RequestNext, PollLook, SessionGoes, PollGoes, PollAsk, PollCert, PollConfirm,
         PollSave, PollEnqueue, RejectGoes, RejectTx, RejectExpire, RejectNumber, Reject,
         PollConfirmFails, PollSaveFails, RequestDies, BatchGoes, PollSiblings, CloseEnqueue,
         CloseFails, RejectKeeps
<1> QED BY <1>1, <1>2, <1>3, <1>4, <1>5, <1>6, <1>7, <1>8, <1>9

\* A row of the queue for a session that exists.
LEMMA EncolarMoves ==
  ASSUME DocumentTyped, SessTyped, NEW s \in Sessions, Encolar(s)
  PROVE  /\ row' \in [Docs -> QueueRow]
         /\ \A d \in Docs : row'[d] # row[d] =>
              /\ ~InQueue(d) /\ d = Doc(s)
              /\ row'[d] = [st |-> "pending", s |-> s, tk |-> sess[s].tk]
<1>1. CASE InQueue(Doc(s))
  BY <1>1 DEF Encolar, DocumentTyped
<1>2. CASE ~InQueue(Doc(s))
  <2>1. PICK q : q = [st |-> "pending", s |-> s, tk |-> sess[s].tk]
    OBVIOUS
  <2>2. q \in QueueRow
    <3>1. sess[s].tk \in Nat /\ s \in 0 .. MaxSessions
      BY DigitalAssumption DEF SessTyped, Session, Sessions
    <3> QED BY <2>1, <3>1 DEF QueueRow
  <2>3. row' = [row EXCEPT ![Doc(s)] = q]
    BY <1>2, <2>1 DEF Encolar
  <2> QED BY <1>2, <2>1, <2>2, <2>3 DEF DocumentTyped
<1> QED BY <1>1, <1>2

\* No request touches what a worker has done.
LEMMA RequestDocs ==
  ASSUME IInv, NEW r \in Requests, RequestNext(r)
  PROVE  DocumentTyped' /\ Closing' /\ CloseTyped' /\ UNCHANGED <<open, close, official>>
<1> USE Typed
<1>0. /\ req[r].s \in 0 .. MaxSessions /\ req[r].left \subseteq Sessions
      /\ UNCHANGED <<open, close, official>>
  <2>1. req[r] \in AskMemory
    BY DEF AskTyped
  <2>2. UNCHANGED <<open, close, official>>
    BY DEF RequestNext, PollLook, SessionGoes, PollGoes, PollAsk, PollConsume, PollCert,
           PollConfirm, PollSave, PollEnqueue, PollCompleting, Undo, CancelClear, RejectGoes,
           RejectTx, RejectExpire, RejectNumber, Cancel, Reject, PollConfirmFails,
           PollSaveFails, RequestDies, BatchGoes, PollRegister, PollSiblings, CloseEnqueue,
           CloseMark, CloseFails, RejectKeeps, ReqKeeps, others, results
  <2> QED BY <2>1, <2>2 DEF AskMemory
<1>1. /\ od' \in [Docs -> Number]
      /\ \A d \in Docs : od'[d].st = "CONFIRMED" => od[d].st = "CONFIRMED"
  <2>1. CASE PollConfirm(r)
    <3>1. \/ od' = [od EXCEPT ![Doc(req[r].s)].st = "CONFIRMING"]
          \/ UNCHANGED od
      BY <2>1 DEF PollConfirm
    <3>2. PICK d : d = Doc(req[r].s)
      OBVIOUS
    <3>3. od' = [od EXCEPT ![d].st = "CONFIRMING"] \/ UNCHANGED od
      BY <3>1, <3>2
    <3>4. CASE od' = [od EXCEPT ![d].st = "CONFIRMING"] /\ d \in Docs
      <4>1. PICK n : n = [od[d] EXCEPT !.st = "CONFIRMING"]
        OBVIOUS
      <4>2. n \in Number /\ n.st = "CONFIRMING"
        BY <3>4, <4>1 DEF DocumentTyped, Number
      <4>3. od' = [od EXCEPT ![d] = n]
        BY <3>4, <4>1 DEF DocumentTyped
      <4> QED BY <4>2, <4>3 DEF DocumentTyped
    <3>5. CASE UNCHANGED od \/ d \notin Docs
      BY <3>3, <3>5 DEF DocumentTyped
    <3> QED BY <3>3, <3>4, <3>5
  <2>2. CASE Undo(r) \/ PollConfirmFails(r)
    <3>1. \/ CancelNumber(Doc(req[r].s))
          \/ CancelTicket(Doc(req[r].s), sess[req[r].s].tk, {"RESERVED"})
          \/ UNCHANGED od
      BY <2>2 DEF Undo, PollConfirmFails
    <3> QED BY <3>1, CancelMoves, CancelTicketMoves DEF Cancels
  <2>3. CASE RejectTx(r) \/ RejectNumber(r)
    <3>1. CancelNumber(req[r].d) \/ UNCHANGED od
      BY <2>3 DEF RejectTx, RejectNumber, document
    <3> QED BY <3>1, CancelMoves DEF Cancels
  <2>4. CASE UNCHANGED od
    BY <2>4 DEF DocumentTyped
  <2>5. \/ PollConfirm(r) \/ Undo(r) \/ PollConfirmFails(r) \/ RejectTx(r) \/ RejectNumber(r)
        \/ UNCHANGED od
    BY DEF RequestNext, PollLook, SessionGoes, PollGoes, PollAsk, PollConsume, PollCert,
           PollSave, PollEnqueue, PollCompleting, CancelClear, RejectGoes,
           RejectExpire, Cancel, Reject,
           PollSaveFails, RequestDies, BatchGoes, PollRegister, PollSiblings, CloseEnqueue,
           CloseMark, CloseFails, document
  <2> QED BY <2>1, <2>2, <2>3, <2>4, <2>5
<1>2. /\ row' \in [Docs -> QueueRow]
      /\ \A d \in Docs : row'[d] # row[d] =>
           /\ row'[d].st # "none"
           /\ row'[d].s \in Sessions \/ (row'[d].s = row[d].s /\ row[d].st # "none")
  <2>1. CASE PollEnqueue(r) \/ CloseEnqueue(r)
    <3>1. PICK s \in Sessions : Encolar(s)
      <4>1. CASE PollEnqueue(r)
        BY <4>1 DEF PollEnqueue, AtR, IInv, Asks, AsksOf
      <4>2. CASE CloseEnqueue(r)
        <5>1. req[r].left # {}
          BY <4>2 DEF CloseEnqueue, AtR, IInv, Asks, AsksOf
        <5> QED BY <1>0, <4>2, <5>1, FirstIsOne DEF CloseEnqueue
      <4> QED BY <2>1, <4>1, <4>2
    <3>2. /\ row' \in [Docs -> QueueRow]
          /\ \A d \in Docs : row'[d] # row[d] =>
               row'[d] = [st |-> "pending", s |-> s, tk |-> sess[s].tk]
      BY <3>1, EncolarMoves
    <3> QED BY <3>2
  <2>2. CASE RejectExpire(r)
    BY <2>2 DEF RejectExpire, DocumentTyped, QueueRow, InQueue
  <2>3. CASE UNCHANGED row
    BY <2>3 DEF DocumentTyped
  <2>4. PollEnqueue(r) \/ CloseEnqueue(r) \/ RejectExpire(r) \/ UNCHANGED row
    BY DEF RequestNext, PollLook, SessionGoes, PollGoes, PollAsk, PollConsume, PollCert,
           PollConfirm, PollSave, PollCompleting, Undo, CancelClear, RejectGoes,
           RejectTx, RejectNumber, Cancel, Reject, PollConfirmFails,
           PollSaveFails, RequestDies, BatchGoes, PollRegister, PollSiblings,
           CloseMark, CloseFails
  <2> QED BY <2>1, <2>2, <2>3, <2>4
<1>3. /\ saved' \in [Docs -> 0 .. MaxSessions]
      /\ draft' \in [Docs -> {"sent_to_sign", "signed", "rejected"}]
      /\ signer' \in [Docs -> {"pending", "signed", "rejected"}]
  <2>1. CASE PollSave(r)
    BY <1>0, <2>1 DEF PollSave, DocumentTyped, ReqKeeps
  <2>2. CASE RejectTx(r)
    BY <2>2 DEF RejectTx, DocumentTyped, RejectKeeps, document, results
  <2>3. CASE UNCHANGED <<saved, draft, signer>>
    BY <2>3 DEF DocumentTyped
  <2>4. PollSave(r) \/ RejectTx(r) \/ UNCHANGED <<saved, draft, signer>>
    BY DEF RequestNext, PollLook, SessionGoes, PollGoes, PollAsk, PollConsume, PollCert,
           PollConfirm, PollEnqueue, PollCompleting, Undo, CancelClear, RejectGoes,
           RejectExpire, RejectNumber, Cancel, Reject, PollConfirmFails,
           PollSaveFails, RequestDies, BatchGoes, PollRegister, PollSiblings, CloseEnqueue,
           CloseMark, CloseFails, RejectKeeps, ReqKeeps, others, results, document
  <2> QED BY <2>1, <2>2, <2>3, <2>4
<1>4. DocumentTyped' /\ CloseTyped'
  BY <1>0, <1>1, <1>2, <1>3 DEF DocumentTyped, CloseTyped
<1>5. Closing'
  BY <1>0, <1>1, <1>2 DEF IInv, Closing, ClosingOf
<1> QED BY <1>0, <1>4, <1>5

\* Requests.
LEMMA RequestStep ==
  ASSUME IInv, NEW r \in Requests, RequestNext(r)
  PROVE  IInv' /\ EndedStep
<1> USE Typed
<1>1. LockTypeOK' /\ AskTyped' /\ Asks'
  BY RequestAsks
<1>2. SessStep
  BY RequestSess
<1>3. DocumentTyped' /\ Closing' /\ CloseTyped' /\ UNCHANGED open
  BY RequestDocs
<1>4. FallTyped' /\ Falls'
  <2>1. CASE PollSiblings(r) \/ CloseFails(r)
    <3>1. req[r].s \in Sessions
      BY <2>1 DEF PollSiblings, CloseFails, AtR, IInv, Asks, AsksOf
    <3>2. sess[req[r].s].batch \in 0 .. MaxSessions
      BY <3>1 DEF SessTyped, Session
    <3>3. Calls(sess[req[r].s].batch) \/ UNCHANGED fall
      BY <2>1 DEF PollSiblings, CloseFails
    <3> QED BY <3>2, <3>3, CallsMoves DEF IInv
  <2>2. CASE UNCHANGED fall
    BY <2>2 DEF IInv, FallTyped, Falls, FallsOf
  <2>3. PollSiblings(r) \/ CloseFails(r) \/ UNCHANGED fall
    BY DEF RequestNext, PollLook, SessionGoes, PollGoes, PollAsk, PollConsume, PollCert,
           PollConfirm, PollSave, PollEnqueue, PollCompleting, Undo, CancelClear, RejectGoes,
           RejectTx, RejectExpire, RejectNumber, Cancel, Reject, PollConfirmFails,
           PollSaveFails, RequestDies, BatchGoes, PollRegister, CloseEnqueue,
           CloseMark, RejectKeeps, ReqKeeps, others
  <2> QED BY <2>1, <2>2, <2>3
<1>5. FaultsTyped'
  <2>1. Fault \/ NoFault
    BY DEF RequestNext, PollLook, SessionGoes, PollGoes, PollAsk, PollConsume, PollCert,
           PollConfirm, PollSave, PollEnqueue, PollCompleting, Undo, CancelClear, RejectGoes,
           RejectTx, RejectExpire, RejectNumber, Cancel, Reject, PollConfirmFails,
           PollSaveFails, RequestDies, BatchGoes, PollRegister, PollSiblings, CloseEnqueue,
           CloseMark, CloseFails, RejectKeeps, NoFault
  <2> QED BY <2>1, FaultsMove
<1>6. Room' /\ Opens' /\ OpenTyped'
  BY <1>2, <1>3, RoomStands DEF SessStep
<1>7. TypeOK'
  BY <1>1, <1>2, <1>3, <1>4, <1>5, <1>6, TypeParts DEF Parts, SessStep
<1> QED BY <1>1, <1>2, <1>3, <1>4, <1>6, <1>7 DEF IInv, SessStep

\* The job that expires what is late.
LEMMA JobStep ==
  ASSUME IInv, OrphanLook \/ Undo(Job) \/ RequestDies(Job)
  PROVE  IInv' /\ EndedStep
<1> USE Typed
<1>1. LockTypeOK' /\ AskTyped' /\ Asks'
  <2>1. CASE OrphanLook
    <3>1. PICK s \in Sessions : GivesBack(Job, s, <<"expired">>)
      BY <2>1 DEF OrphanLook
    <3>2. <<"expired">> \in Todos \ {<<>>}
      BY DEF Todos
    <3> QED BY <3>1, <3>2, AskGivesBack DEF IInv
  <2> QED BY <2>1, UndoAsks, DiesAsks
<1>2. SessStep
  <2>1. Undo(Job) \/ UNCHANGED sess
    BY DEF OrphanLook, RequestDies
  <2> QED BY <2>1, UndoSess, SessStands
<1>3. /\ od' \in [Docs -> Number]
      /\ \A d \in Docs : od'[d].st = "CONFIRMED" => od[d].st = "CONFIRMED"
  <2>1. \/ CancelNumber(Doc(req[Job].s))
        \/ CancelTicket(Doc(req[Job].s), sess[req[Job].s].tk, {"RESERVED"})
        \/ UNCHANGED od
    BY DEF Undo, OrphanLook, RequestDies
  <2>2. CASE UNCHANGED od
    BY <2>2 DEF DocumentTyped
  <2> QED BY <2>1, <2>2, CancelMoves, CancelTicketMoves DEF Cancels
<1>4. UNCHANGED <<open, close, official, saved, row, draft, signer, fall>>
  BY DEF Undo, OrphanLook, RequestDies, ReqKeeps, others
<1>5. DocumentTyped' /\ FallTyped' /\ Falls'
  BY <1>3, <1>4 DEF DocumentTyped, FallTyped, Falls, FallsOf, IInv
<1>6. Closing' /\ CloseTyped'
  BY <1>3, <1>4, ClosingStands
<1>7. FaultsTyped'
  <2>1. Fault \/ NoFault
    BY DEF Undo, OrphanLook, RequestDies, NoFault
  <2> QED BY <2>1, FaultsMove
<1>8. Room' /\ Opens' /\ OpenTyped'
  BY <1>2, <1>4, RoomStands DEF SessStep
<1>9. TypeOK'
  BY <1>1, <1>2, <1>5, <1>6, <1>7, <1>8, TypeParts DEF Parts, SessStep
<1> QED BY <1>1, <1>2, <1>5, <1>6, <1>8, <1>9 DEF IInv, SessStep

-----------------------------------------------------------------------------
(* FirmadorGDI, the clock and cancelar_tanda *)

\* FirmadorGDI and the clock.
LEMMA DeviceStep ==
  ASSUME IInv, NEW s \in Sessions, Put(s) \/ BecomesLate(s)
  PROVE  IInv' /\ EndedStep
<1> USE Typed
<1>1. UNCHANGED <<lockVars, document, results, row, open, req, others, faults>>
  BY DEF Put, BecomesLate
<1>2. SessStep
  <2>1. sess[s] \in Session
    BY DEF SessTyped
  <2>2. CASE Put(s)
    <3>1. PICK a \in Answers : sess' = [sess EXCEPT ![s].answer = a]
      BY <2>2 DEF Put
    <3>2. PICK c : c = [sess[s] EXCEPT !.answer = a]
      OBVIOUS
    <3>3. a \in AllAnswers
      BY DigitalAssumption DEF AllAnswers
    <3>4. c \in Session /\ c.st = sess[s].st
      BY <2>1, <3>2, <3>3 DEF Session
    <3>5. sess' = [sess EXCEPT ![s] = c]
      BY <3>1, <3>2 DEF SessTyped
    <3> QED BY <3>4, <3>5, StatusKept
  <2>3. CASE BecomesLate(s)
    <3>1. sess' = [sess EXCEPT ![s].late = TRUE]
      BY <2>3 DEF BecomesLate
    <3>2. PICK c : c = [sess[s] EXCEPT !.late = TRUE]
      OBVIOUS
    <3>3. c \in Session /\ c.st = sess[s].st
      BY <2>1, <3>2 DEF Session
    <3>4. sess' = [sess EXCEPT ![s] = c]
      BY <3>1, <3>2 DEF SessTyped
    <3> QED BY <3>3, <3>4, StatusKept
  <2> QED BY <2>2, <2>3
<1>3. LockTypeOK' /\ DocumentTyped' /\ AskTyped' /\ FallTyped' /\ FaultsTyped'
  BY <1>1 DEF LockTypeOK, lockVars, store, document, results, others, DocumentTyped,
              AskTyped, FallTyped, FaultsTyped
<1>4. Asks' /\ Falls'
  BY <1>1 DEF others, IInv, Asks, AsksOf, Falls, FallsOf
<1>5. Closing' /\ CloseTyped'
  BY <1>1, ClosingStands DEF document, results, others
<1>6. Room' /\ Opens' /\ OpenTyped'
  BY <1>1, <1>2, RoomStands DEF SessStep
<1>7. TypeOK'
  BY <1>2, <1>3, <1>5, <1>6, TypeParts DEF Parts, SessStep
<1> QED BY <1>2, <1>4, <1>5, <1>6, <1>7 DEF IInv, SessStep

\* cancelar_tanda when nobody calls it.
LEMMA StandingFits ==
  Standing \in FallMemory /\ Standing.at = "idle"
<1>1. 0 \in 0 .. MaxSessions
  BY DigitalAssumption
<1> QED BY <1>1 DEF Standing, FallMemory

\* The next thing that cancelar_tanda remembers.
LEMMA FallMoves ==
  ASSUME FallTyped, Falls, NEW f \in Fallers, NEW m \in FallMemory,
         m.at \in {"pdf", "number", "release"} => m.s \in Sessions,
         fall' = [fall EXCEPT ![f] = m]
  PROVE  FallTyped' /\ Falls'
BY DEF FallTyped, Falls, FallsOf

\* What cancelar_tanda remembers.
LEMMA FallMemories ==
  ASSUME IInv, NEW f \in Fallers, FallGoes(f) \/ FallDies(f)
  PROVE  FallTyped' /\ Falls'
<1>0. /\ FallTyped /\ Falls /\ fall[f] \in FallMemory
      /\ fall[f].at \in {"pdf", "number", "release"} => fall[f].s \in Sessions
  BY Typed DEF IInv, FallTyped, Falls, FallsOf
<1>1. ASSUME NEW at \in {"next", "number", "release"}, StepF(f, at),
             fall[f].at \in {"pdf", "number", "release"}
      PROVE  FallTyped' /\ Falls'
  <2>1. PICK m : m = [fall[f] EXCEPT !.at = at]
    OBVIOUS
  <2>2. m \in FallMemory /\ m.s = fall[f].s
    BY <1>0, <2>1 DEF FallMemory
  <2>3. fall' = [fall EXCEPT ![f] = m]
    BY <1>0, <1>1, <2>1 DEF StepF, FallTyped
  <2> QED BY <1>0, <1>1, <2>2, <2>3, FallMoves
<1>2. CASE FallSelect(f)
  <2>1. PICK L, F, R : /\ L \in SUBSET Sessions /\ F \in SUBSET Sessions
                       /\ R \in SUBSET Sessions
                       /\ fall' = [fall EXCEPT ![f] =
                            [@ EXCEPT !.at = "next", !.live = L, !.flying = F, !.left = R]]
    BY <1>2 DEF FallSelect, OfBatch
  <2>2. PICK m : m = [fall[f] EXCEPT !.at = "next", !.live = L, !.flying = F, !.left = R]
    OBVIOUS
  <2>3. m \in FallMemory /\ m.at = "next"
    BY <1>0, <2>1, <2>2 DEF FallMemory
  <2>4. fall' = [fall EXCEPT ![f] = m]
    BY <2>1, <2>2
  <2> QED BY <1>0, <2>3, <2>4, FallMoves
<1>3. CASE FallNext(f)
  <2>1. CASE fall[f].left = {}
    <3>1. fall' = [fall EXCEPT ![f] = Standing]
      BY <1>3, <2>1 DEF FallNext
    <3> QED BY <1>0, <3>1, StandingFits, FallMoves
  <2>2. CASE fall[f].left # {}
    <3>1. PICK s : s = First(fall[f].left)
      OBVIOUS
    <3>2. fall[f].left \subseteq Sessions /\ s \in Sessions
      <4>1. fall[f].left \subseteq Sessions
        BY <1>0 DEF FallMemory
      <4> QED BY <2>2, <3>1, <4>1, FirstIsOne
    <3>3. PICK at \in {"pdf", "next"} :
            fall' = [fall EXCEPT ![f] =
                       [@ EXCEPT !.at = at, !.s = s, !.left = fall[f].left \ {s}]]
      BY <1>3, <2>2, <3>1 DEF FallNext
    <3>4. PICK L : L = fall[f].left \ {s}
      OBVIOUS
    <3>5. PICK m : m = [fall[f] EXCEPT !.at = at, !.s = s, !.left = L]
      OBVIOUS
    <3>6. s \in 0 .. MaxSessions /\ L \in SUBSET Sessions
      BY <3>2, <3>4, DigitalAssumption DEF Sessions
    <3>7. m \in FallMemory /\ m.s = s
      BY <1>0, <3>5, <3>6 DEF FallMemory
    <3>8. fall' = [fall EXCEPT ![f] = m]
      BY <3>3, <3>4, <3>5
    <3> QED BY <1>0, <3>2, <3>7, <3>8, FallMoves
  <2> QED BY <2>1, <2>2
<1>4. CASE FallPdf(f)
  BY <1>1, <1>4 DEF FallPdf, AtF
<1>5. CASE FallNumber(f)
  BY <1>1, <1>5 DEF FallNumber, AtF
<1>6. CASE FallRelease(f)
  BY <1>1, <1>6 DEF FallRelease, AtF
<1>7. CASE FallDies(f)
  BY <1>0, <1>7, StandingFits, FallMoves DEF FallDies
<1> QED BY <1>2, <1>3, <1>4, <1>5, <1>6, <1>7 DEF FallGoes

\* cancelar_tanda revives no session.
LEMMA FallSess ==
  ASSUME IInv, NEW f \in Fallers, FallGoes(f) \/ FallDies(f)
  PROVE  SessStep
<1> USE Typed
<1>1. CASE FallNext(f) /\ sess' # sess
  <2>1. PICK s : s = First(fall[f].left)
    OBVIOUS
  <2>2. fall[f].left # {} /\ fall[f].left \subseteq Sessions
    BY <1>1 DEF FallNext, FallTyped, FallMemory
  <2>3. s \in Sessions
    BY <2>1, <2>2, FirstIsOne
  <2>4. PICK live \in BOOLEAN :
          /\ Taken(s, live)
          /\ sess' = [sess EXCEPT ![s].st = IF live THEN "failed" ELSE @, ![s].clean = TRUE]
    <3>1. (s \in fall[f].live) \in BOOLEAN
      OBVIOUS
    <3> QED BY <1>1, <2>1, <2>2, <3>1 DEF FallNext
  <2>5. sess[s] \in Session
    BY <2>3 DEF SessTyped
  <2>6. CASE live
    <3>1. PICK c : c = [sess[s] EXCEPT !.st = "failed", !.clean = TRUE]
      OBVIOUS
    <3>2. c \in Session /\ c.st = "failed"
      BY <2>5, <3>1 DEF Session, Statuses, Caidos
    <3>3. sess' = [sess EXCEPT ![s] = c]
      BY <2>3, <2>4, <2>6, <3>1 DEF SessTyped
    <3>4. /\ SessTyped' /\ sess'[s] = c
          /\ \A t \in Sessions : t # s => sess'[t] = sess[t]
      BY <2>3, <3>2, <3>3, OneSessionMoves
    <3>5. sess[s].st \in Vivos
      BY <2>4, <2>6 DEF Taken, Live
    <3>6. sess[s].st \notin Ended /\ sess[s].st # "none"
      BY <3>5 DEF Vivos, Ended, Caidos
    <3> QED BY <2>3, <3>2, <3>4, <3>6 DEF SessStep, EndedStep
  <2>7. CASE ~live
    <3>1. PICK c : c = [sess[s] EXCEPT !.clean = TRUE]
      OBVIOUS
    <3>2. c \in Session /\ c.st = sess[s].st
      BY <2>5, <3>1 DEF Session
    <3>3. sess' = [sess EXCEPT ![s] = c]
      BY <2>3, <2>4, <2>5, <2>7, <3>1 DEF SessTyped, Session
    <3> QED BY <2>3, <3>2, <3>3, StatusKept
  <2> QED BY <2>6, <2>7
<1>2. CASE UNCHANGED sess
  BY <1>2, SessStands
<1>3. FallNext(f) \/ UNCHANGED sess
  BY DEF FallGoes, FallSelect, FallPdf, FallNumber, FallRelease, FallDies
<1> QED BY <1>1, <1>2, <1>3

\* cancelar_tanda.
LEMMA FallStep ==
  ASSUME IInv, NEW f \in Fallers, FallGoes(f) \/ FallDies(f)
  PROVE  IInv' /\ EndedStep
<1> USE Typed
<1>1. FallTyped' /\ Falls'
  BY FallMemories
<1>2. SessStep
  BY FallSess
<1>3. UNCHANGED <<draft, signer, official, row, open, req, close>>
  BY DEF FallGoes, FallSelect, FallNext, FallPdf, FallNumber, FallRelease, FallDies, FallKeeps
<1>4. LockTypeOK'
  <2>1. fall[f].s \in 0 .. MaxSessions /\ f \in Callers
    BY DigitalAssumption DEF FallTyped, FallMemory
  <2>2. FallRelease(f) => Doc(fall[f].s) \in Docs \union {NoDoc}
    BY DEF FallRelease, AtF, IInv, Falls, FallsOf, SessTyped, Session, Doc
  <2>3. \/ FallRelease(f) /\ Release(f, Doc(fall[f].s))
        \/ Dead(f) /\ UNCHANGED store
        \/ UNCHANGED lockVars
    BY DEF FallGoes, FallSelect, FallNext, FallPdf, FallNumber, FallRelease, FallDies
  <2>4. NoDoc \in Docs \union {NoDoc}
    OBVIOUS
  <2> QED BY <2>1, <2>2, <2>3, <2>4, LockMoves
<1>5. /\ od' \in [Docs -> Number]
      /\ \A d \in Docs : od'[d].st = "CONFIRMED" => od[d].st = "CONFIRMED"
  <2>1. \/ CancelTicket(Doc(fall[f].s), sess[fall[f].s].tk, {"RESERVED", "CONFIRMING"})
        \/ UNCHANGED od
    BY DEF FallGoes, FallSelect, FallNext, FallPdf, FallNumber, FallRelease, FallDies
  <2>2. CASE UNCHANGED od
    BY <2>2 DEF DocumentTyped
  <2> QED BY <2>1, <2>2, CancelTicketMoves DEF Cancels
<1>6. saved' \in [Docs -> 0 .. MaxSessions]
  <2>1. (\E d : saved' = [saved EXCEPT ![d] = 0]) \/ UNCHANGED saved
    BY DEF FallGoes, FallSelect, FallNext, FallPdf, FallNumber, FallRelease, FallDies
  <2> QED BY <2>1, DigitalAssumption DEF DocumentTyped
<1>7. DocumentTyped' /\ AskTyped' /\ Asks'
  BY <1>3, <1>5, <1>6 DEF DocumentTyped, AskTyped, IInv, Asks, AsksOf
<1>8. Closing' /\ CloseTyped'
  BY <1>3, <1>5, ClosingStands
<1>9. Room' /\ Opens' /\ OpenTyped'
  BY <1>2, <1>3, RoomStands DEF SessStep
<1>10. FaultsTyped'
  <2>1. Fault \/ NoFault
    BY DEF FallGoes, FallSelect, FallNext, FallPdf, FallNumber, FallRelease, FallDies,
           FallKeeps, NoFault
  <2> QED BY <2>1, FaultsMove
<1>11. TypeOK'
  BY <1>1, <1>2, <1>4, <1>7, <1>8, <1>9, <1>10, TypeParts DEF Parts, SessStep
<1> QED BY <1>1, <1>2, <1>7, <1>8, <1>9, <1>11 DEF IInv, SessStep

\* Whoever calls cancelar_tanda.
LEMMA CallStep ==
  ASSUME IInv, CancelBatch \/ SweepBatches
  PROVE  IInv' /\ EndedStep
<1> USE Typed
<1>1. CallKeeps /\ \E b \in Opened : Calls(b)
  BY DEF CancelBatch, SweepBatches, LateBatch, DirtyBatch
<1>2. Opened \subseteq 0 .. MaxSessions
  BY DEF Opened, SessTyped, Session
<1>3. FallTyped' /\ Falls'
  BY <1>1, <1>2, CallsMoves DEF IInv
<1>4. /\ UNCHANGED <<lockVars, document, results, sess, row, open, req, close, faults>>
  BY <1>1 DEF CallKeeps
<1>5. SessStep
  BY <1>4, SessStands
<1>6. LockTypeOK' /\ DocumentTyped' /\ AskTyped' /\ FaultsTyped' /\ Asks'
  BY <1>4 DEF LockTypeOK, lockVars, store, document, results, DocumentTyped,
              AskTyped, FaultsTyped, IInv, Asks, AsksOf
<1>7. Closing' /\ CloseTyped'
  BY <1>4, ClosingStands DEF document, results
<1>8. Room' /\ Opens' /\ OpenTyped'
  BY <1>4, <1>5, RoomStands DEF SessStep
<1>9. TypeOK'
  BY <1>3, <1>5, <1>6, <1>7, <1>8, TypeParts DEF Parts, SessStep
<1> QED BY <1>3, <1>5, <1>6, <1>7, <1>8, <1>9 DEF IInv, SessStep

-----------------------------------------------------------------------------
(* The worker *)

\* A worker goes on.
LEMMA CloseMoves ==
  ASSUME CloseTyped, NEW d \in Docs, NEW m \in CloseMemory, close' = [close EXCEPT ![d] = m]
  PROVE  /\ CloseTyped' /\ close'[d] = m
         /\ \A e \in Docs : e # d => close'[e] = close[e]
BY DEF CloseTyped

\* A worker goes on to its next step.
LEMMA CloseGoesOn ==
  ASSUME CloseTyped, NEW d \in Docs,
         NEW at \in {"idle", "check", "read", "upload", "finalize", "draft", "put", "settle",
                     "signer", "mark", "tidy", "row", "fail", "failed", "drop"},
         StepC(d, at)
  PROVE  /\ CloseTyped' /\ close'[d].at = at /\ close'[d].pdf = close[d].pdf
         /\ close'[d].why = close[d].why
         /\ \A e \in Docs : e # d => close'[e] = close[e]
<1>1. PICK m : m = [close[d] EXCEPT !.at = at]
  OBVIOUS
<1>2. m \in CloseMemory /\ m.at = at /\ m.pdf = close[d].pdf /\ m.why = close[d].why
  BY <1>1 DEF CloseTyped, CloseMemory
<1>3. close' = [close EXCEPT ![d] = m]
  BY <1>1 DEF StepC, CloseTyped
<1> QED BY <1>2, <1>3, CloseMoves

\* A worker fails.
LEMMA CloseGoesWrong ==
  ASSUME CloseTyped, NEW d \in Docs, NEW why \in {"stale", "lost", "upload"}, Fails(d, why)
  PROVE  /\ CloseTyped' /\ close'[d].at = "fail" /\ close'[d].why = why
         /\ close'[d].pdf = close[d].pdf
         /\ \A e \in Docs : e # d => close'[e] = close[e]
<1>1. PICK m : m = [close[d] EXCEPT !.at = "fail", !.why = why]
  OBVIOUS
<1>2. m \in CloseMemory /\ m.at = "fail" /\ m.why = why /\ m.pdf = close[d].pdf
  BY <1>1 DEF CloseTyped, CloseMemory
<1>3. close' = [close EXCEPT ![d] = m]
  BY <1>1 DEF Fails, CloseTyped
<1> QED BY <1>2, <1>3, CloseMoves

\* A worker ends.
LEMMA CloseEnds ==
  ASSUME CloseTyped, NEW d \in Docs, close' = [close EXCEPT ![d] = Asleep]
  PROVE  /\ CloseTyped' /\ close'[d] = Asleep
         /\ \A e \in Docs : e # d => close'[e] = close[e]
<1>1. Asleep \in CloseMemory
  BY DigitalAssumption DEF Asleep, CloseMemory
<1> QED BY <1>1, CloseMoves

CloseNext(d) == CloseGoes(d) \/ CloseFaults(d)

\* What a worker remembers, and how it came to it.
LEMMA CloseMemories ==
  ASSUME IInv, NEW d \in Docs, CloseNext(d)
  PROVE  /\ CloseTyped' /\ \A e \in Docs : e # d => close'[e] = close[e]
         /\ close'[d].at \in {"upload", "put"} =>
              close'[d].pdf # 0 /\ (close'[d].at = "upload" => d \in Numbered)
         /\ close'[d].at = "finalize" => close[d].at = "upload"
         /\ close'[d].at = "draft" => close[d].at = "finalize"
         /\ close'[d].at # "idle" => close[d].at # "idle" \/ Claim(d)
<1> USE Typed
<1>1. CASE Claim(d)
  BY <1>1, CloseGoesOn DEF Claim
<1>2. CASE CloseCheck(d)
  <2>1. StepC(d, "read") \/ Fails(d, "stale")
    BY <1>2 DEF CloseCheck
  <2>2. close[d].at # "idle"
    BY <1>2 DEF CloseCheck, AtC
  <2> QED BY <2>1, <2>2, CloseGoesOn, CloseGoesWrong
<1>3. CASE CloseRead(d)
  <2>1. close[d].at # "idle" /\ close[d] \in CloseMemory /\ saved[d] \in 0 .. MaxSessions
    BY <1>3 DEF CloseRead, AtC, CloseTyped, DocumentTyped
  <2>2. CASE Fails(d, "lost")
    BY <2>1, <2>2, CloseGoesWrong
  <2>3. CASE ~Fails(d, "lost")
    <3>1. /\ saved[d] # 0
          /\ close' = [close EXCEPT ![d].pdf = saved[d],
                        ![d].at = IF d \in Numbered THEN "upload" ELSE "put"]
      BY <1>3, <2>3 DEF CloseRead
    <3>2. PICK at : at = IF d \in Numbered THEN "upload" ELSE "put"
      OBVIOUS
    <3>3. PICK m : m = [close[d] EXCEPT !.pdf = saved[d], !.at = at]
      OBVIOUS
    <3>4. m \in CloseMemory /\ m.pdf = saved[d] /\ m.at = at
      BY <2>1, <3>2, <3>3 DEF CloseMemory
    <3>5. close' = [close EXCEPT ![d] = m]
      BY <2>1, <3>1, <3>2, <3>3 DEF CloseTyped, CloseMemory
    <3>6. /\ CloseTyped' /\ close'[d] = m
          /\ \A e \in Docs : e # d => close'[e] = close[e]
      BY <3>4, <3>5, CloseMoves
    <3> QED BY <2>1, <3>1, <3>2, <3>4, <3>6
  <2> QED BY <2>2, <2>3
<1>4. CASE CloseUpload(d)
  BY <1>4, CloseGoesOn DEF CloseUpload, AtC
<1>5. CASE CloseFinalize(d)
  BY <1>5, CloseGoesOn DEF CloseFinalize, AtC
<1>6. CASE \/ CloseDraft(d) \/ ClosePut(d) \/ CloseSettle(d) \/ CloseSigner(d)
           \/ CloseMarkSigned(d) \/ CloseTidy(d) \/ FailRow(d) \/ CloseGivesUp(d)
  <2>1. PICK at \in {"settle", "signer", "mark", "tidy", "row", "failed"} : StepC(d, at)
    BY <1>6 DEF CloseDraft, ClosePut, CloseSettle, CloseSigner, CloseMarkSigned, CloseTidy,
                FailRow, CloseGivesUp
  <2>2. close[d].at # "idle"
    BY <1>6 DEF CloseDraft, ClosePut, CloseSettle, CloseSigner, CloseMarkSigned, CloseTidy,
                FailRow, CloseGivesUp, AtC
  <2> QED BY <2>1, <2>2, CloseGoesOn
<1>7. CASE CloseRow(d) \/ DropBatch(d) \/ WorkerDies(d)
  <2>1. close' = [close EXCEPT ![d] = Asleep]
    BY <1>7 DEF CloseRow, DropBatch, WorkerDies
  <2>2. CloseTyped' /\ close'[d] = Asleep /\ \A e \in Docs : e # d => close'[e] = close[e]
    BY <2>1, CloseEnds
  <2>3. close'[d].at = "idle"
    BY <2>2 DEF Asleep
  <2> QED BY <2>2, <2>3
<1>8. CASE FailSession(d)
  <2>1. close[d].at # "idle"
    BY <1>8 DEF FailSession, AtC
  <2>2. close' = [close EXCEPT ![d] = Asleep] \/ StepC(d, "drop")
    BY <1>8 DEF FailSession, StepC, CloseTyped, CloseMemory
  <2> QED BY <2>1, <2>2, CloseEnds, CloseGoesOn DEF Asleep
<1>9. CASE CloseUploadFails(d)
  BY <1>9, CloseGoesWrong DEF CloseUploadFails, AtC
<1> QED BY <1>1, <1>2, <1>3, <1>4, <1>5, <1>6, <1>7, <1>8, <1>9
        DEF CloseNext, CloseGoes, CloseFaults

\* A session that was not closed fails, if it still can.
LEMMA FailMoves ==
  ASSUME SessTyped, NEW s \in Sessions, NEW why,
         sess' = [Marked(s, {"pending", "completing"}, "failed") EXCEPT
                    ![s].partial = @ \/ (why = "upload"
                                         /\ sess[s].st \in {"pending", "completing"})]
  PROVE  \E c \in Session :
           /\ sess' = [sess EXCEPT ![s] = c] /\ c.d = sess[s].d /\ c.batch = sess[s].batch
           /\ c.answer = sess[s].answer
           /\ c.st = sess[s].st \/ (c.st = "failed" /\ sess[s].st \in {"pending", "completing"})
<1>1. sess[s] \in Session
  BY DEF SessTyped
<1>2. PICK p \in BOOLEAN :
        p = (sess[s].partial \/ (why = "upload" /\ sess[s].st \in {"pending", "completing"}))
  BY <1>1 DEF Session
<1>3. CASE sess[s].st \in {"pending", "completing"}
  <2>1. PICK c : c = [sess[s] EXCEPT !.st = "failed", !.partial = p]
    OBVIOUS
  <2>2. /\ c \in Session /\ c.st = "failed" /\ c.d = sess[s].d /\ c.batch = sess[s].batch
        /\ c.answer = sess[s].answer
    BY <1>1, <2>1 DEF Session, Statuses, Caidos
  <2>3. PICK M : M = [sess EXCEPT ![s].st = "failed"]
    OBVIOUS
  <2>4. PICK e : e = [sess[s] EXCEPT !.st = "failed"]
    OBVIOUS
  <2>5. M = [sess EXCEPT ![s] = e] /\ e.partial = sess[s].partial /\ e \in Session
    BY <1>1, <2>3, <2>4 DEF SessTyped, Session, Statuses, Caidos
  <2>6. M[s] = e /\ M \in [Sessions -> Session]
    BY <2>5 DEF SessTyped
  <2>7. Marked(s, {"pending", "completing"}, "failed") = [sess EXCEPT ![s].st = "failed"]
    BY <1>1, <1>3 DEF Marked, Session, SessTyped
  <2>8. sess' = [M EXCEPT ![s].partial = p]
    BY <1>2, <2>3, <2>5, <2>6, <2>7
  <2>9. c = [e EXCEPT !.partial = p]
    BY <1>1, <2>1, <2>4 DEF Session
  <2>10. sess' = [M EXCEPT ![s] = c]
    BY <2>6, <2>8, <2>9
  <2>11. sess' = [sess EXCEPT ![s] = c]
    BY <2>5, <2>10 DEF SessTyped
  <2> QED BY <1>3, <2>2, <2>11
<1>4. CASE sess[s].st \notin {"pending", "completing"}
  <2>1. PICK c : c = [sess[s] EXCEPT !.partial = p]
    OBVIOUS
  <2>2. /\ c \in Session /\ c.st = sess[s].st /\ c.d = sess[s].d /\ c.batch = sess[s].batch
        /\ c.answer = sess[s].answer
    BY <1>1, <2>1 DEF Session
  <2>3. sess' = [sess EXCEPT ![s] = c]
    BY <1>2, <1>4, <2>1 DEF SessTyped, Marked
  <2> QED BY <2>2, <2>3
<1> QED BY <1>3, <1>4

\* No worker revives a session.
LEMMA CloseSess ==
  ASSUME IInv, NEW d \in Docs, CloseNext(d)
  PROVE  SessStep
<1> USE Typed
<1>0. /\ row[d].s \in 0 .. MaxSessions
      /\ {"pending", "completing"} \in SUBSET Vivos
      /\ "signed" \in Statuses \ {"none"} /\ "failed" \in Statuses \ {"none"}
  <2>1. row[d] \in QueueRow
    BY DEF DocumentTyped
  <2> QED BY <2>1 DEF QueueRow, Statuses, Vivos, Caidos
<1>1. CASE CloseMarkSigned(d)
  <2>1. sess' = Marked(row[d].s, {"pending", "completing"}, "signed")
    BY <1>1 DEF CloseMarkSigned, Own
  <2> QED BY <1>0, <2>1, MarkSteps
<1>2. CASE FailSession(d)
  <2>1. PICK s : s = row[d].s
    OBVIOUS
  <2>2. sess' = [Marked(s, {"pending", "completing"}, "failed") EXCEPT
                   ![s].partial = @ \/ (close[d].why = "upload"
                                        /\ sess[s].st \in {"pending", "completing"})]
    BY <1>2, <2>1 DEF FailSession, Own
  <2>3. s \in Sessions
    BY <1>2, <2>1 DEF FailSession, AtC, IInv, Closing, ClosingOf
  <2>4. PICK c \in Session :
          /\ sess' = [sess EXCEPT ![s] = c]
          /\ c.st = sess[s].st \/ (c.st = "failed" /\ sess[s].st \in {"pending", "completing"})
    BY <2>2, <2>3, FailMoves
  <2>5. CASE c.st = sess[s].st
    BY <2>3, <2>4, <2>5, StatusKept
  <2>6. CASE c.st = "failed" /\ sess[s].st \in {"pending", "completing"}
    <3>1. /\ SessTyped' /\ sess'[s] = c
          /\ \A t \in Sessions : t # s => sess'[t] = sess[t]
      BY <2>3, <2>4, OneSessionMoves
    <3> QED BY <2>3, <2>6, <3>1 DEF SessStep, EndedStep, Ended, Caidos
  <2> QED BY <2>4, <2>5, <2>6
<1>3. CASE UNCHANGED sess
  BY <1>3, SessStands
<1>4. CloseMarkSigned(d) \/ FailSession(d) \/ UNCHANGED sess
  BY DEF CloseNext, CloseGoes, CloseFaults, Claim, CloseCheck, CloseRead, CloseUpload,
         CloseFinalize, CloseDraft, ClosePut, CloseSettle, CloseSigner, CloseTidy, CloseRow,
         FailRow, DropBatch, CloseUploadFails, CloseGivesUp, WorkerDies
<1> QED BY <1>1, <1>2, <1>3, <1>4

\* What the worker does to the document.
LEMMA CloseDocs ==
  ASSUME IInv, NEW d \in Docs, CloseNext(d)
  PROVE  /\ DocumentTyped' /\ UNCHANGED <<open, req>>
         /\ \A e \in Docs : e # d => /\ official'[e] = official[e] /\ row'[e] = row[e]
                                     /\ od'[e] = od[e]
         /\ row'[d].s = row[d].s /\ (row'[d].st = "none" => row[d].st = "none")
         /\ official'[d] # official[d] => CloseUpload(d) /\ official'[d] = close[d].pdf
         /\ od'[d] # od[d] => /\ close[d].at = "finalize" /\ od[d].st = "CONFIRMING"
                              /\ od'[d] = [st |-> "CONFIRMED", tk |-> od[d].tk]
         /\ CloseUpload(d) => official'[d] = close[d].pdf
         /\ Claim(d) => row[d].st # "none"
<1> USE Typed
<1>1. UNCHANGED <<open, req>>
  BY DEF CloseNext, CloseGoes, CloseFaults, Claim, CloseCheck, CloseRead, CloseUpload,
         CloseFinalize, CloseDraft, ClosePut, CloseSettle, CloseSigner, CloseMarkSigned,
         CloseTidy, CloseRow, FailRow, FailSession, DropBatch, CloseUploadFails,
         CloseGivesUp, WorkerDies, CloseKeeps
<1>2. /\ row' \in [Docs -> QueueRow] /\ \A e \in Docs : e # d => row'[e] = row[e]
      /\ row'[d].s = row[d].s /\ (row'[d].st = "none" => row[d].st = "none")
      /\ Claim(d) => row[d].st # "none"
  <2>1. PICK st \in {"processing", "signed", "failed"} :
          /\ row' = [row EXCEPT ![d].st = st] \/ UNCHANGED row
          /\ Claim(d) => row[d].st # "none"
    BY DEF CloseNext, CloseGoes, CloseFaults, Claim, CloseCheck, CloseRead, CloseUpload,
         CloseFinalize, CloseDraft, ClosePut, CloseSettle, CloseSigner, CloseMarkSigned,
         CloseTidy, CloseRow, FailRow, FailSession, DropBatch, CloseUploadFails,
         CloseGivesUp, WorkerDies
  <2>2. PICK q : q = [row[d] EXCEPT !.st = st]
    OBVIOUS
  <2>3. q \in QueueRow /\ q.st = st /\ q.s = row[d].s
    BY <2>2 DEF DocumentTyped, QueueRow
  <2>4. row' = [row EXCEPT ![d] = q] \/ UNCHANGED row
    BY <2>1, <2>2 DEF DocumentTyped
  <2> QED BY <2>1, <2>3, <2>4 DEF DocumentTyped
<1>3. /\ official' \in [Docs -> 0 .. MaxSessions]
      /\ \A e \in Docs : e # d => official'[e] = official[e]
      /\ official'[d] # official[d] => CloseUpload(d) /\ official'[d] = close[d].pdf
      /\ CloseUpload(d) => official'[d] = close[d].pdf
  <2>1. CASE CloseUpload(d)
    <3>1. close[d].pdf \in 0 .. MaxSessions
      BY DEF CloseTyped, CloseMemory
    <3> QED BY <2>1, <3>1 DEF CloseUpload, DocumentTyped
  <2>2. CASE ~CloseUpload(d) /\ UNCHANGED official
    BY <2>2 DEF DocumentTyped
  <2>3. CloseUpload(d) \/ UNCHANGED official
    BY DEF CloseNext, CloseGoes, CloseFaults, Claim, CloseCheck, CloseRead,
         CloseFinalize, CloseDraft, ClosePut, CloseSettle, CloseSigner, CloseMarkSigned,
         CloseTidy, CloseRow, FailRow, FailSession, DropBatch, CloseUploadFails,
         CloseGivesUp, WorkerDies
  <2> QED BY <2>1, <2>2, <2>3
<1>4. /\ od' \in [Docs -> Number] /\ \A e \in Docs : e # d => od'[e] = od[e]
      /\ od'[d] # od[d] => /\ close[d].at = "finalize" /\ od[d].st = "CONFIRMING"
                           /\ od'[d] = [st |-> "CONFIRMED", tk |-> od[d].tk]
  <2>1. CASE CloseFinalize(d) /\ od' = [od EXCEPT ![d].st = "CONFIRMED"]
    <3>0. od[d].st = "CONFIRMING" \/ UNCHANGED od
      BY <2>1 DEF CloseFinalize, Holds
    <3>1. PICK n : n = [od[d] EXCEPT !.st = "CONFIRMED"]
      OBVIOUS
    <3>2. n \in Number /\ n = [st |-> "CONFIRMED", tk |-> od[d].tk]
      BY <3>1 DEF DocumentTyped, Number
    <3>3. od' = [od EXCEPT ![d] = n]
      BY <2>1, <3>1 DEF DocumentTyped
    <3>4. close[d].at = "finalize"
      BY <2>1 DEF CloseFinalize, AtC
    <3> QED BY <3>0, <3>2, <3>3, <3>4 DEF DocumentTyped
  <2>2. CASE UNCHANGED od
    BY <2>2 DEF DocumentTyped
  <2>3. CloseFinalize(d) \/ UNCHANGED od
    BY DEF CloseNext, CloseGoes, CloseFaults, Claim, CloseCheck, CloseRead, CloseUpload,
         CloseDraft, ClosePut, CloseSettle, CloseSigner, CloseMarkSigned,
         CloseTidy, CloseRow, FailRow, FailSession, DropBatch, CloseUploadFails,
         CloseGivesUp, WorkerDies, document
  <2> QED BY <2>1, <2>2, <2>3 DEF CloseFinalize
<1>5. saved' \in [Docs -> 0 .. MaxSessions]
  <2>1. saved' = [saved EXCEPT ![d] = 0] \/ UNCHANGED saved
    BY DEF CloseNext, CloseGoes, CloseFaults, Claim, CloseCheck, CloseRead, CloseUpload,
         CloseFinalize, CloseDraft, ClosePut, CloseSettle, CloseSigner, CloseMarkSigned,
         CloseTidy, CloseRow, FailRow, FailSession, DropBatch, CloseUploadFails,
         CloseGivesUp, WorkerDies, CloseKeeps
  <2> QED BY <2>1, DigitalAssumption DEF DocumentTyped
<1>6. draft' \in [Docs -> {"sent_to_sign", "signed", "rejected"}]
  <2>1. draft' = [draft EXCEPT ![d] = "signed"] \/ UNCHANGED draft
    BY DEF CloseNext, CloseGoes, CloseFaults, Claim, CloseCheck, CloseRead, CloseUpload,
         CloseFinalize, CloseDraft, ClosePut, CloseSettle, CloseSigner, CloseMarkSigned,
         CloseTidy, CloseRow, FailRow, FailSession, DropBatch, CloseUploadFails,
         CloseGivesUp, WorkerDies, document
  <2> QED BY <2>1 DEF DocumentTyped
<1>7. signer' \in [Docs -> {"pending", "signed", "rejected"}]
  <2>1. signer' = [signer EXCEPT ![d] = "signed"] \/ UNCHANGED signer
    BY DEF CloseNext, CloseGoes, CloseFaults, Claim, CloseCheck, CloseRead, CloseUpload,
         CloseFinalize, CloseDraft, ClosePut, CloseSettle, CloseSigner, CloseMarkSigned,
         CloseTidy, CloseRow, FailRow, FailSession, DropBatch, CloseUploadFails,
         CloseGivesUp, WorkerDies, document
  <2> QED BY <2>1 DEF DocumentTyped
<1> QED BY <1>1, <1>2, <1>3, <1>4, <1>5, <1>6, <1>7 DEF DocumentTyped

\* What a worker does with the PDF and its key.
LEMMA CloseLocks ==
  ASSUME IInv, NEW d \in Docs, CloseNext(d)
  PROVE  LockTypeOK'
<1> USE Typed
<1>0. d \in Callers /\ d \in Docs \union {NoDoc}
  BY DigitalAssumption
<1>1. CASE ClosePut(d)
  <2>1. close[d].pdf \in Sessions
    <3>1. close[d].pdf # 0
      BY <1>1 DEF ClosePut, AtC, IInv, Closing, ClosingOf
    <3>2. close[d].pdf \in 0 .. MaxSessions
      BY DEF CloseTyped, CloseMemory
    <3> QED BY <3>1, <3>2, DigitalAssumption DEF Sessions
  <2>2. PICK p : p = sess[close[d].pdf].pdf \union {close[d].pdf}
    OBVIOUS
  <2>3. p \in Pdfs
    BY <2>1, <2>2, DigitalAssumption DEF SessTyped, Session, Sessions
  <2>4. tosign' = [tosign EXCEPT ![d] = p] /\ UNCHANGED <<key, inprocess, move>>
    BY <1>1, <2>2 DEF ClosePut
  <2> QED BY <2>3, <2>4 DEF LockTypeOK
<1>2. CASE ~ClosePut(d)
  <2>1. \/ Settle(d, d)
        \/ Dead(d) /\ UNCHANGED store
        \/ UNCHANGED lockVars
    BY <1>2 DEF CloseNext, CloseGoes, CloseFaults, Claim, CloseCheck, CloseRead, CloseUpload,
         CloseFinalize, CloseDraft, CloseSettle, CloseSigner, CloseMarkSigned,
         CloseTidy, CloseRow, FailRow, FailSession, DropBatch, CloseUploadFails,
         CloseGivesUp, WorkerDies
  <2> QED BY <1>0, <2>1, LockMoves
<1> QED BY <1>1, <1>2

\* Workers.
LEMMA CloseStep ==
  ASSUME IInv, NEW d \in Docs, CloseNext(d)
  PROVE  IInv' /\ EndedStep
<1> USE Typed
<1>1. LockTypeOK'
  BY CloseLocks
<1>2. SessStep
  BY CloseSess
<1>3. /\ DocumentTyped' /\ UNCHANGED <<open, req>>
      /\ \A e \in Docs : e # d => /\ official'[e] = official[e] /\ row'[e] = row[e]
                                  /\ od'[e] = od[e]
      /\ row'[d].s = row[d].s /\ (row'[d].st = "none" => row[d].st = "none")
      /\ official'[d] # official[d] => CloseUpload(d) /\ official'[d] = close[d].pdf
      /\ od'[d] # od[d] => /\ close[d].at = "finalize" /\ od[d].st = "CONFIRMING"
                           /\ od'[d] = [st |-> "CONFIRMED", tk |-> od[d].tk]
      /\ CloseUpload(d) => official'[d] = close[d].pdf
      /\ Claim(d) => row[d].st # "none"
  BY CloseDocs
<1>4. /\ CloseTyped' /\ \A e \in Docs : e # d => close'[e] = close[e]
      /\ close'[d].at \in {"upload", "put"} =>
           close'[d].pdf # 0 /\ (close'[d].at = "upload" => d \in Numbered)
      /\ close'[d].at = "finalize" => close[d].at = "upload"
      /\ close'[d].at = "draft" => close[d].at = "finalize"
      /\ close'[d].at # "idle" => close[d].at # "idle" \/ Claim(d)
  BY CloseMemories
<1>5. FallTyped' /\ Falls'
  <2>1. CASE DropBatch(d)
    <3>1. row[d].s \in Sessions
      BY <2>1 DEF DropBatch, AtC, IInv, Closing, ClosingOf
    <3>2. sess[row[d].s].batch \in 0 .. MaxSessions
      BY <3>1 DEF SessTyped, Session
    <3> QED BY <2>1, <3>2, CallsMoves DEF DropBatch, Own, IInv
  <2>2. CASE UNCHANGED fall
    BY <2>2 DEF IInv, FallTyped, Falls, FallsOf
  <2>3. DropBatch(d) \/ UNCHANGED fall
    BY DEF CloseNext, CloseGoes, CloseFaults, Claim, CloseCheck, CloseRead, CloseUpload,
         CloseFinalize, CloseDraft, ClosePut, CloseSettle, CloseSigner, CloseMarkSigned,
         CloseTidy, CloseRow, FailRow, FailSession, CloseUploadFails,
         CloseGivesUp, WorkerDies
  <2> QED BY <2>1, <2>2, <2>3
<1>6. FaultsTyped'
  <2>1. Fault \/ NoFault
    BY DEF CloseNext, CloseGoes, CloseFaults, Claim, CloseCheck, CloseRead, CloseUpload,
         CloseFinalize, CloseDraft, ClosePut, CloseSettle, CloseSigner, CloseMarkSigned,
         CloseTidy, CloseRow, FailRow, FailSession, DropBatch, CloseUploadFails,
         CloseGivesUp, WorkerDies, NoFault
  <2> QED BY <2>1, FaultsMove
<1>7. AskTyped' /\ Asks'
  BY <1>3 DEF AskTyped, Asks, AsksOf, IInv
<1>8. Room' /\ Opens' /\ OpenTyped'
  BY <1>2, <1>3, RoomStands DEF SessStep
<1>9. Closing'
  <2>1. ASSUME NEW e \in Docs, e # d
        PROVE  ClosingOf(e)'
    BY <1>3, <1>4, <2>1 DEF IInv, Closing, ClosingOf
  <2>2. ClosingOf(d)
    BY DEF IInv, Closing
  <2>3. row'[d].st # "none" => row'[d].s \in Sessions
    BY <1>3, <2>2 DEF ClosingOf, CloseNext, CloseGoes, CloseFaults, Claim, CloseCheck,
         CloseRead, CloseUpload, CloseFinalize, CloseDraft, ClosePut, CloseSettle,
         CloseSigner, CloseMarkSigned, CloseTidy, CloseRow, FailRow, FailSession, DropBatch,
         CloseUploadFails, CloseGivesUp, WorkerDies, AtC
  <2>4. close'[d].at # "idle" => row'[d].st # "none"
    BY <1>3, <1>4, <2>2 DEF ClosingOf
  <2>5. close'[d].at \in {"upload", "put"} => close'[d].pdf # 0
    BY <1>4
  <2>6. close'[d].at \in {"upload", "finalize", "draft"} => d \in Numbered
    BY <1>4, <2>2 DEF ClosingOf
  <2>7. official[d] # 0 => official'[d] # 0
    BY <1>3, <2>2 DEF ClosingOf, CloseUpload, AtC
  <2>8. close'[d].at = "finalize" => official'[d] # 0
    <3>1. CASE CloseUpload(d)
      BY <1>3, <2>2, <3>1 DEF ClosingOf, CloseUpload, AtC
    <3>2. CASE ~CloseUpload(d) /\ close'[d].at = "finalize"
      <4>1. close[d].at = "upload"
        BY <1>4, <3>2
      <4>2. CloseUploadFails(d) \/ WorkerDies(d)
        BY <3>2, <4>1 DEF CloseNext, CloseGoes, CloseFaults, Claim, CloseCheck,
         CloseRead, CloseFinalize, CloseDraft, ClosePut, CloseSettle,
         CloseSigner, CloseMarkSigned, CloseTidy, CloseRow, FailRow, FailSession, DropBatch,
         CloseGivesUp, AtC
      <4>3. close'[d].at \in {"fail", "idle"}
        <5>1. CASE CloseUploadFails(d)
          BY <5>1, CloseGoesWrong DEF CloseUploadFails
        <5>2. CASE WorkerDies(d)
          <6>1. close'[d] = Asleep
            BY <5>2, CloseEnds DEF WorkerDies
          <6> QED BY <6>1 DEF Asleep
        <5> QED BY <4>2, <5>1, <5>2
      <4> QED BY <3>2, <4>3
    <3> QED BY <3>1, <3>2
  <2>9. od'[d].st = "CONFIRMED" => official'[d] # 0
    BY <1>3, <2>2, <2>7 DEF ClosingOf
  <2>10. ClosingOf(d)'
    BY <2>3, <2>4, <2>5, <2>6, <2>8, <2>9 DEF ClosingOf
  <2> QED BY <2>1, <2>10 DEF Closing
<1>10. TypeOK'
  BY <1>1, <1>2, <1>3, <1>4, <1>5, <1>6, <1>7, <1>8, TypeParts DEF Parts, SessStep
<1> QED BY <1>2, <1>5, <1>7, <1>8, <1>9, <1>10 DEF IInv, SessStep

-----------------------------------------------------------------------------
(* The sweeper *)

\* The sweeper confirms only a number whose PDF is official.
LEMMA SweepDocs ==
  ASSUME IInv, NEW d \in Docs, Sweep(d)
  PROVE  /\ DocumentTyped'
         /\ UNCHANGED <<lockVars, results, row, open, req, close, fall, faults>>
         /\ \A e \in Docs :
              od'[e].st = "CONFIRMED" => od[e].st = "CONFIRMED" \/ official[e] # 0
<1> USE Typed
<1>1. UNCHANGED <<lockVars, results, row, open, req, close, fall, faults>>
  BY DEF Sweep, SweepReserved, SweepConfirming, SweepConfirmed, SweepKeeps
<1>2. /\ od' \in [Docs -> Number]
      /\ \A e \in Docs : od'[e].st = "CONFIRMED" => od[e].st = "CONFIRMED" \/ official[e] # 0
  <2>1. CASE od' = [od EXCEPT ![d].st = "CONFIRMED"] /\ official[d] # 0
    <3>1. PICK n : n = [od[d] EXCEPT !.st = "CONFIRMED"]
      OBVIOUS
    <3>2. n \in Number
      BY <3>1 DEF DocumentTyped, Number
    <3>3. od' = [od EXCEPT ![d] = n]
      BY <2>1, <3>1 DEF DocumentTyped
    <3> QED BY <2>1, <3>2, <3>3 DEF DocumentTyped
  <2>2. CASE UNCHANGED od
    BY <2>2 DEF DocumentTyped
  <2>3. CASE \E from \in SUBSET {"RESERVED", "CONFIRMING"} : CancelTicket(d, od[d].tk, from)
    BY <2>3, CancelTicketMoves DEF Cancels
  <2>4. \/ od' = [od EXCEPT ![d].st = "CONFIRMED"] /\ official[d] # 0
        \/ UNCHANGED od
        \/ CancelTicket(d, od[d].tk, {"RESERVED"})
        \/ CancelTicket(d, od[d].tk, {"RESERVED", "CONFIRMING"})
    BY DEF Sweep, SweepReserved, SweepConfirming, SweepConfirmed, WasIssued
  <2> QED BY <2>1, <2>2, <2>3, <2>4
<1>3. draft' \in [Docs -> {"sent_to_sign", "signed", "rejected"}]
  <2>1. draft' = [draft EXCEPT ![d] = "signed"] \/ UNCHANGED draft
    BY DEF Sweep, SweepReserved, SweepConfirming, SweepConfirmed
  <2> QED BY <2>1 DEF DocumentTyped
<1>4. signer' \in [Docs -> {"pending", "signed", "rejected"}]
  <2>1. signer' = [signer EXCEPT ![d] = "signed"] \/ UNCHANGED signer
    BY DEF Sweep, SweepReserved, SweepConfirming, SweepConfirmed
  <2> QED BY <2>1 DEF DocumentTyped
<1> QED BY <1>1, <1>2, <1>3, <1>4 DEF DocumentTyped, results

\* The sweeper revives no session.
LEMMA SweepSess ==
  ASSUME IInv, NEW d \in Docs, Sweep(d)
  PROVE  SessStep
<1> USE Typed
<1>1. PICK P \in SUBSET Sessions :
        /\ \A s \in P : sess[s].st = "pending"
        /\ \/ UNCHANGED sess
           \/ sess' = [s \in Sessions |-> IF s \in P THEN [sess[s] EXCEPT !.st = "failed"]
                                          ELSE sess[s]]
  <2>1. CASE UNCHANGED sess
    <3>1. PICK P \in SUBSET Sessions : P = {}
      OBVIOUS
    <3> QED BY <2>1, <3>1
  <2>2. CASE SweepConfirming(d) /\ ~UNCHANGED sess
    <3>1. PICK P \in SUBSET Sessions :
            P = {s \in Sessions : /\ Doc(s) = d /\ sess[s].tk = od[d].tk
                                  /\ sess[s].st = "pending"}
      OBVIOUS
    <3>2. sess' = [s \in Sessions |->
                     IF Doc(s) = d /\ sess[s].tk = od[d].tk /\ sess[s].st = "pending"
                     THEN [sess[s] EXCEPT !.st = "failed"] ELSE sess[s]]
      BY <2>2 DEF SweepConfirming
    <3> QED BY <3>1, <3>2
  <2> QED BY <2>1, <2>2 DEF Sweep, SweepReserved, SweepConfirmed
<1>2. CASE sess' = [s \in Sessions |-> IF s \in P THEN [sess[s] EXCEPT !.st = "failed"]
                                       ELSE sess[s]]
  <2>1. ASSUME NEW s \in Sessions
        PROVE  /\ sess'[s] \in Session /\ (sess[s].st \in Ended => sess'[s].st = sess[s].st)
               /\ sess'[s].st = "none" <=> sess[s].st = "none"
    <3>1. sess[s] \in Session
      BY DEF SessTyped
    <3>2. CASE s \in P
      <4>1. sess'[s] = [sess[s] EXCEPT !.st = "failed"] /\ sess[s].st = "pending"
        BY <1>1, <1>2, <3>2
      <4>2. sess'[s] \in Session /\ sess'[s].st = "failed"
        BY <3>1, <4>1 DEF Session, Statuses, Caidos
      <4> QED BY <4>1, <4>2 DEF Ended, Caidos
    <3>3. CASE s \notin P
      BY <1>2, <3>1, <3>3
    <3> QED BY <3>2, <3>3
  <2>2. SessTyped'
    BY <1>2, <2>1 DEF SessTyped
  <2> QED BY <2>1, <2>2 DEF SessStep, EndedStep
<1> QED BY <1>1, <1>2, SessStands

\* The sweeper.
LEMMA SweepStep ==
  ASSUME IInv, NEW d \in Docs, Sweep(d)
  PROVE  IInv' /\ EndedStep
<1> USE Typed
<1>1. SessStep
  BY SweepSess
<1>2. /\ DocumentTyped' /\ UNCHANGED <<lockVars, results, row, open, req, close, fall, faults>>
      /\ \A e \in Docs : od'[e].st = "CONFIRMED" => od[e].st = "CONFIRMED" \/ official[e] # 0
  BY SweepDocs
<1>3. LockTypeOK' /\ AskTyped' /\ CloseTyped' /\ FallTyped' /\ FaultsTyped'
  BY <1>2 DEF LockTypeOK, lockVars, store, AskTyped, CloseTyped, FallTyped, FaultsTyped
<1>4. Asks' /\ Falls'
  BY <1>2 DEF IInv, Asks, AsksOf, Falls, FallsOf
<1>5. Closing'
  BY <1>2 DEF IInv, Closing, ClosingOf, results
<1>6. Room' /\ Opens' /\ OpenTyped'
  BY <1>1, <1>2, RoomStands DEF SessStep
<1>7. TypeOK'
  BY <1>1, <1>2, <1>3, <1>6, TypeParts DEF Parts, SessStep
<1> QED BY <1>1, <1>4, <1>5, <1>6, <1>7 DEF IInv, SessStep

-----------------------------------------------------------------------------
(* The lock, and all together *)

\* The steps of the lock, and the expiry of its key.
LEMMA LocksStep ==
  ASSUME IInv, Locks
  PROVE  IInv' /\ EndedStep
<1> USE Typed
<1>1. Elsewhere
  BY DEF Locks
<1>2. LockTypeOK'
  <2>1. CASE \E a \in Callers : LockStep(a)
    <3>1. NoDoc \in Docs \union {NoDoc}
      OBVIOUS
    <3> QED BY <2>1, <3>1, LockMoves
  <2>2. CASE \E d \in Docs : KeyExpires(d)
    BY <2>2 DEF KeyExpires, LockTypeOK
  <2> QED BY <2>1, <2>2 DEF Locks
<1>3. /\ DocumentTyped' /\ SessTyped' /\ OpenTyped' /\ AskTyped'
      /\ CloseTyped' /\ FallTyped' /\ FaultsTyped'
  BY <1>1 DEF Elsewhere, document, results, DocumentTyped, SessTyped, OpenTyped, AskTyped,
              CloseTyped, FallTyped, FaultsTyped
<1>4. Asks' /\ Falls' /\ EndedStep
  BY <1>1 DEF Elsewhere, IInv, Asks, AsksOf, Falls, FallsOf, EndedStep
<1>5. Closing'
  BY <1>1, ClosingStands DEF Elsewhere, document, results
<1>6. Room' /\ Opens'
  BY <1>1, RoomStands DEF Elsewhere
<1>7. TypeOK'
  BY <1>2, <1>3, TypeParts DEF Parts
<1> QED BY <1>4, <1>5, <1>6, <1>7 DEF IInv

\* Nothing happens.
LEMMA StutterStep ==
  ASSUME IInv, UNCHANGED vars
  PROVE  IInv' /\ EndedStep
<1> USE Typed
<1>0. /\ UNCHANGED <<lockVars, draft, signer, od, saved, official, sess, row, open>>
      /\ UNCHANGED <<req, close, fall, faults>>
  BY DEF vars, document, results
<1>1. LockTypeOK' /\ DocumentTyped' /\ SessTyped' /\ OpenTyped' /\ AskTyped'
  BY <1>0 DEF lockVars, store, LockTypeOK, DocumentTyped, SessTyped, OpenTyped, AskTyped
<1>2. CloseTyped' /\ FallTyped' /\ FaultsTyped'
  BY <1>0 DEF CloseTyped, FallTyped, FaultsTyped
<1>3. Asks' /\ Falls' /\ EndedStep
  BY <1>0 DEF IInv, Asks, AsksOf, Falls, FallsOf, EndedStep
<1>4. Closing'
  BY <1>0, ClosingStands
<1>5. Room' /\ Opens'
  BY <1>0, RoomStands
<1>6. TypeOK'
  BY <1>1, <1>2, TypeParts DEF Parts
<1> QED BY <1>3, <1>4, <1>5, <1>6 DEF IInv

\* Every step keeps the invariant, and ends no session twice.
LEMMA AllSteps ==
  ASSUME IInv, [Next]_vars
  PROVE  IInv' /\ EndedStep
<1>1. CASE \E o \in Openers : OpenNext(o)
  BY <1>1, OpenerStep
<1>2. CASE \E s \in Sessions : Put(s) \/ BecomesLate(s)
  BY <1>2, DeviceStep
<1>3. CASE \E r \in Requests : RequestNext(r)
  BY <1>3, RequestStep
<1>4. CASE OrphanLook \/ Undo(Job) \/ RequestDies(Job)
  BY <1>4, JobStep
<1>5. CASE \E f \in Fallers : FallGoes(f) \/ FallDies(f)
  BY <1>5, FallStep
<1>6. CASE CancelBatch \/ SweepBatches
  BY <1>6, CallStep
<1>7. CASE \E d \in Docs : CloseNext(d)
  BY <1>7, CloseStep
<1>8. CASE \E d \in Docs : Sweep(d)
  BY <1>8, SweepStep
<1>9. CASE Locks
  BY <1>9, LocksStep
<1>10. CASE UNCHANGED vars
  BY <1>10, StutterStep
<1> QED BY <1>1, <1>2, <1>3, <1>4, <1>5, <1>6, <1>7, <1>8, <1>9, <1>10
        DEF Next, SessionNext, BatchNext, ClosingNext, RequestNext, CloseNext

\* It holds at the beginning.
LEMMA Initially == Init => IInv
<1> SUFFICES ASSUME Init PROVE IInv
  OBVIOUS
<1>0. 0 \in 0 .. MaxSessions /\ MaxSessions \in Nat /\ MaxFaults \in Nat
  BY DigitalAssumption
<1>1. LockTypeOK
  <2>1. {} \in Pdfs
    BY DigitalAssumption
  <2> QED BY <2>1 DEF Init, LockInit, LockTypeOK, Still, LockSteps
<1>2. DocumentTyped
  <2>1. NoNumber \in Number
    BY DEF NoNumber, Number
  <2>2. NoRow \in QueueRow
    BY <1>0 DEF NoRow, QueueRow
  <2> QED BY <1>0, <2>1, <2>2 DEF Init, DocumentTyped
<1>3. SessTyped
  <2>1. NoSession \in Session
    BY <1>0 DEF NoSession, Session, Statuses
  <2> QED BY <2>1 DEF Init, SessTyped
<1>4. OpenTyped
  <2>1. Closed \in OpenMemory
    BY <1>0, DigitalAssumption DEF Closed, OpenMemory
  <2> QED BY <2>1 DEF Init, OpenTyped
<1>5. AskTyped /\ Asks
  BY RestingFits DEF Init, AskTyped, Asks, AsksOf
<1>6. CloseTyped
  BY <1>0 DEF Init, CloseTyped, CloseMemory, Asleep
<1>7. FallTyped /\ Falls
  BY StandingFits DEF Init, FallTyped, Falls, FallsOf
<1>8. Closing
  BY DEF Init, Closing, ClosingOf, NoRow, Asleep, NoNumber
<1>9. Opens
  BY DEF Init, Opens, AtO, Closed
<1>10. Room
  <2>1. Begun = {}
    BY DEF Init, Begun, NoSession
  <2>2. Opening = {}
    BY DEF Init, Opening, AtO, Closed
  <2>3. ToOpen = {}
    BY PairsToOpen DEF Init, Closed
  <2> QED BY <1>0, <2>1, <2>2, <2>3, FS_EmptySet DEF Room
<1>11. FaultsTyped
  BY <1>0 DEF Init, FaultsTyped
<1> QED BY <1>1, <1>2, <1>3, <1>4, <1>5, <1>6, <1>7, <1>8, <1>9, <1>10, <1>11, TypeParts
        DEF IInv, Parts

-----------------------------------------------------------------------------
(* Theorems *)

\* Every reachable state satisfies the invariant: sessions fit in the table,
\* requests work on sessions that exist, and the worker issues a number only
\* between the upload of its PDF and the end of its job.
THEOREM Invariance == Spec => []IInv
<1>1. IInv /\ [Next]_vars => IInv'
  BY AllSteps
<1> QED BY Initially, <1>1, PTL DEF Spec

\* The tables, the object store and the memory of every process have their
\* types whatever the handlers, the worker and the sweeper do.
THEOREM TypeCorrect == Spec => []TypeOK
<1>1. IInv => TypeOK
  BY DEF IInv
<1> QED BY Invariance, <1>1, PTL

\* A number that is CONFIRMED has its PDF in the official bucket: the worker
\* uploads before finalize_number, and the sweeper resolves a number that was
\* left CONFIRMING by what it finds there.
THEOREM Official == Spec => []ConfirmedHasPdf
<1>1. IInv => ConfirmedHasPdf
  BY DEF IInv, Closing, ClosingOf, ConfirmedHasPdf
<1> QED BY Invariance, <1>1, PTL

\* A session that ended stays as it ended: polls, cancellations, the worker, the
\* sweeper and cancelar_tanda update it only where its state is still alive.
THEOREM Final == Spec => EndedStays
<1>1. IInv /\ [Next]_vars =>
        [\A s \in Sessions : sess[s].st \in Ended => sess'[s].st = sess[s].st]_vars
  BY AllSteps DEF EndedStep
<1> QED BY Invariance, <1>1, PTL DEF Spec, EndedStays

-----------------------------------------------------------------------------
(* Batches *)

\* All of the batch is open and none of it waits for the token.
Ripe(b) == /\ Published(b)
           /\ \A s \in Sessions : sess[s].batch = b => sess[s].st \notin {"none", "pending"}

\* A batch is named after its first session.  An answer or a signature shows
\* how far the batch has got.
Batched == \A s \in Sessions :
  /\ sess[s].st = "none" => sess[s].batch = 0
  /\ sess[s].batch # 0 =>
       /\ sess[sess[s].batch].st # "none"
       /\ Doc(s) \in Docs
       /\ sess[s].answer # "none" => Published(sess[s].batch)
       /\ sess[s].st = "signed" => Ripe(sess[s].batch)

\* An opener has the batch to itself, and a document of it is still to come.
GathersOf(o) ==
  /\ ~AtO(o, "idle") => open[o].d \notin open[o].left
  /\ open[o].batch # 0 =>
       /\ sess[open[o].batch].st # "none"
       /\ AtO(o, "idle") => open[o].left # {}
       /\ \A s \in Sessions : sess[s].batch = open[o].batch =>
            Doc(s) \notin open[o].left /\ (~AtO(o, "idle") => Doc(s) # open[o].d)
       /\ \A p \in Openers : p # o => open[p].batch # open[o].batch
Gathers == \A o \in Openers : GathersOf(o)

\* What a request that remembers m knows of the batch of its session.
Knows(m) ==
  /\ m.at \in {"ask", "consume", "cert", "confirm", "save", "enqueue", "completing",
               "register", "siblings", "closing", "marking"} => sess[m.s].st # "none"
  /\ m.at \in {"consume", "cert", "confirm", "save", "enqueue", "completing", "register",
               "siblings", "closing", "marking"} /\ sess[m.s].batch # 0
       => Published(sess[m.s].batch)
  /\ m.at \in {"enqueue", "completing"} => sess[m.s].batch = 0
  /\ m.at \in {"register", "siblings", "closing", "marking"} => sess[m.s].batch # 0
  /\ m.at \in {"closing", "marking"} =>
       Ripe(sess[m.s].batch) /\ \A t \in m.left : sess[t].batch = sess[m.s].batch
AllKnow == \A r \in Requests \union {Job} : Knows(req[r])

\* A closing that was queued is that of a batch that is ripe.
Queued(s) == s # 0 => /\ sess[s].st # "none"
                      /\ sess[s].batch # 0 => Ripe(sess[s].batch)
AllQueued == \A d \in Docs : Queued(row[d].s)

BInv == Batched /\ Gathers /\ AllKnow /\ AllQueued

\* What anybody but an opener does to the sessions.
BatchStep == \A t \in Sessions :
  /\ sess'[t].d = sess[t].d /\ sess'[t].batch = sess[t].batch
  /\ sess'[t].st \in {"none", "pending"} => sess'[t].st = sess[t].st
  /\ \/ sess'[t].answer \in {sess[t].answer, "none"}
     \/ sess[t].batch # 0 => Published(sess[t].batch)
  /\ sess'[t].st = "signed" =>
       sess[t].st = "signed" \/ (sess[t].batch # 0 => Ripe(sess[t].batch))

\* What could be queued still can, and a session is of one document.
SessionsStay == \A s \in Sessions :
  /\ Queued(s) => Queued(s)'
  /\ sess[s].st # "none" => sess'[s].st # "none" /\ sess'[s].d = sess[s].d

\* What was published stays so, and what was ripe.
LEMMA Ripens ==
  ASSUME BatchStep, NEW b
  PROVE  (Published(b) => Published(b)') /\ (Ripe(b) => Ripe(b)')
<1>1. ASSUME Published(b) PROVE Published(b)'
  BY <1>1 DEF Published, OfBatch, Doc, BatchStep
<1>2. ASSUME Ripe(b) PROVE Ripe(b)'
  BY <1>1, <1>2 DEF Ripe, BatchStep
<1> QED BY <1>1, <1>2

\* A step that opens nothing.
LEMMA BatchesKept ==
  ASSUME IInv, IInv', BInv, BatchStep, UNCHANGED open \/ Gathers',
         \A d \in Docs : row'[d].s = row[d].s \/ Queued(row'[d].s),
         \A r \in Requests \union {Job} : req'[r] = req[r] \/ Knows(req'[r])
  PROVE  BInv' /\ SessionsStay
<1>0. SessTyped /\ OpenTyped /\ AskTyped' /\ DocumentTyped'
  BY Typed, TypeParts DEF IInv, Parts
<1>1. Batched'
  <2>1. SUFFICES ASSUME NEW s \in Sessions, NEW b, b = sess'[s].batch
                 PROVE  /\ sess'[s].st = "none" => b = 0
                        /\ b # 0 => /\ sess'[b].st # "none"
                                    /\ sess'[s].d \in Docs
                                    /\ sess'[s].answer # "none" => Published(b)'
                                    /\ sess'[s].st = "signed" => Ripe(b)'
    BY DEF Batched, Doc
  <2>2. b = sess[s].batch /\ b \in 0 .. MaxSessions
    BY <1>0, <2>1 DEF BatchStep, SessTyped, Session
  <2>3. sess'[s].st = "none" => b = 0
    BY <2>2 DEF BatchStep, BInv, Batched
  <2>4. ASSUME b # 0 PROVE sess'[b].st # "none"
    <3>1. b \in Sessions /\ sess[b].st # "none"
      BY <2>2, <2>4, DigitalAssumption DEF BInv, Batched, Sessions
    <3> QED BY <3>1 DEF BatchStep
  <2>5. ASSUME b # 0, sess'[s].answer # "none" PROVE Published(b)'
    <3>1. Published(b)
      BY <2>2, <2>5 DEF BInv, Batched, BatchStep
    <3> QED BY <3>1, Ripens
  <2>6. ASSUME b # 0, sess'[s].st = "signed" PROVE Ripe(b)'
    <3>1. Ripe(b)
      BY <2>2, <2>6 DEF BInv, Batched, BatchStep
    <3> QED BY <3>1, Ripens
  <2>7. b # 0 => sess'[s].d \in Docs
    BY <2>2 DEF BatchStep, BInv, Batched, Doc
  <2> QED BY <2>2, <2>3, <2>4, <2>5, <2>6, <2>7
<1>2. Gathers'
  <2>1. SUFFICES ASSUME NEW o \in Openers, UNCHANGED open PROVE GathersOf(o)'
    BY DEF Gathers
  <2>2. GathersOf(o) /\ open'[o] = open[o]
    BY <2>1 DEF BInv, Gathers
  <2>3. \A p \in Openers : open'[p] = open[p]
    BY <2>1
  <2>4. ASSUME open[o].batch # 0 PROVE sess'[open[o].batch].st # "none"
    <3>1. open[o].batch \in Sessions
      BY <1>0, <2>4, DigitalAssumption DEF OpenTyped, OpenMemory, Sessions
    <3> QED BY <2>2, <2>4, <3>1 DEF GathersOf, BatchStep
  <2>5. \A s \in Sessions : Doc(s)' = Doc(s) /\ sess'[s].batch = sess[s].batch
    BY DEF Doc, BatchStep
  <2> QED BY <2>2, <2>3, <2>4, <2>5 DEF GathersOf, AtO
<1>3. AllKnow'
  <2>1. SUFFICES ASSUME NEW r \in Requests \union {Job} PROVE Knows(req[r])'
    BY DEF AllKnow
  <2>2. PICK m : m = req'[r] /\ Knows(m)
    BY DEF BInv, AllKnow
  <2>3. m \in AskMemory /\ m.left \subseteq Sessions
    BY <1>0, <2>2 DEF AskTyped, AskMemory
  <2>4. CASE m.at \in {"ask", "consume", "cert", "confirm", "save", "enqueue", "completing",
                       "register", "siblings", "closing", "marking"}
    <3>1. m.s \in Sessions
      BY <2>2, <2>4 DEF IInv, Asks, AsksOf
    <3>2. PICK b : b = sess[m.s].batch /\ b = sess'[m.s].batch
      BY <3>1 DEF BatchStep
    <3>3. \A t \in m.left : sess'[t].batch = sess[t].batch
      BY <2>3 DEF BatchStep
    <3>4. sess'[m.s].st # "none"
      BY <2>2, <2>4, <3>1 DEF Knows, BatchStep
    <3> QED BY <2>2, <2>4, <3>2, <3>3, <3>4, Ripens DEF Knows
  <2>5. CASE m.at \notin {"ask", "consume", "cert", "confirm", "save", "enqueue",
                          "completing", "register", "siblings", "closing", "marking"}
    BY <2>2, <2>5 DEF Knows
  <2> QED BY <2>4, <2>5
<1>4. AllQueued'
  <2>1. SUFFICES ASSUME NEW d \in Docs PROVE Queued(row[d].s)'
    BY DEF AllQueued
  <2>2. PICK s : s = row'[d].s /\ Queued(s)
    BY DEF BInv, AllQueued
  <2>3. s \in 0 .. MaxSessions
    BY <1>0, <2>2 DEF DocumentTyped, QueueRow
  <2>4. CASE s # 0
    <3>1. s \in Sessions
      BY <2>3, <2>4, DigitalAssumption DEF Sessions
    <3>2. PICK b : b = sess[s].batch /\ b = sess'[s].batch
      BY <3>1 DEF BatchStep
    <3>3. sess'[s].st # "none"
      BY <2>2, <2>4, <3>1 DEF Queued, BatchStep
    <3> QED BY <2>2, <3>2, <3>3, Ripens DEF Queued
  <2> QED BY <2>2, <2>4 DEF Queued
<1>5. SessionsStay
  <2>1. SUFFICES ASSUME NEW s \in Sessions, Queued(s) PROVE Queued(s)'
    BY DEF SessionsStay, BatchStep
  <2>2. PICK b : b = sess[s].batch /\ b = sess'[s].batch
    BY DEF BatchStep
  <2>3. s # 0 => sess'[s].st # "none"
    BY <2>1 DEF Queued, BatchStep
  <2> QED BY <2>1, <2>2, <2>3, Ripens DEF Queued
<1> QED BY <1>1, <1>2, <1>3, <1>4, <1>5 DEF BInv

\* Nothing happens to the sessions.
LEMMA BatchStands ==
  ASSUME SessTyped, UNCHANGED sess
  PROVE  BatchStep
BY DEF BatchStep

\* A session is marked; only a closing marks it 'signed'.
LEMMA MarkBatch ==
  ASSUME SessTyped, NEW s \in 0 .. MaxSessions, NEW st \in Statuses \ {"none", "pending"},
         NEW from, sess' = Marked(s, from, st), st = "signed" => Queued(s)
  PROVE  BatchStep
<1>1. /\ \A t \in Sessions : Same(t)
      /\ \A t \in Sessions : sess'[t] # sess[t] =>
           t = s /\ sess[t].st \in from /\ sess'[t].st = st
  BY MarkMoves
<1>2. SUFFICES ASSUME NEW t \in Sessions
               PROVE  /\ sess'[t].st \in {"none", "pending"} => sess'[t].st = sess[t].st
                      /\ sess'[t].st = "signed" =>
                           sess[t].st = "signed" \/ (sess[t].batch # 0 => Ripe(sess[t].batch))
  BY <1>1 DEF BatchStep, Same
<1>3. CASE sess'[t] = sess[t]
  BY <1>3
<1>4. CASE sess'[t] # sess[t]
  <2>1. t = s /\ sess'[t].st = st /\ s # 0
    BY <1>1, <1>4, DigitalAssumption DEF Sessions
  <2> QED BY <2>1 DEF Queued
<1> QED BY <1>3, <1>4

\* Something else is written down of a session.
LEMMA OneBatch ==
  ASSUME SessTyped, NEW s \in Sessions, NEW c \in Session, sess' = [sess EXCEPT ![s] = c],
         c.d = sess[s].d, c.batch = sess[s].batch,
         c.st = sess[s].st \/ c.st \notin {"none", "pending", "signed"},
         \/ c.answer \in {sess[s].answer, "none"}
         \/ sess[s].batch # 0 => Published(sess[s].batch)
  PROVE  BatchStep
<1>1. sess'[s] = c /\ \A t \in Sessions : t # s => sess'[t] = sess[t]
  BY OneSessionMoves
<1> QED BY <1>1 DEF BatchStep

\* The list of a request.
LEMMA UndoBatch ==
  ASSUME IInv, NEW r \in Requests \union {Job}, Undo(r)
  PROVE  BatchStep
<1>1. SessTyped /\ req[r].s \in 0 .. MaxSessions
  BY Typed DEF AskTyped, AskMemory
<1>2. CASE Head(req[r].todo) \in Caidos
  <2>1. PICK st : st = Head(req[r].todo)
    OBVIOUS
  <2>2. st \in Statuses \ {"none", "pending"} /\ st # "signed"
    BY <1>2, <2>1 DEF Statuses, Caidos
  <2>3. sess' = Marked(req[r].s, {"pending"}, st)
    BY <1>2, <2>1 DEF Undo
  <2> QED BY <1>1, <2>2, <2>3, MarkBatch
<1>3. CASE Head(req[r].todo) \notin Caidos
  BY <1>1, <1>3, BatchStands DEF Undo
<1> QED BY <1>2, <1>3

\* No request makes a session wait again, puts an answer or signs.
LEMMA RequestBatch ==
  ASSUME IInv, NEW r \in Requests, RequestNext(r)
  PROVE  BatchStep
<1>0. /\ SessTyped /\ req[r] \in AskMemory /\ req[r].s \in 0 .. MaxSessions
      /\ req[r].left \subseteq Sessions
      /\ {"completing", "waiting_batch", "cancelled"} \subseteq Statuses \ {"none", "pending"}
  BY Typed DEF AskTyped, AskMemory, Statuses, Vivos, Caidos
<1>1. CASE Undo(r)
  BY <1>1, UndoBatch
<1>2. CASE PollCompleting(r)
  <2>1. sess' = Marked(req[r].s, {"pending"}, "completing")
    BY <1>2 DEF PollCompleting
  <2> QED BY <1>0, <2>1, MarkBatch
<1>3. CASE PollRegister(r)
  <2>1. sess' = Marked(req[r].s, {"pending"}, "waiting_batch")
    BY <1>3 DEF PollRegister
  <2> QED BY <1>0, <2>1, MarkBatch
<1>4. CASE CloseMark(r)
  <2>1. req[r].left # {}
    BY <1>4 DEF CloseMark, AtR, IInv, Asks, AsksOf
  <2>2. First(req[r].left) \in 0 .. MaxSessions
    BY <1>0, <2>1, FirstIsOne, DigitalAssumption DEF Sessions
  <2>3. sess' = Marked(First(req[r].left), {"waiting_batch"}, "completing")
    BY <1>4 DEF CloseMark
  <2> QED BY <1>0, <2>2, <2>3, MarkBatch
<1>5. CASE PollConsume(r)
  <2>1. req[r].s \in Sessions
    BY <1>5 DEF PollConsume, AtR, IInv, Asks, AsksOf
  <2>2. UNCHANGED sess \/ sess' = [sess EXCEPT ![req[r].s].used = TRUE]
    BY <1>5 DEF PollConsume
  <2>3. CASE sess' = [sess EXCEPT ![req[r].s].used = TRUE]
    <3>1. PICK c : c = [sess[req[r].s] EXCEPT !.used = TRUE]
      OBVIOUS
    <3>2. sess[req[r].s] \in Session
      BY <1>0, <2>1 DEF SessTyped
    <3>3. /\ c \in Session /\ c.st = sess[req[r].s].st /\ c.answer = sess[req[r].s].answer
          /\ c.d = sess[req[r].s].d /\ c.batch = sess[req[r].s].batch
      BY <3>1, <3>2 DEF Session
    <3>4. sess' = [sess EXCEPT ![req[r].s] = c]
      BY <1>0, <2>1, <2>3, <3>1 DEF SessTyped
    <3> QED BY <1>0, <2>1, <3>3, <3>4, OneBatch
  <2> QED BY <1>0, <2>2, <2>3, BatchStands
<1>6. CASE CancelClear(r)
  <2>1. req[r].s \in Sessions
    BY <1>6 DEF CancelClear, AtR, IInv, Asks, AsksOf
  <2>2. sess' = [sess EXCEPT ![req[r].s].answer = "none"]
    BY <1>6 DEF CancelClear
  <2>3. PICK c : c = [sess[req[r].s] EXCEPT !.answer = "none"]
    OBVIOUS
  <2>4. sess[req[r].s] \in Session
    BY <1>0, <2>1 DEF SessTyped
  <2>5. /\ c \in Session /\ c.st = sess[req[r].s].st /\ c.answer = "none"
        /\ c.d = sess[req[r].s].d /\ c.batch = sess[req[r].s].batch
    BY <2>3, <2>4 DEF Session
  <2>6. sess' = [sess EXCEPT ![req[r].s] = c]
    BY <1>0, <2>1, <2>2, <2>3 DEF SessTyped
  <2> QED BY <1>0, <2>1, <2>5, <2>6, OneBatch
<1>7. CASE Cancel(r)
  <2>1. PICK s \in Sessions :
          /\ sess[s].st = "pending"
          /\ sess' = [Marked(s, {"pending"}, "cancelled") EXCEPT ![s].clean = TRUE]
    BY <1>7 DEF Cancel
  <2>2. PICK c : c = [sess[s] EXCEPT !.st = "cancelled", !.clean = TRUE]
    OBVIOUS
  <2>3. sess[s] \in Session
    BY <1>0 DEF SessTyped
  <2>4. /\ c \in Session /\ c.st = "cancelled" /\ c.answer = sess[s].answer
        /\ c.d = sess[s].d /\ c.batch = sess[s].batch
    BY <2>2, <2>3 DEF Session, Statuses, Caidos
  <2>5. sess' = [sess EXCEPT ![s] = c]
    BY <1>0, <2>1, <2>2 DEF Marked, SessTyped, Session
  <2> QED BY <1>0, <2>4, <2>5, OneBatch
<1>8. CASE UNCHANGED sess
  BY <1>0, <1>8, BatchStands
<1>9. \/ Undo(r) \/ PollCompleting(r) \/ PollRegister(r) \/ CloseMark(r) \/ PollConsume(r)
      \/ CancelClear(r) \/ Cancel(r) \/ UNCHANGED sess
  BY DEF RequestNext, PollLook, SessionGoes, PollGoes, PollAsk, PollCert, PollConfirm,
         PollSave, PollEnqueue, RejectGoes, RejectTx, RejectExpire, RejectNumber, Reject,
         PollConfirmFails, PollSaveFails, RequestDies, BatchGoes, PollSiblings, CloseEnqueue,
         CloseFails, RejectKeeps
<1> QED BY <1>1, <1>2, <1>3, <1>4, <1>5, <1>6, <1>7, <1>8, <1>9

\* What is left to a request is queued when its batch is ripe.
LEMMA RequestQueues ==
  ASSUME IInv, BInv, NEW r \in Requests, RequestNext(r), NEW d \in Docs
  PROVE  row'[d].s = row[d].s \/ Queued(row'[d].s)
<1>0. /\ SessTyped /\ DocumentTyped /\ req[r] \in AskMemory /\ req[r].left \subseteq Sessions
      /\ Knows(req[r])
  BY Typed DEF AskTyped, AskMemory, BInv, AllKnow
<1>1. ASSUME NEW s \in Sessions, Encolar(s), Queued(s)
      PROVE  row'[d].s = row[d].s \/ Queued(row'[d].s)
  <2>1. row'[d] # row[d] => row'[d] = [st |-> "pending", s |-> s, tk |-> sess[s].tk]
    BY <1>0, <1>1, EncolarMoves
  <2>2. CASE row'[d] = [st |-> "pending", s |-> s, tk |-> sess[s].tk]
    <3>1. row'[d].s = s
      BY <2>2
    <3> QED BY <1>1, <3>1
  <2> QED BY <2>1, <2>2
<1>2. CASE PollEnqueue(r)
  <2>1. req[r].s \in Sessions /\ Queued(req[r].s)
    BY <1>0, <1>2 DEF PollEnqueue, AtR, IInv, Asks, AsksOf, Knows, Queued
  <2> QED BY <1>1, <1>2, <2>1 DEF PollEnqueue
<1>3. CASE CloseEnqueue(r)
  <2>1. req[r].left # {} /\ req[r].at = "closing"
    BY <1>3 DEF CloseEnqueue, AtR, IInv, Asks, AsksOf
  <2>2. PICK s : s = First(req[r].left)
    OBVIOUS
  <2>3. s \in req[r].left
    BY <1>0, <2>1, <2>2, FirstIsOne
  <2>4. sess[s].batch = sess[req[r].s].batch /\ Ripe(sess[req[r].s].batch)
    BY <1>0, <2>1, <2>3 DEF Knows
  <2>5. Queued(s)
    BY <1>0, <2>1, <2>3, <2>4 DEF Queued, Knows, BInv, Batched
  <2> QED BY <1>0, <1>1, <1>3, <2>2, <2>3, <2>5 DEF CloseEnqueue
<1>4. CASE RejectExpire(r)
  BY <1>0, <1>4 DEF RejectExpire, DocumentTyped, QueueRow
<1>5. CASE UNCHANGED row
  BY <1>5
<1>6. PollEnqueue(r) \/ CloseEnqueue(r) \/ RejectExpire(r) \/ UNCHANGED row
  BY DEF RequestNext, PollLook, SessionGoes, PollGoes, PollAsk, PollConsume, PollCert,
         PollConfirm, PollSave, PollCompleting, Undo, CancelClear, RejectGoes, RejectTx,
         RejectNumber, Reject, Cancel, PollConfirmFails, PollSaveFails, RequestDies,
         BatchGoes, PollRegister, PollSiblings, CloseMark, CloseFails
<1> QED BY <1>2, <1>3, <1>4, <1>5, <1>6

\* Who knows nothing of a batch.
LEMMA KnowsNothing ==
  ASSUME NEW m, m.at \in {"idle", "undo", "clear", "tx", "expire", "number"}
  PROVE  Knows(m)
BY DEF Knows

\* A request ends, or gives a PDF back.
LEMMA EndsOrUndoes ==
  ASSUME AskTyped, NEW r \in Requests \union {Job},
         Rest(r) \/ \E s, todo : GivesBack(r, s, todo)
  PROVE  /\ req'[r].at \in {"idle", "undo"}
         /\ \A p \in Requests \union {Job} : p # r => req'[p] = req[p]
<1>1. CASE Rest(r)
  BY <1>1 DEF Rest, Resting, AskTyped
<1>2. ASSUME NEW s, NEW todo, GivesBack(r, s, todo)
      PROVE  /\ req'[r].at \in {"idle", "undo"}
             /\ \A p \in Requests \union {Job} : p # r => req'[p] = req[p]
  <2>1. PICK m : m = [Resting EXCEPT !.at = "undo", !.s = s, !.todo = todo]
    OBVIOUS
  <2>2. m.at = "undo"
    BY <2>1 DEF Resting
  <2>3. req' = [req EXCEPT ![r] = m]
    BY <1>2, <2>1 DEF GivesBack
  <2> QED BY <2>2, <2>3 DEF AskTyped
<1> QED BY <1>1, <1>2

\* What a poll of a batch knows.
LEMMA PollKnows ==
  ASSUME IInv, BInv, NEW r \in Requests, PollGoes(r) \/ BatchGoes(r)
  PROVE  Knows(req'[r])
<1>0. /\ SessTyped /\ AskTyped /\ req[r] \in AskMemory /\ req[r].left \subseteq Sessions
      /\ Knows(req[r]) /\ AsksOf(r)
  BY Typed DEF AskTyped, AskMemory, BInv, AllKnow, IInv, Asks
<1>1. ASSUME Rest(r) PROVE Knows(req'[r])
  BY <1>0, <1>1, EndsOrUndoes, KnowsNothing
<1>2. ASSUME NEW s, NEW todo, GivesBack(r, s, todo) PROVE Knows(req'[r])
  BY <1>0, <1>2, EndsOrUndoes, KnowsNothing
<1>3. ASSUME NEW at, StepR(r, at)
      PROVE  req'[r].at = at /\ req'[r].s = req[r].s /\ req'[r].left = req[r].left
  BY <1>0, <1>3 DEF StepR, AskTyped, AskMemory
<1>4. CASE PollAsk(r)
  <2>1. PICK s : s = req[r].s /\ s \in Sessions
    BY <1>0, <1>4 DEF PollAsk, AtR, AsksOf
  <2>2. \/ Rest(r) \/ (\E todo : GivesBack(r, s, todo))
        \/ StepR(r, "consume") /\ sess[s].answer # "none"
    BY <1>4, <2>1 DEF PollAsk
  <2>3. CASE StepR(r, "consume") /\ sess[s].answer # "none"
    <3>1. sess[s].batch # 0 => Published(sess[s].batch)
      BY <2>1, <2>3 DEF BInv, Batched
    <3> QED BY <1>0, <1>3, <1>4, <2>1, <2>3, <3>1 DEF Knows, PollAsk, AtR
  <2> QED BY <1>1, <1>2, <2>2, <2>3
<1>5. CASE PollConsume(r)
  <2>1. Rest(r) \/ StepR(r, "cert")
    BY <1>5 DEF PollConsume
  <2>2. CASE StepR(r, "cert")
    BY <1>0, <1>3, <1>5, <2>2 DEF PollConsume, AtR, Knows
  <2> QED BY <1>1, <2>1, <2>2
<1>6. CASE PollCert(r)
  <2>1. (\E todo : GivesBack(r, req[r].s, todo)) \/ \E at \in {"confirm", "save"} : StepR(r, at)
    BY <1>6 DEF PollCert, AfterCert
  <2>2. ASSUME NEW at \in {"confirm", "save"}, StepR(r, at) PROVE Knows(req'[r])
    BY <1>0, <1>3, <1>6, <2>2 DEF PollCert, AtR, Knows
  <2> QED BY <1>2, <2>1, <2>2
<1>7. CASE PollConfirm(r)
  <2>1. GivesBack(r, req[r].s, <<"failed">>) \/ StepR(r, "save")
    BY <1>7 DEF PollConfirm
  <2>2. CASE StepR(r, "save")
    BY <1>0, <1>3, <1>7, <2>2 DEF PollConfirm, AtR, Knows
  <2> QED BY <1>2, <2>1, <2>2
<1>8. CASE PollSave(r)
  <2>1. StepR(r, IF sess[req[r].s].batch # 0 THEN "register" ELSE "enqueue")
    BY <1>8 DEF PollSave
  <2> QED BY <1>0, <1>3, <1>8, <2>1 DEF PollSave, AtR, Knows
<1>9. CASE PollEnqueue(r)
  BY <1>0, <1>3, <1>9 DEF PollEnqueue, AtR, Knows
<1>10. CASE PollCompleting(r)
  BY <1>1, <1>10 DEF PollCompleting
<1>11. CASE Undo(r)
  <2>1. req'[r].at \in {"idle", "undo"}
    BY <1>11, UndoAsks
  <2> QED BY <2>1, KnowsNothing
<1>12. CASE PollRegister(r)
  BY <1>0, <1>3, <1>12 DEF PollRegister, AtR, Knows
<1>13. CASE PollSiblings(r)
  <2>1. PICK b : b = sess[req[r].s].batch
    OBVIOUS
  <2>2. b # 0 /\ Published(b)
    BY <1>0, <1>13, <2>1 DEF PollSiblings, AtR, Knows
  <2>3. \/ Rest(r)
        \/ /\ ~Waits(b)
           /\ req' = [req EXCEPT ![r].at = "closing",
                            ![r].left = In(b, {"waiting_batch", "completing"})]
    BY <1>13, <2>1 DEF PollSiblings
  <2>4. CASE /\ ~Waits(b)
             /\ req' = [req EXCEPT ![r].at = "closing",
                              ![r].left = In(b, {"waiting_batch", "completing"})]
    <3>1. In(b, {"pending"}) = {}
      BY <2>4 DEF Waits
    <3>2. \A s \in Sessions : sess[s].batch = b => sess[s].st \notin {"none", "pending"}
      BY <2>2, <3>1 DEF In, OfBatch, BInv, Batched
    <3>3. Ripe(b)
      BY <2>2, <3>2 DEF Ripe
    <3>4. /\ req'[r].at = "closing" /\ req'[r].s = req[r].s
          /\ req'[r].left = In(b, {"waiting_batch", "completing"})
      BY <1>0, <2>4 DEF AskTyped, AskMemory
    <3>5. \A t \in req'[r].left : sess[t].batch = b
      BY <3>4 DEF In, OfBatch
    <3> QED BY <1>0, <1>13, <2>1, <2>2, <3>3, <3>4, <3>5 DEF Knows, PollSiblings, AtR
  <2> QED BY <1>1, <2>3, <2>4
<1>14. CASE CloseEnqueue(r)
  BY <1>0, <1>3, <1>14 DEF CloseEnqueue, AtR, Knows
<1>15. CASE CloseMark(r)
  <2>1. PICK s : s = First(req[r].left)
    OBVIOUS
  <2>2. req' = [req EXCEPT ![r] = IF req[r].left = {s} THEN Resting
                                  ELSE [req[r] EXCEPT !.at = "closing",
                                                      !.left = req[r].left \ {s}]]
    BY <1>15, <2>1 DEF CloseMark
  <2>3. CASE req[r].left = {s}
    BY <1>1, <2>2, <2>3 DEF Rest
  <2>4. CASE req[r].left # {s}
    <3>1. /\ req'[r].at = "closing" /\ req'[r].s = req[r].s
          /\ req'[r].left = req[r].left \ {s}
      BY <1>0, <2>2, <2>4 DEF AskTyped, AskMemory
    <3> QED BY <1>0, <1>15, <3>1 DEF CloseMark, AtR, Knows
  <2> QED BY <2>3, <2>4
<1> QED BY <1>4, <1>5, <1>6, <1>7, <1>8, <1>9, <1>10, <1>11, <1>12, <1>13, <1>14, <1>15
        DEF PollGoes, BatchGoes

\* What any request knows.
LEMMA RequestKnows ==
  ASSUME IInv, BInv, NEW r \in Requests, RequestNext(r), NEW q \in Requests \union {Job}
  PROVE  req'[q] = req[q] \/ Knows(req'[q])
<1>0. AskTyped
  BY Typed
<1>1. CASE PollGoes(r) \/ BatchGoes(r)
  <2>1. Knows(req'[r])
    BY <1>1, PollKnows
  <2>2. q # r => req'[q] = req[q]
    BY <1>0, <1>1 DEF PollGoes, PollAsk, PollConsume, PollCert, PollConfirm, PollSave,
       PollEnqueue, PollCompleting, Undo, BatchGoes, PollRegister, PollSiblings, CloseEnqueue,
       CloseMark, StepR, Rest, GivesBack, AskTyped
  <2> QED BY <2>1, <2>2
<1>2. CASE ~(PollGoes(r) \/ BatchGoes(r))
  <2>1. \/ PollLook(r) \/ Cancel(r) \/ CancelClear(r) \/ Reject(r) \/ RejectTx(r)
        \/ RejectExpire(r) \/ RejectNumber(r) \/ PollConfirmFails(r) \/ PollSaveFails(r)
        \/ RequestDies(r) \/ CloseFails(r)
    BY <1>2 DEF RequestNext, SessionGoes, RejectGoes
  <2>2. /\ Knows(req'[r]) \/ req'[r].at \in {"idle", "undo", "clear", "tx", "expire", "number"}
        /\ \A p \in Requests \union {Job} : p # r => req'[p] = req[p]
    <3>1. ASSUME Rest(r) \/ \E s, todo : GivesBack(r, s, todo)
          PROVE  /\ req'[r].at \in {"idle", "undo"}
                 /\ \A p \in Requests \union {Job} : p # r => req'[p] = req[p]
      BY <1>0, <3>1, EndsOrUndoes
    <3>2. CASE PollLook(r)
      <4>1. PICK s \in Sessions :
               /\ sess[s].st = "pending"
               /\ \/ GivesBack(r, s, <<"expired">> \o IfNumbered(s, "ticket"))
                  \/ req' = [req EXCEPT ![r].at = "ask", ![r].s = s]
        BY <3>2 DEF PollLook
      <4>2. CASE req' = [req EXCEPT ![r].at = "ask", ![r].s = s]
        <5>1. /\ req'[r].at = "ask" /\ req'[r].s = s
              /\ \A p \in Requests \union {Job} : p # r => req'[p] = req[p]
          BY <1>0, <4>2 DEF AskTyped, AskMemory
        <5> QED BY <4>1, <5>1 DEF Knows
      <4> QED BY <3>1, <4>1, <4>2
    <3>3. CASE Cancel(r) \/ Reject(r)
      BY <1>0, <3>3 DEF Cancel, Reject, AskTyped, AskMemory
    <3>4. CASE RejectTx(r) \/ RejectExpire(r)
      <4>1. Rest(r) \/ StepR(r, "expire") \/ StepR(r, "number")
        BY <3>4 DEF RejectTx, RejectExpire
      <4>2. CASE StepR(r, "expire") \/ StepR(r, "number")
        BY <1>0, <4>2 DEF StepR, AskTyped, AskMemory
      <4> QED BY <3>1, <4>1, <4>2
    <3>5. CASE \/ CancelClear(r) \/ RejectNumber(r) \/ PollConfirmFails(r)
               \/ PollSaveFails(r) \/ RequestDies(r) \/ CloseFails(r)
      <4>1. Rest(r) \/ \E s, todo : GivesBack(r, s, todo)
        BY <3>5 DEF CancelClear, RejectNumber, PollConfirmFails, PollSaveFails, RequestDies,
                    CloseFails
      <4> QED BY <3>1, <4>1
    <3> QED BY <2>1, <3>2, <3>3, <3>4, <3>5
  <2> QED BY <2>2, KnowsNothing
<1> QED BY <1>1, <1>2

\* Requests and batches.
LEMMA RequestGathers ==
  ASSUME IInv, BInv, NEW r \in Requests, RequestNext(r)
  PROVE  BInv' /\ SessionsStay
<1>1. IInv' /\ BatchStep /\ UNCHANGED open
  BY RequestStep, RequestBatch, RequestDocs
<1>2. \A d \in Docs : row'[d].s = row[d].s \/ Queued(row'[d].s)
  BY RequestQueues
<1>3. \A q \in Requests \union {Job} : req'[q] = req[q] \/ Knows(req'[q])
  BY RequestKnows
<1> QED BY <1>1, <1>2, <1>3, BatchesKept

\* The job reclaim_orphan_inprocess.
LEMMA JobGathers ==
  ASSUME IInv, BInv, OrphanLook \/ Undo(Job) \/ RequestDies(Job)
  PROVE  BInv' /\ SessionsStay
<1>0. SessTyped /\ AskTyped
  BY Typed
<1>1. IInv'
  BY JobStep
<1>2. BatchStep
  <2>1. Undo(Job) \/ UNCHANGED sess
    BY DEF OrphanLook, RequestDies
  <2> QED BY <1>0, <2>1, UndoBatch, BatchStands
<1>3. UNCHANGED <<open, row>>
  BY DEF OrphanLook, Undo, RequestDies, ReqKeeps
<1>4. \A q \in Requests \union {Job} : req'[q] = req[q] \/ Knows(req'[q])
  <2>1. CASE Undo(Job)
    <3>1. req'[Job].at \in {"idle", "undo"}
      BY <2>1, UndoAsks
    <3>2. \A q \in Requests \union {Job} : q # Job => req'[q] = req[q]
      BY <2>1, UndoAsks
    <3> QED BY <3>1, <3>2, KnowsNothing
  <2>2. CASE OrphanLook \/ RequestDies(Job)
    <3>1. Rest(Job) \/ \E s, todo : GivesBack(Job, s, todo)
      BY <2>2 DEF OrphanLook, RequestDies
    <3> QED BY <1>0, <3>1, EndsOrUndoes, KnowsNothing
  <2> QED BY <2>1, <2>2
<1> QED BY <1>1, <1>2, <1>3, <1>4, BatchesKept

\* FirmadorGDI signs what the manifest names.
LEMMA DeviceGathers ==
  ASSUME IInv, BInv, NEW s \in Sessions, Put(s) \/ BecomesLate(s)
  PROVE  BInv' /\ SessionsStay
<1>0. SessTyped /\ sess[s] \in Session
  BY Typed DEF SessTyped
<1>1. IInv'
  BY DeviceStep
<1>2. UNCHANGED <<open, row, req>>
  BY DEF Put, BecomesLate
<1>3. CASE Put(s)
  <2>1. PICK a \in Answers : sess' = [sess EXCEPT ![s].answer = a]
    BY <1>3 DEF Put
  <2>2. PICK c : c = [sess[s] EXCEPT !.answer = a]
    OBVIOUS
  <2>3. a \in AllAnswers
    BY DigitalAssumption DEF AllAnswers
  <2>4. /\ c \in Session /\ c.st = sess[s].st /\ c.d = sess[s].d
        /\ c.batch = sess[s].batch
    BY <1>0, <2>2, <2>3 DEF Session
  <2>5. sess' = [sess EXCEPT ![s] = c]
    BY <1>0, <2>1, <2>2 DEF SessTyped
  <2>6. sess[s].batch # 0 => Published(sess[s].batch)
    BY <1>3 DEF Put
  <2>7. BatchStep
    BY <1>0, <2>4, <2>5, <2>6, OneBatch
  <2> QED BY <1>1, <1>2, <2>7, BatchesKept
<1>4. CASE BecomesLate(s)
  <2>1. sess' = [sess EXCEPT ![s].late = TRUE]
    BY <1>4 DEF BecomesLate
  <2>2. PICK c : c = [sess[s] EXCEPT !.late = TRUE]
    OBVIOUS
  <2>3. /\ c \in Session /\ c.st = sess[s].st /\ c.d = sess[s].d
        /\ c.batch = sess[s].batch /\ c.answer = sess[s].answer
    BY <1>0, <2>2 DEF Session
  <2>4. sess' = [sess EXCEPT ![s] = c]
    BY <1>0, <2>1, <2>2 DEF SessTyped
  <2>5. BatchStep
    BY <1>0, <2>3, <2>4, OneBatch
  <2> QED BY <1>1, <1>2, <2>5, BatchesKept
<1> QED BY <1>3, <1>4

\* cancelar_tanda.
LEMMA FallGathers ==
  ASSUME IInv, BInv, NEW f \in Fallers, FallGoes(f) \/ FallDies(f)
  PROVE  BInv' /\ SessionsStay
<1>0. SessTyped /\ FallTyped
  BY Typed
<1>1. IInv' /\ UNCHANGED <<row, open, req>>
  BY FallStep DEF FallGoes, FallSelect, FallNext, FallPdf, FallNumber, FallRelease, FallDies,
                  FallKeeps
<1>2. CASE FallNext(f) /\ sess' # sess
  <2>1. PICK s : s = First(fall[f].left)
    OBVIOUS
  <2>2. fall[f].left # {} /\ fall[f].left \subseteq Sessions
    BY <1>0, <1>2 DEF FallNext, FallTyped, FallMemory
  <2>3. s \in Sessions
    BY <2>1, <2>2, FirstIsOne
  <2>4. PICK live \in BOOLEAN :
          sess' = [sess EXCEPT ![s].st = IF live THEN "failed" ELSE @, ![s].clean = TRUE]
    <3>1. (s \in fall[f].live) \in BOOLEAN
      OBVIOUS
    <3> QED BY <1>2, <2>1, <2>2, <3>1 DEF FallNext
  <2>5. sess[s] \in Session
    BY <1>0, <2>3 DEF SessTyped
  <2>6. PICK st : st = IF live THEN "failed" ELSE sess[s].st
    OBVIOUS
  <2>7. PICK c : c = [sess[s] EXCEPT !.st = st, !.clean = TRUE]
    OBVIOUS
  <2>8. /\ c \in Session /\ c.st = st /\ c.d = sess[s].d
        /\ c.batch = sess[s].batch /\ c.answer = sess[s].answer
    BY <2>5, <2>6, <2>7 DEF Session, Statuses, Caidos
  <2>9. sess' = [sess EXCEPT ![s] = c]
    BY <1>0, <2>3, <2>4, <2>5, <2>6, <2>7 DEF SessTyped, Session
  <2>10. BatchStep
    BY <1>0, <2>3, <2>6, <2>8, <2>9, OneBatch
  <2> QED BY <1>1, <2>10, BatchesKept
<1>3. CASE UNCHANGED sess
  BY <1>0, <1>1, <1>3, BatchStands, BatchesKept
<1>4. FallNext(f) \/ UNCHANGED sess
  BY DEF FallGoes, FallSelect, FallPdf, FallNumber, FallRelease, FallDies
<1> QED BY <1>2, <1>3, <1>4

\* A worker signs only what was queued.
LEMMA CloseGathers ==
  ASSUME IInv, BInv, NEW d \in Docs, CloseNext(d)
  PROVE  BInv' /\ SessionsStay
<1>0. SessTyped /\ row[d] \in QueueRow /\ row[d].s \in 0 .. MaxSessions
  BY Typed DEF DocumentTyped, QueueRow
<1>1. IInv' /\ UNCHANGED <<open, req>> /\ \A e \in Docs : row'[e].s = row[e].s
  BY CloseStep, CloseDocs
<1>2. CASE CloseMarkSigned(d)
  <2>1. sess' = Marked(row[d].s, {"pending", "completing"}, "signed")
    BY <1>2 DEF CloseMarkSigned, Own
  <2>2. Queued(row[d].s)
    BY DEF BInv, AllQueued
  <2>3. "signed" \in Statuses \ {"none", "pending"}
    BY DEF Statuses
  <2>4. BatchStep
    BY <1>0, <2>1, <2>2, <2>3, MarkBatch
  <2> QED BY <1>1, <2>4, BatchesKept
<1>3. CASE FailSession(d)
  <2>1. PICK s : s = row[d].s
    OBVIOUS
  <2>2. s \in Sessions
    BY <1>3, <2>1 DEF FailSession, AtC, IInv, Closing, ClosingOf
  <2>3. PICK c \in Session :
          /\ sess' = [sess EXCEPT ![s] = c] /\ c.d = sess[s].d /\ c.batch = sess[s].batch
          /\ c.answer = sess[s].answer
          /\ c.st = sess[s].st \/ (c.st = "failed" /\ sess[s].st \in {"pending", "completing"})
    BY <1>0, <1>3, <2>1, <2>2, FailMoves DEF FailSession, Own
  <2>4. BatchStep
    BY <1>0, <2>2, <2>3, OneBatch
  <2> QED BY <1>1, <2>4, BatchesKept
<1>4. CASE UNCHANGED sess
  BY <1>0, <1>1, <1>4, BatchStands, BatchesKept
<1>5. CloseMarkSigned(d) \/ FailSession(d) \/ UNCHANGED sess
  BY DEF CloseNext, CloseGoes, CloseFaults, Claim, CloseCheck, CloseRead, CloseUpload,
         CloseFinalize, CloseDraft, ClosePut, CloseSettle, CloseSigner, CloseTidy, CloseRow,
         FailRow, DropBatch, CloseUploadFails, CloseGivesUp, WorkerDies
<1> QED BY <1>2, <1>3, <1>4, <1>5

\* The sweeper fails sessions, and no more.
LEMMA SweepGathers ==
  ASSUME IInv, BInv, NEW d \in Docs, Sweep(d)
  PROVE  BInv' /\ SessionsStay
<1>0. SessTyped
  BY Typed
<1>1. IInv' /\ UNCHANGED <<row, open, req>>
  BY SweepStep, SweepDocs
<1>2. CASE SweepConfirming(d) /\ ~UNCHANGED sess
  <2>1. sess' = [s \in Sessions |->
                   IF Doc(s) = d /\ sess[s].tk = od[d].tk /\ sess[s].st = "pending"
                   THEN [sess[s] EXCEPT !.st = "failed"] ELSE sess[s]]
    BY <1>2 DEF SweepConfirming
  <2>2. ASSUME NEW t \in Sessions
        PROVE  /\ sess'[t].d = sess[t].d /\ sess'[t].batch = sess[t].batch
               /\ sess'[t].answer = sess[t].answer
               /\ sess'[t].st = sess[t].st \/ sess'[t].st = "failed"
    <3>1. sess[t] \in Session
      BY <1>0 DEF SessTyped
    <3>2. CASE sess'[t] = [sess[t] EXCEPT !.st = "failed"]
      BY <3>1, <3>2 DEF Session
    <3> QED BY <2>1, <3>2
  <2>3. BatchStep
    BY <2>2 DEF BatchStep
  <2> QED BY <1>1, <2>3, BatchesKept
<1>3. CASE UNCHANGED sess
  BY <1>0, <1>1, <1>3, BatchStands, BatchesKept
<1> QED BY <1>2, <1>3 DEF Sweep, SweepReserved, SweepConfirmed

\* What leaves sessions, openers, rows and requests alone.
LEMMA OthersGather ==
  ASSUME IInv, IInv', BInv, UNCHANGED <<sess, row, open, req>>
  PROVE  BInv' /\ SessionsStay
BY Typed, BatchStands, BatchesKept

-----------------------------------------------------------------------------
(* Opening *)

\* The session that an opener starts joins a batch that was not published.
LEMMA StartGathers ==
  ASSUME IInv, BInv, NEW o \in Openers, OpenStart(o)
  PROVE  BInv' /\ SessionsStay
<1>0. /\ SessTyped /\ OpenTyped /\ AskTyped /\ DocumentTyped /\ open[o] \in OpenMemory
      /\ IInv' /\ UNCHANGED <<row, req>> /\ AtO(o, "start") /\ ~AtO(o, "idle")
      /\ open[o].d \in Docs /\ open[o].batch \in 0 .. MaxSessions
  <2>1. SessTyped /\ OpenTyped /\ AskTyped /\ DocumentTyped /\ open[o] \in OpenMemory
    BY Typed DEF OpenTyped
  <2>2. IInv'
    BY OpenerStep DEF OpenNext, OpenGoes
  <2> QED BY <2>1, <2>2 DEF OpenStart, OpenKeeps, AtO, IInv, Opens, OpenMemory
<1>1. PICK s \in Sessions : s = NextSession /\ sess[s].st = "none"
  BY <1>0, RoomToStart DEF Begun
<1>2. PICK b : b = IF o \notin Batches THEN 0
                   ELSE IF open[o].batch = 0 THEN s ELSE open[o].batch
  OBVIOUS
<1>3. PICK c : /\ sess'[s] = c /\ c.st = "pending" /\ c.d = open[o].d /\ c.batch = b
               /\ c.answer = "none"
               /\ \A t \in Sessions : t # s => sess'[t] = sess[t]
  <2>1. PICK c : c = [NoSession EXCEPT !.st = "pending", !.d = open[o].d, !.tk = open[o].tk,
                                       !.batch = b, !.pdf = open[o].pdf]
    OBVIOUS
  <2>2. c.st = "pending" /\ c.d = open[o].d /\ c.batch = b /\ c.answer = "none"
    BY <2>1 DEF NoSession
  <2>3. sess' = [sess EXCEPT ![s] = c]
    BY <1>1, <1>2, <2>1 DEF OpenStart
  <2> QED BY <1>0, <2>2, <2>3 DEF SessTyped
<1>4. /\ \A t \in Sessions : sess[t].batch # s
      /\ \A p \in Openers : open[p].batch # s
      /\ sess[s].batch = 0 /\ s # 0
  BY <1>1, DigitalAssumption DEF BInv, Batched, Gathers, GathersOf, Sessions
<1>5. \A t \in Sessions : sess[t].batch = b /\ b # 0 =>
        Doc(t) # open[o].d /\ Doc(t) \notin open[o].left
  BY <1>0, <1>2, <1>4 DEF BInv, Gathers, GathersOf
<1>6. ASSUME NEW x, x # 0, Published(x)
      PROVE  Published(x)' /\ x # b
  <2>1. \A e \in Docs : \E t \in Sessions : t # s /\ sess[t].batch = x /\ sess[t].d = e
    BY <1>4, <1>6 DEF Published, OfBatch, Doc
  <2>2. x # b
    BY <1>0, <1>5, <1>6, <2>1 DEF Doc
  <2>3. \A e \in Docs : \E t \in Sessions : sess'[t].batch = x /\ sess'[t].d = e
    BY <1>3, <2>1
  <2> QED BY <2>2, <2>3 DEF Published, OfBatch, Doc
<1>7. ASSUME NEW x, x # 0, Ripe(x) PROVE Ripe(x)'
  <2>1. Published(x)' /\ x # b
    BY <1>6, <1>7 DEF Ripe
  <2>2. \A t \in Sessions : sess'[t].batch = x => sess'[t].st \notin {"none", "pending"}
    BY <1>3, <1>7, <2>1 DEF Ripe
  <2> QED BY <2>1, <2>2 DEF Ripe
<1>8. \A t \in Sessions : sess[t].st # "none" => t # s /\ sess'[t] = sess[t]
  BY <1>1, <1>3
<1>9. Batched'
  <2>1. SUFFICES ASSUME NEW t \in Sessions, NEW x, x = sess'[t].batch
                 PROVE  /\ sess'[t].st = "none" => x = 0
                        /\ x # 0 => /\ sess'[x].st # "none"
                                    /\ sess'[t].d \in Docs
                                    /\ sess'[t].answer # "none" => Published(x)'
                                    /\ sess'[t].st = "signed" => Ripe(x)'
    BY DEF Batched, Doc
  <2>2. CASE t = s
    <3>1. x = b /\ sess'[t].st = "pending" /\ sess'[t].answer = "none"
      BY <1>3, <2>1, <2>2
    <3>2. ASSUME x # 0 PROVE sess'[x].st # "none"
      <4>1. CASE x = s
        BY <3>1, <4>1, <2>2
      <4>2. CASE x = open[o].batch
        <5>1. sess[x].st # "none" /\ x \in Sessions
          BY <1>0, <3>2, <4>2, DigitalAssumption DEF BInv, Gathers, GathersOf, Sessions
        <5> QED BY <1>8, <5>1
      <4> QED BY <1>2, <3>1, <3>2, <4>1, <4>2
    <3>3. sess'[t].d \in Docs
      BY <1>0, <1>3, <2>2
    <3> QED BY <3>1, <3>2, <3>3
  <2>3. CASE t # s
    <3>1. sess'[t] = sess[t] /\ x = sess[t].batch /\ x \in 0 .. MaxSessions
      BY <1>0, <1>3, <2>1, <2>3 DEF SessTyped, Session
    <3>2. ASSUME x # 0 PROVE sess'[x].st # "none"
      <4>1. x \in Sessions /\ sess[x].st # "none"
        BY <3>1, <3>2, DigitalAssumption DEF BInv, Batched, Sessions
      <4> QED BY <1>8, <4>1
    <3> QED BY <1>6, <1>7, <3>1, <3>2 DEF BInv, Batched, Doc
  <2> QED BY <2>2, <2>3
<1>10. Gathers'
  <2>1. /\ \A p \in Openers : p # o => open'[p] = open[p]
        /\ open'[o].at = "idle"
        /\ \/ open'[o].batch = 0
           \/ open[o].left # {} /\ open'[o].batch = b /\ open'[o].left = open[o].left
    <3>1. PICK m : m = IF open[o].left = {} THEN Closed
                       ELSE [Closed EXCEPT !.left = open[o].left, !.batch = b]
      OBVIOUS
    <3>2. open' = [open EXCEPT ![o] = m]
      BY <1>1, <1>2, <3>1 DEF OpenStart
    <3>3. /\ m.at = "idle"
          /\ m.batch = 0 \/ (open[o].left # {} /\ m.batch = b /\ m.left = open[o].left)
      BY <3>1 DEF Closed
    <3> QED BY <1>0, <3>2, <3>3 DEF OpenTyped
  <2>2. SUFFICES ASSUME NEW p \in Openers PROVE GathersOf(p)'
    BY DEF Gathers
  <2>3. CASE p = o
    <3>1. ASSUME b # 0 PROVE sess'[b].st # "none"
      <4>1. CASE b = s
        BY <1>3, <4>1
      <4>2. CASE b = open[o].batch
        <5>1. sess[b].st # "none" /\ b \in Sessions
          BY <1>0, <3>1, <4>2, DigitalAssumption DEF BInv, Gathers, GathersOf, Sessions
        <5> QED BY <1>8, <5>1
      <4> QED BY <1>2, <3>1, <4>1, <4>2
    <3>2. ASSUME b # 0, NEW t \in Sessions, sess'[t].batch = b
          PROVE  sess'[t].d \notin open[o].left
      <4>1. open[o].d \notin open[o].left
        BY <1>0 DEF BInv, Gathers, GathersOf
      <4> QED BY <1>3, <1>5, <3>2, <4>1 DEF Doc
    <3>3. ASSUME b # 0, NEW q \in Openers, q # o PROVE open[q].batch # b
      BY <1>2, <1>4, <3>3 DEF BInv, Gathers, GathersOf
    <3> QED BY <2>1, <2>3, <3>1, <3>2, <3>3 DEF GathersOf, AtO, Doc
  <2>4. CASE p # o
    <3>1. open'[p] = open[p] /\ GathersOf(p)
      BY <2>1, <2>4 DEF BInv, Gathers
    <3>2. ASSUME open[p].batch # 0
          PROVE  /\ open[p].batch # b /\ sess'[open[p].batch].st # "none"
                 /\ \A q \in Openers : q # p => open'[q].batch # open[p].batch
      <4>1. open[p].batch \in Sessions
        BY <1>0, <3>2, DigitalAssumption DEF OpenTyped, OpenMemory, Sessions
      <4>2. open[p].batch # b
        BY <1>2, <1>4, <2>4, <3>1, <3>2 DEF GathersOf
      <4>3. sess'[open[p].batch].st # "none"
        BY <1>8, <3>1, <3>2, <4>1 DEF GathersOf
      <4>4. \A q \in Openers : q # p => open'[q].batch # open[p].batch
        BY <2>1, <3>1, <3>2, <4>2 DEF GathersOf
      <4> QED BY <4>2, <4>3, <4>4
    <3>3. ASSUME open[p].batch # 0, NEW t \in Sessions, sess'[t].batch = open[p].batch
          PROVE  sess[t].batch = open[p].batch /\ sess'[t].d = sess[t].d
      BY <1>3, <3>2, <3>3
    <3> QED BY <3>1, <3>2, <3>3 DEF GathersOf, AtO, Doc
  <2> QED BY <2>3, <2>4
<1>11. AllKnow'
  <2>1. SUFFICES ASSUME NEW r \in Requests \union {Job} PROVE Knows(req[r])'
    BY DEF AllKnow
  <2>2. PICK m : m = req[r] /\ m = req'[r] /\ Knows(m) /\ m \in AskMemory
    BY <1>0 DEF BInv, AllKnow, AskTyped
  <2>3. CASE m.at \in {"ask", "consume", "cert", "confirm", "save", "enqueue", "completing",
                       "register", "siblings", "closing", "marking"}
    <3>1. m.s \in Sessions /\ sess[m.s].st # "none"
      BY <2>2, <2>3 DEF IInv, Asks, AsksOf, Knows
    <3>2. sess'[m.s] = sess[m.s]
      BY <1>8, <3>1
    <3>3. PICK x : x = sess[m.s].batch
      OBVIOUS
    <3>4. ASSUME m.at \in {"closing", "marking"}, NEW t \in m.left
          PROVE  sess'[t].batch = x
      <4>1. t \in Sessions /\ sess[t].batch = x /\ x # 0
        BY <2>2, <3>3, <3>4 DEF Knows, AskMemory
      <4> QED BY <1>3, <1>4, <4>1
    <3> QED BY <1>6, <1>7, <2>2, <2>3, <3>1, <3>2, <3>3, <3>4 DEF Knows
  <2>4. CASE m.at \notin {"ask", "consume", "cert", "confirm", "save", "enqueue",
                          "completing", "register", "siblings", "closing", "marking"}
    BY <2>2, <2>4 DEF Knows
  <2> QED BY <2>3, <2>4
<1>12. AllQueued'
  <2>1. SUFFICES ASSUME NEW d \in Docs PROVE Queued(row[d].s)'
    BY DEF AllQueued
  <2>2. PICK t : t = row[d].s /\ t = row'[d].s /\ Queued(t) /\ t \in 0 .. MaxSessions
    BY <1>0 DEF BInv, AllQueued, DocumentTyped, QueueRow
  <2>3. CASE t # 0
    <3>1. t \in Sessions /\ sess[t].st # "none"
      BY <2>2, <2>3, DigitalAssumption DEF Queued, Sessions
    <3>2. sess'[t] = sess[t]
      BY <1>8, <3>1
    <3>3. PICK x : x = sess[t].batch
      OBVIOUS
    <3> QED BY <1>7, <2>2, <2>3, <3>1, <3>2, <3>3 DEF Queued
  <2> QED BY <2>2, <2>3 DEF Queued
<1>13. SessionsStay
  <2>1. SUFFICES ASSUME NEW t \in Sessions, Queued(t) PROVE Queued(t)'
    BY <1>8 DEF SessionsStay
  <2>2. CASE t # 0
    <3>1. sess[t].st # "none"
      BY <2>1, <2>2 DEF Queued
    <3>2. sess'[t] = sess[t]
      BY <1>8, <3>1
    <3>3. PICK x : x = sess[t].batch
      OBVIOUS
    <3> QED BY <1>7, <2>1, <2>2, <3>1, <3>2, <3>3 DEF Queued
  <2> QED BY <2>2 DEF Queued
<1> QED BY <1>9, <1>10, <1>11, <1>12, <1>13 DEF BInv

\* Openers and batches.
LEMMA OpenerGathers ==
  ASSUME IInv, BInv, NEW o \in Openers, OpenNext(o)
  PROVE  BInv' /\ SessionsStay
<1>0. SessTyped /\ OpenTyped /\ open[o] \in OpenMemory /\ IInv'
  BY Typed, OpenerStep DEF OpenTyped
<1>1. CASE OpenStart(o)
  BY <1>1, StartGathers
<1>2. CASE ~OpenStart(o)
  <2>1. UNCHANGED <<sess, row, req>>
    BY <1>2 DEF OpenNext, OpenLook, OpenGoes, OpenLock, OpenLost, OpenWon, OpenReserve,
       OpenAgain, OpenRead, OpenUndo, OpenReserveFails, OpenStartFails, OpenDies, OpenKeeps
  <2>2. /\ \A p \in Openers : p # o => open'[p] = open[p]
        /\ \/ open'[o].at = "idle" /\ open'[o].batch = 0
           \/ /\ open'[o].at # "idle" /\ open'[o].batch = open[o].batch
              /\ open'[o].d \notin open'[o].left
              /\ \/ /\ ~AtO(o, "idle") /\ open'[o].d = open[o].d
                    /\ open'[o].left = open[o].left
                 \/ /\ AtO(o, "idle")
                    /\ open[o].left # {} => /\ open'[o].d \in open[o].left
                                           /\ open'[o].left \subseteq open[o].left
    <3>1. CASE OpenLook(o)
      <4>1. PICK d \in (IF open[o].left # {} THEN open[o].left ELSE Docs) :
              open' = [open EXCEPT ![o].at = "lock", ![o].d = d,
                         ![o].left = (IF open[o].left # {} THEN open[o].left
                                      ELSE IF o \in Batches THEN Docs ELSE {d}) \ {d}]
        BY <3>1 DEF OpenLook
      <4>2. /\ open'[o].at = "lock" /\ open'[o].d = d /\ open'[o].batch = open[o].batch
            /\ open'[o].left = (IF open[o].left # {} THEN open[o].left
                                ELSE IF o \in Batches THEN Docs ELSE {d}) \ {d}
            /\ \A p \in Openers : p # o => open'[p] = open[p]
        BY <1>0, <4>1 DEF OpenTyped, OpenMemory
      <4>3. AtO(o, "idle")
        BY <3>1 DEF OpenLook
      <4> QED BY <4>1, <4>2, <4>3
    <3>2. CASE OpenLost(o) \/ OpenUndo(o) \/ OpenDies(o)
      <4>1. open' = [open EXCEPT ![o] = Closed]
        BY <3>2 DEF OpenLost, OpenUndo, OpenDies, Reverts
      <4> QED BY <1>0, <4>1 DEF OpenTyped, Closed
    <3>3. CASE \/ OpenLock(o) \/ OpenWon(o) \/ OpenReserve(o) \/ OpenReserveFails(o)
               \/ OpenAgain(o) \/ OpenRead(o) \/ OpenStartFails(o)
      <4>1. /\ open'[o].at # "idle" /\ open'[o].left = open[o].left
            /\ open'[o].d = open[o].d /\ open'[o].batch = open[o].batch
            /\ \A p \in Openers : p # o => open'[p] = open[p]
        BY <1>0, <3>3 DEF OpenLock, OpenWon, OpenReserve, OpenReserveFails, OpenAgain,
           OpenRead, OpenStartFails, OpenTyped, OpenMemory, StepO
      <4>2. ~AtO(o, "idle")
        BY <3>3 DEF OpenLock, OpenWon, OpenReserve, OpenReserveFails, OpenAgain, OpenRead,
                    OpenStartFails, AtO
      <4> QED BY <4>1, <4>2 DEF BInv, Gathers, GathersOf
    <3> QED BY <1>2, <3>1, <3>2, <3>3 DEF OpenNext, OpenGoes
  <2>3. Gathers'
    <3>1. SUFFICES ASSUME NEW p \in Openers PROVE GathersOf(p)'
      BY DEF Gathers
    <3>2. \A q \in Openers : open'[q].batch = 0 \/ open'[q].batch = open[q].batch
      BY <2>2
    <3>3. GathersOf(p) /\ UNCHANGED sess
      BY <2>1 DEF BInv, Gathers
    <3>4. CASE p # o
      BY <2>2, <3>2, <3>3, <3>4 DEF GathersOf, AtO, Doc
    <3>5. CASE p = o
      BY <2>2, <3>2, <3>3, <3>5 DEF GathersOf, AtO, Doc
    <3> QED BY <3>4, <3>5
  <2> QED BY <1>0, <2>1, <2>3, BatchStands, BatchesKept
<1> QED BY <1>1, <1>2

\* Every step leaves the batches in order.
LEMMA AllGather ==
  ASSUME IInv, BInv, [Next]_vars
  PROVE  BInv' /\ SessionsStay
<1>0. IInv'
  BY AllSteps
<1>1. CASE \E o \in Openers : OpenNext(o)
  BY <1>1, OpenerGathers
<1>2. CASE \E s \in Sessions : Put(s) \/ BecomesLate(s)
  BY <1>2, DeviceGathers
<1>3. CASE \E r \in Requests : RequestNext(r)
  BY <1>3, RequestGathers
<1>4. CASE OrphanLook \/ Undo(Job) \/ RequestDies(Job)
  BY <1>4, JobGathers
<1>5. CASE \E f \in Fallers : FallGoes(f) \/ FallDies(f)
  BY <1>5, FallGathers
<1>6. CASE CancelBatch \/ SweepBatches
  <2>1. UNCHANGED <<sess, row, open, req>>
    BY <1>6 DEF CancelBatch, SweepBatches, LateBatch, DirtyBatch, CallKeeps
  <2> QED BY <1>0, <2>1, OthersGather
<1>7. CASE \E d \in Docs : CloseNext(d)
  BY <1>7, CloseGathers
<1>8. CASE \E d \in Docs : Sweep(d)
  BY <1>8, SweepGathers
<1>9. CASE Locks \/ UNCHANGED vars
  <2>1. UNCHANGED <<sess, row, open, req>>
    BY <1>9 DEF Locks, Elsewhere, vars
  <2> QED BY <1>0, <2>1, OthersGather
<1> QED BY <1>1, <1>2, <1>3, <1>4, <1>5, <1>6, <1>7, <1>8, <1>9
        DEF Next, SessionNext, BatchNext, ClosingNext, RequestNext, CloseNext

\* There are no batches at the beginning.
LEMMA NoBatches == Init => BInv
<1> SUFFICES ASSUME Init PROVE BInv
  OBVIOUS
<1>1. Batched
  BY DEF Init, Batched, NoSession
<1>2. Gathers
  BY DEF Init, Gathers, GathersOf, AtO, Closed
<1>3. AllKnow
  BY KnowsNothing DEF Init, AllKnow, Resting
<1>4. AllQueued
  BY DEF Init, AllQueued, Queued, NoRow
<1> QED BY <1>1, <1>2, <1>3, <1>4 DEF BInv

\* No document of a batch is signed while another waits for the token: a poll
\* closes a batch only when it finds nothing of it pending, after the manifest
\* was published with all of it, and no step makes a session wait again.
THEOREM Together == Spec => []NoneBeforeAll
<1>1. Init => IInv /\ BInv
  BY Initially, NoBatches
<1>2. IInv /\ BInv /\ [Next]_vars => (IInv /\ BInv)'
  BY AllSteps, AllGather
<1>3. IInv /\ BInv => NoneBeforeAll
  <2>1. SUFFICES ASSUME BInv, NEW s \in Sessions, NEW t \in Sessions, Siblings(s, t),
                        sess[s].st = "signed"
                 PROVE  sess[t].st # "pending"
    BY DEF NoneBeforeAll
  <2>2. Ripe(sess[s].batch)
    BY <2>1 DEF BInv, Batched, Siblings
  <2> QED BY <2>1, <2>2 DEF Ripe, Siblings
<1> QED BY <1>1, <1>2, <1>3, PTL DEF Spec

\* The PDF in the official bucket is that of a session that could be queued.
IssuedQueued == \A d \in Docs : Queued(official[d])

\* Only an upload changes the official bucket.
LEMMA Uploads ==
  ASSUME IInv, [Next]_vars, NEW d \in Docs
  PROVE  \/ official'[d] = official[d]
         \/ AtC(d, "upload") /\ official'[d] = close[d].pdf
<1>1. CASE \E e \in Docs : CloseNext(e)
  <2>1. PICK e \in Docs : CloseNext(e)
    BY <1>1
  <2>2. CASE e = d
    BY <2>1, <2>2, CloseDocs DEF CloseUpload
  <2>3. CASE e # d
    BY <2>1, <2>3, CloseDocs
  <2> QED BY <2>2, <2>3
<1>2. CASE \E e \in Docs : Sweep(e)
  BY <1>2 DEF Sweep, SweepReserved, SweepConfirming, SweepConfirmed, SweepKeeps, results
<1>3. CASE \E o \in Openers : OpenNext(o)
  BY <1>3 DEF OpenNext, OpenLook, OpenGoes, OpenLock, OpenLost, OpenWon, OpenReserve,
              OpenAgain, OpenRead, OpenStart, OpenUndo, OpenReserveFails, OpenStartFails,
              OpenDies, OpenKeeps, results
<1>4. CASE \E s \in Sessions : Put(s) \/ BecomesLate(s)
  BY <1>4 DEF Put, BecomesLate, results
<1>5. CASE \E r \in Requests : RequestNext(r)
  BY <1>5, RequestDocs
<1>6. CASE OrphanLook \/ Undo(Job) \/ RequestDies(Job)
  BY <1>6 DEF OrphanLook, Undo, RequestDies, ReqKeeps, results
<1>7. CASE \E f \in Fallers : FallGoes(f) \/ FallDies(f)
  BY <1>7 DEF FallGoes, FallSelect, FallNext, FallPdf, FallNumber, FallRelease, FallDies,
              FallKeeps, results
<1>8. CASE CancelBatch \/ SweepBatches \/ Locks \/ UNCHANGED vars
  BY <1>8 DEF CancelBatch, SweepBatches, LateBatch, DirtyBatch, CallKeeps, Locks, Elsewhere,
              vars, results
<1> QED BY <1>1, <1>2, <1>3, <1>4, <1>5, <1>6, <1>7, <1>8
        DEF Next, SessionNext, BatchNext, ClosingNext, RequestNext, CloseNext

\* With a PDF of its own, the worker issues what could be queued.
LEMMA IssuesQueued ==
  ASSUME IInv, BInv, OwnPdf, IssuedQueued, [Next]_vars
  PROVE  IssuedQueued'
<1>1. SessionsStay /\ DocumentTyped /\ DocumentTyped'
  BY AllGather, AllSteps, Typed, TypeParts DEF IInv, Parts
<1>2. SUFFICES ASSUME NEW d \in Docs PROVE Queued(official[d])'
  BY DEF IssuedQueued
<1>3. PICK s : s = official'[d] /\ s \in 0 .. MaxSessions
  BY <1>1 DEF DocumentTyped
<1>4. Queued(s)
  <2>1. CASE official'[d] = official[d]
    BY <1>3, <2>1 DEF IssuedQueued
  <2>2. CASE AtC(d, "upload") /\ s = close[d].pdf
    <3>1. d \in Numbered /\ close[d].pdf = row[d].s
      BY <2>2 DEF AtC, IInv, Closing, ClosingOf, OwnPdf, Own
    <3> QED BY <2>2, <3>1 DEF BInv, AllQueued
  <2> QED BY <1>3, <2>1, <2>2, Uploads
<1>5. CASE s = 0
  BY <1>3, <1>5 DEF Queued
<1>6. CASE s # 0
  <2>1. s \in Sessions
    BY <1>3, <1>6, DigitalAssumption DEF Sessions
  <2>2. Queued(s)'
    BY <1>1, <1>4, <2>1 DEF SessionsStay
  <2> QED BY <1>3, <2>2 DEF Queued
<1> QED BY <1>5, <1>6

\* Where the worker reads the PDF of the session it closes, no document of a
\* batch is in the official bucket while another waits for the token: the job
\* was queued when the batch was ripe.
THEOREM IssuedTogether == Spec /\ []OwnPdf => []NoneIssuedBeforeAll
<1>1. Init => IInv /\ BInv /\ IssuedQueued
  BY Initially, NoBatches DEF Init, IssuedQueued, Queued
<1>2. IInv /\ BInv /\ IssuedQueued /\ OwnPdf /\ [Next]_vars => (IInv /\ BInv /\ IssuedQueued)'
  BY AllSteps, AllGather, IssuesQueued
<1>3. IInv /\ BInv /\ IssuedQueued => NoneIssuedBeforeAll
  <2>1. SUFFICES ASSUME BInv, IssuedQueued, NEW s \in Sessions, NEW t \in Sessions,
                        Siblings(s, t), official[Doc(s)] = s
                 PROVE  sess[t].st # "pending"
    BY DEF NoneIssuedBeforeAll
  <2>2. Doc(s) \in Docs /\ s # 0
    BY <2>1, DigitalAssumption DEF BInv, Batched, Siblings, Sessions
  <2>3. Ripe(sess[s].batch)
    BY <2>1, <2>2 DEF IssuedQueued, Queued, Siblings
  <2> QED BY <2>1, <2>3 DEF Ripe, Siblings
<1> QED BY <1>1, <1>2, <1>3, PTL DEF Spec

-----------------------------------------------------------------------------
(* Documents with one session each *)

\* No document is opened again, as in the run digital_batch.
OneSessionEach == \A s, t \in Sessions :
  sess[s].st # "none" /\ sess[t].st # "none" /\ Doc(s) = Doc(t) => s = t

\* What was saved, what the worker read and what was queued for a document come
\* of a session of that document.
Of(s, d) == s # 0 => sess[s].st # "none" /\ sess[s].d = d
BelongsOf(d) == /\ Of(saved[d], d) /\ Of(close[d].pdf, d) /\ Of(row[d].s, d)
                /\ close[d].pdf # 0 => close[d].at # "idle"
Belongs == \A d \in Docs : BelongsOf(d)

\* What a worker remembers of a PDF.
LEMMA WorkerReads ==
  ASSUME IInv, NEW e \in Docs, CloseNext(e), NEW d \in Docs
  PROVE  \/ close'[d] = close[d] \/ close'[d] = Asleep
         \/ close'[d].at # "idle" /\ close'[d].pdf \in {close[d].pdf, saved[d]}
<1> USE Typed
<1>1. CASE d # e
  BY <1>1, CloseMemories
<1>2. CASE d = e /\ CloseRead(d)
  <2>1. CASE Fails(d, "lost")
    BY <2>1, CloseGoesWrong
  <2>2. CASE ~Fails(d, "lost")
    <3>1. PICK at \in {"upload", "put"} :
            close' = [close EXCEPT ![d].pdf = saved[d], ![d].at = at]
      BY <1>2, <2>2 DEF CloseRead
    <3>2. close'[d].at = at /\ close'[d].pdf = saved[d]
      BY <3>1 DEF CloseTyped, CloseMemory
    <3> QED BY <3>1, <3>2
  <2> QED BY <2>1, <2>2
<1>3. CASE d = e /\ (\E why \in {"stale", "upload"} : Fails(d, why))
  BY <1>3, CloseGoesWrong
<1>4. CASE d = e /\ \E at \in {"check", "read", "finalize", "draft", "settle", "signer", "mark",
                               "tidy", "row", "failed", "drop"} : StepC(d, at)
  BY <1>4, CloseGoesOn
<1>5. CASE d = e /\ close' = [close EXCEPT ![d] = Asleep]
  BY <1>5, CloseEnds
<1>6. CASE d = e /\ FailSession(d)
  <2>1. close' = [close EXCEPT ![d] = Asleep] \/ StepC(d, "drop")
    BY <1>6 DEF FailSession, StepC, CloseTyped, CloseMemory
  <2> QED BY <1>6, <2>1, <1>4, <1>5
<1> QED BY <1>1, <1>2, <1>3, <1>4, <1>5, <1>6
        DEF CloseNext, CloseGoes, CloseFaults, Claim, CloseCheck, CloseUpload, CloseFinalize,
            CloseDraft, ClosePut, CloseSettle, CloseSigner, CloseMarkSigned, CloseTidy,
            CloseRow, FailRow, DropBatch, CloseUploadFails, CloseGivesUp, WorkerDies

\* What is saved and what is queued is of the document it is saved and queued for.
LEMMA RequestBelongs ==
  ASSUME IInv, BInv, NEW r \in Requests, RequestNext(r), NEW d \in Docs
  PROVE  /\ saved'[d] = saved[d] \/ Of(saved'[d], d)
         /\ row'[d].s = row[d].s \/ Of(row'[d].s, d)
<1>0. SessTyped /\ DocumentTyped /\ Knows(req[r]) /\ req[r] \in AskMemory
  BY Typed DEF AskTyped, BInv, AllKnow
<1>1. saved'[d] = saved[d] \/ Of(saved'[d], d)
  <2>1. CASE PollSave(r)
    <3>1. saved' = [saved EXCEPT ![Doc(req[r].s)] = req[r].s] /\ sess[req[r].s].st # "none"
      BY <1>0, <2>1 DEF PollSave, AtR, Knows
    <3>2. CASE Doc(req[r].s) = d
      BY <1>0, <3>1, <3>2 DEF DocumentTyped, Of, Doc
    <3>3. CASE Doc(req[r].s) # d
      BY <1>0, <3>1, <3>3 DEF DocumentTyped
    <3> QED BY <3>2, <3>3
  <2>2. PollSave(r) \/ UNCHANGED saved
    BY DEF RequestNext, PollLook, SessionGoes, PollGoes, PollAsk, PollConsume, PollCert,
           PollConfirm, PollEnqueue, PollCompleting, Undo, CancelClear, RejectGoes,
           RejectTx, RejectExpire, RejectNumber, Cancel, Reject, PollConfirmFails,
           PollSaveFails, RequestDies, BatchGoes, PollRegister, PollSiblings, CloseEnqueue,
           CloseMark, CloseFails, ReqKeeps, RejectKeeps, results
  <2> QED BY <2>1, <2>2
<1>2. row'[d].s = row[d].s \/ Of(row'[d].s, d)
  <2>1. ASSUME NEW s \in Sessions, Encolar(s), row'[d].s # row[d].s
        PROVE  row'[d].s = s /\ sess[s].d = d
    <3>1. row'[d] = [st |-> "pending", s |-> s, tk |-> sess[s].tk] /\ d = Doc(s)
      BY <1>0, <2>1, EncolarMoves
    <3> QED BY <3>1 DEF Doc
  <2>2. CASE PollEnqueue(r)
    <3>1. req[r].s \in Sessions /\ Encolar(req[r].s) /\ sess[req[r].s].st # "none"
      BY <1>0, <2>2 DEF PollEnqueue, AtR, IInv, Asks, AsksOf, Knows
    <3> QED BY <2>1, <3>1 DEF Of
  <2>3. CASE CloseEnqueue(r)
    <3>1. req[r].left # {} /\ req[r].left \subseteq Sessions /\ req[r].at = "closing"
      BY <1>0, <2>3 DEF CloseEnqueue, AtR, IInv, Asks, AsksOf, AskMemory
    <3>2. First(req[r].left) \in req[r].left /\ Encolar(First(req[r].left))
      BY <2>3, <3>1, FirstIsOne DEF CloseEnqueue
    <3>3. sess[First(req[r].left)].st # "none"
      BY <1>0, <3>1, <3>2 DEF Knows, Ripe
    <3> QED BY <2>1, <3>1, <3>2, <3>3 DEF Of
  <2>4. CASE RejectExpire(r)
    BY <1>0, <2>4 DEF RejectExpire, DocumentTyped, QueueRow
  <2>5. PollEnqueue(r) \/ CloseEnqueue(r) \/ RejectExpire(r) \/ UNCHANGED row
    BY DEF RequestNext, PollLook, SessionGoes, PollGoes, PollAsk, PollConsume, PollCert,
           PollConfirm, PollSave, PollCompleting, Undo, CancelClear, RejectGoes, RejectTx,
           RejectNumber, Reject, Cancel, PollConfirmFails, PollSaveFails, RequestDies,
           BatchGoes, PollRegister, PollSiblings, CloseMark, CloseFails
  <2> QED BY <2>2, <2>3, <2>4, <2>5
<1> QED BY <1>1, <1>2

\* What everybody does to the PDFs and to the queue.
LEMMA PdfMoves ==
  ASSUME IInv, BInv, [Next]_vars, NEW d \in Docs
  PROVE  /\ saved'[d] \in {0, saved[d]} \/ Of(saved'[d], d)
         /\ row'[d].s = row[d].s \/ Of(row'[d].s, d)
         /\ \/ close'[d] = close[d] \/ close'[d] = Asleep
            \/ close'[d].at # "idle" /\ close'[d].pdf \in {close[d].pdf, saved[d]}
<1>0. DocumentTyped /\ SessTyped
  BY Typed
<1>1. ASSUME NEW e \in Docs, CloseNext(e)
      PROVE  saved'[d] \in {0, saved[d]} /\ row'[d].s = row[d].s
  <2>1. saved' = [saved EXCEPT ![e] = 0] \/ UNCHANGED saved
    BY <1>1 DEF CloseNext, CloseGoes, CloseFaults, Claim, CloseCheck, CloseRead, CloseUpload,
         CloseFinalize, CloseDraft, ClosePut, CloseSettle, CloseSigner, CloseMarkSigned,
         CloseTidy, CloseRow, FailRow, FailSession, DropBatch, CloseUploadFails,
         CloseGivesUp, WorkerDies, CloseKeeps
  <2>2. row'[d].s = row[d].s
    <3>1. CASE d = e
      BY <1>1, <3>1, CloseDocs
    <3>2. CASE d # e
      BY <1>1, <3>2, CloseDocs
    <3> QED BY <3>1, <3>2
  <2> QED BY <1>0, <2>1, <2>2 DEF DocumentTyped
<1>2. CASE \E e \in Docs : CloseNext(e)
  BY <1>1, <1>2, WorkerReads
<1>3. CASE \E r \in Requests : RequestNext(r)
  <2>1. UNCHANGED close
    BY <1>3, RequestDocs
  <2> QED BY <1>3, <2>1, RequestBelongs
<1>4. CASE \E f \in Fallers : FallGoes(f) \/ FallDies(f)
  <2>1. UNCHANGED <<row, close>> /\ ((\E e : saved' = [saved EXCEPT ![e] = 0]) \/ UNCHANGED saved)
    BY <1>4 DEF FallGoes, FallSelect, FallNext, FallPdf, FallNumber, FallRelease, FallDies,
                FallKeeps
  <2> QED BY <1>0, <2>1 DEF DocumentTyped
<1>5. CASE \/ \E e \in Docs : Sweep(e) \/ \E o \in Openers : OpenNext(o)
           \/ \E s \in Sessions : Put(s) \/ BecomesLate(s)
           \/ OrphanLook \/ Undo(Job) \/ RequestDies(Job)
           \/ CancelBatch \/ SweepBatches \/ Locks \/ UNCHANGED vars
  <2>1. CASE \E e \in Docs : Sweep(e)
    BY <2>1 DEF Sweep, SweepReserved, SweepConfirming, SweepConfirmed, SweepKeeps, results
  <2>2. CASE \E o \in Openers : OpenNext(o)
    BY <2>2 DEF OpenNext, OpenLook, OpenGoes, OpenLock, OpenLost, OpenWon, OpenReserve,
                OpenAgain, OpenRead, OpenStart, OpenUndo, OpenReserveFails, OpenStartFails,
                OpenDies, OpenKeeps, results
  <2>3. CASE \E s \in Sessions : Put(s) \/ BecomesLate(s)
    BY <2>3 DEF Put, BecomesLate, results, others
  <2>4. CASE OrphanLook \/ Undo(Job) \/ RequestDies(Job)
    BY <2>4 DEF OrphanLook, Undo, RequestDies, ReqKeeps, results, others
  <2>5. CASE CancelBatch \/ SweepBatches \/ Locks \/ UNCHANGED vars
    BY <2>5 DEF CancelBatch, SweepBatches, LateBatch, DirtyBatch, CallKeeps, Locks, Elsewhere,
                vars, results
  <2> QED BY <1>5, <2>1, <2>2, <2>3, <2>4, <2>5
<1> QED BY <1>2, <1>3, <1>4, <1>5
        DEF Next, SessionNext, BatchNext, ClosingNext, RequestNext, CloseNext

\* Everything stays in its place.
LEMMA BelongsStay ==
  ASSUME IInv, BInv, Belongs, [Next]_vars
  PROVE  Belongs'
<1>0. SessionsStay /\ DocumentTyped /\ DocumentTyped' /\ CloseTyped /\ CloseTyped'
  BY AllGather, AllSteps, Typed, TypeParts DEF IInv, Parts
<1>1. ASSUME NEW d \in Docs, NEW s \in 0 .. MaxSessions, Of(s, d)
      PROVE  Of(s, d)'
  BY <1>0, <1>1, DigitalAssumption DEF SessionsStay, Of, Sessions
<1>2. SUFFICES ASSUME NEW d \in Docs PROVE BelongsOf(d)'
  BY DEF Belongs
<1>3. /\ saved[d] \in 0 .. MaxSessions /\ row[d].s \in 0 .. MaxSessions
      /\ close[d].pdf \in 0 .. MaxSessions /\ saved'[d] \in 0 .. MaxSessions
      /\ row'[d].s \in 0 .. MaxSessions /\ close'[d].pdf \in 0 .. MaxSessions
  BY <1>0 DEF DocumentTyped, QueueRow, CloseTyped, CloseMemory
<1>4. BelongsOf(d)
  BY DEF Belongs
<1>5. PICK s, t, u \in 0 .. MaxSessions : s = saved'[d] /\ t = row'[d].s /\ u = close'[d].pdf
  BY <1>3
<1>6. Of(s, d)'
  <2>1. Of(s, d)
    BY <1>4, <1>5, PdfMoves DEF BelongsOf, Of
  <2> QED BY <1>1, <2>1
<1>7. Of(t, d)'
  <2>1. Of(t, d)
    BY <1>4, <1>5, PdfMoves DEF BelongsOf, Of
  <2> QED BY <1>1, <2>1
<1>8. Of(u, d)' /\ (u # 0 => close'[d].at # "idle")
  <2>1. Of(u, d) /\ (u # 0 => close'[d].at # "idle")
    BY <1>4, <1>5, PdfMoves DEF BelongsOf, Of, Asleep
  <2> QED BY <1>1, <2>1
<1> QED BY <1>5, <1>6, <1>7, <1>8 DEF BelongsOf, Of

\* The worker closes a session with its own PDF when the document has no other.
LEMMA OneIsOwn ==
  ASSUME IInv, Belongs, OneSessionEach
  PROVE  OwnPdf
<1>1. SUFFICES ASSUME NEW d \in Docs, close[d].pdf # 0 PROVE close[d].pdf = row[d].s
  BY DigitalAssumption DEF OwnPdf, Own
<1>2. BelongsOf(d) /\ close[d].pdf \in Sessions
  BY <1>1, Typed, DigitalAssumption DEF Belongs, CloseTyped, CloseMemory, Sessions
<1>3. row[d].s \in Sessions /\ row[d].s # 0
  BY <1>1, <1>2, DigitalAssumption DEF BelongsOf, IInv, Closing, ClosingOf, Sessions
<1> QED BY <1>1, <1>2, <1>3 DEF BelongsOf, Of, OneSessionEach, Doc

\* The same where every document has one session, as the requests of a batch
\* leave it while none of its documents is opened again.
THEOREM IssuedTogetherOnce == Spec /\ []OneSessionEach => []NoneIssuedBeforeAll
<1>1. Init => IInv /\ BInv /\ Belongs
  BY Initially, NoBatches DEF Init, Belongs, BelongsOf, Of, NoRow, Asleep
<1>2. IInv /\ BInv /\ Belongs /\ [Next]_vars => (IInv /\ BInv /\ Belongs)'
  BY AllSteps, AllGather, BelongsStay
<1>3. IInv /\ Belongs /\ OneSessionEach => OwnPdf
  BY OneIsOwn
<1>4. Spec /\ []OwnPdf => []NoneIssuedBeforeAll
  BY IssuedTogether
<1> QED BY <1>1, <1>2, <1>3, <1>4, PTL DEF Spec
-----------------------------------------------------------------------------
(***************************************************************************)
(* Signatures with a token where no request opens a batch: cancelar_tanda, *)
(* which takes back numbers that are CONFIRMING, is never called, and each *)
(* number is issued once, with the PDF of its own session, which the user  *)
(* did not cancel.                                                         *)
(***************************************************************************)
(* The invariant *)

\* Nobody belongs to a batch and nobody fells one.
Alone == /\ Batches = {}
         /\ \A s \in Sessions : sess[s].batch = 0
         /\ \A o \in Openers : open[o].batch = 0
         /\ \A f \in Fallers : fall[f].at = "idle"
         /\ \A r \in Requests : req[r].at \notin {"register", "siblings", "closing", "marking"}
         /\ \A d \in Docs : close[d].at # "drop"

\* The signer answered with a signature; he refused; he signed and it counts.
Answered(s) == sess[s].answer \in {"signed", "revoked"} \/ sess[s].st = "cancelled"
Declined(s) == sess[s].answer = "cancel" \/ sess[s].st = "cancelled"
Kept(s) == /\ sess[s].used /\ sess[s].answer \in {"signed", "revoked"}
           /\ sess[s].st \notin {"none", "cancelled"}

\* What a request knows of its session.
Checked == {"consume", "cert", "confirm", "save", "enqueue", "completing"}
PollOf(r) == /\ req[r].s # 0 => sess[req[r].s].st # "none"
             /\ req[r].at \in Checked => Answered(req[r].s)
             /\ req[r].at \in Checked \ {"consume"} => sess[req[r].s].used
             /\ req[r].at = "clear" => sess[req[r].s].st = "cancelled"
             /\ (req[r].at = "undo"
                  /\ req[r].todo \in {<<"cancelled">>, <<"ticket", "cancelled">>})
                    => Declined(req[r].s)
Polls == \A r \in Requests \union {Job} : PollOf(r)

\* The job of a document is that of a session that was signed.
RowOf(d) == row[d].st # "none" =>
              /\ sess[row[d].s].st # "none" /\ Doc(row[d].s) = d
              /\ row[d].tk = sess[row[d].s].tk
              /\ sess[row[d].s].used /\ Answered(row[d].s)
Rows == \A d \in Docs : RowOf(d)

\* A job that waits for a worker or has one.
Busy(d) == InQueue(d) \/ close[d].at # "idle"
BusyOf(d) == Busy(d) => /\ od[d].st \in {"CONFIRMING", "CONFIRMED"} /\ od[d].tk = row[d].tk
                        /\ saved[d] \in {0, row[d].s}
Busies == \A d \in Numbered : BusyOf(d)

\* The poll that confirmed a number is alone with it until it has its job.
Saves(r, d) == req[r].at \in {"save", "enqueue"} /\ Doc(req[r].s) = d
SavingOf(r, d) == Saves(r, d) =>
                    /\ od[d] = [st |-> "CONFIRMING", tk |-> sess[req[r].s].tk]
                    /\ ~Busy(d) /\ official[d] = 0
                    /\ req[r].at = "enqueue" => saved[d] = req[r].s
                    /\ \A q \in Requests : Saves(q, d) => q = r
Saving == \A r \in Requests : \A d \in Numbered : SavingOf(r, d)

\* How far the worker has got with the number.
CloserOf(d) == /\ close[d].at = "idle" => close[d].pdf = 0
               /\ close[d].pdf # 0 => close[d].pdf = row[d].s
               /\ close[d].at # "put"
               /\ close[d].at \notin {"idle", "check", "fail", "failed"} => Kept(row[d].s)
               /\ close[d].at \notin {"idle", "check", "read", "upload", "fail", "failed"}
                    => official[d] = row[d].s
Closers == \A d \in Numbered : CloserOf(d)

IssuedOf(d) == official[d] # 0 => /\ d \in Numbered /\ official[d] = row[d].s
                                  /\ row[d].st # "none" /\ Kept(row[d].s)
                                  /\ od[d].st \in {"CONFIRMING", "CONFIRMED"}
Issues == \A d \in Docs : IssuedOf(d)

SignedOf(s) == sess[s].st = "signed" /\ Doc(s) \in Numbered => official[Doc(s)] = s
Signs == \A s \in Sessions : SignedOf(s)

Numbers == Rows /\ Busies /\ Saving /\ Closers /\ Issues /\ Signs
SInv == Alone /\ Polls /\ Numbers

-----------------------------------------------------------------------------
(* Nobody belongs to a batch *)

\* cancelar_tanda is not called where there is no batch.
LEMMA NobodyFells ==
  ASSUME IInv, Alone
  PROVE  /\ \A f \in Fallers : ~(FallGoes(f) \/ FallDies(f))
         /\ ~CancelBatch /\ ~SweepBatches
         /\ \A r \in Requests : ~(BatchGoes(r) \/ CloseFails(r))
         /\ \A d \in Docs : ~DropBatch(d)
<1>1. ASSUME NEW f \in Fallers
      PROVE  ~(FallGoes(f) \/ FallDies(f))
  BY DEF Alone, FallGoes, FallSelect, FallNext, FallPdf, FallNumber, FallRelease, FallDies, AtF
<1>2. Opened = {}
  BY DEF Alone, Opened
<1>3. ~CancelBatch /\ ~SweepBatches
  BY <1>2 DEF CancelBatch, SweepBatches
<1>4. ASSUME NEW r \in Requests
      PROVE  ~(BatchGoes(r) \/ CloseFails(r))
  BY DEF Alone, BatchGoes, PollRegister, PollSiblings, CloseEnqueue, CloseMark, CloseFails, AtR
<1>5. ASSUME NEW d \in Docs
      PROVE  ~DropBatch(d)
  BY DEF Alone, DropBatch, AtC
<1> QED BY <1>1, <1>3, <1>4, <1>5

AskNext(r) == \/ PollLook(r) \/ SessionGoes(r) \/ Cancel(r) \/ Reject(r)
              \/ PollConfirmFails(r) \/ PollSaveFails(r) \/ RequestDies(r)
EndNext(d) == CloseNext(d) /\ ~DropBatch(d)
JobNext == OrphanLook \/ Undo(Job) \/ RequestDies(Job)

\* The steps that are left.
LEMMA SingleSteps ==
  ASSUME IInv, Alone, [Next]_vars
  PROVE  \/ \E o \in Openers : OpenNext(o)
         \/ \E s \in Sessions : Put(s) \/ BecomesLate(s)
         \/ \E r \in Requests : AskNext(r)
         \/ JobNext
         \/ \E d \in Docs : EndNext(d)
         \/ \E d \in Docs : Sweep(d)
         \/ Locks
         \/ UNCHANGED vars
BY NobodyFells DEF Next, SessionNext, BatchNext, ClosingNext, AskNext, JobNext, EndNext,
                   CloseNext

\* Who opens a session opens it alone.
LEMMA OpenAlone ==
  ASSUME IInv, Alone, NEW o \in Openers, OpenNext(o)
  PROVE  /\ \A p \in Openers : open'[p].batch = 0
         /\ UNCHANGED <<fall, req, close, saved, official, row>>
<1> USE Typed
<1>1. open[o] \in OpenMemory /\ open[o].batch = 0 /\ o \notin Batches
  BY DEF OpenTyped, Alone
<1>2. UNCHANGED <<req, close, saved, official, row>>
  BY DEF OpenNext, OpenLook, OpenGoes, OpenLock, OpenLost, OpenWon, OpenReserve, OpenAgain,
         OpenRead, OpenStart, OpenUndo, OpenReserveFails, OpenStartFails, OpenDies, OpenKeeps,
         results
<1>3. UNCHANGED fall
  BY <1>1 DEF OpenNext, OpenLook, OpenGoes, OpenLock, OpenLost, OpenWon, OpenReserve, OpenAgain,
         OpenRead, OpenStart, OpenUndo, OpenReserveFails, OpenStartFails, OpenDies, Reverts
<1>4. open'[o].batch = 0 /\ \A p \in Openers : p # o => open'[p] = open[p]
  <2>1. CASE OpenLook(o)
    <3>1. PICK d, L : open' = [open EXCEPT ![o].at = "lock", ![o].d = d, ![o].left = L]
      BY <2>1 DEF OpenLook
    <3> QED BY <1>1, <3>1 DEF OpenTyped, OpenMemory
  <2>2. CASE OpenStart(o)
    <3>1. open' = [open EXCEPT ![o] = IF open[o].left = {} THEN Closed
                                      ELSE [Closed EXCEPT !.left = open[o].left, !.batch = 0]]
      BY <1>1, <2>2 DEF OpenStart
    <3> QED BY <3>1 DEF OpenTyped, Closed
  <2>3. CASE OpenLost(o) \/ OpenUndo(o) \/ OpenDies(o)
    <3>1. open' = [open EXCEPT ![o] = Closed]
      BY <2>3 DEF OpenLost, OpenUndo, OpenDies, Reverts
    <3> QED BY <3>1 DEF OpenTyped, Closed
  <2>4. CASE OpenReserve(o)
    <3>1. PICK tk : open' = [open EXCEPT ![o].at = "read", ![o].tk = tk]
      BY <2>4 DEF OpenReserve
    <3> QED BY <1>1, <3>1 DEF OpenTyped, OpenMemory
  <2>5. CASE \/ OpenLock(o) \/ OpenWon(o) \/ OpenReserveFails(o)
             \/ OpenAgain(o) \/ OpenRead(o) \/ OpenStartFails(o)
    BY <1>1, <2>5 DEF OpenLock, OpenWon, OpenReserveFails, OpenAgain, OpenRead,
                OpenStartFails, OpenTyped, OpenMemory, StepO
  <2> QED BY <2>1, <2>2, <2>3, <2>4, <2>5 DEF OpenNext, OpenGoes
<1> QED BY <1>2, <1>3, <1>4 DEF Alone

\* Where a request may be next.
LEMMA AskAlone ==
  ASSUME IInv, Alone, NEW r \in Requests, AskNext(r)
  PROVE  /\ \A q \in Requests \union {Job} : q # r => req'[q] = req[q]
         /\ req'[r].at \notin {"register", "siblings", "closing", "marking"}
         /\ req'[r].at \in {"save", "enqueue"} => PollCert(r) \/ PollConfirm(r) \/ PollSave(r)
         /\ UNCHANGED <<open, close, fall, official>>
<1> USE Typed
<1>1. UNCHANGED <<open, close, fall, official>>
  BY DEF AskNext, PollLook, SessionGoes, PollGoes, PollAsk, PollConsume, PollCert,
         PollConfirm, PollSave, PollEnqueue, PollCompleting, Undo, CancelClear, RejectGoes,
         RejectTx, RejectExpire, RejectNumber, Cancel, Reject, PollConfirmFails,
         PollSaveFails, RequestDies, RejectKeeps, ReqKeeps, others, results
<1>2. req[r] \in AskMemory
  BY DEF AskTyped
<1>3. CASE Undo(r)
  <2>1. /\ \A q \in Requests \union {Job} : q # r => req'[q] = req[q]
        /\ req'[r].at \in {"idle", "undo"}
    BY <1>3, UndoAsks
  <2> QED BY <1>1, <2>1
<1>4. ASSUME NEW s, NEW todo, GivesBack(r, s, todo)
      PROVE  /\ \A q \in Requests \union {Job} : q # r => req'[q] = req[q]
             /\ req'[r].at = "undo"
  BY <1>4 DEF GivesBack, AskTyped, Resting
<1>5. ASSUME Rest(r)
      PROVE  /\ \A q \in Requests \union {Job} : q # r => req'[q] = req[q]
             /\ req'[r].at = "idle"
  BY <1>5 DEF Rest, AskTyped, Resting
<1>6. ASSUME NEW at, StepR(r, at)
      PROVE  /\ \A q \in Requests \union {Job} : q # r => req'[q] = req[q]
             /\ req'[r].at = at
  BY <1>2, <1>6 DEF StepR, AskTyped, AskMemory
<1>7. CASE PollLook(r)
  <2>1. PICK s \in Sessions :
           \/ GivesBack(r, s, <<"expired">> \o IfNumbered(s, "ticket"))
           \/ req' = [req EXCEPT ![r].at = "ask", ![r].s = s]
    BY <1>7 DEF PollLook
  <2>2. CASE req' = [req EXCEPT ![r].at = "ask", ![r].s = s]
    BY <1>2, <2>2, <1>1 DEF AskTyped, AskMemory
  <2> QED BY <1>1, <1>4, <2>1, <2>2
<1>8. CASE PollAsk(r)
  <2>1. \/ Rest(r) \/ StepR(r, "consume")
        \/ \E todo : GivesBack(r, req[r].s, todo)
    BY <1>8 DEF PollAsk
  <2> QED BY <1>1, <1>4, <1>5, <1>6, <2>1
<1>9. CASE PollConsume(r)
  <2>1. Rest(r) \/ StepR(r, "cert")
    BY <1>9 DEF PollConsume
  <2> QED BY <1>1, <1>5, <1>6, <2>1
<1>10. CASE PollCert(r)
  <2>1. \/ StepR(r, "confirm") \/ StepR(r, "save")
        \/ \E todo : GivesBack(r, req[r].s, todo)
    BY <1>10 DEF PollCert, AfterCert
  <2> QED BY <1>1, <1>4, <1>6, <1>10, <2>1
<1>11. CASE PollConfirm(r)
  <2>1. \/ StepR(r, "save")
        \/ \E todo : GivesBack(r, req[r].s, todo)
    BY <1>11 DEF PollConfirm
  <2> QED BY <1>1, <1>4, <1>6, <1>11, <2>1
<1>19. CASE PollConfirmFails(r) \/ PollSaveFails(r)
  <2>1. \E todo : GivesBack(r, req[r].s, todo)
    BY <1>19 DEF PollConfirmFails, PollSaveFails
  <2> QED BY <1>1, <1>4, <2>1
<1>12. CASE PollSave(r)
  <2>1. req[r].s \in Sessions
    BY <1>12 DEF PollSave, AtR, IInv, Asks, AsksOf
  <2>2. StepR(r, "enqueue")
    BY <1>12, <2>1 DEF PollSave, Alone
  <2> QED BY <1>1, <1>6, <1>12, <2>2
<1>13. CASE PollEnqueue(r)
  <2>1. StepR(r, "completing")
    BY <1>13 DEF PollEnqueue
  <2> QED BY <1>1, <1>6, <2>1
<1>14. CASE PollCompleting(r) \/ RequestDies(r) \/ RejectNumber(r)
  <2>1. Rest(r)
    BY <1>14 DEF PollCompleting, RequestDies, RejectNumber
  <2> QED BY <1>1, <1>5, <2>1
<1>15. CASE Cancel(r)
  <2>1. PICK s : req' = [req EXCEPT ![r].at = "clear", ![r].s = s]
    BY <1>15 DEF Cancel
  <2> QED BY <1>1, <1>2, <2>1 DEF AskTyped, AskMemory
<1>16. CASE CancelClear(r)
  <2>1. Rest(r) \/ \E todo : GivesBack(r, req[r].s, todo)
    BY <1>16 DEF CancelClear
  <2> QED BY <1>1, <1>4, <1>5, <2>1
<1>17. CASE Reject(r)
  <2>1. PICK d : req' = [req EXCEPT ![r].at = "tx", ![r].d = d]
    BY <1>17 DEF Reject
  <2> QED BY <1>1, <1>2, <2>1 DEF AskTyped, AskMemory
<1>18. CASE RejectTx(r) \/ RejectExpire(r)
  <2>1. Rest(r) \/ StepR(r, "expire") \/ StepR(r, "number")
    BY <1>18 DEF RejectTx, RejectExpire
  <2> QED BY <1>1, <1>5, <1>6, <2>1
<1> QED BY <1>1, <1>3, <1>7, <1>8, <1>9, <1>10, <1>11, <1>12, <1>13, <1>14, <1>15, <1>16, <1>17,
           <1>18, <1>19 DEF AskNext, SessionGoes, PollGoes, RejectGoes

\* Nor does the worker fell a batch.
LEMMA EndAlone ==
  ASSUME IInv, Alone, NEW d \in Docs, EndNext(d)
  PROVE  /\ close'[d].at # "drop" /\ \A e \in Docs : e # d => close'[e] = close[e]
         /\ UNCHANGED <<open, req, fall>>
<1> USE Typed
<1>1. UNCHANGED <<open, req, fall>>
  BY DEF EndNext, CloseNext, CloseGoes, CloseFaults, Claim, CloseCheck, CloseRead, CloseUpload,
         CloseFinalize, CloseDraft, ClosePut, CloseSettle, CloseSigner, CloseMarkSigned,
         CloseTidy, CloseRow, FailRow, FailSession, CloseUploadFails,
         CloseGivesUp, WorkerDies, CloseKeeps
<1>2. \A e \in Docs : e # d => close'[e] = close[e]
  BY CloseMemories DEF EndNext
<1>3. CASE FailSession(d)
  <2>1. sess[row[d].s].batch = 0
    BY <1>3 DEF FailSession, AtC, IInv, Closing, ClosingOf, Alone
  <2>2. close' = [close EXCEPT ![d] = Asleep]
    BY <1>3, <2>1 DEF FailSession, Own
  <2>3. close'[d] = Asleep
    BY <2>2, CloseEnds
  <2>4. close'[d].at # "drop"
    BY <2>3 DEF Asleep
  <2> QED BY <1>1, <1>2, <2>4
<1>4. CASE CloseRow(d) \/ WorkerDies(d)
  <2>1. close' = [close EXCEPT ![d] = Asleep]
    BY <1>4 DEF CloseRow, WorkerDies
  <2>3. close'[d] = Asleep
    BY <2>1, CloseEnds
  <2>4. close'[d].at # "drop"
    BY <2>3 DEF Asleep
  <2> QED BY <1>1, <1>2, <2>4
<1>5. CASE CloseRead(d)
  <2>1. Fails(d, "lost") \/ \E p : \E at \in {"upload", "put"} :
                              close' = [close EXCEPT ![d].pdf = p, ![d].at = at]
    BY <1>5 DEF CloseRead
  <2>2. CASE Fails(d, "lost")
    BY <1>1, <1>2, <2>2, CloseGoesWrong
  <2>3. CASE \E p : \E at \in {"upload", "put"} :
                close' = [close EXCEPT ![d].pdf = p, ![d].at = at]
    BY <1>1, <1>2, <2>3 DEF CloseTyped, CloseMemory
  <2> QED BY <2>1, <2>2, <2>3
<1>6. CASE ~(FailSession(d) \/ CloseRow(d) \/ WorkerDies(d) \/ CloseRead(d))
  <2>1. \/ \E at \in {"check", "read", "finalize", "draft", "settle", "signer", "mark", "tidy",
                      "row", "failed"} : StepC(d, at)
        \/ \E why \in {"stale", "upload"} : Fails(d, why)
    BY <1>6 DEF EndNext, CloseNext, CloseGoes, CloseFaults, Claim, CloseCheck, CloseUpload,
         CloseFinalize, CloseDraft, ClosePut, CloseSettle, CloseSigner, CloseMarkSigned,
         CloseTidy, FailRow, CloseUploadFails, CloseGivesUp
  <2>2. CASE \E at \in {"check", "read", "finalize", "draft", "settle", "signer", "mark",
                      "tidy", "row", "failed"} : StepC(d, at)
    BY <1>1, <1>2, <2>2, CloseGoesOn
  <2>3. CASE \E why \in {"stale", "upload"} : Fails(d, why)
    BY <1>1, <1>2, <2>3, CloseGoesWrong
  <2> QED BY <2>1, <2>2, <2>3
<1> QED BY <1>3, <1>4, <1>5, <1>6

-----------------------------------------------------------------------------
(* What stays true of a session *)

Steady(s) == sess[s].st # "none" =>
               /\ sess'[s].st # "none" /\ sess'[s].d = sess[s].d /\ sess'[s].tk = sess[s].tk
               /\ sess[s].used => sess'[s].used
               /\ sess[s].st = "cancelled" => sess'[s].st = "cancelled"
               /\ Answered(s) => Answered(s)'
               /\ Declined(s) => Declined(s)'
               /\ Kept(s) => Kept(s)'

\* The record c is what may become of the session s.
Follows(s, c) == /\ c \in Session /\ c.st # "none" /\ c.batch = sess[s].batch
                 /\ c.d = sess[s].d /\ c.tk = sess[s].tk
                 /\ sess[s].used => c.used
                 /\ \/ c.answer = sess[s].answer
                    \/ sess[s].answer = "none" /\ sess[s].st # "cancelled"
                    \/ c.st = "cancelled"
                 /\ sess[s].st = "cancelled" => c.st = "cancelled"
                 /\ c.st = "cancelled" => ~Kept(s)

\* What becomes of the sessions in one step.
Moves == \A s \in Sessions : /\ Steady(s) /\ sess'[s].batch = 0
                             /\ sess'[s].st = "signed" => sess[s].st = "signed"

\* A step that touches no session.
LEMMA StayMoves ==
  ASSUME Alone, UNCHANGED sess
  PROVE  Moves
BY DEF Alone, Moves, Steady, Answered, Declined, Kept

\* A step that replaces the record of one session.
LEMMA OneMoves ==
  ASSUME SessTyped, Alone, NEW s \in Sessions, NEW c, Follows(s, c),
         sess' = [sess EXCEPT ![s] = c]
  PROVE  /\ \A t \in Sessions : Steady(t) /\ sess'[t].batch = 0
         /\ sess'[s] = c /\ \A t \in Sessions : t # s => sess'[t] = sess[t]
<1>1. sess'[s] = c /\ \A t \in Sessions : t # s => sess'[t] = sess[t]
  BY OneSessionMoves DEF Follows
<1>2. ASSUME NEW t \in Sessions, t # s
      PROVE  Steady(t) /\ sess'[t].batch = 0
  BY <1>1, <1>2 DEF Steady, Answered, Declined, Kept, Alone
<1>3. Steady(s)
  BY <1>1 DEF Follows, Steady, Answered, Declined, Kept
<1>4. sess'[s].batch = 0
  BY <1>1 DEF Follows, Alone
<1> QED BY <1>1, <1>2, <1>3, <1>4

\* UPDATE ... WHERE status IN (from).
LEMMA MarkSteady ==
  ASSUME SessTyped, Alone, NEW s \in 0 .. MaxSessions, NEW st \in Statuses \ {"none"},
         NEW from \in SUBSET Vivos, st = "cancelled" => (s \in Sessions => ~Kept(s)),
         sess' = Marked(s, from, st)
  PROVE  /\ \A t \in Sessions : Steady(t) /\ sess'[t].batch = 0
         /\ \A t \in Sessions : sess'[t].st # sess[t].st =>
              t = s /\ sess[t].st \in from /\ sess'[t].st = st
<1>1. /\ SessTyped' /\ \A t \in Sessions : Same(t)
      /\ \A t \in Sessions : sess'[t] # sess[t] =>
           t = s /\ sess[t].st \in from /\ sess'[t].st = st
  BY MarkMoves
<1>2. ASSUME NEW t \in Sessions
      PROVE  Steady(t) /\ sess'[t].batch = 0
  <2>1. sess'[t].batch = 0
    BY <1>1 DEF Same, Alone
  <2>2. CASE sess'[t] = sess[t]
    BY <2>1, <2>2 DEF Steady, Answered, Declined, Kept
  <2>3. CASE sess'[t] # sess[t]
    <3>1. t = s /\ sess[t].st \in Vivos /\ sess'[t].st = st
      BY <1>1, <2>3
    <3>2. sess[t].st # "cancelled"
      BY <3>1 DEF Vivos
    <3>3. Same(t)
      BY <1>1
    <3> QED BY <2>1, <3>1, <3>2, <3>3 DEF Same, Steady, Answered, Declined, Kept
  <2> QED BY <2>2, <2>3
<1> QED BY <1>1, <1>2

\* What a poll takes back: it marks a session cancelled only after a refusal.
LEMMA UndoMoves ==
  ASSUME IInv, SInv, NEW r \in Requests \union {Job}, Undo(r)
  PROVE  Moves
<1> USE Typed DEF SInv
<1>1. /\ req[r].s \in Sessions /\ req[r].at = "undo" /\ req[r].todo \in Todos \ {<<>>}
      /\ req[r].s \in 0 .. MaxSessions
  <2>1. req[r] \in AskMemory
    BY DEF AskTyped
  <2> QED BY <2>1 DEF Undo, AtR, AskMemory, IInv, Asks, AsksOf
<1>2. CASE Head(req[r].todo) \in Caidos
  <2>1. PICK st : st = Head(req[r].todo)
    OBVIOUS
  <2>2. st \in Statuses \ {"none"} /\ {"pending"} \in SUBSET Vivos /\ st # "signed"
    BY <1>2, <2>1 DEF Statuses, Caidos, Vivos
  <2>3. sess' = Marked(req[r].s, {"pending"}, st)
    BY <1>2, <2>1 DEF Undo
  <2>4. st = "cancelled" => ~Kept(req[r].s)
    <3>1. SUFFICES ASSUME st = "cancelled" PROVE ~Kept(req[r].s)
      OBVIOUS
    <3>2. req[r].todo \in {<<"cancelled">>, <<"ticket", "cancelled">>}
      BY <1>1, <2>1, <3>1 DEF Todos
    <3>3. Declined(req[r].s)
      BY <1>1, <3>2 DEF Polls, PollOf
    <3> QED BY <3>3 DEF Declined, Kept
  <2>5. /\ \A t \in Sessions : Steady(t) /\ sess'[t].batch = 0
        /\ \A t \in Sessions : sess'[t].st # sess[t].st =>
             t = req[r].s /\ sess[t].st \in {"pending"} /\ sess'[t].st = st
    BY <1>1, <2>2, <2>3, <2>4, MarkSteady
  <2> QED BY <2>2, <2>5 DEF Moves
<1>3. CASE Head(req[r].todo) \notin Caidos
  BY <1>3, StayMoves DEF Undo
<1> QED BY <1>2, <1>3

\* What polls and cancellations make of the sessions: only one whose answer nobody
\* has used is cancelled.
LEMMA AskMovesSessions ==
  ASSUME IInv, SInv, NEW r \in Requests, AskNext(r)
  PROVE  Moves
<1> USE Typed DEF SInv
<1>0. /\ req[r].s \in 0 .. MaxSessions
      /\ {"pending"} \in SUBSET Vivos
      /\ "completing" \in Statuses \ {"none"}
  <2>1. req[r] \in AskMemory
    BY DEF AskTyped
  <2>2. req[r].s \in 0 .. MaxSessions /\ req[r].left \subseteq Sessions
    BY <2>1 DEF AskMemory
  <2> QED BY <2>2 DEF Vivos, Caidos, Statuses
<1>1. CASE Undo(r)
  BY <1>1, UndoMoves
<1>2. CASE PollCompleting(r)
  <2>1. sess' = Marked(req[r].s, {"pending"}, "completing")
    BY <1>2 DEF PollCompleting
  <2>2. /\ \A t \in Sessions : Steady(t) /\ sess'[t].batch = 0
        /\ \A t \in Sessions : sess'[t].st # sess[t].st =>
             t = req[r].s /\ sess[t].st \in {"pending"} /\ sess'[t].st = "completing"
    BY <1>0, <2>1, MarkSteady
  <2> QED BY <2>2 DEF Moves
<1>3. CASE PollConsume(r)
  <2>1. req[r].s \in Sessions /\ sess[req[r].s] \in Session
    BY <1>3 DEF PollConsume, AtR, IInv, Asks, AsksOf, SessTyped
  <2>2. UNCHANGED sess \/ sess' = [sess EXCEPT ![req[r].s].used = TRUE]
    BY <1>3 DEF PollConsume
  <2>3. CASE sess' = [sess EXCEPT ![req[r].s].used = TRUE]
    <3>1. PICK c : c = [sess[req[r].s] EXCEPT !.used = TRUE]
      OBVIOUS
    <3>2. /\ c \in Session /\ c.st = sess[req[r].s].st /\ c.d = sess[req[r].s].d
          /\ c.tk = sess[req[r].s].tk /\ c.batch = sess[req[r].s].batch /\ c.used
          /\ c.answer = sess[req[r].s].answer
      BY <2>1, <3>1 DEF Session
    <3>3. c.st # "none"
      <4>1. req[r].s # 0
        BY <2>1, DigitalAssumption DEF Sessions
      <4> QED BY <3>2, <4>1 DEF Polls, PollOf
    <3>4. Follows(req[r].s, c)
      BY <3>2, <3>3 DEF Follows, Kept
    <3>5. sess' = [sess EXCEPT ![req[r].s] = c]
      BY <2>1, <2>3, <3>1 DEF SessTyped
    <3>6. /\ \A t \in Sessions : Steady(t) /\ sess'[t].batch = 0
          /\ sess'[req[r].s] = c /\ \A t \in Sessions : t # req[r].s => sess'[t] = sess[t]
      BY <2>1, <3>4, <3>5, OneMoves
    <3> QED BY <3>2, <3>6 DEF Moves
  <2> QED BY <2>2, <2>3, StayMoves
<1>4. CASE CancelClear(r)
  <2>1. req[r].s \in Sessions /\ sess[req[r].s] \in Session /\ sess[req[r].s].st = "cancelled"
    BY <1>4 DEF CancelClear, AtR, IInv, Asks, AsksOf, SessTyped, Polls, PollOf
  <2>2. sess' = [sess EXCEPT ![req[r].s].answer = "none"]
    BY <1>4 DEF CancelClear
  <2>3. PICK c : c = [sess[req[r].s] EXCEPT !.answer = "none"]
    OBVIOUS
  <2>4. /\ c \in Session /\ c.st = sess[req[r].s].st /\ c.d = sess[req[r].s].d
        /\ c.tk = sess[req[r].s].tk /\ c.batch = sess[req[r].s].batch
        /\ c.used = sess[req[r].s].used
    BY <2>1, <2>3 DEF Session
  <2>5. Follows(req[r].s, c)
    BY <2>1, <2>4 DEF Follows, Kept
  <2>6. sess' = [sess EXCEPT ![req[r].s] = c]
    BY <2>1, <2>2, <2>3 DEF SessTyped
  <2>7. /\ \A t \in Sessions : Steady(t) /\ sess'[t].batch = 0
        /\ sess'[req[r].s] = c /\ \A t \in Sessions : t # req[r].s => sess'[t] = sess[t]
    BY <2>1, <2>5, <2>6, OneMoves
  <2> QED BY <2>4, <2>7 DEF Moves
<1>5. CASE Cancel(r)
  <2>1. PICK s \in Sessions :
          /\ sess[s].st = "pending" /\ ~sess[s].used
          /\ sess' = [Marked(s, {"pending"}, "cancelled") EXCEPT ![s].clean = TRUE]
    BY <1>5 DEF Cancel
  <2>2. PICK c : c = [sess[s] EXCEPT !.st = "cancelled", !.clean = TRUE]
    OBVIOUS
  <2>3. /\ c \in Session /\ c.st = "cancelled" /\ c.d = sess[s].d
        /\ c.tk = sess[s].tk /\ c.batch = sess[s].batch /\ c.used = sess[s].used
    BY <2>2 DEF SessTyped, Session, Statuses, Caidos
  <2>4. sess' = [sess EXCEPT ![s] = c]
    <3>1. Marked(s, {"pending"}, "cancelled")
            = [sess EXCEPT ![s].st = "cancelled", ![s].clean = TRUE]
      BY <2>1 DEF Marked, SessTyped, Session
    <3> QED BY <2>1, <2>2, <3>1 DEF SessTyped, Session
  <2>5. Follows(s, c)
    BY <2>1, <2>3 DEF Follows, Kept
  <2>6. /\ \A t \in Sessions : Steady(t) /\ sess'[t].batch = 0
        /\ sess'[s] = c /\ \A t \in Sessions : t # s => sess'[t] = sess[t]
    BY <2>4, <2>5, OneMoves
  <2> QED BY <2>3, <2>6 DEF Moves
<1>6. CASE UNCHANGED sess
  BY <1>6, StayMoves
<1>7. \/ Undo(r) \/ PollCompleting(r) \/ PollConsume(r)
      \/ CancelClear(r) \/ Cancel(r) \/ UNCHANGED sess
  BY DEF AskNext, PollLook, SessionGoes, PollGoes, PollAsk, PollCert, PollConfirm,
         PollSave, PollEnqueue, RejectGoes, RejectTx, RejectExpire, RejectNumber, Reject,
         PollConfirmFails, PollSaveFails, RequestDies, RejectKeeps
<1> QED BY <1>1, <1>2, <1>3, <1>4, <1>5, <1>6, <1>7

\* The job marks sessions expired.
LEMMA JobMoves ==
  ASSUME IInv, SInv, JobNext
  PROVE  Moves
<1>1. Undo(Job) \/ UNCHANGED sess
  BY DEF JobNext, OrphanLook, RequestDies
<1> QED BY <1>1, UndoMoves, StayMoves DEF SInv

\* A session that starts takes a row nobody has.
LEMMA OpenMoves ==
  ASSUME IInv, SInv, NEW o \in Openers, OpenNext(o)
  PROVE  Moves
<1> USE Typed DEF SInv
<1>1. CASE OpenStart(o)
  <2>1. PICK s \in Sessions \ Begun : s = NextSession
    BY <1>1, RoomToStart DEF OpenStart, AtO
  <2>2. PICK c : c = [NoSession EXCEPT !.st = "pending", !.d = open[o].d, !.tk = open[o].tk,
                                       !.batch = 0, !.pdf = open[o].pdf]
    OBVIOUS
  <2>3. c.st = "pending" /\ c.batch = 0
    BY <2>2 DEF NoSession
  <2>4. sess' = [sess EXCEPT ![s] = c]
    <3>1. o \notin Batches
      BY DEF Alone
    <3> QED BY <1>1, <2>1, <2>2, <3>1 DEF OpenStart
  <2>5. sess[s].st = "none"
    BY <2>1 DEF Begun
  <2>6. sess'[s] = c /\ \A t \in Sessions : t # s => sess'[t] = sess[t]
    BY <2>1, <2>4 DEF SessTyped
  <2> QED BY <2>1, <2>3, <2>5, <2>6 DEF Moves, Steady, Answered, Declined, Kept, Alone
<1>2. OpenStart(o) \/ UNCHANGED sess
  BY DEF OpenNext, OpenLook, OpenGoes, OpenLock, OpenLost, OpenWon, OpenReserve, OpenAgain,
         OpenRead, OpenUndo, OpenReserveFails, OpenStartFails, OpenDies
<1> QED BY <1>1, <1>2, StayMoves

\* FirmadorGDI answers once, and the clock changes no state.
LEMMA DeviceMoves ==
  ASSUME IInv, SInv, NEW s \in Sessions, Put(s) \/ BecomesLate(s)
  PROVE  Moves
<1> USE Typed DEF SInv
<1>1. sess[s] \in Session
  BY DEF SessTyped
<1>2. CASE Put(s)
  <2>1. PICK a \in Answers : sess' = [sess EXCEPT ![s].answer = a]
    BY <1>2 DEF Put
  <2>2. PICK c : c = [sess[s] EXCEPT !.answer = a]
    OBVIOUS
  <2>3. a \in AllAnswers
    BY DigitalAssumption DEF AllAnswers
  <2>4. /\ c \in Session /\ c.st = sess[s].st /\ c.d = sess[s].d /\ c.tk = sess[s].tk
        /\ c.batch = sess[s].batch /\ c.used = sess[s].used
    BY <1>1, <2>2, <2>3 DEF Session
  <2>5. sess' = [sess EXCEPT ![s] = c]
    BY <2>1, <2>2 DEF SessTyped
  <2>6. sess[s].st = "pending" /\ sess[s].answer = "none"
    BY <1>2 DEF Put
  <2>7. Follows(s, c)
    BY <2>4, <2>6 DEF Follows
  <2>8. /\ \A t \in Sessions : Steady(t) /\ sess'[t].batch = 0
        /\ sess'[s] = c /\ \A t \in Sessions : t # s => sess'[t] = sess[t]
    BY <2>5, <2>7, OneMoves
  <2> QED BY <2>4, <2>8 DEF Moves
<1>3. CASE BecomesLate(s)
  <2>1. sess' = [sess EXCEPT ![s].late = TRUE] /\ sess[s].st # "none"
    BY <1>3 DEF BecomesLate
  <2>2. PICK c : c = [sess[s] EXCEPT !.late = TRUE]
    OBVIOUS
  <2>3. /\ c \in Session /\ c.st = sess[s].st /\ c.d = sess[s].d /\ c.tk = sess[s].tk
        /\ c.batch = sess[s].batch /\ c.used = sess[s].used /\ c.answer = sess[s].answer
    BY <1>1, <2>2 DEF Session
  <2>4. sess' = [sess EXCEPT ![s] = c]
    BY <2>1, <2>2 DEF SessTyped
  <2>5. Follows(s, c)
    BY <2>1, <2>3 DEF Follows, Kept
  <2>6. /\ \A t \in Sessions : Steady(t) /\ sess'[t].batch = 0
        /\ sess'[s] = c /\ \A t \in Sessions : t # s => sess'[t] = sess[t]
    BY <2>4, <2>5, OneMoves
  <2> QED BY <2>3, <2>6 DEF Moves
<1> QED BY <1>2, <1>3

\* A closing that fails does not touch what the user cancelled.
LEMMA EndMoves ==
  ASSUME IInv, SInv, NEW d \in Docs, EndNext(d), ~CloseMarkSigned(d)
  PROVE  Moves
<1> USE Typed DEF SInv
<1>1. CASE FailSession(d)
  <2>1. PICK s \in Sessions : s = row[d].s
    BY <1>1 DEF FailSession, AtC, IInv, Closing, ClosingOf
  <2>2. PICK M : M = Marked(s, {"pending", "completing"}, "failed")
    OBVIOUS
  <2>3. PICK p : sess' = [M EXCEPT ![s].partial = p]
    BY <1>1, <2>1, <2>2 DEF FailSession, Own
  <2>4. sess[s] \in Session /\ sess[s].st # "none"
    <3>1. row[d].st # "none"
      BY <1>1 DEF FailSession, AtC, IInv, Closing, ClosingOf
    <3> QED BY <2>1, <3>1 DEF Numbers, Rows, RowOf, SessTyped
  <2>5. /\ M \in [Sessions -> Session] /\ \A t \in Sessions : t # s => M[t] = sess[t]
        /\ M[s].d = sess[s].d /\ M[s].tk = sess[s].tk /\ M[s].batch = sess[s].batch
        /\ M[s].used = sess[s].used /\ M[s].answer = sess[s].answer
        /\ M[s].st = sess[s].st \/ (M[s].st = "failed" /\ sess[s].st # "cancelled")
    <3>1. CASE sess[s].st \in {"pending", "completing"}
      <4>1. PICK e : e = [sess[s] EXCEPT !.st = "failed"]
        OBVIOUS
      <4>2. e \in Session
        BY <2>4, <4>1 DEF Session, Statuses, Caidos
      <4>3. M = [sess EXCEPT ![s] = e]
        BY <2>2, <2>4, <3>1, <4>1 DEF Marked, SessTyped, Session
      <4>4. /\ M[s] = e /\ M \in [Sessions -> Session]
            /\ \A t \in Sessions : t # s => M[t] = sess[t]
        BY <4>2, <4>3 DEF SessTyped
      <4>5. /\ e.d = sess[s].d /\ e.tk = sess[s].tk /\ e.batch = sess[s].batch
            /\ e.used = sess[s].used /\ e.answer = sess[s].answer /\ e.st = "failed"
        BY <2>4, <4>1 DEF Session
      <4> QED BY <3>1, <4>4, <4>5
    <3>2. CASE sess[s].st \notin {"pending", "completing"}
      BY <2>2, <3>2 DEF Marked, SessTyped
    <3> QED BY <3>1, <3>2
  <2>6. /\ \A t \in Sessions : t # s => sess'[t] = sess[t]
        /\ sess'[s].d = M[s].d /\ sess'[s].tk = M[s].tk /\ sess'[s].batch = M[s].batch
        /\ sess'[s].used = M[s].used /\ sess'[s].answer = M[s].answer /\ sess'[s].st = M[s].st
    BY <2>3, <2>5 DEF Session
  <2>7. Steady(s)
    BY <2>4, <2>5, <2>6 DEF Steady, Answered, Declined, Kept
  <2> QED BY <2>5, <2>6, <2>7 DEF Moves, Steady, Answered, Declined, Kept, Alone
<1>2. FailSession(d) \/ UNCHANGED sess
  BY DEF EndNext, CloseNext, CloseGoes, CloseFaults, Claim, CloseCheck, CloseRead, CloseUpload,
         CloseFinalize, CloseDraft, ClosePut, CloseSettle, CloseSigner, CloseTidy, CloseRow,
         FailRow, CloseUploadFails, CloseGivesUp, WorkerDies
<1> QED BY <1>1, <1>2, StayMoves

\* The worker signs the session of its row and no other.
LEMMA MarkSignedMoves ==
  ASSUME IInv, SInv, NEW d \in Docs, CloseMarkSigned(d)
  PROVE  \A s \in Sessions : /\ Steady(s) /\ sess'[s].batch = 0
                             /\ sess'[s].st = "signed" => sess[s].st = "signed" \/ s = row[d].s
<1> USE Typed DEF SInv
<1>1. /\ row[d].s \in 0 .. MaxSessions
      /\ {"pending", "completing"} \in SUBSET Vivos
      /\ "signed" \in Statuses \ {"none"}
  <2>1. row[d] \in QueueRow
    BY DEF DocumentTyped
  <2> QED BY <2>1 DEF QueueRow, Statuses, Vivos
<1>2. sess' = Marked(row[d].s, {"pending", "completing"}, "signed")
  BY DEF CloseMarkSigned, Own
<1>3. /\ \A t \in Sessions : Steady(t) /\ sess'[t].batch = 0
      /\ \A t \in Sessions : sess'[t].st # sess[t].st =>
           t = row[d].s /\ sess[t].st \in {"pending", "completing"} /\ sess'[t].st = "signed"
  BY <1>1, <1>2, MarkSteady
<1> QED BY <1>3

\* The sweeper fails pending sessions.
LEMMA SweepMoves ==
  ASSUME IInv, SInv, NEW d \in Docs, Sweep(d)
  PROVE  Moves
<1> USE Typed DEF SInv
<1>1. CASE sess' = [s \in Sessions |->
                      IF Doc(s) = d /\ sess[s].tk = od[d].tk /\ sess[s].st = "pending"
                      THEN [sess[s] EXCEPT !.st = "failed"] ELSE sess[s]]
  <2>1. ASSUME NEW s \in Sessions
        PROVE  /\ Steady(s) /\ sess'[s].batch = 0
               /\ sess'[s].st = "signed" => sess[s].st = "signed"
    <3>1. sess[s] \in Session /\ sess[s].batch = 0
      BY DEF SessTyped, Alone
    <3>2. CASE sess'[s] = sess[s]
      BY <3>1, <3>2 DEF Steady, Answered, Declined, Kept
    <3>3. CASE sess'[s] # sess[s]
      <4>1. sess'[s] = [sess[s] EXCEPT !.st = "failed"] /\ sess[s].st = "pending"
        BY <1>1, <3>3
      <4>2. /\ sess'[s].st = "failed" /\ sess'[s].d = sess[s].d /\ sess'[s].tk = sess[s].tk
            /\ sess'[s].batch = sess[s].batch /\ sess'[s].used = sess[s].used
            /\ sess'[s].answer = sess[s].answer
        BY <3>1, <4>1 DEF Session
      <4> QED BY <3>1, <4>1, <4>2 DEF Steady, Answered, Declined, Kept
    <3> QED BY <3>2, <3>3
  <2> QED BY <2>1 DEF Moves
<1>2. CASE UNCHANGED sess
  BY <1>2, StayMoves
<1>3. \/ UNCHANGED sess
      \/ sess' = [s \in Sessions |->
                    IF Doc(s) = d /\ sess[s].tk = od[d].tk /\ sess[s].st = "pending"
                    THEN [sess[s] EXCEPT !.st = "failed"] ELSE sess[s]]
  BY DEF Sweep, SweepReserved, SweepConfirming, SweepConfirmed
<1> QED BY <1>1, <1>2, <1>3

\* What every session keeps in a step.
AllSteady == \A s \in Sessions : Steady(s) /\ sess'[s].batch = 0

-----------------------------------------------------------------------------
(* What a request knows of its session *)

\* What a request that does not move knows stays true.
LEMMA PollStays ==
  ASSUME IInv, Polls, AllSteady, NEW r \in Requests \union {Job}, req'[r] = req[r]
  PROVE  PollOf(r)'
<1>1. PollOf(r)
  BY DEF Polls
<1>2. CASE req[r].s = 0
  <2>1. req[r].at \notin Checked \union {"clear", "undo"}
    <3>1. 0 \notin Sessions
      BY DigitalAssumption DEF Sessions
    <3> QED BY <1>2, <3>1 DEF IInv, Asks, AsksOf, Checked
  <2> QED BY <1>2, <2>1 DEF PollOf
<1>3. CASE req[r].s # 0
  <2>1. req[r].s \in Sessions
    BY <1>3, Typed, DigitalAssumption DEF AskTyped, AskMemory, Sessions
  <2>2. Steady(req[r].s) /\ sess[req[r].s].st # "none"
    BY <1>1, <1>3, <2>1 DEF AllSteady, PollOf
  <2> QED BY <1>1, <2>2 DEF PollOf, Steady, Answered, Declined
<1> QED BY <1>2, <1>3

\* A request that has ended knows nothing.
LEMMA PollRests ==
  ASSUME NEW r \in Requests \union {Job}, req'[r] = Resting
  PROVE  PollOf(r)'
BY DEF PollOf, Resting, Checked

\* A request that goes on with its session.
LEMMA PollGoesOn ==
  ASSUME IInv, AllSteady, NEW r \in Requests, PollOf(r), req[r].s \in Sessions,
         NEW at, at \notin {"clear", "undo"}, StepR(r, at),
         at \in Checked => Answered(req[r].s),
         at \in Checked \ {"consume"} => sess[req[r].s].used \/ sess'[req[r].s].used
  PROVE  PollOf(r)'
<1>1. req'[r].at = at /\ req'[r].s = req[r].s
  BY Typed DEF StepR, AskTyped, AskMemory
<1>2. Steady(req[r].s) /\ sess[req[r].s].st # "none"
  <2>1. req[r].s # 0
    BY DigitalAssumption DEF Sessions
  <2> QED BY <2>1 DEF AllSteady, PollOf
<1> QED BY <1>1, <1>2 DEF PollOf, Steady, Answered

\* A request that has something to take back.
LEMMA PollGivesBack ==
  ASSUME IInv, AllSteady, NEW r \in Requests \union {Job}, NEW s \in Sessions,
         sess[s].st # "none", NEW todo, GivesBack(r, s, todo),
         todo \in {<<"cancelled">>, <<"ticket", "cancelled">>} => Declined(s)
  PROVE  PollOf(r)'
<1>1. req'[r].at = "undo" /\ req'[r].s = s /\ req'[r].todo = todo
  BY Typed DEF GivesBack, AskTyped, Resting
<1>2. Steady(s)
  BY DEF AllSteady
<1> QED BY <1>1, <1>2 DEF PollOf, Steady, Declined, Checked

\* A refusal is what is left only after a refusal.
LEMMA RefusalTails ==
  ASSUME NEW t \in Todos \ {<<>>}, Len(t) # 1,
         Tail(t) \in {<<"cancelled">>, <<"ticket", "cancelled">>}
  PROVE  t = <<"ticket", "cancelled">>
<1>1. \A x, y : Tail(<<x, y>>) = <<y>>
  OBVIOUS
<1>2. \A x : Len(<<x>>) = 1 /\ <<x>> # <<>>
  OBVIOUS
<1>3. t \in {<<"expired", "ticket">>, <<"ticket", "cancelled">>, <<"ticket", "failed">>,
          <<"number", "failed">>}
  BY <1>2, Zenon DEF Todos
<1>4. /\ <<"ticket">> \notin {<<"cancelled">>, <<"ticket", "cancelled">>}
      /\ <<"failed">> \notin {<<"cancelled">>, <<"ticket", "cancelled">>}
  OBVIOUS
<1> QED BY <1>1, <1>3, <1>4, Zenon

\* What is left to take back is still justified.
LEMMA UndoPolls ==
  ASSUME IInv, SInv, AllSteady, NEW r \in Requests \union {Job}, Undo(r)
  PROVE  PollOf(r)'
<1> USE Typed DEF SInv
<1>1. req[r] \in AskMemory /\ req[r].at = "undo" /\ req[r].s \in Sessions
      /\ req[r].todo \in Todos \ {<<>>}
  BY DEF Undo, AtR, AskTyped, AskMemory, IInv, Asks, AsksOf
<1>2. CASE Len(req[r].todo) = 1
  <2>1. req'[r] = Resting
    BY <1>2 DEF Undo, AskTyped
  <2> QED BY <2>1, PollRests
<1>3. CASE Len(req[r].todo) # 1
  <2>1. req'[r].at = "undo" /\ req'[r].s = req[r].s /\ req'[r].todo = Tail(req[r].todo)
    <3>1. req' = [req EXCEPT ![r] = [req[r] EXCEPT !.todo = Tail(req[r].todo)]]
      BY <1>3 DEF Undo
    <3> QED BY <1>1, <3>1 DEF AskTyped, AskMemory
  <2>2. Tail(req[r].todo) \in {<<"cancelled">>, <<"ticket", "cancelled">>}
          => req[r].todo = <<"ticket", "cancelled">>
    BY <1>1, <1>3, RefusalTails
  <2>3. PollOf(r) /\ Steady(req[r].s)
    BY <1>1 DEF Polls, AllSteady
  <2>4. sess[req[r].s].st # "none"
    BY <1>1, <2>3, DigitalAssumption DEF PollOf, Sessions
  <2> QED BY <1>1, <2>1, <2>2, <2>3, <2>4 DEF PollOf, Steady, Declined, Checked
<1> QED BY <1>2, <1>3

\* What there is to do after a refusal is told apart from the rest.
LEMMA TodosDiffer ==
  ASSUME NEW s
  PROVE  /\ <<"expired">> \o IfNumbered(s, "ticket")
              \notin {<<"cancelled">>, <<"ticket", "cancelled">>}
         /\ IfNumbered(s, "ticket") \o <<"failed">>
              \notin {<<"cancelled">>, <<"ticket", "cancelled">>}
         /\ IfNumbered(s, "number") \o <<"failed">>
              \notin {<<"cancelled">>, <<"ticket", "cancelled">>}
         /\ <<"failed">> \notin {<<"cancelled">>, <<"ticket", "cancelled">>}
         /\ <<"ticket">> \notin {<<"cancelled">>, <<"ticket", "cancelled">>}
         /\ <<"expired">> \notin {<<"cancelled">>, <<"ticket", "cancelled">>}
<1>1. CASE Doc(s) \in Numbered
  <2>1. /\ IfNumbered(s, "ticket") = <<"ticket">> /\ IfNumbered(s, "number") = <<"number">>
    BY <1>1 DEF IfNumbered
  <2>2. /\ <<"expired">> \o IfNumbered(s, "ticket") = <<"expired", "ticket">>
        /\ IfNumbered(s, "ticket") \o <<"failed">> = <<"ticket", "failed">>
        /\ IfNumbered(s, "number") \o <<"failed">> = <<"number", "failed">>
    BY <2>1, TwoJoin
  <2> QED BY <2>2
<1>2. CASE Doc(s) \notin Numbered
  <2>1. /\ IfNumbered(s, "ticket") = <<>> /\ IfNumbered(s, "number") = <<>>
    BY <1>2 DEF IfNumbered
  <2>2. <<"expired">> \o <<>> = <<"expired">>
    OBVIOUS
  <2>3. <<>> \o <<"failed">> = <<"failed">>
    OBVIOUS
  <2>4. /\ <<"expired">> \o IfNumbered(s, "ticket") = <<"expired">>
        /\ IfNumbered(s, "ticket") \o <<"failed">> = <<"failed">>
        /\ IfNumbered(s, "number") \o <<"failed">> = <<"failed">>
    BY <2>1, <2>2, <2>3, Zenon
  <2> QED BY <2>4
<1> QED BY <1>1, <1>2

\* Every step of a poll leaves it with what it has just learnt.
LEMMA AskPolls ==
  ASSUME IInv, SInv, AllSteady, NEW r \in Requests, AskNext(r)
  PROVE  PollOf(r)'
<1> USE Typed DEF SInv
<1>1. PollOf(r) /\ req[r] \in AskMemory
  BY DEF Polls, AskTyped
<1>2. ASSUME req[r].at \notin {"idle", "tx", "expire", "number"}
      PROVE  req[r].s \in Sessions /\ sess[req[r].s].st # "none"
  <2>1. req[r].s \in Sessions
    BY <1>2 DEF IInv, Asks, AsksOf
  <2> QED BY <1>1, <2>1, DigitalAssumption DEF PollOf, Sessions
<1>3. CASE Undo(r)
  BY <1>3, UndoPolls
<1>4. CASE PollLook(r)
  <2>1. PICK s \in Sessions :
           /\ sess[s].st = "pending"
           /\ \/ GivesBack(r, s, <<"expired">> \o IfNumbered(s, "ticket"))
              \/ req' = [req EXCEPT ![r].at = "ask", ![r].s = s]
    BY <1>4 DEF PollLook
  <2>2. CASE GivesBack(r, s, <<"expired">> \o IfNumbered(s, "ticket"))
    BY <2>1, <2>2, TodosDiffer, PollGivesBack
  <2>3. CASE req' = [req EXCEPT ![r].at = "ask", ![r].s = s]
    <3>1. req'[r].at = "ask" /\ req'[r].s = s
      BY <1>1, <2>3 DEF AskTyped, AskMemory
    <3>2. Steady(s)
      BY DEF AllSteady
    <3> QED BY <2>1, <3>1, <3>2 DEF PollOf, Steady, Checked
  <2> QED BY <2>1, <2>2, <2>3
<1>5. CASE PollAsk(r)
  <2>1. PICK s \in Sessions : s = req[r].s /\ sess[s].st # "none"
    BY <1>2, <1>5 DEF PollAsk, AtR
  <2>2. \/ Rest(r)
        \/ sess[s].answer = "cancel"
             /\ GivesBack(r, s, IfNumbered(s, "ticket") \o <<"cancelled">>)
        \/ GivesBack(r, s, <<"failed">>)
        \/ GivesBack(r, s, IfNumbered(s, "number") \o <<"failed">>)
        \/ sess[s].answer \in {"signed", "revoked"} /\ StepR(r, "consume")
    <3>1. sess[s].answer \in AllAnswers \union {"none"}
      BY DEF SessTyped, Session
    <3> QED BY <1>5, <2>1, <3>1 DEF PollAsk, AllAnswers
  <2>3. CASE Rest(r)
    BY <2>3, PollRests DEF Rest, AskTyped
  <2>4. CASE sess[s].answer = "cancel"
              /\ GivesBack(r, s, IfNumbered(s, "ticket") \o <<"cancelled">>)
    <3>1. Declined(s)
      BY <2>4 DEF Declined
    <3> QED BY <2>1, <2>4, <3>1, PollGivesBack
  <2>5. CASE GivesBack(r, s, <<"failed">>)
    BY <2>1, <2>5, TodosDiffer, PollGivesBack
  <2>6. CASE GivesBack(r, s, IfNumbered(s, "number") \o <<"failed">>)
    BY <2>1, <2>6, TodosDiffer, PollGivesBack
  <2>7. CASE sess[s].answer \in {"signed", "revoked"} /\ StepR(r, "consume")
    <3>1. Answered(req[r].s)
      BY <2>1, <2>7 DEF Answered
    <3> QED BY <1>1, <2>1, <2>7, <3>1, PollGoesOn
  <2> QED BY <2>2, <2>3, <2>4, <2>5, <2>6, <2>7
<1>6. CASE PollConsume(r)
  <2>1. req[r].s \in Sessions /\ Answered(req[r].s)
    BY <1>1, <1>2, <1>6 DEF PollConsume, AtR, PollOf, Checked
  <2>2. CASE Rest(r)
    BY <2>2, PollRests DEF Rest, AskTyped
  <2>3. CASE StepR(r, "cert") /\ sess' = [sess EXCEPT ![req[r].s].used = TRUE]
    <3>1. sess'[req[r].s].used
      BY <2>1, <2>3 DEF SessTyped, Session
    <3> QED BY <1>1, <2>1, <2>3, <3>1, PollGoesOn
  <2> QED BY <1>6, <2>2, <2>3 DEF PollConsume
<1>7. CASE PollCert(r) \/ PollConfirm(r) \/ PollSave(r) \/ PollEnqueue(r)
  <2>1. /\ req[r].s \in Sessions /\ sess[req[r].s].st # "none" /\ Answered(req[r].s)
        /\ sess[req[r].s].used
    BY <1>1, <1>2, <1>7 DEF PollCert, PollConfirm, PollSave, PollEnqueue, AtR, PollOf, Checked
  <2>2. \/ \E at \in {"confirm", "save", "enqueue", "completing"} : StepR(r, at)
        \/ GivesBack(r, req[r].s, IfNumbered(req[r].s, "number") \o <<"failed">>)
        \/ GivesBack(r, req[r].s, <<"failed">>)
    <3>1. sess[req[r].s].batch = 0
      BY <2>1 DEF Alone
    <3> QED BY <1>7, <3>1 DEF PollCert, AfterCert, PollConfirm, PollSave, PollEnqueue
  <2>3. CASE \E at \in {"confirm", "save", "enqueue", "completing"} : StepR(r, at)
    BY <1>1, <2>1, <2>3, PollGoesOn
  <2>4. CASE GivesBack(r, req[r].s, IfNumbered(req[r].s, "number") \o <<"failed">>)
    BY <2>1, <2>4, TodosDiffer, PollGivesBack
  <2>5. CASE GivesBack(r, req[r].s, <<"failed">>)
    BY <2>1, <2>5, TodosDiffer, PollGivesBack
  <2> QED BY <2>2, <2>3, <2>4, <2>5
<1>8. CASE PollConfirmFails(r) \/ PollSaveFails(r)
  <2>1. req[r].s \in Sessions /\ sess[req[r].s].st # "none"
    BY <1>2, <1>8 DEF PollConfirmFails, PollSaveFails, AtR
  <2>2. \/ GivesBack(r, req[r].s, IfNumbered(req[r].s, "ticket") \o <<"failed">>)
        \/ GivesBack(r, req[r].s, <<"failed">>)
    BY <1>8 DEF PollConfirmFails, PollSaveFails
  <2>3. CASE GivesBack(r, req[r].s, IfNumbered(req[r].s, "ticket") \o <<"failed">>)
    BY <2>1, <2>3, TodosDiffer, PollGivesBack
  <2>4. CASE GivesBack(r, req[r].s, <<"failed">>)
    BY <2>1, <2>4, TodosDiffer, PollGivesBack
  <2> QED BY <2>2, <2>3, <2>4
<1>9. CASE PollCompleting(r) \/ RequestDies(r) \/ RejectNumber(r)
  BY <1>9, PollRests DEF PollCompleting, RequestDies, RejectNumber, Rest, AskTyped
<1>10. CASE Cancel(r)
  <2>1. PICK s \in Sessions :
          /\ sess[s].st = "pending"
          /\ sess' = [Marked(s, {"pending"}, "cancelled") EXCEPT ![s].clean = TRUE]
          /\ req' = [req EXCEPT ![r].at = "clear", ![r].s = s]
    BY <1>10 DEF Cancel
  <2>2. req'[r].at = "clear" /\ req'[r].s = s
    BY <1>1, <2>1 DEF AskTyped, AskMemory
  <2>3. sess'[s].st = "cancelled"
    <3>1. Marked(s, {"pending"}, "cancelled")
            = [sess EXCEPT ![s].st = "cancelled", ![s].clean = TRUE]
      BY <2>1 DEF Marked, SessTyped, Session
    <3> QED BY <2>1, <3>1 DEF SessTyped, Session
  <2> QED BY <2>2, <2>3 DEF PollOf, Checked
<1>11. CASE CancelClear(r)
  <2>1. req[r].s \in Sessions /\ sess[req[r].s].st # "none"
    BY <1>2, <1>11 DEF CancelClear, AtR
  <2>2. Rest(r) \/ GivesBack(r, req[r].s, <<"ticket">>)
    BY <1>11 DEF CancelClear
  <2>3. CASE Rest(r)
    BY <2>3, PollRests DEF Rest, AskTyped
  <2>4. CASE GivesBack(r, req[r].s, <<"ticket">>)
    BY <2>1, <2>4, TodosDiffer, PollGivesBack
  <2> QED BY <2>2, <2>3, <2>4
<1>12. CASE Reject(r) \/ RejectTx(r) \/ RejectExpire(r)
  <2>1. CASE Rest(r)
    BY <2>1, PollRests DEF Rest, AskTyped
  <2>2. CASE \E at \in {"tx", "expire", "number"} : \E d :
               req' = [req EXCEPT ![r].at = at, ![r].d = d] \/ StepR(r, at)
    <3>1. PICK at \in {"tx", "expire", "number"} : req'[r].at = at /\ req'[r].s = req[r].s
      BY <1>1, <2>2 DEF StepR, AskTyped, AskMemory
    <3>2. CASE req[r].s = 0
      BY <3>1, <3>2 DEF PollOf, Checked
    <3>3. CASE req[r].s # 0
      <4>1. req[r].s \in Sessions
        BY <1>1, <3>3, DigitalAssumption DEF AskMemory, Sessions
      <4>2. Steady(req[r].s)
        BY <4>1 DEF AllSteady
      <4> QED BY <1>1, <3>1, <3>3, <4>2 DEF PollOf, Steady, Checked
    <3> QED BY <3>2, <3>3
  <2> QED BY <1>12, <2>1, <2>2 DEF Reject, RejectTx, RejectExpire
<1> QED BY <1>3, <1>4, <1>5, <1>6, <1>7, <1>8, <1>9, <1>10, <1>11, <1>12
        DEF AskNext, SessionGoes, PollGoes, RejectGoes

\* The job moves alone and never cancels.
LEMMA JobPolls ==
  ASSUME IInv, SInv, AllSteady, JobNext
  PROVE  PollOf(Job)' /\ \A q \in Requests : req'[q] = req[q]
<1> USE Typed DEF SInv
<1>1. Job \notin Requests /\ Job \in Requests \union {Job}
  BY DigitalAssumption
<1>2. CASE Undo(Job)
  BY <1>1, <1>2, UndoPolls, UndoAsks
<1>3. CASE OrphanLook
  <2>1. PICK s \in Sessions : sess[s].st = "pending" /\ GivesBack(Job, s, <<"expired">>)
    BY <1>3 DEF OrphanLook, Overdue
  <2>2. PollOf(Job)'
    BY <1>1, <2>1, TodosDiffer, PollGivesBack
  <2>3. \A q \in Requests : req'[q] = req[q]
    BY <1>1, <2>1 DEF GivesBack, AskTyped
  <2> QED BY <2>2, <2>3
<1>4. CASE RequestDies(Job)
  BY <1>1, <1>4, DiesAsks, PollRests
<1> QED BY <1>2, <1>3, <1>4 DEF JobNext

-----------------------------------------------------------------------------
(* What a step leaves of a number *)

\* The job of a document is the same one.
RowKept(d) == /\ row'[d].s = row[d].s /\ row'[d].tk = row[d].tk
              /\ row'[d].st = "none" <=> row[d].st = "none"
\* No job begins.
NoMoreBusy(d) == Busy(d)' => Busy(d)
\* A number that was confirmed is as it was.
OdKept(d) == od[d].st \in {"CONFIRMING", "CONFIRMED"} => od'[d] = od[d]
\* No request gets to save a PDF under a number.
Onward(r) == req'[r].at \in {"save", "enqueue"} =>
               /\ req'[r].s = req[r].s
               /\ req'[r].at = req[r].at \/ Doc(req[r].s) \notin Numbered

\* The session of a job.
LEMMA RowSession ==
  ASSUME IInv, Rows, NEW d \in Docs, row[d].st # "none"
  PROVE  /\ row[d].s \in Sessions /\ sess[row[d].s].st # "none" /\ Doc(row[d].s) = d
         /\ row[d].tk = sess[row[d].s].tk /\ sess[row[d].s].used /\ Answered(row[d].s)
BY DEF IInv, Closing, ClosingOf, Rows, RowOf

\* The job of a document stays that of its session.
LEMMA RowStays ==
  ASSUME IInv, Rows, AllSteady, NEW d \in Docs, RowKept(d)
  PROVE  RowOf(d)'
<1>1. CASE row[d].st = "none"
  BY <1>1 DEF RowOf, RowKept
<1>2. CASE row[d].st # "none"
  <2>1. /\ row[d].s \in Sessions /\ sess[row[d].s].st # "none" /\ Doc(row[d].s) = d
        /\ row[d].tk = sess[row[d].s].tk /\ sess[row[d].s].used /\ Answered(row[d].s)
    BY <1>2, RowSession
  <2>2. Steady(row[d].s)
    BY <2>1 DEF AllSteady
  <2> QED BY <2>1, <2>2 DEF RowOf, RowKept, Steady, Doc, Answered
<1> QED BY <1>1, <1>2

\* A job that goes on keeps its number and its PDF.
LEMMA BusyStays ==
  ASSUME NEW d \in Numbered, BusyOf(d), RowKept(d), NoMoreBusy(d),
         od'[d] = od[d] \/ od'[d] = [st |-> "CONFIRMED", tk |-> od[d].tk],
         saved'[d] \in {0, saved[d]}
  PROVE  BusyOf(d)'
BY DEF BusyOf, RowKept, NoMoreBusy

\* Who saves under a number after a step did so before it.
LEMMA SavesStays ==
  ASSUME IInv, Polls, AllSteady, IInv', NEW r \in Requests, Onward(r), NEW d \in Numbered,
         Saves(r, d)'
  PROVE  /\ Saves(r, d) /\ req'[r].s = req[r].s /\ req'[r].at = req[r].at
         /\ sess'[req[r].s].tk = sess[req[r].s].tk
<1>1. req'[r].s = req[r].s /\ req[r].s \in Sessions
  BY DEF Saves, Onward, IInv, Asks, AsksOf
<1>2. Steady(req[r].s) /\ sess[req[r].s].st # "none"
  BY <1>1, DigitalAssumption DEF AllSteady, Polls, PollOf, Sessions
<1> QED BY <1>1, <1>2 DEF Saves, Onward, Steady, Doc

\* The poll that confirmed a number is still alone with it.
LEMMA SavingStays ==
  ASSUME IInv, Polls, Saving, AllSteady, IInv', NEW d \in Numbered,
         \A r \in Requests : Saves(r, d)' => Onward(r),
         (\E r \in Requests : Saves(r, d)) =>
           /\ OdKept(d) /\ NoMoreBusy(d) /\ official'[d] = official[d]
           /\ saved'[d] = saved[d]
  PROVE  \A r \in Requests : SavingOf(r, d)'
<1> SUFFICES ASSUME NEW r \in Requests, Saves(r, d)'
             PROVE  SavingOf(r, d)'
  BY DEF SavingOf
<1>0. Onward(r)
  OBVIOUS
<1>1. /\ Saves(r, d) /\ req'[r].s = req[r].s /\ req'[r].at = req[r].at
      /\ sess'[req[r].s].tk = sess[req[r].s].tk
  BY <1>0, SavesStays
<1>2. SavingOf(r, d)
  BY DEF Saving
<1>3. /\ od[d] = [st |-> "CONFIRMING", tk |-> sess[req[r].s].tk]
      /\ ~Busy(d) /\ official[d] = 0
      /\ req[r].at = "enqueue" => saved[d] = req[r].s
      /\ \A q \in Requests : Saves(q, d) => q = r
  BY <1>1, <1>2 DEF SavingOf
<1>4. /\ od'[d] = od[d] /\ ~Busy(d)' /\ official'[d] = official[d] /\ saved'[d] = saved[d]
  BY <1>1, <1>3 DEF OdKept, NoMoreBusy
<1>5. ASSUME NEW q \in Requests, Saves(q, d)'
      PROVE  q = r
  <2>0. Onward(q)
    BY <1>5
  <2>1. Saves(q, d)
    BY <1>5, <2>0, SavesStays
  <2> QED BY <1>3, <2>1
<1>6. od'[d] = [st |-> "CONFIRMING", tk |-> sess'[req'[r].s].tk]
  BY <1>1, <1>3, <1>4
<1> QED BY <1>1, <1>3, <1>4, <1>5, <1>6 DEF SavingOf

\* A signature that counts is not taken back.
LEMMA KeptStays ==
  ASSUME AllSteady, NEW s \in Sessions, Kept(s)
  PROVE  Kept(s)'
<1>1. Steady(s)
  BY DEF AllSteady
<1> QED BY <1>1 DEF Steady, Kept

\* What the worker knows of a number stays while it does not move.
LEMMA CloserStays ==
  ASSUME IInv, Closers, AllSteady, NEW d \in Numbered, close'[d] = close[d],
         RowKept(d), official'[d] = official[d]
  PROVE  CloserOf(d)'
<1>1. CloserOf(d) /\ d \in Docs
  BY DigitalAssumption DEF Closers
<1>2. CASE close[d].at = "idle"
  BY <1>1, <1>2 DEF CloserOf
<1>3. CASE close[d].at # "idle"
  <2>1. row[d].s \in Sessions
    BY <1>1, <1>3 DEF IInv, Closing, ClosingOf
  <2>2. Kept(row[d].s) => Kept(row[d].s)'
    BY <2>1, KeptStays DEF RowKept, Kept
  <2> QED BY <1>1, <2>2 DEF CloserOf, RowKept
<1> QED BY <1>2, <1>3

\* An issued number stays issued to its session.
LEMMA IssuedStays ==
  ASSUME IInv, Issues, AllSteady, NEW d \in Docs, RowKept(d), official'[d] = official[d],
         official[d] # 0 => od'[d].st \in {"CONFIRMING", "CONFIRMED"}
  PROVE  IssuedOf(d)'
<1>1. IssuedOf(d)
  BY DEF Issues
<1>2. CASE official[d] = 0
  BY <1>2 DEF IssuedOf
<1>3. CASE official[d] # 0
  <2>1. row[d].s \in Sessions
    BY <1>1, <1>3 DEF IssuedOf, IInv, Closing, ClosingOf
  <2>2. sess'[row[d].s].used /\ sess'[row[d].s].answer \in {"signed", "revoked"}
        /\ sess'[row[d].s].st \notin {"none", "cancelled"}
    BY <1>1, <1>3, <2>1, KeptStays DEF IssuedOf, Kept
  <2> QED BY <1>1, <1>3, <2>2 DEF IssuedOf, RowKept, Kept
<1> QED BY <1>2, <1>3

\* Nobody is signed anew.
LEMMA SignsStay ==
  ASSUME IInv, Signs, Moves, \A d \in Numbered : official[d] # 0 => official'[d] = official[d]
  PROVE  Signs'
<1> SUFFICES ASSUME NEW s \in Sessions, sess'[s].st = "signed", sess'[s].d \in Numbered
             PROVE  official'[sess'[s].d] = s
  BY DEF Signs, SignedOf, Doc
<1>1. sess[s].st = "signed" /\ Steady(s)
  BY DEF Moves
<1>2. sess'[s].d = sess[s].d
  BY <1>1 DEF Steady
<1>3. official[sess[s].d] = s /\ s # 0
  BY <1>1, <1>2, DigitalAssumption DEF Signs, SignedOf, Doc, Sessions
<1> QED BY <1>2, <1>3

\* A step at which nothing becomes of a number but a reservation.
Quiet == /\ UNCHANGED <<official, close>>
         /\ \A d \in Docs : RowKept(d) /\ (InQueue(d)' => InQueue(d))
         /\ \A d \in Numbered : saved'[d] = saved[d] /\ OdKept(d)
         /\ \A r \in Requests : Onward(r)

\* Quiet steps keep all that is known of the numbers.
LEMMA QuietStep ==
  ASSUME IInv, SInv, IInv', Moves, Quiet
  PROVE  Numbers'
<1> USE DEF SInv, Numbers
<1>0. AllSteady
  BY DEF AllSteady, Moves
<1>1. Numbered \subseteq Docs
  BY DigitalAssumption
<1>2. \A d \in Docs : RowKept(d) /\ NoMoreBusy(d) /\ official'[d] = official[d]
  BY DEF Quiet, NoMoreBusy, Busy
<1>3. Rows'
  BY <1>0, <1>2, RowStays DEF Rows
<1>4. Busies'
  <2>1. ASSUME NEW d \in Numbered
        PROVE  BusyOf(d)'
    <3>1. BusyOf(d) /\ RowKept(d) /\ NoMoreBusy(d) /\ saved'[d] = saved[d] /\ OdKept(d)
      BY <1>1, <1>2 DEF Busies, Quiet
    <3>2. CASE Busy(d)
      <4>1. od'[d] = od[d]
        BY <3>1, <3>2 DEF BusyOf, OdKept
      <4> QED BY <3>1, <4>1, BusyStays
    <3>3. CASE ~Busy(d)
      BY <3>1, <3>3 DEF BusyOf, NoMoreBusy
    <3> QED BY <3>2, <3>3
  <2> QED BY <2>1 DEF Busies
<1>5. Saving'
  <2>1. ASSUME NEW d \in Numbered
        PROVE  \A r \in Requests : SavingOf(r, d)'
    <3>1. /\ OdKept(d) /\ NoMoreBusy(d) /\ official'[d] = official[d] /\ saved'[d] = saved[d]
          /\ \A r \in Requests : Onward(r)
      BY <1>1, <1>2 DEF Quiet
    <3> QED BY <1>0, <3>1, SavingStays
  <2> QED BY <2>1 DEF Saving
<1>6. Closers'
  <2>1. ASSUME NEW d \in Numbered
        PROVE  CloserOf(d)'
    BY <1>0, <1>1, <1>2, CloserStays DEF Quiet
  <2> QED BY <2>1 DEF Closers
<1>7. Issues'
  <2>1. ASSUME NEW d \in Docs
        PROVE  IssuedOf(d)'
    <3>1. official[d] # 0 => od'[d].st \in {"CONFIRMING", "CONFIRMED"}
      BY DEF Issues, IssuedOf, Quiet, OdKept
    <3> QED BY <1>0, <1>2, <3>1, IssuedStays
  <2> QED BY <2>1 DEF Issues
<1>8. Signs'
  BY <1>1, <1>2, SignsStay
<1> QED BY <1>3, <1>4, <1>5, <1>6, <1>7, <1>8

-----------------------------------------------------------------------------
(* The steps, and what becomes of the numbers *)

\* To open a session is quiet: a reservation replaces no confirmed number.
LEMMA OpenQuiet ==
  ASSUME IInv, Alone, NEW o \in Openers, OpenNext(o)
  PROVE  Quiet
<1>1. UNCHANGED <<fall, req, close, saved, official, row>>
  BY OpenAlone
<1>2. \A d \in Docs : od[d].st \in {"CONFIRMING", "CONFIRMED"} => od'[d] = od[d]
  BY OpenerTypes
<1> QED BY <1>1, <1>2, DigitalAssumption DEF Quiet, RowKept, InQueue, OdKept, Onward

\* A step of nobody who signs.
LEMMA StillQuiet ==
  ASSUME UNCHANGED <<official, close, row, saved, od>>, \A r \in Requests : req'[r] = req[r]
  PROVE  Quiet
BY DEF Quiet, RowKept, InQueue, OdKept, Onward

\* A cancellation without a ticket, or of what is RESERVED.
CancelsReserved == \/ UNCHANGED od
                   \/ \E d : CancelNumber(d)
                   \/ \E d : \E tk : CancelTicket(d, tk, {"RESERVED"})

\* Such a cancellation touches no number that was confirmed.
LEMMA CancelsQuietly ==
  ASSUME DocumentTyped, CancelsReserved
  PROVE  \A d \in Docs : OdKept(d)
<1>1. CASE UNCHANGED od
  BY <1>1 DEF OdKept
<1>2. CASE \E d : CancelNumber(d)
  BY <1>2 DEF CancelNumber, OdKept, DocumentTyped
<1>3. CASE \E d : \E tk : CancelTicket(d, tk, {"RESERVED"})
  BY <1>3 DEF CancelTicket, OdKept, DocumentTyped
<1> QED BY <1>1, <1>2, <1>3 DEF CancelsReserved

\* What polls take back by ticket is RESERVED.
LEMMA UndoCancels ==
  ASSUME NEW r \in Requests \union {Job}, Undo(r)
  PROVE  CancelsReserved
<1>1. \/ CancelTicket(Doc(req[r].s), sess[req[r].s].tk, {"RESERVED"})
      \/ CancelNumber(Doc(req[r].s))
      \/ UNCHANGED od
  BY DEF Undo
<1> QED BY <1>1 DEF CancelsReserved

\* The job is quiet.
LEMMA JobQuiet ==
  ASSUME IInv, SInv, AllSteady, JobNext
  PROVE  Quiet
<1>1. \A q \in Requests : req'[q] = req[q]
  BY JobPolls
<1>2. UNCHANGED <<official, close, row, saved>>
  BY DEF JobNext, OrphanLook, Undo, RequestDies, ReqKeeps, others
<1>3. CancelsReserved
  BY UndoCancels DEF JobNext, OrphanLook, RequestDies, CancelsReserved
<1>4. \A d \in Docs : OdKept(d)
  BY <1>3, Typed, CancelsQuietly
<1> QED BY <1>1, <1>2, <1>4, DigitalAssumption DEF Quiet, RowKept, InQueue, Onward

\* A poll that confirms a number, saves a PDF or asks for its closing.
Commits(r) == \/ PollConfirm(r) /\ Confirms(Doc(req[r].s), sess[req[r].s].tk)
              \/ PollSave(r) \/ PollEnqueue(r)

\* Polls, cancellations and rejections are quiet, but for three steps of a poll.
LEMMA AskQuiet ==
  ASSUME IInv, SInv, NEW r \in Requests, AskNext(r), ~Commits(r)
  PROVE  Quiet
<1> USE Typed DEF SInv
<1>1. /\ \A q \in Requests \union {Job} : q # r => req'[q] = req[q]
      /\ req'[r].at \in {"save", "enqueue"} => PollCert(r) \/ PollConfirm(r)
      /\ UNCHANGED <<open, close, fall, official>>
  BY AskAlone DEF Commits
<1>2. UNCHANGED saved
  BY DEF AskNext, Commits, PollLook, SessionGoes, PollGoes, PollAsk, PollConsume, PollCert,
         PollConfirm, PollCompleting, Undo, CancelClear, RejectGoes, RejectTx, RejectExpire,
         RejectNumber, Cancel, Reject, PollConfirmFails, PollSaveFails, RequestDies,
         RejectKeeps, results
<1>3. CancelsReserved
  <2>1. CASE Undo(r)
    BY <2>1, UndoCancels
  <2>2. CASE ~Undo(r)
    <3>1. \/ UNCHANGED od
          \/ CancelNumber(req[r].d)
          \/ CancelTicket(Doc(req[r].s), sess[req[r].s].tk, {"RESERVED"})
      BY <2>2 DEF AskNext, Commits, PollLook, SessionGoes, PollGoes, PollAsk, PollConsume,
         PollCert, PollConfirm, PollCompleting, CancelClear, RejectGoes, RejectTx,
         RejectExpire, RejectNumber, Cancel, Reject, PollConfirmFails, PollSaveFails,
         RequestDies, document
    <3> QED BY <3>1 DEF CancelsReserved
  <2> QED BY <2>1, <2>2
<1>4. \A d \in Docs : OdKept(d)
  BY <1>3, CancelsQuietly
<1>5. \A d \in Docs : RowKept(d) /\ (InQueue(d)' => InQueue(d))
  <2>1. CASE RejectExpire(r)
    <3>1. row' = IF InQueue(req[r].d) THEN [row EXCEPT ![req[r].d].st = "expired"] ELSE row
      BY <2>1 DEF RejectExpire
    <3> QED BY <3>1 DEF RowKept, InQueue, DocumentTyped, QueueRow
  <2>2. CASE UNCHANGED row
    BY <2>2 DEF RowKept, InQueue
  <2>3. RejectExpire(r) \/ UNCHANGED row
    BY DEF AskNext, Commits, PollLook, SessionGoes, PollGoes, PollAsk, PollConsume, PollCert,
         PollConfirm, PollCompleting, Undo, CancelClear, RejectGoes, RejectTx,
         RejectNumber, Cancel, Reject, PollConfirmFails, PollSaveFails, RequestDies
  <2> QED BY <2>1, <2>2, <2>3
<1>6. Onward(r)
  <2>1. CASE PollCert(r)
    <3>1. CASE StepR(r, AfterCert(req[r].s))
      <4>1. req'[r].at = AfterCert(req[r].s) /\ req'[r].s = req[r].s
        BY <3>1 DEF StepR, AskTyped, AskMemory
      <4> QED BY <4>1 DEF AfterCert, Onward
    <3>2. CASE \E todo : GivesBack(r, req[r].s, todo)
      BY <3>2 DEF GivesBack, Onward, AskTyped, Resting
    <3> QED BY <2>1, <3>1, <3>2 DEF PollCert
  <2>2. CASE PollConfirm(r)
    <3>1. GivesBack(r, req[r].s, <<"failed">>)
      BY <2>2 DEF PollConfirm, Commits
    <3> QED BY <3>1 DEF GivesBack, Onward, AskTyped, Resting
  <2> QED BY <1>1, <2>1, <2>2 DEF Onward
<1>7. \A q \in Requests : Onward(q)
  BY <1>1, <1>6 DEF Onward
<1> QED BY <1>1, <1>2, <1>4, <1>5, <1>7, DigitalAssumption DEF Quiet

\* A request moves alone, and who saves under a number saves as before.
LEMMA OthersOnward ==
  ASSUME NEW r \in Requests, \A q \in Requests \union {Job} : q # r => req'[q] = req[q],
         NEW q \in Requests, q # r
  PROVE  Onward(q)
BY DEF Onward

\* confirm_number: nobody else has the number, and nobody had it issued.
LEMMA ConfirmNumbers ==
  ASSUME IInv, SInv, IInv', Moves, NEW r \in Requests, AskNext(r), PollConfirm(r),
         Confirms(Doc(req[r].s), sess[req[r].s].tk)
  PROVE  Numbers'
<1> USE Typed DEF SInv, Numbers
<1>0. AllSteady
  BY DEF AllSteady, Moves
<1>1. PICK s \in Sessions : s = req[r].s /\ sess[s].st # "none"
  <2>1. req[r].s \in Sessions
    BY DEF PollConfirm, AtR, IInv, Asks, AsksOf
  <2>2. req[r].s # 0
    BY <2>1, DigitalAssumption DEF Sessions
  <2> QED BY <2>1, <2>2 DEF Polls, PollOf
<1>2. PICK c : c = Doc(s)
  OBVIOUS
<1>3. /\ od[c].st = "RESERVED" /\ od[c].tk = sess[s].tk
      /\ od' = [od EXCEPT ![c].st = "CONFIRMING"]
      /\ StepR(r, "save")
      /\ UNCHANGED <<saved, row, official, close>>
  BY <1>1, <1>2 DEF PollConfirm, Confirms, Holds, ReqKeeps, others
<1>4. /\ req'[r].at = "save" /\ req'[r].s = s
      /\ \A q \in Requests \union {Job} : q # r => req'[q] = req[q]
      /\ req[r].at = "confirm"
  BY <1>1, <1>3 DEF StepR, AskTyped, AskMemory, PollConfirm, AtR
<1>5. \A d \in Docs : d # c => od'[d] = od[d]
  BY <1>3 DEF DocumentTyped
<1>6. /\ sess'[s].d = c /\ sess'[s].tk = sess[s].tk
  BY <1>0, <1>1, <1>2 DEF AllSteady, Steady, Doc
<1>7. c \notin Numbered => Quiet
  <2> SUFFICES ASSUME c \notin Numbered PROVE Quiet
    OBVIOUS
  <2>1. Onward(r)
    BY <1>1, <1>2, <1>4 DEF Onward
  <2>2. \A q \in Requests : Onward(q)
    BY <1>4, <2>1, OthersOnward
  <2>3. \A d \in Numbered : OdKept(d)
    BY <1>5, DigitalAssumption DEF OdKept
  <2> QED BY <1>3, <2>2, <2>3 DEF Quiet, RowKept, InQueue
<1>8. CASE c \notin Numbered
  BY <1>7, <1>8, QuietStep
<1>9. CASE c \in Numbered
  <2>0. c \in Docs /\ Numbered \subseteq Docs
    BY <1>9, DigitalAssumption
  <2>1. ~Busy(c) /\ official[c] = 0 /\ \A q \in Requests : ~Saves(q, c)
    <3>1. ~Busy(c) /\ official[c] = 0
      BY <1>3, <1>9, <2>0 DEF Busies, BusyOf, Issues, IssuedOf
    <3>2. ASSUME NEW q \in Requests, Saves(q, c) PROVE FALSE
      <4>1. od[c] = [st |-> "CONFIRMING", tk |-> sess[req[q].s].tk]
        BY <1>9, <3>2 DEF Saving, SavingOf
      <4> QED BY <1>3, <4>1
    <3> QED BY <3>1, <3>2
  <2>2. od'[c] = [st |-> "CONFIRMING", tk |-> sess[s].tk]
    <3>1. od[c] \in Number
      BY <2>0 DEF DocumentTyped
    <3> QED BY <1>3, <2>0, <3>1 DEF DocumentTyped, Number
  <2>3. \A d \in Docs : RowKept(d) /\ NoMoreBusy(d)
    BY <1>3 DEF RowKept, NoMoreBusy, Busy, InQueue
  <2>4. Rows'
    BY <1>0, <2>3, RowStays DEF Rows
  <2>5. Busies'
    <3>1. ASSUME NEW d \in Numbered PROVE BusyOf(d)'
      <4>1. CASE d = c
        BY <2>0, <2>1, <2>3, <4>1 DEF BusyOf, NoMoreBusy
      <4>2. CASE d # c
        BY <1>3, <1>5, <2>0, <2>3, <4>2, BusyStays DEF Busies
      <4> QED BY <4>1, <4>2
    <3> QED BY <3>1 DEF Busies
  <2>6. Saving'
    <3>1. ASSUME NEW d \in Numbered, d # c
          PROVE  \A q \in Requests : SavingOf(q, d)'
      <4>1. ~Saves(r, d)'
        BY <1>4, <1>6, <3>1 DEF Saves, Doc
      <4>2. \A q \in Requests : Saves(q, d)' => Onward(q)
        BY <1>4, <4>1 DEF Onward
      <4>3. OdKept(d) /\ NoMoreBusy(d) /\ official'[d] = official[d] /\ saved'[d] = saved[d]
        BY <1>3, <1>5, <2>0, <2>3, <3>1 DEF OdKept
      <4> QED BY <1>0, <4>2, <4>3, SavingStays
    <3>2. ASSUME NEW q \in Requests, Saves(q, c)'
          PROVE  q = r
      <4>1. SUFFICES ASSUME q # r PROVE FALSE
        OBVIOUS
      <4>2. Onward(q)
        BY <1>4, <4>1 DEF Onward
      <4>3. Saves(q, c)
        BY <1>0, <1>9, <3>2, <4>2, SavesStays
      <4> QED BY <2>1, <4>3
    <3>3. SavingOf(r, c)'
      <4>1. ~Busy(c)' /\ official'[c] = 0
        BY <1>3, <2>0, <2>1, <2>3 DEF NoMoreBusy
      <4>2. od'[c] = [st |-> "CONFIRMING", tk |-> sess'[req'[r].s].tk]
        BY <1>4, <1>6, <2>2
      <4> QED BY <1>4, <3>2, <4>1, <4>2 DEF SavingOf
    <3>4. \A q \in Requests : SavingOf(q, c)'
      BY <3>2, <3>3 DEF SavingOf
    <3> QED BY <3>1, <3>4 DEF Saving
  <2>7. Closers'
    BY <1>0, <1>3, <2>0, <2>3, CloserStays DEF Closers
  <2>8. Issues'
    <3>1. ASSUME NEW d \in Docs PROVE IssuedOf(d)'
      <4>1. official[d] # 0 => od'[d].st \in {"CONFIRMING", "CONFIRMED"}
        BY <1>5, <2>1 DEF Issues, IssuedOf
      <4> QED BY <1>0, <1>3, <2>3, <4>1, IssuedStays
    <3> QED BY <3>1 DEF Issues
  <2>9. Signs'
    BY <1>3, SignsStay
  <2> QED BY <2>4, <2>5, <2>6, <2>7, <2>8, <2>9
<1> QED BY <1>8, <1>9

\* guardar_pdf_firmado: the PDF of the one who confirmed the number.
LEMMA SaveNumbers ==
  ASSUME IInv, SInv, IInv', Moves, NEW r \in Requests, AskNext(r), PollSave(r)
  PROVE  Numbers'
<1> USE Typed DEF SInv, Numbers
<1>0. AllSteady
  BY DEF AllSteady, Moves
<1>1. PICK s \in Sessions : s = req[r].s /\ sess[s].st # "none"
  <2>1. req[r].s \in Sessions
    BY DEF PollSave, AtR, IInv, Asks, AsksOf
  <2>2. req[r].s # 0
    BY <2>1, DigitalAssumption DEF Sessions
  <2> QED BY <2>1, <2>2 DEF Polls, PollOf
<1>2. PICK c : c = Doc(s)
  OBVIOUS
<1>3. /\ saved' = [saved EXCEPT ![c] = s]
      /\ StepR(r, "enqueue")
      /\ UNCHANGED <<od, row, official, close>>
  BY <1>1, <1>2 DEF PollSave, ReqKeeps, others, Alone
<1>4. /\ req'[r].at = "enqueue" /\ req'[r].s = s
      /\ \A q \in Requests \union {Job} : q # r => req'[q] = req[q]
      /\ req[r].at = "save"
  BY <1>1, <1>3 DEF StepR, AskTyped, AskMemory, PollSave, AtR
<1>5. \A d \in Docs : d # c => saved'[d] = saved[d]
  BY <1>3 DEF DocumentTyped
<1>6. /\ sess'[s].d = c /\ sess'[s].tk = sess[s].tk
  BY <1>0, <1>1, <1>2 DEF AllSteady, Steady, Doc
<1>7. c \notin Numbered => Quiet
  <2> SUFFICES ASSUME c \notin Numbered PROVE Quiet
    OBVIOUS
  <2>1. Onward(r)
    BY <1>1, <1>2, <1>4 DEF Onward
  <2>2. \A q \in Requests : Onward(q)
    BY <1>4, <2>1, OthersOnward
  <2>3. \A d \in Numbered : saved'[d] = saved[d] /\ OdKept(d)
    BY <1>3, <1>5, DigitalAssumption DEF OdKept
  <2> QED BY <1>3, <2>2, <2>3 DEF Quiet, RowKept, InQueue
<1>8. CASE c \notin Numbered
  BY <1>7, <1>8, QuietStep
<1>9. CASE c \in Numbered
  <2>0. c \in Docs /\ Numbered \subseteq Docs
    BY <1>9, DigitalAssumption
  <2>1. Saves(r, c)
    BY <1>1, <1>2, <1>4 DEF Saves
  <2>2. /\ od[c] = [st |-> "CONFIRMING", tk |-> sess[s].tk]
        /\ ~Busy(c) /\ official[c] = 0
        /\ \A q \in Requests : Saves(q, c) => q = r
    BY <1>1, <1>9, <2>1 DEF Saving, SavingOf
  <2>3. \A d \in Docs : RowKept(d) /\ NoMoreBusy(d)
    BY <1>3 DEF RowKept, NoMoreBusy, Busy, InQueue
  <2>4. Rows'
    BY <1>0, <2>3, RowStays DEF Rows
  <2>5. Busies'
    <3>1. ASSUME NEW d \in Numbered PROVE BusyOf(d)'
      <4>1. CASE d = c
        BY <2>0, <2>2, <2>3, <4>1 DEF BusyOf, NoMoreBusy
      <4>2. CASE d # c
        BY <1>3, <1>5, <2>0, <2>3, <4>2, BusyStays DEF Busies
      <4> QED BY <4>1, <4>2
    <3> QED BY <3>1 DEF Busies
  <2>6. Saving'
    <3>1. ASSUME NEW d \in Numbered, d # c
          PROVE  \A q \in Requests : SavingOf(q, d)'
      <4>1. ~Saves(r, d)'
        BY <1>4, <1>6, <3>1 DEF Saves, Doc
      <4>2. \A q \in Requests : Saves(q, d)' => Onward(q)
        BY <1>4, <4>1 DEF Onward
      <4>3. OdKept(d) /\ NoMoreBusy(d) /\ official'[d] = official[d] /\ saved'[d] = saved[d]
        BY <1>3, <1>5, <2>0, <2>3, <3>1 DEF OdKept
      <4> QED BY <1>0, <4>2, <4>3, SavingStays
    <3>2. ASSUME NEW q \in Requests, Saves(q, c)'
          PROVE  q = r
      <4>1. SUFFICES ASSUME q # r PROVE FALSE
        OBVIOUS
      <4>2. Onward(q)
        BY <1>4, <4>1 DEF Onward
      <4>3. Saves(q, c)
        BY <1>0, <1>9, <3>2, <4>2, SavesStays
      <4> QED BY <2>2, <4>1, <4>3
    <3>3. SavingOf(r, c)'
      <4>1. ~Busy(c)' /\ official'[c] = 0
        BY <1>3, <2>0, <2>2, <2>3 DEF NoMoreBusy
      <4>2. od'[c] = [st |-> "CONFIRMING", tk |-> sess'[req'[r].s].tk]
        BY <1>3, <1>4, <1>6, <2>2
      <4>3. saved'[c] = req'[r].s
        BY <1>3, <1>4, <2>0 DEF DocumentTyped
      <4> QED BY <3>2, <4>1, <4>2, <4>3 DEF SavingOf
    <3>4. \A q \in Requests : SavingOf(q, c)'
      BY <3>2, <3>3 DEF SavingOf
    <3> QED BY <3>1, <3>4 DEF Saving
  <2>7. Closers'
    BY <1>0, <1>3, <2>0, <2>3, CloserStays DEF Closers
  <2>8. Issues'
    <3>1. ASSUME NEW d \in Docs PROVE IssuedOf(d)'
      <4>1. official[d] # 0 => od'[d].st \in {"CONFIRMING", "CONFIRMED"}
        BY <1>3 DEF Issues, IssuedOf
      <4> QED BY <1>0, <1>3, <2>3, <4>1, IssuedStays
    <3> QED BY <3>1 DEF Issues
  <2>9. Signs'
    BY <1>3, SignsStay
  <2> QED BY <2>4, <2>5, <2>6, <2>7, <2>8, <2>9
<1> QED BY <1>8, <1>9

\* encolar_cierre_digital: the job is that of the session with the number.
LEMMA EnqueueNumbers ==
  ASSUME IInv, SInv, IInv', Moves, NEW r \in Requests, AskNext(r), PollEnqueue(r)
  PROVE  Numbers'
<1> USE Typed DEF SInv, Numbers
<1>0. AllSteady
  BY DEF AllSteady, Moves
<1>1. PICK s \in Sessions : /\ s = req[r].s /\ sess[s].st # "none" /\ sess[s].used
                            /\ Answered(s)
  <2>1. req[r].s \in Sessions /\ req[r].at = "enqueue"
    BY DEF PollEnqueue, AtR, IInv, Asks, AsksOf
  <2>2. req[r].s # 0
    BY <2>1, DigitalAssumption DEF Sessions
  <2> QED BY <2>1, <2>2 DEF Polls, PollOf, Checked
<1>2. PICK c : c = Doc(s)
  OBVIOUS
<1>3. /\ Encolar(s) /\ StepR(r, "completing")
      /\ UNCHANGED <<od, saved, sess, official, close>>
  BY <1>1 DEF PollEnqueue, ReqKeeps, others
<1>4. /\ req'[r].at = "completing" /\ req'[r].s = s
      /\ \A q \in Requests \union {Job} : q # r => req'[q] = req[q]
      /\ req[r].at = "enqueue"
  BY <1>1, <1>3 DEF StepR, AskTyped, AskMemory, PollEnqueue, AtR
<1>5. /\ row' \in [Docs -> QueueRow]
      /\ \A d \in Docs : row'[d] # row[d] =>
           /\ ~InQueue(d) /\ d = c
           /\ row'[d] = [st |-> "pending", s |-> s, tk |-> sess[s].tk]
  BY <1>2, <1>3, EncolarMoves
<1>6. \A q \in Requests : Onward(q)
  BY <1>4 DEF Onward
<1>7. \A d \in Docs : d # c => RowKept(d) /\ NoMoreBusy(d)
  BY <1>3, <1>5 DEF RowKept, NoMoreBusy, Busy, InQueue
<1>8. ~Saves(r, c)' /\ Saves(r, c)
  BY <1>1, <1>2, <1>4 DEF Saves
<1>9. c \in Numbered =>
        /\ od[c] = [st |-> "CONFIRMING", tk |-> sess[s].tk]
        /\ ~Busy(c) /\ official[c] = 0 /\ saved[c] = s
        /\ \A q \in Requests : Saves(q, c) => q = r
  BY <1>1, <1>4, <1>8 DEF Saving, SavingOf
<1>10. /\ c \in Numbered => row'[c] = [st |-> "pending", s |-> s, tk |-> sess[s].tk]
  <2>1. c \in Numbered => row' = [row EXCEPT ![c] = [st |-> "pending", s |-> s,
                                                      tk |-> sess[s].tk]]
    BY <1>2, <1>3, <1>9 DEF Encolar, Busy
  <2> QED BY <2>1, DigitalAssumption DEF DocumentTyped
<1>11. Rows'
  <2>1. ASSUME NEW d \in Docs PROVE RowOf(d)'
    <3>1. CASE row'[d] = row[d]
      <4>1. RowKept(d)
        BY <3>1 DEF RowKept
      <4> QED BY <1>0, <4>1, RowStays
    <3>2. CASE row'[d] # row[d]
      BY <1>1, <1>2, <1>3, <1>5, <3>2 DEF RowOf, Doc, Answered
    <3> QED BY <3>1, <3>2
  <2> QED BY <2>1 DEF Rows
<1>12. Busies'
  <2>1. ASSUME NEW d \in Numbered PROVE BusyOf(d)'
    <3>1. d \in Docs
      BY DigitalAssumption
    <3>2. CASE d = c
      BY <1>3, <1>9, <1>10, <3>2 DEF BusyOf
    <3>3. CASE d # c
      BY <1>3, <1>7, <3>1, <3>3, BusyStays DEF Busies
    <3> QED BY <3>2, <3>3
  <2> QED BY <2>1 DEF Busies
<1>13. Saving'
  <2>1. ASSUME NEW d \in Numbered, d # c
        PROVE  \A q \in Requests : SavingOf(q, d)'
    <3>1. OdKept(d) /\ NoMoreBusy(d) /\ official'[d] = official[d] /\ saved'[d] = saved[d]
      BY <1>3, <1>7, <2>1, DigitalAssumption DEF OdKept
    <3> QED BY <1>0, <1>6, <3>1, SavingStays
  <2>2. ASSUME c \in Numbered, NEW q \in Requests
        PROVE  ~Saves(q, c)'
    <3>1. Saves(q, c)' => Saves(q, c)
      BY <1>0, <1>6, <2>2, SavesStays
    <3> QED BY <1>8, <1>9, <2>2, <3>1
  <2> QED BY <2>1, <2>2 DEF Saving, SavingOf
<1>14. Closers'
  <2>1. ASSUME NEW d \in Numbered PROVE CloserOf(d)'
    <3>1. d \in Docs
      BY DigitalAssumption
    <3>2. CASE d = c
      BY <1>3, <1>9, <3>2 DEF Closers, CloserOf, Busy
    <3>3. CASE d # c
      BY <1>0, <1>3, <1>7, <3>1, <3>3, CloserStays
    <3> QED BY <3>2, <3>3
  <2> QED BY <2>1 DEF Closers
<1>15. Issues'
  <2>1. ASSUME NEW d \in Docs PROVE IssuedOf(d)'
    <3>1. CASE official[d] = 0
      BY <1>3, <3>1 DEF IssuedOf
    <3>2. CASE official[d] # 0
      <4>1. d \in Numbered /\ od[d].st \in {"CONFIRMING", "CONFIRMED"}
        BY <3>2 DEF Issues, IssuedOf
      <4>2. d # c
        BY <1>9, <3>2, <4>1
      <4> QED BY <1>0, <1>3, <1>7, <4>1, <4>2, IssuedStays
    <3> QED BY <3>1, <3>2
  <2> QED BY <2>1 DEF Issues
<1>16. Signs'
  BY <1>3, SignsStay
<1> QED BY <1>11, <1>12, <1>13, <1>14, <1>15, <1>16

-----------------------------------------------------------------------------
(* The worker *)

\* How a step of the worker goes on.
LEMMA CloserGoes ==
  ASSUME IInv, SInv, AllSteady, NEW d \in Numbered, EndNext(d), RowKept(d)
  PROVE  CloserOf(d)'
<1> USE Typed DEF SInv, Numbers
<1>0. /\ d \in Docs /\ CloserOf(d) /\ BusyOf(d)
  BY DigitalAssumption DEF Closers, Busies
<1>1. RowKept(d)
  OBVIOUS
<1>2. row[d].st # "none" =>
        /\ row[d].s \in Sessions /\ sess[row[d].s].used /\ Answered(row[d].s)
        /\ sess[row[d].s].st # "none"
  BY <1>0, RowSession
<1>3. ASSUME Kept(row[d].s), row[d].st # "none"
      PROVE  Kept(row[d].s)'
  <2>1. Kept(row[d].s) /\ row[d].s \in Sessions
    BY <1>2, <1>3
  <2>2. PICK s \in Sessions : s = row[d].s
    BY <2>1
  <2>3. Kept(s)'
    BY <2>1, <2>2, KeptStays
  <2> QED BY <1>1, <2>2, <2>3 DEF RowKept, Kept
<1>4. close[d].at # "idle" => row[d].st # "none"
  BY <1>0 DEF IInv, Closing, ClosingOf
<1>5. CASE Claim(d)
  <2>1. close'[d].at = "check" /\ close'[d].pdf = close[d].pdf /\ close[d].at = "idle"
    BY <1>0, <1>5, CloseGoesOn DEF Claim, AtC
  <2> QED BY <1>0, <2>1 DEF CloserOf
<1>6. CASE CloseCheck(d) \/ CloseRead(d)
  <2>1. close[d].at \in {"check", "read"} /\ row[d].st # "none"
    BY <1>4, <1>6 DEF CloseCheck, CloseRead, AtC
  <2>2. CASE \E why \in {"stale", "lost"} : Fails(d, why)
    <3>1. close'[d].at = "fail" /\ close'[d].pdf = close[d].pdf
      BY <1>0, <2>2, CloseGoesWrong
    <3> QED BY <1>0, <1>1, <3>1 DEF CloserOf, RowKept
  <2>3. CASE CloseCheck(d) /\ MayClose(Own(d)) /\ StepC(d, "read")
    <3>1. close'[d].at = "read" /\ close'[d].pdf = close[d].pdf
      BY <1>0, <2>3, CloseGoesOn
    <3>2. Kept(row[d].s)
      BY <1>2, <2>1, <2>3 DEF MayClose, Own, Kept, Answered
    <3>3. Kept(row[d].s)'
      BY <1>3, <2>1, <3>2
    <3> QED BY <1>0, <1>1, <3>1, <3>3 DEF CloserOf, RowKept
  <2>4. CASE CloseRead(d) /\ close' = [close EXCEPT ![d].pdf = saved[d], ![d].at = "upload"]
             /\ saved[d] # 0
    <3>1. close'[d].at = "upload" /\ close'[d].pdf = saved[d]
      BY <1>0, <2>4 DEF CloseTyped, CloseMemory
    <3>2. close[d].at = "read"
      BY <2>4 DEF CloseRead, AtC
    <3>3. saved[d] = row[d].s /\ Kept(row[d].s)
      BY <1>0, <2>4, <3>2 DEF CloserOf, BusyOf, Busy
    <3>4. Kept(row[d].s)'
      BY <1>3, <2>1, <3>3
    <3> QED BY <1>1, <3>1, <3>3, <3>4 DEF CloserOf, RowKept
  <2> QED BY <1>6, <2>2, <2>3, <2>4 DEF CloseCheck, CloseRead
<1>7. CASE CloseUpload(d)
  <2>1. close'[d].at = "finalize" /\ close'[d].pdf = close[d].pdf /\ close[d].at = "upload"
    BY <1>0, <1>7, CloseGoesOn DEF CloseUpload, AtC
  <2>2. close[d].pdf # 0 /\ official'[d] = close[d].pdf
    BY <1>0, <1>7, <2>1 DEF CloseUpload, IInv, Closing, ClosingOf, DocumentTyped
  <2>3. close[d].pdf = row[d].s /\ Kept(row[d].s)
    BY <1>0, <2>1, <2>2 DEF CloserOf
  <2>4. Kept(row[d].s)'
    BY <1>3, <1>4, <2>1, <2>3
  <2> QED BY <1>1, <2>1, <2>2, <2>3, <2>4 DEF CloserOf, RowKept
<1>8. CASE CloseUploadFails(d) \/ FailRow(d)
  <2>1. (\E why \in {"upload"} : Fails(d, why)) \/ StepC(d, "failed")
    BY <1>8 DEF CloseUploadFails, FailRow
  <2>2. close'[d].at \in {"fail", "failed"} /\ close'[d].pdf = close[d].pdf
    BY <1>0, <2>1, CloseGoesOn, CloseGoesWrong
  <2> QED BY <1>0, <1>1, <2>2 DEF CloserOf, RowKept
<1>9. CASE CloseRow(d) \/ WorkerDies(d) \/ FailSession(d)
  <2>1. FailSession(d) => sess[row[d].s].batch = 0
    BY <1>2, <1>4 DEF FailSession, AtC, Alone
  <2>2. close' = [close EXCEPT ![d] = Asleep]
    BY <1>9, <2>1 DEF CloseRow, WorkerDies, FailSession, Own
  <2>3. close'[d] = Asleep
    BY <1>0, <2>2, CloseEnds
  <2> QED BY <2>3 DEF CloserOf, Asleep
<1>10. CASE \/ CloseFinalize(d) \/ CloseDraft(d) \/ CloseGivesUp(d) \/ CloseSettle(d)
            \/ CloseSigner(d) \/ CloseMarkSigned(d) \/ CloseTidy(d)
  <2>1. /\ close[d].at \in {"finalize", "draft", "settle", "signer", "mark", "tidy"}
        /\ UNCHANGED official
        /\ \E at \in {"draft", "settle", "signer", "mark", "tidy", "row"} : StepC(d, at)
    BY <1>10 DEF CloseFinalize, CloseDraft, CloseGivesUp, CloseSettle, CloseSigner,
             CloseMarkSigned, CloseTidy, AtC
  <2>2. /\ close'[d].at \in {"draft", "settle", "signer", "mark", "tidy", "row"}
        /\ close'[d].pdf = close[d].pdf
    BY <1>0, <2>1, CloseGoesOn
  <2>3. Kept(row[d].s) /\ official[d] = row[d].s
    BY <1>0, <2>1 DEF CloserOf
  <2>4. Kept(row[d].s)'
    BY <1>3, <1>4, <2>1, <2>3
  <2> QED BY <1>0, <1>1, <2>1, <2>2, <2>3, <2>4 DEF CloserOf, RowKept
<1>11. ~ClosePut(d)
  BY <1>0 DEF ClosePut, AtC, CloserOf
<1> QED BY <1>5, <1>6, <1>7, <1>8, <1>9, <1>10, <1>11
        DEF EndNext, CloseNext, CloseGoes, CloseFaults

\* What a step of the worker leaves of the job and of the PDF that was saved.
LEMMA EndRows ==
  ASSUME IInv, NEW d \in Docs, EndNext(d)
  PROVE  /\ \A e \in Docs : RowKept(e)
         /\ \A e \in Docs : e # d => (InQueue(e)' => InQueue(e)) /\ saved'[e] = saved[e]
         /\ Busy(d) /\ saved'[d] \in {0, saved[d]}
<1> USE Typed
<1>1. \/ UNCHANGED row
      \/ \E st \in {"processing", "signed", "failed"} :
           row[d].st \in {"pending", "processing"} /\ row' = [row EXCEPT ![d].st = st]
  BY DEF EndNext, CloseNext, CloseGoes, CloseFaults, Claim, CloseCheck, CloseRead, CloseUpload,
         CloseFinalize, CloseDraft, ClosePut, CloseSettle, CloseSigner, CloseMarkSigned,
         CloseTidy, CloseRow, FailRow, FailSession, CloseUploadFails,
         CloseGivesUp, WorkerDies
<1>2. UNCHANGED saved \/ saved' = [saved EXCEPT ![d] = 0]
  BY DEF EndNext, CloseNext, CloseGoes, CloseFaults, Claim, CloseCheck, CloseRead, CloseUpload,
         CloseFinalize, CloseDraft, ClosePut, CloseSettle, CloseSigner, CloseMarkSigned,
         CloseTidy, CloseRow, FailRow, FailSession, CloseUploadFails,
         CloseGivesUp, WorkerDies, CloseKeeps
<1>3. Claim(d) \/ close[d].at # "idle"
  BY DEF EndNext, CloseNext, CloseGoes, CloseFaults, CloseCheck, CloseRead, CloseUpload,
         CloseFinalize, CloseDraft, ClosePut, CloseSettle, CloseSigner, CloseMarkSigned,
         CloseTidy, CloseRow, FailRow, FailSession, CloseUploadFails,
         CloseGivesUp, WorkerDies, AtC
<1>4. Busy(d)
  BY <1>3 DEF Busy, Claim, InQueue
<1>5. \A e \in Docs : RowKept(e) /\ (e # d => row'[e] = row[e])
  <2>1. CASE UNCHANGED row
    BY <2>1 DEF RowKept
  <2>2. CASE \E st \in {"processing", "signed", "failed"} :
               row[d].st \in {"pending", "processing"} /\ row' = [row EXCEPT ![d].st = st]
    BY <2>2 DEF RowKept, DocumentTyped, QueueRow
  <2> QED BY <1>1, <2>1, <2>2
<1>6. saved'[d] \in {0, saved[d]} /\ \A e \in Docs : e # d => saved'[e] = saved[e]
  BY <1>2 DEF DocumentTyped
<1> QED BY <1>4, <1>5, <1>6 DEF InQueue

\* cerrar_firma_digital: the number is issued with the PDF of its own session.
LEMMA EndNumbers ==
  ASSUME IInv, SInv, IInv', AllSteady, NEW d \in Docs, EndNext(d),
         \A s \in Sessions :
           sess'[s].st = "signed" =>
             sess[s].st = "signed" \/ (CloseMarkSigned(d) /\ s = row[d].s)
  PROVE  Numbers'
<1> USE Typed DEF SInv, Numbers
<1>1. /\ \A e \in Docs : RowKept(e)
      /\ \A e \in Docs : e # d => (InQueue(e)' => InQueue(e)) /\ saved'[e] = saved[e]
      /\ Busy(d) /\ saved'[d] \in {0, saved[d]}
  BY EndRows
<1>2. /\ \A e \in Docs : e # d => close'[e] = close[e]
      /\ UNCHANGED <<open, req, fall>>
  BY EndAlone
<1>3. /\ \A e \in Docs : e # d => official'[e] = official[e] /\ od'[e] = od[e]
      /\ official'[d] # official[d] => CloseUpload(d) /\ official'[d] = close[d].pdf
      /\ od'[d] # od[d] => od'[d] = [st |-> "CONFIRMED", tk |-> od[d].tk]
  BY CloseDocs DEF EndNext
<1>4. \A e \in Docs : NoMoreBusy(e)
  BY <1>1, <1>2 DEF NoMoreBusy, Busy
<1>5. Numbered \subseteq Docs
  BY DigitalAssumption
<1>6. CloseUpload(d) => /\ d \in Numbered /\ close[d].pdf # 0 /\ close[d].pdf = row[d].s
                        /\ Kept(row[d].s) /\ row[d].st # "none" /\ row[d].s \in Sessions
  BY DEF CloseUpload, AtC, IInv, Closing, ClosingOf, Closers, CloserOf
<1>7. Rows'
  BY <1>1, RowStays DEF Rows
<1>8. Busies'
  <2>1. ASSUME NEW e \in Numbered PROVE BusyOf(e)'
    <3>1. /\ BusyOf(e) /\ RowKept(e) /\ NoMoreBusy(e)
          /\ od'[e] = od[e] \/ od'[e] = [st |-> "CONFIRMED", tk |-> od[e].tk]
          /\ saved'[e] \in {0, saved[e]}
      BY <1>1, <1>3, <1>4, <1>5 DEF Busies
    <3> QED BY <3>1, BusyStays
  <2> QED BY <2>1 DEF Busies
<1>9. Saving'
  <2>1. ASSUME NEW e \in Numbered
        PROVE  \A r \in Requests : SavingOf(r, e)'
    <3>1. \A r \in Requests : Onward(r)
      BY <1>2 DEF Onward
    <3>2. (\E r \in Requests : Saves(r, e)) => e # d
      BY <1>1, <2>1 DEF Saving, SavingOf
    <3>3. e # d => /\ OdKept(e) /\ NoMoreBusy(e) /\ official'[e] = official[e]
                   /\ saved'[e] = saved[e]
      BY <1>1, <1>3, <1>4, <1>5 DEF OdKept
    <3> QED BY <3>1, <3>2, <3>3, SavingStays
  <2> QED BY <2>1 DEF Saving
<1>10. Closers'
  <2>1. ASSUME NEW e \in Numbered PROVE CloserOf(e)'
    <3>1. CASE e = d
      BY <1>1, <2>1, <3>1, CloserGoes
    <3>2. CASE e # d
      BY <1>1, <1>2, <1>3, <1>5, <3>2, CloserStays
    <3> QED BY <3>1, <3>2
  <2> QED BY <2>1 DEF Closers
<1>11. Issues'
  <2>1. ASSUME NEW e \in Docs PROVE IssuedOf(e)'
    <3>1. CASE official'[e] = official[e]
      <4>1. official[e] # 0 => od'[e].st \in {"CONFIRMING", "CONFIRMED"}
        BY <1>3 DEF Issues, IssuedOf
      <4> QED BY <1>1, <3>1, <4>1, IssuedStays
    <3>2. CASE official'[e] # official[e]
      <4>1. e = d /\ CloseUpload(d) /\ official'[d] = close[d].pdf
        BY <1>3, <3>2
      <4>2. PICK s \in Sessions : s = row[d].s
        BY <1>6, <4>1
      <4>3. Kept(s)'
        BY <1>6, <4>1, <4>2, KeptStays
      <4>4. /\ row'[d].s = s /\ row'[d].st # "none"
        BY <1>1, <1>6, <4>1, <4>2 DEF RowKept
      <4>5. od'[d].st \in {"CONFIRMING", "CONFIRMED"}
        BY <1>1, <1>3, <1>6, <4>1 DEF Busies, BusyOf
      <4> QED BY <1>6, <4>1, <4>2, <4>3, <4>4, <4>5 DEF IssuedOf, Kept
    <3> QED BY <3>1, <3>2
  <2> QED BY <2>1 DEF Issues
<1>12. Signs'
  <2> SUFFICES ASSUME NEW s \in Sessions, sess'[s].st = "signed", sess'[s].d \in Numbered
               PROVE  official'[sess'[s].d] = s
    BY DEF Signs, SignedOf, Doc
  <2>1. CASE sess[s].st = "signed"
    <3>1. sess'[s].d = sess[s].d
      BY <2>1 DEF AllSteady, Steady
    <3>2. PICK e \in Numbered : e = sess[s].d
      BY <3>1
    <3>3. official[e] = s /\ s # 0
      BY <2>1, <3>2, DigitalAssumption DEF Signs, SignedOf, Doc, Sessions
    <3>4. row[e].s = s
      BY <1>5, <3>3 DEF Issues, IssuedOf
    <3>5. official'[e] = s
      BY <1>3, <1>5, <1>6, <3>3, <3>4
    <3> QED BY <3>1, <3>2, <3>5
  <2>2. CASE CloseMarkSigned(d) /\ s = row[d].s
    <3>1. close[d].at = "mark" /\ row[d].st # "none"
      BY <2>2 DEF CloseMarkSigned, AtC, IInv, Closing, ClosingOf
    <3>2. sess[s].d = d /\ sess[s].st # "none"
      BY <2>2, <3>1, RowSession DEF Doc
    <3>3. sess'[s].d = d
      BY <3>2 DEF AllSteady, Steady
    <3>4. official[d] = s
      BY <2>2, <3>1, <3>3 DEF Closers, CloserOf
    <3>5. official'[d] = official[d]
      BY <2>2 DEF CloseMarkSigned
    <3> QED BY <3>3, <3>4, <3>5
  <2> QED BY <2>1, <2>2
<1> QED BY <1>7, <1>8, <1>9, <1>10, <1>11, <1>12

-----------------------------------------------------------------------------
(* The sweeper *)

\* The sweeper is quiet, unless it resolves a number left CONFIRMING.
LEMMA SweepQuiet ==
  ASSUME IInv, SInv, NEW d \in Docs, Sweep(d), ~SweepConfirming(d)
  PROVE  Quiet
<1>1. UNCHANGED <<lockVars, results, row, open, req, close, fall, faults>>
  BY SweepDocs
<1>2. CancelsReserved
  BY DEF Sweep, SweepReserved, SweepConfirmed, CancelsReserved
<1>3. \A e \in Docs : OdKept(e)
  BY <1>2, Typed, CancelsQuietly
<1> QED BY <1>1, <1>3, DigitalAssumption DEF Quiet, RowKept, InQueue, Onward, results

\* _handle_confirming_expired: nobody works with the number any more.
LEMMA SweepNumbers ==
  ASSUME IInv, SInv, IInv', Moves, NEW d \in Docs, SweepConfirming(d)
  PROVE  Numbers'
<1> USE Typed DEF SInv, Numbers
<1>0. AllSteady
  BY DEF AllSteady, Moves
<1>1. UNCHANGED <<official, saved, row, req, close>>
  BY DEF SweepConfirming, SweepKeeps, results
<1>2. /\ od[d].st = "CONFIRMING" /\ close[d].at = "idle"
      /\ ~(InQueue(d) /\ row[d].tk = od[d].tk)
      /\ \A r \in Requests : req[r].s # 0 => Doc(req[r].s) # d
  BY DEF SweepConfirming, Abandoned
<1>3. /\ \A e \in Docs : e # d => od'[e] = od[e]
      /\ official[d] # 0 => od'[d].st = "CONFIRMED"
  BY DEF SweepConfirming, WasIssued, CancelTicket, DocumentTyped, Number
<1>4. \A r \in Requests : ~Saves(r, d)
  <2>1. ASSUME NEW r \in Requests, Saves(r, d) PROVE FALSE
    <3>1. req[r].s \in Sessions
      BY <2>1 DEF Saves, IInv, Asks, AsksOf
    <3> QED BY <1>2, <2>1, <3>1, DigitalAssumption DEF Saves, Sessions
  <2> QED BY <2>1
<1>5. d \in Numbered => ~Busy(d)
  BY <1>2 DEF Busies, BusyOf, Busy
<1>6. \A e \in Docs : RowKept(e) /\ NoMoreBusy(e)
  BY <1>1 DEF RowKept, NoMoreBusy, Busy, InQueue
<1>7. Numbered \subseteq Docs
  BY DigitalAssumption
<1>8. Rows'
  BY <1>0, <1>6, RowStays DEF Rows
<1>9. Busies'
  <2>1. ASSUME NEW e \in Numbered PROVE BusyOf(e)'
    <3>1. CASE e = d
      BY <1>5, <1>6, <1>7, <3>1 DEF BusyOf, NoMoreBusy
    <3>2. CASE e # d
      BY <1>1, <1>3, <1>6, <1>7, <3>2, BusyStays DEF Busies
    <3> QED BY <3>1, <3>2
  <2> QED BY <2>1 DEF Busies
<1>10. Saving'
  <2>1. ASSUME NEW e \in Numbered
        PROVE  \A r \in Requests : SavingOf(r, e)'
    <3>1. \A r \in Requests : Onward(r)
      BY <1>1 DEF Onward
    <3>2. (\E r \in Requests : Saves(r, e)) => OdKept(e)
      BY <1>3, <1>4, <1>7 DEF OdKept
    <3> QED BY <1>0, <1>1, <1>6, <1>7, <3>1, <3>2, SavingStays
  <2> QED BY <2>1 DEF Saving
<1>11. Closers'
  BY <1>0, <1>1, <1>6, <1>7, CloserStays DEF Closers
<1>12. Issues'
  <2>1. ASSUME NEW e \in Docs PROVE IssuedOf(e)'
    <3>1. official[e] # 0 => od'[e].st \in {"CONFIRMING", "CONFIRMED"}
      BY <1>3 DEF Issues, IssuedOf
    <3> QED BY <1>0, <1>1, <1>6, <3>1, IssuedStays
  <2> QED BY <2>1 DEF Issues
<1>13. Signs'
  BY <1>1, SignsStay
<1> QED BY <1>8, <1>9, <1>10, <1>11, <1>12, <1>13

-----------------------------------------------------------------------------
(* Every step *)

\* What is left to show of a step that moves no request.
LEMMA SameAsks ==
  ASSUME IInv, SInv, AllSteady, UNCHANGED <<req, open, fall, close>>
  PROVE  Alone' /\ Polls'
<1>1. Alone'
  BY DEF SInv, Alone, AllSteady
<1>2. Polls'
  BY PollStays DEF SInv, Polls
<1> QED BY <1>1, <1>2

\* Every step keeps the invariant.
LEMMA StepKeepsSingle ==
  ASSUME IInv, IInv', SInv, [Next]_vars
  PROVE  SInv'
<1> USE DEF SInv
<1>1. CASE \E o \in Openers : OpenNext(o)
  <2>1. PICK o \in Openers : OpenNext(o)
    BY <1>1
  <2>2. Moves /\ AllSteady
    BY <2>1, OpenMoves DEF Moves, AllSteady
  <2>3. /\ \A p \in Openers : open'[p].batch = 0
        /\ UNCHANGED <<fall, req, close, saved, official, row>>
    BY <2>1, OpenAlone
  <2>4. Alone'
    BY <2>2, <2>3 DEF Alone, AllSteady
  <2>5. Polls'
    BY <2>2, <2>3, PollStays DEF Polls
  <2>6. Numbers'
    BY <2>1, <2>2, OpenQuiet, QuietStep
  <2> QED BY <2>4, <2>5, <2>6
<1>2. CASE \E s \in Sessions : Put(s) \/ BecomesLate(s)
  <2>1. PICK s \in Sessions : Put(s) \/ BecomesLate(s)
    BY <1>2
  <2>2. Moves /\ AllSteady
    BY <2>1, DeviceMoves DEF Moves, AllSteady
  <2>3. UNCHANGED <<lockVars, document, results, row, open, req, others, faults>>
    BY <2>1 DEF Put, BecomesLate
  <2>4. Alone' /\ Polls'
    BY <2>2, <2>3, SameAsks DEF others
  <2>5. Quiet
    BY <2>3, StillQuiet DEF others, document, results
  <2> QED BY <2>2, <2>4, <2>5, QuietStep
<1>3. CASE \E r \in Requests : AskNext(r)
  <2>1. PICK r \in Requests : AskNext(r)
    BY <1>3
  <2>2. Moves /\ AllSteady
    BY <2>1, AskMovesSessions DEF Moves, AllSteady
  <2>3. /\ \A q \in Requests \union {Job} : q # r => req'[q] = req[q]
        /\ req'[r].at \notin {"register", "siblings", "closing", "marking"}
        /\ UNCHANGED <<open, close, fall, official>>
    BY <2>1, AskAlone
  <2>4. Alone'
    BY <2>2, <2>3 DEF Alone, AllSteady
  <2>5. Polls'
    <3>1. PollOf(r)'
      BY <2>1, <2>2, AskPolls
    <3>2. \A q \in Requests \union {Job} : q # r => PollOf(q)'
      BY <2>2, <2>3, PollStays
    <3> QED BY <3>1, <3>2 DEF Polls
  <2>6. Numbers'
    <3>1. CASE Commits(r)
      BY <2>1, <2>2, <3>1, ConfirmNumbers, SaveNumbers, EnqueueNumbers DEF Commits
    <3>2. CASE ~Commits(r)
      BY <2>1, <2>2, <3>2, AskQuiet, QuietStep
    <3> QED BY <3>1, <3>2
  <2> QED BY <2>4, <2>5, <2>6
<1>4. CASE JobNext
  <2>1. Moves /\ AllSteady
    BY <1>4, JobMoves DEF Moves, AllSteady
  <2>2. PollOf(Job)' /\ \A q \in Requests : req'[q] = req[q]
    BY <1>4, <2>1, JobPolls
  <2>3. UNCHANGED <<open, close, fall>>
    BY <1>4 DEF JobNext, OrphanLook, Undo, RequestDies, ReqKeeps, others
  <2>4. Alone'
    BY <2>1, <2>2, <2>3 DEF Alone, AllSteady
  <2>5. Polls'
    BY <2>1, <2>2, PollStays DEF Polls
  <2>6. Numbers'
    BY <1>4, <2>1, JobQuiet, QuietStep
  <2> QED BY <2>4, <2>5, <2>6
<1>5. CASE \E d \in Docs : EndNext(d)
  <2>1. PICK d \in Docs : EndNext(d)
    BY <1>5
  <2>2. /\ AllSteady
        /\ \A s \in Sessions :
             sess'[s].st = "signed" =>
               sess[s].st = "signed" \/ (CloseMarkSigned(d) /\ s = row[d].s)
    <3>1. CASE CloseMarkSigned(d)
      BY <3>1, MarkSignedMoves DEF AllSteady
    <3>2. CASE ~CloseMarkSigned(d)
      BY <2>1, <3>2, EndMoves DEF Moves, AllSteady
    <3> QED BY <3>1, <3>2
  <2>3. /\ close'[d].at # "drop" /\ \A e \in Docs : e # d => close'[e] = close[e]
        /\ UNCHANGED <<open, req, fall>>
    BY <2>1, EndAlone
  <2>4. Alone'
    BY <2>2, <2>3 DEF Alone, AllSteady
  <2>5. Polls'
    BY <2>2, <2>3, PollStays DEF Polls
  <2>6. Numbers'
    BY <2>1, <2>2, EndNumbers
  <2> QED BY <2>4, <2>5, <2>6
<1>6. CASE \E d \in Docs : Sweep(d)
  <2>1. PICK d \in Docs : Sweep(d)
    BY <1>6
  <2>2. Moves /\ AllSteady
    BY <2>1, SweepMoves DEF Moves, AllSteady
  <2>3. UNCHANGED <<lockVars, results, row, open, req, close, fall, faults>>
    BY <2>1, SweepDocs
  <2>4. Alone' /\ Polls'
    BY <2>2, <2>3, SameAsks
  <2>5. Numbers'
    <3>1. CASE SweepConfirming(d)
      BY <2>2, <3>1, SweepNumbers
    <3>2. CASE ~SweepConfirming(d)
      BY <2>1, <2>2, <3>2, SweepQuiet, QuietStep
    <3> QED BY <3>1, <3>2
  <2> QED BY <2>4, <2>5
<1>7. CASE Locks \/ UNCHANGED vars
  <2>1. UNCHANGED <<document, results, sess, row, open, req, close, fall>>
    BY <1>7 DEF Locks, Elsewhere, vars
  <2>2. Moves /\ AllSteady
    BY <2>1, StayMoves DEF Moves, AllSteady
  <2>3. Alone' /\ Polls'
    BY <2>1, <2>2, SameAsks
  <2>4. Quiet
    BY <2>1, StillQuiet DEF document, results
  <2> QED BY <2>2, <2>3, <2>4, QuietStep
<1> QED BY <1>1, <1>2, <1>3, <1>4, <1>5, <1>6, <1>7, SingleSteps

\* It holds when nothing has happened.
LEMMA InitiallySingle ==
  ASSUME Batches = {}, Init
  PROVE  SInv
<1>1. Alone
  BY DEF Init, Alone, NoSession, Closed, Standing, Resting, Asleep
<1>2. Polls
  BY DEF Init, Polls, PollOf, Resting, Checked
<1>3. Rows /\ Issues
  BY DEF Init, Rows, RowOf, NoRow, Issues, IssuedOf
<1>4. Busies /\ Closers
  BY DigitalAssumption DEF Init, Busies, BusyOf, Busy, InQueue, NoRow, Closers, CloserOf, Asleep
<1>5. Saving
  BY DEF Init, Saving, SavingOf, Saves, Resting
<1>6. Signs
  BY DEF Init, Signs, SignedOf, NoSession
<1> QED BY <1>1, <1>2, <1>3, <1>4, <1>5, <1>6 DEF SInv, Numbers

-----------------------------------------------------------------------------
(* Theorems *)

\* Where nobody opens a batch, every reachable state satisfies the invariant: a
\* number that was confirmed belongs to one poll, then to one job, then to one
\* PDF, and neither the sweeper nor a rejection takes it from them.
THEOREM SingleInvariance ==
  ASSUME Batches = {}
  PROVE  Spec => [](IInv /\ SInv)
<1>1. Init => IInv /\ SInv
  BY Initially, InitiallySingle
<1>2. IInv /\ SInv /\ [Next]_vars => (IInv /\ SInv)'
  BY AllSteps, StepKeepsSingle
<1> QED BY <1>1, <1>2, PTL DEF Spec

\* A document with a number is signed in one session only, although an older
\* session may still be polled when a newer one is open on the same ticket:
\* confirm_number lets one of them through.
THEOREM SignedInOne ==
  ASSUME Batches = {}
  PROVE  Spec => []OneSignature
<1>1. IInv /\ SInv => OneSignature
  BY DEF SInv, Numbers, Signs, SignedOf, OneSignature
<1> QED BY SingleInvariance, <1>1, PTL

\* The worker closes a session with the PDF that this session signed, although
\* signed-pending/ has one key for all the sessions of a document.
THEOREM ClosedWithOwnPdf ==
  ASSUME Batches = {}
  PROVE  Spec => []OwnPdf
<1>1. IInv /\ SInv => OwnPdf
  BY DEF SInv, Numbers, Closers, CloserOf, OwnPdf, Own
<1> QED BY SingleInvariance, <1>1, PTL

\* What the user cancelled is not issued, however late his cancellation came:
\* cancel.py leaves alone a session whose answer was used, and only an answer
\* that was used gets to the worker.
THEOREM CancelledIsNotIssued ==
  ASSUME Batches = {}
  PROVE  Spec => []IssuedWasWanted
<1>1. IInv /\ SInv => IssuedWasWanted
  BY DEF SInv, Numbers, Issues, IssuedOf, Kept, IssuedWasWanted
<1> QED BY SingleInvariance, <1>1, PTL
=============================================================================
