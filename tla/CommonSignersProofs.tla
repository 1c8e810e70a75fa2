------------------------- MODULE CommonSignersProofs -------------------------
(***************************************************************************)
(* What is proved of the common signers for every number of signers,       *)
(* requests, workers, sessions and mishaps: the types, and that no         *)
(* signature is lost or put twice.                                         *)
(***************************************************************************)
EXTENDS CommonSigners, TLAPS

-----------------------------------------------------------------------------
(* The hypothesis *)

\* The key outlives whoever took it; there are fewer mishaps than retries, and
\* the same job does not meet one of them after the upload and another before it
\* is taken up again.
Tolerable ==
  /\ "key" \notin Mishaps
  /\ "after" \in Mishaps => MaxFaults < Retries
  /\ \/ MaxFaults <= 1
     \/ Mishaps \intersect {"after", "worker"} = {}
     \/ Mishaps \intersect {"before", "overdue"} = {}

-----------------------------------------------------------------------------
(* The invariant *)

Open == draft = "sent_to_sign"
Alive(s) == sess[s].st \in {"pending", "processing"}

\* The document has lost its PDF: it is in neither place, and nobody has a copy.
Carries == {"save", "sign", "fence", "put"}
Gone == /\ tosign[Doc] = NoPdf /\ inprocess[Doc] = NoPdf
        /\ \A w \in Workers : worker[w].at \notin Carries

\* Who has the lock: a request, and then the session it has left.
HoldsR(r) == request[r].at = "wait" /\ move[r].at \in {"check", "take", "clear", "won"}
HoldsS(s) ==
  /\ Alive(s)
  /\ IF sess[s].up THEN \E w \in Workers : worker[w].at = "settle" /\ Its(w) = s
     ELSE \A w \in Workers : Its(w) = s => worker[w].at # "failed"
Exclusive ==
  /\ \A q, r \in Requests : HoldsR(q) /\ HoldsR(r) => q = r
  /\ \A s, t \in Sessions : HoldsS(s) /\ HoldsS(t) => s = t
  /\ \A r \in Requests, s \in Sessions : ~(HoldsR(r) /\ HoldsS(s))
  /\ \A r \in Requests : HoldsR(r) => key[Doc]
  /\ \A s \in Sessions : HoldsS(s) => key[Doc]

\* A release moves the PDF before anybody else can take it.
BackOf(a) ==
  move[a].at = "back" =>
    /\ tosign[Doc] = NoPdf /\ inprocess[Doc] # NoPdf
    /\ \A b \in Callers : move[b].at = "back" => a = b
    /\ \A r \in Requests : HoldsR(r) => move[r].at = "check"
    /\ \A s \in Sessions : ~HoldsS(s)

\* Where a request finds the PDF that it moves.
TakeOf(r) ==
  /\ move[r].at = "take" => tosign[Doc] # NoPdf /\ inprocess[Doc] = NoPdf
  /\ move[r].at = "clear" => tosign[Doc] = NoPdf \/ inprocess[Doc] \in {NoPdf, tosign[Doc]}
  /\ move[r].at = "won" => tosign[Doc] = NoPdf

\* The calls of each caller, while the document is open.
CallerOf(r) ==
  /\ request[r].at = "idle" => move[r].at \in {"still", "back", "drop"}
  /\ request[r].at \in {"lock", "dead", "kept"} => move[r].at = "still"
  /\ request[r].at = "wait" => move[r].at \in {"check", "take", "clear", "won", "lost"}
Calls == /\ \A r \in Requests : CallerOf(r)
         /\ \A w \in Workers :
              /\ move[w].at \in {"still", "back", "drop"}
              /\ move[w].at = "back" => worker[w].at = "failed"
              /\ move[w].at = "drop" => worker[w].at \in {"failed", "marker"}
         /\ move[Sweeper].at \in {"still", "back", "drop"}
         /\ move[Rejecter].at = "still"

\* The database knows, or will, that u has signed.
Recorded(u) == \/ signer[u] = "signed"
               \/ \E s \in Sessions : sess[s].u = u /\ Alive(s) /\ sess[s].up

\* The signatures of a PDF are those that are recorded; while the document is
\* being rejected a copy may be an old one.
Upright(pdf) == \A u \in Signers : pdf[u] <= 1
Honest(pdf) == \A u \in Signers : pdf[u] = 1 => Recorded(u)
Complete(pdf) == reject = "idle" => \A u \in Signers : Recorded(u) => pdf[u] = 1

\* A session was uploaded, and nobody is at work on it who knows.
Sent(s) == Alive(s) /\ (sess[s].up \/ (HoldsS(s) /\ tosign[Doc] # NoPdf))
Stranded(s) == /\ Sent(s)
               /\ \A w \in Workers :
                    Its(w) = s => worker[w].at \in {"look", "payload", "compare", "clean"}
Crashed == faults > 0 /\ Mishaps \intersect {"after", "worker"} # {}
Broken == faults > 0 /\ "before" \in Mishaps

SessionOf(s) ==
  /\ sess[s].tries <= faults
  /\ sess[s].sha # NoPdf => sess[s].sha[sess[s].u] = 0
  /\ HoldsS(s) /\ ~sess[s].up /\ tosign[Doc] # NoPdf
       => sess[s].sha # NoPdf /\ tosign[Doc][sess[s].u] = 1
  /\ Stranded(s) => Crashed
  /\ \A t \in Sessions : Alive(s) /\ Alive(t) /\ sess[s].u = sess[t].u => s = t

\* What a worker knows of its session.
WorkerOf(w) ==
  LET at == worker[w].at
      c == sess[Its(w)]
      pdf == worker[w].pdf
  IN /\ at \notin {"idle", "clean"} => Owns(w, Its(w))
     /\ at \in {"payload", "compare", "read"} \union Carries => signer[c.u] = "pending"
     /\ at \in {"compare", "read", "uploaded", "fail", "failed"} \union Carries => ~c.up
     /\ at \in {"read", "fail"} \union Carries => tosign[Doc] = NoPdf
     /\ at = "compare" => pdf = c.sha
     /\ at \in {"sign", "fence", "put", "uploaded"} => c.sha # NoPdf
     /\ at = "uploaded" /\ reject = "idle" => tosign[Doc] # NoPdf
     /\ at \in {"settle", "signer"} => c.up
     /\ at = "marker" /\ reject = "idle" => c.up \/ tosign[Doc] # NoPdf
     /\ at = "mark" => signer[c.u] = "signed"
     /\ at \in {"fail", "failed"} => Broken
     /\ at # "absent"
     /\ at = "idle" => Its(w) = None

\* What the copy of a worker has.
CopyOf(w) ==
  LET pdf == worker[w].pdf
      u == User(w)
  IN /\ worker[w].at \in {"save", "sign"} =>
          pdf[u] = 0 /\ Upright(pdf) /\ Honest(pdf) /\ Complete(pdf)
     /\ worker[w].at \in {"fence", "put"} =>
          /\ pdf[u] = 1 /\ Upright(pdf) /\ Complete(pdf)
          /\ \A v \in Signers \ {u} : pdf[v] = 1 => Recorded(v)

Stored ==
  /\ tosign[Doc] # NoPdf =>
       /\ Upright(tosign[Doc]) /\ Complete(tosign[Doc])
       /\ \A u \in Signers : tosign[Doc][u] = 1 =>
            Recorded(u) \/ \E s \in Sessions : HoldsS(s) /\ ~sess[s].up /\ sess[s].u = u
  /\ inprocess[Doc] # NoPdf =>
       /\ Upright(inprocess[Doc]) /\ Honest(inprocess[Doc])
       /\ tosign[Doc] = NoPdf => Complete(inprocess[Doc])

Good == /\ Exclusive /\ Calls /\ Stored
        /\ \A a \in Callers : BackOf(a)
        /\ \A r \in Requests : TakeOf(r)
        /\ \A s \in Sessions : SessionOf(s)
        /\ \A w \in Workers : WorkerOf(w) /\ CopyOf(w)

-----------------------------------------------------------------------------
(* Types *)

\* What has begun is about a session and a signer that exist.
Known ==
  /\ \A a \in Callers : move[a].at # "still" => move[a].d = Doc
  /\ \A r \in Requests : request[r].at \in {"lock", "wait"} => request[r].u \in Signers
  /\ \A s \in Sessions : sess[s].st # "none" => sess[s].u \in Signers
  /\ \A w \in Workers :
       /\ worker[w].at # "idle" => Its(w) \in Sessions /\ sess[Its(w)].st # "none"
       /\ worker[w].at \in Carries => worker[w].pdf # NoPdf
TInv == TypeOK /\ Known

DatabaseTyped == /\ draft \in {"sent_to_sign", "rejected"}
                 /\ signer \in [Signers -> {"pending", "signed", "rejected"}]
                 /\ reject \in {"idle", "tx", "expire", "clear"}
                 /\ faults \in 0 .. MaxFaults
SessTyped == sess \in [Sessions -> Session]
WorkerTyped == worker \in [Workers -> WorkerMemory]
RequestTyped == request \in [Requests -> RequestMemory]

LEMMA TypeParts ==
  /\ TypeOK <=> LockTypeOK /\ DatabaseTyped /\ SessTyped /\ WorkerTyped /\ RequestTyped
  /\ TypeOK' <=> LockTypeOK' /\ DatabaseTyped' /\ SessTyped' /\ WorkerTyped' /\ RequestTyped'
  BY DEF TypeOK, DatabaseTyped, SessTyped, WorkerTyped, RequestTyped

\* The calls on the lock.
LEMMA LockTypes ==
  ASSUME LockTypeOK, NEW a \in Callers, move[a].at # "still" => move[a].d = Doc,
         \/ LockStep(a) \/ Acquire(a, Doc) \/ Release(a, Doc) \/ Settle(a, Doc)
         \/ Dead(a) /\ UNCHANGED store
  PROVE  /\ LockTypeOK'
         /\ \A b \in Callers : b # a => move'[b] = move[b]
         /\ move'[a].at # "still" => move'[a].d = Doc
<1>0. /\ Doc \in Docs /\ Docs = {Doc} /\ Still.at = "still"
      /\ Still \in [at : LockSteps, d : Docs \union {NoDoc}]
  BY CommonAssumption DEF Still, LockSteps
<1>1. ASSUME NEW at \in LockSteps, NEW d \in {Doc, NoDoc}, Goes(a, at, d)
      PROVE  /\ move' \in [Callers -> [at : LockSteps, d : Docs \union {NoDoc}]]
             /\ \A b \in Callers : b # a => move'[b] = move[b]
             /\ move'[a] = [at |-> at, d |-> d]
  BY <1>0, <1>1 DEF Goes, LockTypeOK
<1>2. CASE LockStep(a)
  <2>1. move[a].d = Doc
    BY <1>2 DEF LockStep, Check, Take, Clear, Back, Drop
  <2>2. /\ key' \in [Docs -> BOOLEAN] /\ tosign' \in [Docs -> Pdfs \union {NoPdf}]
        /\ inprocess' \in [Docs -> Pdfs \union {NoPdf}]
    BY <1>0, <1>2, <2>1 DEF LockStep, Check, Take, Clear, Back, Drop, LockTypeOK
  <2>3. PICK at \in LockSteps, d \in {Doc, NoDoc} : Goes(a, at, d) /\ (at # "still" => d = Doc)
    BY <1>2, <2>1 DEF LockStep, Check, Take, Clear, Back, Drop, LockSteps
  <2>4. /\ move' \in [Callers -> [at : LockSteps, d : Docs \union {NoDoc}]]
        /\ \A b \in Callers : b # a => move'[b] = move[b]
        /\ move'[a] = [at |-> at, d |-> d]
    BY <1>1, <2>3
  <2> QED BY <2>2, <2>3, <2>4 DEF LockTypeOK
<1>3. CASE Acquire(a, Doc)
  <2>1. PICK at \in LockSteps : Goes(a, at, Doc)
    BY <1>3 DEF Acquire, LockSteps
  <2>2. /\ move' \in [Callers -> [at : LockSteps, d : Docs \union {NoDoc}]]
        /\ \A b \in Callers : b # a => move'[b] = move[b]
        /\ move'[a] = [at |-> at, d |-> Doc]
    BY <1>1, <2>1
  <2> QED BY <1>0, <1>3, <2>2 DEF Acquire, LockTypeOK
<1>4. CASE Release(a, Doc)
  BY <1>0, <1>1, <1>4 DEF Release, LockTypeOK, LockSteps
<1>5. CASE Settle(a, Doc)
  BY <1>0, <1>1, <1>5 DEF Settle, LockTypeOK, LockSteps
<1>6. CASE Dead(a) /\ UNCHANGED store
  BY <1>0, <1>6 DEF Dead, LockTypeOK, store
<1> QED BY <1>2, <1>3, <1>4, <1>5, <1>6

LEMMA TypesKept ==
  ASSUME TInv, LockTypeOK', DatabaseTyped', SessTyped', WorkerTyped', RequestTyped',
         \A a \in Callers : move'[a].at # "still" => move'[a].d = Doc,
         \A r \in Requests :
           request'[r].at \in {"lock", "wait"} => request'[r].u \in Signers,
         \A s \in Sessions : /\ sess'[s].u = sess[s].u \/ sess'[s].u \in Signers
                             /\ sess'[s].st = "none" => sess[s].st = "none"
                             /\ sess'[s].st # "none" => sess[s].st # "none" \/ sess'[s].u \in Signers,
         \A w \in Workers : worker'[w] # worker[w] =>
           /\ worker'[w].at # "idle" => Its(w)' \in Sessions /\ sess[Its(w)'].st # "none"
           /\ worker'[w].at \in Carries => worker'[w].pdf # NoPdf
  PROVE  TInv'
<1>1. TypeOK'
  BY TypeParts
<1>2. \A w \in Workers : /\ worker'[w].at # "idle" =>
                              Its(w)' \in Sessions /\ sess'[Its(w)'].st # "none"
                         /\ worker'[w].at \in Carries => worker'[w].pdf # NoPdf
  BY DEF TInv, Known, Its
<1>3. \A s \in Sessions : sess'[s].st # "none" => sess'[s].u \in Signers
  BY DEF TInv, Known
<1> QED BY <1>1, <1>2, <1>3 DEF TInv, Known

\* What a worker may remember.
Fits(m) == /\ m \in WorkerMemory
           /\ m.at # "idle" => m.s \in Sessions /\ sess[m.s].st # "none"
           /\ m.at \in Carries => m.pdf # NoPdf

\* A worker goes on to its next step.
LEMMA StepFits ==
  ASSUME TInv, NEW w \in Workers, NEW at \in WorkerSteps, Step(w, at),
         worker[w].at # "idle", at \in Carries => worker[w].at \in Carries
  PROVE  \E m : Fits(m) /\ worker' = [worker EXCEPT ![w] = m]
<1>0. worker[w] \in WorkerMemory
  BY TypeParts DEF TInv, WorkerTyped
<1>1. PICK m : m = [worker[w] EXCEPT !.at = at]
  OBVIOUS
<1>2. m \in WorkerMemory /\ m.at = at /\ m.s = worker[w].s /\ m.pdf = worker[w].pdf
  BY <1>0, <1>1 DEF WorkerMemory
<1>3. worker' = [worker EXCEPT ![w] = m]
  BY <1>1 DEF Step
<1> QED BY <1>2, <1>3 DEF Fits, TInv, Known, Its

\* A worker keeps its session.
LEMMA KeepsSession ==
  ASSUME TInv, NEW w \in Workers, worker[w].at # "idle", NEW m \in WorkerMemory,
         m.s = worker[w].s, m.at \in Carries => m.pdf # NoPdf
  PROVE  Fits(m)
  BY DEF Fits, TInv, Known, Its

\* What Notary gives back.
LEMMA SignedIsPdf ==
  ASSUME NEW pdf \in Pdfs, NEW u
  PROVE  /\ SignedBy(pdf, u) \in Pdfs
         /\ \A v \in Signers : SignedBy(pdf, u)[v] =
              IF v = u THEN IF pdf[v] < 2 THEN pdf[v] + 1 ELSE pdf[v] ELSE pdf[v]
<1>1. pdf \in [Signers -> 0 .. 2]
  BY CommonAssumption
<1>2. SignedBy(pdf, u) = [v \in Signers |->
        IF v = u THEN IF pdf[v] < 2 THEN pdf[v] + 1 ELSE pdf[v] ELSE pdf[v]]
  BY <1>1 DEF SignedBy
<1>3. SignedBy(pdf, u) \in [Signers -> 0 .. 2]
  BY <1>1, <1>2
<1> QED BY <1>2, <1>3, CommonAssumption

Works(w) == Claim(w) \/ GivesUp(w) \/ WorkerGoes(w) \/ Breaks(w) \/ BreaksLate(w) \/ WorkerDies(w)

LEMMA WorkerFits ==
  ASSUME TInv, NEW w \in Workers, Works(w)
  PROVE  \E m : Fits(m) /\ worker' = [worker EXCEPT ![w] = m]
<1>0. worker[w] \in WorkerMemory /\ WorkerTyped /\ SessTyped /\ LockTypeOK /\ Doc \in Docs
  BY TypeParts, CommonAssumption DEF TInv, WorkerTyped
<1>1. CASE Done(w)
  BY <1>1 DEF Done, Fits, Carries, Asleep, WorkerMemory, WorkerSteps, None
<1>2. CASE Claim(w)
  <2>1. PICK s \in Sessions : /\ sess[s].st = "pending"
                              /\ worker' = [worker EXCEPT ![w].at = "look", ![w].s = s]
    BY <1>2 DEF Claim
  <2>2. PICK m : m = [worker[w] EXCEPT !.at = "look", !.s = s]
    OBVIOUS
  <2>3. m \in WorkerMemory /\ m.at = "look" /\ m.s = s /\ worker' = [worker EXCEPT ![w] = m]
    BY <1>0, <2>1, <2>2 DEF WorkerMemory, WorkerSteps
  <2> QED BY <2>1, <2>3 DEF Fits, Carries
<1>3. CASE Payload(w) \/ Compare(w) \/ Absent(w)
  <2>1. CASE \E at \in {"read", "fail"} : Step(w, at)
    BY <1>3, <2>1, StepFits DEF Payload, Compare, Absent, At, WorkerSteps, Carries
  <2>2. CASE Resumes(w)
    <3>1. PICK m : m = [worker[w] EXCEPT !.at = "marker", !.resumes = TRUE]
      OBVIOUS
    <3>2. m \in WorkerMemory /\ m.at = "marker" /\ m.s = worker[w].s
      BY <1>0, <3>1 DEF WorkerMemory, WorkerSteps
    <3>3. worker' = [worker EXCEPT ![w] = m]
      BY <1>0, <2>2, <3>1 DEF Resumes
    <3> QED BY <1>3, <3>2, <3>3, KeepsSession DEF Payload, Compare, Absent, At, Carries
  <2>3. CASE worker' = [worker EXCEPT ![w].at = "compare", ![w].pdf = sess[Its(w)].sha]
    <3>1. worker[w].at # "idle"
      BY <1>3 DEF Payload, Compare, Absent, At
    <3>2. sess[Its(w)].sha \in Pdfs \union {NoPdf}
      BY <1>0, <3>1 DEF SessTyped, Session, TInv, Known
    <3>3. PICK m : m = [worker[w] EXCEPT !.at = "compare", !.pdf = sess[Its(w)].sha]
      OBVIOUS
    <3>4. m \in WorkerMemory /\ m.at = "compare" /\ m.s = worker[w].s
      BY <1>0, <3>2, <3>3 DEF WorkerMemory, WorkerSteps
    <3>5. worker' = [worker EXCEPT ![w] = m]
      BY <1>0, <2>3, <3>3
    <3> QED BY <3>1, <3>4, <3>5, KeepsSession DEF Carries
  <2> QED BY <1>3, <2>1, <2>2, <2>3 DEF Payload, Compare, Absent
<1>4. CASE Read(w)
  <2>1. CASE \E at \in {"fail", "absent"} : Step(w, at)
    BY <1>4, <2>1, StepFits DEF Read, At, WorkerSteps, Carries
  <2>2. CASE inprocess[Doc] # NoPdf
    <3>1. PICK m : m = [worker[w] EXCEPT !.at = "save", !.pdf = inprocess[Doc]]
      OBVIOUS
    <3>2. inprocess[Doc] \in Pdfs \union {NoPdf}
      BY <1>0 DEF LockTypeOK
    <3>3. m \in WorkerMemory /\ m.s = worker[w].s /\ m.pdf # NoPdf
      BY <1>0, <2>2, <3>1, <3>2 DEF WorkerMemory, WorkerSteps
    <3>4. worker' = [worker EXCEPT ![w] = m]
      BY <1>0, <1>4, <2>2, <3>1 DEF Read
    <3> QED BY <1>4, <3>3, <3>4, KeepsSession DEF Read, At
  <2> QED BY <1>4, <2>1, <2>2 DEF Read
<1>5. CASE Sign(w)
  <2>1. worker[w].pdf \in Pdfs /\ worker[w].at = "sign"
    BY <1>0, <1>5 DEF Sign, At, TInv, Known, Carries, WorkerMemory
  <2>2. PICK pdf : pdf = SignedBy(worker[w].pdf, User(w)) /\ pdf \in Pdfs
    BY <2>1, SignedIsPdf
  <2>3. PICK m : m = [worker[w] EXCEPT !.at = "fence", !.pdf = pdf]
    OBVIOUS
  <2>4. m \in WorkerMemory /\ m.s = worker[w].s /\ m.pdf # NoPdf
    BY <1>0, <2>2, <2>3, PdfLockAssumption DEF WorkerMemory, WorkerSteps
  <2>5. worker' = [worker EXCEPT ![w] = m]
    BY <1>0, <1>5, <2>2, <2>3 DEF Sign
  <2> QED BY <2>1, <2>4, <2>5, KeepsSession
<1>6. CASE Look(w)
  BY <1>6, StepFits DEF Look, At, WorkerSteps, Carries
<1>7. CASE \/ Save(w) \/ Fence(w) \/ Put(w) \/ MarkUploaded(w) \/ SettleUpload(w) \/ Marker(w)
           \/ UpdateSigner(w) \/ MarkSession(w) \/ GiveBack(w) \/ Breaks(w)
  <2>1. \/ Done(w)
        \/ \E at \in WorkerSteps : Step(w, at) /\ (at \in Carries => worker[w].at \in Carries)
    BY <1>7 DEF Save, Fence, Put, MarkUploaded, SettleUpload, Marker, UpdateSigner, MarkSession,
                GiveBack, Breaks, At, WorkerSteps, Carries
  <2>2. worker[w].at # "idle"
    BY <1>7 DEF Save, Fence, Put, MarkUploaded, SettleUpload, Marker, UpdateSigner, MarkSession,
                GiveBack, Breaks, At
  <2> QED BY <1>1, <2>1, <2>2, StepFits
<1> QED BY <1>1, <1>2, <1>3, <1>4, <1>5, <1>6, <1>7
     DEF Works, WorkerGoes, GivesUp, Clean, MarkFailed, BreaksLate, WorkerDies

\* What a worker does to the sessions.
SessMoves == /\ SessTyped'
             /\ \A s \in Sessions : /\ sess'[s].u = sess[s].u
                                    /\ sess'[s].st = "none" <=> sess[s].st = "none"

LEMMA WorkerMarks ==
  ASSUME TInv, NEW w \in Workers, Works(w)
  PROVE  SessMoves
<1>0. SessTyped /\ Retries \in Nat \ {0}
  BY TypeParts, CommonAssumption DEF TInv
<1>1. CASE UNCHANGED sess
  BY <1>0, <1>1 DEF SessTyped, SessMoves
<1>2. ASSUME NEW s \in Sessions, NEW c \in Session, sess' = [sess EXCEPT ![s] = c],
             c.u = sess[s].u, c.st = "none" <=> sess[s].st = "none"
      PROVE  SessMoves
  BY <1>0, <1>2 DEF SessTyped, SessMoves
<1>3. CASE Claim(w)
  <2>1. PICK s \in Sessions : /\ sess[s].st = "pending"
                              /\ sess' = [sess EXCEPT ![s].st = "processing", ![s].by = w]
    BY <1>3 DEF Claim
  <2>2. PICK c : c = [sess[s] EXCEPT !.st = "processing", !.by = w]
    OBVIOUS
  <2>3. sess[s] \in Session
    BY <1>0 DEF SessTyped
  <2>4. c \in Session /\ c.u = sess[s].u /\ c.st = "processing"
    BY <2>2, <2>3 DEF Session, Statuses
  <2>5. sess' = [sess EXCEPT ![s] = c]
    BY <1>0, <2>1, <2>2
  <2> QED BY <1>2, <2>1, <2>4, <2>5
<1>4. CASE worker[w].at # "idle"
  <2>1. PICK s \in Sessions : s = Its(w) /\ sess[s].st # "none" /\ sess[s] \in Session
    BY <1>0, <1>4 DEF TInv, Known, SessTyped
  <2>2. CASE Save(w)
    <3>1. PICK c : c = [sess[s] EXCEPT !.sha = worker[w].pdf]
      OBVIOUS
    <3>2. worker[w].pdf \in Pdfs \union {NoPdf}
      BY TypeParts DEF TInv, WorkerTyped, WorkerMemory
    <3>3. c \in Session /\ c.u = sess[s].u /\ c.st = sess[s].st
      BY <2>1, <3>1, <3>2 DEF Session
    <3>4. sess' = [sess EXCEPT ![s] = c]
      BY <2>1, <2>2, <3>1 DEF Save
    <3> QED BY <1>2, <3>3, <3>4
  <2>3. CASE MarkUploaded(w) \/ Marker(w)
    <3>1. PICK c : c = [sess[s] EXCEPT !.up = TRUE]
      OBVIOUS
    <3>2. c \in Session /\ c.u = sess[s].u /\ c.st = sess[s].st
      BY <2>1, <3>1 DEF Session
    <3>3. sess' = [sess EXCEPT ![s] = c]
      BY <2>1, <2>3, <3>1 DEF MarkUploaded, Marker
    <3> QED BY <1>2, <3>2, <3>3
  <2>4. CASE MarkSession(w)
    <3>1. PICK c : c = [sess[s] EXCEPT !.st = "signed", !.by = w]
      OBVIOUS
    <3>2. c \in Session /\ c.u = sess[s].u /\ c.st = "signed"
      BY <2>1, <3>1 DEF Session, Statuses
    <3>3. UNCHANGED sess \/ sess' = [sess EXCEPT ![s] = c]
      BY <2>1, <2>4, <3>1 DEF MarkSession
    <3> QED BY <1>1, <1>2, <2>1, <3>2, <3>3
  <2>5. CASE MarkFailed(w)
    <3>1. PICK c : c = [sess[s] EXCEPT !.st = "failed"]
      OBVIOUS
    <3>2. c \in Session /\ c.u = sess[s].u /\ c.st = "failed"
      BY <2>1, <3>1 DEF Session, Statuses
    <3>3. UNCHANGED sess \/ sess' = [sess EXCEPT ![s] = c]
      BY <2>1, <2>5, <3>1 DEF MarkFailed, Finished
    <3> QED BY <1>1, <1>2, <2>1, <3>2, <3>3
  <2>6. CASE BreaksLate(w)
    <3>1. PICK n : n = IF sess[s].tries < Retries THEN sess[s].tries + 1 ELSE Retries
      OBVIOUS
    <3>2. n \in 0 .. Retries
      BY <1>0, <2>1, <3>1 DEF Session
    <3>3. PICK b \in {sess, [sess EXCEPT ![s].st = "failed"],
                      [sess EXCEPT ![s].st = "pending", ![s].by = Nobody]} :
            sess' = [b EXCEPT ![s].tries = n]
      BY <2>1, <2>6, <3>1 DEF BreaksLate, Finished, Requeued
    <3>4. ASSUME NEW st \in {sess[s].st, "failed", "pending"},
                 NEW by \in {sess[s].by, Nobody},
                 b = [sess EXCEPT ![s] = [sess[s] EXCEPT !.st = st, !.by = by]]
          PROVE  SessMoves
      <4>1. PICK c : c = [sess[s] EXCEPT !.st = st, !.by = by, !.tries = n]
        OBVIOUS
      <4>2. c \in Session /\ c.u = sess[s].u /\ c.st # "none"
        BY <2>1, <3>2, <4>1 DEF Session, Statuses
      <4>3. sess' = [sess EXCEPT ![s] = c]
        BY <1>0, <3>3, <3>4, <4>1 DEF SessTyped
      <4> QED BY <1>2, <2>1, <4>2, <4>3
    <3>5. \/ b = [sess EXCEPT ![s] = [sess[s] EXCEPT !.st = sess[s].st, !.by = sess[s].by]]
          \/ b = [sess EXCEPT ![s] = [sess[s] EXCEPT !.st = "failed", !.by = sess[s].by]]
          \/ b = [sess EXCEPT ![s] = [sess[s] EXCEPT !.st = "pending", !.by = Nobody]]
      BY <1>0, <2>1, <3>3 DEF SessTyped, Session
    <3> QED BY <3>4, <3>5
  <2> QED BY <1>1, <1>4, <2>2, <2>3, <2>4, <2>5, <2>6
       DEF Works, WorkerGoes, Claim, At, GivesUp, Breaks, WorkerDies, Look, Payload, Compare,
           Read, Absent, Sign, Fence, Put, SettleUpload, UpdateSigner, Clean, GiveBack
<1> QED BY <1>1, <1>3, <1>4
     DEF Works, WorkerGoes, At, GivesUp, Breaks, BreaksLate, WorkerDies, Look, Payload,
         Compare, Read, Absent, Save, Sign, Fence, Put, MarkUploaded, SettleUpload, Marker,
         UpdateSigner, MarkSession, Clean, GiveBack, MarkFailed

\* A worker at the lock, and at the object store.
LEMMA WorkerAtLock ==
  ASSUME TInv, NEW w \in Workers, Works(w)
  PROVE  /\ LockTypeOK'
         /\ \A a \in Callers : a # w => move'[a] = move[a]
         /\ move'[w].at # "still" => move'[w].d = Doc
<1>0. /\ LockTypeOK /\ w \in Callers /\ Doc \in Docs
      /\ move[w].at # "still" => move[w].d = Doc
      /\ worker[w].pdf \in Pdfs \union {NoPdf}
  BY TypeParts, CommonAssumption DEF TInv, Known, WorkerTyped, WorkerMemory
<1>1. CASE UNCHANGED lockVars
  BY <1>0, <1>1 DEF lockVars, store, LockTypeOK
<1>2. CASE Settle(w, Doc) \/ Release(w, Doc) \/ (Dead(w) /\ UNCHANGED store)
  BY <1>0, <1>2, LockTypes
<1>3. CASE Put(w) \/ Clean(w)
  BY <1>0, <1>3 DEF Put, Clean, LockTypeOK
<1> QED BY <1>1, <1>2, <1>3
     DEF Works, WorkerGoes, Claim, GivesUp, Breaks, BreaksLate, WorkerDies, Look, Payload,
         Compare, Read, Absent, Save, Sign, Fence, MarkUploaded, SettleUpload, Marker,
         UpdateSigner, MarkSession, GiveBack, MarkFailed

\* Workers keep the types.
LEMMA WorkerTypes ==
  ASSUME TInv, NEW w \in Workers, Works(w)
  PROVE  TInv'
<1>0. DatabaseTyped /\ WorkerTyped /\ RequestTyped
  BY TypeParts DEF TInv
<1>1. DatabaseTyped' /\ UNCHANGED request
  <2>1. UNCHANGED <<draft, reject, request>>
    BY DEF Works, WorkerGoes, Claim, GivesUp, Breaks, BreaksLate, WorkerDies, Look, Payload,
           Compare, Read, Absent, Save, Sign, Fence, MarkUploaded, SettleUpload, Marker,
           UpdateSigner, MarkSession, GiveBack, MarkFailed, Put, Clean, WorkerKeeps
  <2>2. UNCHANGED faults \/ \E k : Fault(k)
    BY DEF Works, WorkerGoes, Claim, GivesUp, Breaks, BreaksLate, WorkerDies, Look, Payload,
           Compare, Read, Absent, Save, Sign, Fence, MarkUploaded, SettleUpload, Marker,
           UpdateSigner, MarkSession, GiveBack, MarkFailed, Put, Clean
  <2>3. UNCHANGED signer \/ UpdateSigner(w)
    BY DEF Works, WorkerGoes, Claim, GivesUp, Breaks, BreaksLate, WorkerDies, Look, Payload,
           Compare, Read, Absent, Save, Sign, Fence, MarkUploaded, SettleUpload, Marker,
           MarkSession, GiveBack, MarkFailed, Put, Clean
  <2>4. faults' \in 0 .. MaxFaults
    BY <1>0, <2>2, CommonAssumption DEF Fault, DatabaseTyped
  <2>5. signer' \in [Signers -> {"pending", "signed", "rejected"}]
    BY <1>0, <2>3 DEF UpdateSigner, DatabaseTyped
  <2> QED BY <1>0, <2>1, <2>4, <2>5 DEF DatabaseTyped
<1>2. PICK m : Fits(m) /\ worker' = [worker EXCEPT ![w] = m]
  BY WorkerFits
<1>3. WorkerTyped' /\ \A v \in Workers : worker'[v] # worker[v] => v = w /\ worker'[v] = m
  BY <1>0, <1>2 DEF WorkerTyped, Fits
<1>4. SessMoves
  BY WorkerMarks
<1>5. LockTypeOK' /\ \A a \in Callers : move'[a].at # "still" => move'[a].d = Doc
  BY WorkerAtLock DEF TInv, Known
<1>6. RequestTyped' /\ \A r \in Requests :
        request'[r].at \in {"lock", "wait"} => request'[r].u \in Signers
  BY <1>0, <1>1 DEF RequestTyped, TInv, Known
<1>7. \A v \in Workers : worker'[v] # worker[v] =>
           /\ worker'[v].at # "idle" => Its(v)' \in Sessions /\ sess[Its(v)'].st # "none"
           /\ worker'[v].at \in Carries => worker'[v].pdf # NoPdf
  BY <1>2, <1>3 DEF Fits, Its
<1> QED BY <1>1, <1>3, <1>4, <1>5, <1>6, <1>7, TypesKept DEF SessMoves

\* So do requests.
LEMMA RequestTypes ==
  ASSUME TInv, NEW r \in Requests,
         RequestLook(r) \/ RequestGoes(r) \/ RequestInsertFails(r) \/ RequestDies(r)
  PROVE  TInv'
<1>0. /\ LockTypeOK /\ DatabaseTyped /\ SessTyped /\ WorkerTyped /\ RequestTyped
      /\ r \in Callers
      /\ move[r].at # "still" => move[r].d = Doc
      /\ request[r] \in RequestMemory /\ Resting \in RequestMemory /\ Resting.at = "idle"
  BY TypeParts, CommonAssumption
     DEF TInv, Known, RequestTyped, RequestMemory, Resting
<1>1. DatabaseTyped' /\ UNCHANGED worker
  <2>1. UNCHANGED faults \/ \E k : Fault(k)
    BY DEF RequestLook, RequestGoes, RequestInsertFails, RequestDies, RequestLock, RequestLost,
           RequestInsert, RequestFinds
  <2>2. UNCHANGED <<draft, signer, worker, reject>>
    BY DEF RequestLook, RequestGoes, RequestInsertFails, RequestDies, RequestLock, RequestLost,
           RequestInsert, RequestFinds, RequestKeeps
  <2>3. faults' \in 0 .. MaxFaults
    BY <1>0, <2>1, CommonAssumption DEF Fault, DatabaseTyped
  <2> QED BY <1>0, <2>2, <2>3 DEF DatabaseTyped
<1>2. /\ LockTypeOK' /\ \A a \in Callers : move'[a].at # "still" => move'[a].d = Doc
  <2>1. CASE UNCHANGED lockVars
    BY <1>0, <2>1 DEF lockVars, store, LockTypeOK, TInv, Known
  <2>2. CASE Acquire(r, Doc) \/ Release(r, Doc) \/ (Dead(r) /\ UNCHANGED store)
    BY <1>0, <2>2, LockTypes DEF TInv, Known
  <2> QED BY <2>1, <2>2 DEF RequestLook, RequestGoes, RequestInsertFails, RequestDies,
                            RequestLock, RequestLost, RequestInsert, RequestFinds
<1>3. RequestTyped' /\ \A q \in Requests :
        request'[q].at \in {"lock", "wait"} => request'[q].u \in Signers
  <2>1. ASSUME NEW m \in RequestMemory, request' = [request EXCEPT ![r] = m],
               m.at \in {"lock", "wait"} => m.u \in Signers
        PROVE  <1>3
    BY <1>0, <2>1 DEF RequestTyped, TInv, Known
  <2>2. CASE RequestEnds(r)
    BY <1>0, <2>1, <2>2 DEF RequestEnds
  <2>3. ASSUME NEW at \in {"wait", "kept", "dead"}, RequestTo(r, at),
               request[r].at \in {"lock", "wait"}
        PROVE  <1>3
    <3>1. PICK m : m = [request[r] EXCEPT !.at = at]
      OBVIOUS
    <3>2. m \in RequestMemory /\ m.u = request[r].u
      BY <1>0, <3>1 DEF RequestMemory
    <3>3. request' = [request EXCEPT ![r] = m]
      BY <2>3, <3>1 DEF RequestTo
    <3> QED BY <2>1, <2>3, <3>2, <3>3 DEF TInv, Known
  <2>4. CASE RequestLook(r)
    <3>1. PICK u \in Signers : request' = [request EXCEPT ![r] = [at |-> "lock", u |-> u]]
      BY <2>4 DEF RequestLook
    <3>2. PICK m : m = [at |-> "lock", u |-> u]
      OBVIOUS
    <3> QED BY <2>1, <3>1, <3>2 DEF RequestMemory
  <2> QED BY <2>2, <2>3, <2>4
       DEF RequestGoes, RequestInsertFails, RequestDies, RequestLock, RequestLost,
           RequestInsert, RequestFinds, RequestIs
<1>4. /\ SessTyped'
      /\ \A s \in Sessions : /\ sess'[s].u = sess[s].u \/ sess'[s].u \in Signers
                             /\ sess'[s].st = "none" => sess[s].st = "none"
                             /\ sess'[s].st # "none" =>
                                  sess[s].st # "none" \/ sess'[s].u \in Signers
  <2>1. CASE UNCHANGED sess
    BY <1>0, <2>1 DEF SessTyped
  <2>2. CASE RequestInsert(r)
    <3>1. PICK s \in Sessions :
            sess' = [sess EXCEPT ![s] = [NoSession EXCEPT !.st = "pending", !.u = request[r].u]]
      BY <2>2 DEF RequestInsert
    <3>2. PICK c : c = [NoSession EXCEPT !.st = "pending", !.u = request[r].u]
      OBVIOUS
    <3>3. request[r].u \in Signers /\ NoSession \in Session
      BY <2>2, CommonAssumption DEF RequestInsert, TInv, Known, NoSession, Session, Statuses
    <3>4. c \in Session /\ c.u \in Signers /\ c.st = "pending"
      BY <3>2, <3>3 DEF Session, Statuses
    <3> QED BY <1>0, <3>1, <3>2, <3>4 DEF SessTyped
  <2> QED BY <2>1, <2>2 DEF RequestLook, RequestGoes, RequestInsertFails, RequestDies,
                            RequestLock, RequestLost, RequestFinds, RequestKeeps
<1> QED BY <1>0, <1>1, <1>2, <1>3, <1>4, TypesKept DEF WorkerTyped

\* So do the calls on the lock that a caller has begun.
LEMMA MovesTypes ==
  ASSUME TInv, NEW a \in Callers, Moves(a)
  PROVE  TInv'
<1>0. /\ LockTypeOK /\ DatabaseTyped /\ SessTyped /\ WorkerTyped /\ RequestTyped
      /\ move[a].at # "still" => move[a].d = Doc
  BY TypeParts DEF TInv, Known
<1>1. UNCHANGED <<draft, signer, sess, worker, request, reject, faults>>
  BY DEF Moves, Elsewhere, NoFault, memory
<1>2. /\ LockTypeOK'
      /\ \A b \in Callers : b # a => move'[b] = move[b]
      /\ move'[a].at # "still" => move'[a].d = Doc
  BY <1>0, LockTypes DEF Moves
<1>3. \A b \in Callers : move'[b].at # "still" => move'[b].d = Doc
  BY <1>2 DEF TInv, Known
<1>4. DatabaseTyped' /\ SessTyped' /\ WorkerTyped' /\ RequestTyped'
  BY <1>0, <1>1 DEF DatabaseTyped, SessTyped, WorkerTyped, RequestTyped
<1>5. \A w \in Workers : worker'[w] = worker[w]
  BY <1>1
<1>6. \A r \in Requests : request'[r].at \in {"lock", "wait"} => request'[r].u \in Signers
  BY <1>1 DEF TInv, Known
<1>7. \A s \in Sessions : sess'[s] = sess[s] /\ (sess[s].st # "none" => sess[s].u \in Signers)
  BY <1>1 DEF TInv, Known
<1> QED BY <1>2, <1>3, <1>4, <1>5, <1>6, <1>7, TypesKept

\* So do the sweeper, the rejection of the document and the key's end.
Others == SweepPending \/ SweepProcessing \/ Reject \/ RejectGoes
          \/ (KeyExpires(Doc) /\ Elsewhere /\ Fault("key"))

LEMMA OthersTypes ==
  ASSUME TInv, Others
  PROVE  TInv'
<1>0. /\ LockTypeOK /\ DatabaseTyped /\ SessTyped /\ WorkerTyped /\ RequestTyped
      /\ Sweeper \in Callers /\ Rejecter \in Callers /\ Doc \in Docs
  BY TypeParts, CommonAssumption DEF TInv
<1>1. UNCHANGED <<worker, request>>
  BY DEF Others, SweepPending, SweepProcessing, Reject, RejectGoes, RejectTx, RejectExpire,
         RejectClear, Elsewhere, memory
<1>2. DatabaseTyped'
  <2>1. UNCHANGED faults \/ \E k : Fault(k)
    BY DEF Others, SweepPending, SweepProcessing, Reject, RejectGoes, RejectTx, RejectExpire,
           RejectClear
  <2>2. faults' \in 0 .. MaxFaults
    BY <1>0, <2>1, CommonAssumption DEF Fault, DatabaseTyped
  <2>3. signer' \in [Signers -> {"pending", "signed", "rejected"}]
    BY <1>0 DEF Others, SweepPending, SweepProcessing, Reject, RejectGoes, RejectTx, RejectExpire,
                RejectClear, Elsewhere, DatabaseTyped
  <2>4. /\ draft' \in {"sent_to_sign", "rejected"}
        /\ reject' \in {"idle", "tx", "expire", "clear"}
    BY <1>0 DEF Others, SweepPending, SweepProcessing, Reject, RejectGoes, RejectTx, RejectExpire,
                RejectClear, Elsewhere, memory, DatabaseTyped
  <2> QED BY <2>2, <2>3, <2>4 DEF DatabaseTyped
<1>3. LockTypeOK' /\ \A a \in Callers : move'[a].at # "still" => move'[a].d = Doc
  <2>1. CASE UNCHANGED lockVars
    BY <1>0, <2>1 DEF lockVars, store, LockTypeOK, TInv, Known
  <2>2. CASE Release(Sweeper, Doc) /\ IsStill(Sweeper)
    BY <1>0, <2>2, LockTypes DEF TInv, Known
  <2>3. CASE Settle(Rejecter, Doc) /\ IsStill(Rejecter)
    BY <1>0, <2>3, LockTypes DEF TInv, Known
  <2>4. CASE Reject \/ KeyExpires(Doc)
    BY <1>0, <2>4 DEF Reject, KeyExpires, LockTypeOK, TInv, Known
  <2> QED BY <2>1, <2>2, <2>3, <2>4 DEF Others, SweepPending, SweepProcessing, RejectGoes,
       RejectTx, RejectExpire, RejectClear, RejectIs
<1>4. SessMoves
  <2>1. CASE UNCHANGED sess
    BY <1>0, <2>1 DEF SessTyped, SessMoves
  <2>2. ASSUME NEW s \in Sessions, sess[s].st # "none",
               NEW st \in {"pending", "expired"}, NEW by \in {sess[s].by, Nobody},
               sess' = [sess EXCEPT ![s].st = st, ![s].by = by]
        PROVE  SessMoves
    <3>1. PICK c : c = [sess[s] EXCEPT !.st = st, !.by = by]
      OBVIOUS
    <3>2. sess[s] \in Session
      BY <1>0 DEF SessTyped
    <3>3. c \in Session /\ c.u = sess[s].u /\ c.st # "none"
      BY <3>1, <3>2 DEF Session, Statuses
    <3>4. sess' = [sess EXCEPT ![s] = c]
      BY <1>0, <2>2, <3>1 DEF SessTyped
    <3> QED BY <1>0, <2>2, <3>3, <3>4 DEF SessTyped, SessMoves
  <2>3. CASE SweepPending
    <3>1. PICK s \in Sessions : /\ sess[s].st = "pending"
                                /\ sess' = [sess EXCEPT ![s].st = "expired"]
      BY <2>3 DEF SweepPending
    <3>2. sess' = [sess EXCEPT ![s].st = "expired", ![s].by = sess[s].by]
      BY <1>0, <3>1 DEF SessTyped, Session
    <3> QED BY <2>2, <3>1, <3>2
  <2>4. CASE SweepProcessing
    BY <2>2, <2>4 DEF SweepProcessing, Abandoned, Requeued
  <2>5. CASE RejectExpire
    <3>1. \A s \in Sessions : sess'[s] = IF sess[s].st \in {"pending", "processing"}
                                THEN [sess[s] EXCEPT !.st = "expired"] ELSE sess[s]
      BY <2>5 DEF RejectExpire
    <3>2. ASSUME NEW s \in Sessions
          PROVE  /\ sess'[s] \in Session /\ sess'[s].u = sess[s].u
                 /\ sess'[s].st = "none" <=> sess[s].st = "none"
      <4>1. sess[s] \in Session
        BY <1>0 DEF SessTyped
      <4>2. PICK c : c = [sess[s] EXCEPT !.st = "expired"]
        OBVIOUS
      <4>3. c \in Session /\ c.u = sess[s].u /\ c.st = "expired"
        BY <4>1, <4>2 DEF Session, Statuses
      <4> QED BY <3>1, <4>1, <4>2, <4>3
    <3>3. sess' \in [Sessions -> Session]
      BY <2>5, <3>2 DEF RejectExpire
    <3> QED BY <3>2, <3>3 DEF SessMoves, SessTyped
  <2> QED BY <2>1, <2>3, <2>4, <2>5 DEF Others, Reject, RejectGoes, RejectTx, RejectClear, Elsewhere
<1>5. /\ WorkerTyped' /\ RequestTyped'
      /\ \A w \in Workers : worker'[w] = worker[w]
      /\ \A r \in Requests : request'[r].at \in {"lock", "wait"} => request'[r].u \in Signers
  BY <1>0, <1>1 DEF WorkerTyped, RequestTyped, TInv, Known
<1> QED BY <1>2, <1>3, <1>4, <1>5, TypesKept DEF SessMoves

\* Who can take a step.
LEMMA NextIs ==
  Next <=> \/ \E r \in Requests : \/ RequestLook(r) \/ RequestGoes(r)
                                  \/ RequestInsertFails(r) \/ RequestDies(r)
           \/ \E w \in Workers : Works(w)
           \/ \E a \in Callers : Moves(a)
           \/ Others
  BY DEF Next, RequestNext, WorkerNext, Works, Locks, Others

LEMMA InitTypes ==
  ASSUME Init
  PROVE  TInv
<1>0. /\ Doc \in Docs /\ Unsigned \in Pdfs /\ Still \in [at : LockSteps, d : Docs \union {NoDoc}]
      /\ Still.at = "still"
  BY CommonAssumption DEF Unsigned, Still, LockSteps
<1>1. LockTypeOK /\ \A a \in Callers : move[a].at = "still"
  BY <1>0 DEF Init, LockInit, LockTypeOK
<1>2. DatabaseTyped
  BY CommonAssumption DEF Init, DatabaseTyped
<1>3. SessTyped /\ \A s \in Sessions : sess[s].st = "none"
  <2>1. NoSession \in Session /\ NoSession.st = "none"
    BY CommonAssumption DEF NoSession, Session, Statuses
  <2> QED BY <2>1 DEF Init, SessTyped
<1>4. WorkerTyped /\ \A w \in Workers : worker[w].at = "idle"
  <2>1. Asleep \in WorkerMemory /\ Asleep.at = "idle"
    BY DEF Asleep, WorkerMemory, WorkerSteps
  <2> QED BY <2>1 DEF Init, WorkerTyped
<1>5. RequestTyped /\ \A r \in Requests : request[r].at = "idle"
  <2>1. Resting \in RequestMemory /\ Resting.at = "idle"
    BY DEF Resting, RequestMemory
  <2> QED BY <2>1 DEF Init, RequestTyped
<1> QED BY <1>1, <1>2, <1>3, <1>4, <1>5, TypeParts DEF TInv, Known, Carries

LEMMA NextTypes ==
  ASSUME TInv, [Next]_vars
  PROVE  TInv'
<1>1. CASE Next
  BY <1>1, NextIs, WorkerTypes, RequestTypes, MovesTypes, OthersTypes
<1>2. CASE UNCHANGED vars
  BY <1>2 DEF vars, memory, lockVars, store, TInv, Known, TypeOK, LockTypeOK, Its
<1> QED BY <1>1, <1>2

\* Every value has its type, and what has begun is about a session and a signer
\* that exist.
THEOREM TypeCorrect == Spec => []TypeOK
<1>1. Spec => []TInv
  BY InitTypes, NextTypes, PTL DEF Spec
<1>2. TInv => TypeOK
  BY DEF TInv
<1> QED BY <1>1, <1>2, PTL

-----------------------------------------------------------------------------
(* No signature is lost or put twice *)

Unrejected == Open /\ reject \in {"idle", "tx"} /\ \A u \in Signers : signer[u] # "rejected"
IInv == TInv /\ (Open => Unrejected /\ (Gone \/ Good))
Now == TInv /\ Unrejected /\ Good

\* A worker that has not got as far as the upload has the lock.
Busy == {"compare", "read", "uploaded", "fail"} \union Carries

LEMMA BusyHolds ==
  ASSUME Now, NEW w \in Workers, worker[w].at \in Busy
  PROVE  /\ HoldsS(Its(w)) /\ ~sess[Its(w)].up /\ Owns(w, Its(w)) /\ Its(w) \in Sessions
         /\ \A v \in Workers : worker[v].at \in Busy => v = w
         /\ \A r \in Requests : ~HoldsR(r)
<1>1. /\ \A v \in Workers : WorkerOf(v)
      /\ \A v \in Workers : worker[v].at # "idle" => Its(v) \in Sessions
  BY DEF Now, Good, TInv, Known
<1>2. ASSUME NEW v \in Workers, worker[v].at \in Busy
      PROVE  HoldsS(Its(v)) /\ ~sess[Its(v)].up /\ Owns(v, Its(v)) /\ Its(v) \in Sessions
  BY <1>1, <1>2 DEF WorkerOf, Busy, Carries, HoldsS, Alive, Owns
<1>3. Exclusive
  BY DEF Now, Good
<1> QED BY <1>2, <1>3 DEF Exclusive, Owns

\* Nothing brings a lost PDF back.
LEMMA GoneStays ==
  ASSUME TInv, Gone, Next
  PROVE  Gone'
<1>0. /\ \A a \in Callers : move[a].at # "still" => move[a].d = Doc
      /\ LockTypeOK /\ WorkerTyped /\ Doc \in Docs
  BY TypeParts, CommonAssumption DEF TInv, Known
<1>1. tosign'[Doc] = NoPdf /\ inprocess'[Doc] = NoPdf
  <2>1. CASE \E a \in Callers : Moves(a)
    BY <1>0, <2>1 DEF Moves, LockStep, Check, Take, Clear, Back, Drop, LockTypeOK, Gone
  <2>2. CASE \E w \in Workers : Works(w)
    BY <1>0, <2>2 DEF Gone, Carries, LockTypeOK, lockVars, store, Works, WorkerGoes, Claim, GivesUp,
       Breaks, BreaksLate, WorkerDies, Look, Payload, Compare, Read, Absent, Save, Sign, Fence, Put,
       MarkUploaded, SettleUpload, Marker, UpdateSigner, MarkSession, Clean, GiveBack, MarkFailed,
       Settle, Release, At
  <2>3. CASE \E r \in Requests : RequestLook(r) \/ RequestGoes(r) \/ RequestInsertFails(r)
                                 \/ RequestDies(r)
    BY <2>3 DEF Gone, lockVars, store, RequestLook, RequestGoes, RequestInsertFails, RequestDies,
       RequestLock, RequestLost, RequestInsert, RequestFinds, Acquire, Release
  <2>4. CASE Others
    BY <1>0, <2>4 DEF Gone, lockVars, store, Others, SweepPending, SweepProcessing, Reject, RejectGoes,
       RejectTx, RejectExpire, RejectClear, KeyExpires, Release, Settle, LockTypeOK
  <2> QED BY <2>1, <2>2, <2>3, <2>4, NextIs
<1>2. \A w \in Workers : worker'[w].at \notin Carries
  <2>1. CASE UNCHANGED worker
    BY <2>1 DEF Gone
  <2>2. ASSUME NEW w \in Workers, Works(w)
        PROVE  worker'[w].at \notin Carries /\ \A v \in Workers : v # w => worker'[v] = worker[v]
    <3>1. WorkerTyped /\ worker[w] \in WorkerMemory
      BY <1>0 DEF WorkerTyped
    <3>2. CASE Look(w) \/ Absent(w) \/ Compare(w) \/ MarkUploaded(w) \/ SettleUpload(w) \/ Marker(w)
               \/ UpdateSigner(w) \/ Breaks(w) \/ GiveBack(w) \/ Payload(w) \/ Claim(w)
      <4>1. CASE \E at \in WorkerSteps \ Carries : Step(w, at)
        BY <3>1, <4>1 DEF WorkerTyped, WorkerMemory, Carries, Step
      <4>2. ASSUME NEW m, m.at \notin Carries, worker' = [worker EXCEPT ![w] = m]
            PROVE  worker'[w].at \notin Carries /\ \A v \in Workers : v # w => worker'[v] = worker[v]
        BY <3>1, <4>2 DEF WorkerTyped
      <4>3. CASE Resumes(w)
        <5>1. PICK m : m = [worker[w] EXCEPT !.at = "marker", !.resumes = TRUE]
          OBVIOUS
        <5>2. m.at = "marker" /\ worker' = [worker EXCEPT ![w] = m]
          BY <3>1, <4>3, <5>1 DEF Resumes, WorkerMemory
        <5> QED BY <4>2, <5>2 DEF Carries
      <4>4. CASE Payload(w) /\ ~Marked(w)
        <5>1. PICK m : m = [worker[w] EXCEPT !.at = "compare", !.pdf = sess[Its(w)].sha]
          OBVIOUS
        <5>2. m.at = "compare" /\ worker' = [worker EXCEPT ![w] = m]
          BY <3>1, <4>4, <5>1 DEF Payload, WorkerMemory
        <5> QED BY <4>2, <5>2 DEF Carries
      <4>5. CASE Claim(w)
        <5>1. PICK s \in Sessions : worker' = [worker EXCEPT ![w].at = "look", ![w].s = s]
          BY <4>5 DEF Claim
        <5>2. PICK m : m = [worker[w] EXCEPT !.at = "look", !.s = s]
          OBVIOUS
        <5>3. m.at = "look" /\ worker' = [worker EXCEPT ![w] = m]
          BY <3>1, <5>1, <5>2 DEF WorkerMemory
        <5> QED BY <4>2, <5>3 DEF Carries
      <4> QED BY <3>2, <4>1, <4>3, <4>4, <4>5 DEF Look, Absent, Compare, MarkUploaded, SettleUpload,
           Marker, UpdateSigner, Breaks, GiveBack, Payload, Carries, WorkerSteps
    <3>3. CASE Done(w) \/ MarkSession(w)
      BY <3>1, <3>3 DEF WorkerTyped, WorkerMemory, Carries, Done, Asleep, MarkSession, Step
    <3>4. CASE Read(w)
      BY <3>1, <3>4 DEF WorkerTyped, WorkerMemory, Carries, Read, Step, Gone
    <3> QED BY <2>2, <3>2, <3>3, <3>4 DEF Works, WorkerGoes, GivesUp, Clean, MarkFailed, BreaksLate,
         WorkerDies, Save, Sign, Fence, Put, At, Gone, Carries
  <2>3. UNCHANGED worker \/ \E w \in Workers : Works(w)
    BY NextIs DEF Moves, Elsewhere, Others, memory, SweepPending, SweepProcessing, Reject, RejectGoes,
       RejectTx, RejectExpire, RejectClear, RequestLook, RequestGoes, RequestInsertFails, RequestDies,
       RequestLock, RequestLost, RequestInsert, RequestFinds, RequestKeeps
  <2> QED BY <2>1, <2>2, <2>3 DEF Gone
<1> QED BY <1>1, <1>2 DEF Gone

\* Whoever is taking the PDF has the lock.
LEMMA TakersHold ==
  ASSUME Now
  PROVE  \A b \in Callers : move[b].at \in {"check", "take", "clear", "won"} =>
            b \in Requests /\ request[b].at = "wait" /\ HoldsR(b)
<1>0. Calls
  BY DEF Now, Good
<1>1. ASSUME NEW r \in Requests, move[r].at \in {"check", "take", "clear", "won"}
      PROVE  request[r].at = "wait"
  <2>1. request[r].at \in {"idle", "lock", "wait", "dead", "kept"} /\ CallerOf(r)
    BY <1>0, TypeParts DEF Now, TInv, RequestTyped, RequestMemory, Calls
  <2> QED BY <1>1, <2>1 DEF CallerOf
<1>2. \A b \in Callers : move[b].at \in {"check", "take", "clear", "won"} => b \in Requests
  BY <1>0, CommonAssumption DEF Calls
<1> QED BY <1>1, <1>2 DEF HoldsR

\* Whatever a request, the sweeper or the lock does, the store as it is.
LEMMA StoreStill ==
  ASSUME Now, UNCHANGED <<signer, sess, worker, reject, tosign, inprocess>>,
         UNCHANGED faults \/ \E k : Fault(k)
  PROVE  /\ \A s \in Sessions : (HoldsS(s)' <=> HoldsS(s)) /\ SessionOf(s)'
         /\ \A w \in Workers : WorkerOf(w)' /\ CopyOf(w)'
         /\ Stored'
<1>0. /\ Stored /\ faults \in Nat
      /\ \A s \in Sessions : SessionOf(s)
      /\ \A w \in Workers : WorkerOf(w) /\ CopyOf(w)
  BY TypeParts, CommonAssumption DEF Now, Good, TInv, DatabaseTyped
<1>1. /\ \A s \in Sessions : HoldsS(s)' <=> HoldsS(s)
      /\ \A s \in Sessions : Alive(s)' <=> Alive(s)
      /\ \A u : Recorded(u)' <=> Recorded(u)
  BY DEF HoldsS, Alive, Its, Recorded
<1>2. faults' >= faults /\ faults' \in Nat
  BY <1>0 DEF Fault
<1>3. ASSUME NEW s \in Sessions
      PROVE  SessionOf(s)'
  <2>1. SessionOf(s) /\ sess[s].tries \in Nat
    BY <1>0, TypeParts, CommonAssumption DEF Now, TInv, SessTyped, Session
  <2>2. sess[s].tries <= faults'
    BY <1>0, <1>2, <2>1 DEF SessionOf
  <2>3. Stranded(s)' => Crashed'
    BY <1>0, <1>1, <1>2, <2>1 DEF SessionOf, Stranded, Sent, Its, Crashed
  <2> QED BY <1>1, <2>1, <2>2, <2>3 DEF SessionOf
<1>4. \A w \in Workers : WorkerOf(w)' /\ CopyOf(w)'
  <2>1. Broken => Broken'
    BY <1>0, <1>2 DEF Broken
  <2> QED BY <1>0, <1>1, <2>1 DEF WorkerOf, Owns, Its, CopyOf, Honest, Complete, Upright, User
<1>5. Stored'
  BY <1>0, <1>1 DEF Stored, Upright, Honest, Complete
<1> QED BY <1>1, <1>3, <1>4, <1>5

LEMMA MovesKeep ==
  ASSUME Now, TInv', NEW a \in Callers, Moves(a)
  PROVE  Gone' \/ Good'
<1>0. /\ UNCHANGED <<draft, signer, sess, worker, request, reject, faults>>
      /\ move[a].d = Doc /\ move[a].at # "still" /\ Doc \in Docs /\ LockTypeOK
      /\ \A b \in Callers : b # a => move'[b] = move[b]
      /\ \A r \in Requests : r \in Callers
      /\ Exclusive /\ Calls /\ Stored /\ LockStep(a)
      /\ \A b \in Callers : BackOf(b)
      /\ \A r \in Requests : TakeOf(r)
      /\ \A s \in Sessions : SessionOf(s)
      /\ \A w \in Workers : WorkerOf(w) /\ CopyOf(w)
  <2>1. LockStep(a) /\ UNCHANGED <<draft, signer, sess, worker, request, reject, faults>>
    BY DEF Moves, Elsewhere, NoFault, memory
  <2>2. move[a].at # "still"
    BY <2>1 DEF LockStep, Check, Take, Clear, Back, Drop
  <2>3. LockTypeOK /\ move[a].d = Doc
    BY <2>2, TypeParts DEF Now, TInv, Known
  <2> QED BY <2>1, <2>2, <2>3, LockTypes, CommonAssumption DEF Now, Good
<1>1. /\ \A s \in Sessions : HoldsS(s)' <=> HoldsS(s)
      /\ \A s \in Sessions : Alive(s)' <=> Alive(s)
      /\ \A u : Recorded(u)' <=> Recorded(u)
  BY <1>0 DEF HoldsS, Alive, Its, Recorded
<1>2. \A w \in Workers : CopyOf(w)'
  BY <1>0, <1>1 DEF CopyOf, Honest, Complete, Upright, User, Its
<1>3. \A w \in Workers : worker[w].at \in Busy => HoldsS(Its(w)) /\ Its(w) \in Sessions
  BY BusyHolds
<1>4. ASSUME UNCHANGED tosign
      PROVE  /\ \A s \in Sessions : SessionOf(s)'
             /\ \A w \in Workers : WorkerOf(w)'
  BY <1>0, <1>1, <1>4 DEF SessionOf, Stranded, Sent, Its, Crashed, WorkerOf, Owns, Alive, Broken
<1>5. ASSUME UNCHANGED <<tosign, inprocess>>
      PROVE  Stored'
  BY <1>0, <1>1, <1>5 DEF Stored, Upright, Honest, Complete
\* A request that sees no copy goes on; one that sees a copy gives up.
<1>6. CASE Check(a)
  <2>1. a \in Requests /\ request[a].at = "wait" /\ HoldsR(a)
    BY <1>6, TakersHold DEF Check
  <2>2. UNCHANGED <<tosign, inprocess>>
    BY <1>6 DEF Check
  <2>3. Stored' /\ (\A s \in Sessions : SessionOf(s)') /\ \A w \in Workers : WorkerOf(w)'
    BY <1>4, <1>5, <2>2
  <2>4. CASE inprocess[Doc] = NoPdf
    <3>1. /\ key' = key /\ move'[a].at = "take"
      BY <1>0, <1>6, <2>4 DEF Check, Goes, LockTypeOK
    <3>2. CASE tosign[Doc] = NoPdf
      BY <1>0, <1>3, <2>1, <2>2, <2>4, <3>2 DEF Gone, Exclusive, Busy
    <3>3. CASE tosign[Doc] # NoPdf
      <4>1. \A r \in Requests : HoldsR(r)' <=> HoldsR(r)
        BY <1>0, <2>1, <3>1 DEF HoldsR
      <4>2. Exclusive'
        BY <1>0, <1>1, <3>1, <4>1 DEF Exclusive
      <4>3. Calls'
        BY <1>0, <2>1, <3>1, CallersAssumption, CommonAssumption DEF Calls, CallerOf
      <4>4. \A b \in Callers : BackOf(b)'
        BY <1>0, <1>1, <2>2, <2>4, <3>1, <4>1 DEF BackOf
      <4>5. \A r \in Requests : TakeOf(r)'
        BY <1>0, <2>2, <2>4, <3>1, <3>3 DEF TakeOf
      <4> QED BY <1>2, <2>3, <4>2, <4>3, <4>4, <4>5 DEF Good
    <3> QED BY <3>2, <3>3
  <2>5. CASE inprocess[Doc] # NoPdf
    <3>1. move'[a].at = "lost"
      BY <1>0, <1>6, <2>5 DEF Check, Goes, LockTypeOK
    <3>2. /\ \A r \in Requests : ~HoldsR(r)'
          /\ \A s \in Sessions : ~HoldsS(s)'
      BY <1>0, <1>1, <2>1, <3>1 DEF HoldsR, Exclusive
    <3>3. Exclusive'
      BY <3>2 DEF Exclusive
    <3>4. Calls'
      BY <1>0, <2>1, <3>1, CallersAssumption, CommonAssumption DEF Calls, CallerOf
    <3>5. \A b \in Callers : BackOf(b)'
      BY <1>0, <2>2, <3>1, <3>2 DEF BackOf
    <3>6. \A r \in Requests : TakeOf(r)'
      BY <1>0, <2>2, <3>1 DEF TakeOf
    <3> QED BY <1>2, <2>3, <3>3, <3>4, <3>5, <3>6 DEF Good
  <2> QED BY <2>4, <2>5
\* The copy is made before the original is deleted.
<1>7. CASE Take(a)
  <2>1. a \in Requests /\ request[a].at = "wait" /\ HoldsR(a)
    BY <1>7, TakersHold DEF Take
  <2>2. tosign[Doc] # NoPdf /\ inprocess[Doc] = NoPdf
    BY <1>0, <1>7, <2>1 DEF Take, TakeOf
  <2>3. /\ UNCHANGED <<key, tosign>> /\ inprocess'[Doc] = tosign[Doc] /\ move'[a].at = "clear"
    BY <1>0, <1>7, <2>2 DEF Take, Goes, LockTypeOK
  <2>4. (\A s \in Sessions : SessionOf(s)') /\ \A w \in Workers : WorkerOf(w)'
    BY <1>4, <2>3
  <2>5. \A s \in Sessions : ~HoldsS(s)
    BY <1>0, <2>1 DEF Exclusive
  <2>6. Stored'
    BY <1>0, <1>1, <2>2, <2>3, <2>5 DEF Stored, Upright, Honest, Complete
  <2>7. \A r \in Requests : HoldsR(r)' <=> HoldsR(r)
    BY <1>0, <2>1, <2>3 DEF HoldsR
  <2>8. Exclusive'
    BY <1>0, <1>1, <2>3, <2>7 DEF Exclusive
  <2>9. Calls'
    BY <1>0, <2>1, <2>3, CallersAssumption, CommonAssumption DEF Calls, CallerOf
  <2>10. \A b \in Callers : BackOf(b)'
    BY <1>0, <2>2, <2>3 DEF BackOf
  <2>11. \A r \in Requests : TakeOf(r)'
    BY TakersHold, <1>0, <2>1, <2>2, <2>3 DEF TakeOf, Exclusive
  <2> QED BY <1>2, <2>4, <2>6, <2>8, <2>9, <2>10, <2>11 DEF Good
<1>8. CASE Clear(a)
  <2>1. a \in Requests /\ request[a].at = "wait" /\ HoldsR(a)
    BY <1>8, TakersHold DEF Clear
  <2>2. UNCHANGED <<key, inprocess>> /\ tosign'[Doc] = NoPdf /\ move'[a].at = "won"
    BY <1>0, <1>8 DEF Clear, Goes, LockTypeOK
  <2>3. \A s \in Sessions : ~HoldsS(s)
    BY <1>0, <2>1 DEF Exclusive
  <2>4. CASE inprocess[Doc] = NoPdf
    BY <1>0, <1>3, <2>2, <2>3, <2>4 DEF Gone, Busy
  <2>5. CASE inprocess[Doc] # NoPdf
    <3>1. Stored'
      BY <1>0, <1>1, <1>8, <2>1, <2>2, <2>3, <2>5 DEF Stored, Upright, Honest, Complete, TakeOf, Clear
    <3>2. \A s \in Sessions : SessionOf(s)'
      BY <1>0, <1>1, <2>2, <2>3 DEF SessionOf, Stranded, Sent, Its, Crashed, Alive
    <3>3. \A w \in Workers : WorkerOf(w)'
      <4>1. \A w \in Workers : worker[w].at \notin Busy
        BY <1>3, <2>3
      <4>2. ASSUME NEW w \in Workers, worker[w].at = "marker", reject = "idle"
            PROVE  sess[Its(w)].up
        <5>1. Its(w) \in Sessions /\ Owns(w, Its(w))
          BY <1>0, <4>2 DEF WorkerOf, Now, TInv, Known
        <5>2. ~HoldsS(Its(w))
          BY <2>3, <5>1
        <5>3. sess[Its(w)].up \/ \E v \in Workers : Its(v) = Its(w) /\ worker[v].at = "failed"
          BY <5>1, <5>2 DEF HoldsS, Alive, Owns
        <5> QED BY <1>0, <4>2, <5>1, <5>3 DEF WorkerOf, Owns
      <4> QED BY <1>0, <1>1, <4>1, <4>2 DEF WorkerOf, Owns, Broken, Its, Busy
    <3>4. \A r \in Requests : HoldsR(r)' <=> HoldsR(r)
      BY <1>0, <2>1, <2>2 DEF HoldsR
    <3>5. Exclusive'
      BY <1>0, <1>1, <2>2, <3>4 DEF Exclusive
    <3>6. Calls'
      BY <1>0, <2>1, <2>2, CallersAssumption, CommonAssumption DEF Calls, CallerOf
    <3>7. \A b \in Callers : BackOf(b)'
      BY <1>0, <1>8, <2>1, <2>2 DEF BackOf, Clear
    <3>8. \A r \in Requests : TakeOf(r)'
      BY TakersHold, <1>0, <2>1, <2>2 DEF TakeOf, Exclusive
    <3> QED BY <1>2, <3>1, <3>2, <3>3, <3>5, <3>6, <3>7, <3>8 DEF Good
  <2> QED BY <2>4, <2>5
<1>9. CASE Back(a)
  <2>1. /\ tosign[Doc] = NoPdf /\ inprocess[Doc] # NoPdf
        /\ \A b \in Callers : move[b].at = "back" => a = b
        /\ \A r \in Requests : HoldsR(r) => move[r].at = "check"
        /\ \A s \in Sessions : ~HoldsS(s)
    BY <1>0, <1>9 DEF BackOf, Back
  <2>2. UNCHANGED <<key, inprocess>> /\ tosign'[Doc] = inprocess[Doc] /\ move'[a].at = "drop"
    BY <1>0, <1>9, <2>1 DEF Back, Goes, LockTypeOK
  <2>3. Stored'
    BY <1>0, <1>1, <2>1, <2>2 DEF Stored, Upright, Honest, Complete
  <2>4. \A s \in Sessions : SessionOf(s)'
    BY <1>0, <1>1, <2>1, <2>2 DEF SessionOf, Stranded, Sent, Its, Crashed, Alive
  <2>5. \A w \in Workers : WorkerOf(w)'
    <3>1. \A w \in Workers : worker[w].at \notin Busy
      BY <1>3, <2>1
    <3> QED BY <1>0, <2>1, <2>2, <3>1 DEF WorkerOf, Owns, Broken, Its, Busy
  <2>6. \A r \in Requests : HoldsR(r)' <=> HoldsR(r)
    BY <1>0, <1>9, <2>2 DEF HoldsR, Back
  <2>7. Exclusive'
    BY <1>0, <1>1, <2>2, <2>6 DEF Exclusive
  <2>8. Calls'
    BY <1>0, <1>9, <2>2, CallersAssumption, CommonAssumption DEF Calls, CallerOf, Back
  <2>9. \A b \in Callers : BackOf(b)'
    BY <1>0, <2>1, <2>2 DEF BackOf
  <2>10. \A r \in Requests : TakeOf(r)'
    BY TakersHold, <1>0, <2>1, <2>2 DEF TakeOf
  <2> QED BY <1>2, <2>3, <2>4, <2>5, <2>7, <2>8, <2>9, <2>10 DEF Good
<1>10. CASE Drop(a)
  <2>1. UNCHANGED <<key, tosign>> /\ inprocess'[Doc] = NoPdf /\ move'[a].at = "still"
    BY <1>0, <1>10 DEF Drop, Goes, LockTypeOK
  <2>2. CASE \E b \in Callers : move[b].at = "back"
    BY <1>0, <1>3, <2>1, <2>2 DEF BackOf, Gone, Busy
  <2>3. CASE \A b \in Callers : move[b].at # "back"
    <3>1. Stored'
      BY <1>0, <1>1, <2>1 DEF Stored, Upright, Honest, Complete
    <3>2. (\A s \in Sessions : SessionOf(s)') /\ \A w \in Workers : WorkerOf(w)'
      BY <1>4, <2>1
    <3>3. \A r \in Requests : HoldsR(r)' <=> HoldsR(r)
      BY <1>0, <1>10, <2>1 DEF HoldsR, Drop
    <3>4. Exclusive'
      BY <1>0, <1>1, <2>1, <3>3 DEF Exclusive
    <3>5. Calls'
      BY <1>0, <1>10, <2>1, CallersAssumption, CommonAssumption DEF Calls, CallerOf, Drop
    <3>6. \A b \in Callers : BackOf(b)'
      BY <1>0, <2>1, <2>3 DEF BackOf
    <3>7. \A r \in Requests : TakeOf(r)'
      BY <1>0, <1>10, <2>1 DEF TakeOf, Drop
    <3> QED BY <1>2, <3>1, <3>2, <3>4, <3>5, <3>6, <3>7 DEF Good
  <2> QED BY <2>2, <2>3
<1> QED BY <1>0, <1>6, <1>7, <1>8, <1>9, <1>10 DEF LockStep

\* Requests.
LEMMA RequestsKeep ==
  ASSUME Now, TInv', NEW r \in Requests,
         RequestLook(r) \/ RequestGoes(r) \/ RequestInsertFails(r) \/ RequestDies(r)
  PROVE  Gone' \/ Good'
<1>0. /\ r \in Callers /\ \A q \in Requests : q \in Callers
      /\ LockTypeOK /\ LockTypeOK' /\ RequestTyped /\ SessTyped /\ Doc \in Docs
      /\ Exclusive /\ Calls /\ Stored
      /\ \A b \in Callers : BackOf(b)
      /\ \A q \in Requests : TakeOf(q)
      /\ \A s \in Sessions : SessionOf(s)
      /\ \A w \in Workers : WorkerOf(w) /\ CopyOf(w)
      /\ UNCHANGED <<draft, signer, worker, reject, tosign, inprocess>>
  <2>1. UNCHANGED <<draft, signer, worker, reject, tosign, inprocess>>
    BY DEF lockVars, store, RequestLook, RequestGoes, RequestInsertFails, RequestDies,
       RequestLock, RequestLost, RequestInsert, RequestFinds, Acquire, Release, RequestKeeps
  <2> QED BY <2>1, TypeParts, CommonAssumption DEF Now, TInv, Good
<1>1. UNCHANGED faults \/ \E k : Fault(k)
  BY DEF RequestLook, RequestGoes, RequestInsertFails, RequestDies, RequestLock, RequestLost,
         RequestInsert, RequestFinds
<1>2. ASSUME UNCHANGED sess
      PROVE  /\ \A s \in Sessions : (HoldsS(s)' <=> HoldsS(s)) /\ SessionOf(s)'
             /\ \A w \in Workers : WorkerOf(w)' /\ CopyOf(w)'
             /\ Stored'
  BY <1>0, <1>1, <1>2, StoreStill
<1>3. /\ \A q \in Requests : q # r => request'[q] = request[q]
      /\ \A b \in Callers : b # r => move'[b] = move[b]
  BY <1>0 DEF RequestLook, RequestGoes, RequestInsertFails, RequestDies, RequestLock, RequestLost,
         RequestInsert, RequestFinds, RequestTo, RequestEnds, lockVars, Acquire, Release, Goes, Dead,
         LockTypeOK, RequestTyped
\* Who does not get the lock, or loses it.
<1>4. ASSUME UNCHANGED sess, key'[Doc] = key[Doc], ~HoldsR(r)', CallerOf(r)',
             move'[r].at \notin {"back", "take", "clear", "won"}
      PROVE  Good'
  <2>1. \A q \in Requests : HoldsR(q)' => q # r /\ HoldsR(q)
    BY <1>0, <1>3, <1>4 DEF HoldsR
  <2>2. Exclusive'
    BY <1>0, <1>2, <1>4, <2>1 DEF Exclusive
  <2>3. Calls'
    BY <1>0, <1>3, <1>4, CallersAssumption, CommonAssumption DEF Calls, CallerOf
  <2>4. \A b \in Callers : BackOf(b)'
    BY <1>0, <1>2, <1>3, <1>4, <2>1 DEF BackOf
  <2>5. \A q \in Requests : TakeOf(q)'
    BY <1>0, <1>3, <1>4 DEF TakeOf
  <2> QED BY <1>2, <1>4, <2>2, <2>3, <2>4, <2>5 DEF Good
<1>5. CASE RequestLook(r)
  <2>1. request'[r].at = "lock" /\ UNCHANGED <<sess, key, move>> /\ IsStill(r)
    BY <1>0, <1>5 DEF RequestLook, RequestIs, RequestTyped, lockVars, store
  <2> QED BY <1>0, <1>4, <2>1 DEF CallerOf, IsStill, HoldsR
<1>6. CASE RequestLock(r)
  <2>1. /\ UNCHANGED sess /\ key'[Doc] /\ request'[r].at = "wait" /\ IsStill(r)
        /\ move'[r].at = IF key[Doc] THEN "lost" ELSE "check"
    BY <1>0, <1>6 DEF RequestLock, RequestIs, RequestTo, RequestTyped, RequestMemory, Acquire, Goes,
                      LockTypeOK
  <2>2. CASE key[Doc]
    BY <1>0, <1>4, <2>1, <2>2 DEF CallerOf, HoldsR, LockTypeOK
  <2>3. CASE ~key[Doc]
    <3>1. /\ \A q \in Requests : HoldsR(q)' <=> q = r
          /\ \A s \in Sessions : ~HoldsS(s)'
      BY <1>0, <1>2, <1>3, <2>1, <2>3 DEF HoldsR, Exclusive
    <3>2. Exclusive'
      BY <2>1, <3>1 DEF Exclusive
    <3>3. Calls'
      BY <1>0, <1>3, <2>1, <2>3, CallersAssumption, CommonAssumption DEF Calls, CallerOf
    <3>4. \A b \in Callers : BackOf(b)'
      BY <1>0, <1>3, <2>1, <2>3, <3>1 DEF BackOf
    <3>5. \A q \in Requests : TakeOf(q)'
      BY <1>0, <1>3, <2>1, <2>3 DEF TakeOf
    <3> QED BY <1>2, <2>1, <3>2, <3>3, <3>4, <3>5 DEF Good
  <2> QED BY <2>2, <2>3
<1>7. CASE RequestLost(r)
  <2>1. UNCHANGED <<sess, key>> /\ request'[r].at = "idle" /\ move'[r].at = "still"
    BY <1>0, <1>7 DEF RequestLost, RequestEnds, Resting, Dead, Still, RequestTyped, LockTypeOK, store
  <2> QED BY <1>0, <1>4, <2>1 DEF CallerOf, HoldsR
<1>8. CASE RequestInsert(r)
  <2>0. /\ UNCHANGED <<key, faults>> /\ request'[r].at = "idle" /\ move'[r].at = "still"
        /\ request[r].at = "wait" /\ move[r].at = "won" /\ Live(request[r].u) = {}
        /\ request[r].u \in Signers /\ NoPdf \notin Pdfs
    BY <1>0, <1>8, PdfLockAssumption
       DEF RequestInsert, RequestEnds, Resting, Dead, Still, RequestTyped, LockTypeOK, store, Now,
           TInv, Known
  <2>1. HoldsR(r) /\ tosign[Doc] = NoPdf
    BY <1>0, <2>0 DEF HoldsR, TakeOf
  <2>2. PICK s \in Sessions :
          /\ sess[s].st = "none"
          /\ sess' = [sess EXCEPT ![s] = [NoSession EXCEPT !.st = "pending", !.u = request[r].u]]
    BY <1>8 DEF RequestInsert
  <2>3. PICK c : c = [NoSession EXCEPT !.st = "pending", !.u = request[r].u]
    OBVIOUS
  <2>4. /\ c.st = "pending" /\ c.u = request[r].u /\ ~c.up /\ c.sha = NoPdf /\ c.tries = 0
        /\ sess'[s] = c /\ \A t \in Sessions : t # s => sess'[t] = sess[t]
    BY <1>0, <2>2, <2>3 DEF NoSession, SessTyped
  <2>5. \A w \in Workers : Its(w) # s /\ Its(w)' = Its(w)
    <3>1. \A w \in Workers : worker[w].at \in WorkerSteps
      BY TypeParts DEF Now, TInv, WorkerTyped, WorkerMemory
    <3>2. \A w \in Workers : worker[w].at = "idle" => Its(w) = None
      BY <1>0 DEF WorkerOf
    <3> QED BY <1>0, <2>2, <3>1, <3>2 DEF Now, TInv, Known, Its, None, Sessions
  <2>6. /\ ~Alive(s) /\ Alive(s)'
        /\ \A t \in Sessions : t # s => Alive(t)' = Alive(t) /\ sess'[t].u = sess[t].u
    BY <2>2, <2>4 DEF Alive
  <2>7. /\ \A t \in Sessions : HoldsS(t)' <=> t = s
        /\ \A t \in Sessions : ~HoldsS(t)
        /\ \A q \in Requests : ~HoldsR(q)'
    <3>1. \A t \in Sessions : ~HoldsS(t)
      BY <1>0, <2>1 DEF Exclusive
    <3>2. \A t \in Sessions : t # s => (HoldsS(t)' <=> HoldsS(t))
      BY <1>0, <2>4, <2>5, <2>6 DEF HoldsS, Its
    <3>3. HoldsS(s)'
      BY <2>4, <2>5, <2>6 DEF HoldsS
    <3>4. \A q \in Requests : ~HoldsR(q)'
      BY <1>0, <1>3, <2>0, <2>1 DEF HoldsR, Exclusive
    <3> QED BY <3>1, <3>2, <3>3, <3>4
  <2>8. \A u : Recorded(u)' <=> Recorded(u)
    BY <1>0, <2>4, <2>6 DEF Recorded
  <2>9. Exclusive'
    <3>1. key[Doc]
      BY <1>0, <2>1 DEF Exclusive
    <3> QED BY <2>0, <2>7, <3>1 DEF Exclusive
  <2>10. Calls'
    BY <1>0, <1>3, <2>0, CallersAssumption, CommonAssumption DEF Calls, CallerOf
  <2>11. Stored'
    BY <1>0, <2>1, <2>7, <2>8 DEF Stored, Upright, Honest, Complete
  <2>12. \A b \in Callers : BackOf(b)'
    BY <1>0, <1>3, <2>0, <2>1 DEF BackOf
  <2>13. \A q \in Requests : TakeOf(q)'
    BY <1>0, <1>3, <2>0 DEF TakeOf
  <2>14. \A w \in Workers : worker[w].at # "idle" => Its(w) \in Sessions
    BY DEF Now, TInv, Known
  <2>15. \A w \in Workers : WorkerOf(w)' /\ CopyOf(w)'
    <3>1. ASSUME NEW w \in Workers, worker[w].at # "idle"
          PROVE  sess'[Its(w)'] = sess[Its(w)]
      BY <2>4, <2>5, <2>14, <3>1
    <3>2. ASSUME NEW w \in Workers
          PROVE  WorkerOf(w)'
      <4>1. CASE worker[w].at = "idle"
        BY <1>0, <4>1, <2>5 DEF WorkerOf, Carries
      <4>2. CASE worker[w].at # "idle"
        BY <1>0, <2>0, <2>5, <3>1, <4>2 DEF WorkerOf, Owns, Broken
      <4> QED BY <4>1, <4>2
    <3>3. ASSUME NEW w \in Workers
          PROVE  CopyOf(w)'
      BY <1>0, <2>8, <3>1 DEF CopyOf, Honest, Complete, Upright, User
    <3> QED BY <3>2, <3>3
  <2>16. \A t \in Sessions : SessionOf(t)'
    <3>1. SessionOf(s)'
      <4>1. \A t \in Sessions : Alive(t) => sess[t].u # request[r].u
        BY <2>0 DEF Live, Alive
      <4>2. faults \in Nat
        BY TypeParts, CommonAssumption DEF Now, TInv, DatabaseTyped
      <4>3. ~Stranded(s)'
        BY <1>0, <2>1, <2>4 DEF Stranded, Sent
      <4>4. \A t \in Sessions : Alive(t)' /\ sess'[s].u = sess'[t].u => s = t
        BY <2>4, <2>6, <4>1
      <4> QED BY <1>0, <2>0, <2>1, <2>4, <4>2, <4>3, <4>4 DEF SessionOf
    <3>2. ASSUME NEW t \in Sessions, t # s
          PROVE  SessionOf(t)'
      <4>1. Stranded(t)' => Stranded(t)
        BY <1>0, <2>1, <2>4, <2>5, <2>6, <2>7, <3>2 DEF Stranded, Sent
      <4>2. \A x \in Sessions : Alive(t)' /\ Alive(x)' /\ sess'[t].u = sess'[x].u => t = x
        <5>1. \A x \in Sessions : Alive(x) => sess[x].u # request[r].u
          BY <2>0 DEF Live, Alive
        <5> QED BY <1>0, <2>4, <2>6, <3>2, <5>1 DEF SessionOf
      <4> QED BY <1>0, <2>0, <2>1, <2>4, <3>2, <4>1, <4>2 DEF SessionOf, Crashed
    <3> QED BY <3>1, <3>2
  <2> QED BY <2>9, <2>10, <2>11, <2>12, <2>13, <2>15, <2>16 DEF Good
<1>9. CASE RequestFinds(r)
  <2>1. UNCHANGED <<sess, key>> /\ request'[r].at = "kept" /\ move'[r].at = "still"
    BY <1>0, <1>9 DEF RequestFinds, RequestTo, Dead, Still, RequestTyped, RequestMemory, LockTypeOK, store
  <2> QED BY <1>0, <1>4, <2>1 DEF CallerOf, HoldsR
<1>10. CASE RequestInsertFails(r)
  <2>1. /\ UNCHANGED sess /\ request'[r].at = "idle" /\ move'[r].at = "back" /\ ~key'[Doc]
        /\ request[r].at = "wait" /\ move[r].at = "won"
    BY <1>0, <1>10 DEF RequestInsertFails, RequestEnds, Resting, Release, Goes, RequestTyped, LockTypeOK
  <2>2. HoldsR(r) /\ tosign[Doc] = NoPdf
    BY <1>0, <2>1 DEF HoldsR, TakeOf
  <2>3. /\ \A q \in Requests : ~HoldsR(q)'
        /\ \A s \in Sessions : ~HoldsS(s)'
    BY <1>0, <1>2, <1>3, <2>1, <2>2 DEF HoldsR, Exclusive
  <2>4. CASE inprocess[Doc] = NoPdf
    BY <1>0, <1>2, <2>2, <2>3, <2>4, BusyHolds DEF Gone, Busy
  <2>5. CASE inprocess[Doc] # NoPdf
    <3>1. Exclusive'
      BY <2>3 DEF Exclusive
    <3>2. Calls'
      BY <1>0, <1>3, <2>1, CallersAssumption, CommonAssumption DEF Calls, CallerOf
    <3>3. \A b \in Callers : BackOf(b)'
      BY <1>0, <1>3, <2>1, <2>2, <2>3, <2>5 DEF BackOf
    <3>4. \A q \in Requests : TakeOf(q)'
      BY <1>0, <1>3, <2>1 DEF TakeOf
    <3> QED BY <1>2, <2>1, <3>1, <3>2, <3>3, <3>4 DEF Good
  <2> QED BY <2>4, <2>5
<1>11. CASE RequestDies(r)
  <2>1. UNCHANGED <<sess, key>> /\ request'[r].at = "dead" /\ move'[r].at = "still"
    BY <1>0, <1>11 DEF RequestDies, RequestTo, Dead, Still, RequestTyped, RequestMemory, LockTypeOK, store
  <2> QED BY <1>0, <1>4, <2>1 DEF CallerOf, HoldsR
<1> QED BY <1>5, <1>6, <1>7, <1>8, <1>9, <1>10, <1>11 DEF RequestGoes

\* Who else is at a session that a worker has claimed.
LEMMA OneOwner ==
  ASSUME Now, NEW w \in Workers, worker[w].at \notin {"idle", "clean"}
  PROVE  /\ Owns(w, Its(w)) /\ Alive(Its(w)) /\ Its(w) \in Sessions
         /\ \A v \in Workers : v # w /\ Its(v) = Its(w) => worker[v].at \in {"idle", "clean"}
<1>1. \A v \in Workers : WorkerOf(v)
  BY DEF Now, Good
<1>2. \A v \in Workers : worker[v].at \notin {"idle", "clean"} => Owns(v, Its(v))
  BY <1>1 DEF WorkerOf
<1> QED BY <1>2 DEF Owns, Alive, Now, TInv, Known

\* One step of a worker in its own memory.
LEMMA StepIs ==
  ASSUME WorkerTyped, NEW w \in Workers, NEW at, Step(w, at)
  PROVE  /\ worker'[w].at = at /\ worker'[w].s = worker[w].s
         /\ worker'[w].pdf = worker[w].pdf /\ worker'[w].resumes = worker[w].resumes
         /\ \A v \in Workers : v # w => worker'[v] = worker[v]
  BY DEF WorkerTyped, WorkerMemory, Step

LEMMA ResumesIs ==
  ASSUME WorkerTyped, NEW w \in Workers, Resumes(w)
  PROVE  /\ worker'[w].at = "marker" /\ worker'[w].s = worker[w].s
         /\ worker'[w].pdf = worker[w].pdf /\ worker'[w].resumes
         /\ \A v \in Workers : v # w => worker'[v] = worker[v]
<1>1. PICK m : m = [worker[w] EXCEPT !.at = "marker", !.resumes = TRUE]
  OBVIOUS
<1>2. m.at = "marker" /\ m.s = worker[w].s /\ m.pdf = worker[w].pdf /\ m.resumes
  BY <1>1 DEF WorkerTyped, WorkerMemory
<1>3. worker' = [worker EXCEPT ![w] = m]
  BY <1>1 DEF WorkerTyped, Resumes
<1> QED BY <1>2, <1>3 DEF WorkerTyped

\* A worker that takes a copy.
LEMMA CopiesIs ==
  ASSUME WorkerTyped, NEW w \in Workers, NEW at, NEW pdf,
         worker' = [worker EXCEPT ![w].at = at, ![w].pdf = pdf]
  PROVE  /\ worker'[w].at = at /\ worker'[w].s = worker[w].s /\ worker'[w].pdf = pdf
         /\ \A v \in Workers : v # w => worker'[v] = worker[v]
<1>1. PICK m : m = [worker[w] EXCEPT !.at = at, !.pdf = pdf]
  OBVIOUS
<1>2. m.at = at /\ m.s = worker[w].s /\ m.pdf = pdf
  BY <1>1 DEF WorkerTyped, WorkerMemory
<1>3. worker' = [worker EXCEPT ![w] = m]
  BY <1>1 DEF WorkerTyped
<1> QED BY <1>2, <1>3 DEF WorkerTyped

\* A worker that only thinks.
LEMMA Thinks ==
  ASSUME Now, NEW w \in Workers, worker[w].at # "idle", move[w].at = "still",
         UNCHANGED <<lockVars, signer, sess, request, reject>>,
         UNCHANGED faults \/ \E k : Fault(k),
         worker'[w].s = worker[w].s, \A v \in Workers : v # w => worker'[v] = worker[v],
         worker[w].at \notin {"settle", "failed"}, worker'[w].at \notin {"settle", "failed", "idle"},
         worker'[w].at \in {"look", "payload", "compare", "clean"} =>
           worker[w].at \in {"look", "payload", "compare", "clean"},
         WorkerOf(w)', CopyOf(w)'
  PROVE  Good'
<1>0. /\ Exclusive /\ Calls /\ Stored /\ faults \in Nat
      /\ \A b \in Callers : BackOf(b)
      /\ \A q \in Requests : TakeOf(q)
      /\ \A s \in Sessions : SessionOf(s)
      /\ \A v \in Workers : WorkerOf(v) /\ CopyOf(v)
  BY TypeParts, CommonAssumption DEF Now, Good, TInv, DatabaseTyped
<1>1. \A v \in Workers : Its(v)' = Its(v)
  BY DEF Its
<1>2. /\ \A s \in Sessions : HoldsS(s)' <=> HoldsS(s)
      /\ \A s \in Sessions : Alive(s)' <=> Alive(s)
      /\ \A u : Recorded(u)' <=> Recorded(u)
      /\ \A r \in Requests : HoldsR(r)' <=> HoldsR(r)
  <2>1. \A s \in Sessions : Alive(s)' <=> Alive(s)
    BY DEF Alive
  <2>2. \A s \in Sessions : HoldsS(s)' <=> HoldsS(s)
    BY <1>1, <2>1 DEF HoldsS
  <2> QED BY <2>1, <2>2 DEF HoldsR, Recorded, lockVars
<1>3. faults' >= faults /\ faults' \in Nat
  BY <1>0 DEF Fault
<1>4. Exclusive' /\ Stored'
  BY <1>0, <1>2 DEF Exclusive, lockVars, store, Stored, Upright, Honest, Complete
<1>5. Calls'
  BY <1>0 DEF Calls, CallerOf, lockVars
<1>6. (\A b \in Callers : BackOf(b)') /\ \A q \in Requests : TakeOf(q)'
  BY <1>0, <1>2 DEF BackOf, TakeOf, lockVars, store
<1>7. ASSUME NEW s \in Sessions
      PROVE  SessionOf(s)'
  <2>1. SessionOf(s) /\ sess[s].tries \in Nat
    BY <1>0, TypeParts, CommonAssumption DEF Now, TInv, SessTyped, Session
  <2>2. sess[s].tries <= faults'
    BY <1>0, <1>3, <2>1 DEF SessionOf
  <2>3. Stranded(s)' => Crashed'
    BY <1>0, <1>1, <1>2, <1>3, <2>1 DEF SessionOf, Stranded, Sent, Crashed, lockVars, store
  <2> QED BY <1>2, <2>1, <2>2, <2>3 DEF SessionOf, lockVars, store
<1>8. ASSUME NEW v \in Workers, v # w
      PROVE  WorkerOf(v)' /\ CopyOf(v)'
  <2>1. Broken => Broken'
    BY <1>0, <1>3 DEF Broken
  <2> QED BY <1>0, <1>1, <1>2, <1>8, <2>1
       DEF WorkerOf, Owns, CopyOf, Honest, Complete, Upright, User, lockVars, store
<1> QED BY <1>4, <1>5, <1>6, <1>7, <1>8 DEF Good

\* Reading, comparing and signing.
LEMMA ThinkingKeeps ==
  ASSUME Now, TInv', NEW w \in Workers,
         \/ Look(w) \/ Payload(w) \/ Compare(w) \/ Read(w) \/ Absent(w) \/ Sign(w) \/ Fence(w)
         \/ GivesUp(w)
  PROVE  Gone' \/ Good'
<1>0. /\ WorkerTyped /\ SessTyped /\ LockTypeOK /\ worker[w] \in WorkerMemory
      /\ WorkerOf(w) /\ CopyOf(w) /\ Stored
      /\ UNCHANGED <<lockVars, draft, signer, sess, request, reject, faults>>
      /\ worker[w].at # "idle" /\ IsStill(w) /\ NoPdf \notin Pdfs
      /\ Its(w) \in Sessions /\ User(w) \in Signers /\ SessionOf(Its(w))
  <2>1. /\ UNCHANGED <<lockVars, draft, signer, sess, request, reject, faults>>
        /\ worker[w].at # "idle" /\ IsStill(w)
    BY DEF Look, Payload, Compare, Read, Absent, Sign, Fence, GivesUp, WorkerKeeps, At
  <2>2. Its(w) \in Sessions /\ User(w) \in Signers
    BY <2>1 DEF Now, TInv, Known, User
  <2> QED BY <2>1, <2>2, TypeParts, PdfLockAssumption DEF Now, TInv, Good, WorkerTyped
<1>1. ASSUME worker'[w].s = worker[w].s, \A v \in Workers : v # w => worker'[v] = worker[v],
             worker[w].at \notin {"settle", "failed"},
             worker'[w].at \notin {"settle", "failed", "idle"},
             worker'[w].at \in {"look", "payload", "compare", "clean"} =>
               worker[w].at \in {"look", "payload", "compare", "clean"},
             WorkerOf(w)', CopyOf(w)'
      PROVE  Good'
  BY <1>0, <1>1, Thinks DEF IsStill
<1>3. \A u : Recorded(u)' <=> Recorded(u)
  BY <1>0 DEF Recorded, Alive
<1>4. CASE Look(w)
  <2>1. CASE signer[User(w)] = "signed"
    <3>1. /\ worker[w].at = "look" /\ worker'[w].at = "mark" /\ worker'[w].s = worker[w].s
          /\ \A v \in Workers : v # w => worker'[v] = worker[v]
      BY <1>0, <1>4, <2>1, StepIs DEF Look, At
    <3>2. WorkerOf(w)' /\ CopyOf(w)'
      BY <1>0, <3>1, <2>1 DEF WorkerOf, CopyOf, Its, Owns, Carries, User
    <3> QED BY <1>1, <3>1, <3>2
  <2>2. CASE signer[User(w)] # "signed"
    <3>1. /\ worker[w].at = "look" /\ worker'[w].at = "payload" /\ worker'[w].s = worker[w].s
          /\ \A v \in Workers : v # w => worker'[v] = worker[v]
      BY <1>0, <1>4, <2>2, StepIs DEF Look, At
    <3>2. signer[User(w)] = "pending"
      BY <1>0, <2>2, TypeParts DEF Now, TInv, DatabaseTyped, Unrejected
    <3>3. WorkerOf(w)' /\ CopyOf(w)'
      BY <1>0, <3>1, <3>2 DEF WorkerOf, CopyOf, Its, Owns, Carries, User
    <3> QED BY <1>1, <3>1, <3>3
  <2> QED BY <2>1, <2>2
<1>5. CASE Payload(w)
  <2>1. worker[w].at = "payload"
    BY <1>5 DEF Payload, At
  <2>2. CASE Marked(w)
    <3>1. /\ worker'[w].at = "marker" /\ worker'[w].s = worker[w].s
          /\ \A v \in Workers : v # w => worker'[v] = worker[v]
      BY <1>0, <1>5, <2>2, ResumesIs DEF Payload
    <3>2. WorkerOf(w)' /\ CopyOf(w)'
      BY <1>0, <2>1, <2>2, <3>1 DEF WorkerOf, CopyOf, Its, Owns, Carries, Marked
    <3> QED BY <1>1, <2>1, <3>1, <3>2
  <2>3. CASE ~Marked(w)
    <3>1. /\ worker'[w].at = "compare" /\ worker'[w].s = worker[w].s
          /\ worker'[w].pdf = sess[Its(w)].sha
          /\ \A v \in Workers : v # w => worker'[v] = worker[v]
      BY <1>0, <1>5, <2>3, CopiesIs DEF Payload
    <3>2. WorkerOf(w)' /\ CopyOf(w)'
      BY <1>0, <2>1, <2>3, <3>1 DEF WorkerOf, CopyOf, Its, Owns, Carries, Marked
    <3> QED BY <1>1, <2>1, <3>1, <3>2
  <2> QED BY <2>2, <2>3
<1>6. CASE Compare(w)
  <2>1. worker[w].at = "compare" /\ HoldsS(Its(w)) /\ ~sess[Its(w)].up
    BY <1>6, BusyHolds DEF Compare, At, Busy
  <2>2. CASE Uploaded(w)
    <3>1. /\ worker'[w].at = "marker" /\ worker'[w].s = worker[w].s
          /\ \A v \in Workers : v # w => worker'[v] = worker[v]
      BY <1>0, <1>6, <2>2, ResumesIs DEF Compare
    <3>2. WorkerOf(w)' /\ CopyOf(w)'
      BY <1>0, <2>1, <2>2, <3>1 DEF WorkerOf, CopyOf, Its, Owns, Carries, Uploaded, lockVars, store
    <3> QED BY <1>1, <2>1, <3>1, <3>2
  <2>3. CASE ~Uploaded(w)
    <3>1. /\ worker'[w].at = "read" /\ worker'[w].s = worker[w].s
          /\ \A v \in Workers : v # w => worker'[v] = worker[v]
      BY <1>0, <1>6, <2>3, StepIs DEF Compare
    <3>2. tosign[Doc] = NoPdf
      BY <1>0, <2>1, <2>3 DEF Uploaded, SessionOf, WorkerOf, User
    <3>3. WorkerOf(w)' /\ CopyOf(w)'
      BY <1>0, <2>1, <3>1, <3>2 DEF WorkerOf, CopyOf, Its, Owns, Carries, lockVars, store
    <3> QED BY <1>1, <2>1, <3>1, <3>3
  <2> QED BY <2>2, <2>3
<1>7. CASE Read(w)
  <2>1. /\ worker[w].at = "read" /\ HoldsS(Its(w)) /\ ~sess[Its(w)].up /\ Owns(w, Its(w))
        /\ \A v \in Workers : worker[v].at \in Busy => v = w
        /\ tosign[Doc] = NoPdf /\ signer[User(w)] = "pending"
    BY <1>0, <1>7, BusyHolds DEF Read, At, Busy, WorkerOf, User
  <2>2. CASE inprocess[Doc] = NoPdf
    <3>1. /\ worker'[w].at \in {"fail", "absent"}
          /\ \A v \in Workers : v # w => worker'[v] = worker[v]
      BY <1>0, <1>7, <2>2, StepIs DEF Read
    <3>2. \A v \in Workers : worker'[v].at \notin Carries
      BY <2>1, <3>1 DEF Busy, Carries
    <3> QED BY <1>0, <2>1, <2>2, <3>2 DEF Gone, lockVars, store
  <2>3. CASE inprocess[Doc] # NoPdf
    <3>1. /\ worker'[w].at = "save" /\ worker'[w].s = worker[w].s /\ worker'[w].pdf = inprocess[Doc]
          /\ \A v \in Workers : v # w => worker'[v] = worker[v]
      BY <1>0, <1>7, <2>3, CopiesIs DEF Read
    <3>2. ~Recorded(User(w))
      BY <1>0, <2>1, OneOwner DEF Recorded, SessionOf, User
    <3>3. inprocess[Doc] \in [Signers -> 0 .. 2]
      BY <1>0, <2>3, CommonAssumption DEF LockTypeOK
    <3>4. inprocess[Doc][User(w)] = 0
      BY <1>0, <2>3, <3>2, <3>3 DEF Stored, Upright, Honest
    <3>5. Honest(inprocess[Doc]) /\ Complete(inprocess[Doc]) /\ Upright(inprocess[Doc])
      BY <1>0, <2>1, <2>3 DEF Stored
    <3>6. CopyOf(w)'
      BY <1>0, <1>3, <3>1, <3>4, <3>5 DEF CopyOf, Upright, Honest, Complete, User, Its
    <3>7. WorkerOf(w)'
      BY <1>0, <2>1, <3>1 DEF WorkerOf, Its, Owns, Carries, lockVars, store
    <3> QED BY <1>1, <2>1, <3>1, <3>6, <3>7
  <2> QED BY <2>2, <2>3
<1>8. CASE Sign(w)
  <2>1. worker[w].at = "sign" /\ worker[w].pdf \in Pdfs
    BY <1>0, <1>8 DEF Sign, At, Now, TInv, Known, Carries, WorkerMemory
  <2>2. PICK pdf \in Pdfs : pdf = SignedBy(worker[w].pdf, User(w))
    BY <2>1, SignedIsPdf
  <2>3. /\ worker'[w].at = "fence" /\ worker'[w].s = worker[w].s /\ worker'[w].pdf = pdf
        /\ \A v \in Workers : v # w => worker'[v] = worker[v]
    <3>1. worker' = [worker EXCEPT ![w].at = "fence", ![w].pdf = pdf]
      BY <1>0, <1>8, <2>2 DEF Sign, WorkerTyped
    <3> QED BY <1>0, <3>1, CopiesIs
  <2>4. /\ pdf[User(w)] = 1
        /\ \A v \in Signers : v # User(w) => pdf[v] = worker[w].pdf[v]
    BY <1>0, <2>1, <2>2, SignedIsPdf DEF CopyOf
  <2>5. CopyOf(w)'
    BY <1>0, <1>3, <2>1, <2>3, <2>4 DEF CopyOf, Upright, Honest, Complete, User, Its
  <2>6. WorkerOf(w)'
    BY <1>0, <2>1, <2>3 DEF WorkerOf, Its, Owns, Carries, lockVars, store
  <2> QED BY <1>1, <2>1, <2>3, <2>5, <2>6
<1>9. CASE Fence(w)
  <2>1. worker[w].at = "fence" /\ Owns(w, Its(w))
    BY <1>9, OneOwner DEF Fence, At
  <2>2. /\ worker'[w].at = "put" /\ worker'[w].s = worker[w].s /\ worker'[w].pdf = worker[w].pdf
        /\ \A v \in Workers : v # w => worker'[v] = worker[v]
    BY <1>0, <1>9, <2>1, StepIs DEF Fence
  <2>3. CopyOf(w)'
    BY <1>0, <1>3, <2>1, <2>2 DEF CopyOf, Upright, Honest, Complete, User, Its
  <2>4. WorkerOf(w)'
    BY <1>0, <2>1, <2>2 DEF WorkerOf, Its, Owns, Carries, lockVars, store
  <2> QED BY <1>1, <2>1, <2>2, <2>3, <2>4
<1>10. ~Absent(w) /\ ~GivesUp(w)
  BY <1>0, OneOwner DEF Absent, GivesUp, At, WorkerOf
<1> QED BY <1>4, <1>5, <1>6, <1>7, <1>8, <1>9, <1>10

\* What fails before the upload fails for a job that has uploaded nothing.
LEMMA BreaksKeeps ==
  ASSUME Now, TInv', Tolerable, NEW w \in Workers, Breaks(w)
  PROVE  Good'
<1>0. /\ WorkerTyped /\ WorkerOf(w) /\ SessionOf(Its(w)) /\ faults \in Nat /\ MaxFaults \in Nat
      /\ worker[w].at \in {"look", "payload", "compare", "save", "sign", "put"} /\ IsStill(w)
      /\ Its(w) \in Sessions
      /\ Fault("before") /\ Step(w, "fail")
      /\ UNCHANGED <<lockVars, draft, signer, sess, request, reject>>
  <2>1. /\ Fault("before") /\ Step(w, "fail") /\ IsStill(w)
        /\ worker[w].at \in {"look", "payload", "compare", "save", "sign", "put"}
        /\ UNCHANGED <<lockVars, draft, signer, sess, request, reject>>
    BY DEF Breaks, WorkerKeeps, At
  <2>2. Its(w) \in Sessions
    BY <2>1 DEF Now, TInv, Known
  <2> QED BY <2>1, <2>2, TypeParts, CommonAssumption DEF Now, TInv, Good, DatabaseTyped
<1>1. /\ worker'[w].at = "fail" /\ worker'[w].s = worker[w].s
      /\ \A v \in Workers : v # w => worker'[v] = worker[v]
  BY <1>0, StepIs
<1>2. Owns(w, Its(w)) /\ Alive(Its(w))
      /\ \A v \in Workers : v # w /\ Its(v) = Its(w) => worker[v].at \in {"idle", "clean"}
  BY <1>0, OneOwner
<1>3. ~sess[Its(w)].up /\ tosign[Doc] = NoPdf
  <2>1. CASE worker[w].at \in {"save", "sign", "put"}
    BY <1>0, <2>1 DEF WorkerOf, Carries
  <2>2. CASE worker[w].at \in {"look", "payload", "compare"}
    <3>1. ~Crashed
      BY <1>0 DEF Crashed, Tolerable, Fault
    <3>2. ~Sent(Its(w))
      <4>1. Its(w) \in Sessions => (Stranded(Its(w)) => Crashed)
        BY <1>0 DEF SessionOf
      <4>2. \A v \in Workers : Its(v) = Its(w) => worker[v].at # "idle"
        BY <1>0 DEF Now, Good, WorkerOf, None, Sessions
      <4> QED BY <1>0, <1>2, <2>2, <3>1, <4>1, <4>2 DEF Stranded
    <3>3. ~sess[Its(w)].up => HoldsS(Its(w))
      BY <1>2, <2>2 DEF HoldsS
    <3> QED BY <1>2, <3>2, <3>3 DEF Sent
  <2> QED BY <1>0, <2>1, <2>2
<1>4. WorkerOf(w)' /\ CopyOf(w)'
  BY <1>0, <1>1, <1>2, <1>3 DEF WorkerOf, CopyOf, Its, Owns, Carries, lockVars, store, Broken, Fault
<1> QED BY <1>0, <1>1, <1>4, Thinks DEF IsStill

\* A step of a worker at the session it has claimed leaves the other sessions and
\* what the other workers know as they are.
LEMMA OtherParts ==
  ASSUME Now, NEW w \in Workers, worker[w].at \notin {"idle", "clean"},
         worker'[w].s \in {worker[w].s, None}, \A v \in Workers : v # w => worker'[v] = worker[v],
         \A t \in Sessions : t # Its(w) => sess'[t] = sess[t],
         sess'[Its(w)].u = sess[Its(w)].u,
         \A u : u # User(w) => signer'[u] = signer[u],
         UNCHANGED reject, UNCHANGED faults \/ \E k : Fault(k),
         \A v \in Workers : v # w /\ worker[v].at \in Busy =>
           UNCHANGED tosign /\ \A u : Recorded(u)' <=> Recorded(u),
         UNCHANGED tosign \/ (HoldsS(Its(w)) /\ tosign'[Doc] # NoPdf)
  PROVE  /\ \A t \in Sessions : t # Its(w) =>
              (Alive(t)' <=> Alive(t)) /\ (HoldsS(t)' <=> HoldsS(t)) /\ SessionOf(t)'
         /\ \A u : u # User(w) => (Recorded(u)' <=> Recorded(u))
         /\ \A v \in Workers : v # w => WorkerOf(v)' /\ CopyOf(v)'
<1>0. /\ Exclusive /\ faults \in Nat
      /\ \A t \in Sessions : SessionOf(t) /\ sess[t].tries \in Nat
      /\ \A v \in Workers : WorkerOf(v) /\ CopyOf(v)
  BY TypeParts, CommonAssumption DEF Now, Good, TInv, DatabaseTyped, SessTyped, Session
<1>1. /\ Owns(w, Its(w)) /\ Alive(Its(w)) /\ Its(w) \in Sessions
      /\ \A v \in Workers : v # w /\ Its(v) = Its(w) => worker[v].at \in {"idle", "clean"}
  BY OneOwner
<1>2. faults' >= faults /\ faults' \in Nat
  BY <1>0 DEF Fault
<1>3. Its(w)' \in {Its(w), None} /\ \A v \in Workers : v # w => Its(v)' = Its(v)
  BY DEF Its
<1>4. ASSUME NEW t \in Sessions, t # Its(w)
      PROVE  (Alive(t)' <=> Alive(t)) /\ (HoldsS(t)' <=> HoldsS(t)) /\ (Stranded(t)' => Stranded(t))
  <2>1. Alive(t)' <=> Alive(t)
    BY <1>4 DEF Alive
  <2>2. \A v \in Workers : /\ Its(v)' = t <=> Its(v) = t
                           /\ Its(v) = t => worker'[v].at = worker[v].at
    BY <1>3, <1>4 DEF None, Sessions
  <2>3. HoldsS(t)' <=> HoldsS(t)
    BY <1>4, <2>1, <2>2 DEF HoldsS
  <2>4. Sent(t)' => Sent(t)
    BY <1>0, <1>1, <1>4, <2>1, <2>3 DEF Sent, Exclusive
  <2> QED BY <2>1, <2>2, <2>3, <2>4 DEF Stranded
<1>5. ASSUME NEW u, u # User(w)
      PROVE  Recorded(u)' <=> Recorded(u)
  BY <1>1, <1>4, <1>5 DEF Recorded, User
<1>6. ASSUME NEW t \in Sessions, t # Its(w)
      PROVE  SessionOf(t)'
  <2>1. SessionOf(t) /\ sess'[t] = sess[t]
    BY <1>0, <1>6
  <2>2. sess'[t].tries <= faults'
    BY <1>0, <1>2, <2>1 DEF SessionOf
  <2>3. HoldsS(t)' /\ ~sess'[t].up /\ tosign'[Doc] # NoPdf
          => sess'[t].sha # NoPdf /\ tosign'[Doc][sess'[t].u] = 1
    BY <1>0, <1>1, <1>4, <1>6, <2>1 DEF SessionOf, Exclusive
  <2>4. Stranded(t)' => Crashed'
    BY <1>0, <1>2, <1>4, <1>6, <2>1 DEF SessionOf, Crashed
  <2>5. \A x \in Sessions : Alive(t)' /\ Alive(x)' /\ sess'[t].u = sess'[x].u => t = x
    BY <1>1, <1>4, <1>6, <2>1 DEF SessionOf
  <2> QED BY <2>1, <2>2, <2>3, <2>4, <2>5 DEF SessionOf
<1>7. ASSUME NEW v \in Workers, v # w
      PROVE  WorkerOf(v)' /\ CopyOf(v)'
  <2>1. CASE worker[v].at \in {"idle", "clean"}
    BY <1>0, <1>3, <1>7, <2>1 DEF WorkerOf, CopyOf, Carries
  <2>2. CASE worker[v].at \notin {"idle", "clean"}
    <3>1. /\ Owns(v, Its(v)) /\ Alive(Its(v)) /\ Its(v) \in Sessions /\ Its(v) # Its(w)
          /\ sess'[Its(v)] = sess[Its(v)] /\ sess[Its(v)].u # User(w)
      BY <1>0, <1>1, <1>7, <2>2, OneOwner DEF SessionOf, User
    <3>2. signer'[sess[Its(v)].u] = signer[sess[Its(v)].u]
      BY <3>1
    <3>3. Broken => Broken'
      BY <1>0, <1>2 DEF Broken
    <3>4. worker[v].at \in Busy => UNCHANGED tosign /\ \A u : Recorded(u)' <=> Recorded(u)
      BY <1>7
    <3>5. WorkerOf(v)'
      BY <1>0, <1>3, <1>7, <2>2, <3>1, <3>2, <3>3, <3>4 DEF WorkerOf, Owns, Busy, Carries
    <3>6. CopyOf(v)'
      BY <1>0, <1>3, <1>7, <3>1, <3>4 DEF CopyOf, Busy, Carries, Honest, Complete, Upright, User
    <3> QED BY <3>5, <3>6
  <2> QED BY <2>1, <2>2
<1> QED BY <1>4, <1>5, <1>6, <1>7

\* Nor does it touch the lock.
LEMMA LockAlone ==
  ASSUME Now, UNCHANGED <<lockVars, request>>,
         \A s \in Sessions : HoldsS(s)' => HoldsS(s),
         \A v \in Workers : worker'[v].at # worker[v].at => move[v].at = "still"
  PROVE  /\ Exclusive' /\ Calls'
         /\ \A b \in Callers : BackOf(b)'
         /\ \A q \in Requests : TakeOf(q)'
<1>0. /\ Exclusive /\ Calls
      /\ \A b \in Callers : BackOf(b)
      /\ \A q \in Requests : TakeOf(q) /\ (HoldsR(q)' <=> HoldsR(q))
  BY DEF Now, Good, HoldsR, lockVars
<1>1. Exclusive'
  BY <1>0 DEF Exclusive, lockVars, store
<1>2. Calls'
  BY <1>0 DEF Calls, CallerOf, lockVars
<1>3. (\A b \in Callers : BackOf(b)') /\ \A q \in Requests : TakeOf(q)'
  BY <1>0 DEF BackOf, TakeOf, lockVars, store
<1> QED BY <1>1, <1>2, <1>3

\* The copy is saved before it is signed, and the signed one is uploaded.
LEMMA SaveKeeps ==
  ASSUME Now, TInv', NEW w \in Workers, Save(w)
  PROVE  Good'
<1>0. /\ WorkerTyped /\ SessTyped /\ Stored /\ WorkerOf(w) /\ CopyOf(w) /\ SessionOf(Its(w))
      /\ worker[w].at = "save" /\ IsStill(w) /\ Step(w, "sign")
      /\ UNCHANGED <<lockVars, signer, faults, draft, request, reject>>
      /\ sess' = [sess EXCEPT ![Its(w)].sha = worker[w].pdf]
      /\ worker[w].pdf # NoPdf
  <2>1. worker[w].at = "save" /\ worker[w].pdf # NoPdf
    BY DEF Save, At, Now, TInv, Known, Carries
  <2>2. Its(w) \in Sessions
    BY <2>1 DEF Now, TInv, Known
  <2> QED BY <2>1, <2>2, TypeParts DEF Now, TInv, Good, Save, At, WorkerKeeps
<1>1. /\ HoldsS(Its(w)) /\ ~sess[Its(w)].up /\ Owns(w, Its(w)) /\ Its(w) \in Sessions
      /\ \A v \in Workers : worker[v].at \in Busy => v = w
      /\ \A v \in Workers : v # w /\ Its(v) = Its(w) => worker[v].at \in {"idle", "clean"}
  BY <1>0, BusyHolds, OneOwner DEF Busy, Carries
<1>2. /\ worker'[w].at = "sign" /\ worker'[w].s = worker[w].s /\ worker'[w].pdf = worker[w].pdf
      /\ \A v \in Workers : v # w => worker'[v] = worker[v]
  BY <1>0, StepIs
<1>3. PICK s \in Sessions : s = Its(w)
  BY <1>1
<1>4. /\ sess'[s].sha = worker[w].pdf /\ sess'[s].u = sess[s].u /\ sess'[s].st = sess[s].st
      /\ sess'[s].up = sess[s].up /\ sess'[s].by = sess[s].by /\ sess'[s].tries = sess[s].tries
      /\ \A t \in Sessions : t # s => sess'[t] = sess[t]
  BY <1>0, <1>3 DEF SessTyped, Session
<1>5. \A v \in Workers : Its(v)' = Its(v)
  BY <1>2 DEF Its
<1>6. \A t \in Sessions : (Alive(t)' <=> Alive(t)) /\ (HoldsS(t)' <=> HoldsS(t))
  BY <1>0, <1>2, <1>4, <1>5 DEF Alive, HoldsS
<1>7. \A u : Recorded(u)' <=> Recorded(u)
  BY <1>0, <1>4, <1>6 DEF Recorded
<1>8. /\ \A t \in Sessions : t # s => SessionOf(t)'
      /\ \A v \in Workers : v # w => WorkerOf(v)' /\ CopyOf(v)'
  BY <1>0, <1>1, <1>2, <1>3, <1>4, OtherParts DEF lockVars, store
<1>9. Exclusive' /\ Calls' /\ (\A b \in Callers : BackOf(b)') /\ \A q \in Requests : TakeOf(q)'
  BY <1>0, <1>2, <1>6, LockAlone DEF IsStill
<1>10. Stored'
  BY <1>0, <1>4, <1>6, <1>7 DEF Stored, Upright, Honest, Complete, lockVars, store
<1>11. SessionOf(s)'
  <2>1. tosign[Doc] = NoPdf /\ worker[w].pdf[sess[s].u] = 0
    BY <1>0, <1>3 DEF WorkerOf, CopyOf, Carries, User
  <2>2. ~Stranded(s)'
    BY <1>2, <1>3, <1>5 DEF Stranded
  <2> QED BY <1>0, <1>3, <1>4, <1>6, <2>1, <2>2 DEF SessionOf, lockVars, store
<1>12. WorkerOf(w)' /\ CopyOf(w)'
  BY <1>0, <1>1, <1>2, <1>3, <1>4, <1>5, <1>7
     DEF WorkerOf, CopyOf, Owns, Carries, Upright, Honest, Complete, User, lockVars, store
<1> QED BY <1>3, <1>8, <1>9, <1>10, <1>11, <1>12 DEF Good

LEMMA PutKeeps ==
  ASSUME Now, TInv', NEW w \in Workers, Put(w)
  PROVE  Good'
<1>0. /\ WorkerTyped /\ LockTypeOK /\ Stored /\ Calls /\ Exclusive
      /\ WorkerOf(w) /\ CopyOf(w) /\ SessionOf(Its(w))
      /\ worker[w].at = "put" /\ IsStill(w) /\ Step(w, "uploaded")
      /\ UNCHANGED <<key, inprocess, move, signer, sess, faults, draft, request, reject>>
      /\ tosign'[Doc] = worker[w].pdf /\ worker[w].pdf # NoPdf
      /\ \A b \in Callers : BackOf(b)
  <2>1. worker[w].at = "put" /\ worker[w].pdf # NoPdf
    BY DEF Put, At, Now, TInv, Known, Carries
  <2>2. Its(w) \in Sessions /\ LockTypeOK /\ Doc \in Docs
    BY <2>1, TypeParts, CommonAssumption DEF Now, TInv, Known
  <2> QED BY <2>1, <2>2, TypeParts DEF Now, TInv, Good, Put, At, WorkerKeeps, LockTypeOK
<1>1. /\ HoldsS(Its(w)) /\ ~sess[Its(w)].up /\ Owns(w, Its(w)) /\ Its(w) \in Sessions
      /\ \A v \in Workers : worker[v].at \in Busy => v = w
      /\ \A r \in Requests : ~HoldsR(r)
  BY <1>0, BusyHolds DEF Busy, Carries
<1>2. /\ worker'[w].at = "uploaded" /\ worker'[w].s = worker[w].s
      /\ \A v \in Workers : v # w => worker'[v] = worker[v]
  BY <1>0, StepIs
<1>3. PICK s \in Sessions : s = Its(w)
  BY <1>1
<1>4. \A v \in Workers : Its(v)' = Its(v)
  BY <1>2 DEF Its
<1>5. \A t \in Sessions : (Alive(t)' <=> Alive(t)) /\ (HoldsS(t)' <=> HoldsS(t))
  BY <1>0, <1>2, <1>4 DEF Alive, HoldsS
<1>6. \A u : Recorded(u)' <=> Recorded(u)
  BY <1>0, <1>5 DEF Recorded
<1>7. /\ \A t \in Sessions : t # s => SessionOf(t)'
      /\ \A v \in Workers : v # w => WorkerOf(v)' /\ CopyOf(v)'
  BY <1>0, <1>1, <1>2, <1>3, OtherParts
<1>8. Exclusive' /\ Calls'
  BY <1>0, <1>2, <1>5 DEF Exclusive, HoldsR, Calls, CallerOf, IsStill
<1>9. \A b \in Callers : move[b].at \notin {"check", "take", "clear", "won", "back"}
  BY <1>0, <1>1, TakersHold DEF BackOf
<1>10. /\ \A b \in Callers : BackOf(b)'
       /\ \A q \in Requests : TakeOf(q)'
  BY <1>0, <1>9, CommonAssumption DEF BackOf, TakeOf
<1>11. Stored'
  BY <1>0, <1>1, <1>3, <1>5, <1>6 DEF Stored, Upright, Honest, Complete, CopyOf, User
<1>12. SessionOf(s)'
  <2>1. ~Stranded(s)'
    BY <1>2, <1>3, <1>4 DEF Stranded
  <2> QED BY <1>0, <1>3, <1>5, <2>1 DEF SessionOf, WorkerOf, CopyOf, User
<1>13. WorkerOf(w)' /\ CopyOf(w)'
  BY <1>0, <1>1, <1>2, <1>4 DEF WorkerOf, CopyOf, Owns, Carries
<1> QED BY <1>3, <1>7, <1>8, <1>10, <1>11, <1>12, <1>13 DEF Good

\* The mark of the upload, in release_signing_lock_R2_success or after it.
LEMMA MarksKeep ==
  ASSUME Now, TInv', NEW w \in Workers, MarkUploaded(w) \/ Marker(w)
  PROVE  Good'
<1>0. /\ WorkerTyped /\ SessTyped /\ Stored /\ WorkerOf(w) /\ SessionOf(Its(w)) /\ Exclusive
      /\ worker[w].at \in {"uploaded", "marker"} /\ IsStill(w)
      /\ Step(w, IF worker[w].at = "uploaded" THEN "settle" ELSE "signer")
      /\ UNCHANGED <<lockVars, signer, faults, draft, request, reject>>
      /\ sess' = [sess EXCEPT ![Its(w)].up = TRUE]
  <2>1. worker[w].at \in {"uploaded", "marker"}
    BY DEF MarkUploaded, Marker, At
  <2>2. Its(w) \in Sessions
    BY <2>1 DEF Now, TInv, Known
  <2> QED BY <2>1, <2>2, TypeParts DEF Now, TInv, Good, MarkUploaded, Marker, At, WorkerKeeps
<1>1. /\ Owns(w, Its(w)) /\ Its(w) \in Sessions /\ Alive(Its(w))
      /\ \A v \in Workers : v # w /\ Its(v) = Its(w) => worker[v].at \in {"idle", "clean"}
  BY <1>0, OneOwner
<1>2. /\ worker'[w].at = IF worker[w].at = "uploaded" THEN "settle" ELSE "signer"
      /\ worker'[w].s = worker[w].s
      /\ \A v \in Workers : v # w => worker'[v] = worker[v]
  BY <1>0, StepIs
<1>3. PICK s \in Sessions : s = Its(w)
  BY <1>1
<1>4. /\ sess'[s].up /\ sess'[s].u = sess[s].u /\ sess'[s].st = sess[s].st
      /\ sess'[s].sha = sess[s].sha /\ sess'[s].by = sess[s].by /\ sess'[s].tries = sess[s].tries
      /\ \A t \in Sessions : t # s => sess'[t] = sess[t]
  BY <1>0, <1>3 DEF SessTyped, Session
<1>5. \A v \in Workers : Its(v)' = Its(v)
  BY <1>2 DEF Its
<1>6. HoldsS(s) <=> ~sess[s].up
  BY <1>0, <1>1, <1>3 DEF HoldsS
<1>7. \A v \in Workers : v # w /\ worker[v].at \in Busy =>
        UNCHANGED tosign /\ \A u : Recorded(u)' <=> Recorded(u)
  <2>1. ASSUME NEW v \in Workers, v # w, worker[v].at \in Busy
        PROVE  sess[s].up
    <3>1. HoldsS(Its(v)) /\ Its(v) \in Sessions
      BY <2>1, BusyHolds
    <3>2. Its(v) # s
      BY <1>1, <1>3, <2>1 DEF Busy, Carries
    <3> QED BY <1>0, <1>3, <1>6, <3>1, <3>2 DEF Exclusive
  <2>2. ASSUME sess[s].up
        PROVE  \A u : Recorded(u)' <=> Recorded(u)
    <3>1. \A t \in Sessions : /\ sess'[t].u = sess[t].u
                             /\ sess'[t].st = sess[t].st
                             /\ sess'[t].up <=> sess[t].up
      BY <1>4, <2>2
    <3> QED BY <1>0, <3>1 DEF Recorded, Alive
  <2> QED BY <1>0, <2>1, <2>2 DEF lockVars, store
<1>8. /\ \A t \in Sessions : t # s =>
           (Alive(t)' <=> Alive(t)) /\ (HoldsS(t)' <=> HoldsS(t)) /\ SessionOf(t)'
      /\ \A u : u # User(w) => (Recorded(u)' <=> Recorded(u))
      /\ \A v \in Workers : v # w => WorkerOf(v)' /\ CopyOf(v)'
  BY <1>0, <1>1, <1>2, <1>3, <1>4, <1>7, OtherParts DEF lockVars, store
<1>9. HoldsS(s)' => HoldsS(s)
  BY <1>0, <1>1, <1>2, <1>3, <1>4, <1>5, <1>6 DEF HoldsS, WorkerOf
<1>10. Exclusive' /\ Calls' /\ (\A b \in Callers : BackOf(b)') /\ \A q \in Requests : TakeOf(q)'
  BY <1>0, <1>2, <1>8, <1>9, LockAlone DEF IsStill
<1>11. \A u : Recorded(u) => Recorded(u)'
  BY <1>0, <1>4 DEF Recorded, Alive
<1>12. /\ Recorded(sess[s].u)' /\ User(w) = sess[s].u
       /\ \A u : Recorded(u)' => u = sess[s].u \/ Recorded(u)
  <2>1. Alive(s)' /\ sess'[s].u = sess[s].u /\ sess'[s].up
    BY <1>1, <1>3, <1>4 DEF Alive
  <2> QED BY <1>3, <1>8, <2>1 DEF Recorded, User
<1>13. reject = "idle" /\ ~sess[s].up => tosign[Doc] # NoPdf
  BY <1>0, <1>3 DEF WorkerOf
<1>14. reject = "idle" /\ tosign[Doc] # NoPdf /\ ~sess[s].up => tosign[Doc][sess[s].u] = 1
  BY <1>0, <1>3, <1>6 DEF SessionOf
<1>15. sess[s].up => Recorded(sess[s].u)
  BY <1>1, <1>3 DEF Recorded
<1>16. Stored'
  <2>1. \A t \in Sessions : HoldsS(t) /\ ~sess[t].up => t = s \/ (HoldsS(t)' /\ ~sess'[t].up)
    BY <1>4, <1>8
  <2>2. UNCHANGED <<tosign, inprocess, reject>>
    BY <1>0 DEF lockVars, store
  <2>3. tosign[Doc] # NoPdf => /\ Upright(tosign[Doc])'
                               /\ Complete(tosign[Doc])'
    BY <1>0, <1>12, <1>14, <1>15, <2>2 DEF Stored, Upright, Complete
  <2>4. tosign[Doc] # NoPdf =>
          \A u \in Signers : tosign[Doc][u] = 1 => \/ Recorded(u)'
             \/ \E t \in Sessions : HoldsS(t)' /\ ~sess'[t].up /\ sess'[t].u = u
    BY <1>0, <1>4, <1>11, <1>12, <2>1 DEF Stored
  <2>5. inprocess[Doc] # NoPdf => Upright(inprocess[Doc])' /\ Honest(inprocess[Doc])'
    BY <1>0, <1>11, <2>2 DEF Stored, Upright, Honest
  <2>6. inprocess[Doc] # NoPdf /\ tosign[Doc] = NoPdf => Complete(inprocess[Doc])'
    BY <1>0, <1>12, <1>13, <1>15, <2>2 DEF Stored, Complete
  <2> QED BY <2>2, <2>3, <2>4, <2>5, <2>6 DEF Stored
<1>17. SessionOf(s)'
  <2>1. ~Stranded(s)'
    BY <1>2, <1>3, <1>5 DEF Stranded
  <2>2. \A t \in Sessions : Alive(t)' /\ sess'[t].u = sess'[s].u => s = t
    BY <1>0, <1>1, <1>3, <1>4, <1>8 DEF SessionOf
  <2> QED BY <1>0, <1>3, <1>4, <2>1, <2>2 DEF SessionOf
<1>18. WorkerOf(w)' /\ CopyOf(w)'
  BY <1>0, <1>1, <1>2, <1>3, <1>4, <1>5 DEF WorkerOf, CopyOf, Owns, Carries
<1> QED BY <1>3, <1>8, <1>10, <1>16, <1>17, <1>18 DEF Good

\* The key and the copy in inprocess/ go once the mark is there.
LEMMA SettleKeeps ==
  ASSUME Now, TInv', NEW w \in Workers, SettleUpload(w)
  PROVE  Good'
<1>0. /\ WorkerTyped /\ LockTypeOK /\ Stored /\ Calls /\ Exclusive /\ w \in Callers /\ Doc \in Docs
      /\ \A q \in Requests : q \in Callers /\ TakeOf(q)
      /\ WorkerOf(w) /\ SessionOf(Its(w))
      /\ worker[w].at = "settle" /\ IsStill(w) /\ Step(w, "marker") /\ Settle(w, Doc)
      /\ UNCHANGED <<tosign, inprocess, signer, sess, faults, draft, request, reject>>
      /\ \A b \in Callers : BackOf(b)
  <2>1. worker[w].at = "settle"
    BY DEF SettleUpload, At
  <2>2. Its(w) \in Sessions
    BY <2>1 DEF Now, TInv, Known
  <2> QED BY <2>1, <2>2, TypeParts, CommonAssumption
          DEF Now, TInv, Good, SettleUpload, At, WorkerKeeps, Settle
<1>1. /\ Owns(w, Its(w)) /\ Its(w) \in Sessions /\ Alive(Its(w)) /\ sess[Its(w)].up
      /\ \A v \in Workers : v # w /\ Its(v) = Its(w) => worker[v].at \in {"idle", "clean"}
  BY <1>0, OneOwner DEF WorkerOf
<1>2. /\ worker'[w].at = "marker" /\ worker'[w].s = worker[w].s
      /\ \A v \in Workers : v # w => worker'[v] = worker[v]
      /\ ~key'[Doc] /\ move'[w].at = "drop"
      /\ \A b \in Callers : b # w => move'[b] = move[b]
  BY <1>0, StepIs DEF Settle, Goes, LockTypeOK
<1>3. PICK s \in Sessions : s = Its(w)
  BY <1>1
<1>4. \A v \in Workers : Its(v)' = Its(v)
  BY <1>2 DEF Its
<1>5. HoldsS(s) /\ ~HoldsS(s)'
  BY <1>0, <1>1, <1>2, <1>3, <1>4 DEF HoldsS
<1>6. \A u : Recorded(u)' <=> Recorded(u)
  BY <1>0 DEF Recorded, Alive
<1>7. /\ \A t \in Sessions : t # s => (HoldsS(t)' <=> HoldsS(t)) /\ SessionOf(t)'
      /\ \A v \in Workers : v # w => WorkerOf(v)' /\ CopyOf(v)'
  BY <1>0, <1>1, <1>2, <1>3, <1>6, OtherParts
<1>8. /\ \A t \in Sessions : ~HoldsS(t)'
      /\ \A q \in Requests : ~HoldsR(q) /\ ~HoldsR(q)'
  <2>1. \A q \in Requests : ~HoldsR(q)
    BY <1>0, <1>3, <1>5 DEF Exclusive
  <2>2. \A q \in Requests : HoldsR(q)' => HoldsR(q)
    BY <1>0, <1>2 DEF HoldsR
  <2> QED BY <1>0, <1>3, <1>5, <1>7, <2>1, <2>2 DEF Exclusive
<1>9. Exclusive'
  BY <1>8 DEF Exclusive
<1>10. Calls'
  BY <1>0, <1>2, CallersAssumption, CommonAssumption DEF Calls, CallerOf, IsStill
<1>11. \A b \in Callers : move[b].at \notin {"check", "take", "clear", "won", "back"}
  BY <1>0, <1>3, <1>5, <1>8, TakersHold DEF BackOf
<1>12. /\ \A b \in Callers : BackOf(b)'
       /\ \A q \in Requests : TakeOf(q)'
  BY <1>0, <1>2, <1>11 DEF BackOf, TakeOf
<1>13. Stored'
  <2>1. \A t \in Sessions : HoldsS(t) => sess[t].up
    BY <1>0, <1>1, <1>3, <1>5 DEF Exclusive
  <2> QED BY <1>0, <1>6, <2>1 DEF Stored, Upright, Honest, Complete
<1>14. SessionOf(s)'
  <2>1. ~Stranded(s)'
    BY <1>2, <1>3, <1>4 DEF Stranded
  <2> QED BY <1>0, <1>3, <1>5, <2>1 DEF SessionOf, Alive
<1>15. WorkerOf(w)' /\ CopyOf(w)'
  BY <1>0, <1>1, <1>2, <1>4 DEF WorkerOf, CopyOf, Owns, Carries
<1> QED BY <1>3, <1>7, <1>9, <1>10, <1>12, <1>13, <1>14, <1>15 DEF Good

\* The signer, and then the session.
LEMMA SignerKeeps ==
  ASSUME Now, TInv', NEW w \in Workers, UpdateSigner(w)
  PROVE  Good'
<1>0. /\ WorkerTyped /\ Stored /\ WorkerOf(w) /\ SessionOf(Its(w))
      /\ worker[w].at = "signer" /\ IsStill(w) /\ Step(w, "mark")
      /\ UNCHANGED <<lockVars, sess, faults, draft, request, reject>>
      /\ signer'[User(w)] = "signed" /\ \A u : u # User(w) => signer'[u] = signer[u]
  <2>1. worker[w].at = "signer"
    BY DEF UpdateSigner, At
  <2>2. /\ Its(w) \in Sessions /\ User(w) \in Signers
        /\ signer \in [Signers -> {"pending", "signed", "rejected"}]
    BY <2>1, TypeParts DEF Now, TInv, Known, User, DatabaseTyped
  <2>3. \A u : u # User(w) => signer'[u] = signer[u]
    <3>1. signer' = [signer EXCEPT ![User(w)] = "signed"]
      BY DEF UpdateSigner
    <3>2. ASSUME NEW u, u # User(w)
          PROVE  signer'[u] = signer[u]
      <4>1. CASE u \in Signers
        BY <2>2, <3>1, <3>2, <4>1
      <4>2. CASE u \notin Signers
        BY <2>2, <3>1, <3>2, <4>2
      <4> QED BY <4>1, <4>2
    <3> QED BY <3>2
  <2> QED BY <2>1, <2>2, <2>3, TypeParts DEF Now, TInv, Good, UpdateSigner, At, WorkerKeeps
<1>1. /\ Owns(w, Its(w)) /\ Its(w) \in Sessions /\ Alive(Its(w)) /\ sess[Its(w)].up
      /\ \A v \in Workers : v # w /\ Its(v) = Its(w) => worker[v].at \in {"idle", "clean"}
  BY <1>0, OneOwner DEF WorkerOf
<1>2. /\ worker'[w].at = "mark" /\ worker'[w].s = worker[w].s
      /\ \A v \in Workers : v # w => worker'[v] = worker[v]
  BY <1>0, StepIs
<1>3. PICK s \in Sessions : s = Its(w)
  BY <1>1
<1>4. \A v \in Workers : Its(v)' = Its(v)
  BY <1>2 DEF Its
<1>5. \A t \in Sessions : (Alive(t)' <=> Alive(t)) /\ (HoldsS(t)' <=> HoldsS(t))
  BY <1>0, <1>2, <1>4 DEF Alive, HoldsS
<1>6. \A u : Recorded(u)' <=> Recorded(u)
  <2>1. ASSUME NEW u
        PROVE  (\E t \in Sessions : sess'[t].u = u /\ Alive(t)' /\ sess'[t].up)
                 <=> (\E t \in Sessions : sess[t].u = u /\ Alive(t) /\ sess[t].up)
    BY <1>0, <1>5
  <2>2. Recorded(sess[s].u) /\ sess[s].u = User(w)
    BY <1>1, <1>3 DEF Recorded, User
  <2> QED BY <1>0, <2>1, <2>2 DEF Recorded
<1>7. /\ \A t \in Sessions : t # s => SessionOf(t)'
      /\ \A v \in Workers : v # w => WorkerOf(v)' /\ CopyOf(v)'
  BY <1>0, <1>1, <1>2, <1>3, <1>6, OtherParts DEF lockVars, store
<1>8. Exclusive' /\ Calls' /\ (\A b \in Callers : BackOf(b)') /\ \A q \in Requests : TakeOf(q)'
  BY <1>0, <1>2, <1>5, LockAlone DEF IsStill
<1>9. Stored'
  BY <1>0, <1>5, <1>6 DEF Stored, Upright, Honest, Complete, lockVars, store
<1>10. SessionOf(s)'
  <2>1. ~Stranded(s)'
    BY <1>2, <1>3, <1>4 DEF Stranded
  <2> QED BY <1>0, <1>3, <1>5, <2>1 DEF SessionOf, lockVars, store
<1>11. WorkerOf(w)' /\ CopyOf(w)'
  BY <1>0, <1>1, <1>2, <1>4 DEF WorkerOf, CopyOf, Owns, Carries, User
<1> QED BY <1>3, <1>7, <1>8, <1>9, <1>10, <1>11 DEF Good

\* A session that ends: the signer has signed, or the lock was given back.
LEMMA EndsKeep ==
  ASSUME Now, TInv', NEW w \in Workers, MarkSession(w) \/ MarkFailed(w)
  PROVE  Good'
<1>0. /\ WorkerTyped /\ SessTyped /\ Stored /\ WorkerOf(w) /\ SessionOf(Its(w))
      /\ worker[w].at \in {"mark", "failed"} /\ IsStill(w)
      /\ UNCHANGED <<lockVars, signer, faults, draft, request, reject>>
  <2>1. worker[w].at \in {"mark", "failed"}
    BY DEF MarkSession, MarkFailed, At
  <2>2. Its(w) \in Sessions
    BY <2>1 DEF Now, TInv, Known
  <2> QED BY <2>1, <2>2, TypeParts DEF Now, TInv, Good, MarkSession, MarkFailed, At, WorkerKeeps
<1>1. /\ Owns(w, Its(w)) /\ Its(w) \in Sessions /\ Alive(Its(w))
      /\ \A v \in Workers : v # w /\ Its(v) = Its(w) => worker[v].at \in {"idle", "clean"}
  BY <1>0, OneOwner
<1>2. PICK s \in Sessions : s = Its(w)
  BY <1>1
<1>3. /\ worker'[w].at \in {"clean", "idle"} /\ worker'[w].s \in {worker[w].s, None}
      /\ worker'[w].at = "idle" => worker'[w].s = None
      /\ \A v \in Workers : v # w => worker'[v] = worker[v]
  <2>1. CASE Done(w)
    BY <1>0, <2>1 DEF Done, Asleep, WorkerTyped
  <2>2. CASE Step(w, "clean")
    BY <1>0, <2>2, StepIs
  <2> QED BY <2>1, <2>2 DEF MarkSession, MarkFailed
<1>4. /\ sess'[s].st \in {"signed", "failed"} /\ sess'[s].u = sess[s].u
      /\ sess'[s].sha = sess[s].sha /\ sess'[s].tries = sess[s].tries
      /\ \A t \in Sessions : t # s => sess'[t] = sess[t]
  <2>1. CASE MarkSession(w)
    <3>1. PICK c : c = [sess[s] EXCEPT !.st = "signed", !.by = w]
      OBVIOUS
    <3>2. c.st = "signed" /\ c.u = sess[s].u /\ c.sha = sess[s].sha /\ c.tries = sess[s].tries
      BY <1>0, <3>1 DEF SessTyped, Session
    <3>3. sess' = [sess EXCEPT ![s] = c]
      BY <1>0, <1>1, <1>2, <2>1, <3>1 DEF MarkSession, MaySettle, SessTyped
    <3> QED BY <1>0, <3>2, <3>3 DEF SessTyped
  <2>2. CASE MarkFailed(w)
    <3>1. sess' = [sess EXCEPT ![s].st = "failed"]
      BY <1>1, <1>2, <2>2 DEF MarkFailed, Finished, Owns
    <3> QED BY <1>0, <3>1 DEF SessTyped, Session
  <2> QED BY <2>1, <2>2
<1>5. ~Alive(s)' /\ ~HoldsS(s)'
  BY <1>4 DEF Alive, HoldsS
<1>6. \A u : Recorded(u)' <=> Recorded(u)
  <2>1. \A t \in Sessions : t # s => (sess'[t] = sess[t] /\ (Alive(t)' <=> Alive(t)))
    BY <1>4 DEF Alive
  <2>2. signer[sess[s].u] = "signed" \/ ~sess[s].up
    BY <1>0, <1>2 DEF WorkerOf
  <2> QED BY <1>0, <1>5, <2>1, <2>2 DEF Recorded
<1>7. /\ \A t \in Sessions : t # s =>
           (Alive(t)' <=> Alive(t)) /\ (HoldsS(t)' <=> HoldsS(t)) /\ SessionOf(t)'
      /\ \A v \in Workers : v # w => WorkerOf(v)' /\ CopyOf(v)'
  BY <1>0, <1>2, <1>3, <1>4, <1>6, OtherParts DEF lockVars, store
<1>8. Exclusive' /\ Calls' /\ (\A b \in Callers : BackOf(b)') /\ \A q \in Requests : TakeOf(q)'
  BY <1>0, <1>3, <1>5, <1>7, LockAlone DEF IsStill
<1>9. Stored'
  <2>1. \A t \in Sessions : HoldsS(t) /\ ~sess[t].up =>
          \/ HoldsS(t)' /\ ~sess'[t].up /\ sess'[t].u = sess[t].u
          \/ Recorded(sess[t].u)
    <3>1. HoldsS(s) => signer[sess[s].u] = "signed" \/ sess[s].up
      BY <1>0, <1>2 DEF WorkerOf, HoldsS
    <3>2. HoldsS(s) /\ ~sess[s].up => Recorded(sess[s].u)
      BY <3>1 DEF Recorded
    <3> QED BY <1>4, <1>7, <3>2
  <2> QED BY <1>0, <1>6, <2>1 DEF Stored, Upright, Honest, Complete, lockVars, store
<1>10. SessionOf(s)'
  BY <1>0, <1>2, <1>4, <1>5 DEF SessionOf, Stranded, Sent
<1>11. WorkerOf(w)' /\ CopyOf(w)'
  BY <1>3 DEF WorkerOf, CopyOf, Carries, Its
<1> QED BY <1>2, <1>7, <1>8, <1>9, <1>10, <1>11 DEF Good

\* What fails after the upload is queued again.
LEMMA LateKeeps ==
  ASSUME Now, TInv', Tolerable, NEW w \in Workers, BreaksLate(w)
  PROVE  Good'
<1>0. /\ WorkerTyped /\ SessTyped /\ Stored /\ WorkerOf(w) /\ SessionOf(Its(w))
      /\ worker[w].at \in {"marker", "signer", "mark"} /\ IsStill(w) /\ Done(w)
      /\ UNCHANGED <<lockVars, signer, draft, request, reject>>
      /\ Fault("after") /\ faults \in Nat /\ MaxFaults \in Nat /\ Retries \in Nat
  <2>1. worker[w].at \in {"marker", "signer", "mark"}
    BY DEF BreaksLate, At
  <2>2. Its(w) \in Sessions
    BY <2>1 DEF Now, TInv, Known
  <2> QED BY <2>1, <2>2, TypeParts, CommonAssumption
          DEF Now, TInv, Good, BreaksLate, At, WorkerKeeps, DatabaseTyped
<1>1. /\ Owns(w, Its(w)) /\ Its(w) \in Sessions /\ Alive(Its(w))
      /\ \A v \in Workers : v # w /\ Its(v) = Its(w) => worker[v].at \in {"idle", "clean"}
  BY <1>0, OneOwner
<1>2. PICK s \in Sessions : s = Its(w)
  BY <1>1
<1>3. /\ worker'[w].at = "idle" /\ worker'[w].s = None
      /\ \A v \in Workers : v # w => worker'[v] = worker[v]
  BY <1>0 DEF Done, Asleep, WorkerTyped
<1>4. sess[s].tries \in Nat /\ sess[s].tries <= faults /\ faults < MaxFaults /\ MaxFaults < Retries
  BY <1>0, <1>2 DEF SessionOf, SessTyped, Session, Fault, Tolerable
<1>5. /\ sess'[s].st = "pending" /\ sess'[s].u = sess[s].u /\ sess'[s].up = sess[s].up
      /\ sess'[s].sha = sess[s].sha /\ sess'[s].tries = sess[s].tries + 1
      /\ \A t \in Sessions : t # s => sess'[t] = sess[t]
  <2>1. sess[s].tries + 1 # Retries /\ sess[s].tries < Retries
    BY <1>0, <1>4
  <2>2. sess' = [sess EXCEPT ![s].st = "pending", ![s].by = Nobody, ![s].tries = sess[s].tries + 1]
    BY <1>0, <1>1, <1>2, <2>1 DEF BreaksLate, Requeued, Owns, SessTyped
  <2>3. PICK c : c = [sess[s] EXCEPT !.st = "pending", !.by = Nobody, !.tries = sess[s].tries + 1]
    OBVIOUS
  <2>4. /\ c.st = "pending" /\ c.u = sess[s].u /\ c.up = sess[s].up /\ c.sha = sess[s].sha
        /\ c.tries = sess[s].tries + 1
    BY <1>0, <2>3 DEF SessTyped, Session
  <2>5. sess' = [sess EXCEPT ![s] = c]
    BY <1>0, <2>2, <2>3 DEF SessTyped
  <2> QED BY <1>0, <2>4, <2>5 DEF SessTyped
<1>6. Alive(s)' /\ (HoldsS(s)' => HoldsS(s))
  <2>1. \A v \in Workers : Its(v)' = s => Its(v) = s /\ worker'[v].at = worker[v].at
    BY <1>2, <1>3 DEF Its, None, Sessions
  <2>2. \A v \in Workers : Its(v) = s => worker[v].at # "failed"
    BY <1>0, <1>1, <1>2
  <2>3. Alive(s)'
    BY <1>5 DEF Alive
  <2> QED BY <1>1, <1>2, <1>5, <2>1, <2>2, <2>3 DEF HoldsS
<1>7. ~sess[s].up => HoldsS(s) /\ HoldsS(s)'
  BY <1>0, <1>1, <1>2, <1>3, <1>5, <1>6 DEF HoldsS, Its, None, Sessions
<1>8. \A u : Recorded(u)' <=> Recorded(u)
  <2>1. \A t \in Sessions : /\ sess'[t].u = sess[t].u /\ sess'[t].up = sess[t].up
                            /\ Alive(t)' <=> Alive(t)
    BY <1>1, <1>2, <1>5, <1>6 DEF Alive
  <2> QED BY <1>0, <2>1 DEF Recorded
<1>9. /\ \A t \in Sessions : t # s =>
           (Alive(t)' <=> Alive(t)) /\ (HoldsS(t)' <=> HoldsS(t)) /\ SessionOf(t)'
      /\ \A v \in Workers : v # w => WorkerOf(v)' /\ CopyOf(v)'
  BY <1>0, <1>2, <1>3, <1>5, <1>8, OtherParts DEF lockVars, store
<1>10. Exclusive' /\ Calls' /\ (\A b \in Callers : BackOf(b)') /\ \A q \in Requests : TakeOf(q)'
  BY <1>0, <1>3, <1>6, <1>9, LockAlone DEF IsStill
<1>11. Stored'
  <2>1. \A t \in Sessions : HoldsS(t) /\ ~sess[t].up =>
          HoldsS(t)' /\ ~sess'[t].up /\ sess'[t].u = sess[t].u
    BY <1>5, <1>7, <1>9
  <2> QED BY <1>0, <1>8, <2>1 DEF Stored, Upright, Honest, Complete, lockVars, store
<1>12. SessionOf(s)'
  <2>1. Crashed' /\ sess'[s].tries <= faults'
    BY <1>0, <1>4, <1>5 DEF Crashed, Fault
  <2>2. \A t \in Sessions : Alive(t)' /\ sess'[t].u = sess'[s].u => s = t
    BY <1>0, <1>1, <1>2, <1>5, <1>9 DEF SessionOf
  <2> QED BY <1>0, <1>2, <1>5, <1>6, <2>1, <2>2 DEF SessionOf, lockVars, store
<1>13. WorkerOf(w)' /\ CopyOf(w)'
  BY <1>3 DEF WorkerOf, CopyOf, Carries, Its
<1> QED BY <1>2, <1>9, <1>10, <1>11, <1>12, <1>13 DEF Good

\* A job that fails gives the PDF back before its session ends.
LEMMA GiveBackKeeps ==
  ASSUME Now, TInv', NEW w \in Workers, GiveBack(w)
  PROVE  Gone' \/ Good'
<1>0. /\ WorkerTyped /\ LockTypeOK /\ Stored /\ Calls /\ Exclusive /\ w \in Callers /\ Doc \in Docs
      /\ \A q \in Requests : q \in Callers
      /\ WorkerOf(w) /\ SessionOf(Its(w))
      /\ worker[w].at = "fail" /\ IsStill(w) /\ Step(w, "failed") /\ Release(w, Doc)
      /\ UNCHANGED <<tosign, inprocess, signer, sess, faults, draft, request, reject>>
  <2>1. worker[w].at = "fail"
    BY DEF GiveBack, At
  <2>2. Its(w) \in Sessions
    BY <2>1 DEF Now, TInv, Known
  <2> QED BY <2>1, <2>2, TypeParts, CommonAssumption
          DEF Now, TInv, Good, GiveBack, At, WorkerKeeps, Release
<1>1. /\ HoldsS(Its(w)) /\ ~sess[Its(w)].up /\ Owns(w, Its(w)) /\ Its(w) \in Sessions
      /\ \A v \in Workers : worker[v].at \in Busy => v = w
      /\ \A r \in Requests : ~HoldsR(r)
      /\ tosign[Doc] = NoPdf
  BY <1>0, BusyHolds DEF Busy, WorkerOf
<1>2. /\ worker'[w].at = "failed" /\ worker'[w].s = worker[w].s
      /\ \A v \in Workers : v # w => worker'[v] = worker[v]
      /\ ~key'[Doc] /\ move'[w].at = "back"
      /\ \A b \in Callers : b # w => move'[b] = move[b]
  BY <1>0, StepIs DEF Release, Goes, LockTypeOK
<1>3. CASE inprocess[Doc] = NoPdf
  BY <1>0, <1>1, <1>2, <1>3 DEF Gone, Busy, Carries
<1>4. CASE inprocess[Doc] # NoPdf
  <2>1. PICK s \in Sessions : s = Its(w)
    BY <1>1
  <2>2. \A v \in Workers : Its(v)' = Its(v)
    BY <1>2 DEF Its
  <2>3. ~HoldsS(s)'
    BY <1>0, <1>1, <1>2, <2>1, <2>2 DEF HoldsS
  <2>4. \A u : Recorded(u)' <=> Recorded(u)
    BY <1>0 DEF Recorded, Alive
  <2>5. /\ \A t \in Sessions : t # s => (HoldsS(t)' <=> HoldsS(t)) /\ SessionOf(t)'
        /\ \A v \in Workers : v # w => WorkerOf(v)' /\ CopyOf(v)'
    BY <1>0, <1>1, <1>2, <2>1, <2>4, OtherParts
  <2>6. /\ \A t \in Sessions : ~HoldsS(t)'
        /\ \A q \in Requests : ~HoldsR(q)'
    BY <1>0, <1>1, <1>2, <2>1, <2>3, <2>5 DEF Exclusive, HoldsR
  <2>7. Exclusive'
    BY <2>6 DEF Exclusive
  <2>8. Calls'
    BY <1>0, <1>2, CallersAssumption, CommonAssumption DEF Calls, CallerOf, IsStill
  <2>9. \A b \in Callers : move[b].at \notin {"check", "take", "clear", "won", "back"}
    BY <1>1, TakersHold DEF BackOf, Now, Good
  <2>10. /\ \A b \in Callers : BackOf(b)'
         /\ \A q \in Requests : TakeOf(q)'
    BY <1>0, <1>1, <1>2, <1>4, <2>6, <2>9, CallersAssumption DEF BackOf, TakeOf
  <2>11. Stored'
    BY <1>0, <1>1, <2>4 DEF Stored, Upright, Honest, Complete
  <2>12. SessionOf(s)'
    <3>1. ~Stranded(s)'
      BY <1>2, <2>1, <2>2 DEF Stranded
    <3> QED BY <1>0, <2>1, <2>3, <3>1 DEF SessionOf, Alive
  <2>13. WorkerOf(w)' /\ CopyOf(w)'
    BY <1>0, <1>1, <1>2, <2>2 DEF WorkerOf, CopyOf, Owns, Carries, Broken
  <2> QED BY <2>1, <2>5, <2>7, <2>8, <2>10, <2>11, <2>12, <2>13 DEF Good
<1> QED BY <1>3, <1>4

\* A worker that resumed deletes the copy in inprocess/, which may be the PDF.
LEMMA CleanKeeps ==
  ASSUME Now, TInv', NEW w \in Workers, Clean(w)
  PROVE  Gone' \/ Good'
<1>0. /\ WorkerTyped /\ LockTypeOK /\ Stored /\ Calls /\ Exclusive /\ Doc \in Docs
      /\ \A b \in Callers : BackOf(b)
      /\ \A q \in Requests : q \in Callers /\ TakeOf(q)
      /\ \A s \in Sessions : SessionOf(s)
      /\ \A v \in Workers : WorkerOf(v) /\ CopyOf(v)
      /\ worker[w].at = "clean" /\ IsStill(w) /\ Done(w)
      /\ UNCHANGED <<key, tosign, move, signer, sess, faults, draft, request, reject>>
      /\ inprocess'[Doc] = NoPdf
  BY TypeParts, CommonAssumption DEF Now, TInv, Good, Clean, At, WorkerKeeps, LockTypeOK
<1>1. /\ worker'[w].at = "idle" /\ worker'[w].s = None
      /\ \A v \in Workers : v # w => worker'[v] = worker[v]
  BY <1>0 DEF Done, Asleep, WorkerTyped
<1>2. CASE \E b \in Callers : move[b].at = "back"
  <2>1. tosign[Doc] = NoPdf /\ \A s \in Sessions : ~HoldsS(s)
    BY <1>0, <1>2 DEF BackOf
  <2>2. \A v \in Workers : worker[v].at \notin Carries
    BY <2>1, BusyHolds DEF Busy
  <2> QED BY <1>0, <1>1, <2>1, <2>2 DEF Gone, Carries
<1>3. CASE \A b \in Callers : move[b].at # "back"
  <2>1. \A s \in Sessions, v \in Workers :
          /\ Its(v)' = s => Its(v) = s /\ worker'[v] = worker[v]
          /\ Its(v) = s => worker[v].at = "clean" \/ (Its(v)' = s /\ worker'[v] = worker[v])
    BY <1>0, <1>1 DEF Its, None, Sessions
  <2>2. \A s \in Sessions : (Alive(s)' <=> Alive(s)) /\ (HoldsS(s)' <=> HoldsS(s))
    <3>1. \A s \in Sessions : Alive(s)' <=> Alive(s)
      BY <1>0 DEF Alive
    <3> QED BY <1>0, <2>1, <3>1 DEF HoldsS
  <2>3. \A u : Recorded(u)' <=> Recorded(u)
    BY <1>0, <2>2 DEF Recorded
  <2>4. \A q \in Requests : HoldsR(q)' <=> HoldsR(q)
    BY <1>0 DEF HoldsR
  <2>5. Exclusive' /\ Calls' /\ Stored'
    <3>1. Exclusive'
      BY <1>0, <2>2, <2>4 DEF Exclusive
    <3>2. Calls'
      BY <1>0, <1>1 DEF Calls, CallerOf, IsStill
    <3>3. Stored'
      BY <1>0, <2>2, <2>3 DEF Stored, Upright, Honest, Complete
    <3> QED BY <3>1, <3>2, <3>3
  <2>6. /\ \A b \in Callers : BackOf(b)'
        /\ \A q \in Requests : TakeOf(q)'
    BY <1>0, <1>3 DEF BackOf, TakeOf
  <2>7. \A s \in Sessions : SessionOf(s)'
    <3>1. \A s \in Sessions : Stranded(s)' => Stranded(s)
      BY <1>0, <2>1, <2>2 DEF Stranded, Sent
    <3> QED BY <1>0, <2>2, <3>1 DEF SessionOf, Crashed
  <2>8. WorkerOf(w)' /\ CopyOf(w)'
    BY <1>1 DEF WorkerOf, CopyOf, Carries, Its
  <2>9. \A v \in Workers : v # w => WorkerOf(v)' /\ CopyOf(v)'
    BY <1>0, <1>1, <2>3 DEF WorkerOf, Owns, Its, CopyOf, Honest, Complete, Upright, User, Broken
  <2> QED BY <2>5, <2>6, <2>7, <2>8, <2>9 DEF Good
<1> QED BY <1>2, <1>3

\* A worker dies, wherever it is.
LEMMA DiesKeeps ==
  ASSUME Now, TInv', Tolerable, NEW w \in Workers, WorkerDies(w)
  PROVE  Good'
<1>0. /\ WorkerTyped /\ LockTypeOK /\ Stored /\ Calls /\ Exclusive /\ Doc \in Docs /\ w \in Callers
      /\ \A b \in Callers : BackOf(b)
      /\ \A q \in Requests : q \in Callers /\ TakeOf(q)
      /\ \A s \in Sessions : SessionOf(s) /\ sess[s].tries \in Nat
      /\ \A v \in Workers : WorkerOf(v) /\ CopyOf(v)
      /\ Dead(w) /\ Done(w) /\ Fault("worker") /\ faults \in Nat /\ MaxFaults \in Nat
      /\ UNCHANGED <<key, tosign, inprocess, signer, sess, draft, request, reject>>
  BY TypeParts, CommonAssumption
     DEF Now, TInv, Good, WorkerDies, WorkerKeeps, DatabaseTyped, store, SessTyped, Session
<1>1. /\ worker'[w].at = "idle" /\ worker'[w].s = None /\ move'[w].at = "still"
      /\ \A v \in Workers : v # w => worker'[v] = worker[v]
      /\ \A b \in Callers : b # w => move'[b] = move[b]
  BY <1>0 DEF Done, Asleep, WorkerTyped, Dead, Still, LockTypeOK
<1>2. worker[w].at # "failed"
  BY <1>0 DEF WorkerOf, Broken, Tolerable, Fault
<1>3. \A s \in Sessions, v \in Workers :
        /\ Its(v)' = s => Its(v) = s /\ worker'[v] = worker[v]
        /\ Its(v) = s => v = w \/ (Its(v)' = s /\ worker'[v] = worker[v])
  BY <1>0, <1>1 DEF Its, None, Sessions
<1>4. \A s \in Sessions : /\ Alive(s)' <=> Alive(s)
                          /\ HoldsS(s)' => HoldsS(s)
                          /\ HoldsS(s) /\ ~sess[s].up => HoldsS(s)'
  <2>1. \A s \in Sessions : Alive(s)' <=> Alive(s)
    BY <1>0 DEF Alive
  <2> QED BY <1>0, <1>2, <1>3, <2>1 DEF HoldsS
<1>5. \A u : Recorded(u)' <=> Recorded(u)
  BY <1>0, <1>4 DEF Recorded
<1>6. \A q \in Requests : q # w /\ (HoldsR(q)' <=> HoldsR(q))
  BY <1>0, <1>1, CallersAssumption DEF HoldsR
<1>7. Exclusive'
  BY <1>0, <1>4, <1>6 DEF Exclusive
<1>8. Calls'
  BY <1>0, <1>1, <1>6, CallersAssumption, CommonAssumption DEF Calls, CallerOf
<1>9. Stored'
  BY <1>0, <1>4, <1>5 DEF Stored, Upright, Honest, Complete
<1>10. /\ \A b \in Callers : BackOf(b)'
       /\ \A q \in Requests : TakeOf(q)'
  BY <1>0, <1>1, <1>4, <1>6 DEF BackOf, TakeOf
<1>11. Crashed' /\ faults' > 0 /\ faults' >= faults /\ faults' \in Nat
  BY <1>0 DEF Fault, Crashed
<1>12. ASSUME NEW s \in Sessions
       PROVE  SessionOf(s)'
  <2>1. sess[s].tries <= faults'
    BY <1>0, <1>11 DEF SessionOf
  <2> QED BY <1>0, <1>4, <1>11, <2>1 DEF SessionOf
<1>13. WorkerOf(w)' /\ CopyOf(w)'
  BY <1>1 DEF WorkerOf, CopyOf, Carries, Its
<1>14. \A v \in Workers : v # w => WorkerOf(v)' /\ CopyOf(v)'
  BY <1>0, <1>1, <1>5, <1>11 DEF WorkerOf, Owns, Its, CopyOf, Honest, Complete, Upright, User, Broken
<1> QED BY <1>7, <1>8, <1>9, <1>10, <1>12, <1>13, <1>14 DEF Good

\* A worker claims a session that is pending, new or queued again.
LEMMA ClaimKeeps ==
  ASSUME Now, TInv', NEW w \in Workers, Claim(w)
  PROVE  Good'
<1>0. /\ WorkerTyped /\ SessTyped /\ Stored /\ faults \in Nat
      /\ \A s \in Sessions : SessionOf(s)
      /\ \A v \in Workers : WorkerOf(v) /\ CopyOf(v)
      /\ worker[w].at = "idle" /\ IsStill(w)
      /\ UNCHANGED <<lockVars, signer, faults, draft, request, reject>>
  BY TypeParts, CommonAssumption DEF Now, TInv, Good, Claim, At, WorkerKeeps, DatabaseTyped
<1>1. PICK s \in Sessions :
        /\ sess[s].st = "pending"
        /\ sess' = [sess EXCEPT ![s].st = "processing", ![s].by = w]
        /\ worker' = [worker EXCEPT ![w].at = "look", ![w].s = s]
  BY DEF Claim
<1>2. /\ sess'[s].st = "processing" /\ sess'[s].by = w /\ sess'[s].u = sess[s].u
      /\ sess'[s].up = sess[s].up /\ sess'[s].sha = sess[s].sha /\ sess'[s].tries = sess[s].tries
      /\ \A t \in Sessions : t # s => sess'[t] = sess[t]
  <2>1. PICK c : c = [sess[s] EXCEPT !.st = "processing", !.by = w]
    OBVIOUS
  <2>2. /\ c.st = "processing" /\ c.by = w /\ c.u = sess[s].u /\ c.up = sess[s].up
        /\ c.sha = sess[s].sha /\ c.tries = sess[s].tries
    BY <1>0, <2>1 DEF SessTyped, Session
  <2>3. sess' = [sess EXCEPT ![s] = c]
    BY <1>0, <1>1, <2>1 DEF SessTyped
  <2> QED BY <1>0, <2>2, <2>3 DEF SessTyped
<1>3. /\ worker'[w].at = "look" /\ worker'[w].s = s
      /\ \A v \in Workers : v # w => worker'[v] = worker[v]
  <2>1. PICK m : m = [worker[w] EXCEPT !.at = "look", !.s = s]
    OBVIOUS
  <2>2. m.at = "look" /\ m.s = s
    BY <1>0, <2>1 DEF WorkerTyped, WorkerMemory
  <2>3. worker' = [worker EXCEPT ![w] = m]
    BY <1>0, <1>1, <2>1 DEF WorkerTyped
  <2> QED BY <1>0, <2>2, <2>3 DEF WorkerTyped
<1>4. \A v \in Workers : Its(v) = s => worker[v].at = "clean"
  BY <1>0, <1>1 DEF WorkerOf, Owns, None, Sessions
<1>5. Its(w) = None /\ Its(w)' = s /\ \A v \in Workers : v # w => Its(v)' = Its(v)
  BY <1>0, <1>3 DEF WorkerOf, Its
<1>6. \A t \in Sessions : /\ sess'[t].u = sess[t].u /\ sess'[t].up = sess[t].up
                          /\ Alive(t)' <=> Alive(t)
                          /\ HoldsS(t)' <=> HoldsS(t)
  <2>1. \A t \in Sessions : /\ sess'[t].u = sess[t].u /\ sess'[t].up = sess[t].up
                            /\ Alive(t)' <=> Alive(t)
    BY <1>1, <1>2 DEF Alive
  <2>2. \A t \in Sessions : t # s => (HoldsS(t)' <=> HoldsS(t))
    <3>1. \A t \in Sessions, v \in Workers : t # s =>
            /\ Its(v)' = t <=> Its(v) = t
            /\ Its(v) = t => worker'[v].at = worker[v].at
      BY <1>3, <1>5 DEF None, Sessions
    <3> QED BY <2>1, <3>1 DEF HoldsS
  <2>3. HoldsS(s)' <=> HoldsS(s)
    BY <1>3, <1>4, <1>5, <2>1 DEF HoldsS
  <2> QED BY <2>1, <2>2, <2>3
<1>7. \A u : Recorded(u)' <=> Recorded(u)
  BY <1>0, <1>6 DEF Recorded
<1>8. Exclusive' /\ Calls' /\ (\A b \in Callers : BackOf(b)') /\ \A q \in Requests : TakeOf(q)'
  BY <1>0, <1>3, <1>6, LockAlone DEF IsStill
<1>9. Stored'
  BY <1>0, <1>6, <1>7 DEF Stored, Upright, Honest, Complete, lockVars, store
<1>10. ASSUME NEW t \in Sessions
       PROVE  SessionOf(t)'
  <2>1. Sent(t)' <=> Sent(t)
    BY <1>0, <1>6 DEF Sent, lockVars, store
  <2>2. Stranded(t)' => Stranded(t)
    BY <1>3, <1>4, <1>5, <2>1 DEF Stranded, None, Sessions
  <2>3. sess'[t].tries = sess[t].tries /\ sess'[t].sha = sess[t].sha
    BY <1>2
  <2> QED BY <1>0, <1>6, <2>2, <2>3 DEF SessionOf, Crashed, lockVars, store
<1>11. WorkerOf(w)' /\ CopyOf(w)'
  BY <1>2, <1>3, <1>5 DEF WorkerOf, CopyOf, Carries, Owns
<1>12. ASSUME NEW v \in Workers, v # w
       PROVE  WorkerOf(v)' /\ CopyOf(v)'
  <2>1. CASE worker[v].at \in {"idle", "clean"}
    BY <1>0, <1>3, <1>5, <1>12, <2>1 DEF WorkerOf, CopyOf, Carries
  <2>2. CASE worker[v].at \notin {"idle", "clean"}
    <3>1. sess'[Its(v)] = sess[Its(v)]
      BY <1>2, <1>4, <2>2 , OneOwner
    <3> QED BY <1>0, <1>3, <1>5, <1>7, <1>12, <3>1
         DEF WorkerOf, Owns, CopyOf, Honest, Complete, Upright, User, lockVars, store, Broken
  <2> QED BY <2>1, <2>2
<1> QED BY <1>8, <1>9, <1>10, <1>11, <1>12 DEF Good

\* A session that no worker claimed in time was never uploaded.
LEMMA SweepPendingKeeps ==
  ASSUME Now, TInv', Tolerable, SweepPending
  PROVE  Gone' \/ Good'
<1>0. /\ LockTypeOK /\ SessTyped /\ Stored /\ Calls /\ Exclusive /\ Doc \in Docs /\ Sweeper \in Callers
      /\ \A b \in Callers : BackOf(b)
      /\ \A q \in Requests : q \in Callers /\ TakeOf(q)
      /\ \A s \in Sessions : SessionOf(s) /\ sess[s].tries \in Nat
      /\ \A v \in Workers : WorkerOf(v) /\ CopyOf(v)
      /\ Release(Sweeper, Doc) /\ Fault("overdue") /\ faults \in Nat /\ MaxFaults \in Nat
      /\ UNCHANGED <<tosign, inprocess, draft, signer, worker, request, reject>>
  BY TypeParts, CommonAssumption
     DEF Now, TInv, Good, SweepPending, DatabaseTyped, Release, SessTyped, Session, memory
<1>1. PICK s \in Sessions : sess[s].st = "pending" /\ sess' = [sess EXCEPT ![s].st = "expired"]
  BY DEF SweepPending
<1>2. /\ sess'[s].st = "expired" /\ sess'[s].u = sess[s].u /\ sess'[s].sha = sess[s].sha
      /\ sess'[s].tries = sess[s].tries
      /\ \A t \in Sessions : t # s => sess'[t] = sess[t]
  BY <1>0, <1>1 DEF SessTyped, Session
<1>3. /\ ~key'[Doc] /\ move'[Sweeper].at = "back"
      /\ \A b \in Callers : b # Sweeper => move'[b] = move[b]
  BY <1>0 DEF Release, Goes, LockTypeOK
<1>4. \A v \in Workers : /\ Its(v)' = Its(v)
                         /\ Its(v) = s => worker[v].at = "clean"
  BY <1>0, <1>1 DEF WorkerOf, Owns, None, Sessions, Its
<1>5. HoldsS(s) /\ ~sess[s].up /\ tosign[Doc] = NoPdf
  <2>1. ~Crashed
    BY <1>0 DEF Crashed, Tolerable, Fault
  <2>2. ~Sent(s)
    BY <1>0, <1>4, <2>1 DEF SessionOf, Stranded
  <2>3. ~sess[s].up => HoldsS(s)
    BY <1>1, <1>4 DEF HoldsS, Alive
  <2> QED BY <1>1, <2>2, <2>3 DEF Sent, Alive
<1>6. \A v \in Workers : worker[v].at \notin Busy
  BY <1>0, <1>1, <1>4, <1>5, BusyHolds DEF Exclusive, Busy, Carries
<1>7. CASE inprocess[Doc] = NoPdf
  BY <1>0, <1>5, <1>6, <1>7 DEF Gone, Busy
<1>8. CASE inprocess[Doc] # NoPdf
  <2>1. \A t \in Sessions : t # s => (Alive(t)' <=> Alive(t)) /\ (HoldsS(t)' <=> HoldsS(t))
    BY <1>0, <1>2, <1>4 DEF Alive, HoldsS
  <2>2. ~Alive(s)' /\ ~HoldsS(s)' /\ ~Sent(s)'
    BY <1>2 DEF Alive, HoldsS, Sent
  <2>3. \A u : Recorded(u)' <=> Recorded(u)
    BY <1>0, <1>2, <1>5, <2>1, <2>2 DEF Recorded
  <2>4. /\ \A t \in Sessions : ~HoldsS(t)'
        /\ \A q \in Requests : ~HoldsR(q) /\ ~HoldsR(q)'
    BY <1>0, <1>3, <1>5, <2>1, <2>2, CallersAssumption DEF Exclusive, HoldsR
  <2>5. Exclusive'
    BY <2>4 DEF Exclusive
  <2>6. Calls'
    BY <1>0, <1>3, CallersAssumption, CommonAssumption DEF Calls, CallerOf
  <2>7. \A b \in Callers : move[b].at \notin {"check", "take", "clear", "won", "back"}
    BY <1>0, <1>5, <2>4, TakersHold DEF BackOf
  <2>8. /\ \A b \in Callers : BackOf(b)'
        /\ \A q \in Requests : TakeOf(q)'
    BY <1>0, <1>3, <1>5, <1>8, <2>4, <2>7, CallersAssumption DEF BackOf, TakeOf
  <2>9. Stored'
    BY <1>0, <1>5, <2>3 DEF Stored, Upright, Honest, Complete
  <2>10. ASSUME NEW t \in Sessions
         PROVE  SessionOf(t)'
    <3>1. sess'[t].u = sess[t].u /\ sess'[t].sha = sess[t].sha /\ sess'[t].tries <= faults'
      BY <1>0, <1>2 DEF SessionOf, Fault
    <3>2. Stranded(t)' => t # s /\ Stranded(t)
      BY <1>0, <1>2, <1>4, <2>1, <2>2 DEF Stranded, Sent
    <3>3. Crashed => Crashed'
      BY <1>0 DEF Crashed, Fault
    <3>4. \A x \in Sessions : Alive(t)' /\ Alive(x)' /\ sess'[t].u = sess'[x].u => t = x
      BY <1>0, <1>2, <2>1, <2>2 DEF SessionOf
    <3> QED BY <1>0, <2>4, <3>1, <3>2, <3>3, <3>4 DEF SessionOf
  <2>11. ASSUME NEW v \in Workers
         PROVE  WorkerOf(v)' /\ CopyOf(v)'
    <3>1. CASE worker[v].at \in {"idle", "clean"}
      BY <1>0, <1>4, <3>1 DEF WorkerOf, CopyOf, Carries
    <3>2. CASE worker[v].at \notin {"idle", "clean"}
      <4>1. sess'[Its(v)] = sess[Its(v)]
        BY <1>2, <1>4, <3>2, OneOwner
      <4>2. Broken => Broken'
        BY <1>0 DEF Broken, Fault
      <4> QED BY <1>0, <1>4, <2>3, <3>2, <4>1, <4>2
           DEF WorkerOf, Owns, CopyOf, Honest, Complete, Upright, User
    <3> QED BY <3>1, <3>2
  <2> QED BY <2>5, <2>6, <2>8, <2>9, <2>10, <2>11 DEF Good
<1> QED BY <1>7, <1>8

\* A session whose worker died is queued again.
LEMMA SweepProcessingKeeps ==
  ASSUME Now, TInv', SweepProcessing
  PROVE  Good'
<1>0. /\ SessTyped /\ Stored /\ faults \in Nat
      /\ \A s \in Sessions : SessionOf(s)
      /\ \A v \in Workers : WorkerOf(v) /\ CopyOf(v)
      /\ UNCHANGED <<lockVars, draft, signer, worker, request, reject, faults>>
  BY TypeParts, CommonAssumption
     DEF Now, TInv, Good, SweepProcessing, DatabaseTyped, memory
<1>1. PICK s \in Sessions : Abandoned(s) /\ sess' = Requeued(s)
  BY DEF SweepProcessing
<1>2. /\ sess'[s].st = "pending" /\ sess'[s].u = sess[s].u
      /\ sess'[s].up = sess[s].up /\ sess'[s].sha = sess[s].sha /\ sess'[s].tries = sess[s].tries
      /\ \A t \in Sessions : t # s => sess'[t] = sess[t]
  <2>1. PICK c : c = [sess[s] EXCEPT !.st = "pending", !.by = Nobody]
    OBVIOUS
  <2>2. /\ c.st = "pending" /\ c.u = sess[s].u /\ c.up = sess[s].up
        /\ c.sha = sess[s].sha /\ c.tries = sess[s].tries
    BY <1>0, <2>1 DEF SessTyped, Session
  <2>3. sess' = [sess EXCEPT ![s] = c]
    BY <1>0, <1>1, <2>1 DEF SessTyped, Requeued, Abandoned
  <2> QED BY <1>0, <2>2, <2>3 DEF SessTyped
<1>3. \A v \in Workers : Its(v) # s /\ Its(v)' = Its(v)
  BY <1>0, <1>1 DEF Abandoned, WorkerOf, None, Sessions, Its
<1>4. \A t \in Sessions : /\ sess'[t].u = sess[t].u /\ sess'[t].up = sess[t].up
                          /\ Alive(t)' <=> Alive(t)
                          /\ HoldsS(t)' <=> HoldsS(t)
  <2>1. \A t \in Sessions : /\ sess'[t].u = sess[t].u /\ sess'[t].up = sess[t].up
                            /\ Alive(t)' <=> Alive(t)
    BY <1>1, <1>2 DEF Alive, Abandoned
  <2> QED BY <1>0, <1>3, <2>1 DEF HoldsS
<1>5. \A u : Recorded(u)' <=> Recorded(u)
  BY <1>0, <1>4 DEF Recorded
<1>6. Exclusive' /\ Calls' /\ (\A b \in Callers : BackOf(b)') /\ \A q \in Requests : TakeOf(q)'
  BY <1>0, <1>4, LockAlone
<1>7. Stored'
  BY <1>0, <1>4, <1>5 DEF Stored, Upright, Honest, Complete, lockVars, store
<1>8. ASSUME NEW t \in Sessions
      PROVE  SessionOf(t)'
  <2>1. sess'[t].tries = sess[t].tries /\ sess'[t].sha = sess[t].sha
    BY <1>2
  <2>2. Stranded(t)' => Stranded(t)
    BY <1>0, <1>3, <1>4 DEF Stranded, Sent, lockVars, store
  <2> QED BY <1>0, <1>4, <2>1, <2>2 DEF SessionOf, Crashed, lockVars, store
<1>9. ASSUME NEW v \in Workers
      PROVE  WorkerOf(v)' /\ CopyOf(v)'
  <2>1. sess'[Its(v)] = sess[Its(v)] \/ worker[v].at \in {"idle", "clean"}
    BY <1>2, <1>3, OneOwner
  <2> QED BY <1>0, <1>3, <1>5, <2>1
       DEF WorkerOf, Owns, CopyOf, Honest, Complete, Upright, User, lockVars, store, Broken, Carries
<1> QED BY <1>6, <1>7, <1>8, <1>9 DEF Good

\* A rejection deletes the PDF in tosign/ before it closes the document.
LEMMA RejectKeeps ==
  ASSUME Now, TInv', Reject
  PROVE  Gone' \/ Good'
<1>0. /\ LockTypeOK /\ Stored /\ Calls /\ Exclusive /\ Doc \in Docs
      /\ \A b \in Callers : BackOf(b)
      /\ \A q \in Requests : q \in Callers /\ TakeOf(q)
      /\ \A s \in Sessions : SessionOf(s)
      /\ \A v \in Workers : WorkerOf(v) /\ CopyOf(v)
      /\ tosign'[Doc] = NoPdf /\ reject' = "tx"
      /\ UNCHANGED <<key, inprocess, move, draft, signer, sess, worker, request, faults>>
  BY TypeParts, CommonAssumption DEF Now, TInv, Good, Reject, LockTypeOK
<1>1. CASE \E r \in Requests : move[r].at = "take"
  <2>1. PICK r \in Requests : move[r].at = "take"
    BY <1>1
  <2>2. HoldsR(r) /\ inprocess[Doc] = NoPdf
    BY <1>0, <2>1, TakersHold DEF TakeOf
  <2>3. \A v \in Workers : worker[v].at \notin Carries
    BY <2>2, BusyHolds DEF Busy
  <2> QED BY <1>0, <2>2, <2>3 DEF Gone
<1>2. CASE \A r \in Requests : move[r].at # "take"
  <2>1. /\ \A s \in Sessions : (Alive(s)' <=> Alive(s)) /\ (HoldsS(s)' <=> HoldsS(s))
        /\ \A u : Recorded(u)' <=> Recorded(u)
        /\ \A q \in Requests : HoldsR(q)' <=> HoldsR(q)
    BY <1>0 DEF HoldsS, Alive, Its, Recorded, HoldsR
  <2>2. Exclusive' /\ Calls'
    BY <1>0, <2>1 DEF Exclusive, Calls, CallerOf
  <2>3. Stored'
    BY <1>0, <2>1 DEF Stored, Upright, Honest, Complete
  <2>4. /\ \A b \in Callers : BackOf(b)'
        /\ \A q \in Requests : TakeOf(q)'
    BY <1>0, <1>2, <2>1 DEF BackOf, TakeOf
  <2>5. \A s \in Sessions : SessionOf(s)'
    <3>1. \A s \in Sessions : Stranded(s)' => Stranded(s)
      BY <1>0, <2>1 DEF Stranded, Sent, Its
    <3> QED BY <1>0, <2>1, <3>1 DEF SessionOf, Crashed
  <2>6. \A v \in Workers : WorkerOf(v)' /\ CopyOf(v)'
    BY <1>0, <2>1 DEF WorkerOf, Owns, Its, CopyOf, Honest, Complete, Upright, User, Broken
  <2> QED BY <2>2, <2>3, <2>4, <2>5, <2>6 DEF Good
<1> QED BY <1>1, <1>2

\* A document stays open only while nobody has got further than its PDF.
LEMMA UnrejectedKeeps ==
  ASSUME TInv, Open => Unrejected, Next, Open'
  PROVE  Open /\ Unrejected'
<1>1. UNCHANGED <<draft, reject, signer>> \/ (\E w \in Workers : UpdateSigner(w)) \/ Reject \/ RejectGoes
  <2>1. CASE \E r \in Requests : RequestLook(r) \/ RequestGoes(r) \/ RequestInsertFails(r)
                                 \/ RequestDies(r)
    BY <2>1 DEF RequestLook, RequestGoes, RequestInsertFails, RequestDies, RequestLock, RequestLost,
       RequestInsert, RequestFinds, RequestKeeps
  <2>2. CASE \E w \in Workers : Works(w)
    BY <2>2 DEF Works, WorkerGoes, Claim, GivesUp, Breaks, BreaksLate, WorkerDies, Look, Payload,
       Compare, Read, Absent, Save, Sign, Fence, Put, MarkUploaded, SettleUpload, Marker,
       MarkSession, Clean, GiveBack, MarkFailed, WorkerKeeps
  <2>3. CASE \E a \in Callers : Moves(a)
    BY <2>3 DEF Moves, Elsewhere, memory
  <2>4. CASE Others
    BY <2>4 DEF Others, SweepPending, SweepProcessing, Elsewhere, memory
  <2> QED BY <2>1, <2>2, <2>3, <2>4, NextIs
<1>2. CASE UNCHANGED <<draft, reject, signer>>
  BY <1>2 DEF Open, Unrejected
<1>3. CASE \E w \in Workers : UpdateSigner(w)
  <2>1. PICK w \in Workers : UpdateSigner(w)
    BY <1>3
  <2>2. UNCHANGED <<draft, reject>> /\ signer' = [signer EXCEPT ![User(w)] = "signed"]
    BY <2>1 DEF UpdateSigner, WorkerKeeps
  <2>3. signer \in [Signers -> {"pending", "signed", "rejected"}]
    BY TypeParts DEF TInv, DatabaseTyped
  <2> QED BY <2>2, <2>3 DEF Open, Unrejected
<1>4. CASE Reject
  BY <1>4 DEF Reject, Open, Unrejected
<1>5. ASSUME RejectGoes
      PROVE  FALSE
  BY <1>5 DEF RejectGoes, RejectTx, RejectExpire, RejectClear, RejectIs, Open, Unrejected
<1> QED BY <1>1, <1>2, <1>3, <1>4, <1>5

LEMMA NextKeeps ==
  ASSUME Tolerable, Now, TInv', Next, Open'
  PROVE  Gone' \/ Good'
<1>1. CASE \E r \in Requests : RequestLook(r) \/ RequestGoes(r) \/ RequestInsertFails(r)
                               \/ RequestDies(r)
  BY <1>1, RequestsKeep
<1>2. CASE \E w \in Workers : Works(w)
  <2>1. PICK w \in Workers : Works(w)
    BY <1>2
  <2>2. CASE \/ Look(w) \/ Payload(w) \/ Compare(w) \/ Read(w) \/ Absent(w) \/ Sign(w) \/ Fence(w)
             \/ GivesUp(w)
    BY <2>2, ThinkingKeeps
  <2>3. CASE Save(w) \/ Put(w)
    BY <2>3, SaveKeeps, PutKeeps
  <2>4. CASE MarkUploaded(w) \/ Marker(w)
    BY <2>4, MarksKeep
  <2>5. CASE SettleUpload(w) \/ UpdateSigner(w)
    BY <2>5, SettleKeeps, SignerKeeps
  <2>6. CASE MarkSession(w) \/ MarkFailed(w)
    BY <2>6, EndsKeep
  <2>7. CASE GiveBack(w) \/ Clean(w)
    BY <2>7, GiveBackKeeps, CleanKeeps
  <2>8. CASE Breaks(w) \/ BreaksLate(w) \/ WorkerDies(w)
    BY <2>8, BreaksKeeps, LateKeeps, DiesKeeps
  <2>9. CASE Claim(w)
    BY <2>9, ClaimKeeps
  <2> QED BY <2>1, <2>2, <2>3, <2>4, <2>5, <2>6, <2>7, <2>8, <2>9 DEF Works, WorkerGoes
<1>3. CASE \E a \in Callers : Moves(a)
  BY <1>3, MovesKeep
<1>4. CASE Others
  <2>1. CASE SweepPending \/ SweepProcessing \/ Reject
    BY <2>1, SweepPendingKeeps, SweepProcessingKeeps, RejectKeeps
  <2>2. ~RejectGoes
    BY DEF Now, Unrejected, RejectGoes, RejectTx, RejectExpire, RejectClear, RejectIs, Open
  <2>3. ~Fault("key")
    BY DEF Fault, Tolerable
  <2> QED BY <1>4, <2>1, <2>2, <2>3 DEF Others
<1> QED BY <1>1, <1>2, <1>3, <1>4, NextIs

LEMMA InitInv ==
  ASSUME Init
  PROVE  IInv
<1>0. /\ TInv /\ Doc \in Docs
      /\ \A a \in Callers : move[a].at = "still"
      /\ inprocess[Doc] = NoPdf /\ tosign[Doc] = [u \in Signers |-> 0]
      /\ \A u \in Signers : signer[u] = "pending"
      /\ \A s \in Sessions : sess[s] = NoSession
      /\ \A w \in Workers : worker[w] = Asleep
      /\ \A r \in Requests : request[r] = Resting
      /\ draft = "sent_to_sign" /\ reject = "idle" /\ faults = 0
  BY InitTypes, CommonAssumption DEF Init, LockInit, Still, Unsigned
<1>1. /\ \A s \in Sessions : ~Alive(s) /\ ~HoldsS(s)
      /\ \A u \in Signers : ~Recorded(u)
      /\ \A r \in Requests : ~HoldsR(r)
  BY <1>0 DEF Alive, HoldsS, Recorded, HoldsR, NoSession, Resting
<1>2. Exclusive
  BY <1>1 DEF Exclusive
<1>3. Calls
  BY <1>0, CommonAssumption DEF Calls, CallerOf, Resting
<1>4. Stored
  BY <1>0, <1>1 DEF Stored, Upright, Complete
<1>5. /\ \A a \in Callers : BackOf(a)
      /\ \A r \in Requests : TakeOf(r)
  BY <1>0, CommonAssumption DEF BackOf, TakeOf
<1>6. \A s \in Sessions : SessionOf(s)
  BY <1>0, <1>1 DEF SessionOf, Stranded, Sent, NoSession
<1>7. \A w \in Workers : WorkerOf(w) /\ CopyOf(w)
  BY <1>0 DEF WorkerOf, CopyOf, Asleep, Carries, Its
<1> QED BY <1>0, <1>2, <1>3, <1>4, <1>5, <1>6, <1>7 DEF IInv, Unrejected, Open, Good

LEMMA NextInv ==
  ASSUME Tolerable, IInv, [Next]_vars
  PROVE  IInv'
<1>1. CASE Next
  <2>1. TInv'
    BY <1>1, NextTypes DEF IInv
  <2>2. ASSUME Open'
        PROVE  Unrejected' /\ (Gone' \/ Good')
    <3>1. Open /\ Unrejected' /\ Unrejected
      BY <1>1, <2>2, UnrejectedKeeps DEF IInv
    <3>2. CASE Gone
      BY <1>1, <3>1, <3>2, GoneStays DEF IInv
    <3>3. CASE Good
      BY <1>1, <2>1, <2>2, <3>1, <3>3, NextKeeps DEF IInv, Now
    <3> QED BY <3>1, <3>2, <3>3 DEF IInv
  <2> QED BY <2>1, <2>2 DEF IInv
<1>2. CASE UNCHANGED vars
  <2>1. UNCHANGED <<key, tosign, inprocess, move, draft, signer, sess, worker, request, reject, faults>>
    BY <1>2 DEF vars, memory, lockVars, store
  <2>2. TInv'
    BY <1>2, NextTypes DEF IInv
  <2>3. (Open' <=> Open) /\ (Unrejected' <=> Unrejected) /\ (Gone' <=> Gone)
    BY <2>1 DEF Open, Unrejected, Gone
  <2>4. /\ \A s \in Sessions : (Alive(s)' <=> Alive(s)) /\ (HoldsS(s)' <=> HoldsS(s))
        /\ \A u : Recorded(u)' <=> Recorded(u)
        /\ \A q \in Requests : HoldsR(q)' <=> HoldsR(q)
    BY <2>1 DEF HoldsS, Alive, Its, Recorded, HoldsR
  <2>5. Good => Good'
    BY <2>1, <2>4 DEF Good, Exclusive, Calls, CallerOf, Stored, BackOf, TakeOf, SessionOf, Stranded,
       Sent, Its, WorkerOf, Owns, CopyOf, Honest, Complete, Upright, User, Broken, Crashed
  <2> QED BY <2>2, <2>3, <2>5 DEF IInv
<1> QED BY <1>1, <1>2

LEMMA InvSuffices ==
  ASSUME IInv
  PROVE  SignedOnce /\ SignedIsInPdf
<1>0. tosign[Doc] \in Pdfs \union {NoPdf} /\ inprocess[Doc] \in Pdfs \union {NoPdf}
  BY TypeParts, CommonAssumption DEF IInv, TInv, LockTypeOK
<1>1. \A pdf \in Pdfs, u \in Signers : pdf[u] \in Nat
  BY CommonAssumption
<1>2. SignedOnce
  BY <1>0, <1>1 DEF SignedOnce, IInv, Open, Gone, Good, Stored, Upright
<1>3. SignedIsInPdf
  <2>1. \A u \in Signers : signer[u] = "signed" => Recorded(u)
    BY DEF Recorded
  <2> QED BY <2>1 DEF SignedIsInPdf, Current, IInv, Open, Gone, Good, Stored, Complete
<1> QED BY <1>2, <1>3

\* However often a job is retried, nobody's signature is put twice into a PDF.
THEOREM NobodySignsTwice ==
  ASSUME Tolerable
  PROVE  Spec => []SignedOnce
<1>1. Spec => []IInv
  BY InitInv, NextInv, PTL DEF Spec
<1> QED BY <1>1, InvSuffices, PTL

\* Who counts as having signed has his signature in the document's PDF.
THEOREM SignaturesAreKept ==
  ASSUME Tolerable
  PROVE  Spec => []SignedIsInPdf
<1>1. Spec => []IInv
  BY InitInv, NextInv, PTL DEF Spec
<1> QED BY <1>1, InvSuffices, PTL

=============================================================================
