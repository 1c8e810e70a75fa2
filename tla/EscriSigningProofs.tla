-------------------------- MODULE EscriSigningProofs --------------------------
(***************************************************************************)
(* Proofs about EscriSigning for any number of workers, sessions, tickets  *)
(* and faults.                                                             *)
(*                                                                         *)
(* First argument, for any requests: what a payload, a session or the      *)
(* memory of a worker says of the number was true when it was read, and    *)
(* stays true because nobody takes a committed number back (IInv).         *)
(*                                                                         *)
(* Second argument, for one numbering request at a time in the GLOBAL      *)
(* regime and any number of them in the SPECIAL one: whoever is about to   *)
(* commit, upload or mark has the present ticket, because a new one is     *)
(* taken only when no session is alive (CInv).                             *)
(***************************************************************************)
EXTENDS EscriSigning, TLAPS

Committed == od.st \in {"CONFIRMING", "CONFIRMED"}

\* is_confirming and confirmed_autoheal are true of the document's number.
Justified(load) == /\ load.resume => Committed
                   /\ load.heal => od.st = "CONFIRMED"

SessionsJustified == \A s \in Slots : Justified(sess[s].load)

WorkersJustified ==
  \A w \in Workers :
    /\ Justified(worker[w].load)
    /\ worker[w].pc # "idle" => worker[w].s \in Slots
    /\ worker[w].pc \in {"fence", "upload", "finalize"} => Committed
    /\ worker[w].pc = "finalize" => pdf # 0

\* A request that publishes has committed its own ticket.
RequestsJustified ==
  \A r \in Requests :
    /\ request[r].pc \in Publishing => Committed /\ request[r].tk = od.tk
    /\ request[r].pc \in Publishing \ {"upload"} => pdf # 0
    /\ request[r].pc \in {"mark", "clean"} => od.st = "CONFIRMED"
    /\ request[r].pc = "enqueue" => regime = "GLOBAL"

SweepJustified == /\ Justified(sweep.load)
                  /\ sweep.pc = "requeue" => sweep.s \in Slots

TicketKnown == od.st # "NONE" => od.tk # 0

Facts == /\ SessionsJustified /\ WorkersJustified
         /\ RequestsJustified /\ SweepJustified
         /\ TicketKnown /\ PdfIsCommitted /\ IssuedHasPdf

IInv == TypeOK /\ Facts

-----------------------------------------------------------------------------
(* The types of what the steps assign *)

Statuses == Live \union {"none", "signed", "failed", "expired"}

\* The record that every new session starts from is a session.
LEMMA NoSessionTyped == NoSession \in Session /\ Fresh \in Payload
BY QueueAssumption DEF NoSession, Fresh, Session, Payload

\* Goto(w, pc) keeps the memory of the workers typed.
LEMMA GotoTyped ==
  ASSUME TypeOK, NEW w \in Workers, NEW pc \in WorkerPC
  PROVE  [worker EXCEPT ![w].pc = pc] \in [Workers -> Memory(WorkerPC)]
<1>1. worker \in [Workers -> Memory(WorkerPC)]
  BY DEF TypeOK
<1>2. [worker[w] EXCEPT !.pc = pc] \in Memory(WorkerPC)
  BY <1>1 DEF Memory
<1> QED BY <1>1, <1>2

\* Done(w) keeps the memory of the workers typed.
LEMMA DoneTyped ==
  ASSUME TypeOK, NEW w \in Workers
  PROVE  [worker EXCEPT ![w] = Idle] \in [Workers -> Memory(WorkerPC)]
BY NoSessionTyped, QueueAssumption DEF TypeOK, Memory, WorkerPC, Idle

\* What Ended makes of the sessions.
LEMMA EndedTyped ==
  ASSUME TypeOK, NEW s \in Slots, NEW st \in Statuses
  PROVE  /\ Ended(s, st) \in [Slots -> Session]
         /\ Ended(s, st)[s].st = st /\ Ended(s, st)[s].load = Fresh
         /\ \A q \in Slots \ {s} : Ended(s, st)[q] = sess[q]
<1>1. sess \in [Slots -> Session]
  BY DEF TypeOK
<1>2. [NoSession EXCEPT !.st = st] \in Session
  BY NoSessionTyped DEF Session, Statuses
<1>3. /\ [NoSession EXCEPT !.st = st].st = st
      /\ [NoSession EXCEPT !.st = st].load = Fresh
  BY DEF NoSession
<1> QED BY <1>1, <1>2, <1>3 DEF Ended

\* What Requeued makes of the sessions.
LEMMA RequeuedTyped ==
  ASSUME TypeOK, NEW s \in Slots, NEW load \in Payload
  PROVE  /\ Requeued(s, load) \in [Slots -> Session]
         /\ Requeued(s, load)[s].st = "pending" /\ Requeued(s, load)[s].load = load
         /\ Requeued(s, load)[s].tk = sess[s].tk
         /\ \A q \in Slots \ {s} : Requeued(s, load)[q] = sess[q]
<1>1. sess \in [Slots -> Session]
  BY DEF TypeOK
<1> DEFINE new == [sess[s] EXCEPT !.st = "pending", !.by = NoWorker, !.load = load,
                                  !.late = FALSE]
<1>2. new \in Session
  BY <1>1 DEF Session, Live
<1>3. new.st = "pending" /\ new.load = load /\ new.tk = sess[s].tk
  BY <1>1 DEF Session
<1>4. Requeued(s, load) = [sess EXCEPT ![s] = new]
  BY <1>1 DEF Requeued
<1> QED BY <1>1, <1>2, <1>3, <1>4

\* What Enqueue makes of the sessions: one of them is new.
LEMMA EnqueuedTyped ==
  ASSUME TypeOK, NEW t \in 0 .. MaxTickets, NEW load \in Payload, Enqueue(t, load)
  PROVE  /\ sess' \in [Slots -> Session] /\ queued' \in BOOLEAN
         /\ ~SomeLive
         /\ \E s \in Slots : /\ sess'[s].st = "pending" /\ sess'[s].tk = t
                             /\ sess'[s].load = load
                             /\ \A q \in Slots \ {s} : sess'[q] = sess[q]
<1>1. sess \in [Slots -> Session]
  BY DEF TypeOK
<1> DEFINE new == [NoSession EXCEPT !.st = "pending", !.tk = t, !.load = load]
<1>2. new \in Session
  BY NoSessionTyped DEF Session, Live
<1>3. new.st = "pending" /\ new.load = load /\ new.tk = t
  BY DEF NoSession
<1>4. PICK s \in Slots : sess' = [sess EXCEPT ![s] = new]
  BY DEF Enqueue, Free
<1>5. ~SomeLive
  BY DEF Enqueue
<1>6. queued' \in BOOLEAN
  BY DEF Enqueue, TypeOK
<1> HIDE DEF new
<1> QED BY <1>1, <1>2, <1>3, <1>4, <1>5, <1>6

\* The memory of a worker that goes on or is done with its job.
LEMMA MovedTyped ==
  ASSUME TypeOK, NEW w \in Workers, NEW pc \in WorkerPC,
         Goto(w, pc) \/ Done(w)
  PROVE  /\ worker' \in [Workers -> Memory(WorkerPC)]
         /\ \A v \in Workers \ {w} : worker'[v] = worker[v]
         /\ \/ worker'[w] = Idle
            \/ /\ worker'[w].pc = pc /\ worker'[w].load = worker[w].load
               /\ worker'[w].s = worker[w].s /\ worker'[w].tk = worker[w].tk
<1>1. worker' \in [Workers -> Memory(WorkerPC)]
  BY GotoTyped, DoneTyped DEF Goto, Done
<1>2. worker \in [Workers -> Memory(WorkerPC)]
  BY DEF TypeOK
<1>3. CASE Goto(w, pc)
  BY <1>1, <1>2, <1>3 DEF Goto, Memory
<1>4. CASE Done(w)
  BY <1>1, <1>2, <1>4 DEF Done
<1> QED BY <1>3, <1>4

-----------------------------------------------------------------------------
(* Each step keeps the inductive invariant *)

\* When only a worker moves on, its next step must be justified.
LEMMA MovedFacts ==
  ASSUME IInv, NEW w \in Workers, NEW pc \in WorkerPC,
         Goto(w, pc) \/ Done(w),
         worker[w].pc # "idle",
         pc \in {"fence", "upload", "finalize"} => Committed,
         pc = "finalize" => pdf # 0,
         faults' \in 0 .. MaxFaults,
         UNCHANGED <<document, od, files, sess, queued, alerted, sweep, handlers>>
  PROVE  IInv'
<1>1. TypeOK'
  BY MovedTyped DEF IInv, TypeOK, document, files, handlers
<1>2. WorkersJustified'
  <2> SUFFICES ASSUME NEW v \in Workers
               PROVE  /\ Justified(worker'[v].load)
                      /\ worker'[v].pc # "idle" => worker'[v].s \in Slots
                      /\ worker'[v].pc \in {"fence", "upload", "finalize"} => Committed
                      /\ worker'[v].pc = "finalize" => pdf # 0
    BY DEF WorkersJustified, Justified, Committed, files
  <2>1. CASE v # w
    BY <2>1, MovedTyped DEF IInv, Facts, WorkersJustified
  <2>2. CASE v = w
    BY <2>2, MovedTyped DEF IInv, Facts, WorkersJustified, Idle, Fresh, Justified
  <2> QED BY <2>1, <2>2
<1>3. Facts'
  BY <1>2 DEF IInv, Facts, SessionsJustified, RequestsJustified,
              SweepJustified, TicketKnown, PdfIsCommitted, IssuedHasPdf, Justified,
              Committed, document, files, handlers
<1> QED BY <1>1, <1>3 DEF IInv

\* Steps that change nothing but the memory of one worker.
LEMMA MemoryIInv ==
  ASSUME IInv, NEW w \in Workers,
         \/ Guard(w) \/ Sign(w) \/ SignLost(w) \/ Fence(w)
         \/ Rejected(w) \/ Error(w) \/ Fails(w) \/ Crash(w)
  PROVE  IInv'
<1> DEFINE Moved(pc) == /\ Goto(w, pc) \/ Done(w)
                        /\ pc \in {"fence", "upload", "finalize"} => Committed
                        /\ pc = "finalize" => pdf # 0
<1>1. worker[w].pc # "idle"
  BY DEF Guard, Sign, SignLost, Fence, Rejected, Error, Fails, Crash, At, Body
<1>2. faults' \in 0 .. MaxFaults
  BY QueueAssumption DEF IInv, TypeOK, Guard, Sign, SignLost, Fence, Rejected, Error,
                         Fails, Crash, NoFault, Fault
<1>3. UNCHANGED <<document, od, files, sess, queued, alerted, sweep, handlers>>
  BY DEF Guard, Sign, SignLost, Fence, Rejected, Error, Fails, Crash
<1>4. \E pc \in WorkerPC : Moved(pc)
  <2>1. CASE Guard(w)
    BY <2>1 DEF Guard, WorkerPC
  <2>2. CASE Sign(w)
    <3>1. worker[w].load.resume => Committed
      BY DEF IInv, Facts, WorkersJustified, Justified
    <3> QED BY <2>2, <3>1 DEF Sign, WorkerPC
  <2>3. CASE SignLost(w)
    BY <2>3 DEF SignLost, WorkerPC
  <2>4. CASE Fence(w)
    <3>1. Committed
      BY <2>4 DEF IInv, Facts, WorkersJustified, Fence, At
    <3> QED BY <2>4, <3>1 DEF Fence, WorkerPC
  <2>5. CASE Rejected(w)
    BY <2>5 DEF Rejected, WorkerPC
  <2>6. CASE Error(w)
    BY <2>6 DEF Error, WorkerPC
  <2>7. CASE Fails(w)
    BY <2>7 DEF Fails, WorkerPC
  <2>8. CASE Crash(w)
    BY <2>8 DEF Crash, WorkerPC
  <2> QED BY <2>1, <2>2, <2>3, <2>4, <2>5, <2>6, <2>7, <2>8
<1> QED BY <1>1, <1>2, <1>3, <1>4, MovedFacts

\* Steps of a worker that change a session.
LEMMA SessionIInv ==
  ASSUME IInv, NEW w \in Workers,
         \/ Claim(w) \/ Renew(w) \/ GuardUnread(w) \/ BreakerOpen(w)
         \/ MarkSession(w) \/ MarkFailed(w)
  PROVE  IInv'
<1> USE DEF IInv, Facts, document, files, handlers
<1>0. /\ worker \in [Workers -> Memory(WorkerPC)] /\ sess \in [Slots -> Session]
      /\ Fresh \in Payload /\ NoSession \in Session
      /\ worker[w].pc # "idle" => worker[w].s \in Slots
  BY NoSessionTyped DEF TypeOK, WorkersJustified
<1>1. CASE Claim(w)
  <2>1. PICK s \in Slots :
          /\ sess[s].st = "pending"
          /\ sess' = [sess EXCEPT ![s].st = "processing", ![s].by = w, ![s].late = FALSE]
          /\ worker' = [worker EXCEPT ![w] = [pc |-> "guard", s |-> s, tk |-> sess[s].tk,
                                              load |-> sess[s].load]]
    BY <1>1 DEF Claim
  <2>2. [sess[s] EXCEPT !.st = "processing", !.by = w, !.late = FALSE] \in Session
    BY <1>0 DEF Session, Live
  <2>3. sess' \in [Slots -> Session]
    BY <1>0, <2>1, <2>2
  <2>4. worker' \in [Workers -> Memory(WorkerPC)]
    BY <1>0, <2>1 DEF Memory, WorkerPC, Session, Slots
  <2>5. TypeOK'
    <3>1. UNCHANGED <<document, od, files, queued, alerted, sweep, handlers, faults>>
      BY <1>1 DEF Claim
    <3> QED BY <2>3, <2>4, <3>1 DEF TypeOK
  <2>6. \A q \in Slots : sess'[q].load = sess[q].load
    BY <1>0, <2>1 DEF Session
  <2>7. SessionsJustified' /\ WorkersJustified'
    BY <1>0, <1>1, <2>1, <2>6 DEF Claim, SessionsJustified, WorkersJustified, Justified,
                                  Committed
  <2> QED BY <1>1, <2>5, <2>7 DEF Claim, RequestsJustified, SweepJustified, TicketKnown, PdfIsCommitted,
                                  IssuedHasPdf, Justified, Committed
<1>2. CASE Renew(w)
  <2>1. sess' \in [Slots -> Session] /\ \A q \in Slots : sess'[q].load = sess[q].load
    BY <1>0, <1>2 DEF Renew, At, Session
  <2> QED BY <1>2, <2>1 DEF Renew, TypeOK, SessionsJustified, WorkersJustified,
                            RequestsJustified, SweepJustified, TicketKnown, PdfIsCommitted, IssuedHasPdf,
                            Justified, Committed
<1> DEFINE Carried(new) ==
             /\ new \in [Slots -> Session]
             /\ \A q \in Slots :
                  /\ new[q].load.resume => sess[q].load.resume \/ worker[w].load.resume
                  /\ new[q].load.heal => sess[q].load.heal \/ worker[w].load.heal
<1>3. Carried(sess)
  BY <1>0
<1>4. ASSUME NEW s \in Slots, NEW st \in Statuses PROVE Carried(Ended(s, st))
  BY <1>0, EndedTyped DEF Fresh
<1>5. ASSUME NEW s \in Slots, NEW n \in 0 .. MaxGuard
       PROVE  Carried(Requeued(s, [worker[w].load EXCEPT !.tries = n]))
  <2>1. [worker[w].load EXCEPT !.tries = n] \in Payload
    BY <1>0 DEF Memory, Payload
  <2>2. PICK load \in Payload : load = [worker[w].load EXCEPT !.tries = n]
    BY <2>1
  <2>3. load.resume = worker[w].load.resume /\ load.heal = worker[w].load.heal
    BY <1>0, <2>2 DEF Memory, Payload
  <2>4. Carried(Requeued(s, load))
    BY <1>0, <2>3, RequeuedTyped
  <2> QED BY <2>2, <2>4 DEF Requeued
<1>6. ASSUME NEW s \in Slots PROVE Carried(Requeued(s, sess[s].load))
  <2>1. PICK load \in Payload : load = sess[s].load
    BY <1>0 DEF Session
  <2>2. Carried(Requeued(s, load))
    BY <1>0, <2>1, RequeuedTyped
  <2> QED BY <2>1, <2>2 DEF Requeued
<1>7. ASSUME NEW s \in Slots, NEW c \in BOOLEAN
       PROVE  Carried([sess EXCEPT ![s] = [NoSession EXCEPT !.st = "failed",
                                                            !.conflict = c]])
  <2>1. [NoSession EXCEPT !.st = "failed", !.conflict = c] \in Session
    BY <1>0 DEF Session
  <2>2. [NoSession EXCEPT !.st = "failed", !.conflict = c].load = Fresh
    BY DEF NoSession
  <2> QED BY <1>0, <2>1, <2>2 DEF Fresh
<1> HIDE DEF Carried
<1>8. CASE GuardUnread(w) \/ BreakerOpen(w) \/ MarkSession(w) \/ MarkFailed(w)
  <2>1. worker[w].s \in Slots
    BY <1>0, <1>8 DEF GuardUnread, BreakerOpen, MarkSession, MarkFailed, At
  <2>2. Carried(sess')
    <3>1. CASE GuardUnread(w)
      <4> DEFINE n == worker[w].load.tries + 1
      <4>1. n < MaxGuard => n \in 0 .. MaxGuard
        BY <1>0, QueueAssumption DEF Memory, Payload
      <4>2. n \in Nat /\ MaxGuard \in Nat
        BY <1>0, QueueAssumption DEF Memory, Payload
      <4>3. "failed" \in Statuses
        BY DEF Statuses
      <4>4. \/ sess' = sess
            \/ sess' = Ended(worker[w].s, "failed")
            \/ n < MaxGuard /\ sess' = Requeued(worker[w].s, [worker[w].load EXCEPT !.tries = n])
        BY <3>1, <4>2 DEF GuardUnread
      <4> QED BY <2>1, <4>1, <4>3, <4>4, <1>3, <1>4, <1>5
    <3>2. CASE BreakerOpen(w)
      BY <2>1, <3>2, <1>3, <1>6 DEF BreakerOpen
    <3>3. CASE MarkSession(w)
      <4>1. "signed" \in Statuses
        BY DEF Statuses
      <4> QED BY <2>1, <3>3, <4>1, <1>3, <1>4 DEF MarkSession
    <3>4. CASE MarkFailed(w)
      <4>1. At(w, "conflict") \in BOOLEAN
        BY DEF At
      <4> QED BY <2>1, <3>4, <4>1, <1>3, <1>7 DEF MarkFailed
    <3> QED BY <1>8, <3>1, <3>2, <3>3, <3>4
  <2>3. Done(w)
    BY <1>8 DEF GuardUnread, BreakerOpen, MarkSession, MarkFailed
  <2>4. TypeOK'
    <3>1. faults' \in 0 .. MaxFaults
      BY <1>8, QueueAssumption DEF TypeOK, GuardUnread, BreakerOpen, MarkSession, MarkFailed,
                                   Fault
    <3>2. worker' \in [Workers -> Memory(WorkerPC)]
      BY <2>3, DoneTyped DEF Done
    <3> QED BY <1>8, <2>2, <3>1, <3>2
            DEF TypeOK, GuardUnread, BreakerOpen, MarkSession, MarkFailed, Carried
  <2>5. SessionsJustified'
    BY <1>8, <2>2 DEF GuardUnread, BreakerOpen, MarkSession, MarkFailed, Carried,
                      SessionsJustified, WorkersJustified, Justified, Committed
  <2>6. WorkersJustified'
    BY <1>0, <1>8, <2>3 DEF GuardUnread, BreakerOpen, MarkSession, MarkFailed,
                       WorkersJustified, Justified, Committed, Done, Idle, Fresh
  <2> QED BY <1>8, <2>4, <2>5, <2>6 DEF GuardUnread, BreakerOpen, MarkSession, MarkFailed,
       RequestsJustified, SweepJustified, TicketKnown, PdfIsCommitted, IssuedHasPdf, Justified, Committed
<1> QED BY <1>1, <1>2, <1>8

\* Steps of a worker that change the number, the files or the draft.
LEMMA DocumentIInv ==
  ASSUME IInv, NEW w \in Workers,
         \/ Confirm(w) \/ Stale(w) \/ Upload(w) \/ Finalize(w)
         \/ MarkDocument(w) \/ GiveUp(w) \/ Shutdown(w)
  PROVE  IInv'
<1> USE DEF IInv, Facts, document, files, handlers
<1>0. /\ worker \in [Workers -> Memory(WorkerPC)] /\ sess \in [Slots -> Session]
      /\ od \in Row
      /\ worker[w].pc # "idle" => worker[w].s \in Slots
  BY DEF TypeOK, WorkersJustified
<1>1. CASE Confirm(w)
  <2>1. CASE Holds(worker[w].tk, "RESERVED")
    <3>1. /\ od' = [od EXCEPT !.st = "CONFIRMING"] /\ Goto(w, "fence")
          /\ od.st = "RESERVED" /\ worker[w].pc = "confirm"
          /\ UNCHANGED <<document, files, sess, queued, alerted, sweep, handlers, faults>>
      BY <1>1, <2>1 DEF Confirm, Holds, At
    <3>2. od' \in Row /\ od'.st = "CONFIRMING" /\ od'.tk = od.tk
      BY <1>0, <3>1 DEF Row
    <3>3. TypeOK'
      BY <3>1, <3>2, MovedTyped DEF TypeOK, WorkerPC
    <3>4. WorkersJustified'
      BY <1>0, <3>1, <3>2, MovedTyped DEF WorkersJustified, Justified, Committed, WorkerPC,
                                     Idle, Fresh
    <3> QED BY <3>1, <3>2, <3>3, <3>4 DEF SessionsJustified, RequestsJustified, SweepJustified, TicketKnown,
                             PdfIsCommitted, IssuedHasPdf, Justified, Committed
  <2>2. CASE ~Holds(worker[w].tk, "RESERVED")
    <3>1. "stale" \in WorkerPC
      BY DEF WorkerPC
    <3> QED BY <1>1, <2>2, <3>1, MovedFacts DEF Confirm, TypeOK, At
  <2> QED BY <2>1, <2>2
<1>2. CASE Stale(w)
  <2>1. CASE Holds(worker[w].tk, "CONFIRMING") 
    <3>1. /\ worker' = [worker EXCEPT ![w].pc = "fence", ![w].load.resume = TRUE]
          /\ od.st = "CONFIRMING" /\ worker[w].pc = "stale"
          /\ UNCHANGED <<document, od, files, sess, queued, alerted, sweep, handlers, faults>>
      BY <1>2, <2>1 DEF Stale, Holds, At
    <3>2. worker' \in [Workers -> Memory(WorkerPC)]
      <4>1. [worker[w].load EXCEPT !.resume = TRUE] \in Payload
        BY <1>0 DEF Memory, Payload
      <4>2. [worker[w] EXCEPT !.pc = "fence", !.load.resume = TRUE] \in Memory(WorkerPC)
        BY <1>0, <4>1 DEF Memory, WorkerPC
      <4> QED BY <1>0, <3>1, <4>2
    <3>3. /\ worker'[w].pc = "fence" /\ worker'[w].s = worker[w].s
          /\ worker'[w].load.heal = worker[w].load.heal
          /\ \A v \in Workers \ {w} : worker'[v] = worker[v]
      BY <1>0, <3>1 DEF Memory, Payload
    <3>4. TypeOK'
      BY <3>1, <3>2 DEF TypeOK
    <3>5. WorkersJustified'
      BY <1>0, <3>1, <3>3 DEF WorkersJustified, Justified, Committed
    <3> QED BY <3>1, <3>4, <3>5 DEF SessionsJustified, RequestsJustified, SweepJustified, TicketKnown,
                             PdfIsCommitted, IssuedHasPdf, Justified, Committed
  <2>2. CASE ~Holds(worker[w].tk, "CONFIRMING")
    <3>1. "markdoc" \in WorkerPC /\ "fail" \in WorkerPC
      BY DEF WorkerPC
    <3>2. Goto(w, "markdoc") \/ Goto(w, "fail")
      BY <1>2, <2>2 DEF Stale
    <3>3. /\ worker[w].pc = "stale" /\ faults' \in 0 .. MaxFaults
          /\ UNCHANGED <<document, od, files, sess, queued, alerted, sweep, handlers>>
      BY <1>2 DEF Stale, At, TypeOK
    <3> QED BY <3>1, <3>2, <3>3, MovedFacts
  <2> QED BY <2>1, <2>2
<1>3. CASE Upload(w)
  <2>1. /\ Goto(w, "finalize") /\ worker[w].pc = "upload"
        /\ pdf' \in 1 .. 2
        /\ UNCHANGED <<document, od, tosign, sess, queued, alerted, sweep, handlers, faults>>
    BY <1>3 DEF Upload, At, NewPdf
  <2>2. TypeOK'
    BY <2>1, MovedTyped DEF TypeOK, WorkerPC
  <2>3. Committed
    BY <2>1 DEF WorkersJustified
  <2>4. WorkersJustified'
    BY <1>0, <2>1, <2>3, MovedTyped DEF WorkersJustified, Justified, Committed, WorkerPC,
                                     Idle, Fresh
  <2> QED BY <2>1, <2>2, <2>3, <2>4 DEF SessionsJustified, RequestsJustified, SweepJustified, TicketKnown,
                             PdfIsCommitted, IssuedHasPdf, Justified, Committed
<1>4. CASE Finalize(w)
  <2>1. /\ Goto(w, "markdoc") /\ worker[w].pc = "finalize"
        /\ od' = IF Holds(worker[w].tk, "CONFIRMING") THEN [od EXCEPT !.st = "CONFIRMED"]
                 ELSE od
        /\ UNCHANGED <<document, files, sess, queued, alerted, sweep, handlers, faults>>
    BY <1>4 DEF Finalize, At
  <2>2. /\ od' \in Row /\ od'.tk = od.tk
        /\ od'.st = od.st \/ (od.st = "CONFIRMING" /\ od'.st = "CONFIRMED")
    BY <1>0, <2>1 DEF Row, Holds
  <2>3. TypeOK'
    BY <2>1, <2>2, MovedTyped DEF TypeOK, WorkerPC
  <2>4. pdf # 0
    BY <2>1 DEF WorkersJustified
  <2>5. WorkersJustified'
    BY <1>0, <2>1, <2>2, MovedTyped DEF WorkersJustified, Justified, Committed, WorkerPC,
                                     Idle, Fresh
  <2> QED BY <2>1, <2>2, <2>3, <2>4, <2>5 DEF SessionsJustified, RequestsJustified, SweepJustified,
                             TicketKnown, PdfIsCommitted, IssuedHasPdf, Justified, Committed
<1>5. CASE MarkDocument(w)
  <2>1. /\ Goto(w, "marksess") \/ Goto(w, "rejected")
        /\ worker[w].pc = "markdoc"
        /\ draft' \in {draft, "signed"} /\ signer' \in {signer, "signed"}
        /\ UNCHANGED <<regime, od, files, sess, queued, alerted, sweep, handlers, faults>>
    BY <1>5 DEF MarkDocument, At
  <2>2. PICK pc \in {"marksess", "rejected"} : Goto(w, pc)
    BY <2>1
  <2>3. pc \in WorkerPC
    BY DEF WorkerPC
  <2>4. TypeOK'
    BY <2>1, <2>2, <2>3, MovedTyped DEF TypeOK
  <2>5. WorkersJustified'
    BY <1>0, <2>1, <2>2, <2>3, MovedTyped DEF WorkersJustified, Justified, Committed,
                                     Idle, Fresh
  <2> QED BY <2>1, <2>4, <2>5 DEF SessionsJustified, RequestsJustified, SweepJustified, TicketKnown,
                             PdfIsCommitted, IssuedHasPdf, Justified, Committed
<1>6. CASE GiveUp(w)
  <2>1. /\ Goto(w, "fail") /\ worker[w].pc = "giveup"
        /\ \/ od' = od
           \/ od.st = "RESERVED" /\ od' = [od EXCEPT !.st = "CANCELLED"]
        /\ UNCHANGED <<document, files, sess, queued, alerted, sweep, handlers, faults>>
    BY <1>6 DEF GiveUp, At, CancelTicket, Holds
  <2>2. /\ od' \in Row /\ od'.tk = od.tk
        /\ od'.st = od.st \/ (od.st = "RESERVED" /\ od'.st = "CANCELLED")
    BY <1>0, <2>1 DEF Row
  <2>3. TypeOK'
    BY <2>1, <2>2, MovedTyped DEF TypeOK, WorkerPC
  <2>4. WorkersJustified'
    BY <1>0, <2>1, <2>2, MovedTyped DEF WorkersJustified, Justified, Committed, WorkerPC,
                                     Idle, Fresh
  <2> QED BY <2>1, <2>2, <2>3, <2>4 DEF SessionsJustified, RequestsJustified, SweepJustified, TicketKnown,
                             PdfIsCommitted, IssuedHasPdf, Justified, Committed
<1>7. CASE Shutdown(w)
  <2>1. /\ Done(w) /\ worker[w].pc \in Body
        /\ pdf' = pdf \/ (worker[w].pc = "upload" /\ pdf' \in 1 .. 2)
        /\ faults' \in 0 .. MaxFaults
        /\ UNCHANGED <<document, od, tosign, queued, alerted, sweep, handlers>>
    BY <1>7, QueueAssumption DEF Shutdown, At, NewPdf, Fault, TypeOK
  <2>2. worker[w].s \in Slots
    BY <1>0, <2>1 DEF Body
  <2>3. /\ sess' \in [Slots -> Session]
        /\ \A q \in Slots : sess'[q].load = sess[q].load
    BY <1>0, <1>7, <2>2 DEF Shutdown, Session, Live
  <2>4. worker' \in [Workers -> Memory(WorkerPC)]
    BY <2>1, DoneTyped DEF Done
  <2>5. TypeOK'
    BY <2>1, <2>3, <2>4 DEF TypeOK
  <2>6. worker[w].pc = "upload" => Committed
    BY DEF WorkersJustified
  <2>7. WorkersJustified'
    BY <1>0, <2>1 DEF WorkersJustified, Justified, Committed, Done, Idle, Fresh
  <2> QED BY <2>1, <2>3, <2>5, <2>6, <2>7 DEF SessionsJustified, RequestsJustified, SweepJustified,
                             TicketKnown, PdfIsCommitted, IssuedHasPdf, Justified, Committed
<1> QED BY <1>1, <1>2, <1>3, <1>4, <1>5, <1>6, <1>7

\* Steps of the sweeper.
LEMMA SweepIInv == ASSUME IInv, SweepNext PROVE IInv'
<1> USE DEF IInv, Facts, document, files, handlers
<1>0. /\ worker \in [Workers -> Memory(WorkerPC)] /\ sess \in [Slots -> Session]
      /\ sweep \in Memory({"idle", "requeue", "orphan", "resume", "heal"})
      /\ od \in Row /\ Fresh \in Payload
  BY NoSessionTyped DEF TypeOK
<1>1. ASSUME NEW s \in Slots, PendingExpires(s)
      PROVE  IInv'
  <2>1. "expired" \in Statuses
    BY DEF Statuses
  <2>2. faults' \in 0 .. MaxFaults
    BY <1>1, QueueAssumption DEF PendingExpires, Fault, TypeOK
  <2>3. TypeOK' /\ SessionsJustified'
    BY <1>1, <2>1, <2>2, EndedTyped
       DEF PendingExpires, TypeOK, SessionsJustified, Justified, Committed, Fresh
  <2> QED BY <1>1, <2>3 DEF PendingExpires, WorkersJustified, RequestsJustified, SweepJustified, TicketKnown,
                            PdfIsCommitted, IssuedHasPdf, Justified, Committed
<1>2. ASSUME NEW s \in Slots, BecomesLate(s)
      PROVE  IInv'
  <2>1. /\ sess' \in [Slots -> Session]
        /\ \A q \in Slots : sess'[q].load = sess[q].load
    BY <1>0, <1>2 DEF BecomesLate, Session
  <2>2. faults' \in 0 .. MaxFaults
    BY <1>2, QueueAssumption DEF BecomesLate, Fault, NoFault, TypeOK
  <2>3. TypeOK' /\ SessionsJustified'
    BY <1>2, <2>1, <2>2 DEF BecomesLate, TypeOK, SessionsJustified, Justified, Committed
  <2> QED BY <1>2, <2>3 DEF BecomesLate, WorkersJustified, RequestsJustified, SweepJustified, TicketKnown,
                            PdfIsCommitted, IssuedHasPdf, Justified, Committed
<1>3. ASSUME NEW s \in Slots \union {0}, NEW tk \in 0 .. MaxTickets, NEW load \in Payload,
             NEW pc \in {"requeue", "orphan", "resume", "heal"},
             sweep' = [pc |-> pc, s |-> s, tk |-> tk, load |-> load],
             Justified(load), pc = "requeue" => s \in Slots,
             faults' \in 0 .. MaxFaults,
             UNCHANGED <<document, od, files, sess, queued, alerted, worker, handlers>>
      PROVE  IInv'
  <2>1. sweep' \in Memory({"idle", "requeue", "orphan", "resume", "heal"})
    BY <1>3, QueueAssumption DEF Memory, Slots
  <2>2. TypeOK'
    BY <1>3, <2>1 DEF TypeOK
  <2> QED BY <1>3, <2>2 DEF SessionsJustified, WorkersJustified, RequestsJustified, SweepJustified,
                   TicketKnown, PdfIsCommitted, IssuedHasPdf, Justified, Committed
<1>4. ASSUME NEW s \in Slots, LateLook(s)
      PROVE  IInv'
  <2>1. PICK load \in Payload :
          /\ sweep' = [pc |-> "requeue", s |-> s, tk |-> 0, load |-> load]
          /\ load.resume => sess[s].load.resume \/ od.st = "CONFIRMING"
          /\ load.heal => sess[s].load.heal
    <3>1. sess[s].load \in Payload
      BY <1>0 DEF Session
    <3>2. LET load == [sess[s].load EXCEPT !.resume = @ \/ od.st = "CONFIRMING"]
          IN  /\ load \in Payload
              /\ load.resume => sess[s].load.resume \/ od.st = "CONFIRMING"
              /\ load.heal => sess[s].load.heal
      BY <3>1 DEF Payload
    <3> QED BY <1>4, <3>1, <3>2 DEF LateLook, Looked
  <2>2. Justified(load)
    BY <2>1 DEF SessionsJustified, Justified, Committed
  <2>3. faults' \in 0 .. MaxFaults /\ 0 \in 0 .. MaxTickets
    BY <1>4, QueueAssumption DEF LateLook, Fault, NoFault, TypeOK
  <2> QED BY <1>3, <1>4, <2>1, <2>2, <2>3 DEF LateLook
<1>5. ASSUME OrphanLook \/ ConfirmingLook \/ ConfirmedLook
      PROVE  IInv'
  <2>1. od.tk \in 0 .. MaxTickets
    BY <1>0 DEF Row
  <2>2. /\ [Fresh EXCEPT !.resume = TRUE] \in Payload
        /\ [Fresh EXCEPT !.resume = TRUE].heal = FALSE
        /\ [Fresh EXCEPT !.resume = TRUE, !.heal = TRUE] \in Payload
    BY <1>0 DEF Payload, Fresh
  <2>3. faults' \in 0 .. MaxFaults
    BY <1>5 DEF OrphanLook, ConfirmingLook, ConfirmedLook, TypeOK
  <2>4. \E load \in Payload, pc \in {"orphan", "resume", "heal"} :
          /\ sweep' = [pc |-> pc, s |-> 0, tk |-> od.tk, load |-> load]
          /\ Justified(load)
    <3>1. CASE OrphanLook
      BY <1>0, <3>1 DEF OrphanLook, Looked, Fresh, Justified
    <3>2. CASE ConfirmingLook
      BY <2>2, <3>2 DEF ConfirmingLook, Looked, Justified, Committed
    <3>3. CASE ConfirmedLook
      BY <2>2, <3>3 DEF ConfirmedLook, Looked, Justified, Committed
    <3> QED BY <1>5, <3>1, <3>2, <3>3
  <2>5. PICK tk \in 0 .. MaxTickets : tk = od.tk
    BY <2>1
  <2>6. PICK load \in Payload, pc \in {"orphan", "resume", "heal"} :
          /\ sweep' = [pc |-> pc, s |-> 0, tk |-> tk, load |-> load]
          /\ Justified(load)
    BY <2>4, <2>5
  <2>7. UNCHANGED <<document, od, files, sess, queued, alerted, worker, handlers>>
    BY <1>5 DEF OrphanLook, ConfirmingLook, ConfirmedLook
  <2> QED BY <1>3, <2>3, <2>6, <2>7
<1>6. ASSUME LateRequeue
      PROVE  IInv'
  <2>1. PICK s \in Slots, load \in Payload : s = sweep.s /\ load = sweep.load
    BY <1>0, <1>6 DEF LateRequeue, RequestsJustified, SweepJustified, Memory
  <2>2. sess' = Requeued(s, load) \/ sess' = sess
    BY <1>6, <2>1 DEF LateRequeue, Requeued
  <2>3. Justified(load)
    BY <2>1 DEF RequestsJustified, SweepJustified
  <2>4. sess' \in [Slots -> Session] /\ SessionsJustified'
    BY <1>0, <1>6, <2>2, <2>3, RequeuedTyped
       DEF LateRequeue, SessionsJustified, Justified, Committed
  <2>5. TypeOK' /\ SweepJustified'
    BY <1>0, <1>6, <2>4, QueueAssumption
       DEF LateRequeue, TypeOK, Swept, Idle, Memory, Fresh, SweepJustified, Justified
  <2> QED BY <1>6, <2>4, <2>5 DEF LateRequeue, WorkersJustified, RequestsJustified, TicketKnown,
                   PdfIsCommitted, IssuedHasPdf, Justified, Committed
<1>7. ASSUME OrphanCancel
      PROVE  IInv'
  <2>1. /\ od' = od \/ (od.st = "RESERVED" /\ od' = [od EXCEPT !.st = "CANCELLED"])
        /\ UNCHANGED <<document, files, sess, queued, alerted, worker, handlers, faults>>
        /\ sweep' = Idle
    BY <1>7 DEF OrphanCancel, CancelTicket, Holds, Swept
  <2>2. /\ od' \in Row /\ od'.tk = od.tk
        /\ od'.st = od.st \/ (od.st = "RESERVED" /\ od'.st = "CANCELLED")
    BY <1>0, <2>1 DEF Row
  <2>3. TypeOK' /\ SweepJustified'
    BY <1>0, <2>1, <2>2, QueueAssumption
       DEF TypeOK, Idle, Memory, Fresh, SweepJustified, Justified
  <2> QED BY <2>1, <2>2, <2>3 DEF SessionsJustified, WorkersJustified, RequestsJustified, TicketKnown,
                   PdfIsCommitted, IssuedHasPdf, Justified, Committed
<1>8. ASSUME Reinsert
      PROVE  IInv'
  <2>1. PICK t \in 0 .. MaxTickets, load \in Payload : t = sweep.tk /\ load = sweep.load
    BY <1>0 DEF Memory
  <2>2. (UNCHANGED <<sess, queued>>) \/ Enqueue(t, load)
    BY <1>8, <2>1 DEF Reinsert, Enqueue
  <2>3. Justified(load)
    BY <2>1 DEF RequestsJustified, SweepJustified
  <2>4. sess' \in [Slots -> Session] /\ queued' \in BOOLEAN /\ SessionsJustified'
    <3>1. CASE UNCHANGED <<sess, queued>>
      BY <1>0, <1>8, <3>1 DEF Reinsert, TypeOK, SessionsJustified, Justified, Committed
    <3>2. CASE Enqueue(t, load)
      BY <1>8, <2>3, <3>2, EnqueuedTyped
         DEF Reinsert, SessionsJustified, Justified, Committed
    <3> QED BY <2>2, <3>1, <3>2
  <2>5. TypeOK' /\ SweepJustified'
    BY <1>0, <1>8, <2>4, QueueAssumption
       DEF Reinsert, TypeOK, Swept, Idle, Memory, Fresh, SweepJustified, Justified
  <2> QED BY <1>8, <2>4, <2>5 DEF Reinsert, WorkersJustified, RequestsJustified, TicketKnown,
                   PdfIsCommitted, IssuedHasPdf, Justified, Committed
<1>9. ASSUME ConflictReport
      PROVE  IInv'
  BY <1>9 DEF ConflictReport, TypeOK, SessionsJustified, WorkersJustified, RequestsJustified, SweepJustified,
               TicketKnown, PdfIsCommitted, IssuedHasPdf, Justified, Committed
<1> QED BY <1>1, <1>2, <1>4, <1>5, <1>6, <1>7, <1>8, <1>9 DEF SweepNext, SweepLook, SweepWrite

\* Steps of the start of a signature and of a rejection.
LEMMA UserIInv ==
  ASSUME IInv,
         \/ StartCas \/ StartPdf \/ StartFails \/ StartFinish
         \/ RejectBegin \/ RejectTx \/ RejectExpire \/ RejectCancel
  PROVE  IInv'
<1> USE DEF IInv, Facts, document, files, handlers
<1>0. /\ sess \in [Slots -> Session] /\ od \in Row
      /\ NoSession \in Session /\ Fresh \in Payload
  BY NoSessionTyped DEF TypeOK
<1>1. CASE StartCas \/ StartPdf \/ StartFails \/ StartFinish \/ RejectBegin
  <2>0. start \in [pc : {"idle", "pdf", "check"}, from : {"draft", "rejected"}]
    BY DEF TypeOK
  <2>1. /\ draft' \in {"draft", "sent_to_sign", "signed", "rejected"}
        /\ faults' \in 0 .. MaxFaults
        /\ rejection' \in {"idle", "cleaned", "expire", "cancel"}
    BY <1>1, <2>0, QueueAssumption
       DEF StartCas, StartPdf, StartFails, StartFinish, RejectBegin, TypeOK, Fault
  <2>2. tosign' \in BOOLEAN
    BY <1>1 DEF StartCas, StartPdf, StartFails, StartFinish, RejectBegin, TypeOK
  <2>3. start' \in [pc : {"idle", "pdf", "check"}, from : {"draft", "rejected"}]
    <3>1. CASE StartCas
      BY <3>1 DEF StartCas
    <3>2. CASE StartPdf
      BY <2>0, <3>2 DEF StartPdf
    <3>3. CASE StartFails \/ StartFinish
      BY <2>0, <3>3 DEF StartFails, StartFinish
    <3>4. CASE RejectBegin
      BY <2>0, <3>4 DEF RejectBegin
    <3> QED BY <1>1, <3>1, <3>2, <3>3, <3>4
  <2>4. UNCHANGED <<regime, signer, od, pdf, sess, queued, alerted, worker, sweep, request>>
    BY <1>1 DEF StartCas, StartPdf, StartFails, StartFinish, RejectBegin
  <2>5. TypeOK'
    BY <2>1, <2>2, <2>3, <2>4 DEF TypeOK
  <2> QED BY <2>4, <2>5 DEF SessionsJustified, WorkersJustified, RequestsJustified, SweepJustified,
                   TicketKnown, PdfIsCommitted, IssuedHasPdf, Justified, Committed
<1>2. CASE RejectTx \/ RejectCancel
  <2>1. /\ \/ od' = od
           \/ od.st \notin {"NONE", "CONFIRMING", "CONFIRMED"}
              /\ od' = [od EXCEPT !.st = "CANCELLED"]
        /\ draft' \in {draft, "rejected"}
        /\ rejection' \in {"idle", "expire"}
        /\ UNCHANGED <<regime, signer, files, sess, queued, alerted, worker, sweep, request,
                       start, faults>>
    BY <1>2 DEF RejectTx, RejectCancel, RejectRefused, CancelTicket, Holds
  <2>2. /\ od' \in Row /\ od'.tk = od.tk
        /\ od'.st = od.st \/ (~Committed /\ od.st # "NONE" /\ od'.st = "CANCELLED")
    BY <1>0, <2>1 DEF Row, Committed
  <2>3. TypeOK'
    BY <2>1, <2>2 DEF TypeOK
  <2> QED BY <2>1, <2>2, <2>3 DEF SessionsJustified, WorkersJustified, RequestsJustified, SweepJustified,
                   TicketKnown, PdfIsCommitted, IssuedHasPdf, Justified, Committed
<1>3. CASE RejectExpire
  <2>1. /\ [NoSession EXCEPT !.st = "expired"] \in Session
        /\ [NoSession EXCEPT !.st = "expired"].load = Fresh
    BY <1>0 DEF Session, NoSession
  <2>2. /\ sess' \in [Slots -> Session]
        /\ \A s \in Slots : sess'[s].load \in {sess[s].load, Fresh}
    <3>1. CASE sess' = [s \in Slots |-> IF IsLive(s) THEN [NoSession EXCEPT !.st = "expired"]
                                                     ELSE sess[s]]
      BY <1>0, <2>1, <3>1
    <3> QED BY <1>0, <1>3, <3>1 DEF RejectExpire
  <2>3. TypeOK'
    BY <1>3, <2>2, QueueAssumption DEF RejectExpire, TypeOK, Fault, NoFault
  <2> QED BY <1>3, <2>2, <2>3
          DEF RejectExpire, SessionsJustified, WorkersJustified, RequestsJustified, SweepJustified,
              TicketKnown, PdfIsCommitted, IssuedHasPdf, Justified, Committed, Fresh
<1> QED BY <1>1, <1>2, <1>3

\* Steps of the numerator's requests and of a poll.
LEMMA RequestIInv ==
  ASSUME IInv,
         \/ \E r \in Requests : \/ Reserve(r) \/ ReserveFails(r) \/ SignEnqueued(r)
                                \/ SignAsked(r) \/ RequestDies(r)
         \/ \E s \in Slots : Poll(s)
  PROVE  IInv'
<1> USE DEF IInv, Facts, document, files, handlers
<1> DEFINE Requested == [Requests -> Asking]
<1>0. /\ sess \in [Slots -> Session] /\ od \in Row /\ request \in Requested
      /\ Asked \in Asking
      /\ Fresh \in Payload
  BY NoSessionTyped, QueueAssumption DEF TypeOK, Asked, Asking
<1>1. ASSUME NEW r \in Requests, SignAsked(r) \/ ReserveFails(r) \/ RequestDies(r)
      PROVE  IInv'
  <2>1. request' \in Requested
    <3>1. [request[r] EXCEPT !.pc = "reserve"] \in Asking
      BY <1>0 DEF Asking
    <3> QED BY <1>0, <1>1, <3>1 DEF SignAsked, ReserveFails, RequestDies, Return
  <2>2. faults' \in 0 .. MaxFaults
    BY <1>1, QueueAssumption DEF SignAsked, ReserveFails, RequestDies, Fault, TypeOK
  <2>3. UNCHANGED <<document, od, files, sess, queued, alerted, worker, sweep, rejection,
                    start>>
    BY <1>1 DEF SignAsked, ReserveFails, RequestDies
  <2>4. TypeOK'
    BY <2>1, <2>2, <2>3 DEF TypeOK
  <2>5. RequestsJustified'
    <3>1. \A q \in Requests : request'[q] = request[q] \/ request'[q].pc \in {"idle", "reserve"}
      BY <1>0, <1>1 DEF SignAsked, ReserveFails, RequestDies, Return, Asked, Asking
    <3> QED BY <2>3, <3>1 DEF RequestsJustified, Publishing, Committed
  <2> QED BY <2>3, <2>4, <2>5 DEF SessionsJustified, WorkersJustified, SweepJustified,
                   TicketKnown, PdfIsCommitted, IssuedHasPdf, Justified, Committed
<1>2. ASSUME NEW r \in Requests, Reserve(r)
      PROVE  IInv'
  <2> DEFINE pc == IF regime = "SPECIAL" THEN "sign" ELSE "enqueue"
  <2>1. PICK t \in 0 .. MaxTickets :
          /\ request' = [request EXCEPT ![r].tk = t, ![r].pc = pc]
          /\ \/ t = od.tk /\ od' = od
             \/ /\ Replaced(od.st) /\ t # 0
                /\ od' = [st |-> "RESERVED", tk |-> t]
          /\ queued' \in BOOLEAN
    <3>1. od.tk \in 0 .. MaxTickets /\ MaxTickets \in Nat
      BY <1>0, QueueAssumption DEF Row
    <3>2. od.tk < MaxTickets => od.tk + 1 \in 0 .. MaxTickets /\ od.tk + 1 # 0
      BY <3>1
    <3> QED BY <1>2, <3>1, <3>2 DEF Reserve, Got, TypeOK
  <2>2. /\ request' \in Requested
        /\ request'[r].pc = pc
        /\ \A q \in Requests \ {r} : request'[q] = request[q]
    <3>1. pc \in {"sign", "enqueue"} /\ {"sign", "enqueue"} \subseteq Immediate \union {"enqueue"}
      BY DEF Immediate, Signing
    <3>2. [request[r] EXCEPT !.tk = t, !.pc = pc] \in Asking
      BY <1>0, <3>1 DEF Asking
    <3> QED BY <1>0, <2>1, <3>2 DEF Asking
  <2>3. od' \in Row
    BY <1>0, <2>1 DEF Row
  <2>4. TypeOK'
    BY <1>2, <2>1, <2>2, <2>3 DEF Reserve, TypeOK
  <2>5. od' = od \/ (~Committed /\ od'.st = "RESERVED" /\ od'.tk # 0)
    BY <2>1 DEF Replaced, Committed
  <2>6. RequestsJustified'
    <3>1. request'[r].pc \notin Publishing
          /\ (request'[r].pc = "enqueue" => regime = "GLOBAL")
      BY <2>2 DEF Publishing, TypeOK
    <3> QED BY <1>2, <2>2, <2>5, <3>1 DEF Reserve, RequestsJustified, Publishing, Committed
  <2> QED BY <1>2, <2>4, <2>5, <2>6 DEF Reserve, SessionsJustified, WorkersJustified,
             SweepJustified, TicketKnown, PdfIsCommitted, IssuedHasPdf, Justified, Committed
<1>3. ASSUME NEW r \in Requests, SignEnqueued(r)
      PROVE  IInv'
  <2>1. PICK t \in 0 .. MaxTickets : t = request[r].tk
    BY <1>0 DEF Asking
  <2>2. (UNCHANGED <<sess, queued>>) \/ Enqueue(t, Fresh)
    BY <1>3, <2>1 DEF SignEnqueued, Enqueue
  <2>3. sess' \in [Slots -> Session] /\ queued' \in BOOLEAN /\ SessionsJustified'
    <3>1. CASE UNCHANGED <<sess, queued>>
      BY <1>0, <1>3, <3>1 DEF SignEnqueued, TypeOK, SessionsJustified, Justified, Committed
    <3>2. CASE Enqueue(t, Fresh)
      BY <1>0, <1>3, <3>2, EnqueuedTyped
         DEF SignEnqueued, SessionsJustified, Justified, Committed, Fresh
    <3> QED BY <2>2, <3>1, <3>2
  <2>4. request' \in Requested
    BY <1>0, <1>3 DEF SignEnqueued, Return
  <2>5. TypeOK'
    BY <1>3, <2>3, <2>4 DEF SignEnqueued, TypeOK
  <2>6. RequestsJustified'
    BY <1>0, <1>3 DEF SignEnqueued, Return, Asked, RequestsJustified, Publishing, Committed
  <2> QED BY <1>3, <2>3, <2>5, <2>6 DEF SignEnqueued, WorkersJustified, SweepJustified,
                   TicketKnown, PdfIsCommitted, IssuedHasPdf, Justified, Committed
<1>4. ASSUME NEW s \in Slots, Poll(s)
      PROVE  IInv'
  <2>1. "signed" \in Statuses
    BY DEF Statuses
  <2>2. TypeOK' /\ SessionsJustified'
    BY <1>4, <2>1, EndedTyped
       DEF Poll, TypeOK, SessionsJustified, Justified, Committed, Fresh
  <2> QED BY <1>4, <2>2 DEF Poll, WorkersJustified, RequestsJustified, SweepJustified, TicketKnown,
                   PdfIsCommitted, IssuedHasPdf, Justified, Committed
<1> QED BY <1>1, <1>2, <1>3, <1>4

\* What a request does by itself: its own memory moves, and the number, the
\* files and the draft as far as its place allows.
ImmediateOf(r) == ImmediateStep(r) \/ ImmediateFails(r)
OnlyOf(r) == \A q \in Requests \ {r} : request'[q] = request[q]
Place(r) == request'[r].pc

\* A failure leads to the second attempt, to the cancellation or to the end.
LEMMA RetryMoves ==
  ASSUME TypeOK, NEW r \in Requests, Retry(r),
         request[r].pc \in Signing \union Publishing
  PROVE  /\ request' \in [Requests -> Asking] /\ OnlyOf(r)
         /\ \/ Place(r) \in {"idle", "cancel", "sign", "confirm"}
            \/ /\ Place(r) = "upload" /\ request'[r].tk = request[r].tk
               /\ request[r].pc \in Publishing
<1>0. request \in [Requests -> Asking]
  BY DEF TypeOK
<1>1. Resumed(r) \in Signing \union {"upload"}
      /\ (Resumed(r) = "upload" => request[r].pc \in Publishing)
  BY DEF Resumed, Signing, Publishing
<1>2. [request[r] EXCEPT !.pc = Resumed(r), !.again = TRUE] \in Asking
  BY <1>0, <1>1 DEF Asking, Immediate, Signing, Publishing
<1>3. [request[r] EXCEPT !.pc = "cancel"] \in Asking /\ Asked \in Asking
  BY <1>0, QueueAssumption DEF Asking, Immediate, Asked
<1>4. CASE request' = [request EXCEPT ![r].pc = Resumed(r), ![r].again = TRUE]
  BY <1>0, <1>1, <1>2, <1>4 DEF OnlyOf, Place, Asking, Signing
<1>5. CASE GotoR(r, "cancel")
  BY <1>0, <1>3, <1>5 DEF GotoR, OnlyOf, Place, Asking
<1>6. CASE Return(r)
  BY <1>0, <1>3, <1>6 DEF Return, OnlyOf, Place, Asked
<1> QED BY <1>4, <1>5, <1>6 DEF Retry

\* Going on to the next place.
LEMMA GotoRMoves ==
  ASSUME TypeOK, NEW r \in Requests, NEW pc \in Immediate, GotoR(r, pc)
  PROVE  /\ request' \in [Requests -> Asking] /\ OnlyOf(r)
         /\ Place(r) = pc /\ request'[r].tk = request[r].tk
<1>1. request \in [Requests -> Asking]
  BY DEF TypeOK
<1>2. [request[r] EXCEPT !.pc = pc] \in Asking
  BY <1>1 DEF Asking
<1> QED BY <1>1, <1>2 DEF GotoR, OnlyOf, Place, Asking

\* The end of a request.
LEMMA ReturnMoves ==
  ASSUME TypeOK, NEW r \in Requests, Return(r)
  PROVE  request' \in [Requests -> Asking] /\ OnlyOf(r) /\ Place(r) = "idle"
<1>1. request \in [Requests -> Asking] /\ Asked \in Asking
  BY QueueAssumption DEF TypeOK, Asked, Asking
<1> QED BY <1>1 DEF Return, OnlyOf, Place, Asked

\* Whatever it does, a request that signs by itself moves only itself.
LEMMA ImmediateMoves ==
  ASSUME TypeOK, NEW r \in Requests, ImmediateOf(r)
  PROVE  OnlyOf(r) /\ Place(r) \notin {"enqueue", "reserve"}
<1>1. ASSUME NEW pc \in Immediate, GotoR(r, pc)
      PROVE  OnlyOf(r) /\ Place(r) \notin {"enqueue", "reserve"}
  BY <1>1, GotoRMoves DEF Immediate, Signing, Publishing
<1>2. CASE Retry(r) /\ request[r].pc \in Signing \union Publishing
  BY <1>2, RetryMoves
<1>3. CASE Return(r)
  BY <1>3, ReturnMoves
<1>4. {"confirm", "upload", "finalize", "mark", "clean", "cancel"} \subseteq Immediate
  BY DEF Immediate, Signing, Publishing
<1>5. request[r].pc = "sign" => request[r].pc \in Signing
  BY DEF Signing
<1> QED BY <1>1, <1>2, <1>3, <1>4, <1>5
        DEF ImmediateOf, ImmediateStep, ImmediateSign, ImmediateConfirm, ImmediateUpload,
            ImmediateFinalize, ImmediateMark, ImmediateClean, ImmediateCancel,
            ImmediateFails, AtR

\* Steps of a request that numbers by itself.
LEMMA ImmediateIInv ==
  ASSUME IInv, NEW r \in Requests, ImmediateOf(r)
  PROVE  IInv'
<1> USE DEF IInv, Facts, document, files, handlers, Elsewhere
<1>0. od \in Row /\ request \in [Requests -> Asking]
  BY DEF TypeOK
<1>1. /\ UNCHANGED <<regime, sess, queued, alerted, worker, sweep, rejection, start>>
      /\ faults' \in 0 .. MaxFaults
  BY QueueAssumption
     DEF ImmediateOf, ImmediateStep, ImmediateSign, ImmediateConfirm, ImmediateUpload,
         ImmediateFinalize, ImmediateMark, ImmediateClean, ImmediateCancel,
         ImmediateFails, NoFault, Fault, TypeOK
\* It is enough to know what became of the number and of the request.
<1>2. ASSUME request' \in [Requests -> Asking], OnlyOf(r),
             od' \in Row, od'.tk = od.tk,
             \/ od'.st = od.st
             \/ od.st = "RESERVED" /\ od'.st \in {"CANCELLED", "CONFIRMING"}
             \/ od.st = "CONFIRMING" /\ od'.st = "CONFIRMED" /\ pdf # 0,
             pdf' = pdf \/ (pdf' = 1 /\ Committed),
             UNCHANGED <<draft, signer>> \/ (draft' = "signed" /\ signer' = "signed"),
             tosign' \in BOOLEAN,
             Place(r) \in Publishing => Committed' /\ request'[r].tk = od.tk,
             Place(r) \in Publishing \ {"upload"} => pdf' # 0,
             Place(r) \in {"mark", "clean"} => od'.st = "CONFIRMED",
             Place(r) # "enqueue"
      PROVE  IInv'
  <2>1. TypeOK'
    BY <1>1, <1>2 DEF TypeOK
  <2>2. RequestsJustified'
    <3>1. SUFFICES ASSUME NEW q \in Requests
                   PROVE  /\ request'[q].pc \in Publishing => Committed' /\ request'[q].tk = od'.tk
                          /\ request'[q].pc \in Publishing \ {"upload"} => pdf' # 0
                          /\ request'[q].pc \in {"mark", "clean"} => od'.st = "CONFIRMED"
                          /\ request'[q].pc = "enqueue" => regime' = "GLOBAL"
      BY DEF RequestsJustified
    <3>2. CASE q = r
      BY <1>2, <3>2 DEF Place
    <3>3. CASE q # r
      BY <1>1, <1>2, <3>3 DEF OnlyOf, RequestsJustified, Committed
    <3> QED BY <3>2, <3>3
  <2>3. SessionsJustified' /\ SweepJustified' /\ WorkersJustified'
    BY <1>1, <1>2 DEF SessionsJustified, SweepJustified, WorkersJustified, Justified, Committed
  <2>4. TicketKnown' /\ PdfIsCommitted' /\ IssuedHasPdf'
    BY <1>0, <1>2 DEF TicketKnown, PdfIsCommitted, IssuedHasPdf, Committed
  <2> QED BY <2>1, <2>2, <2>3, <2>4
<1>3. CASE ImmediateSign(r)
  <2>1. UNCHANGED <<od, pdf, tosign, draft, signer>> /\ request[r].pc = "sign"
    BY <1>3 DEF ImmediateSign, AtR
  <2>2. CASE GotoR(r, "confirm")
    BY <1>0, <1>2, <2>1, <2>2, GotoRMoves DEF Immediate, Signing, Publishing, TypeOK
  <2>3. CASE Retry(r)
    BY <1>0, <1>2, <2>1, <2>3, RetryMoves DEF Signing, Publishing, TypeOK
  <2> QED BY <1>3, <2>2, <2>3 DEF ImmediateSign
<1>4. CASE ImmediateConfirm(r)
  <2>1. UNCHANGED <<pdf, tosign, draft, signer>>
    BY <1>4 DEF ImmediateConfirm
  <2>2. CASE Holds(request[r].tk, "RESERVED")
    <3>1. /\ od' = [od EXCEPT !.st = "CONFIRMING"] /\ GotoR(r, "upload")
          /\ od.st = "RESERVED" /\ od.tk = request[r].tk
      BY <1>4, <2>2 DEF ImmediateConfirm, Holds
    <3>2. od' \in Row /\ od'.st = "CONFIRMING" /\ od'.tk = od.tk
      BY <1>0, <3>1 DEF Row
    <3>3. "upload" \in Immediate
      BY DEF Immediate, Publishing
    <3> QED BY <1>2, <2>1, <3>1, <3>2, <3>3, GotoRMoves DEF Committed, TypeOK
  <2>3. CASE ~Holds(request[r].tk, "RESERVED")
    BY <1>0, <1>2, <1>4, <2>1, <2>3, ReturnMoves DEF ImmediateConfirm, Publishing, TypeOK
  <2> QED BY <2>2, <2>3
<1>5. CASE ImmediateUpload(r)
  <2>1. /\ UNCHANGED <<od, tosign, draft, signer>> /\ pdf' = 1
        /\ request[r].pc = "upload" /\ GotoR(r, "finalize")
    BY <1>5 DEF ImmediateUpload, AtR
  <2>2. Committed /\ request[r].tk = od.tk
    BY <2>1 DEF RequestsJustified, Publishing
  <2>3. "finalize" \in Immediate
    BY DEF Immediate, Publishing
  <2> QED BY <1>0, <1>2, <2>1, <2>2, <2>3, GotoRMoves DEF Committed, TypeOK
<1>6. CASE ImmediateFinalize(r)
  <2>1. /\ UNCHANGED <<pdf, tosign, draft, signer>>
        /\ request[r].pc = "finalize" /\ GotoR(r, "mark")
    BY <1>6 DEF ImmediateFinalize, AtR
  <2>2. Committed /\ request[r].tk = od.tk /\ pdf # 0
    BY <2>1 DEF RequestsJustified, Publishing
  <2>3. /\ od' \in Row /\ od'.tk = od.tk /\ od'.st = "CONFIRMED"
        /\ od.st = "CONFIRMED" \/ od.st = "CONFIRMING"
    BY <1>0, <1>6, <2>2 DEF ImmediateFinalize, Holds, Committed, Row
  <2>4. "mark" \in Immediate
    BY DEF Immediate, Publishing
  <2> QED BY <1>2, <2>1, <2>2, <2>3, <2>4, GotoRMoves DEF Committed, TypeOK
<1>7. CASE ImmediateMark(r)
  <2>1. /\ UNCHANGED <<od, pdf, tosign>> /\ request[r].pc = "mark"
        /\ UNCHANGED <<draft, signer>> \/ (draft' = "signed" /\ signer' = "signed")
        /\ GotoR(r, "clean") \/ Return(r)
    BY <1>7 DEF ImmediateMark, AtR
  <2>2. Committed /\ request[r].tk = od.tk /\ pdf # 0 /\ od.st = "CONFIRMED"
    BY <2>1 DEF RequestsJustified, Publishing
  <2>3. CASE GotoR(r, "clean")
    <3>1. "clean" \in Immediate
      BY DEF Immediate, Publishing
    <3> QED BY <1>0, <1>2, <2>1, <2>2, <2>3, <3>1, GotoRMoves DEF Committed, TypeOK
  <2>4. CASE Return(r)
    BY <1>0, <1>2, <2>1, <2>4, ReturnMoves DEF Publishing, TypeOK
  <2> QED BY <2>1, <2>3, <2>4
<1>8. CASE ImmediateClean(r)
  <2>1. UNCHANGED <<od, pdf, draft, signer>> /\ Return(r) /\ tosign' \in BOOLEAN
    BY <1>8 DEF ImmediateClean, TypeOK
  <2> QED BY <1>0, <1>2, <2>1, ReturnMoves DEF Publishing
<1>9. CASE ImmediateCancel(r)
  <2>1. /\ UNCHANGED <<pdf, tosign, draft, signer>> /\ Return(r)
        /\ od' = od \/ (od.st = "RESERVED" /\ od' = [od EXCEPT !.st = "CANCELLED"])
    BY <1>9 DEF ImmediateCancel, CancelTicket, Holds
  <2>2. /\ od' \in Row /\ od'.tk = od.tk
        /\ od'.st = od.st \/ (od.st = "RESERVED" /\ od'.st = "CANCELLED")
    BY <1>0, <2>1 DEF Row
  <2> QED BY <1>2, <2>1, <2>2, ReturnMoves DEF Publishing, TypeOK
<1>10. CASE ImmediateFails(r)
  <2>1. UNCHANGED <<od, pdf, tosign, draft, signer>>
        /\ request[r].pc \in Signing \union Publishing
    BY <1>10 DEF ImmediateFails
  <2>2. CASE GotoR(r, "cancel")
    BY <1>0, <1>2, <2>1, <2>2, GotoRMoves DEF Immediate, Publishing, TypeOK
  <2>3. CASE Retry(r)
    <3>1. request[r].pc \in Publishing => Committed /\ request[r].tk = od.tk
      BY DEF RequestsJustified
    <3> QED BY <1>0, <1>2, <2>1, <2>3, <3>1, RetryMoves DEF Publishing, Committed, TypeOK
  <2> QED BY <1>10, <2>2, <2>3 DEF ImmediateFails
<1> QED BY <1>3, <1>4, <1>5, <1>6, <1>7, <1>8, <1>9, <1>10 DEF ImmediateOf, ImmediateStep

\* The initial state satisfies the inductive invariant.
LEMMA InitIInv == Init => IInv
<1> SUFFICES ASSUME Init PROVE IInv
  OBVIOUS
<1>1. /\ worker \in [Workers -> Memory(WorkerPC)]
      /\ sess \in [Slots -> Session]
      /\ sweep \in Memory({"idle", "requeue", "orphan", "resume", "heal"})
  BY NoSessionTyped, QueueAssumption DEF Init, Idle, Memory, WorkerPC
<1>2. /\ od \in Row
      /\ request \in [Requests -> Asking]
      /\ start \in [pc : {"idle", "pdf", "check"}, from : {"draft", "rejected"}]
  BY QueueAssumption DEF Init, Asked, Asking, NoRow, Row
<1>3. /\ regime \in {"GLOBAL", "SPECIAL"}
      /\ draft \in {"draft", "sent_to_sign", "signed", "rejected"}
      /\ signer \in {"pending", "signed"}
      /\ pdf \in 0 .. 2
      /\ rejection \in {"idle", "cleaned", "expire", "cancel"}
      /\ faults \in 0 .. MaxFaults
  BY QueueAssumption DEF Init
<1>4. tosign \in BOOLEAN /\ queued \in BOOLEAN /\ alerted \in BOOLEAN
  BY DEF Init
<1>5. TypeOK
  BY <1>1, <1>2, <1>3, <1>4 DEF TypeOK
<1>6. Facts
  BY DEF Init, Facts, SessionsJustified, WorkersJustified, RequestsJustified, SweepJustified, TicketKnown,
         PdfIsCommitted, IssuedHasPdf, Justified, Idle, Fresh, NoSession, NoRow, Asked,
         Publishing
<1> QED BY <1>5, <1>6 DEF IInv

\* Every step of Next, or none, keeps the inductive invariant.
LEMMA StepIInv == IInv /\ [Next]_vars => IInv'
<1> SUFFICES ASSUME IInv, [Next]_vars PROVE IInv'
  OBVIOUS
<1>1. CASE UNCHANGED vars
  BY <1>1 DEF vars, document, files, handlers, IInv, TypeOK, Facts, SessionsJustified,
              WorkersJustified, RequestsJustified, SweepJustified, TicketKnown, PdfIsCommitted, IssuedHasPdf,
              Justified, Committed
<1>2. ASSUME NEW w \in Workers, WorkerNext(w)
      PROVE  IInv'
  BY <1>2, MemoryIInv, SessionIInv, DocumentIInv DEF WorkerNext, WorkerStep
<1>3. CASE SweepNext
  BY <1>3, SweepIInv
<1>4. CASE HandlerNext
  BY <1>4, UserIInv, RequestIInv, ImmediateIInv
     DEF HandlerNext, StartStep, RejectStep, RequestStep, ImmediateOf
<1> QED BY <1>1, <1>2, <1>3, <1>4 DEF Next

\* What the actors remember of the number is true in every reachable state.
THEOREM SpecIInv == SafeSpec => []IInv
<1> QED BY InitIInv, StepIInv, PTL DEF SafeSpec

\* Type correctness of everything the actors share and remember.
THEOREM SpecTypeOK == SafeSpec => []TypeOK
<1>1. IInv => TypeOK
  BY DEF IInv
<1> QED BY <1>1, SpecIInv, PTL

\* Nothing is in the official bucket under a number that can be given up.
THEOREM SpecPdfIsCommitted == SafeSpec => []PdfIsCommitted
<1>1. IInv => PdfIsCommitted
  BY DEF IInv, Facts
<1> QED BY <1>1, SpecIInv, PTL

\* An issued number has its PDF.
THEOREM SpecIssuedHasPdf == SafeSpec => []IssuedHasPdf
<1>1. IInv => IssuedHasPdf
  BY DEF IInv, Facts
<1> QED BY <1>1, SpecIInv, PTL

-----------------------------------------------------------------------------
(* How the number moves *)

Stays == od' = od
Reserved == /\ \E r \in Requests : Reserve(r)
            /\ Replaced(od.st)
            /\ od'.st = "RESERVED" /\ od'.tk = od.tk + 1 /\ od'.tk \in Tickets
GivenUp == od.st \in {"RESERVED", "CANCELLED"} /\ od'.st = "CANCELLED" /\ od'.tk = od.tk
CommittedNow == od.st = "RESERVED" /\ od'.st = "CONFIRMING" /\ od'.tk = od.tk
IssuedNow == od.st = "CONFIRMING" /\ od'.st = "CONFIRMED" /\ od'.tk = od.tk

\* A request that signs by itself commits, issues or gives up the number.
LEMMA ImmediateNumber ==
  ASSUME IInv, NEW r \in Requests, ImmediateOf(r)
  PROVE  \/ Stays
         \/ (GivenUp \/ CommittedNow \/ IssuedNow) /\ UNCHANGED signer
<1> USE DEF document
<1>0. od \in Row
  BY DEF IInv, TypeOK
<1>1. CASE ImmediateConfirm(r)
  BY <1>0, <1>1 DEF ImmediateConfirm, Holds, Row, Stays, CommittedNow
<1>2. CASE ImmediateFinalize(r)
  BY <1>0, <1>2 DEF ImmediateFinalize, Holds, Row, Stays, IssuedNow
<1>3. CASE ImmediateCancel(r)
  BY <1>0, <1>3 DEF ImmediateCancel, CancelTicket, Holds, Row, Stays, GivenUp
<1>4. CASE ~(ImmediateConfirm(r) \/ ImmediateFinalize(r) \/ ImmediateCancel(r))
  BY <1>4 DEF ImmediateOf, ImmediateStep, ImmediateSign, ImmediateUpload, ImmediateMark,
              ImmediateClean, ImmediateFails, Stays
<1> QED BY <1>1, <1>2, <1>3, <1>4

\* These are all the ways a step changes the number; only a finalization
\* issues it, and no other step touches the draft or the signer then.
LEMMA NumberMoves ==
  ASSUME IInv, [Next]_vars
  PROVE  \/ Stays
         \/ (Reserved \/ GivenUp \/ CommittedNow \/ IssuedNow) /\ UNCHANGED signer
<1> USE DEF document
<1>0. od \in Row
  BY DEF IInv, TypeOK
<1>1. CASE UNCHANGED vars
  BY <1>1 DEF vars, Stays
<1>2. ASSUME NEW w \in Workers, WorkerNext(w)
      PROVE  \/ Stays
             \/ (GivenUp \/ CommittedNow \/ IssuedNow) /\ UNCHANGED signer
  <2>1. CASE Confirm(w)
    BY <1>0, <2>1 DEF Confirm, Holds, Row, Stays, CommittedNow
  <2>2. CASE Finalize(w)
    BY <1>0, <2>2 DEF Finalize, Holds, Row, Stays, IssuedNow
  <2>3. CASE GiveUp(w)
    BY <1>0, <2>3 DEF GiveUp, CancelTicket, Holds, Row, Stays, GivenUp
  <2>4. CASE ~(Confirm(w) \/ Finalize(w) \/ GiveUp(w))
    BY <1>2, <2>4
       DEF WorkerNext, WorkerStep, Claim, Renew, Guard, GuardUnread, Sign, SignLost,
           BreakerOpen, Stale, Fence, Upload, MarkDocument, MarkSession, Rejected, Error,
           MarkFailed, Fails, Crash, Shutdown, Stays
  <2> QED BY <2>1, <2>2, <2>3, <2>4
<1>3. CASE SweepNext
  <2>1. CASE OrphanCancel
    BY <1>0, <2>1 DEF OrphanCancel, CancelTicket, Holds, Row, Stays, GivenUp
  <2>2. CASE ~OrphanCancel
    BY <1>3, <2>2
       DEF SweepNext, SweepLook, SweepWrite, PendingExpires, BecomesLate, LateLook,
           LateRequeue, OrphanLook, ConfirmingLook, ConfirmedLook, Reinsert,
           ConflictReport, Stays
  <2> QED BY <2>1, <2>2
<1>4. CASE HandlerNext
  <2>1. ASSUME NEW r \in Requests, Reserve(r)
        PROVE  Stays \/ (Reserved /\ UNCHANGED signer)
    <3>1. od.tk < MaxTickets => od.tk + 1 \in Tickets
      BY <1>0, QueueAssumption DEF Row, Tickets
    <3>2. \/ Stays
          \/ /\ Replaced(od.st) /\ UNCHANGED signer
             /\ od'.st = "RESERVED" /\ od'.tk = od.tk + 1 /\ od'.tk \in Tickets
      BY <2>1, <3>1 DEF Reserve, Stays
    <3> QED BY <2>1, <3>2 DEF Reserved
  <2>2. CASE RejectTx
    BY <1>0, <2>2 DEF RejectTx, RejectRefused, Row, Stays, GivenUp
  <2>3. CASE RejectCancel
    BY <1>0, <2>3 DEF RejectCancel, CancelTicket, Holds, Row, Stays, GivenUp
  <2>4. ASSUME NEW r \in Requests, ImmediateOf(r)
        PROVE  \/ Stays
               \/ (GivenUp \/ CommittedNow \/ IssuedNow) /\ UNCHANGED signer
    BY <2>4, ImmediateNumber
  <2>5. CASE ~(\/ RejectTx \/ RejectCancel
               \/ \E r \in Requests : Reserve(r) \/ ImmediateOf(r))
    BY <1>4, <2>5
       DEF HandlerNext, StartStep, RequestStep, RejectStep, StartCas, StartPdf,
           StartFails, StartFinish, SignAsked, ReserveFails, SignEnqueued, RequestDies,
           RejectBegin, RejectExpire, Poll, ImmediateOf, Stays
  <2> QED BY <2>1, <2>2, <2>3, <2>4, <2>5
<1> QED BY <1>1, <1>2, <1>3, <1>4 DEF Next

\* A committed number stays committed under its ticket.
THEOREM SpecCommittedStays == SafeSpec => CommittedStays
<1>1. IInv /\ [Next]_vars
        => [od.st \in {"CONFIRMING", "CONFIRMED"} =>
              /\ od'.tk = od.tk
              /\ od'.st \in {od.st, "CONFIRMED"}]_vars
  BY NumberMoves DEF Stays, Reserved, GivenUp, CommittedNow, IssuedNow, Replaced
<1> QED BY <1>1, SpecIInv, PTL DEF SafeSpec, CommittedStays

-----------------------------------------------------------------------------
(* Who uses a ticket *)

\* GLOBAL requests come one at a time.
OneByOne == regime = "GLOBAL" => \A r, q \in Requests : r = q

\* Whoever is about to use a ticket has the present one, and a draft or a
\* session is marked signed only under an issued number.
SessionsCurrent == \A s \in Slots : IsLive(s) => sess[s].tk = od.tk

WorkersCurrent ==
  \A w \in Workers :
    /\ worker[w].load.resume \/ worker[w].pc \in {"fence", "upload", "finalize"}
         => worker[w].tk = od.tk
    /\ worker[w].pc \in {"markdoc", "marksess"} => od.st = "CONFIRMED"

RequestsCurrent ==
  \A r \in Requests :
    /\ request[r].pc = "enqueue" => request[r].tk = od.tk
    /\ request[r].pc = "reserve" => ~SomeLive \/ Committed

SweepCurrent == sweep.pc \in {"resume", "heal"} => Committed /\ sweep.tk = od.tk

Current == /\ SessionsCurrent /\ WorkersCurrent /\ RequestsCurrent /\ SweepCurrent
           /\ SignedIsIssued /\ SessionSignedIsIssued

CInv == IInv /\ OneByOne /\ Current

\* A step that takes no new ticket takes nothing back.
Kept == /\ od'.tk = od.tk
        /\ Committed => Committed'
        /\ od.st = "CONFIRMED" => od'.st = "CONFIRMED"

\* Only a new reservation changes the ticket, and then nothing depends on the
\* old one.
LEMMA NewTicket ==
  ASSUME CInv, [Next]_vars
  PROVE  \/ Kept
         \/ \E r \in Requests : Reserve(r) /\ ~Committed /\ ~SomeLive
<1>1. CASE Reserved
  <2>1. PICK r \in Requests : Reserve(r)
    BY <1>1 DEF Reserved
  <2>2. ~Committed
    BY <1>1 DEF Reserved, Replaced, Committed
  <2>3. request[r].pc = "reserve"
    BY <2>1 DEF Reserve, AtR
  <2> QED BY <2>1, <2>2, <2>3 DEF CInv, Current, RequestsCurrent
<1>2. CASE Stays \/ GivenUp \/ CommittedNow \/ IssuedNow
  BY <1>2 DEF Stays, GivenUp, CommittedNow, IssuedNow, Kept, Committed
<1> QED BY <1>1, <1>2, NumberMoves DEF CInv

\* All that a step can make of a session: it stays, goes on, fails, is marked
\* signed, or is new.
Unmoved(s)  == sess'[s] = sess[s]
GoesOn(s)   == IsLive(s) /\ sess'[s].st \in Live /\ sess'[s].tk = sess[s].tk
ClosedUnsigned(s)   == sess'[s].st \in {"failed", "expired"}
Marked(s)   == /\ sess'[s].st = "signed"
               /\ draft = "signed" \/ \E w \in Workers : worker[w].pc = "marksess"
Inserted(s) == /\ sess'[s].st = "pending"
               /\ \/ \E r \in Requests : /\ request[r].pc = "enqueue"
                                         /\ sess'[s].tk = request[r].tk
                  \/ sweep.pc \in {"resume", "heal"} /\ sess'[s].tk = sweep.tk
Moves(s) == Unmoved(s) \/ GoesOn(s) \/ ClosedUnsigned(s) \/ Marked(s) \/ Inserted(s)

\* Every step of Next, or none, moves every session in one of these ways.
LEMMA SessionMoves ==
  ASSUME IInv, [Next]_vars
  PROVE  \A s \in Slots : Moves(s)
<1>0. /\ sess \in [Slots -> Session] /\ worker \in [Workers -> Memory(WorkerPC)]
      /\ sweep \in Memory({"idle", "requeue", "orphan", "resume", "heal"})
      /\ request \in [Requests -> Asking]
      /\ TypeOK
  BY DEF IInv, TypeOK
<1>1. CASE UNCHANGED sess
  BY <1>1 DEF Moves, Unmoved
<1>2. ASSUME NEW s \in Slots, NEW st \in {"failed", "expired", "signed"},
             sess' = Ended(s, st),
             st = "signed" => draft = "signed" \/ \E w \in Workers : worker[w].pc = "marksess"
      PROVE  \A q \in Slots : Moves(q)
  <2>1. st \in Statuses
    BY DEF Statuses
  <2> QED BY <1>0, <1>2, <2>1, EndedTyped DEF Moves, Unmoved, ClosedUnsigned, Marked
<1>3. ASSUME NEW s \in Slots, NEW load \in Payload, sess' = Requeued(s, load), IsLive(s)
      PROVE  \A q \in Slots : Moves(q)
  BY <1>0, <1>3, RequeuedTyped DEF Moves, Unmoved, GoesOn, Live
<1>4. ASSUME NEW t \in 0 .. MaxTickets, NEW load \in Payload, Enqueue(t, load),
             \/ \E r \in Requests : request[r].pc = "enqueue" /\ request[r].tk = t
             \/ sweep.pc \in {"resume", "heal"} /\ sweep.tk = t
      PROVE  \A q \in Slots : Moves(q)
  BY <1>0, <1>4, EnqueuedTyped DEF Moves, Unmoved, Inserted
<1>5. ASSUME NEW w \in Workers, WorkerNext(w)
      PROVE  \A s \in Slots : Moves(s)
  <2>0. worker[w].pc # "idle" => worker[w].s \in Slots
    BY DEF IInv, Facts, WorkersJustified
  <2>1. CASE Claim(w) \/ Renew(w) \/ Shutdown(w)
    <3>1. CASE Claim(w)
      <4>1. PICK s \in Slots :
              /\ sess[s].st = "pending"
              /\ sess' = [sess EXCEPT ![s].st = "processing", ![s].by = w, ![s].late = FALSE]
        BY <3>1 DEF Claim
      <4> QED BY <1>0, <4>1 DEF Session, Moves, Unmoved, GoesOn, IsLive, Live
    <3>2. CASE Renew(w)
      BY <1>0, <2>0, <3>2 DEF Renew, At, Held, Session, Moves, Unmoved, GoesOn, IsLive, Live
    <3>3. CASE Shutdown(w)
      <4>1. worker[w].s \in Slots
        BY <2>0, <3>3 DEF Shutdown, Body
      <4> QED BY <1>0, <3>3, <4>1 DEF Shutdown, Held, Session, Moves, Unmoved, GoesOn,
                                      IsLive, Live
    <3> QED BY <2>1, <3>1, <3>2, <3>3
  <2>2. CASE GuardUnread(w)
    <3>1. PICK s \in Slots, n \in Nat : s = worker[w].s /\ n = worker[w].load.tries + 1
      BY <1>0, <2>0, <2>2 DEF GuardUnread, At, Memory, Payload
    <3>2. n < MaxGuard => [worker[w].load EXCEPT !.tries = n] \in Payload
      BY <1>0, <3>1, QueueAssumption DEF Memory, Payload
    <3>3. PICK load : load = [worker[w].load EXCEPT !.tries = n]
      OBVIOUS
    <3>4. \/ sess' = sess
          \/ sess' = Ended(s, "failed")
          \/ load \in Payload /\ sess' = Requeued(s, load) /\ IsLive(s)
      BY <2>2, <3>1, <3>2, <3>3, QueueAssumption DEF GuardUnread, IsLive, Live
    <3> QED BY <1>1, <1>2, <1>3, <3>4
  <2>3. CASE BreakerOpen(w)
    <3>1. PICK s \in Slots, load \in Payload : s = worker[w].s /\ load = sess[s].load
      BY <1>0, <2>0, <2>3 DEF BreakerOpen, At, Session
    <3>2. sess' = sess \/ (sess' = Requeued(s, load) /\ IsLive(s))
      BY <2>3, <3>1 DEF BreakerOpen, IsLive, Live
    <3> QED BY <1>1, <1>3, <3>2
  <2>4. CASE MarkSession(w)
    <3>1. PICK s \in Slots : s = worker[w].s
      BY <2>0, <2>4 DEF MarkSession, At
    <3>2. sess' = sess \/ sess' = Ended(s, "signed")
      BY <2>4, <3>1 DEF MarkSession
    <3> QED BY <1>1, <1>2, <2>4, <3>2 DEF MarkSession, At
  <2>5. CASE MarkFailed(w)
    <3>1. \A c : [NoSession EXCEPT !.st = "failed", !.conflict = c].st = "failed"
      BY DEF NoSession
    <3> QED BY <1>0, <2>0, <2>5, <3>1 DEF MarkFailed, At, Moves, Unmoved, ClosedUnsigned
  <2>6. CASE ~(Claim(w) \/ Renew(w) \/ Shutdown(w) \/ GuardUnread(w) \/ BreakerOpen(w)
               \/ MarkSession(w) \/ MarkFailed(w))
    <3>1. UNCHANGED sess
      BY <1>5, <2>6 DEF WorkerNext, WorkerStep, Guard, Sign, SignLost, Confirm, Stale, Fence,
           Upload, Finalize, MarkDocument, Rejected, Error, GiveUp, Fails, Crash
    <3> QED BY <1>1, <3>1
  <2> QED BY <2>1, <2>2, <2>3, <2>4, <2>5, <2>6
<1>6. CASE SweepNext
  <2>1. ASSUME NEW s \in Slots, PendingExpires(s)
        PROVE  \A q \in Slots : Moves(q)
    BY <1>2, <2>1 DEF PendingExpires
  <2>2. ASSUME NEW s \in Slots, BecomesLate(s)
        PROVE  \A q \in Slots : Moves(q)
    BY <1>0, <2>2 DEF BecomesLate, Session, Moves, Unmoved, GoesOn, IsLive, Live
  <2>3. CASE LateRequeue
    <3>1. PICK s \in Slots, load \in Payload : s = sweep.s /\ load = sweep.load
      BY <1>0, <2>3 DEF IInv, Facts, RequestsJustified, SweepJustified, LateRequeue, Memory
    <3>2. sess' = sess \/ (sess' = Requeued(s, load) /\ IsLive(s))
      BY <2>3, <3>1 DEF LateRequeue, IsLive, Live
    <3> QED BY <1>1, <1>3, <3>2
  <2>4. CASE Reinsert
    <3>1. PICK t \in 0 .. MaxTickets, load \in Payload : t = sweep.tk /\ load = sweep.load
      BY <1>0 DEF Memory
    <3>2. (UNCHANGED sess) \/ Enqueue(t, load)
      BY <2>4, <3>1 DEF Reinsert
    <3> QED BY <1>1, <1>4, <2>4, <3>1, <3>2 DEF Reinsert
  <2>5. CASE SweepLook \/ OrphanCancel
    <3>1. UNCHANGED sess
      BY <2>5 DEF SweepLook, OrphanCancel, LateLook, OrphanLook, ConfirmingLook,
                  ConfirmedLook, ConflictReport
    <3> QED BY <1>1, <3>1
  <2> QED BY <1>6, <2>1, <2>2, <2>3, <2>4, <2>5 DEF SweepNext, SweepWrite
<1>7. CASE HandlerNext
  <2>1. ASSUME NEW r \in Requests, SignEnqueued(r)
        PROVE  \A s \in Slots : Moves(s)
    <3>1. PICK t \in 0 .. MaxTickets : t = request[r].tk
      BY <1>0 DEF Asking
    <3>2. (UNCHANGED sess) \/ Enqueue(t, Fresh)
      BY <2>1, <3>1 DEF SignEnqueued
    <3> QED BY <1>1, <1>4, <2>1, <3>1, <3>2, NoSessionTyped DEF SignEnqueued, AtR
  <2>2. CASE RejectExpire
    <3>1. [NoSession EXCEPT !.st = "expired"].st = "expired"
      BY DEF NoSession
    <3> QED BY <1>0, <2>2, <3>1 DEF RejectExpire, Moves, Unmoved, ClosedUnsigned
  <2>3. ASSUME NEW s \in Slots, Poll(s)
        PROVE  \A q \in Slots : Moves(q)
    BY <1>2, <2>3 DEF Poll
  <2>4. CASE ~(RejectExpire \/ (\E r \in Requests : SignEnqueued(r)) \/ \E s \in Slots : Poll(s))
    <3>1. UNCHANGED sess
      BY <1>7, <2>4 DEF HandlerNext, StartStep, RequestStep, RejectStep, StartCas, StartPdf,
           StartFails, StartFinish, SignAsked, Reserve, ReserveFails, RequestDies,
           RejectBegin, RejectTx, RejectCancel, Elsewhere, ImmediateStep, ImmediateSign,
           ImmediateConfirm, ImmediateUpload, ImmediateFinalize, ImmediateMark,
           ImmediateClean, ImmediateCancel, ImmediateFails
    <3> QED BY <1>1, <3>1
  <2> QED BY <2>1, <2>2, <2>3, <2>4
<1>8. CASE UNCHANGED vars
  BY <1>1, <1>8 DEF vars
<1> QED BY <1>5, <1>6, <1>7, <1>8 DEF Next

\* A new ticket: no session, worker or sweep was about to use the old one.
LEMMA NewTicketCurrent ==
  ASSUME CInv, NEW r \in Requests, Reserve(r), ~Committed, ~SomeLive
  PROVE  Current'
<1> USE DEF CInv, Current
<1>1. /\ UNCHANGED <<document, sess, worker, sweep>>
      /\ request[r].pc = "reserve"
  BY DEF Reserve, AtR
<1>2. SessionsCurrent'
  BY <1>1 DEF SessionsCurrent, SomeLive, IsLive
<1>3. WorkersCurrent'
  BY <1>1 DEF WorkersCurrent, IInv, Facts, WorkersJustified, Justified, Committed
<1>4. RequestsCurrent'
  <2>1. request \in [Requests -> Asking]
    BY DEF IInv, TypeOK
  <2>2. request'[r].pc # "reserve" /\ request'[r].tk = od'.tk
    BY <2>1 DEF Reserve, Got, Asking
  <2>3. \A q \in Requests \ {r} : request'[q] = request[q]
    BY <2>1 DEF Reserve, Got
  <2>4. \A q \in Requests \ {r} : request[q].pc # "enqueue"
    BY DEF OneByOne, IInv, Facts, RequestsJustified
  <2> QED BY <1>1, <2>2, <2>3, <2>4 DEF RequestsCurrent, SomeLive, IsLive
<1>5. SweepCurrent'
  BY <1>1 DEF SweepCurrent
<1>6. SignedIsIssued' /\ SessionSignedIsIssued'
  BY <1>1 DEF SignedIsIssued, SessionSignedIsIssued, Committed, document
<1> QED BY <1>2, <1>3, <1>4, <1>5, <1>6

\* Otherwise a live session keeps its ticket or gets one that is current, and
\* is marked signed only by someone who knows the number is issued.
LEMMA SessionsKept ==
  ASSUME CInv, [Next]_vars, Kept
  PROVE  SessionsCurrent' /\ SessionSignedIsIssued'
<1> USE DEF CInv, Current
<1>1. SUFFICES ASSUME NEW s \in Slots
               PROVE  /\ sess'[s].st \in Live => sess'[s].tk = od'.tk
                      /\ sess'[s].st = "signed" => od'.st = "CONFIRMED"
  BY DEF SessionsCurrent, SessionSignedIsIssued, IsLive
<1>2. CASE Unmoved(s)
  BY <1>2 DEF Unmoved, SessionsCurrent, SessionSignedIsIssued, IsLive, Kept
<1>3. CASE GoesOn(s)
  BY <1>3 DEF GoesOn, SessionsCurrent, Kept, Live
<1>4. CASE ClosedUnsigned(s)
  BY <1>4 DEF ClosedUnsigned, Live
<1>5. CASE Marked(s)
  BY <1>5 DEF Marked, WorkersCurrent, SignedIsIssued, Kept, Live
<1>6. CASE Inserted(s)
  BY <1>6 DEF Inserted, RequestsCurrent, SweepCurrent, Kept, Live
<1> QED BY <1>2, <1>3, <1>4, <1>5, <1>6, SessionMoves DEF Moves

\* A draft or a signer is signed only by a worker at MarkDocument or a request
\* at ImmediateMark.
LEMMA SignatureKept ==
  ASSUME CInv, [Next]_vars, Kept
  PROVE  SignedIsIssued'
<1> USE DEF CInv, Current, SignedIsIssued, Kept, document
<1>1. ASSUME NEW w \in Workers, MarkDocument(w)
      PROVE  SignedIsIssued'
  BY <1>1 DEF MarkDocument, At, WorkersCurrent
<1>2. ASSUME NEW w \in Workers, WorkerNext(w), ~MarkDocument(w)
      PROVE  SignedIsIssued'
  BY <1>2 DEF WorkerNext, WorkerStep, Claim, Renew, Guard, GuardUnread, Sign, SignLost,
              BreakerOpen, Confirm, Stale, Fence, Upload, Finalize, MarkSession, Rejected,
              Error, GiveUp, MarkFailed, Fails, Crash, Shutdown
<1>3. CASE SweepNext
  BY <1>3 DEF SweepNext, SweepLook, SweepWrite, PendingExpires, BecomesLate, LateLook,
              LateRequeue, OrphanLook, OrphanCancel, ConfirmingLook, ConfirmedLook,
              Reinsert, ConflictReport
<1>4. CASE HandlerNext
  <2>1. start.from # "signed"
    BY DEF IInv, TypeOK
  <2>2. ASSUME NEW r \in Requests, ImmediateMark(r)
        PROVE  SignedIsIssued'
    <3>1. od.st = "CONFIRMED"
      BY <2>2 DEF ImmediateMark, AtR, IInv, Facts, RequestsJustified
    <3> QED BY <2>2, <3>1 DEF ImmediateMark
  <2>3. CASE ~\E r \in Requests : ImmediateMark(r)
    BY <1>4, <2>1, <2>3
       DEF HandlerNext, StartStep, RequestStep, RejectStep, StartCas, StartPdf, StartFails,
           StartFinish, SignAsked, Reserve, ReserveFails, SignEnqueued, RequestDies,
           RejectBegin, RejectTx, RejectExpire, RejectCancel, Poll, ImmediateStep,
           ImmediateSign, ImmediateConfirm, ImmediateUpload, ImmediateFinalize,
           ImmediateClean, ImmediateCancel, ImmediateFails
  <2> QED BY <2>2, <2>3
<1>5. CASE UNCHANGED vars
  BY <1>5 DEF vars
<1> QED BY <1>1, <1>2, <1>3, <1>4, <1>5 DEF Next

\* A worker uploads, finalizes and marks only under the present ticket.
LEMMA WorkersKept ==
  ASSUME CInv, [Next]_vars, Kept
  PROVE  WorkersCurrent'
<1> USE DEF CInv, Current
<1>0. /\ worker \in [Workers -> Memory(WorkerPC)] /\ sess \in [Slots -> Session]
      /\ TypeOK
  BY DEF IInv, TypeOK
<1> DEFINE Sound(v) ==
             /\ worker'[v].load.resume \/ worker'[v].pc \in {"fence", "upload", "finalize"}
                  => worker'[v].tk = od'.tk
             /\ worker'[v].pc \in {"markdoc", "marksess"} => od'.st = "CONFIRMED"
<1>1. ASSUME NEW v \in Workers, worker'[v] = worker[v]
      PROVE  Sound(v)
  BY <1>1 DEF WorkersCurrent, Kept
<1>2. ASSUME NEW v \in Workers, worker'[v] = Idle
      PROVE  Sound(v)
  BY <1>2 DEF Idle, Fresh
<1>3. ASSUME NEW w \in Workers, NEW pc \in WorkerPC, Goto(w, pc) \/ Done(w),
             pc \in {"fence", "upload", "finalize"} => worker[w].tk = od.tk,
             pc \in {"markdoc", "marksess"} => od'.st = "CONFIRMED"
      PROVE  WorkersCurrent'
  <2>1. SUFFICES ASSUME NEW v \in Workers PROVE Sound(v)
    BY DEF WorkersCurrent
  <2>2. CASE v # w \/ worker'[v] = Idle
    BY <1>0, <1>1, <1>2, <1>3, <2>2, MovedTyped
  <2>3. CASE v = w /\ worker'[v] # Idle
    BY <1>0, <1>3, <2>3, MovedTyped DEF WorkersCurrent, Kept
  <2> QED BY <2>2, <2>3
<1>4. CASE UNCHANGED worker
  BY <1>1, <1>4 DEF WorkersCurrent
<1>5. ASSUME NEW w \in Workers, WorkerNext(w)
      PROVE  WorkersCurrent'
  <2>1. CASE Claim(w)
    <3>1. PICK s \in Slots :
            /\ sess[s].st = "pending"
            /\ worker' = [worker EXCEPT ![w] = [pc |-> "guard", s |-> s, tk |-> sess[s].tk,
                                                load |-> sess[s].load]]
      BY <2>1 DEF Claim
    <3>2. sess[s].tk = od.tk
      BY <3>1 DEF SessionsCurrent, IsLive, Live
    <3>3. Sound(w)
      BY <1>0, <3>1, <3>2 DEF Kept
    <3>4. \A v \in Workers \ {w} : Sound(v)
      BY <1>0, <1>1, <3>1
    <3> QED BY <3>3, <3>4 DEF WorkersCurrent
  <2>2. CASE Stale(w) /\ Holds(worker[w].tk, "CONFIRMING")
    <3>1. /\ worker' = [worker EXCEPT ![w].pc = "fence", ![w].load.resume = TRUE]
          /\ worker[w].tk = od.tk
      BY <2>2 DEF Stale, Holds
    <3>2. Sound(w)
      BY <1>0, <3>1 DEF Memory, Kept
    <3>3. \A v \in Workers \ {w} : Sound(v)
      BY <1>0, <1>1, <3>1
    <3> QED BY <3>2, <3>3 DEF WorkersCurrent
  <2>3. CASE Stale(w) /\ ~Holds(worker[w].tk, "CONFIRMING")
    <3>1. "markdoc" \in WorkerPC /\ "fail" \in WorkerPC
      BY DEF WorkerPC
    <3>2. (Goto(w, "markdoc") /\ od'.st = "CONFIRMED") \/ Goto(w, "fail")
      BY <2>3 DEF Stale, Holds, Kept
    <3> QED BY <1>3, <3>1, <3>2
  <2>4. CASE Guard(w)
    <3>1. "markdoc" \in WorkerPC /\ "sign" \in WorkerPC
      BY DEF WorkerPC
    <3>2. SkipsSigning(w) => od'.st = "CONFIRMED"
      BY <1>0 DEF SkipsSigning, IInv, Facts, WorkersJustified, Justified, Kept
    <3>3. (Goto(w, "markdoc") /\ od'.st = "CONFIRMED") \/ Goto(w, "sign")
      BY <2>4, <3>2 DEF Guard
    <3> QED BY <1>3, <3>1, <3>3
  <2>5. CASE Sign(w) \/ Confirm(w) \/ Fence(w) \/ Upload(w)
    <3>1. \E pc \in WorkerPC :
            /\ Goto(w, pc) \/ Done(w)
            /\ pc \in {"fence", "upload", "finalize"} => worker[w].tk = od.tk
            /\ pc \notin {"markdoc", "marksess"}
      BY <2>5 DEF Sign, Confirm, Fence, Upload, At, Holds, WorkersCurrent, WorkerPC
    <3> QED BY <1>3, <3>1
  <2>6. CASE Finalize(w)
    <3>1. "markdoc" \in WorkerPC
      BY DEF WorkerPC
    <3>2. worker[w].tk = od.tk /\ Committed
      BY <2>6 DEF Finalize, At, WorkersCurrent, IInv, Facts, WorkersJustified
    <3>3. od'.st = "CONFIRMED"
      BY <1>0, <2>6, <3>2 DEF TypeOK, Row, Finalize, Holds, Committed
    <3> QED BY <1>3, <2>6, <3>1, <3>3 DEF Finalize
  <2>7. CASE MarkDocument(w) \/ Error(w)
    <3>1. \E pc \in WorkerPC :
            /\ Goto(w, pc) \/ Done(w)
            /\ pc \notin {"fence", "upload", "finalize"}
            /\ pc \in {"markdoc", "marksess"} => od'.st = "CONFIRMED"
      BY <2>7 DEF MarkDocument, Error, At, WorkersCurrent, WorkerPC, Kept
    <3> QED BY <1>3, <3>1
  <2>8. CASE Rejected(w) \/ GiveUp(w) \/ Fails(w)
    <3>1. \E pc \in {"conflict", "giveup", "fail", "error"} : Goto(w, pc)
      BY <2>8 DEF Rejected, GiveUp, Fails
    <3>2. {"conflict", "giveup", "fail", "error"} \subseteq WorkerPC
      BY DEF WorkerPC
    <3> QED BY <1>3, <3>1, <3>2
  <2>9. CASE \/ GuardUnread(w) \/ SignLost(w) \/ BreakerOpen(w) \/ MarkSession(w)
             \/ MarkFailed(w) \/ Crash(w) \/ Shutdown(w)
    <3>1. Done(w) /\ "idle" \in WorkerPC
      BY <2>9 DEF GuardUnread, SignLost, BreakerOpen, MarkSession, MarkFailed, Crash,
                  Shutdown, WorkerPC
    <3> QED BY <1>3, <3>1
  <2>10. CASE Renew(w)
    BY <1>4, <2>10 DEF Renew
  <2> QED BY <1>5, <2>1, <2>2, <2>3, <2>4, <2>5, <2>6, <2>7, <2>8, <2>9, <2>10
          DEF WorkerNext, WorkerStep
<1>6. CASE SweepNext \/ HandlerNext \/ UNCHANGED vars
  <2>1. UNCHANGED worker
    BY <1>6 DEF vars, SweepNext, SweepLook, SweepWrite, PendingExpires, BecomesLate, LateLook,
         LateRequeue, OrphanLook, OrphanCancel, ConfirmingLook, ConfirmedLook, Reinsert,
         ConflictReport, HandlerNext, StartStep, RequestStep, RejectStep, StartCas,
         StartPdf, StartFails, StartFinish, SignAsked, Reserve, ReserveFails,
         SignEnqueued, RequestDies, RejectBegin, RejectTx, RejectExpire, RejectCancel, Poll,
         Elsewhere, ImmediateStep, ImmediateSign, ImmediateConfirm, ImmediateUpload,
         ImmediateFinalize, ImmediateMark, ImmediateClean, ImmediateCancel, ImmediateFails
  <2> QED BY <1>4, <2>1
<1> QED BY <1>5, <1>6 DEF Next

\* A request and the sweeper use the ticket they found.
LEMMA OthersKept ==
  ASSUME CInv, [Next]_vars, Kept
  PROVE  RequestsCurrent' /\ SweepCurrent'
<1> USE DEF CInv, Current
<1>0. /\ request \in [Requests -> Asking]
      /\ sweep \in Memory({"idle", "requeue", "orphan", "resume", "heal"})
  BY DEF IInv, TypeOK
<1>1. ASSUME NEW r \in Requests
      PROVE  /\ request'[r].pc = "enqueue" => request'[r].tk = od'.tk
             /\ request'[r].pc = "reserve" => ~SomeLive' \/ Committed'
  <2> DEFINE Ask(q) == Reserve(q) \/ ReserveFails(q) \/ SignEnqueued(q) \/ RequestDies(q)
                       \/ SignAsked(q) \/ ImmediateOf(q)
  <2>1. CASE Reserve(r) \/ ReserveFails(r) \/ SignEnqueued(r) \/ RequestDies(r)
    BY <1>0, <2>1 DEF Reserve, ReserveFails, SignEnqueued, RequestDies, Got, Return, Asked,
                      Asking
  <2>2. CASE SignAsked(r)
    BY <1>0, <2>2 DEF SignAsked, SomeLive, IsLive, AtR, Asking
  <2>3. CASE ImmediateOf(r)
    BY <2>3, ImmediateMoves DEF IInv, Place
  <2>4. CASE request'[r] = request[r]
    <3>1. CASE request[r].pc = "enqueue"
      BY <2>4, <3>1 DEF RequestsCurrent, Kept
    <3>2. CASE request[r].pc = "reserve" /\ ~Committed
      <4>1. ~SomeLive /\ \A q \in Requests : request[q].pc # "enqueue"
        BY <3>2 DEF RequestsCurrent, OneByOne, IInv, Facts, RequestsJustified
      <4>2. \A s \in Slots : sess'[s].st \notin Live
        BY <3>2, <4>1, SessionMoves DEF Moves, Unmoved, GoesOn, ClosedUnsigned, Marked,
           Inserted, SweepCurrent, SomeLive, IsLive, Live
      <4> QED BY <2>4, <3>2, <4>2 DEF SomeLive, IsLive
    <3> QED BY <2>4, <3>1, <3>2 DEF Kept
  <2>5. request' = request \/ \E q \in Requests : Ask(q)
    BY DEF vars, handlers, Next, HandlerNext, StartStep, RejectStep, StartCas, StartPdf,
         StartFails, StartFinish, RejectBegin, RejectTx, RejectExpire, RejectCancel, Poll,
         SweepNext, SweepLook, SweepWrite, PendingExpires, BecomesLate, LateLook,
         LateRequeue, OrphanLook, OrphanCancel, ConfirmingLook, ConfirmedLook, Reinsert,
         ConflictReport, WorkerNext, WorkerStep, Claim, Renew, Guard, GuardUnread, Sign,
         SignLost, BreakerOpen, Confirm, Stale, Fence, Upload, Finalize, MarkDocument,
         MarkSession, Rejected, Error, GiveUp, MarkFailed, Fails, Crash, Shutdown,
         RequestStep, ImmediateOf
  <2>6. ASSUME NEW q \in Requests, Ask(q)
        PROVE  OnlyOf(q)
    <3>1. CASE ImmediateOf(q)
      BY <3>1, ImmediateMoves DEF IInv
    <3>2. CASE ~ImmediateOf(q)
      BY <1>0, <2>6, <3>2 DEF Reserve, ReserveFails, SignEnqueued, RequestDies, SignAsked,
                              Got, Return, OnlyOf
    <3> QED BY <3>1, <3>2
  <2>7. request'[r] = request[r] \/ Ask(r)
    <3>1. CASE request' = request
      BY <3>1
    <3>2. ASSUME NEW q \in Requests, Ask(q)
          PROVE  request'[r] = request[r] \/ Ask(r)
      <4>1. CASE q = r
        BY <3>2, <4>1
      <4>2. CASE q # r
        BY <2>6, <3>2, <4>2 DEF OnlyOf
      <4> QED BY <4>1, <4>2
    <3> QED BY <2>5, <3>1, <3>2
  <2> QED BY <2>1, <2>2, <2>3, <2>4, <2>7
<1>2. SweepCurrent'
  <2>1. CASE sweep' = sweep
    BY <2>1 DEF SweepCurrent, Kept
  <2>2. CASE sweep' = Idle
    BY <2>2 DEF SweepCurrent, Idle
  <2>3. CASE SweepLook
    BY <2>3 DEF SweepLook, LateLook, OrphanLook, ConfirmingLook, ConfirmedLook,
         ConflictReport, Looked, SweepCurrent, Kept, Committed
  <2>4. \/ sweep' = sweep \/ sweep' = Idle \/ SweepLook
    BY DEF vars, handlers, Next, HandlerNext, StartStep, RequestStep, RejectStep, StartCas,
         StartPdf, StartFails, StartFinish, SignAsked, Reserve, ReserveFails, SignEnqueued,
         RequestDies, RejectBegin, RejectTx, RejectExpire, RejectCancel, Poll,
         SweepNext, SweepWrite, PendingExpires, BecomesLate, LateRequeue, OrphanCancel,
         Reinsert, Swept, WorkerNext, WorkerStep, Claim, Renew, Guard, GuardUnread, Sign,
         SignLost, BreakerOpen, Confirm, Stale, Fence, Upload, Finalize, MarkDocument,
         MarkSession, Rejected, Error, GiveUp, MarkFailed, Fails, Crash, Shutdown,
         Elsewhere, ImmediateStep, ImmediateSign, ImmediateConfirm, ImmediateUpload,
         ImmediateFinalize, ImmediateMark, ImmediateClean, ImmediateCancel, ImmediateFails
  <2> QED BY <2>1, <2>2, <2>3, <2>4
<1> QED BY <1>1, <1>2 DEF RequestsCurrent, SomeLive, IsLive

\* The type of the document does not change.
LEMMA RegimeStays == [Next]_vars => regime' = regime
BY DEF vars, document, handlers, Next, WorkerNext, WorkerStep, Claim, Renew, Guard,
       GuardUnread, Sign, SignLost, BreakerOpen, Confirm, Stale, Fence, Upload, Finalize,
       MarkDocument, MarkSession, Rejected, Error, GiveUp, MarkFailed, Fails, Crash, Shutdown,
       SweepNext, SweepLook, SweepWrite, PendingExpires, BecomesLate, LateLook, LateRequeue,
       OrphanLook, OrphanCancel, ConfirmingLook, ConfirmedLook, Reinsert, ConflictReport,
       HandlerNext, StartStep, RequestStep, RejectStep, StartCas, StartPdf, StartFails,
       StartFinish, SignAsked, Reserve, ReserveFails, SignEnqueued, RequestDies, RejectBegin,
       RejectTx, RejectExpire, RejectCancel, Poll, ImmediateStep, ImmediateSign,
       ImmediateConfirm, ImmediateUpload, ImmediateFinalize, ImmediateMark, ImmediateClean,
       ImmediateCancel, ImmediateFails

\* Together: what the actors are about to use stays current.
LEMMA StepCInv == CInv /\ [Next]_vars => CInv'
<1> SUFFICES ASSUME CInv, [Next]_vars PROVE CInv'
  OBVIOUS
<1>1. IInv' /\ OneByOne'
  BY StepIInv, RegimeStays DEF CInv, OneByOne
<1>2. CASE Kept
  BY <1>1, <1>2, SessionsKept, SignatureKept, WorkersKept, OthersKept DEF CInv, Current
<1>3. ASSUME NEW r \in Requests, Reserve(r), ~Committed, ~SomeLive
      PROVE  CInv'
  BY <1>1, <1>3, NewTicketCurrent DEF CInv
<1> QED BY <1>2, <1>3, NewTicket

\* The initial state satisfies it.
LEMMA InitCInv == Init /\ OneByOne => CInv
BY InitIInv DEF CInv, Current, Init, SessionsCurrent, WorkersCurrent, RequestsCurrent,
   SweepCurrent, SignedIsIssued, SessionSignedIsIssued, IsLive, Live, NoSession, Idle, Fresh,
   Asked

\* With one GLOBAL request at a time, every ticket in use is the present one
\* in every reachable state.
THEOREM SpecCInv == SafeSpec /\ OneByOne => []CInv
<1> QED BY InitCInv, StepCInv, PTL DEF SafeSpec

\* No path of a worker or a request makes a document effective before its number is issued.
THEOREM SpecSignedIsIssued == SafeSpec /\ OneByOne => []SignedIsIssued
<1>1. CInv => SignedIsIssued
  BY DEF CInv, Current
<1> QED BY <1>1, SpecCInv, PTL

\* No worker and no poll reports a session signed before its number is issued.
THEOREM SpecSessionSignedIsIssued == SafeSpec /\ OneByOne => []SessionSignedIsIssued
<1>1. CInv => SessionSignedIsIssued
  BY DEF CInv, Current
<1> QED BY <1>1, SpecCInv, PTL

-----------------------------------------------------------------------------
(* Refinement of Issuance *)

\* A signature is not withdrawn from its signer.
LEMMA SignerMoves ==
  ASSUME [Next]_vars
  PROVE  signer' \in {signer, "signed"}
<1> USE DEF document
<1>1. ASSUME NEW w \in Workers, WorkerNext(w)
      PROVE  signer' \in {signer, "signed"}
  BY <1>1 DEF WorkerNext, WorkerStep, Claim, Renew, Guard, GuardUnread, Sign, SignLost,
         BreakerOpen, Confirm, Stale, Fence, Upload, Finalize, MarkDocument, MarkSession,
         Rejected, Error, GiveUp, MarkFailed, Fails, Crash, Shutdown
<1>2. CASE SweepNext
  BY <1>2 DEF SweepNext, SweepLook, SweepWrite, PendingExpires, BecomesLate, LateLook,
              LateRequeue, OrphanLook, OrphanCancel, ConfirmingLook, ConfirmedLook,
              Reinsert, ConflictReport
<1>3. CASE HandlerNext
  BY <1>3 DEF HandlerNext, StartStep, RequestStep, RejectStep, StartCas, StartPdf, StartFails,
           StartFinish, SignAsked, Reserve, ReserveFails, SignEnqueued, RequestDies,
           RejectBegin, RejectTx, RejectExpire, RejectCancel, Poll, ImmediateStep,
           ImmediateSign, ImmediateConfirm, ImmediateUpload, ImmediateFinalize,
           ImmediateMark, ImmediateClean, ImmediateCancel, ImmediateFails
<1>4. CASE UNCHANGED vars
  BY <1>4 DEF vars
<1> QED BY <1>1, <1>2, <1>3, <1>4 DEF Next

\* Every step of the document is a step of the promise or changes nothing it
\* speaks of.
LEMMA StepRefines ==
  ASSUME CInv, CInv', [Next]_vars
  PROVE  [Number!Next]_(Number!vars)
<1> USE DEF Number!vars
<1>0. /\ od \in Row /\ od' \in Row
      /\ od.st # "NONE" => od.tk # 0
      /\ signer \in {"pending", "signed"}
      /\ signer = "signed" => od.st = "CONFIRMED"
      /\ signer' = "signed" => od'.st = "CONFIRMED"
  BY DEF CInv, IInv, TypeOK, Facts, TicketKnown, Current, SignedIsIssued
<1>1. CASE Stays
  <2>1. CASE signer' = signer
    BY <1>1, <2>1 DEF Stays
  <2>2. CASE signer' # signer
    <3>1. signer = "pending" /\ signer' = "signed"
      BY <1>0, <2>2, SignerMoves
    <3>2. Number!Sign
      BY <1>0, <1>1, <3>1 DEF Stays, Number!Sign
    <3> QED BY <3>2 DEF Number!Next
  <2> QED BY <2>1, <2>2
<1>2. CASE Reserved
  <2>1. Number!Reserve(od'.tk)
    BY <1>0, <1>2 DEF Reserved, Replaced, Row, Number!Reserve
  <2>2. od'.tk \in Tickets
    BY <1>2 DEF Reserved
  <2> QED BY <2>1, <2>2 DEF Number!Next
<1>3. CASE GivenUp
  <2>1. CASE od.st = "RESERVED"
    BY <1>3, <2>1 DEF GivenUp, Number!GiveUp, Number!Next
  <2>2. CASE od.st = "CANCELLED"
    BY <1>3, <2>2 DEF GivenUp
  <2> QED BY <1>3, <2>1, <2>2 DEF GivenUp
<1>4. CASE CommittedNow
  BY <1>4 DEF CommittedNow, Number!Commit, Number!Next
<1>5. CASE IssuedNow /\ UNCHANGED signer
  BY <1>0, <1>5 DEF IssuedNow, Number!Issue, Number!Next
<1> QED BY <1>1, <1>2, <1>3, <1>4, <1>5, NumberMoves DEF CInv

\* With one GLOBAL request at a time, the document keeps the promise made
\* about official numbers.
THEOREM SpecImplementsIssuance == SafeSpec /\ OneByOne => ImplementsIssuance
<1>1. Init => Number!Init
  BY DEF Init, NoRow, Number!Init
<1>2. CInv /\ CInv' /\ [Next]_vars => [Number!Next]_(Number!vars)
  BY StepRefines
<1> QED BY <1>1, <1>2, SpecCInv, PTL DEF SafeSpec, ImplementsIssuance, Number!Spec
=============================================================================
