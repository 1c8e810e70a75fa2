------------------------------- MODULE PdfLock -------------------------------
(***************************************************************************)
(* The lock on the PDF that is being signed (signing/r2_lock.py): the file *)
(* moves from tosign/ to inprocess/ and back, in two calls to the object   *)
(* store that are no transaction, under a Redis key with a time to live.   *)
(* The key names the document and not its holder, and the store overwrites *)
(* and deletes without asking: each caller only remembers the next call.   *)
(***************************************************************************)
CONSTANTS Docs, NoDoc,
          Callers,       \* handlers, jobs and workers that use the lock
          Pdfs, NoPdf    \* contents of a PDF; NoPdf: there is no such key

ASSUME PdfLockAssumption == NoDoc \notin Docs /\ NoPdf \notin Pdfs

VARIABLES key,        \* the Redis key exists
          tosign,     \* the object tosign/<doc>.pdf
          inprocess,  \* the object inprocess/<doc>.pdf
          move        \* the next call of each caller

store == <<key, tosign, inprocess>>
lockVars == <<store, move>>

Still == [at |-> "still", d |-> NoDoc]
LockSteps == {"still", "check", "take", "clear", "won", "lost", "back", "drop"}

LockTypeOK == /\ key \in [Docs -> BOOLEAN]
              /\ tosign \in [Docs -> Pdfs \union {NoPdf}]
              /\ inprocess \in [Docs -> Pdfs \union {NoPdf}]
              /\ move \in [Callers -> [at : LockSteps, d : Docs \union {NoDoc}]]

LockInit(pdf) == /\ key = [d \in Docs |-> FALSE]
                 /\ tosign = [d \in Docs |-> pdf]
                 /\ inprocess = [d \in Docs |-> NoPdf]
                 /\ move = [a \in Callers |-> Still]

IsStill(a) == move[a].at = "still"
Goes(a, at, d) == move' = [move EXCEPT ![a] = [at |-> at, d |-> d]]

\* A caller that dies makes no more calls; what it holds stays where it is.
Dead(a) == move' = [move EXCEPT ![a] = Still]

-----------------------------------------------------------------------------
(* What a handler begins, as a conjunct of its own step *)

\* _acquire_redis_lock: SET NX, the first call of acquire_signing_lock_R2.
Acquire(a, d) == /\ key' = [key EXCEPT ![d] = TRUE]
                 /\ Goes(a, IF key[d] THEN "lost" ELSE "check", d)
                 /\ UNCHANGED <<tosign, inprocess>>

\* release_signing_lock_R2_fail deletes the key before it moves the file.
Release(a, d) == /\ key' = [key EXCEPT ![d] = FALSE]
                 /\ Goes(a, "back", d)
                 /\ UNCHANGED <<tosign, inprocess>>

\* release_signing_lock_R2_success after the signed PDF is where it belongs,
\* and delete_inprocess_on_reject.
Settle(a, d) == /\ key' = [key EXCEPT ![d] = FALSE]
                /\ Goes(a, "drop", d)
                /\ UNCHANGED <<tosign, inprocess>>

-----------------------------------------------------------------------------
(* The calls that follow *)

\* r2_head: somebody else is signing if there is a file in inprocess/.
Check(a) ==
  /\ move[a].at = "check"
  /\ LET d == move[a].d IN
       IF inprocess[d] = NoPdf
       THEN Goes(a, "take", d) /\ UNCHANGED key
       ELSE Goes(a, "lost", d) /\ key' = [key EXCEPT ![d] = FALSE]
  /\ UNCHANGED <<tosign, inprocess>>

\* r2_copy from tosign/ to inprocess/.
Take(a) ==
  /\ move[a].at = "take"
  /\ LET d == move[a].d IN
       IF tosign[d] = NoPdf
       THEN /\ Goes(a, "lost", d)
            /\ key' = [key EXCEPT ![d] = FALSE]
            /\ UNCHANGED inprocess
       ELSE /\ Goes(a, "clear", d)
            /\ inprocess' = [inprocess EXCEPT ![d] = tosign[d]]
            /\ UNCHANGED key
  /\ UNCHANGED tosign

\* r2_delete of the copy in tosign/.
Clear(a) == /\ move[a].at = "clear"
            /\ tosign' = [tosign EXCEPT ![move[a].d] = NoPdf]
            /\ Goes(a, "won", move[a].d)
            /\ UNCHANGED <<key, inprocess>>

\* r2_copy from inprocess/ back to tosign/; nothing to do when it is gone.
Back(a) ==
  /\ move[a].at = "back"
  /\ LET d == move[a].d IN
       IF inprocess[d] = NoPdf
       THEN Goes(a, "still", NoDoc) /\ UNCHANGED tosign
       ELSE /\ Goes(a, "drop", d)
            /\ tosign' = [tosign EXCEPT ![d] = inprocess[d]]
  /\ UNCHANGED <<key, inprocess>>

\* r2_delete of the copy in inprocess/.
Drop(a) == /\ move[a].at = "drop"
           /\ inprocess' = [inprocess EXCEPT ![move[a].d] = NoPdf]
           /\ Goes(a, "still", NoDoc)
           /\ UNCHANGED <<key, tosign>>

LockStep(a) == Check(a) \/ Take(a) \/ Clear(a) \/ Back(a) \/ Drop(a)

\* The key lives _REDIS_LOCK_TTL seconds.  The user takes longer than that to
\* sign; an acquisition or a release does not.
KeyExpires(d) == /\ key[d]
                 /\ \A a \in Callers : move[a].d # d
                 /\ key' = [key EXCEPT ![d] = FALSE]
                 /\ UNCHANGED <<tosign, inprocess, move>>
=============================================================================
