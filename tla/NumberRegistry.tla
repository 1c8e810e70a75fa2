---------------------------- MODULE NumberRegistry ----------------------------
(***************************************************************************)
(* What a numbering regime promises to the rest of the back end, without   *)
(* rows, counters or locks: an official number is held by at most one      *)
(* document, a document holds at most one number, a held number may be     *)
(* given back, and a number that was sealed (CONFIRMED) is held for ever   *)
(* by the same document.                                                   *)
(***************************************************************************)
CONSTANTS Docs,      \* documents that may ask for a number
          Numbers    \* the official numbers

VARIABLES held,      \* pairs <<document, number>>
          sealed     \* the pairs that are final

vars == <<held, sealed>>

TypeOK == /\ held \subseteq Docs \X Numbers
          /\ sealed \subseteq held

Init == held = {} /\ sealed = {}

\* A document without a number takes one that nobody holds.
Take(d, n) == /\ \A p \in held : p[1] # d /\ p[2] # n
              /\ held' = held \union {<<d, n>>}
              /\ UNCHANGED sealed

\* A number that is not final is given back.
Drop(d, n) == /\ <<d, n>> \in held \ sealed
              /\ held' = held \ {<<d, n>>}
              /\ UNCHANGED sealed

\* The number becomes final.
Seal(d, n) == /\ <<d, n>> \in held
              /\ sealed' = sealed \union {<<d, n>>}
              /\ UNCHANGED held

\* A document swaps a number that is not final for another one.
Exchange(d, m, n) == /\ <<d, m>> \in held \ sealed
                     /\ \A p \in held : p[2] # n
                     /\ held' = (held \ {<<d, m>>}) \union {<<d, n>>}
                     /\ UNCHANGED sealed

\* A document takes a number for good.
TakeForGood(d, n) == /\ \A p \in held : p[1] # d /\ p[2] # n
                     /\ held' = held \union {<<d, n>>}
                     /\ sealed' = sealed \union {<<d, n>>}

Next == \E d \in Docs, n \in Numbers :
          \/ Take(d, n) \/ Drop(d, n) \/ Seal(d, n)
          \/ TakeForGood(d, n)
          \/ \E m \in Numbers : Exchange(d, m, n)

Spec == Init /\ [][Next]_vars

-----------------------------------------------------------------------------
\* No number has two holders and no document two numbers.
OneHolder == \A p, q \in held : (p[1] = q[1] \/ p[2] = q[2]) => p = q
=============================================================================
