------------------------------ MODULE CaseLedger -----------------------------
(***************************************************************************)
(* What the file of a case promises: a book.  Each document is entered     *)
(* under the next number (001, 002, ...), an entry keeps its place and its *)
(* document, and one that was amended is struck out and not restored.      *)
(***************************************************************************)
EXTENDS Naturals, Sequences

CONSTANT Docs
VARIABLE book

Page(d) == [doc |-> d, order |-> Len(book) + 1, active |-> TRUE]
Opened == \E d \in Docs : book = <<[doc |-> d, order |-> 1, active |-> TRUE]>>
Enter(d) == book' = Append(book, Page(d))
Correct(i, d) == book' = Append([book EXCEPT ![i].active = FALSE], Page(d))

Spec == Opened /\ [][\E d \in Docs : Enter(d) \/ \E i \in DOMAIN book : Correct(i, d)]_book
=============================================================================
