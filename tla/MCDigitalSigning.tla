--------------------------- MODULE MCDigitalSigning ---------------------------
EXTENDS DigitalSigning, TLC
CONSTANTS d1, d2, o1, o2, p1, p2, sweep, f1

\* The two requests are interchangeable; sound where no liveness is checked.
Symmetry == Permutations(Requests)

\* The batch of both documents as abrir_tanda leaves it.
BatchOpened ==
  /\ key = [d \in Docs |-> FALSE]
  /\ tosign = [d \in Docs |-> NoPdf] /\ inprocess = [d \in Docs |-> {}]
  /\ move = [a \in Callers |-> Still]
  /\ draft = [d \in Docs |-> "sent_to_sign"] /\ signer = [d \in Docs |-> "pending"]
  /\ od = [d \in Docs |-> IF d \in Numbered THEN [st |-> "RESERVED", tk |-> 1] ELSE NoNumber]
  /\ saved = [d \in Docs |-> 0] /\ official = [d \in Docs |-> 0]
  /\ \E p \in {q \in [Sessions -> Docs] : \A s, t \in Sessions : q[s] = q[t] => s = t} :
       sess = [s \in Sessions |->
                 [NoSession EXCEPT !.st = "pending", !.d = p[s], !.batch = 1,
                                   !.tk = IF p[s] \in Numbered THEN 1 ELSE 0]]
  /\ row = [d \in Docs |-> NoRow]
  /\ open = [o \in Openers |-> Closed]
  /\ req = [r \in Requests \union {Job} |-> Resting]
  /\ close = [d \in Docs |-> Asleep]
  /\ fall = [f \in Fallers |-> Standing]
  /\ faults = 0
BatchSpec == BatchOpened /\ [][Next]_vars
FairBatchSpec == BatchSpec /\ Fairness
=============================================================================
