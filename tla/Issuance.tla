------------------------------- MODULE Issuance -------------------------------
(***************************************************************************)
(* What the signature of one document promises about its official number:  *)
(* a reservation may be given up and taken again under another ticket;     *)
(* once it is committed nobody takes it back, and it is issued; only an    *)
(* issued number takes effect as the document's signature, and that        *)
(* cannot be undone.                                                       *)
(***************************************************************************)
EXTENDS Naturals

CONSTANT Tickets       \* reservations of the document

VARIABLES phase,       \* of the document's number
          ticket       \* the reservation it is about; 0 when none

vars == <<phase, ticket>>

Phases == {"open", "reserved", "committed", "issued", "effective"}

TypeOK == /\ phase \in Phases
          /\ ticket \in Tickets \union {0}
          /\ phase = "open" <=> ticket = 0

Init == phase = "open" /\ ticket = 0

Reserve(t) == /\ phase \in {"open", "reserved"} /\ ticket # t
              /\ phase' = "reserved" /\ ticket' = t

GiveUp == /\ phase = "reserved"
          /\ phase' = "open" /\ ticket' = 0

Commit == phase = "reserved" /\ phase' = "committed" /\ UNCHANGED ticket
Issue  == phase = "committed" /\ phase' = "issued" /\ UNCHANGED ticket
Sign   == phase = "issued" /\ phase' = "effective" /\ UNCHANGED ticket

Next == (\E t \in Tickets : Reserve(t)) \/ GiveUp \/ Commit \/ Issue \/ Sign

Spec == Init /\ [][Next]_vars
=============================================================================
