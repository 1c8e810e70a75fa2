------------------------------ MODULE MCCaseWork -----------------------------
EXTENDS CaseWork, TLC

CONSTANTS r1, r2, r3

\* Any service, against those that end something, while others add.
Adds == {"assign", "propose", "link"}
MCDoes == r1 :> (Services \ {"propose"}) @@ r2 :> (Services \ Adds) @@ r3 :> Adds
=============================================================================
