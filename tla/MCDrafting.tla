------------------------------ MODULE MCDrafting -----------------------------
EXTENDS Drafting, TLC

CONSTANTS c1, c2, c3

MCDoes == c1 :> {"create", "import", "start", "sign"}
       @@ c2 :> {"start", "save", "replace", "reject", "delete"}
       @@ c3 :> {"upload", "remove"}

\* Every property holds of what a call left half-way when it died, and of all
\* that comes after: TLC does not go on from there.
NothingLeft == "left" \notin marks

\* Bound: nor from where the number was issued and the draft was not signed,
\* because an old start had given it back.
SignedTogether == official.st = "CONFIRMED" => draft.st = "signed"
=============================================================================
