---------------------------- MODULE CaseWorkProofs ---------------------------
(***************************************************************************)
(* Proofs about CaseWork for any number of requests, documents, proposals, *)
(* tasks and sectors, over a pool of any size, whatever fails.             *)
(*                                                                         *)
(* The argument: what a call has read may be out of date when it is used,  *)
(* but for what the rows it has locked protect.  FileCall and TaskCall say *)
(* what each call may still rely on; a row has one holder (Exclusive), so  *)
(* the steps of the others do not take it away.                            *)
(***************************************************************************)
EXTENDS CaseWork, TLAPS

Exclusive == \A r, q \in Requests : r # q => req[r].holds \intersect req[q].holds = {}

-----------------------------------------------------------------------------
(* What a call relies on *)

InFile(d) == \E i \in DOMAIN links : links[i].doc = d

\* Of the file: the next order number while it has the case, and the document
\* of its proposal.
FileCall(c) ==
  /\ c.at \in {"check", "amend", "lock", "insert"} =>
       c.doc \in Docs /\ c.row \in 0 .. Len(links)
  /\ c.at = "insert" => CaseRow \in c.holds /\ c.order = Len(links) + 1
  /\ c.at \in {"deactivate", "reject"} => c.prop \in Proposals
  /\ c.at = "amend" => c.prop = NoProposal
  /\ c.prop \in Proposals =>
       /\ proposal[c.prop].st # "none"
       /\ c.at \in {"check", "lock", "insert"} => proposal[c.prop].doc = c.doc
       /\ c.at = "deactivate" => InFile(proposal[c.prop].doc)

FileState == /\ Len(links) > 0
             /\ \A i \in DOMAIN links : links[i].order = i
             /\ \A p \in accepted : proposal[p].st = "inactive" /\ InFile(proposal[p].doc)

\* Of the tasks: those that it has closed, which it holds; and what it counted.
Holding(c) ==
  /\ c.closing \subseteq c.holds
  /\ c.at \notin {"movement", "record"} => c.closing = {}
  /\ \A t \in c.closing : task[t].st = "open" /\ task[t].asg = c.asg

Placed(c) ==
  /\ c.at \in {"close", "reassign"} => c.task \in Tasks /\ task[c.task].st # "none"
  /\ c.at = "close" => c.asg = task[c.task].asg
  /\ c.at \in {"movement", "tasks", "record"} => c.asg \in Assignments
  /\ c.asg \in Assignments => assignment[c.asg].st # "none"

Counted(c) ==
  /\ c.last => /\ c.op = "closetask" /\ c.asg \in Assignments
               /\ OpenIn(c.asg) \subseteq {c.task} \union late
               /\ c.at # "close" => c.closing = {c.task}
  /\ c.at = "movement" => c.op \in {"closetask", "closeassign"}
                          /\ IF c.op = "closetask" THEN c.last ELSE c.closing = {}
  /\ c.at = "record" => OpenIn(c.asg) \subseteq c.closing \union late
  /\ c.at = "close" /\ ~c.last /\ assignment[c.asg].st = "active" /\ c.asg \notin met =>
       Others(c.task) # {}

TaskCall(c) == Holding(c) /\ Placed(c) /\ Counted(c)

TaskState == /\ \A t \in Tasks : task[t].st # "none" =>
                  task[t].asg \in Assignments /\ assignment[task[t].asg].st # "none"
             /\ AssignmentsMatchTasks

IInv == /\ TypeOK /\ Exclusive /\ FileState /\ TaskState
        /\ \A r \in Requests : FileCall(req[r]) /\ TaskCall(req[r])

-----------------------------------------------------------------------------
(* Calls *)

\* What a service has when it is called, and what is left when it returns.
LEMMA MadeTyped ==
  ASSUME NEW at \in Steps, NEW op \in Services \union {"none"}
  PROVE  Made(at, op) \in Calls
BY DEF Made, Calls

\* A call that has read nothing, or has ended, relies on nothing.
LEMMA MadeRelies ==
  ASSUME NEW at \in {"new", "done", "emit"}, NEW op
  PROVE  FileCall(Made(at, op)) /\ TaskCall(Made(at, op))
<1>1. Made(at, op).prop \notin Proposals /\ Made(at, op).asg \notin Assignments
  BY CaseAssumption DEF Made
<1> QED BY <1>1 DEF Made, FileCall, TaskCall, Holding, Placed, Counted

\* A step that moves one call leaves the others as they were.
LEMMA OneMoves ==
  ASSUME NEW r \in Requests, NEW c, req \in [Requests -> Calls], c \in Calls,
         req' = [req EXCEPT ![r] = c]
  PROVE  /\ req' \in [Requests -> Calls]
         /\ req'[r] = c /\ \A q \in Requests \ {r} : req'[q] = req[q]
OBVIOUS

\* The rows of a call that takes only free ones are still its own.
LEMMA ExclusiveMoves ==
  ASSUME NEW r \in Requests, NEW c, req \in [Requests -> Calls], c \in Calls,
         req' = [req EXCEPT ![r] = c], Exclusive,
         \A q \in Requests \ {r} : c.holds \intersect req[q].holds = {}
  PROVE  Exclusive'
BY OneMoves DEF Exclusive

\* A step that moves one call, and nothing else, to what it may rely on.
LEMMA CallMoves ==
  ASSUME IInv, NEW r \in Requests, NEW c \in Calls,
         req' = [req EXCEPT ![r] = c],
         FileCall(c), TaskCall(c),
         \A q \in Requests \ {r} : c.holds \intersect req[q].holds = {},
         UNCHANGED <<fileVars, taskVars>>, faults' \in 0 .. MaxFaults
  PROVE  IInv'
<1> USE DEF fileVars, taskVars
<1>1. req \in [Requests -> Calls]
  BY DEF IInv, TypeOK
<1>2. req' \in [Requests -> Calls] /\ req'[r] = c
      /\ \A q \in Requests \ {r} : req'[q] = req[q]
  BY <1>1, OneMoves
<1>3. TypeOK'
  BY <1>2 DEF IInv, TypeOK
<1>4. Exclusive'
  BY <1>1, ExclusiveMoves DEF IInv
<1>5. FileState'
  BY DEF IInv, FileState, InFile
<1>6. TaskState'
  BY DEF IInv, TaskState, AssignmentsMatchTasks, OpenIn
<1>7. ASSUME NEW q \in Requests PROVE FileCall(req[q])'
  <2>1. PICK d \in Calls : d = req'[q] /\ FileCall(d)
    BY <1>2 DEF IInv
  <2>2. FileCall(d)'
    BY <2>1 DEF FileCall, InFile
  <2> QED BY <2>1, <2>2 DEF FileCall, InFile
<1>8. ASSUME NEW q \in Requests PROVE TaskCall(req[q])'
  <2>1. PICK d \in Calls : d = req'[q] /\ TaskCall(d)
    BY <1>2 DEF IInv
  <2> QED
    BY <2>1 DEF TaskCall, Holding, Placed, Counted, OpenIn, Others
<1> QED BY <1>3, <1>4, <1>5, <1>6, <1>7, <1>8 DEF IInv

\* A call ends: the rows it had locked are free, and it relies on nothing.
LEMMA EndMoves ==
  ASSUME IInv, NEW r \in Requests, End(r),
         UNCHANGED <<fileVars, taskVars>>, faults' \in 0 .. MaxFaults
  PROVE  IInv'
<1>1. Ended \in Calls /\ Ended.holds = {}
  BY MadeTyped DEF Ended, Made, Steps
<1>2. FileCall(Ended) /\ TaskCall(Ended)
  BY MadeRelies DEF Ended
<1> QED BY <1>1, <1>2, CallMoves DEF End

\* A service is called: it has no row yet.
LEMMA BeginMoves ==
  ASSUME IInv, NEW r \in Requests, NEW c \in Calls, Begin(r, c), c.holds = {},
         FileCall(c), TaskCall(c), UNCHANGED <<fileVars, taskVars>>, NoFault
  PROVE  IInv'
<1>1. faults' \in 0 .. MaxFaults
  BY DEF IInv, TypeOK, NoFault
<1> QED BY <1>1, CallMoves DEF Begin

\* A call goes on, with some of the rows that it had and free ones.
LEMMA CallGoes ==
  ASSUME IInv, NEW r \in Requests, NEW c \in Calls, req' = [req EXCEPT ![r] = c],
         FileCall(c), TaskCall(c), UNCHANGED <<fileVars, taskVars>>, NoFault,
         \A row \in c.holds : row \in req[r].holds \/ Unlocked(row, r)
  PROVE  IInv'
<1>1. faults' \in 0 .. MaxFaults
  BY DEF IInv, TypeOK, NoFault
<1>2. \A q \in Requests \ {r} : c.holds \intersect req[q].holds = {}
  BY DEF IInv, Exclusive, Unlocked
<1> QED BY <1>1, <1>2, CallMoves

\* What every call is, at any time.
LEMMA CallKnown ==
  ASSUME IInv, NEW r \in Requests
  PROVE  req[r] \in Calls /\ FileCall(req[r]) /\ TaskCall(req[r])
BY DEF IInv, TypeOK

-----------------------------------------------------------------------------
(* The steps of the file *)

\* A document that is official may be linked; it is checked first.
LEMMA LinksStep ==
  ASSUME IInv, NEW r \in Requests, NEW d \in Docs, UNCHANGED taskVars, StartLink(r, d)
  PROVE  IInv'
<1> USE CaseAssumption
<1>1. PICK c : c = [Made("check", "link") EXCEPT !.doc = d]
  OBVIOUS
<1>2. c \in Calls /\ c.holds = {}
  BY <1>1 DEF Made, Calls, Steps, Services
<1>3. FileCall(c) /\ TaskCall(c)
  BY <1>1 DEF Made, FileCall, TaskCall, Holding, Placed, Counted, IInv, TypeOK
<1> QED BY <1>1, <1>2, <1>3, BeginMoves DEF StartLink

\* An amendment knows the place of the entry that it amends.
LEMMA AmendsStep ==
  ASSUME IInv, NEW r \in Requests, NEW d \in Docs, NEW i \in DOMAIN links,
         UNCHANGED taskVars, StartSubsanar(r, i, d)
  PROVE  IInv'
<1> USE CaseAssumption
<1>1. PICK c : c = [Made("amend", "subsanar") EXCEPT !.doc = d, !.row = i]
  OBVIOUS
<1>2. i \in 1 .. Len(links) /\ i \in Nat
  BY DEF IInv, TypeOK
<1>3. c \in Calls /\ c.holds = {}
  BY <1>1, <1>2 DEF Made, Calls, Steps, Services
<1>4. FileCall(c) /\ TaskCall(c)
  BY <1>1, <1>2 DEF Made, FileCall, TaskCall, Holding, Placed, Counted, IInv, TypeOK
<1> QED BY <1>1, <1>3, <1>4, BeginMoves DEF StartSubsanar

\* An acceptance, or a rejection, has a proposal that was active when it began.
LEMMA FollowsStep ==
  ASSUME IInv, NEW r \in Requests, NEW p \in Proposals, UNCHANGED taskVars,
         StartAccept(r, p) \/ StartReject(r, p)
  PROVE  IInv'
<1> USE CaseAssumption
<1>1. CASE StartAccept(r, p)
  <2>1. PICK op \in {"accept", "autolink"} :
          Begin(r, [Made("check", op) EXCEPT !.doc = proposal[p].doc, !.prop = p])
    BY <1>1 DEF StartAccept
  <2>2. PICK c : c = [Made("check", op) EXCEPT !.doc = proposal[p].doc, !.prop = p]
    OBVIOUS
  <2>3. proposal[p].doc \in Docs /\ proposal[p].st = "active"
    BY <1>1 DEF StartAccept, IInv, TypeOK
  <2>4. c \in Calls /\ c.holds = {}
    BY <2>2, <2>3 DEF Made, Calls, Steps, Services
  <2>5. FileCall(c) /\ TaskCall(c)
    BY <2>2, <2>3 DEF Made, FileCall, TaskCall, Holding, Placed, Counted, IInv, TypeOK
  <2> QED BY <1>1, <2>1, <2>2, <2>4, <2>5, BeginMoves DEF StartAccept
<1>2. CASE StartReject(r, p)
  <2>1. PICK c : c = [Made("reject", "reject") EXCEPT !.prop = p]
    OBVIOUS
  <2>2. c \in Calls /\ c.holds = {}
    BY <2>1 DEF Made, Calls, Steps, Services
  <2>3. FileCall(c) /\ TaskCall(c)
    BY <1>2, <2>1 DEF Made, FileCall, TaskCall, Holding, Placed, Counted, StartReject
  <2> QED BY <1>2, <2>1, <2>2, <2>3, BeginMoves DEF StartReject
<1> QED BY <1>1, <1>2

\* The greatest order number of a file is its length.
LEMMA MaxOrderIsLength ==
  ASSUME TypeOK, FileState
  PROVE  MaxOrder = Len(links)
<1>1. DOMAIN links = 1 .. Len(links) /\ Len(links) \in Nat /\ links # << >>
  BY DEF TypeOK, FileState
<1>2. {links[i].order : i \in DOMAIN links} = 1 .. Len(links)
  BY <1>1 DEF FileState
<1>3. Len(links) \in 1 .. Len(links)
  BY <1>1 DEF FileState
<1>4. \A n \in 1 .. Len(links) : (\A i \in DOMAIN links : links[i].order <= n) <=> n = Len(links)
  <2> TAKE n \in 1 .. Len(links)
  <2>1. (\A i \in DOMAIN links : links[i].order <= n) <=> \A i \in 1 .. Len(links) : i <= n
    BY <1>1 DEF FileState
  <2>2. Len(links) <= n <=> n = Len(links)
    <3>1. PICK last \in Nat : last = Len(links)
      BY <1>1
    <3>2. n \in Nat /\ n <= last
      BY <3>1
    <3> QED BY <3>1, <3>2
  <2>3. (\A i \in 1 .. Len(links) : i <= n) <=> Len(links) <= n
    BY <1>1, <1>3
  <2> QED BY <2>1, <2>2, <2>3
<1> QED BY <1>1, <1>2, <1>3, <1>4 DEF MaxOrder

\* The steps of a link before its entry, up to the lock under which it reads the
\* order number.
LEMMA ChecksAndLocks ==
  ASSUME IInv, NEW r \in Requests, UNCHANGED taskVars,
         Check(r) \/ Amend(r) \/ LockCase(r)
  PROVE  IInv'
<1>1. req[r] \in Calls /\ FileCall(req[r]) /\ TaskCall(req[r])
  BY CallKnown
<1>2. CASE Check(r)
  <2>1. CASE End(r)
    BY <1>2, <2>1, EndMoves DEF Check, IInv, TypeOK, NoFault
  <2>2. CASE req' = [req EXCEPT ![r].at = "lock"]
    <3>1. PICK c : c = [req[r] EXCEPT !.at = "lock"]
      OBVIOUS
    <3>2. c \in Calls
      BY <1>1, <3>1 DEF Calls, Steps
    <3>3. FileCall(c) /\ TaskCall(c)
      BY <1>1, <1>2, <3>1 DEF Check, Calls, FileCall, TaskCall, Holding, Placed, Counted
    <3>4. c.holds = req[r].holds
      BY <1>1, <3>1 DEF Calls
    <3> QED BY <1>2, <2>2, <3>1, <3>2, <3>3, <3>4, CallGoes DEF Check
  <2> QED BY <1>2, <2>1, <2>2 DEF Check
<1>3. CASE Amend(r)
  <2>1. PICK c : c = [req[r] EXCEPT !.at = "lock", !.holds = {req[r].row}]
    OBVIOUS
  <2>2. c \in Calls
    BY <1>1, <2>1 DEF Calls, Steps
  <2>3. FileCall(c)
    BY <1>1, <1>3, <2>1, CaseAssumption DEF Amend, Calls, FileCall
  <2>4. TaskCall(c)
    BY <1>1, <1>3, <2>1 DEF Amend, Calls, TaskCall, Holding, Placed, Counted
  <2>5. c.holds = {req[r].row}
    BY <1>1, <2>1 DEF Calls
  <2> QED BY <1>3, <2>1, <2>2, <2>3, <2>4, <2>5, CallGoes DEF Amend
<1>4. CASE LockCase(r)
  <2>1. PICK c : c = [req[r] EXCEPT !.at = "insert", !.order = MaxOrder + 1,
                                    !.holds = @ \union {CaseRow}]
    OBVIOUS
  <2>2. MaxOrder = Len(links) /\ Len(links) \in Nat
    BY MaxOrderIsLength DEF IInv, TypeOK
  <2>3. c.holds = req[r].holds \union {CaseRow} /\ c.closing = req[r].closing
    BY <1>1, <2>1 DEF Calls
  <2>4. c \in Calls
    <3>1. MaxOrder + 1 \in Nat /\ "insert" \in Steps
      BY <2>2 DEF Steps
    <3>2. req[r].holds \union {CaseRow} \in SUBSET (Nat \union Tasks \union Assignments \union {CaseRow})
      BY <1>1 DEF Calls
    <3> QED BY <1>1, <2>1, <3>1, <3>2 DEF Calls
  <2>5. FileCall(c)
    BY <1>1, <1>4, <2>1, <2>2 DEF LockCase, Calls, FileCall
  <2>6. Holding(c)
    BY <1>1, <1>4, <2>1, <2>3 DEF LockCase, Calls, TaskCall, Holding
  <2>7. Placed(c) /\ Counted(c)
    BY <1>1, <1>4, <2>1 DEF LockCase, Calls, TaskCall, Holding, Placed, Counted
  <2>8. \A row \in c.holds : row \in req[r].holds \/ Unlocked(row, r)
    BY <1>4, <2>3 DEF LockCase, ForUpdate
  <2>9. req' = [req EXCEPT ![r] = c]
    BY <1>4, <2>1 DEF LockCase
  <2> QED BY <1>4, <2>4, <2>5, <2>6, <2>7, <2>8, <2>9, CallGoes DEF LockCase, TaskCall
<1> QED BY <1>2, <1>3, <1>4

Entries == [doc : Docs, order : Nat \ {0}, active : BOOLEAN]
Struck(i, row) == [links[i] EXCEPT !.active = @ /\ i # row]

\* What a link leaves: the entries that were there, one of them struck out if
\* it amends it, and one more, under the next number.
LEMMA FileGrows ==
  ASSUME IInv, NEW r \in Requests, CommitLink(r)
  PROVE  /\ links' \in Seq(Entries)
         /\ Len(links) \in Nat /\ Len(links') = Len(links) + 1
         /\ \A i \in 1 .. Len(links) : links'[i] = Struck(i, req[r].row)
         /\ links'[Len(links) + 1] = Entry(req[r].doc, Len(links) + 1)
         /\ req[r].doc \in Docs /\ CaseRow \in req[r].holds
<1>1. links \in Seq(Entries) /\ Len(links) \in Nat /\ DOMAIN links = 1 .. Len(links)
  BY DEF IInv, TypeOK, Entries
<1>2. /\ req[r].at = "insert" /\ req[r].doc \in Docs
      /\ req[r].order = Len(links) + 1 /\ CaseRow \in req[r].holds
  BY CallKnown DEF CommitLink, FileCall
<1>3. PICK kept : kept = [i \in 1 .. Len(links) |-> Struck(i, req[r].row)]
  OBVIOUS
<1>4. links' = Append(kept, Entry(req[r].doc, Len(links) + 1))
  BY <1>1, <1>2, <1>3 DEF CommitLink, Struck
<1>5. \A i \in 1 .. Len(links) : Struck(i, req[r].row) \in Entries
  <2> TAKE i \in 1 .. Len(links)
  <2>1. links[i] \in Entries
    BY <1>1
  <2>2. (links[i].active /\ i # req[r].row) \in BOOLEAN
    OBVIOUS
  <2> QED BY <2>1, <2>2 DEF Struck, Entries
<1>6. kept \in Seq(Entries) /\ Len(kept) = Len(links)
  BY <1>1, <1>3, <1>5
<1>7. Entry(req[r].doc, Len(links) + 1) \in Entries
  BY <1>1, <1>2 DEF Entry, Entries
<1> QED BY <1>1, <1>2, <1>3, <1>4, <1>6, <1>7

\* A step that moves one call and changes the file: what it must keep.
LEMMA FileMoves ==
  ASSUME IInv, NEW r \in Requests, NEW c \in Calls, req' = [req EXCEPT ![r] = c],
         links' \in Seq(Entries),
         proposal' \in [Proposals -> [doc : Docs \union {NoDoc}, auto : BOOLEAN,
                                      st : {"none", "active", "inactive"}]],
         official' \subseteq Docs, accepted' \subseteq Proposals,
         FileState', FileCall(c)', TaskCall(c),
         \A row \in c.holds : row \in req[r].holds,
         \A q \in Requests \ {r} : \A d \in Calls :
           d = req[q] /\ FileCall(d) => FileCall(d)',
         UNCHANGED taskVars, NoFault
  PROVE  IInv'
<1> USE DEF taskVars
<1>1. req \in [Requests -> Calls]
  BY DEF IInv, TypeOK
<1>2. req' \in [Requests -> Calls] /\ req'[r] = c
      /\ \A q \in Requests \ {r} : req'[q] = req[q]
  BY <1>1, OneMoves
<1>3. TypeOK'
  BY <1>2 DEF IInv, TypeOK, NoFault, Entries
<1>4. Exclusive'
  <2>1. \A q \in Requests \ {r} : c.holds \intersect req[q].holds = {}
    BY DEF IInv, Exclusive
  <2> QED BY <1>1, <2>1, ExclusiveMoves DEF IInv
<1>5. TaskState'
  BY DEF IInv, TaskState, AssignmentsMatchTasks, OpenIn
<1>6. ASSUME NEW q \in Requests PROVE FileCall(req[q])'
  <2>1. CASE q = r
    BY <1>2, <2>1 DEF FileCall, InFile
  <2>2. CASE q # r
    <3>1. PICK d \in Calls : d = req[q] /\ d = req'[q] /\ FileCall(d)
      BY <1>2, <2>2 DEF IInv
    <3>2. FileCall(d)'
      BY <2>2, <3>1
    <3> QED BY <3>1, <3>2 DEF FileCall, InFile
  <2> QED BY <2>1, <2>2
<1>7. ASSUME NEW q \in Requests PROVE TaskCall(req[q])'
  <2>1. PICK d \in Calls : d = req'[q] /\ TaskCall(d)
    BY <1>2 DEF IInv
  <2> QED
    BY <2>1 DEF TaskCall, Holding, Placed, Counted, OpenIn, Others
<1> QED BY <1>3, <1>4, <1>5, <1>6, <1>7 DEF IInv

\* What is in the file stays in it, in its place.
LEMMA FileKept ==
  ASSUME IInv, NEW r \in Requests, CommitLink(r)
  PROVE  /\ \A d : InFile(d) => InFile(d)'
         /\ \A d : d = req[r].doc => InFile(d)'
         /\ \A i \in DOMAIN links' : links'[i].order = i
<1>1. /\ DOMAIN links = 1 .. Len(links)
      /\ \A i \in 1 .. Len(links) : links[i] \in Entries /\ links[i].order = i
  <2>1. links \in Seq(Entries) /\ \A i \in DOMAIN links : links[i].order = i
    BY DEF IInv, TypeOK, Entries, FileState
  <2>2. DOMAIN links = 1 .. Len(links) /\ \A i \in 1 .. Len(links) : links[i] \in Entries
    BY <2>1
  <2> QED BY <2>1, <2>2
<1>2. DOMAIN links' = 1 .. (Len(links) + 1)
  BY FileGrows
<1>3. \A i \in 1 .. Len(links) : links'[i].doc = links[i].doc /\ links'[i].order = i
  <2> TAKE i \in 1 .. Len(links)
  <2>1. links'[i] = Struck(i, req[r].row)
    BY FileGrows
  <2> QED BY <1>1, <2>1 DEF Struck, Entries
<1>4. links'[Len(links) + 1].doc = req[r].doc /\ links'[Len(links) + 1].order = Len(links) + 1
  <2>1. links'[Len(links) + 1] = Entry(req[r].doc, Len(links) + 1)
    BY FileGrows
  <2> QED BY <2>1 DEF Entry
<1>5. Len(links) \in Nat
  BY FileGrows
<1>6. \A d : InFile(d) => InFile(d)'
  BY <1>1, <1>2, <1>3, <1>5 DEF InFile
<1>7. \A d : d = req[r].doc => InFile(d)'
  <2>1. Len(links) + 1 \in DOMAIN links'
    BY <1>2, <1>5
  <2> QED BY <1>4, <2>1 DEF InFile
<1>8. \A i \in DOMAIN links' : links'[i].order = i
  BY <1>2, <1>3, <1>4, <1>5
<1> QED BY <1>6, <1>7, <1>8

\* The commit of a link: the order number of whoever else has read one would be
\* wrong now, but nobody else has the case.
LEMMA CommitLinkStep ==
  ASSUME IInv, NEW r \in Requests, CommitLink(r), UNCHANGED taskVars
  PROVE  IInv'
<1> USE CaseAssumption
<1>1. req[r] \in Calls /\ FileCall(req[r]) /\ TaskCall(req[r]) /\ req[r].at = "insert"
  BY CallKnown DEF CommitLink
<1>2. PICK c : c = IF req[r].prop = NoProposal THEN Ended
                   ELSE [req[r] EXCEPT !.at = "deactivate", !.holds = {}]
  OBVIOUS
<1>3. req' = [req EXCEPT ![r] = c]
  BY <1>2 DEF CommitLink, End
<1>4. c \in Calls /\ c.holds = {}
  <2>1. Ended \in Calls /\ Ended.holds = {}
    BY MadeTyped DEF Ended, Made, Steps
  <2> QED BY <1>1, <1>2, <2>1 DEF Calls, Steps
<1>5. FileState'
  <2>1. Len(links') > 0
    BY FileGrows
  <2>2. \A p \in accepted : proposal[p].st = "inactive" /\ InFile(proposal[p].doc)'
    <3>1. \A p \in accepted : proposal[p].st = "inactive" /\ InFile(proposal[p].doc)
      BY DEF IInv, FileState
    <3>2. TAKE p \in accepted
    <3>3. PICK d : d = proposal[p].doc /\ d = proposal'[p].doc
      BY DEF CommitLink
    <3>4. InFile(d)'
      BY <3>1, <3>3, FileKept
    <3> QED BY <3>1, <3>3, <3>4 DEF InFile
  <2> QED BY <2>1, <2>2, FileKept DEF FileState, CommitLink, InFile
<1>6. FileCall(c)'
  <2>1. CASE req[r].prop = NoProposal
    <3>1. c = Ended /\ c.prop = NoProposal /\ c.at = "done"
      BY <1>2, <2>1 DEF Ended, Made
    <3> QED BY <3>1 DEF FileCall
  <2>2. CASE req[r].prop # NoProposal
    <3>1. req[r].prop \in Proposals
      BY <1>1, <2>2 DEF Calls
    <3>2. proposal[req[r].prop].st # "none" /\ proposal[req[r].prop].doc = req[r].doc
      BY <1>1, <3>1 DEF FileCall
    <3>3. c.at = "deactivate" /\ c.prop = req[r].prop
      BY <1>1, <1>2, <2>2 DEF Calls
    <3>5. proposal' = proposal
      BY DEF CommitLink
    <3>6. PICK d : d = req[r].doc /\ InFile(d)'
      BY FileKept
    <3> QED BY <3>1, <3>2, <3>3, <3>5, <3>6 DEF FileCall, InFile
  <2> QED BY <2>1, <2>2
<1>7. TaskCall(c)
  <2>1. TaskCall(Ended)
    BY MadeRelies DEF Ended
  <2>2. CASE req[r].prop # NoProposal
    BY <1>1, <1>2, <2>2 DEF Calls, TaskCall, Holding, Placed, Counted
  <2> QED BY <1>2, <2>1, <2>2
<1>8. \A q \in Requests \ {r} : \A d \in Calls : d = req[q] /\ FileCall(d) => FileCall(d)'
  <2> SUFFICES ASSUME NEW q \in Requests \ {r}, NEW d \in Calls, d = req[q], FileCall(d)
               PROVE  FileCall(d)'
    OBVIOUS
  <2>1. d.at # "insert"
    <3>1. CaseRow \in req[r].holds /\ req[r].holds \intersect req[q].holds = {}
      BY FileGrows DEF IInv, Exclusive
    <3> QED BY <3>1 DEF FileCall
  <2>2. 0 .. Len(links) \subseteq 0 .. Len(links')
    BY FileGrows
  <2>3. InFile(proposal[d.prop].doc) => InFile(proposal[d.prop].doc)'
    <3>1. \A x : InFile(x) => InFile(x)'
      BY FileKept
    <3>2. PICK x : x = proposal[d.prop].doc /\ x = proposal'[d.prop].doc
      BY DEF CommitLink
    <3>3. InFile(x) => InFile(x)'
      BY <3>1
    <3> QED BY <3>2, <3>3 DEF InFile
  <2> QED BY <2>1, <2>2, <2>3 DEF FileCall, CommitLink
<1>9. /\ links' \in Seq(Entries) /\ official' \subseteq Docs /\ accepted' \subseteq Proposals
      /\ proposal' \in [Proposals -> [doc : Docs \union {NoDoc}, auto : BOOLEAN,
                                       st : {"none", "active", "inactive"}]]
  BY FileGrows DEF IInv, TypeOK, CommitLink
<1> QED BY <1>3, <1>4, <1>5, <1>6, <1>7, <1>8, <1>9, FileMoves DEF CommitLink

\* A step that changes one proposal, and the call that does ends: p was not
\* followed by anybody, or keeps its document.
LEMMA ProposalMoves ==
  ASSUME IInv, NEW r \in Requests, NEW p \in Proposals,
         NEW row \in [doc : Docs \union {NoDoc}, auto : BOOLEAN, st : {"active", "inactive"}],
         proposal' = [proposal EXCEPT ![p] = row], End(r),
         \/ proposal[p].st = "none"
         \/ row.doc = proposal[p].doc /\ row.st = "inactive",
         \/ accepted' = accepted
         \/ accepted' = accepted \union {p} /\ row.st = "inactive" /\ InFile(row.doc),
         UNCHANGED <<links, official, taskVars>>, NoFault
  PROVE  IInv'
<1>1. /\ proposal \in [Proposals -> [doc : Docs \union {NoDoc}, auto : BOOLEAN,
                                     st : {"none", "active", "inactive"}]]
      /\ accepted \subseteq Proposals /\ links \in Seq(Entries) /\ official \subseteq Docs
  BY DEF IInv, TypeOK, Entries
<1>2. /\ proposal' \in [Proposals -> [doc : Docs \union {NoDoc}, auto : BOOLEAN,
                                      st : {"none", "active", "inactive"}]]
      /\ accepted' \subseteq Proposals
  BY <1>1
<1>3. /\ proposal'[p] = row
      /\ \A x \in Proposals \ {p} : proposal'[x] = proposal[x]
  BY <1>1
<1>4. FileState'
  <2>1. \A x \in accepted' : proposal'[x].st = "inactive" /\ InFile(proposal'[x].doc)
    BY <1>1, <1>3 DEF IInv, FileState
  <2> QED BY <2>1 DEF IInv, FileState, InFile
<1>5. \A q \in Requests \ {r} : \A d \in Calls : d = req[q] /\ FileCall(d) => FileCall(d)'
  <2> SUFFICES ASSUME NEW d \in Calls, FileCall(d) PROVE FileCall(d)'
    OBVIOUS
  <2>1. d.prop \in Proposals => /\ proposal'[d.prop].st # "none"
                                /\ proposal'[d.prop].doc = proposal[d.prop].doc
    BY <1>1, <1>3 DEF FileCall
  <2> QED BY <2>1 DEF FileCall, InFile
<1>6. Ended \in Calls /\ Ended.holds = {}
  BY MadeTyped DEF Ended, Made, Steps
<1>7. TaskCall(Ended)
  BY MadeRelies DEF Ended
<1>8. FileCall(Ended)'
  BY CaseAssumption DEF Ended, Made, FileCall
<1>9. PICK c : c = Ended
  OBVIOUS
<1> QED BY <1>1, <1>2, <1>4, <1>5, <1>6, <1>7, <1>8, FileMoves DEF End

\* The steps that change proposals.
LEMMA ProposalsStep ==
  ASSUME IInv, NEW r \in Requests, NEW p \in Proposals, NEW d \in Docs,
         UNCHANGED taskVars, Propose(r, p, d) \/ Deactivate(r) \/ Reject(r)
  PROVE  IInv'
<1>1. /\ proposal \in [Proposals -> [doc : Docs \union {NoDoc}, auto : BOOLEAN,
                                     st : {"none", "active", "inactive"}]]
  BY DEF IInv, TypeOK
<1>2. CASE Propose(r, p, d)
  <2>1. PICK auto \in BOOLEAN :
          proposal' = [proposal EXCEPT ![p] = [doc |-> d, st |-> "active", auto |-> auto]]
    BY <1>2 DEF Propose
  <2>2. PICK row : row = [doc |-> d, st |-> "active", auto |-> auto]
    OBVIOUS
  <2>3. row \in [doc : Docs \union {NoDoc}, auto : BOOLEAN, st : {"active", "inactive"}]
    BY <2>2
  <2> QED BY <1>2, <2>1, <2>2, <2>3, ProposalMoves DEF Propose
<1>3. CASE Deactivate(r) \/ Reject(r)
  <2>1. PICK x \in Proposals : x = req[r].prop /\ proposal[x].st # "none"
                              /\ (Deactivate(r) => InFile(proposal[x].doc))
    BY <1>3, CallKnown DEF FileCall, Deactivate, Reject
  <2>2. PICK row : row = [proposal[x] EXCEPT !.st = "inactive"]
    OBVIOUS
  <2>3. /\ row \in [doc : Docs \union {NoDoc}, auto : BOOLEAN, st : {"active", "inactive"}]
        /\ row.st = "inactive" /\ row.doc = proposal[x].doc
    BY <1>1, <2>2
  <2>4. proposal' = [proposal EXCEPT ![x] = row]
    BY <1>1, <1>3, <2>1, <2>2 DEF Deactivate, Reject
  <2> QED BY <1>3, <2>1, <2>3, <2>4, ProposalMoves DEF Deactivate, Reject
<1> QED BY <1>2, <1>3

\* A draft is numbered.
LEMMA OfficialStep ==
  ASSUME IInv, NEW d \in Docs, BecomesOfficial(d), UNCHANGED taskVars
  PROVE  IInv'
<1> USE DEF BecomesOfficial, NoFault, taskVars
<1>1. TypeOK'
  BY DEF IInv, TypeOK
<1>2. Exclusive' /\ FileState' /\ TaskState'
  BY DEF IInv, Exclusive, FileState, InFile, TaskState, AssignmentsMatchTasks, OpenIn
<1>3. ASSUME NEW q \in Requests PROVE FileCall(req[q])' /\ TaskCall(req[q])'
  BY CallKnown DEF FileCall, InFile, TaskCall, Holding, Placed, Counted, OpenIn, Others
<1> QED BY <1>1, <1>2, <1>3 DEF IInv

\* The record of a movement is numbered, and goes the way of a link.
LEMMA EmitPVStep ==
  ASSUME IInv, NEW r \in Requests, NEW d \in Docs, EmitPV(r, d)
  PROVE  IInv'
<1> USE CaseAssumption
<1>1. PICK c : c = [Made("check", "emit") EXCEPT !.doc = d]
  OBVIOUS
<1>2. c \in Calls /\ c.holds = {}
  BY <1>1 DEF Made, Calls, Steps, Services
<1>3. FileCall(c)' /\ TaskCall(c)
  BY <1>1 DEF Made, FileCall, TaskCall, Holding, Placed, Counted, IInv, TypeOK, EmitPV
<1>4. FileState'
  BY DEF IInv, FileState, InFile, EmitPV
<1>5. \A x \in Calls : FileCall(x) => FileCall(x)'
  BY DEF FileCall, InFile, EmitPV
<1>6. /\ links' \in Seq(Entries) /\ official' \subseteq Docs /\ accepted' \subseteq Proposals
      /\ proposal' \in [Proposals -> [doc : Docs \union {NoDoc}, auto : BOOLEAN,
                                       st : {"none", "active", "inactive"}]]
  BY DEF IInv, TypeOK, Entries, EmitPV
<1> QED BY <1>1, <1>2, <1>3, <1>4, <1>5, <1>6, FileMoves DEF EmitPV

-----------------------------------------------------------------------------
(* The steps of the tasks *)

\* Only the calls of the file have documents and proposals.
LEMMA NoFileCall ==
  ASSUME NEW c, c.prop = NoProposal,
         c.at \notin {"check", "amend", "lock", "insert", "deactivate", "reject"}
  PROVE  FileCall(c)
BY CaseAssumption DEF FileCall

\* What a service of the tasks has read when its transaction begins.
LEMMA StartsTaskStep ==
  ASSUME IInv, NEW r \in Requests, NEW s \in Sectors, NEW t \in Tasks, NEW a \in Assignments,
         UNCHANGED fileVars,
         \/ StartAssign(r, s) \/ StartCloseTask(r, t) \/ StartReassign(r, t)
         \/ StartCloseAssignment(r, a)
  PROVE  IInv'
<1> USE CaseAssumption
<1>1. /\ task[t] \in Task
      /\ task[t].st # "none" => /\ task[t].asg \in Assignments
                                /\ assignment[task[t].asg].st # "none"
  BY DEF IInv, TypeOK, TaskState
<1>2. CASE StartAssign(r, s)
  <2>1. PICK b \in IF ActiveOf(s) = {} THEN {NoAssignment} ELSE ActiveOf(s) :
          Begin(r, [Made("assign", "assign") EXCEPT !.asg = b, !.sector = s])
    BY <1>2 DEF StartAssign
  <2>2. PICK c : c = [Made("assign", "assign") EXCEPT !.asg = b, !.sector = s]
    OBVIOUS
  <2>3. b = NoAssignment \/ (b \in Assignments /\ assignment[b].st = "active")
    <3>1. CASE ActiveOf(s) = {}
      BY <2>1, <3>1
    <3>2. CASE ActiveOf(s) # {}
      <4>1. b \in ActiveOf(s)
        BY <2>1, <3>2
      <4> QED BY <4>1 DEF ActiveOf
    <3> QED BY <3>1, <3>2
  <2>4. c \in Calls /\ c.holds = {}
    BY <2>2, <2>3 DEF Made, Calls, Steps, Services
  <2>5. FileCall(c)
    BY <2>2, NoFileCall DEF Made
  <2>6. TaskCall(c)
    BY <2>2, <2>3 DEF Made, TaskCall, Holding, Placed, Counted
  <2> QED BY <1>2, <2>1, <2>2, <2>4, <2>5, <2>6, BeginMoves DEF StartAssign
<1>3. CASE StartCloseTask(r, t)
  <2>1. PICK last \in BOOLEAN : last = (Others(t) = {})
    OBVIOUS
  <2>2. PICK c : c = [Made("close", "closetask") EXCEPT !.task = t, !.asg = task[t].asg,
                                                        !.last = last]
    OBVIOUS
  <2>3. c \in Calls /\ c.holds = {}
    BY <1>1, <2>2 DEF Made, Calls, Steps, Services, Task
  <2>4. FileCall(c)
    BY <2>2, NoFileCall DEF Made
  <2>5. Holding(c) /\ Placed(c)
    BY <1>1, <1>3, <2>2 DEF Made, Holding, Placed, StartCloseTask
  <2>6. Counted(c)
    BY <1>1, <1>3, <2>1, <2>2 DEF Made, Counted, StartCloseTask, Others
  <2>7. Begin(r, c)
    BY <1>3, <2>1, <2>2 DEF StartCloseTask
  <2> QED BY <1>3, <2>3, <2>4, <2>5, <2>6, <2>7, BeginMoves DEF StartCloseTask, TaskCall
<1>4. CASE StartReassign(r, t)
  <2>1. PICK c : c = [Made("reassign", "reassign") EXCEPT !.task = t]
    OBVIOUS
  <2>2. c \in Calls /\ c.holds = {}
    BY <2>1 DEF Made, Calls, Steps, Services
  <2>3. FileCall(c)
    BY <2>1, NoFileCall DEF Made
  <2>4. TaskCall(c)
    BY <1>4, <2>1 DEF Made, TaskCall, Holding, Placed, Counted, StartReassign
  <2> QED BY <1>4, <2>1, <2>2, <2>3, <2>4, BeginMoves DEF StartReassign
<1>5. CASE StartCloseAssignment(r, a)
  <2>1. PICK c : c = [Made("movement", "closeassign") EXCEPT !.asg = a]
    OBVIOUS
  <2>2. c \in Calls /\ c.holds = {}
    BY <2>1 DEF Made, Calls, Steps, Services
  <2>3. FileCall(c)
    BY <2>1, NoFileCall DEF Made
  <2>4. TaskCall(c)
    BY <1>5, <2>1 DEF Made, TaskCall, Holding, Placed, Counted, StartCloseAssignment
  <2> QED BY <1>5, <2>1, <2>2, <2>3, <2>4, BeginMoves DEF StartCloseAssignment
<1> QED BY <1>2, <1>3, <1>4, <1>5

\* Whoever closes an assignment locks it and then its open tasks, or has locked
\* its last task before.
LEMMA MovementsAndTasks ==
  ASSUME IInv, NEW r \in Requests, UNCHANGED fileVars, CloseMovement(r) \/ CloseTasks(r)
  PROVE  IInv'
<1>1. req[r] \in Calls /\ FileCall(req[r]) /\ TaskCall(req[r])
  BY CallKnown
<1>2. CASE CloseMovement(r)
  <2>1. PICK c : c = [req[r] EXCEPT !.holds = @ \union {req[r].asg},
                        !.at = IF req[r].op = "closeassign" THEN "tasks" ELSE "record"]
    OBVIOUS
  <2>2. /\ c.holds = req[r].holds \union {req[r].asg} /\ c.closing = req[r].closing
        /\ c.prop = req[r].prop /\ c.asg = req[r].asg /\ c.last = req[r].last
        /\ c.task = req[r].task /\ c.op = req[r].op
        /\ c.at = IF req[r].op = "closeassign" THEN "tasks" ELSE "record"
    BY <1>1, <2>1 DEF Calls
  <2>3. req[r].at = "movement" /\ req[r].asg \in Assignments
    BY <1>1, <1>2 DEF CloseMovement, TaskCall, Placed
  <2>4. c \in Calls
    BY <1>1, <2>1, <2>3 DEF Calls, Steps
  <2>5. FileCall(c)
    BY <1>1, <2>2, <2>3 DEF FileCall
  <2>6. Holding(c) /\ Placed(c)
    BY <1>1, <2>2, <2>3 DEF TaskCall, Holding, Placed, Counted
  <2>7. Counted(c)
    BY <1>1, <2>2, <2>3 DEF TaskCall, Holding, Placed, Counted
  <2>8. \A row \in c.holds : row \in req[r].holds \/ Unlocked(row, r)
    BY <1>2, <2>2 DEF CloseMovement
  <2>9. req' = [req EXCEPT ![r] = c]
    BY <1>2, <2>1 DEF CloseMovement
  <2> QED BY <1>2, <2>4, <2>5, <2>6, <2>7, <2>8, <2>9, CallGoes DEF CloseMovement, TaskCall
<1>3. CASE CloseTasks(r)
  <2>1. PICK c : c = [req[r] EXCEPT !.at = "record", !.closing = OpenIn(req[r].asg),
                                    !.holds = @ \union OpenIn(req[r].asg)]
    OBVIOUS
  <2>2. /\ c.holds = req[r].holds \union OpenIn(req[r].asg) /\ c.closing = OpenIn(req[r].asg)
        /\ c.prop = req[r].prop /\ c.asg = req[r].asg /\ c.last = req[r].last
        /\ c.task = req[r].task /\ c.op = req[r].op /\ c.at = "record"
    BY <1>1, <2>1 DEF Calls
  <2>3. req[r].at = "tasks" /\ req[r].asg \in Assignments /\ OpenIn(req[r].asg) \subseteq Tasks
    BY <1>1, <1>3 DEF CloseTasks, TaskCall, Placed, OpenIn
  <2>4. c \in Calls
    BY <1>1, <2>1, <2>3 DEF Calls, Steps
  <2>5. FileCall(c)
    BY <1>1, <2>2, <2>3 DEF FileCall
  <2>6. Holding(c) /\ Placed(c)
    BY <1>1, <2>2, <2>3 DEF TaskCall, Holding, Placed, OpenIn
  <2>7. ~req[r].last
    BY <1>1, <2>3 DEF TaskCall, Counted, Holding
  <2>8. Counted(c)
    BY <1>1, <2>2, <2>3, <2>7 DEF Counted
  <2>9. \A row \in c.holds : row \in req[r].holds \/ Unlocked(row, r)
    BY <1>3, <2>2 DEF CloseTasks
  <2>10. req' = [req EXCEPT ![r] = c]
    BY <1>3, <2>1 DEF CloseTasks
  <2> QED BY <1>3, <2>4, <2>5, <2>6, <2>8, <2>9, <2>10, CallGoes DEF CloseTasks, TaskCall
<1> QED BY <1>2, <1>3

Movements == [Assignments -> [st : {"none", "active", "closed"},
                              sector : Sectors \union {NoSector}]]

\* A step that changes tasks, and after which its call has nothing.
LEMMA TaskMoves ==
  ASSUME IInv, NEW r \in Requests, NEW at \in {"done", "emit"}, NEW op \in {"none", "emit"},
         req' = [req EXCEPT ![r] = Made(at, op)],
         task' \in [Tasks -> Task], assignment' \in Movements,
         late' \subseteq Tasks, met' \subseteq Assignments, TaskState',
         \A q \in Requests \ {r} : \A d \in Calls :
           d = req[q] /\ TaskCall(d) => TaskCall(d)',
         UNCHANGED fileVars, NoFault
  PROVE  IInv'
<1> USE DEF fileVars
<1>1. req \in [Requests -> Calls]
  BY DEF IInv, TypeOK
<1>2. PICK c \in Calls : c = Made(at, op)
  BY MadeTyped DEF Steps, Services
<1>3. /\ req' \in [Requests -> Calls] /\ req'[r] = c
      /\ \A q \in Requests \ {r} : req'[q] = req[q]
  BY <1>1, <1>2, OneMoves
<1>4. TypeOK'
  BY <1>3 DEF IInv, TypeOK, NoFault, Movements
<1>5. Exclusive'
  <2>1. c.holds = {}
    BY <1>2 DEF Made
  <2>2. req' = [req EXCEPT ![r] = c] /\ Exclusive
    BY <1>2 DEF IInv
  <2>3. \A q \in Requests \ {r} : c.holds \intersect req[q].holds = {}
    BY <2>1
  <2> QED BY <1>1, <2>2, <2>3, ExclusiveMoves
<1>6. FileState'
  BY DEF IInv, FileState, InFile
<1>7. FileCall(c)' /\ TaskCall(c)'
  <2>1. c.prop \notin Proposals /\ c.asg \notin Assignments
    BY <1>2, CaseAssumption DEF Made
  <2> QED BY <1>2, <2>1 DEF Made, FileCall, TaskCall, Holding, Placed, Counted
<1>8. ASSUME NEW q \in Requests PROVE FileCall(req[q])'
  <2>1. PICK d \in Calls : d = req'[q] /\ (FileCall(d) \/ d = c)
    BY <1>3 DEF IInv
  <2>2. FileCall(d)'
    BY <1>7, <2>1 DEF FileCall, InFile
  <2> QED BY <2>1, <2>2 DEF FileCall, InFile
<1>9. ASSUME NEW q \in Requests PROVE TaskCall(req[q])'
  <2>1. PICK d \in Calls : d = req'[q] /\ TaskCall(d)'
    <3>1. CASE q = r
      BY <1>3, <1>7, <3>1
    <3>2. CASE q # r
      <4>1. PICK d \in Calls : d = req[q] /\ d = req'[q] /\ TaskCall(d)
        BY <1>3, <3>2 DEF IInv
      <4> QED BY <3>2, <4>1
    <3> QED BY <3>1, <3>2
  <2> QED
    BY <2>1 DEF TaskCall, Holding, Placed, Counted, OpenIn, Others
<1> QED BY <1>4, <1>5, <1>6, <1>8, <1>9 DEF IInv

\* The tasks of C, all of assignment a, are closed by r, which has them; a is
\* closed with them, or nobody else counts on its having one more, or is met.
Settles(r, C, a) ==
  /\ \A x \in Tasks : /\ task'[x].asg = task[x].asg
                      /\ task'[x].st = IF x \in C THEN "closed" ELSE task[x].st
  /\ \A x \in C : /\ task[x].st = "open" /\ task[x].asg = a
                  /\ \A q \in Requests \ {r} : x \notin req[q].holds
  /\ assignment[a].st # "none"
  /\ \A b \in Assignments \ {a} : assignment'[b] = assignment[b]
  /\ assignment'[a] = assignment[a] \/ assignment'[a].st = "closed"
  /\ met \subseteq met' /\ late' = late
  /\ \/ C = {} \/ a \in met' \/ assignment'[a].st = "closed"
     \/ \A q \in Requests \ {r} : ~(req[q].at = "close" /\ req[q].asg = a)

\* The tasks that are closed are no longer open, and no other was opened.
LEMMA ClosedNotOpen ==
  ASSUME NEW r, NEW C \in SUBSET Tasks, NEW a, Settles(r, C, a)
  PROVE  \A b : OpenIn(b)' = OpenIn(b) \ C
BY DEF Settles, OpenIn

\* What the other calls rely on is still so: the tasks they have closed are
\* locked, and what they counted can only have shrunk.
LEMMA OthersSettle ==
  ASSUME IInv, NEW r \in Requests, NEW C \in SUBSET Tasks, NEW a \in Assignments,
         Settles(r, C, a),
         NEW q \in Requests \ {r}, NEW d \in Calls, d = req[q], TaskCall(d)
  PROVE  TaskCall(d)'
<1>1. \A b : OpenIn(b)' = OpenIn(b) \ C
  BY ClosedNotOpen
<1>2. \A x \in d.closing : x \notin C /\ x \in Tasks
  BY DEF Settles, TaskCall, Holding, Calls
<1>3. Holding(d)'
  BY <1>2 DEF Settles, TaskCall, Holding
<1>4. Placed(d)'
  BY DEF Settles, TaskCall, Placed
<1>5. Counted(d)'
  <2>1. d.last => OpenIn(d.asg)' \subseteq {d.task} \union late'
    BY <1>1 DEF Settles, TaskCall, Counted
  <2>2. d.at = "record" => OpenIn(d.asg)' \subseteq d.closing \union late'
    BY <1>1 DEF Settles, TaskCall, Counted
  <2>3. ASSUME d.at = "close", ~d.last, assignment'[d.asg].st = "active", d.asg \notin met'
        PROVE  Others(d.task)' # {}
    <3>1. d.task \in Tasks /\ d.asg = task[d.task].asg /\ d.asg = task'[d.task].asg
          /\ d.asg \in Assignments
      BY <2>3 DEF Settles, TaskCall, Placed, IInv, TaskState
    <3>2. assignment[d.asg].st = "active" /\ d.asg \notin met
      BY <2>3, <3>1 DEF Settles
    <3>3. OpenIn(d.asg) \ {d.task} # {}
      BY <2>3, <3>1, <3>2 DEF TaskCall, Counted, Others
    <3>4. C \intersect OpenIn(d.asg) = {}
      BY <2>3 DEF Settles, OpenIn
    <3>5. OpenIn(d.asg)' = OpenIn(d.asg)
      BY <1>1, <3>4
    <3>6. Others(d.task)' = OpenIn(d.asg)' \ {d.task}
      BY <3>1 DEF Others, OpenIn
    <3> QED BY <3>3, <3>5, <3>6
  <2> QED BY <2>1, <2>2, <2>3 DEF TaskCall, Counted
<1> QED BY <1>3, <1>4, <1>5 DEF TaskCall

\* Assignments and tasks still agree after tasks of a were closed.
LEMMA StateSettles ==
  ASSUME IInv, NEW r \in Requests, NEW C \in SUBSET Tasks, NEW a \in Assignments,
         Settles(r, C, a),
         assignment'[a].st = "closed" => OpenIn(a) \subseteq C \union late,
         assignment'[a].st = "active" /\ a \notin met' => OpenIn(a) \ C # {}
  PROVE  TaskState'
<1>1. \A b : OpenIn(b)' = OpenIn(b) \ C
  BY ClosedNotOpen
<1>2. ASSUME NEW t \in Tasks, task'[t].st # "none"
      PROVE  task'[t].asg \in Assignments /\ assignment'[task'[t].asg].st # "none"
  BY <1>2 DEF Settles, IInv, TaskState
<1>3. ASSUME NEW b \in Assignments
      PROVE  /\ assignment'[b].st = "closed" => OpenIn(b)' \subseteq late'
             /\ assignment'[b].st = "active" /\ b \notin met' => OpenIn(b)' # {}
  <2>1. CASE b = a
    BY <1>1, <2>1 DEF Settles
  <2>2. CASE b # a
    <3>1. C \intersect OpenIn(b) = {} /\ assignment'[b] = assignment[b]
      BY <2>2 DEF Settles, OpenIn
    <3>2. OpenIn(b)' = OpenIn(b)
      BY <1>1, <3>1
    <3> QED BY <3>1, <3>2 DEF Settles, IInv, TaskState, AssignmentsMatchTasks
  <2> QED BY <2>1, <2>2
<1> QED BY <1>2, <1>3 DEF TaskState, AssignmentsMatchTasks

\* What the state of tasks and assignments is.
LEMMA TasksTyped ==
  ASSUME IInv
  PROVE  /\ task \in [Tasks -> Task] /\ assignment \in Movements
         /\ late \subseteq Tasks /\ met \subseteq Assignments
BY DEF IInv, TypeOK, Movements

\* A task is closed at once, or with its assignment if it was the last; or it was
\* closed already.
LEMMA CloseTaskStep ==
  ASSUME IInv, NEW r \in Requests, CloseTask(r), UNCHANGED fileVars
  PROVE  IInv'
<1>1. req[r] \in Calls /\ FileCall(req[r]) /\ TaskCall(req[r]) /\ req[r].at = "close"
  BY CallKnown DEF CloseTask
<1>2. PICK t \in Tasks : t = req[r].task
  BY <1>1 DEF TaskCall, Placed
<1>3. PICK a \in Assignments : a = req[r].asg /\ a = task[t].asg /\ assignment[a].st # "none"
  BY <1>1, <1>2 DEF TaskCall, Placed, IInv, TaskState
<1>4. CASE ~StillOpen(t)
  BY <1>2, <1>4, EndMoves DEF CloseTask, taskVars, IInv, TypeOK, NoFault
<1>5. CASE StillOpen(t) /\ req[r].last
  <2>1. PICK c : c = [req[r] EXCEPT !.at = "movement", !.holds = {t}, !.closing = {t}]
    OBVIOUS
  <2>2. /\ c.at = "movement" /\ c.holds = {t} /\ c.closing = {t} /\ c.prop = req[r].prop
        /\ c.asg = a /\ c.task = t /\ c.last /\ c.op = req[r].op
    BY <1>1, <1>2, <1>3, <1>5, <2>1 DEF Calls
  <2>3. c \in Calls
    BY <1>1, <2>1 DEF Calls, Steps
  <2>4. FileCall(c)
    BY <1>1, <2>2 DEF FileCall
  <2>5. Holding(c) /\ Placed(c)
    BY <1>3, <1>5, <2>2 DEF Holding, Placed, StillOpen
  <2>6. Counted(c)
    BY <1>1, <1>2, <1>3, <1>5, <2>2 DEF TaskCall, Counted
  <2>7. req' = [req EXCEPT ![r] = c] /\ UNCHANGED taskVars /\ NoFault
    BY <1>2, <1>5, <2>1 DEF CloseTask, taskVars
  <2>8. Unlocked(t, r)
    BY <1>2 DEF CloseTask
  <2> QED BY <2>2, <2>3, <2>4, <2>5, <2>6, <2>7, <2>8, CallGoes DEF TaskCall
<1>6. CASE StillOpen(t) /\ ~req[r].last
  <2>1. /\ task' = [task EXCEPT ![t].st = "closed", ![t].by = r]
        /\ met' = IF Meets(r, a) THEN met \union {a} ELSE met
        /\ req' = [req EXCEPT ![r] = Made("done", "none")]
        /\ UNCHANGED <<assignment, late>> /\ NoFault /\ Unlocked(t, r)
    BY <1>2, <1>3, <1>6 DEF CloseTask, End, Ended
  <2>2. task \in [Tasks -> Task] /\ assignment \in Movements
    BY TasksTyped
  <2>3. task' \in [Tasks -> Task]
    <3>1. [task[t] EXCEPT !.st = "closed", !.by = r] \in Task
      BY <2>2 DEF Task, People
    <3> QED BY <2>1, <2>2, <3>1
  <2>4. Settles(r, {t}, a)
    <3>1. \A x \in Tasks : /\ task'[x].asg = task[x].asg
                           /\ task'[x].st = IF x \in {t} THEN "closed" ELSE task[x].st
      BY <2>1, <2>2 DEF Task
    <3>2. task[t].st = "open" /\ \A q \in Requests \ {r} : t \notin req[q].holds
      BY <1>6, <2>1 DEF StillOpen, Unlocked
    <3>3. a \in met' \/ \A q \in Requests \ {r} : ~(req[q].at = "close" /\ req[q].asg = a)
      BY <2>1 DEF Meets
    <3> QED BY <1>3, <2>1, <3>1, <3>2, <3>3 DEF Settles
  <2>5. assignment[a].st = "active" /\ a \notin met' => OpenIn(a) \ {t} # {}
    BY <1>1, <1>2, <1>3, <1>6, <2>1 DEF TaskCall, Counted, Others
  <2>6. assignment[a].st = "closed" => OpenIn(a) \subseteq {t} \union late
    BY <1>3 DEF IInv, TaskState, AssignmentsMatchTasks
  <2>7. TaskState'
    BY <2>1, <2>4, <2>5, <2>6, StateSettles
  <2>8. \A q \in Requests \ {r} : \A d \in Calls : d = req[q] /\ TaskCall(d) => TaskCall(d)'
    BY <2>4, OthersSettle
  <2>9. assignment' \in Movements /\ late' \subseteq Tasks /\ met' \subseteq Assignments
    BY <2>1, TasksTyped
  <2> QED BY <2>1, <2>3, <2>7, <2>8, <2>9, TaskMoves
<1> QED BY <1>4, <1>5, <1>6

\* An assignment ends, with the tasks that its call has closed.
LEMMA RecordStep ==
  ASSUME IInv, NEW r \in Requests, Record(r), UNCHANGED fileVars
  PROVE  IInv'
<1>1. req[r] \in Calls /\ TaskCall(req[r]) /\ req[r].at = "record"
  BY CallKnown DEF Record
<1>2. PICK a \in Assignments : a = req[r].asg /\ assignment[a].st # "none"
  BY <1>1 DEF TaskCall, Placed
<1>3. PICK C \in SUBSET Tasks : C = req[r].closing
  BY <1>1 DEF Calls
<1>4. /\ task' = [t \in Tasks |-> IF t \in C THEN [task[t] EXCEPT !.st = "closed", !.by = r]
                                 ELSE task[t]]
      /\ assignment' = [assignment EXCEPT ![a].st = "closed"]
      /\ req' = [req EXCEPT ![r] = Made("emit", "emit")]
      /\ UNCHANGED <<late, met>> /\ NoFault
  BY <1>2, <1>3 DEF Record
<1>5. task \in [Tasks -> Task] /\ assignment \in Movements
  BY TasksTyped
<1>6. task' \in [Tasks -> Task]
  <2>1. \A t \in Tasks : [task[t] EXCEPT !.st = "closed", !.by = r] \in Task
    BY <1>5 DEF Task, People
  <2> QED BY <1>4, <1>5, <2>1
<1>7. assignment' \in Movements /\ assignment'[a].st = "closed"
  BY <1>4, <1>5 DEF Movements
<1>8. Settles(r, C, a)
  <2>1. \A x \in Tasks : /\ task'[x].asg = task[x].asg
                         /\ task'[x].st = IF x \in C THEN "closed" ELSE task[x].st
    BY <1>4, <1>5 DEF Task
  <2>2. \A x \in C : task[x].st = "open" /\ task[x].asg = a
    BY <1>1, <1>2, <1>3 DEF TaskCall, Holding
  <2>3. \A x \in C : \A q \in Requests \ {r} : x \notin req[q].holds
    BY <1>1, <1>3 DEF TaskCall, Holding, IInv, Exclusive
  <2>4. \A b \in Assignments \ {a} : assignment'[b] = assignment[b]
    BY <1>4, <1>5 DEF Movements
  <2> QED BY <1>2, <1>4, <1>7, <2>1, <2>2, <2>3, <2>4 DEF Settles
<1>9. OpenIn(a) \subseteq C \union late
  BY <1>1, <1>2, <1>3 DEF TaskCall, Counted
<1>10. TaskState'
  BY <1>7, <1>8, <1>9, StateSettles
<1>11. \A q \in Requests \ {r} : \A d \in Calls : d = req[q] /\ TaskCall(d) => TaskCall(d)'
  BY <1>8, OthersSettle
<1>12. late' \subseteq Tasks /\ met' \subseteq Assignments
  BY <1>4, TasksTyped
<1> QED BY <1>4, <1>6, <1>7, <1>10, <1>11, <1>12, TaskMoves

\* A task is given to somebody: it is open or closed as it was.
LEMMA ReassignStep ==
  ASSUME IInv, NEW r \in Requests, Reassign(r), UNCHANGED fileVars
  PROVE  IInv'
<1>1. req[r] \in Calls /\ TaskCall(req[r]) /\ req[r].at = "reassign"
  BY CallKnown DEF Reassign
<1>2. PICK t \in Tasks : t = req[r].task /\ task[t].st # "none"
  BY <1>1 DEF TaskCall, Placed
<1>3. PICK a \in Assignments : a = task[t].asg /\ assignment[a].st # "none"
  BY <1>2 DEF IInv, TaskState
<1>4. /\ task' = IF StillOpen(t) THEN [task EXCEPT ![t].user = r] ELSE task
      /\ req' = [req EXCEPT ![r] = Made("done", "none")]
      /\ UNCHANGED <<assignment, late, met>> /\ NoFault
  BY <1>2 DEF Reassign, End, Ended
<1>5. task \in [Tasks -> Task]
  BY TasksTyped
<1>6. task' \in [Tasks -> Task]
  <2>1. [task[t] EXCEPT !.user = r] \in Task
    BY <1>5 DEF Task, People
  <2> QED BY <1>4, <1>5, <2>1
<1>7. Settles(r, {}, a)
  <2>1. \A x \in Tasks : task'[x].asg = task[x].asg /\ task'[x].st = task[x].st
    BY <1>4, <1>5 DEF Task
  <2> QED BY <1>3, <1>4, <2>1 DEF Settles
<1>8. TaskState'
  <2>1. assignment[a].st = "closed" => OpenIn(a) \subseteq {} \union late
    BY DEF IInv, TaskState, AssignmentsMatchTasks
  <2>2. assignment[a].st = "active" /\ a \notin met => OpenIn(a) \ {} # {}
    BY DEF IInv, TaskState, AssignmentsMatchTasks
  <2> QED BY <1>4, <1>7, <2>1, <2>2, StateSettles
<1>9. \A q \in Requests \ {r} : \A d \in Calls : d = req[q] /\ TaskCall(d) => TaskCall(d)'
  BY <1>7, OthersSettle
<1>10. assignment' \in Movements /\ late' \subseteq Tasks /\ met' \subseteq Assignments
  BY <1>4, TasksTyped
<1> QED BY <1>4, <1>6, <1>8, <1>9, <1>10, TaskMoves

\* A task is added: an assignment that is being closed has it among the late ones.
LEMMA AssignStep ==
  ASSUME IInv, NEW r \in Requests, NEW a \in Assignments, NEW t \in Tasks,
         Assign(r, a, t), UNCHANGED fileVars
  PROVE  IInv'
<1>1. req[r] \in Calls /\ TaskCall(req[r])
  BY CallKnown
<1>2. /\ task[t].st = "none" /\ task' = [task EXCEPT ![t] = OpenTask(a)]
      /\ late' = IF assignment[a].st = "closed" \/ BeingClosed(a) THEN late \union {t} ELSE late
      /\ req' = [req EXCEPT ![r] = Made("emit", "emit")]
      /\ UNCHANGED met /\ NoFault
  BY DEF Assign
<1>3. \/ /\ assignment[a].st = "none"
         /\ assignment' = [assignment EXCEPT ![a] = [st |-> "active", sector |-> req[r].sector]]
      \/ assignment[a].st # "none" /\ assignment' = assignment
  BY <1>1 DEF Assign, TaskCall, Placed
<1>4. task \in [Tasks -> Task] /\ assignment \in Movements
  BY TasksTyped
<1>5. OpenTask(a) \in Task /\ OpenTask(a).st = "open" /\ OpenTask(a).asg = a
  BY DEF OpenTask, NoTaskYet, Task, People
<1>6. task' \in [Tasks -> Task]
  BY <1>2, <1>4, <1>5
<1>7. /\ assignment' \in Movements /\ assignment'[a].st # "none"
      /\ \A b \in Assignments : assignment[b].st # "none" => assignment'[b] = assignment[b]
  <2>1. CASE assignment[a].st = "none"
    <3>1. [st |-> "active", sector |-> req[r].sector] \in
            [st : {"none", "active", "closed"}, sector : Sectors \union {NoSector}]
      BY <1>1 DEF Calls
    <3> QED BY <1>3, <1>4, <2>1, <3>1 DEF Movements
  <2>2. CASE assignment[a].st # "none"
    BY <1>3, <1>4, <2>2
  <2> QED BY <2>1, <2>2
<1>8. \A x \in Tasks \ {t} : task'[x] = task[x]
  BY <1>2, <1>4
<1>9. task'[t].st = "open" /\ task'[t].asg = a
  BY <1>2, <1>4, <1>5
<1>10. \A b : /\ b # a => OpenIn(b)' = OpenIn(b)
              /\ OpenIn(a)' = OpenIn(a) \union {t}
  BY <1>2, <1>8, <1>9 DEF OpenIn
<1>11. TaskState'
  <2>1. ASSUME NEW x \in Tasks, task'[x].st # "none"
        PROVE  task'[x].asg \in Assignments /\ assignment'[task'[x].asg].st # "none"
    BY <1>7, <1>8, <1>9, <2>1 DEF IInv, TaskState
  <2>2. ASSUME NEW b \in Assignments
        PROVE  /\ assignment'[b].st = "closed" => OpenIn(b)' \subseteq late'
               /\ assignment'[b].st = "active" /\ b \notin met' => OpenIn(b)' # {}
    <3>1. CASE b = a
      <4>1. assignment'[a].st = "closed" => assignment[a].st = "closed"
        BY <1>3, <1>4, <1>7 DEF Movements
      <4> QED BY <1>2, <1>10, <3>1, <4>1 DEF IInv, TaskState, AssignmentsMatchTasks
    <3>2. CASE b # a
      <4>1. assignment'[b] = assignment[b]
        BY <1>3, <1>4, <3>2 DEF Movements
      <4> QED BY <1>2, <1>10, <3>2, <4>1 DEF IInv, TaskState, AssignmentsMatchTasks
    <3> QED BY <3>1, <3>2
  <2> QED BY <2>1, <2>2 DEF TaskState, AssignmentsMatchTasks
<1>12. ASSUME NEW q \in Requests \ {r}, NEW d \in Calls, d = req[q], TaskCall(d)
       PROVE  TaskCall(d)'
  <2>1. Holding(d)'
    <3>1. \A x \in d.closing : x \in Tasks \ {t}
      BY <1>2, <1>12 DEF TaskCall, Holding, Calls
    <3> QED BY <1>8, <1>12, <3>1 DEF TaskCall, Holding
  <2>2. d.at \in {"close", "reassign"} => d.task \in Tasks \ {t}
    BY <1>2, <1>12 DEF TaskCall, Placed
  <2>3. Placed(d)'
    BY <1>7, <1>8, <1>12, <2>2 DEF TaskCall, Placed
  <2>4. d.last \/ d.at = "record" =>
          OpenIn(d.asg)' \subseteq OpenIn(d.asg) \union late' /\ late \subseteq late'
    <3>1. CASE d.asg = a
      BY <1>2, <1>10, <1>12, <3>1 DEF BeingClosed
    <3>2. CASE d.asg # a
      BY <1>2, <1>10, <3>2
    <3> QED BY <3>1, <3>2
  <2>5. ASSUME d.at = "close", ~d.last, assignment'[d.asg].st = "active", d.asg \notin met'
        PROVE  Others(d.task)' # {}
    <3>1. d.task \in Tasks \ {t} /\ d.asg = task[d.task].asg /\ d.asg = task'[d.task].asg
          /\ d.asg \in Assignments /\ assignment[d.asg].st # "none"
      BY <1>8, <1>12, <2>2, <2>5 DEF TaskCall, Placed, IInv, TaskState
    <3>2. OpenIn(d.asg) \ {d.task} # {}
      BY <1>2, <1>7, <1>12, <2>5, <3>1 DEF TaskCall, Counted, Others
    <3>3. OpenIn(d.asg) \subseteq OpenIn(d.asg)'
      BY <1>10
    <3>4. Others(d.task)' = OpenIn(d.asg)' \ {d.task}
      BY <3>1 DEF Others, OpenIn
    <3> QED BY <3>2, <3>3, <3>4
  <2>6. Counted(d)'
    BY <1>12, <2>4, <2>5 DEF TaskCall, Counted
  <2> QED BY <2>1, <2>3, <2>6 DEF TaskCall
<1>13. late' \subseteq Tasks /\ met' \subseteq Assignments
  BY <1>2, TasksTyped
<1> QED BY <1>2, <1>6, <1>7, <1>11, <1>12, <1>13, TaskMoves

-----------------------------------------------------------------------------
(* The invariant *)

\* A case as its creation and its first assignment leave it.
LEMMA InitIInv == Init => IInv
<1> SUFFICES ASSUME Init PROVE IInv
  OBVIOUS
<1> USE CaseAssumption, CaseWorkAssumption DEF Init, CallsInit, FileInit, TasksInit
<1>1. \A r \in Requests : req[r] = Made("new", "none")
  OBVIOUS
<1>2. links = <<Entry(Cover, 1)>> /\ Entry(Cover, 1) \in Entries
  BY DEF Entry, Entries
<1>3. links \in Seq(Entries) /\ Len(links) = 1 /\ links[1].order = 1 /\ DOMAIN links = {1}
  BY <1>2 DEF Entry
<1>4. task \in [Tasks -> Task]
  BY DEF Task, People, OpenTask, NoTaskYet
<1>5. assignment \in Movements
  BY DEF Movements, NoMovement
<1>6. req \in [Requests -> Calls]
  BY MadeTyped DEF Steps
<1>7. proposal \in [Proposals -> [doc : Docs \union {NoDoc}, auto : BOOLEAN,
                                 st : {"none", "active", "inactive"}]]
  BY DEF NoRow
<1>8. TypeOK
  BY <1>3, <1>4, <1>5, <1>6, <1>7 DEF TypeOK, Entries, Movements
<1>9. Exclusive
  BY <1>1 DEF Exclusive, Made
<1>10. FileState
  BY <1>3 DEF FileState
<1>11. \A t \in Tasks : /\ t \in FirstTasks => task[t].st = "open" /\ task[t].asg = FirstAssignment
                        /\ t \notin FirstTasks => task[t].st = "none"
  BY DEF OpenTask, NoTaskYet
<1>12. /\ assignment[FirstAssignment].st = "active"
       /\ \A b \in Assignments \ {FirstAssignment} : assignment[b].st = "none"
  BY DEF NoMovement
<1>13. TaskState
  BY <1>11, <1>12 DEF TaskState, AssignmentsMatchTasks, OpenIn
<1>14. \A r \in Requests : FileCall(req[r]) /\ TaskCall(req[r])
  BY <1>1, MadeRelies
<1> QED BY <1>8, <1>9, <1>10, <1>13, <1>14 DEF IInv

\* A call that is refused, or gives up, or fails.
LEMMA StopsStep ==
  ASSUME IInv, NEW r \in Requests, UNCHANGED <<fileVars, taskVars>>,
         (AcquireTimesOut(r) /\ NoFault) \/ NoPV(r) \/ Fails(r) \/ Aborted(r)
  PROVE  IInv'
<1>1. End(r)
  BY DEF AcquireTimesOut, NoPV, Fails, Aborted
<1>2. faults' \in 0 .. MaxFaults
  BY CaseAssumption DEF AcquireTimesOut, NoPV, Fails, Aborted, NoFault, IInv, TypeOK
<1> QED BY <1>1, <1>2, EndMoves

\* Nothing changes.
LEMMA StutterStep ==
  ASSUME IInv, UNCHANGED vars
  PROVE  IInv'
BY DEF IInv, vars, fileVars, taskVars, TypeOK, Exclusive, FileState, TaskState, InFile,
       AssignmentsMatchTasks, OpenIn, Others, FileCall, TaskCall, Holding, Placed, Counted

\* The steps of one request.
LEMMA GoesIInv ==
  ASSUME IInv, NEW r \in Requests, Goes(r)
  PROVE  IInv'
<1>1. CASE FileGoes(r) /\ UNCHANGED taskVars
  <2>2. CASE Check(r) \/ Amend(r) \/ LockCase(r)
    BY <1>1, <2>2, ChecksAndLocks
  <2>3. CASE CommitLink(r)
    BY <1>1, <2>3, CommitLinkStep
  <2>4. CASE Deactivate(r) \/ Reject(r)
    <3>1. PICK p \in Proposals : p = req[r].prop /\ req[r].prop \in Proposals
      BY <2>4, CallKnown DEF FileCall, Deactivate, Reject
    <3>2. Cover \in Docs
      BY CaseWorkAssumption
    <3> QED BY <1>1, <2>4, <3>1, <3>2, ProposalsStep
  <2> QED BY <1>1, <2>2, <2>3, <2>4 DEF FileGoes
<1>2. CASE TaskGoes(r) /\ UNCHANGED fileVars
  <2>1. CASE CloseTask(r)
    BY <1>2, <2>1, CloseTaskStep
  <2>2. CASE CloseMovement(r) \/ CloseTasks(r)
    BY <1>2, <2>2, MovementsAndTasks
  <2>3. CASE Record(r)
    BY <1>2, <2>3, RecordStep
  <2>4. CASE Reassign(r)
    BY <1>2, <2>4, ReassignStep
  <2>5. CASE Aborted(r)
    BY <1>2, <2>5, StopsStep DEF Aborted
  <2>6. CASE \E a \in Assignments, t \in Tasks : Assign(r, a, t)
    BY <1>2, <2>6, AssignStep
  <2> QED BY <1>2, <2>1, <2>2, <2>3, <2>4, <2>5, <2>6 DEF TaskGoes
<1>3. CASE AcquireTimesOut(r) /\ UNCHANGED <<fileVars, taskVars>> /\ NoFault
  BY <1>3, StopsStep
<1>4. CASE NoPV(r)
  BY <1>4, StopsStep DEF NoPV
<1>5. CASE \E d \in Docs : EmitPV(r, d)
  BY <1>5, EmitPVStep
<1> QED BY <1>1, <1>2, <1>3, <1>4, <1>5 DEF Goes

\* Every step keeps what calls rely on.
LEMMA StepIInv == IInv /\ [Next]_vars => IInv'
<1> SUFFICES ASSUME IInv, [Next]_vars PROVE IInv'
  OBVIOUS
<1>1. ASSUME NEW r \in Requests, Goes(r) PROVE IInv'
  BY <1>1, GoesIInv
<1>2. ASSUME NEW r \in Requests, FileStarts(r), UNCHANGED taskVars PROVE IInv'
  <2>1. CASE \E d \in Docs : StartLink(r, d)
    BY <1>2, <2>1, LinksStep
  <2>2. CASE \E d \in Docs : \E i \in DOMAIN links : StartSubsanar(r, i, d)
    BY <1>2, <2>2, AmendsStep
  <2>3. CASE \E p \in Proposals : StartAccept(r, p) \/ StartReject(r, p)
    BY <1>2, <2>3, FollowsStep
  <2>4. CASE \E p \in Proposals : \E d \in Docs : Propose(r, p, d)
    BY <1>2, <2>4, ProposalsStep
  <2> QED BY <1>2, <2>1, <2>2, <2>3, <2>4 DEF FileStarts
<1>3. ASSUME NEW r \in Requests, TaskStarts(r), UNCHANGED fileVars PROVE IInv'
  <2>1. FirstAssignment \in Assignments /\ FirstSector \in Sectors /\ \E t \in Tasks : TRUE
    BY CaseWorkAssumption
  <2> QED BY <1>3, <2>1, StartsTaskStep DEF TaskStarts
<1>4. ASSUME NEW r \in Requests, Fails(r), UNCHANGED <<fileVars, taskVars>> PROVE IInv'
  BY <1>4, StopsStep
<1>5. ASSUME NEW d \in Docs, BecomesOfficial(d), UNCHANGED taskVars PROVE IInv'
  BY <1>5, OfficialStep
<1>6. CASE UNCHANGED vars
  BY <1>6, StutterStep
<1> QED BY <1>1, <1>2, <1>3, <1>4, <1>5, <1>6 DEF Next

\* The invariant holds at any time.
LEMMA SpecIInv == Spec => []IInv
<1> QED BY InitIInv, StepIInv, PTL DEF Spec

-----------------------------------------------------------------------------
(* What follows from it *)

\* Every variable keeps its type, for any number of requests and any pool.
THEOREM SpecTypeOK == Spec => []TypeOK
<1>1. IInv => TypeOK
  BY DEF IInv
<1> QED BY <1>1, SpecIInv, PTL

\* Whatever fails between the link of an accepted proposal and its removal from
\* the list, one that is off the list has its document in the file.
THEOREM SpecAcceptedIsLinked == Spec => []AcceptedIsLinked
<1>1. IInv => AcceptedIsLinked
  BY DEF IInv, FileState, InFile, AcceptedIsLinked
<1> QED BY <1>1, SpecIInv, PTL

\* However requests interleave, a closed assignment has no open task but those
\* added meanwhile, and an active one has an open task, but where two were
\* closed at once.
THEOREM SpecAssignmentsMatchTasks == Spec => []AssignmentsMatchTasks
<1>1. IInv => AssignmentsMatchTasks
  BY DEF IInv, TaskState
<1> QED BY <1>1, SpecIInv, PTL

\* A task that was closed is not touched again: each step that changes one finds
\* it open, or has had it locked since it was.
LEMMA ClosedTaskStep ==
  IInv /\ [Next]_vars => [\A t \in Tasks : task[t].st = "closed" => task'[t] = task[t]]_task
<1> SUFFICES ASSUME IInv, [Next]_vars, NEW t \in Tasks, task[t].st = "closed"
             PROVE  task'[t] = task[t]
  OBVIOUS
<1>1. task \in [Tasks -> Task]
  BY TasksTyped
<1>2. CASE UNCHANGED task
  BY <1>2
<1>3. ASSUME NEW r \in Requests, CloseTask(r) PROVE task'[t] = task[t]
  BY <1>1, <1>3 DEF CloseTask, StillOpen, End
<1>4. ASSUME NEW r \in Requests, Record(r) PROVE task'[t] = task[t]
  <2>1. t \notin req[r].closing
    BY CallKnown DEF TaskCall, Holding
  <2> QED BY <1>1, <1>4, <2>1 DEF Record
<1>5. ASSUME NEW r \in Requests, Reassign(r) PROVE task'[t] = task[t]
  BY <1>1, <1>5 DEF Reassign, StillOpen
<1>6. ASSUME NEW r \in Requests, NEW a \in Assignments, NEW x \in Tasks, Assign(r, a, x)
      PROVE  task'[t] = task[t]
  BY <1>1, <1>6 DEF Assign
<1>7. \/ UNCHANGED task
      \/ \E r \in Requests : \/ CloseTask(r) \/ Record(r) \/ Reassign(r)
                             \/ \E a \in Assignments, x \in Tasks : Assign(r, a, x)
  BY DEF Next, Goes, FileGoes, TaskGoes, TaskStarts, StartAssign, StartCloseTask,
         StartCloseAssignment, StartReassign, CloseMovement, CloseTasks, Aborted,
         NoPV, EmitPV, taskVars, vars
<1> QED BY <1>2, <1>3, <1>4, <1>5, <1>6, <1>7

\* Who closed a task, and who had it then, never changes, whoever else closes it,
\* reassigns it or closes its assignment at once.  (The conditional updates of
\* tasks.py.)
THEOREM SpecClosedTaskStays == Spec => ClosedTaskStays
<1> QED BY SpecIInv, ClosedTaskStep, PTL DEF Spec, ClosedTaskStays

-----------------------------------------------------------------------------
(* The file is a book *)

LedgerNext == \E d \in Docs : Ledger!Enter(d) \/ \E i \in DOMAIN links : Ledger!Correct(i, d)

\* A link enters its document under the next number; if it amends an entry that
\* was not struck out, it strikes it out.
LEMMA LinkIsEntry ==
  ASSUME IInv, NEW r \in Requests, CommitLink(r)
  PROVE  LedgerNext
<1>1. PICK row \in 0 .. Len(links) : row = req[r].row
  BY CallKnown DEF CommitLink, FileCall
<1>2. PICK d \in Docs : d = req[r].doc
  BY FileGrows
<1>3. PICK page : page = Entry(d, Len(links) + 1)
  OBVIOUS
<1>4. page = Ledger!Page(d)
  BY <1>3 DEF Entry, Ledger!Page
<1>5. /\ links \in Seq(Entries) /\ DOMAIN links = 1 .. Len(links)
      /\ \A i \in 1 .. Len(links) : links[i] \in Entries
  <2>1. links \in Seq(Entries)
    BY DEF IInv, TypeOK, Entries
  <2> QED BY <2>1
<1>6. PICK kept : kept = [i \in 1 .. Len(links) |-> Struck(i, row)]
  OBVIOUS
<1>7. links' = Append(kept, page)
  BY <1>1, <1>2, <1>3, <1>5, <1>6, CallKnown DEF CommitLink, FileCall, Struck
<1>8. CASE row = 0
  <2>1. \A i \in 1 .. Len(links) : Struck(i, row) = links[i]
    BY <1>5, <1>8 DEF Struck, Entries
  <2>2. kept = links
    BY <1>5, <1>6, <2>1
  <2> QED BY <1>4, <1>7, <2>2 DEF LedgerNext, Ledger!Enter
<1>9. CASE row # 0
  <2>1. row \in DOMAIN links
    BY <1>5, <1>9
  <2>2. \A i \in 1 .. Len(links) :
          Struck(i, row) = IF i = row THEN [links[i] EXCEPT !.active = FALSE] ELSE links[i]
    BY <1>5 DEF Struck, Entries
  <2>3. kept = [links EXCEPT ![row].active = FALSE]
    BY <1>5, <1>6, <2>1, <2>2
  <2>4. Ledger!Correct(row, d)
    BY <1>4, <1>7, <2>3 DEF Ledger!Correct
  <2> QED BY <2>1, <2>4 DEF LedgerNext
<1> QED BY <1>8, <1>9

\* Whoever links, by whichever way, and whatever fails, the file of the case is
\* a book: every step enters one document, corrects one entry, or does nothing.
THEOREM SpecImplementsLedger == Spec => ImplementsLedger
<1>1. Init => Ledger!Opened
  BY CaseWorkAssumption DEF Init, FileInit, Entry, Ledger!Opened
<1>2. IInv /\ [Next]_vars => [LedgerNext]_links
  <2> SUFFICES ASSUME IInv, [Next]_vars PROVE LedgerNext \/ UNCHANGED links
    OBVIOUS
  <2>1. UNCHANGED links \/ \E r \in Requests : CommitLink(r)
    BY DEF Next, Goes, FileGoes, FileStarts, StartLink, StartAccept, StartSubsanar,
           StartReject, Check, Amend, LockCase, Propose, Deactivate, Reject, NoPV, EmitPV,
           BecomesOfficial, fileVars, vars
  <2> QED BY <2>1, LinkIsEntry
<1> QED BY <1>1, <1>2, SpecIInv, PTL DEF Spec, ImplementsLedger, Ledger!Spec, LedgerNext

=============================================================================
