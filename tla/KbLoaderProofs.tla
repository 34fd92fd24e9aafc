--------------------------- MODULE KbLoaderProofs ----------------------------
(***************************************************************************)
(* Proofs about KbLoader for every finite set of files and every set of    *)
(* server processes, and about what KbSearch finds there for any question. *)
(*                                                                         *)
(* What a serving process shows depends on how it got there: IInv follows  *)
(* a load file by file.  Whatever was not edited since the load began is   *)
(* still to be added or was added once with the text it has (Covered), no  *)
(* path is both (Distinct), and nothing was ever committed before.  The    *)
(* cache is dead because the list then has one entry per path, none of     *)
(* them its own.                                                           *)
(***************************************************************************)
EXTENDS KbSearch, FiniteSetTheorems, WellFoundedInduction, TLAPS

OneEntryPerPath == \A d, e \in index.entries : d.path = e.path => d = e

Distinct(p) ==
  /\ \A i, j \in 1..Len(rows[p]) : rows[p][i].path = rows[p][j].path => i = j
  /\ \A i \in 1..Len(rows[p]) : rows[p][i].path \notin todo[p]

AtEachPoint(p) ==
  /\ pc[p] \in {"down", "check", "failed"} => rows[p] = <<>> /\ todo[p] = {}
  /\ pc[p] \in {"save", "writing", "ready"} => todo[p] = {}

Added(p, f) == \E i \in 1..Len(rows[p]) : rows[p][i].path = f

Covered(p) ==
  \A f \in Files \ touched[p] :
    /\ f \in todo[p] => files[f] # Absent
    /\ files[f] # Absent /\ pc[p] \in {"scan", "save", "writing", "ready"}
         => f \in todo[p] \/ Added(p, f)
    /\ \A i \in 1..Len(rows[p]) : rows[p][i].path = f => rows[p][i].text = files[f]

IInv ==
  /\ TypeOK
  /\ committed = <<>>
  /\ OneWriter
  /\ OneEntryPerPath
  /\ \A p \in Procs : ~cached[p] /\ Distinct(p) /\ AtEachPoint(p) /\ Covered(p)

-----------------------------------------------------------------------------
(* Lemmas                                                                  *)

\* Rows after one more.
LEMMA OneMoreRow ==
  ASSUME NEW s \in Seq(Row), NEW e \in Row
  PROVE  /\ Append(s, e) \in Seq(Row)
         /\ Len(Append(s, e)) = Len(s) + 1
         /\ Append(s, e)[Len(s) + 1] = e
         /\ \A i \in 1..Len(s) : Append(s, e)[i] = s[i]
OBVIOUS

\* The list of paths cannot be as long as the set of files that contains it
\* and the index file besides.
LEMMA NoHit ==
  ASSUME TypeOK, OneEntryPerPath
  PROVE  ~CacheHit
<1> SUFFICES ASSUME CacheHit PROVE FALSE
  OBVIOUS
<1> DEFINE path == [e \in index.entries |-> e.path]
<1>1. IsFiniteSet(Present) /\ IndexFile \notin Present
  BY FS_Subset, FilesAssumption DEF Present
<1>2. Cardinality(Indexed) = Cardinality(Present) + 1
  BY <1>1, FS_AddElement DEF Indexed
<1>3. path \in Injection(index.entries, Present)
  <2>1. \A e \in index.entries : e \in Row /\ e.path \in Files
    BY DEF TypeOK, Row
  <2>2. \A e \in index.entries : e.path \in Present
    BY <2>1, FilesAssumption DEF CacheHit, IndexedPaths, Indexed
  <2>3. path \in [index.entries -> Present]
    BY <2>2
  <2>4. \A d, e \in index.entries : path[d] = path[e] => d = e
    BY DEF OneEntryPerPath
  <2> QED
    BY <2>3, <2>4 DEF Injection, IsInjective
<1>4. Cardinality(index.entries) <= Cardinality(Present)
  BY <1>1, <1>3, FS_Injection
<1>5. Cardinality(Present) \in Nat
  BY <1>1, FS_CardinalityType
<1>6. Cardinality(Indexed) = Cardinality(index.entries)
  BY DEF CacheHit
<1> QED
  BY <1>2, <1>4, <1>5, <1>6

LEMMA InitInvariant == Init => IInv
<1> SUFFICES ASSUME Init PROVE IInv
  OBVIOUS
<1>1. TypeOK
  BY DEF Init, TypeOK, Row
<1>2. OneWriter
  BY ProcsAssumption DEF Init, OneWriter
<1> QED
  BY <1>1, <1>2 DEF Init, IInv, OneEntryPerPath, Distinct, AtEachPoint, Covered, Added

-----------------------------------------------------------------------------
(* Each action preserves the invariant                                     *)

LEMMA StartStep ==
  ASSUME IInv, NEW p \in Procs, Start(p)
  PROVE  IInv'
<1> USE DEF Start, Goto, disk
<1>1. TypeOK'
  BY DEF IInv, TypeOK
<1>2. OneWriter'
  BY DEF IInv, TypeOK, OneWriter
<1>3. ASSUME NEW q \in Procs
      PROVE  (~cached[q] /\ Distinct(q) /\ AtEachPoint(q) /\ Covered(q))'
  BY <1>3 DEF IInv, TypeOK, Distinct, AtEachPoint, Covered, Added
<1> QED
  BY <1>1, <1>2, <1>3 DEF IInv, OneEntryPerPath

LEMMA CheckStep ==
  ASSUME IInv, NEW p \in Procs, CheckCache(p)
  PROVE  IInv'
<1> USE DEF CheckCache, Goto, disk
<1>. CacheHit = FALSE
  BY NoHit DEF IInv, CacheHit
<1>1. /\ cached' = [cached EXCEPT ![p] = FALSE]
      /\ todo' = [todo EXCEPT ![p] = Present]
  OBVIOUS
<1>2. TypeOK'
  BY <1>1 DEF IInv, TypeOK, Present
<1>3. OneWriter'
  BY DEF IInv, TypeOK, OneWriter
<1>4. ASSUME NEW q \in Procs
      PROVE  (~cached[q] /\ Distinct(q) /\ AtEachPoint(q) /\ Covered(q))'
  BY <1>1, <1>4 DEF IInv, TypeOK, Distinct, AtEachPoint, Covered, Added, Present
<1> QED
  BY <1>2, <1>3, <1>4 DEF IInv, OneEntryPerPath

LEMMA AddStep ==
  ASSUME IInv, NEW p \in Procs, AddDocument(p)
  PROVE  IInv'
<1>1. PICK f \in todo[p] :
        /\ files[f] # Absent
        /\ rows' = [rows EXCEPT ![p] = Append(@, [path |-> f, text |-> files[f]])]
        /\ todo' = [todo EXCEPT ![p] = @ \ {f}]
  BY DEF AddDocument, Readable, TextOf, IInv
<1> DEFINE row == [path |-> f, text |-> files[f]]
<1>2. f \in Files /\ files[f] \in 1..MaxText /\ row \in Row
  BY <1>1, MaxTextAssumption DEF IInv, TypeOK, Row, Absent
<1>3. /\ rows[p] \in Seq(Row)
      /\ rows'[p] = Append(rows[p], row)
      /\ todo'[p] = todo[p] \ {f}
      /\ \A q \in Procs \ {p} : rows'[q] = rows[q] /\ todo'[q] = todo[q]
  BY <1>1 DEF IInv, TypeOK
<1>4. /\ rows'[p] \in Seq(Row)
      /\ Len(rows'[p]) = Len(rows[p]) + 1
      /\ rows'[p][Len(rows[p]) + 1] = row
      /\ \A i \in 1..Len(rows[p]) : rows'[p][i] = rows[p][i]
      /\ Len(rows[p]) \in Nat
  BY <1>2, <1>3, OneMoreRow
<1>5. /\ pc[p] = "scan" /\ writer' = p /\ MayWrite(p)
      /\ UNCHANGED <<files, index, committed, pc, cached, touched>>
  BY DEF AddDocument
<1>6. TypeOK'
  BY <1>1, <1>4, <1>5 DEF IInv, TypeOK
<1>7. OneWriter'
  BY <1>3, <1>5, ProcsAssumption DEF IInv, OneWriter, MayWrite
<1>8. Distinct(p)'
  BY <1>1, <1>3, <1>4 DEF IInv, Distinct
<1>9. Covered(p)'
  <2> SUFFICES ASSUME NEW g \in Files \ touched[p]
               PROVE  /\ g \in todo'[p] => files[g] # Absent
                      /\ files[g] # Absent => g \in todo'[p] \/ Added(p, g)'
                      /\ \A i \in 1..Len(rows'[p]) :
                           rows'[p][i].path = g => rows'[p][i].text = files[g]
    BY <1>5 DEF Covered
  <2>1. g \in todo'[p] => files[g] # Absent
    BY <1>3 DEF IInv, Covered
  <2>2. Added(p, g) => Added(p, g)'
    BY <1>4 DEF Added
  <2>3. Added(p, f)'
    BY <1>4 DEF Added
  <2>4. files[g] # Absent => g \in todo'[p] \/ Added(p, g)'
    BY <1>3, <1>5, <2>2, <2>3 DEF IInv, Covered
  <2>5. \A i \in 1..Len(rows'[p]) : rows'[p][i].path = g => rows'[p][i].text = files[g]
    BY <1>4 DEF IInv, Covered
  <2> QED
    BY <2>1, <2>4, <2>5
<1>10. ASSUME NEW q \in Procs
       PROVE  (~cached[q] /\ Distinct(q) /\ AtEachPoint(q) /\ Covered(q))'
  <2>1. CASE q = p
    BY <1>5, <1>8, <1>9, <2>1 DEF IInv, AtEachPoint
  <2>2. CASE q # p
    <3>1. /\ rows'[q] = rows[q] /\ todo'[q] = todo[q] /\ pc'[q] = pc[q]
          /\ cached'[q] = cached[q] /\ touched'[q] = touched[q] /\ files' = files
      BY <1>3, <1>5, <1>10, <2>2
    <3>2. Distinct(q)' /\ AtEachPoint(q)'
      BY <1>10, <3>1 DEF IInv, Distinct, AtEachPoint
    <3>3. Covered(q)'
      BY <1>10, <3>1 DEF IInv, Covered, Added
    <3> QED
      BY <1>10, <3>1, <3>2, <3>3 DEF IInv
  <2> QED
    BY <2>1, <2>2
<1> QED
  BY <1>5, <1>6, <1>7, <1>10 DEF IInv, OneEntryPerPath

LEMMA SkipStep ==
  ASSUME IInv, NEW p \in Procs, SkipFile(p)
  PROVE  IInv'
<1> USE DEF SkipFile, disk
<1>1. PICK f \in todo[p] : files[f] = Absent /\ todo' = [todo EXCEPT ![p] = @ \ {f}]
  OBVIOUS
<1>2. TypeOK'
  BY <1>1 DEF IInv, TypeOK
<1>3. OneWriter'
  BY DEF IInv, OneWriter
<1>4. /\ todo'[p] = todo[p] \ {f}
      /\ \A q \in Procs \ {p} : todo'[q] = todo[q]
  BY <1>1 DEF IInv, TypeOK
<1>5. ASSUME NEW q \in Procs
      PROVE  (~cached[q] /\ Distinct(q) /\ AtEachPoint(q) /\ Covered(q))'
  <2>1. todo'[q] \subseteq todo[q] /\ \A g \in todo[q] \ todo'[q] : files[g] = Absent
    BY <1>1, <1>4, <1>5
  <2>2. UNCHANGED <<pc, rows, files, touched, cached>>
    OBVIOUS
  <2>3. Distinct(q)' /\ AtEachPoint(q)'
    BY <1>5, <2>1, <2>2 DEF IInv, Distinct, AtEachPoint
  <2>4. Covered(q)'
    BY <1>5, <2>1, <2>2 DEF IInv, Covered, Added
  <2> QED
    BY <1>5, <2>2, <2>3, <2>4 DEF IInv
<1> QED
  BY <1>2, <1>3, <1>5 DEF IInv, OneEntryPerPath

LEMMA ScannedStep ==
  ASSUME IInv, NEW p \in Procs, Scanned(p)
  PROVE  IInv'
<1> USE DEF Scanned, Goto, disk
<1>1. TypeOK'
  BY DEF IInv, TypeOK
<1>2. OneWriter'
  BY DEF IInv, TypeOK, OneWriter
<1>3. ASSUME NEW q \in Procs
      PROVE  (~cached[q] /\ Distinct(q) /\ AtEachPoint(q) /\ Covered(q))'
  BY <1>3 DEF IInv, TypeOK, Distinct, AtEachPoint, Covered, Added
<1> QED
  BY <1>1, <1>2, <1>3 DEF IInv, OneEntryPerPath

LEMMA SaveStep ==
  ASSUME IInv, NEW p \in Procs, SaveBegins(p) \/ SaveEnds(p)
  PROVE  IInv'
<1> USE DEF SaveBegins, SaveEnds, Goto
<1>1. \A i \in 1..Len(rows[p]) : rows[p][i] \in Row
  BY DEF IInv, TypeOK
<1>2. RowsOf(p) \subseteq Row
  BY <1>1 DEF RowsOf
<1>3. index' \in [kind : {"absent", "torn", "whole"}, entries : SUBSET Row]
  BY <1>2
<1>4. TypeOK'
  BY <1>3 DEF IInv, TypeOK
<1>5. OneEntryPerPath'
  <2>1. \A d, e \in RowsOf(p) : d.path = e.path => d = e
    BY DEF IInv, Distinct, RowsOf
  <2> QED
    BY <2>1 DEF OneEntryPerPath
<1>6. OneWriter'
  BY DEF IInv, TypeOK, OneWriter
<1>7. ASSUME NEW q \in Procs
      PROVE  (~cached[q] /\ Distinct(q) /\ AtEachPoint(q) /\ Covered(q))'
  <2>1. /\ UNCHANGED <<files, cached, todo, rows, touched>>
        /\ \/ pc'[q] = pc[q]
           \/ pc[q] \in {"save", "writing"} /\ pc'[q] \in {"writing", "ready"}
    BY <1>7 DEF IInv, TypeOK
  <2>2. Distinct(q)' /\ AtEachPoint(q)'
    BY <1>7, <2>1 DEF IInv, Distinct, AtEachPoint
  <2>3. Covered(q)'
    BY <1>7, <2>1 DEF IInv, Covered, Added
  <2> QED
    BY <1>7, <2>1, <2>2, <2>3 DEF IInv
<1> QED
  BY <1>4, <1>5, <1>6, <1>7 DEF IInv

LEMMA CloseStep ==
  ASSUME IInv, NEW p \in Procs, LoadFails(p) \/ Exit(p)
  PROVE  IInv'
<1> USE DEF LoadFails, Exit, CloseDb, Outcome, Unlock
<1>1. /\ rows' = [rows EXCEPT ![p] = <<>>] /\ todo' = [todo EXCEPT ![p] = {}]
      /\ pc' \in {[pc EXCEPT ![p] = "failed"], [pc EXCEPT ![p] = "down"]}
      /\ cached' \in {cached, [cached EXCEPT ![p] = FALSE]}
      /\ writer' = IF writer = p THEN None ELSE writer
      /\ UNCHANGED <<files, index, committed, touched>>
  OBVIOUS
<1>2. TypeOK'
  BY <1>1 DEF IInv, TypeOK
<1>3. OneWriter'
  <2> SUFFICES ASSUME NEW q \in Procs
               PROVE  /\ rows'[q] # <<>> => writer' = q
                      /\ writer' = q => pc'[q] \in {"scan", "save", "writing", "ready"}
    BY DEF OneWriter
  <2>1. CASE q = p
    BY <1>1, <2>1, ProcsAssumption DEF IInv, TypeOK
  <2>2. CASE q # p
    BY <1>1, <2>2, ProcsAssumption DEF IInv, TypeOK, OneWriter
  <2> QED
    BY <2>1, <2>2
<1>4. ASSUME NEW q \in Procs
      PROVE  (~cached[q] /\ Distinct(q) /\ AtEachPoint(q) /\ Covered(q))'
  <2>1. CASE q = p
    BY <1>1, <2>1 DEF IInv, TypeOK, Distinct, AtEachPoint, Covered, Added
  <2>2. CASE q # p
    BY <1>1, <1>4, <2>2 DEF IInv, TypeOK, Distinct, AtEachPoint, Covered, Added
  <2> QED
    BY <2>1, <2>2
<1> QED
  BY <1>1, <1>2, <1>3, <1>4 DEF IInv, OneEntryPerPath

LEMMA EditStep ==
  ASSUME IInv, Edit
  PROVE  IInv'
<1> USE DEF Edit, proc
<1>1. PICK f \in Files, text \in 0..MaxText :
        /\ files' = [files EXCEPT ![f] = text]
        /\ touched' = [p \in Procs |-> touched[p] \union {f}]
  OBVIOUS
<1>2. TypeOK'
  BY <1>1 DEF IInv, TypeOK
<1>3. OneWriter'
  BY DEF IInv, OneWriter
<1>4. ASSUME NEW q \in Procs
      PROVE  (~cached[q] /\ Distinct(q) /\ AtEachPoint(q) /\ Covered(q))'
  <2>1. \A g \in Files \ touched'[q] : g \in Files \ touched[q] /\ files'[g] = files[g]
    BY <1>1 DEF IInv, TypeOK
  <2>2. Covered(q)'
    BY <1>4, <2>1 DEF IInv, Covered, Added
  <2> QED
    BY <1>4, <2>2 DEF IInv, Distinct, AtEachPoint
<1> QED
  BY <1>2, <1>3, <1>4 DEF IInv, OneEntryPerPath

-----------------------------------------------------------------------------
(* Theorems                                                                *)

\* IInv is an invariant of every behaviour of the loaders.
THEOREM Invariance == Spec => []IInv
<1>1. IInv /\ [Next]_vars => IInv'
  <2> SUFFICES ASSUME IInv, [Next]_vars PROVE IInv'
    OBVIOUS
  <2>1. CASE UNCHANGED vars
    BY <2>1 DEF vars, disk, proc, IInv, TypeOK, OneWriter, OneEntryPerPath, Distinct,
                AtEachPoint, Covered, Added
  <2>2. CASE Edit
    BY <2>2, EditStep
  <2>3. ASSUME NEW p \in Procs, Start(p) \/ Load(p) \/ Exit(p) PROVE IInv'
    BY <2>3, StartStep, CheckStep, AddStep, SkipStep, ScannedStep, SaveStep, CloseStep
       DEF Load
  <2> QED
    BY <2>1, <2>2, <2>3 DEF Next
<1> QED
  BY <1>1, InitInvariant, PTL DEF Spec

\* The types of the loaders' state.
THEOREM TypeCorrect == Spec => []TypeOK
<1>1. IInv => TypeOK
  BY DEF IInv
<1> QED
  BY <1>1, Invariance, PTL

\* Only the process that loads or serves keeps others from writing, and no
\* other has rows.
THEOREM OneWriterCorrect == Spec => []OneWriter
<1>1. IInv => OneWriter
  BY DEF IInv
<1> QED
  BY <1>1, Invariance, PTL

CacheNeverHits == ~CacheHit /\ \A p \in Procs : ~cached[p]

\* _check_cache answers no, for every set of files and every history: it counts
\* .kb_index.json among the files, and the list never has it (kb_loader.py:59-77).
\* Files that have not changed are indexed again at every start, which the
\* comment at kb_loader.py:21 says is skipped.
THEOREM CacheIsDead == Spec => []CacheNeverHits
<1>1. IInv => CacheNeverHits
  BY NoHit DEF IInv, CacheNeverHits
<1> QED
  BY <1>1, Invariance, PTL

\* What a process serves: each file that nobody edited meanwhile, once, with
\* its text.
THEOREM ServesFilesOnceCorrect == Spec => []ServesFilesOnce
<1>1. IInv => ServesFilesOnce
  <2> SUFFICES ASSUME IInv, NEW p \in Procs, pc[p] = "ready", NEW f \in Files \ touched[p]
               PROVE  /\ Cardinality(CopiesOf(p, f)) = (IF files[f] = Absent THEN 0 ELSE 1)
                      /\ \A i \in CopiesOf(p, f) : Visible(p)[i].text = files[f]
    BY DEF ServesFilesOnce
  <2>1. rows[p] \in Seq(Row) /\ committed = <<>>
    BY DEF IInv, TypeOK
  <2>2. Visible(p) = rows[p]
    BY <2>1 DEF Visible
  <2>3. CopiesOf(p, f) = {i \in 1..Len(rows[p]) : rows[p][i].path = f}
    BY <2>2 DEF CopiesOf
  <2>4. \A i \in CopiesOf(p, f) : rows[p][i].text = files[f] /\ rows[p][i] \in Row
    BY <2>1, <2>3 DEF IInv, Covered
  <2>5. CASE files[f] = Absent
    <3>1. CopiesOf(p, f) = {}
      BY <2>4, <2>5 DEF Row, Absent
    <3> QED
      BY <2>2, <2>4, <2>5, <3>1, FS_EmptySet
  <2>6. CASE files[f] # Absent
    <3>1. Added(p, f)
      BY <2>6 DEF IInv, AtEachPoint, Covered
    <3>2. PICK i \in 1..Len(rows[p]) : rows[p][i].path = f
      BY <3>1 DEF Added
    <3>3. \A j \in CopiesOf(p, f) : j = i
      BY <2>3, <3>2 DEF IInv, Distinct
    <3>4. CopiesOf(p, f) = {i}
      BY <2>3, <3>2, <3>3
    <3> QED
      BY <2>2, <2>4, <2>6, <3>4, FS_Singleton
  <2> QED
    BY <2>5, <2>6
<1> QED
  BY <1>1, Invariance, PTL

\* Of all the processes on one database file at most one has documents.
OneServerKnows ==
  \A p, q \in Procs : p # q => Visible(p) = <<>> \/ Visible(q) = <<>>

\* While one server has its knowledge base, every other one searches an empty
\* one: it waits for the writer or went on without (kb_loader.py:18,
\* api/server.py:195-200).
THEOREM OneServerKnowsCorrect == Spec => []OneServerKnows
<1>1. IInv => OneServerKnows
  <2> SUFFICES ASSUME IInv, NEW p \in Procs, NEW q \in Procs, p # q
               PROVE  Visible(p) = <<>> \/ Visible(q) = <<>>
    BY DEF OneServerKnows
  <2>1. rows[p] = <<>> \/ rows[q] = <<>>
    BY DEF IInv, OneWriter
  <2>2. committed = <<>>
    BY DEF IInv
  <2> QED
    BY <2>1, <2>2 DEF Visible
<1> QED
  BY <1>1, Invariance, PTL

\* For any number of processes and files, what a server searches does not
\* change under it: nobody commits, and only its own end takes its rows away
\* (kb_index.py:22-32, kb_loader.py:18-56).
THEOREM KnowledgeIsStableCorrect == Spec => KnowledgeIsStable
<1>1. IInv /\ [Next]_vars =>
        [\A p \in Procs : pc[p] = "ready" /\ pc'[p] = "ready" => Visible(p)' = Visible(p)]_vars
  <2> SUFFICES ASSUME IInv, Next, NEW p \in Procs, pc[p] = "ready", pc'[p] = "ready"
               PROVE  Visible(p)' = Visible(p)
    OBVIOUS
  <2>1. rows \in [Procs -> Seq(Row)] /\ pc \in [Procs -> {"down", "check", "scan", "save",
                                                       "writing", "ready", "failed"}]
    BY DEF IInv, TypeOK
  <2>2. committed' = committed
    BY DEF Next, Edit, Start, Load, CheckCache, AddDocument, SkipFile, Scanned, SaveBegins,
           SaveEnds, LoadFails, Exit, CloseDb, Outcome, disk, proc
  <2>3. ASSUME NEW q \in Procs, LoadFails(q) \/ Exit(q)
        PROVE  rows'[p] = rows[p]
    <3>1. pc' = [pc EXCEPT ![q] = "failed"] \/ pc' = [pc EXCEPT ![q] = "down"]
      BY <2>3 DEF LoadFails, Exit
    <3>2. q # p
      BY <2>1, <3>1
    <3> QED
      BY <2>1, <2>3, <3>2 DEF LoadFails, Exit, CloseDb
  <2>4. ASSUME NEW q \in Procs, AddDocument(q)
        PROVE  rows'[p] = rows[p]
    <3>1. q # p
      BY <2>4 DEF AddDocument
    <3>2. PICK f \in todo[q] :
            rows' = [rows EXCEPT ![q] = Append(@, [path |-> f, text |-> TextOf(q, f)])]
      BY <2>4 DEF AddDocument
    <3> QED
      BY <2>1, <3>1, <3>2
  <2>5. rows'[p] = rows[p]
    BY <2>3, <2>4
       DEF Next, Edit, Start, Load, CheckCache, SkipFile, Scanned, SaveBegins, SaveEnds, proc
  <2> QED
    BY <2>2, <2>5 DEF Visible
<1> QED
  BY <1>1, Invariance, PTL DEF Spec, KnowledgeIsStable

-----------------------------------------------------------------------------
(* What a question finds                                                   *)

LEMMA LesserOfTwo ==
  ASSUME NEW a \in Nat, NEW b \in Nat
  PROVE  Min({a, b}) = IF a <= b THEN a ELSE b
<1>1. CASE a <= b
  BY <1>1 DEF Min
<1>2. CASE ~(a <= b)
  BY <1>2 DEF Min
<1>3. QED
  BY <1>1, <1>2

\* A ranking that is shorter than its limit has every row.
LEMMA RankingsFill ==
  ASSUME NEW S, IsFiniteSet(S), NEW limit \in Nat, NEW s \in Rankings(S, limit)
  PROVE  /\ \A i \in DOMAIN s : s[i] \in S
         /\ \A i, j \in DOMAIN s : s[i] = s[j] => i = j
         /\ Len(s) = limit \/ \A x \in S : \E i \in DOMAIN s : s[i] = x
<1> DEFINE n == Min({limit, Cardinality(S)})
<1>1. Cardinality(S) \in Nat
  BY FS_CardinalityType
<1>2. n = IF limit <= Cardinality(S) THEN limit ELSE Cardinality(S)
  BY <1>1, LesserOfTwo
<1>3. s \in [1..n -> S] /\ \A i, j \in DOMAIN s : s[i] = s[j] => i = j
  BY DEF Rankings
<1> HIDE DEF n
<1>4. n \in Nat
  BY <1>1, <1>2
<1>5. Len(s) = n
  BY <1>3, <1>4
<1>6. CASE n = Cardinality(S)
  <2>1. IsFiniteSet(1..n) /\ Cardinality(1..n) = Cardinality(S)
    BY <1>4, <1>6, FS_Interval
  <2>2. s \in Injection(1..n, S)
    BY <1>3 DEF Injection, IsInjective
  <2>3. s \in Surjection(1..n, S)
    BY <2>1, <2>2, FS_Injection
  <2>4. \A x \in S : \E i \in DOMAIN s : s[i] = x
    BY <1>3, <2>3 DEF Surjection
  <2>5. QED
    BY <1>3, <2>4
<1>7. QED
  BY <1>2, <1>3, <1>5, <1>6

\* A question of plain words and two characters or more finds each file of the
\* persona's folder that has one of its words, as it is, whatever the history of
\* the knowledge base, the texts and the limit (kb_index.py:39-61, 84-90).
THEOREM KnowledgeIsFoundCorrect == Spec => []KnowledgeIsFound
<1>1. IInv => KnowledgeIsFound
  <2> SUFFICES ASSUME IInv, NEW p \in Procs, NEW q \in Question, NEW persona \in Personas,
                      NEW limit \in Limits, Serving(p),
                      NEW found \in Search(p, q, persona, limit)
               PROVE  LET paths == [i \in DOMAIN found |-> Visible(p)[found[i]].path]
                      IN  /\ \A i \in DOMAIN found : Folder[paths[i]] = persona
                          /\ \A f \in Files \ touched[p] :
                               files[f] # Absent /\ Folder[f] = persona
                                 /\ Understood(q) /\ q.words \intersect About[files[f]] # {}
                               => Len(found) = limit \/ \E i \in DOMAIN found : paths[i] = f
                          /\ \A i \in DOMAIN found : paths[i] \notin touched[p] =>
                               /\ Visible(p)[found[i]].text = files[paths[i]]
                               /\ \A j \in DOMAIN found : paths[j] = paths[i] => j = i
    BY DEF KnowledgeIsFound
  <2> DEFINE paths == [i \in DOMAIN found |-> Visible(p)[found[i]].path]
             S == Matches(p, q, persona)
  <2>1. rows[p] \in Seq(Row) /\ Visible(p) = rows[p]
    BY DEF IInv, TypeOK, Visible
  <2>2. limit \in Nat
    BY LengthsAssumption
  <2>3. S \subseteq 1..Len(rows[p]) /\ IsFiniteSet(S)
    <3>1. S \subseteq 1..Len(rows[p])
      BY <2>1 DEF Matches
    <3>2. QED
      BY <2>1, <3>1, FS_Interval, FS_Subset
  <2>4. CASE ~Understood(q)
    <3>1. found = <<>>
      BY <2>4 DEF Search
    <3>2. DOMAIN found = {}
      BY <3>1
    <3>3. QED
      BY <2>4, <3>2
  <2>5. CASE Understood(q)
    <3>1. found \in Rankings(S, limit)
      BY <2>5 DEF Search
    <3> HIDE DEF S
    <3>2. /\ \A i \in DOMAIN found : found[i] \in S
          /\ \A i, j \in DOMAIN found : found[i] = found[j] => i = j
          /\ Len(found) = limit \/ \A x \in S : \E i \in DOMAIN found : found[i] = x
      BY <2>2, <2>3, <3>1, RankingsFill
    <3>3. \A i \in DOMAIN found : Folder[paths[i]] = persona
      BY <3>2 DEF S, Matches
    <3>4. ASSUME NEW f \in Files \ touched[p],
                 files[f] # Absent, Folder[f] = persona,
                 q.words \intersect About[files[f]] # {}
          PROVE  Len(found) = limit \/ \E i \in DOMAIN found : paths[i] = f
      <4>1. Added(p, f) /\ Covered(p)
        BY <3>4 DEF IInv, AtEachPoint, Covered, Serving
      <4>2. PICK x \in 1..Len(rows[p]) : rows[p][x].path = f
        BY <4>1 DEF Added
      <4>3. rows[p][x].text = files[f]
        BY <4>1, <4>2 DEF Covered
      <4>4. x \in S
        BY <2>1, <3>4, <4>2, <4>3 DEF S, Matches, Hits
      <4>5. QED
        BY <2>1, <3>2, <4>2, <4>4
    <3>5. ASSUME NEW i \in DOMAIN found, paths[i] \notin touched[p]
          PROVE  /\ Visible(p)[found[i]].text = files[paths[i]]
                 /\ \A j \in DOMAIN found : paths[j] = paths[i] => j = i
      <4>1. found[i] \in 1..Len(rows[p]) /\ paths[i] = rows[p][found[i]].path
        BY <2>1, <2>3, <3>2
      <4>2. rows[p][found[i]] \in Row
        BY <2>1, <4>1
      <4>3. paths[i] \in Files \ touched[p]
        BY <3>5, <4>1, <4>2 DEF Row
      <4>4. rows[p][found[i]].text = files[paths[i]]
        BY <4>1, <4>3 DEF IInv, Covered
      <4>5. ASSUME NEW j \in DOMAIN found, paths[j] = paths[i] PROVE j = i
        <5>1. found[j] \in 1..Len(rows[p]) /\ paths[j] = rows[p][found[j]].path
          BY <2>1, <2>3, <3>2
        <5>2. found[j] = found[i]
          BY <4>1, <4>5, <5>1 DEF IInv, Distinct
        <5>3. QED
          BY <3>2, <5>2
      <4>6. QED
        BY <2>1, <4>4, <4>5
    <3>6. QED
      BY <3>3, <3>4, <3>5
  <2>6. QED
    BY <2>4, <2>5
<1>2. QED
  BY <1>1, Invariance, PTL

-----------------------------------------------------------------------------
(* How much of it fits before the model                                    *)

\* Induction, for a set of numbers instead of a predicate.
LEMMA EveryNumber ==
  ASSUME NEW S, 0 \in S, \A k \in Nat : k \in S => k + 1 \in S
  PROVE  Nat \subseteq S
<1> DEFINE Smaller == OpToRel(<, Nat)
           T == Nat \ S
<1>1. IsWellFoundedOn(Smaller, Nat)
  BY NatLessThanWellFounded
<1>2. SUFFICES ASSUME T # {} PROVE FALSE
  OBVIOUS
<1>3. PICK m \in T : \A j \in T : <<j, m>> \notin Smaller
  <2> HIDE DEF Smaller
  <2> QED
    BY <1>1, <1>2, WFMin
<1>4. \A j \in T : ~(j < m)
  BY <1>3 DEF OpToRel
<1> HIDE DEF Smaller
<1>5. m \in Nat /\ m # 0 /\ m \notin S
  OBVIOUS
<1>6. m - 1 \in Nat /\ m - 1 \in S
  BY <1>4, <1>5
<1>7. m - 1 + 1 = m
  BY <1>5
<1> QED
  BY <1>5, <1>6, <1>7

LEMMA LeastExists ==
  ASSUME NEW T \in SUBSET Nat, T # {}
  PROVE  \E i \in T : \A j \in T : i <= j
<1> DEFINE S == {k \in Nat : \A j \in T : k <= j}
<1>1. 0 \in S
  OBVIOUS
<1>2. SUFFICES ASSUME \A i \in T : ~(\A j \in T : i <= j) PROVE FALSE
  OBVIOUS
<1>3. ASSUME NEW k \in Nat, k \in S PROVE k + 1 \in S
  <2>1. \A j \in T : k <= j
    BY <1>3
  <2>2. k \notin T
    BY <1>2, <2>1
  <2>3. \A j \in T : k + 1 <= j
    BY <2>1, <2>2
  <2> QED
    BY <2>3
<1> HIDE DEF S
<1>4. Nat \subseteq S
  BY <1>1, <1>3, EveryNumber
<1>5. PICK j \in T : j \in Nat
  OBVIOUS
<1>6. j + 1 \in S
  BY <1>4, <1>5
<1> QED
  BY <1>5, <1>6 DEF S

LEMMA MinIsLeast ==
  ASSUME NEW T \in SUBSET Nat, T # {}
  PROVE  Min(T) \in T /\ \A j \in T : Min(T) <= j
BY LeastExists DEF Min

\* A block stays below max_chars, or is no longer than its header and the
\* snippet.
LEMMA BlockIsShort ==
  ASSUME NEW max \in Nat, NEW t \in Nat, NEW d \in Document
  PROVE  /\ Block(max, t, d) \in Nat
         /\ \/ t + Block(max, t, d) < max
            \/ Block(max, t, d) <= d.header + 1 + Snippet
<1>1. d.header \in Nat /\ d.text \in Nat /\ Snippet \in Nat
  BY LengthsAssumption DEF Document
<1> DEFINE room == Room(max, t, d)
           most == IF room > Snippet THEN room ELSE Snippet
<1>2. room = max - t - d.header - 2 /\ room \in Int
  BY <1>1 DEF Room
<1> HIDE DEF room
<1>3. most \in Nat
  BY <1>1, <1>2
<1>4. Min({d.text, most}) = IF d.text <= most THEN d.text ELSE most
  BY <1>1, <1>3, LesserOfTwo
<1>5. Block(max, t, d) = d.header + 1 + Min({d.text, most})
  BY DEF Block, room
<1>6. Min({d.text, most}) \in Nat /\ Min({d.text, most}) <= most
  BY <1>1, <1>3, <1>4
<1>7. CASE room > Snippet
  <2>1. most = room
    BY <1>7
  <2> HIDE DEF most
  <2> QED
    BY <1>1, <1>2, <1>5, <1>6, <2>1
<1>8. CASE ~(room > Snippet)
  <2>1. most = Snippet
    BY <1>8
  <2> HIDE DEF most
  <2> QED
    BY <1>1, <1>5, <1>6, <2>1
<1> QED
  BY <1>7, <1>8

\* g is what total was before the loop and after each of the first m blocks.
Accumulates(g, m, docs, max) ==
  g[0] = 0 /\ \A k \in 1..m : g[k] = g[k - 1] + Block(max, g[k - 1], docs[k])

LEMMA SomeTotals ==
  ASSUME NEW n \in Nat, NEW docs \in [1..n -> Document], NEW max \in Nat
  PROVE  \E g \in [0..n -> Nat] : Accumulates(g, n, docs, max)
<1> DEFINE S == {m \in Nat : m <= n => \E g \in [0..m -> Nat] : Accumulates(g, m, docs, max)}
<1>1. 0 \in S
  <2> DEFINE g == [k \in 0..0 |-> 0]
  <2>1. g \in [0..0 -> Nat] /\ g[0] = 0
    OBVIOUS
  <2> HIDE DEF g
  <2>2. Accumulates(g, 0, docs, max)
    BY <2>1 DEF Accumulates
  <2> QED
    BY <2>1, <2>2
<1>2. ASSUME NEW m \in Nat, m \in S, m + 1 <= n
      PROVE  \E h \in [0..m + 1 -> Nat] : Accumulates(h, m + 1, docs, max)
  <2>1. PICK g \in [0..m -> Nat] : Accumulates(g, m, docs, max)
    BY <1>2
  <2> DEFINE b == Block(max, g[m], docs[m + 1])
             h == [k \in 0..m + 1 |-> IF k = m + 1 THEN g[m] + b ELSE g[k]]
  <2>2. g[m] \in Nat /\ docs[m + 1] \in Document
    BY <1>2
  <2>3. b \in Nat
    BY <2>2, BlockIsShort
  <2>4. \A k \in 0..m : h[k] = g[k]
    BY <1>2
  <2>5. h[m + 1] = g[m] + b
    OBVIOUS
  <2>6. h \in [0..m + 1 -> Nat]
    <3> HIDE DEF b
    <3>1. \A k \in 0..m + 1 : k = m + 1 \/ k \in 0..m
      OBVIOUS
    <3> QED
      BY <2>2, <2>3, <3>1
  <2> HIDE DEF h
  <2>7. \A k \in 1..m : h[k] = h[k - 1] + Block(max, h[k - 1], docs[k])
    <3> SUFFICES ASSUME NEW k \in 1..m PROVE h[k] = h[k - 1] + Block(max, h[k - 1], docs[k])
      OBVIOUS
    <3>1. h[k] = g[k] /\ h[k - 1] = g[k - 1]
      BY <2>4
    <3> QED
      BY <2>1, <3>1 DEF Accumulates
  <2>8. h[m + 1] = h[m] + Block(max, h[m], docs[m + 1]) /\ m + 1 - 1 = m
    BY <2>4, <2>5
  <2>9. \A k \in 1..m + 1 : k \in 1..m \/ k = m + 1
    OBVIOUS
  <2>10. h[0] = 0
    BY <2>1, <2>4 DEF Accumulates
  <2>11. Accumulates(h, m + 1, docs, max)
    BY <2>7, <2>8, <2>9, <2>10 DEF Accumulates
  <2> QED
    BY <2>6, <2>11
<1>3. \A m \in Nat : m \in S => m + 1 \in S
  BY <1>2
<1> HIDE DEF S
<1>4. Nat \subseteq S
  BY <1>1, <1>3, EveryNumber
<1> QED
  BY <1>4 DEF S

\* The loop's total is what its recursion says, and a natural number.
LEMMA TotalsAccumulate ==
  ASSUME NEW n \in Nat, NEW docs \in [1..n -> Document], NEW max \in Nat
  PROVE  /\ Totals(docs, max) \in [0..n -> Nat]
         /\ Accumulates(Totals(docs, max), n, docs, max)
<1> DEFINE Step(g) == [k \in 0..Len(docs) |->
                         IF k = 0 THEN 0 ELSE g[k - 1] + Block(max, g[k - 1], docs[k])]
           t == Totals(docs, max)
<1>1. Len(docs) = n
  OBVIOUS
<1>2. PICK g \in [0..n -> Nat] : Accumulates(g, n, docs, max)
  BY SomeTotals
<1>3. g = Step(g)
  <2>1. \A k \in 0..n : g[k] = IF k = 0 THEN 0 ELSE g[k - 1] + Block(max, g[k - 1], docs[k])
    BY <1>2 DEF Accumulates
  <2>2. g = [k \in 0..n |-> g[k]]
    BY <1>2
  <2>3. [k \in 0..n |-> g[k]]
          = [k \in 0..n |-> IF k = 0 THEN 0 ELSE g[k - 1] + Block(max, g[k - 1], docs[k])]
    BY <2>1
  <2> QED
    BY <1>1, <2>2, <2>3
<1>4. t = CHOOSE g2 : g2 = Step(g2)
  BY DEF Totals
<1>5. t = Step(t)
  <2> HIDE DEF Step, t
  <2> QED
    BY <1>3, <1>4
<1> HIDE DEF t
<1>6. t = [k \in 0..n |-> t[k]]
  BY <1>1, <1>5
<1>7. \A k \in 0..n : t[k] = IF k = 0 THEN 0 ELSE t[k - 1] + Block(max, t[k - 1], docs[k])
  BY <1>1, <1>5
<1>8. Accumulates(t, n, docs, max)
  BY <1>7 DEF Accumulates
<1> DEFINE S == {m \in Nat : m <= n => t[m] \in Nat}
<1>9. 0 \in S
  BY <1>8 DEF Accumulates
<1>10. ASSUME NEW m \in Nat, m \in S PROVE m + 1 \in S
  <2>1. SUFFICES ASSUME m + 1 <= n PROVE t[m + 1] \in Nat
    OBVIOUS
  <2>2. t[m] \in Nat /\ docs[m + 1] \in Document
    BY <1>10, <2>1
  <2>3. t[m + 1] = t[m] + Block(max, t[m], docs[m + 1])
    <3>1. m + 1 \in 1..n /\ m + 1 - 1 = m
      BY <2>1
    <3> QED
      BY <1>8, <3>1 DEF Accumulates
  <2>4. Block(max, t[m], docs[m + 1]) \in Nat
    BY <2>2, BlockIsShort
  <2> QED
    BY <2>2, <2>3, <2>4
<1> HIDE DEF S
<1>11. Nat \subseteq S
  BY <1>9, <1>10, EveryNumber
<1>12. \A m \in 0..n : t[m] \in Nat
  BY <1>11 DEF S
<1>13. t \in [0..n -> Nat]
  BY <1>6, <1>12
<1> QED
  BY <1>8, <1>13 DEF t

\* A context for any documents, and any limit of characters but none.
LEMMA ContextFits ==
  ASSUME NEW n \in Nat \ {0}, NEW docs \in [1..n -> Document], NEW max \in Nat \ {0}
  PROVE  /\ Shown(docs, max) \in 1..n
         /\ ContextLength(docs, max)
              <= max + docs[Shown(docs, max)].header + Snippet + 2 * (Shown(docs, max) - 1)
         /\ Shown(docs, max) < n => ContextLength(docs, max) >= max
<1> DEFINE t == Totals(docs, max)
           full == {k \in 1..n : Full(max, t[k])}
           s == Shown(docs, max)
<1>1. t \in [0..n -> Nat] /\ Accumulates(t, n, docs, max) /\ Len(docs) = n
  <2>1. n \in Nat /\ max \in Nat /\ Len(docs) = n
    OBVIOUS
  <2> QED
    BY <2>1, TotalsAccumulate
<1>2. s = Min({n} \union full)
  BY <1>1 DEF Shown
<1>3. s \in {n} \union full /\ \A j \in {n} \union full : s <= j
  <2>1. {n} \union full \in SUBSET Nat /\ {n} \union full # {}
    OBVIOUS
  <2> HIDE DEF full, s
  <2> QED
    BY <1>2, <2>1, MinIsLeast
<1>4. ContextLength(docs, max) = t[s] + 2 * (s - 1)
  BY DEF ContextLength
<1> HIDE DEF t, s
<1>5. s \in 1..n
  BY <1>3
<1>6. t[s] \in Nat /\ t[s - 1] \in Nat /\ docs[s] \in Document
  BY <1>1, <1>5
<1>7. t[s] = t[s - 1] + Block(max, t[s - 1], docs[s])
  BY <1>1, <1>5 DEF Accumulates
<1>8. t[s - 1] < max
  <2>1. CASE s = 1
    BY <1>1, <2>1 DEF Accumulates
  <2>2. CASE s # 1
    <3>1. s - 1 \in 1..n /\ s - 1 \notin full
      BY <1>3, <1>5, <2>2
    <3> QED
      BY <1>6, <3>1 DEF Full
  <2> QED
    BY <2>1, <2>2
<1>9. docs[s].header \in Nat /\ Snippet \in Nat
  BY <1>6, LengthsAssumption DEF Document
<1>10. t[s] <= max + docs[s].header + Snippet
  <2>1. /\ Block(max, t[s - 1], docs[s]) \in Nat
        /\ \/ t[s - 1] + Block(max, t[s - 1], docs[s]) < max
           \/ Block(max, t[s - 1], docs[s]) <= docs[s].header + 1 + Snippet
    <3>1. max \in Nat
      OBVIOUS
    <3> QED
      BY <1>6, <3>1, BlockIsShort
  <2> DEFINE b == Block(max, t[s - 1], docs[s])
  <2>2. t[s] = t[s - 1] + b
    BY <1>7
  <2>3. b \in Nat /\ (t[s - 1] + b < max \/ b <= docs[s].header + 1 + Snippet)
    BY <2>1
  <2> HIDE DEF b
  <2>4. \A m, x, y, c, h, z \in Nat :
          x < m /\ y = x + c /\ (x + c < m \/ c <= h + 1 + z) => y <= m + h + z
    OBVIOUS
  <2>5. max \in Nat
    OBVIOUS
  <2> QED
    BY <1>6, <1>8, <1>9, <2>2, <2>3, <2>4, <2>5
<1>11. s < n => t[s] >= max
  BY <1>3, <1>5 DEF Full
<1> QED
  BY <1>4, <1>5, <1>6, <1>9, <1>10, <1>11 DEF s

\* However long the documents that are found, their headers and max_chars, the
\* context overflows by no more than its last document's header, snippet and
\* separators, and stops short of no document that it has room for
\* (kb_index.py:63-78).
THEOREM ContextFillsItsBudgetCorrect == Spec => []ContextFillsItsBudget
<1>1. IInv => ContextFillsItsBudget
  <2> SUFFICES ASSUME IInv, NEW p \in Procs, NEW docs \in FoundBy(p), NEW max \in Budgets
               PROVE  /\ ContextLength(docs, max)
                           <= max + docs[Shown(docs, max)].header + Snippet
                                + 2 * (Shown(docs, max) - 1)
                      /\ Shown(docs, max) >= 1
                      /\ Shown(docs, max) < Len(docs) => ContextLength(docs, max) >= max
    BY DEF ContextFillsItsBudget
  <2>1. Len(Visible(p)) \in Nat
    BY DEF IInv, TypeOK, Visible
  <2>2. PICK n \in 1..Len(Visible(p)) : docs \in [1..n -> Document]
    BY DEF FoundBy
  <2>3. n \in Nat \ {0} /\ Len(docs) = n /\ max \in Nat \ {0}
    BY <2>1, <2>2, LengthsAssumption
  <2>4. /\ Shown(docs, max) \in 1..n
        /\ ContextLength(docs, max)
             <= max + docs[Shown(docs, max)].header + Snippet + 2 * (Shown(docs, max) - 1)
        /\ Shown(docs, max) < n => ContextLength(docs, max) >= max
    BY <2>2, <2>3, ContextFits
  <2>5. Shown(docs, max) >= 1
    BY <2>4
  <2> QED
    BY <2>3, <2>4, <2>5
<1> QED
  BY <1>1, Invariance, PTL
=============================================================================
