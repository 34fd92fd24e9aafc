------------------------------ MODULE KbLoader -------------------------------
(***************************************************************************)
(* load_kb() (src/core/kb_loader.py) and the KBIndex it fills              *)
(* (src/core/kb_index.py), in every server process that starts on the same *)
(* knowledge base directory: the files, which anyone may edit meanwhile,   *)
(* the file list .kb_index.json, and the SQLite database .kb_cache.db.     *)
(*                                                                         *)
(* SQLite is external.  Python opens a transaction at the first INSERT;    *)
(* it makes its process the only writer, and load_kb never commits it.     *)
(***************************************************************************)
EXTENDS Naturals, Sequences, FiniteSets

CONSTANTS Files,      \* the .md, .yaml and .json files that may be in kb/
          IndexFile,  \* .kb_index.json, itself a .json file in kb/
          MaxText,    \* texts a file may have: 1..MaxText
          Procs,      \* server processes
          None

ASSUME FilesAssumption == IsFiniteSet(Files) /\ IndexFile \notin Files
ASSUME ProcsAssumption == None \notin Procs
ASSUME MaxTextAssumption == MaxText \in Nat

Absent == 0

-----------------------------------------------------------------------------
VARIABLES
  files,     \* the text each file has now, or Absent
  index,     \* .kb_index.json: "absent", "torn" or "whole", and its entries
  committed, \* rows of the table kb that a new connection sees
  writer,    \* the process whose transaction is open
  pc,        \* control point of each process
  cached,    \* did _check_cache say that nothing changed
  todo,      \* files still to be added
  rows,      \* rows added by the process: [path, text]
  touched    \* history: the files edited since the process started to load

disk == <<files, index, committed, writer>>
proc == <<pc, cached, todo, rows>>
vars == <<disk, proc, touched>>

Row == [path : Files, text : 1..MaxText]

TypeOK ==
  /\ files \in [Files -> 0..MaxText]
  /\ index \in [kind : {"absent", "torn", "whole"}, entries : SUBSET Row]
  /\ committed \in Seq(Row)
  /\ writer \in Procs \union {None}
  /\ pc \in [Procs -> {"down", "check", "scan", "save", "writing", "ready", "failed"}]
  /\ cached \in [Procs -> BOOLEAN]
  /\ todo \in [Procs -> SUBSET Files]
  /\ rows \in [Procs -> Seq(Row)]
  /\ touched \in [Procs -> SUBSET Files]

Init ==
  /\ files \in [Files -> 0..MaxText]
  /\ index = [kind |-> "absent", entries |-> {}]
  /\ committed = <<>>
  /\ writer = None
  /\ pc = [p \in Procs |-> "down"]
  /\ cached = [p \in Procs |-> FALSE]
  /\ todo = [p \in Procs |-> {}]
  /\ rows = [p \in Procs |-> <<>>]
  /\ touched = [p \in Procs |-> {}]

Goto(p, from, to) == pc[p] = from /\ pc' = [pc EXCEPT ![p] = to]

Present == {f \in Files : files[f] # Absent}

RowsOf(p) == {rows[p][i] : i \in 1..Len(rows[p])}

-----------------------------------------------------------------------------
(* load_kb                                                                 *)

Start(p) ==
  /\ Goto(p, "down", "check")
  /\ touched' = [touched EXCEPT ![p] = {}]
  /\ UNCHANGED <<disk, cached, todo, rows>>

\* The files _check_cache counts: no exception is made for its own.
Indexed == Present \union {IndexFile}

IndexedPaths == {e.path : e \in index.entries}

CacheHit ==
  /\ index.kind = "whole"
  /\ Cardinality(Indexed) = Cardinality(index.entries)
  /\ IndexedPaths \subseteq Indexed

CheckCache(p) ==
  /\ Goto(p, "check", "scan")
  /\ cached' = [cached EXCEPT ![p] = CacheHit]
  /\ todo' = [todo EXCEPT ![p] = IF CacheHit THEN IndexedPaths ELSE Present]
  /\ UNCHANGED <<disk, rows, touched>>

\* A cached entry whose file is gone is served with the text it had.
TextOf(p, f) ==
  IF cached[p] /\ files[f] = Absent
  THEN (CHOOSE e \in index.entries : e.path = f).text
  ELSE files[f]

MayWrite(p) == writer \in {None, p}

Readable_Always(p, f) == TRUE   \* mutant: no is_file()

Readable(p, f) == files[f] # Absent \/ cached[p]

AddDocument(p) ==
  /\ pc[p] = "scan" /\ MayWrite(p)
  /\ writer' = p
  /\ \E f \in todo[p] :
       /\ Readable(p, f)
       /\ rows' = [rows EXCEPT ![p] = Append(@, [path |-> f, text |-> TextOf(p, f)])]
       /\ todo' = [todo EXCEPT ![p] = @ \ {f}]
  /\ UNCHANGED <<files, index, committed, pc, cached, touched>>

\* Listed, and gone before is_file().
SkipFile(p) ==
  /\ pc[p] = "scan" /\ ~cached[p]
  /\ \E f \in todo[p] : files[f] = Absent /\ todo' = [todo EXCEPT ![p] = @ \ {f}]
  /\ UNCHANGED <<disk, pc, cached, rows, touched>>

Scanned(p) ==
  /\ todo[p] = {}
  /\ Goto(p, "scan", IF cached[p] THEN "ready" ELSE "save")
  /\ UNCHANGED <<disk, cached, todo, rows, touched>>

\* write_text truncates the file, then fills it.
SaveBegins(p) ==
  /\ Goto(p, "save", "writing")
  /\ index' = [kind |-> "torn", entries |-> {}]
  /\ UNCHANGED <<files, committed, writer, cached, todo, rows, touched>>

SaveEnds(p) ==
  /\ Goto(p, "writing", "ready")
  /\ index' = [kind |-> "whole", entries |-> RowsOf(p)]
  /\ UNCHANGED <<files, committed, writer, cached, todo, rows, touched>>

Outcome_Commits(p) == committed' = committed \o rows[p]   \* mutant

\* What a closed connection leaves behind: nothing, it was never committed.
Outcome(p) == UNCHANGED committed

Unlock_Not(p) == UNCHANGED writer   \* mutant

Unlock(p) == writer' = IF writer = p THEN None ELSE writer

CloseDb(p) ==
  /\ Outcome(p)
  /\ Unlock(p)
  /\ rows' = [rows EXCEPT ![p] = <<>>]
  /\ todo' = [todo EXCEPT ![p] = {}]

\* A file cannot be read or decoded, the database stays locked for its busy
\* timeout, or the list cannot be written: the server goes on without a KB.
LoadFails(p) ==
  /\ pc[p] \in {"check", "scan", "save", "writing"}
  /\ pc' = [pc EXCEPT ![p] = "failed"]
  /\ CloseDb(p)
  /\ UNCHANGED <<files, index, cached, touched>>

-----------------------------------------------------------------------------
(* The process exits or is killed; anyone edits the files.                 *)

Exit(p) ==
  /\ pc[p] # "down"
  /\ pc' = [pc EXCEPT ![p] = "down"]
  /\ CloseDb(p)
  /\ cached' = [cached EXCEPT ![p] = FALSE]
  /\ UNCHANGED <<files, index, touched>>

Edit ==
  /\ \E f \in Files : \E text \in 0..MaxText \ {files[f]} :
       /\ files' = [files EXCEPT ![f] = text]
       /\ touched' = [p \in Procs |-> touched[p] \union {f}]
  /\ UNCHANGED <<index, committed, writer, proc>>

Load(p) ==
  \/ CheckCache(p) \/ AddDocument(p) \/ SkipFile(p) \/ Scanned(p)
  \/ SaveBegins(p) \/ SaveEnds(p) \/ LoadFails(p)

Next == Edit \/ \E p \in Procs : Start(p) \/ Load(p) \/ Exit(p)

Spec == Init /\ [][Next]_vars

-----------------------------------------------------------------------------
(* Properties                                                              *)

\* The rows the connection of p sees.
Visible(p) == committed \o rows[p]

CopiesOf(p, f) == {i \in 1..Len(Visible(p)) : Visible(p)[i].path = f}

\* A process that serves a KB serves every file that was not edited since it
\* started to load, once, with the text it has, and no file that was not
\* there: restarts, crashes and half-written lists leave no second copy, no
\* old text and no gap, although the database file is kept and every start
\* inserts every document again (kb_loader.py:18-56, kb_index.py:22-32).
ServesFilesOnce ==
  \A p \in Procs : pc[p] = "ready" =>
    \A f \in Files \ touched[p] :
      /\ Cardinality(CopiesOf(p, f)) = (IF files[f] = Absent THEN 0 ELSE 1)
      /\ \A i \in CopiesOf(p, f) : Visible(p)[i].text = files[f]

\* Two processes never hold rows at a time, and whoever keeps the others from
\* writing is loading or serving: a failed load or a dead process gives the
\* database back (kb_loader.py:18, api/server.py:195-200).
OneWriter ==
  \A p \in Procs :
    /\ rows[p] # <<>> => writer = p
    /\ writer = p => pc[p] \in {"scan", "save", "writing", "ready"}

\* What a server searches does not change under it, whatever is edited and
\* whoever else starts, fails or dies on the same database file: its connection
\* would see what others commit, but nobody does, and only its own end takes
\* its rows away (kb_index.py:22-32, kb_loader.py:18-56).
KnowledgeIsStable ==
  [][\A p \in Procs : pc[p] = "ready" /\ pc'[p] = "ready" => Visible(p)' = Visible(p)]_vars
=============================================================================
