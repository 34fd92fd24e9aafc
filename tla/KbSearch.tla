------------------------------ MODULE KbSearch -------------------------------
(***************************************************************************)
(* What a server that has loaded its knowledge base (KbLoader) finds for a *)
(* question, and what of it fits before the model: KBIndex.search and      *)
(* format_context (src/core/kb_index.py), as the chat calls them           *)
(* (src/api/server.py).  Both only read.                                   *)
(*                                                                         *)
(* A question is the words it has once punctuation is gone, whether one of *)
(* them is no FTS5 word (a hyphen in it, or AND, OR, NOT), and whether     *)
(* that leaves less than two characters.  How SQLite ranks is external:    *)
(* rows that match come in any order.  Lengths are in characters.          *)
(***************************************************************************)
EXTENDS KbLoader, Integers, FiniteSetsExt

CONSTANTS Words,
          Letters,  \* the words of one character
          Folder,   \* the first directory of each file's path
          About,    \* the words of each text
          Snippet,  \* characters a document always gets: 50 in the code
          Limits,   \* limits a search may be given: 4 by the server
          Lengths,  \* of headers and texts
          Budgets   \* values of max_chars: 3500 by the server

ASSUME FolderAssumption == Folder \in [Files -> {"infra", "code", "general"}]
ASSUME LettersAssumption == Letters \subseteq Words
ASSUME AboutAssumption == About \in [1..MaxText -> SUBSET Words]
ASSUME LengthsAssumption ==
  /\ Limits \subseteq Nat \ {0} /\ Lengths \subseteq Nat
  /\ Budgets \subseteq Nat \ {0} /\ Snippet \in Nat

Personas == {"infra", "code"}

Question ==
  {q \in [words : SUBSET Words, odd : BOOLEAN, short : BOOLEAN] :
     q.short => q.words = {} \/ \E w \in Letters : q.words = {w}}

-----------------------------------------------------------------------------
(* search                                                                  *)

Hits_All(row, q) == q.words # {} /\ q.words \subseteq About[row.text]   \* mutant: no OR

\* One word is enough.
Hits(row, q) == q.words \intersect About[row.text] # {}

Matches(p, q, persona) ==
  {i \in DOMAIN Visible(p) : Hits(Visible(p)[i], q) /\ Folder[Visible(p)[i].path] = persona}

Rankings(S, limit) ==
  {s \in [1..Min({limit, Cardinality(S)}) -> S] :
     \A i, j \in DOMAIN s : s[i] = s[j] => i = j}

\* A question that is cleaned away is not asked; a word that is none for FTS5
\* is a syntax error.  Both mean nothing found.
Understood(q) == ~q.short /\ ~q.odd

Search(p, q, persona, limit) ==
  IF Understood(q) THEN Rankings(Matches(p, q, persona), limit) ELSE {<<>>}

-----------------------------------------------------------------------------
(* format_context                                                          *)

Document == [header : Lengths, text : Lengths]

Room_All(max, total, d) == max - d.header - 2   \* mutant: what is there already

Room(max, total, d) == max - total - d.header - 2

Block(max, total, d) ==
  d.header + 1 + Min({d.text, IF Room(max, total, d) > Snippet THEN Room(max, total, d)
                              ELSE Snippet})

\* total after each block, if the loop goes so far.
Totals(docs, max) ==
  LET total[k \in 0..Len(docs)] ==
        IF k = 0 THEN 0 ELSE total[k - 1] + Block(max, total[k - 1], docs[k])
  IN  total

Full(max, total) == total >= max

\* The documents that are shown: the first ones, until the context is full.
Shown(docs, max) ==
  Min({Len(docs)} \union {k \in 1..Len(docs) : Full(max, Totals(docs, max)[k])})

ContextLength(docs, max) ==
  Totals(docs, max)[Shown(docs, max)] + 2 * (Shown(docs, max) - 1)

-----------------------------------------------------------------------------
(* Properties                                                              *)

Serving(p) == pc[p] = "ready"

\* Whatever restarts, crashes and edits came before, a question of plain words
\* and two characters or more finds each document of its persona's folder that
\* has one of its words, unless others fill the limit; and what any question
\* finds is a file as it is, once, except files edited since the start
\* (kb_index.py:39-61, 84-90, server.py:88-94).
KnowledgeIsFound ==
  \A p \in Procs, q \in Question, persona \in Personas, limit \in Limits :
    Serving(p) => \A found \in Search(p, q, persona, limit) :
      LET paths == [i \in DOMAIN found |-> Visible(p)[found[i]].path]
      IN  /\ \A i \in DOMAIN found : Folder[paths[i]] = persona
          /\ \A f \in Files \ touched[p] :
               files[f] # Absent /\ Folder[f] = persona
                 /\ Understood(q) /\ q.words \intersect About[files[f]] # {}
               => Len(found) = limit \/ \E i \in DOMAIN found : paths[i] = f
          /\ \A i \in DOMAIN found : paths[i] \notin touched[p] =>
               /\ Visible(p)[found[i]].text = files[paths[i]]
               /\ \A j \in DOMAIN found : paths[j] = paths[i] => j = i

\* The documents a search of p may return, of any lengths.
FoundBy(p) ==
  UNION {[1..n -> Document] :
           n \in {k \in 1..Len(Visible(p)) : \E limit \in Limits : k <= limit}}

\* However the lengths fall, a context is longer than max_chars by no more
\* than the header and the snippet of its last document, and the separators
\* that total forgets (kb_index.py:68-77; test_kb_index.py:49 allows "slight
\* overflow").  And it is not shorter than need be: the best document is always
\* shown, and those left out, which the response reports all the same
\* (server.py:97), are left out only because the context is full (:75).
ContextFillsItsBudget ==
  \A p \in Procs : Serving(p) => \A docs \in FoundBy(p), max \in Budgets :
    /\ ContextLength(docs, max)
         <= max + docs[Shown(docs, max)].header + Snippet + 2 * (Shown(docs, max) - 1)
    /\ Shown(docs, max) >= 1
    /\ Shown(docs, max) < Len(docs) => ContextLength(docs, max) >= max
=============================================================================
