----------------------------- MODULE ChatContext -----------------------------
(***************************************************************************)
(* What the model is given for a chat: the client's messages, with what    *)
(* the knowledge base and a tool add to them (src/api/server.py), reduced  *)
(* to one prompt (src/core/prompt_normalizer.py), and the persona that     *)
(* decides on the tool (src/core/persona_router.py).                       *)
(*                                                                         *)
(* A content is the set of things it says: the empty string says nothing,  *)
(* white space only "space".  A prompt is its system section and the       *)
(* messages it keeps, at the positions they had.                           *)
(***************************************************************************)
EXTENDS Naturals, Sequences, FiniteSets

CONSTANTS Window,  \* messages a prompt keeps: 8 in the code
          MaxDocs, \* documents one search returns: 4 in the code
          Excerpt  \* what the documents found for a question say, the best first

ASSUME WindowAssumption == Window \in Nat \ {0}
ASSUME MaxDocsAssumption == MaxDocs \in Nat

-----------------------------------------------------------------------------
Parts == {"space", "question", "earlier", "reply", "client"}

ServerParts == {"kb", "no_info", "tool"}

ASSUME ExcerptAssumption ==
  \A k \in 1..MaxDocs : Excerpt[k] \notin Parts \union ServerParts \union {"default"}

\* A client's message; those of the server say ServerParts and excerpts.
Message ==
  [role : {"system", "System", "user", "assistant", "developer"}, says : SUBSET Parts]

Says(role, what) == [role |-> role, says |-> {what}]

Blank(content) == content \subseteq {"space"}

Greatest(S) == CHOOSE i \in S : \A j \in S : j <= i
Least(S)    == CHOOSE i \in S : \A j \in S : i <= j

\* The content of the last message whose role is literally "user".
LastUser(ms) ==
  LET users == {i \in DOMAIN ms : ms[i].role = "user"}
  IN  IF users = {} THEN {} ELSE ms[Greatest(users)].says

-----------------------------------------------------------------------------
(* PersonaRouter.route: how many keywords of each kind a text has, whether *)
(* it sounds destructive or secret, and whether it names the cloud or VPS. *)

Query == [infra : Nat, code : Nat, destructive : BOOLEAN, secret : BOOLEAN, cloud : BOOLEAN]

Persona(q) ==
  IF \/ q.infra > q.code
     \/ q.destructive /\ q.infra > 0
     \/ q.secret /\ (q.infra > 0 \/ q.cloud)
  THEN "infra" ELSE "code"

-----------------------------------------------------------------------------
(* _augment_messages_with_rag and the tool's message                       *)

AtFront(m, ms) == <<m>> \o ms

Systems(ms) == {i \in DOMAIN ms : ms[i].role = "system"}

\* The context when fit documents, the best ones, fit into it (KbSearch.Shown).
Context(fit) == {"kb"} \union {Excerpt[k] : k \in 1..fit}

ContextMessage(fit) == [role |-> "system", says |-> Context(fit)]

Inject_NewMessage(ms, fit) == AtFront(ContextMessage(fit), ms)   \* mutant

\* The context goes into the first system message, or one of its own.
Inject(ms, fit) ==
  IF Systems(ms) = {} THEN AtFront(ContextMessage(fit), ms)
  ELSE [ms EXCEPT ![Least(Systems(ms))].says = @ \union Context(fit)]

\* If anything is found, one document at least fits.
Augment(ms, kb, fit) ==
  IF LastUser(ms) = {} \/ ~kb THEN ms
  ELSE IF fit = 0 THEN AtFront(Says("system", "no_info"), ms)
  ELSE Inject(ms, fit)

\* The messages router.run gets.
Given(ms, kb, fit, explained) ==
  IF explained THEN AtFront(Says("system", "tool"), Augment(ms, kb, fit))
  ELSE Augment(ms, kb, fit)

-----------------------------------------------------------------------------
(* PromptNormalizer.normalize                                              *)

\* The role a message is taken for.
Role(m) == CASE m.role \in {"system", "System"} -> "system"
             [] m.role = "assistant"            -> "assistant"
             [] OTHER                           -> "user"

Spoken(ms, role) == {i \in DOMAIN ms : Role(ms[i]) = role /\ ~Blank(ms[i].says)}

SystemPrompt(ms) ==
  LET systems == Spoken(ms, "system")
  IN  IF systems = {} THEN {"default"} ELSE ms[Greatest(systems)].says

Turns(ms) == Spoken(ms, "user") \union Spoken(ms, "assistant")

\* Without a question, a greeting follows what was said, and takes a place.
Greets(ms) == Spoken(ms, "user") = {}

Room(ms) == IF Greets(ms) THEN Window - 1 ELSE Window

Recent_First(ms) ==   \* mutant: the first messages instead of the last
  {i \in Turns(ms) : Cardinality({j \in Turns(ms) : j < i}) < Room(ms)}

Recent(ms) == {i \in Turns(ms) : Cardinality({j \in Turns(ms) : j > i}) < Room(ms)}

Normalize(ms) == [system |-> SystemPrompt(ms),
                  turns  |-> [i \in Recent(ms) |-> ms[i]],
                  greets |-> Greets(ms)]

\* Does the client speak of itself as "system" at most once, and so spelled?
OneSystemVoice(ms) ==
  \A i, j \in DOMAIN ms : Role(ms[i]) = "system" /\ Role(ms[j]) = "system" =>
    i = j /\ ms[i].role = "system"
=============================================================================
