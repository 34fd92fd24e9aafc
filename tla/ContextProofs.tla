---------------------------- MODULE ContextProofs -----------------------------
(***************************************************************************)
(* What a prompt keeps of a conversation, for every conversation, window   *)
(* and number of documents.                                                *)
(*                                                                         *)
(* The messages the router gets are the client's behind at most two of the *)
(* server's (Framed); what the normaliser takes from them then depends on  *)
(* the last system message and on how many turns follow the question.      *)
(***************************************************************************)
EXTENDS ChatContext, FiniteSetTheorems, WellFoundedInduction, TLAPS

Smaller == {p \in Nat \X Nat : p[1] < p[2]}

LEMMA LeastExists ==
  ASSUME NEW S \in SUBSET Nat, S # {}
  PROVE  \E i \in S : \A j \in S : i <= j
<1>1. IsWellFoundedOn(Smaller, Nat)
  BY NatLessThanWellFounded DEF OpToRel, Smaller
<1>2. PICK i \in S : \A j \in S : <<j, i>> \notin Smaller
  BY <1>1, WFMin
<1>3. ASSUME NEW j \in S PROVE i <= j
  <2>1. <<j, i>> \in Nat \X Nat /\ <<j, i>>[1] = j /\ <<j, i>>[2] = i
    OBVIOUS
  <2>2. ~(j < i)
    BY <1>2, <2>1 DEF Smaller
  <2>3. j \in Nat /\ i \in Nat
    OBVIOUS
  <2>4. QED
    BY <2>2, <2>3
<1>4. QED
  BY <1>3

\* Greatest(S) is what its name says.
LEMMA GreatestIs ==
  ASSUME NEW n \in Nat, NEW S \in SUBSET (1..n), S # {}
  PROVE  Greatest(S) \in S /\ \A j \in S : j <= Greatest(S)
<1> DEFINE T == {n - i : i \in S}
<1>1. T \in SUBSET Nat
  <2>1. \A i \in S : i \in 1..n
    OBVIOUS
  <2>2. \A i \in 1..n : n - i \in Nat
    OBVIOUS
  <2>3. QED
    BY <2>1, <2>2, Zenon
<1>2. T # {}
  OBVIOUS
<1>3. PICK m \in T : \A j \in T : m <= j
  BY <1>1, <1>2, LeastExists
<1>4. PICK i \in S : m = n - i
  OBVIOUS
<1>5. ASSUME NEW j \in S PROVE j <= i
  <2>1. n - j \in T
    OBVIOUS
  <2>2. n - i <= n - j
    BY <1>3, <1>4, <2>1
  <2>3. i \in 1..n /\ j \in 1..n
    OBVIOUS
  <2>4. QED
    BY <2>2, <2>3
<1>6. QED
  BY <1>5 DEF Greatest

-----------------------------------------------------------------------------
(* What the server adds                                                    *)

Added == ServerParts \union {Excerpt[k] : k \in 1..MaxDocs}

AnyMessage ==
  [role : {"system", "System", "user", "assistant", "developer"},
   says : SUBSET (Parts \union Added)]

SystemMessage(content) == [role |-> "system", says |-> content]

\* A context is of the server's words, and is not blank.
LEMMA ContextSays ==
  ASSUME NEW fit \in 0..MaxDocs
  PROVE  /\ Context(fit) \in SUBSET Added /\ ~Blank(Context(fit)) /\ "tool" \notin Context(fit)
         /\ ContextMessage(fit) = SystemMessage(Context(fit))
<1>1. Context(fit) \in SUBSET Added
  BY MaxDocsAssumption DEF Context, Added, ServerParts
<1>2. ~Blank(Context(fit))
  BY DEF Context, Blank
<1>3. "tool" \notin Context(fit)
  <2>1. \A k \in 1..fit : k \in 1..MaxDocs
    BY MaxDocsAssumption
  <2>2. \A k \in 1..fit : Excerpt[k] # "tool"
    BY <2>1, ExcerptAssumption DEF ServerParts
  <2>3. QED
    BY <2>2 DEF Context
<1>4. QED
  BY <1>1, <1>2, <1>3 DEF ContextMessage, SystemMessage

\* So is any word of the server's.
LEMMA WordSays ==
  ASSUME NEW word \in ServerParts
  PROVE  /\ {word} \in SUBSET Added /\ ~Blank({word})
         /\ Says("system", word) = SystemMessage({word})
BY DEF Added, ServerParts, Blank, Says, SystemMessage

\* The server's words are at the front or in a system message of the client's.
Framed(g, k, ms) ==
  /\ g \in Seq(AnyMessage)
  /\ Len(g) = k + Len(ms)
  /\ \A i \in 1..k : g[i].role = "system" /\ ~Blank(g[i].says)
  /\ \A i \in 1..Len(ms) :
       /\ g[k + i].role = ms[i].role
       /\ ms[i].role # "system" => g[k + i] = ms[i]

LEMMA ClientFramed ==
  ASSUME NEW ms \in Seq(Message)
  PROVE  Framed(ms, 0, ms)
<1>1. \A x \in Message : x \in AnyMessage
  BY DEF Message, AnyMessage
<1>2. ms \in Seq(AnyMessage)
  BY <1>1
<1>3. QED
  BY <1>2 DEF Framed

LEMMA FrontFramed ==
  ASSUME NEW ms \in Seq(Message), NEW k \in Nat, NEW g, Framed(g, k, ms),
         NEW content \in SUBSET Added, ~Blank(content)
  PROVE  /\ Framed(AtFront(SystemMessage(content), g), k + 1, ms)
         /\ AtFront(SystemMessage(content), g)[1].says = content
         /\ \A i \in 1..Len(g) : AtFront(SystemMessage(content), g)[i + 1] = g[i]
<1> DEFINE m == SystemMessage(content)
           h == AtFront(m, g)
<1>1. m.role = "system" /\ m.says = content /\ ~Blank(m.says)
  BY DEF SystemMessage
<1>2. m \in AnyMessage
  BY DEF SystemMessage, AnyMessage
<1>3. /\ h \in Seq(AnyMessage)
      /\ Len(h) = Len(g) + 1 /\ h[1] = m
      /\ \A i \in 1..Len(g) : h[i + 1] = g[i]
  <2>1. g \in Seq(AnyMessage)
    BY DEF Framed
  <2>2. h = <<m>> \o g
    BY DEF AtFront
  <2> HIDE DEF m, h
  <2>3. QED
    BY <1>2, <2>1, <2>2
<1>4. Len(ms) \in Nat /\ Len(h) = (k + 1) + Len(ms)
  BY <1>3 DEF Framed
<1>5. ASSUME NEW i \in 1..(k + 1) PROVE h[i].role = "system" /\ ~Blank(h[i].says)
  <2>1. CASE i = 1
    BY <2>1, <1>1, <1>3
  <2>2. CASE i # 1
    <3>1. i - 1 \in 1..k /\ i - 1 \in 1..Len(g) /\ (i - 1) + 1 = i
      BY <2>2, <1>4 DEF Framed
    <3>2. h[i] = g[i - 1]
      BY <3>1, <1>3
    <3>3. QED
      BY <3>1, <3>2 DEF Framed
  <2>3. QED
    BY <2>1, <2>2
<1>6. ASSUME NEW i \in 1..Len(ms)
      PROVE  h[(k + 1) + i].role = ms[i].role /\ (ms[i].role # "system" => h[(k + 1) + i] = ms[i])
  <2>1. k + i \in 1..Len(g) /\ (k + i) + 1 = (k + 1) + i
    BY <1>4 DEF Framed
  <2>2. h[(k + 1) + i] = g[k + i]
    BY <2>1, <1>3
  <2>3. QED
    BY <2>2 DEF Framed
<1>7. Framed(h, k + 1, ms)
  BY <1>3, <1>4, <1>5, <1>6 DEF Framed
<1> HIDE DEF m
<1>8. QED
  BY <1>1, <1>3, <1>7 DEF m

\* A client's messages say nothing of the server's.
LEMMA ClientSays ==
  ASSUME NEW ms \in Seq(Message), NEW i \in 1..Len(ms)
  PROVE  ms[i].says \subseteq Parts /\ "tool" \notin ms[i].says
<1>1. ms[i] \in Message
  OBVIOUS
<1>2. QED
  BY <1>1 DEF Message, Parts

\* Documents go behind the client's first system message, if it has one.
LEMMA InjectedFramed ==
  ASSUME NEW ms \in Seq(Message), Systems(ms) # {}, NEW fit \in 0..MaxDocs
  PROVE  /\ Framed(Inject(ms, fit), 0, ms)
         /\ Least(Systems(ms)) \in Systems(ms)
         /\ \A i \in 1..Len(ms) :
              Inject(ms, fit)[i].says
                = IF i = Least(Systems(ms)) THEN ms[i].says \union Context(fit) ELSE ms[i].says
<1> DEFINE s == Least(Systems(ms))
           g == Inject(ms, fit)
<1>1. s \in Systems(ms)
  <2>1. Systems(ms) \in SUBSET Nat
    BY DEF Systems
  <2>2. \E i \in Systems(ms) : \A j \in Systems(ms) : i <= j
    BY <2>1, LeastExists
  <2>3. QED
    BY <2>2 DEF Least
<1>2. s \in 1..Len(ms) /\ ms[s].role = "system" /\ ms[s] \in Message
  BY <1>1 DEF Systems
<1>3. g = [ms EXCEPT ![s] = [ms[s] EXCEPT !.says = ms[s].says \union Context(fit)]]
  BY DEF Inject
<1> HIDE DEF s, g
<1>4. [ms[s] EXCEPT !.says = ms[s].says \union Context(fit)] \in AnyMessage
  BY <1>2, ContextSays DEF Message, AnyMessage
<1>5. ms \in Seq(AnyMessage)
  BY ClientFramed DEF Framed
<1>6. g \in Seq(AnyMessage) /\ Len(g) = Len(ms)
  BY <1>2, <1>3, <1>4, <1>5
<1>7. ASSUME NEW i \in 1..Len(ms)
      PROVE  /\ g[i].role = ms[i].role
             /\ ms[i].role # "system" => g[i] = ms[i]
             /\ g[i].says = IF i = s THEN ms[i].says \union Context(fit) ELSE ms[i].says
  <2>1. ms[i] \in Message
    OBVIOUS
  <2>2. CASE i = s
    BY <1>2, <1>3, <2>1, <2>2 DEF Message
  <2>3. CASE i # s
    BY <1>2, <1>3, <2>3
  <2>4. QED
    BY <2>2, <2>3
<1>8. Framed(g, 0, ms)
  <2>1. \A i \in 1..Len(ms) : 0 + i = i
    OBVIOUS
  <2>2. 1..0 = {} /\ Len(g) = 0 + Len(ms)
    BY <1>6
  <2>3. QED
    BY <1>6, <1>7, <2>1, <2>2 DEF Framed
<1>9. QED
  BY <1>1, <1>7, <1>8 DEF s, g
-----------------------------------------------------------------------------
(* The system section                                                      *)

LEMMA RoleIs ==
  ASSUME NEW m \in AnyMessage
  PROVE  /\ Role(m) = "system" <=> m.role \in {"system", "System"}
         /\ Role(m) = "user" <=> m.role \in {"user", "developer"}
         /\ Role(m) = "assistant" <=> m.role = "assistant"
<1>1. m.role \in {"system", "System", "user", "assistant", "developer"}
  BY DEF AnyMessage
<1>2. CASE m.role \in {"system", "System"}
  BY <1>2 DEF Role
<1>3. CASE m.role = "assistant"
  BY <1>3 DEF Role
<1>4. CASE m.role \in {"user", "developer"}
  BY <1>4 DEF Role
<1>5. QED
  BY <1>1, <1>2, <1>3, <1>4

\* The last of several system messages is the one that is kept.
LEMMA LastSystemWins ==
  ASSUME NEW g \in Seq(AnyMessage), NEW p \in Spoken(g, "system")
  PROVE  \E q \in Spoken(g, "system") :
           /\ SystemPrompt(g) = g[q].says
           /\ \A j \in Spoken(g, "system") : j <= q
<1> DEFINE S == Spoken(g, "system")
<1>1. S \in SUBSET (1..Len(g)) /\ S # {} /\ Len(g) \in Nat
  BY DEF Spoken
<1>2. SystemPrompt(g) = g[Greatest(S)].says
  BY <1>1 DEF SystemPrompt
<1> HIDE DEF S
<1>3. Greatest(S) \in S /\ \A j \in S : j <= Greatest(S)
  BY <1>1, GreatestIs
<1>4. QED
  BY <1>2, <1>3 DEF S

\* With a knowledge base and a question, the server's word is always there.
LEMMA AugmentSpeaks ==
  ASSUME NEW ms \in Seq(Message), NEW fit \in 0..MaxDocs, LastUser(ms) # {}
  PROVE  /\ Augment(ms, TRUE, fit) \in Seq(AnyMessage)
         /\ Spoken(Augment(ms, TRUE, fit), "system") # {}
         /\ \A i \in 1..Len(Augment(ms, TRUE, fit)) :
              "tool" \notin Augment(ms, TRUE, fit)[i].says
<1> DEFINE g == Augment(ms, TRUE, fit)
<1>1. CASE fit = 0 \/ Systems(ms) = {}
  <2> DEFINE content == IF fit = 0 THEN {"no_info"} ELSE Context(fit)
  <2>1. /\ g = AtFront(SystemMessage(content), ms)
        /\ content \in SUBSET Added /\ ~Blank(content) /\ "tool" \notin content
    BY <1>1, ContextSays, WordSays DEF Augment, Inject, ServerParts
  <2> HIDE DEF g, content
  <2>2. /\ Framed(g, 1, ms) /\ g[1].says = content
        /\ \A i \in 1..Len(ms) : g[i + 1] = ms[i]
    BY <2>1, ClientFramed, FrontFramed
  <2>3. g \in Seq(AnyMessage) /\ 1 \in 1..Len(g) /\ Len(g) = 1 + Len(ms)
        /\ g[1].role = "system" /\ ~Blank(g[1].says)
    <3>1. 1 \in 1..1 /\ Len(ms) \in Nat
      OBVIOUS
    <3>2. g \in Seq(AnyMessage) /\ Len(g) = 1 + Len(ms)
      BY <2>2 DEF Framed
    <3>3. g[1].role = "system" /\ ~Blank(g[1].says)
      BY <2>2, <3>1 DEF Framed
    <3>4. QED
      BY <3>1, <3>2, <3>3
  <2>4. 1 \in Spoken(g, "system")
    BY <2>3, RoleIs DEF Spoken
  <2>5. ASSUME NEW i \in 1..Len(g) PROVE "tool" \notin g[i].says
    <3>1. CASE i = 1
      BY <2>1, <2>2, <3>1
    <3>2. CASE i # 1
      <4>1. i - 1 \in 1..Len(ms) /\ (i - 1) + 1 = i
        BY <2>3, <3>2
      <4>2. QED
        BY <2>2, <4>1, ClientSays
    <3>3. QED
      BY <3>1, <3>2
  <2>6. QED
    BY <2>3, <2>4, <2>5 DEF g
<1>2. CASE fit # 0 /\ Systems(ms) # {}
  <2> DEFINE s == Least(Systems(ms))
  <2>1. g = Inject(ms, fit)
    BY <1>2 DEF Augment
  <2> HIDE DEF g
  <2>2. /\ Framed(g, 0, ms) /\ s \in Systems(ms)
        /\ \A i \in 1..Len(ms) :
             g[i].says = IF i = s THEN ms[i].says \union Context(fit) ELSE ms[i].says
    BY <1>2, <2>1, InjectedFramed
  <2> HIDE DEF s
  <2>3. g \in Seq(AnyMessage) /\ Len(g) = Len(ms)
    BY <2>2 DEF Framed
  <2>4. s \in 1..Len(ms) /\ ms[s].role = "system"
    BY <2>2 DEF Systems
  <2>5. g[s].role = "system"
    <3>1. 0 + s = s
      BY <2>4
    <3>2. QED
      BY <2>2, <2>4, <3>1 DEF Framed
  <2>6. s \in Spoken(g, "system")
    <3>1. "kb" \in g[s].says
      BY <2>2, <2>4 DEF Context
    <3>2. QED
      BY <2>3, <2>4, <2>5, <3>1, RoleIs DEF Spoken, Blank
  <2>7. ASSUME NEW i \in 1..Len(g) PROVE "tool" \notin g[i].says
    <3>1. i \in 1..Len(ms) /\ "tool" \notin ms[i].says
      BY <2>3, ClientSays
    <3>2. g[i].says = ms[i].says \union Context(fit) \/ g[i].says = ms[i].says
      BY <2>2, <3>1
    <3>3. QED
      BY <3>1, <3>2, ContextSays
  <2>8. QED
    BY <2>3, <2>6, <2>7 DEF g
<1>3. QED
  BY <1>1, <1>2

\* A tool's output, put before what the knowledge base adds, is not in the
\* system section (server.py:497, prompt_normalizer.py:37).
LEMMA ToolIsHidden ==
  ASSUME NEW ms \in Seq(Message), NEW fit \in 0..MaxDocs, NEW explained \in BOOLEAN,
         explained => LastUser(ms) # {}
  PROVE  "tool" \notin SystemPrompt(Given(ms, TRUE, fit, explained))
<1> DEFINE a == Augment(ms, TRUE, fit)
           g == Given(ms, TRUE, fit, explained)
<1>1. CASE LastUser(ms) = {}
  <2>1. g = ms
    BY <1>1 DEF Given, Augment
  <2>2. CASE Spoken(ms, "system") = {}
    BY <2>1, <2>2 DEF SystemPrompt
  <2>3. CASE Spoken(ms, "system") # {}
    <3>1. PICK q \in Spoken(ms, "system") : SystemPrompt(ms) = ms[q].says
      BY <2>3, LastSystemWins, ClientFramed DEF Framed
    <3>2. q \in 1..Len(ms)
      BY DEF Spoken
    <3>3. QED
      BY <2>1, <3>1, <3>2, ClientSays
  <2>4. QED
    BY <2>2, <2>3
<1>2. CASE LastUser(ms) # {}
  <2>1. a \in Seq(AnyMessage) /\ \A i \in 1..Len(a) : "tool" \notin a[i].says
    BY <1>2, AugmentSpeaks
  <2>2. PICK p : p \in Spoken(a, "system")
    BY <1>2, AugmentSpeaks
  <2> HIDE DEF a
  <2>3. CASE ~explained
    <3>1. g = a
      BY <2>3 DEF Given, a
    <3>2. PICK q \in Spoken(a, "system") : SystemPrompt(a) = a[q].says
      BY <2>1, <2>2, LastSystemWins
    <3>3. q \in 1..Len(a)
      BY DEF Spoken
    <3>4. QED
      BY <2>1, <3>1, <3>2, <3>3
  <2>4. CASE explained
    <3>1. g = AtFront(Says("system", "tool"), a)
      BY <2>4 DEF Given, a
    <3> HIDE DEF g
    <3>2. /\ g \in Seq(AnyMessage) /\ Len(g) = Len(a) + 1
          /\ \A i \in 1..Len(a) : g[i + 1] = a[i]
      <4>1. Says("system", "tool") \in AnyMessage
        BY DEF Says, AnyMessage, Added, ServerParts
      <4>2. QED
        BY <2>1, <3>1, <4>1 DEF AtFront
    <3>3. p + 1 \in Spoken(g, "system") /\ p \in 1..Len(a)
      BY <2>2, <3>2 DEF Spoken
    <3>4. PICK q \in Spoken(g, "system") :
            SystemPrompt(g) = g[q].says /\ \A j \in Spoken(g, "system") : j <= q
      BY <3>2, <3>3, LastSystemWins
    <3>5. q \in 1..Len(g) /\ p + 1 <= q
      BY <3>3, <3>4 DEF Spoken
    <3>6. q - 1 \in 1..Len(a) /\ (q - 1) + 1 = q
      BY <3>2, <3>3, <3>5
    <3>7. QED
      BY <2>1, <3>2, <3>4, <3>6 DEF g
  <2>5. QED
    BY <2>3, <2>4
<1>3. QED
  BY <1>1, <1>2
LEMMA LatestSystem ==
  ASSUME NEW g \in Seq(AnyMessage), NEW p \in Spoken(g, "system"),
         \A j \in Spoken(g, "system") : j <= p
  PROVE  SystemPrompt(g) = g[p].says
<1>1. PICK q \in Spoken(g, "system") :
        SystemPrompt(g) = g[q].says /\ \A j \in Spoken(g, "system") : j <= q
  BY LastSystemWins
<1>2. p \in Nat /\ q \in Nat /\ p <= q /\ q <= p
  BY <1>1 DEF Spoken
<1>3. QED
  BY <1>1, <1>2

\* What is said last is kept, whatever tool output is put in front.
LEMMA FrontIsIgnored ==
  ASSUME NEW a \in Seq(AnyMessage), NEW p \in Spoken(a, "system"),
         \A j \in Spoken(a, "system") : j <= p,
         NEW explained, NEW g,
         g = IF explained THEN AtFront(Says("system", "tool"), a) ELSE a
  PROVE  SystemPrompt(g) = a[p].says
<1>1. CASE ~explained
  BY <1>1, LatestSystem
<1>2. CASE explained
  <2>1. /\ g \in Seq(AnyMessage) /\ Len(g) = Len(a) + 1
        /\ \A i \in 1..Len(a) : g[i + 1] = a[i]
    <3>1. Says("system", "tool") \in AnyMessage
      BY DEF Says, AnyMessage, Added, ServerParts
    <3>2. QED
      BY <1>2, <3>1 DEF AtFront
  <2>2. p + 1 \in Spoken(g, "system") /\ p \in 1..Len(a)
    BY <2>1 DEF Spoken
  <2>3. ASSUME NEW j \in Spoken(g, "system") PROVE j <= p + 1
    <3>1. j \in 1..Len(g)
      BY <2>1 DEF Spoken
    <3>2. CASE j = 1
      BY <2>2, <3>2
    <3>3. CASE j # 1
      <4> DEFINE i == j - 1
      <4>1. i \in 1..Len(a) /\ i + 1 = j
        BY <2>1, <3>1, <3>3
      <4> HIDE DEF i
      <4>2. g[j] = a[i]
        BY <2>1, <4>1
      <4>3. i \in Spoken(a, "system")
        BY <4>1, <4>2 DEF Spoken
      <4>4. i <= p
        BY <4>3
      <4>5. QED
        BY <2>2, <4>1, <4>4
    <3>4. QED
      BY <3>2, <3>3
  <2>4. SystemPrompt(g) = g[p + 1].says
    BY <2>1, <2>2, <2>3, LatestSystem
  <2>5. QED
    BY <2>1, <2>2, <2>4
<1>3. QED
  BY <1>1, <1>2

\* What the server puts in front of a client that has no system message.
LEMMA FrontIsKept ==
  ASSUME NEW ms \in Seq(Message), Spoken(ms, "system") = {},
         NEW content \in SUBSET Added, ~Blank(content),
         NEW explained, NEW a, a = AtFront(SystemMessage(content), ms), NEW g,
         g = IF explained THEN AtFront(Says("system", "tool"), a) ELSE a
  PROVE  SystemPrompt(g) = content
<1>1. /\ Framed(a, 1, ms) /\ a[1].says = content
      /\ \A i \in 1..Len(ms) : a[i + 1] = ms[i]
  BY ClientFramed, FrontFramed
<1>2. a \in Seq(AnyMessage) /\ Len(a) = 1 + Len(ms) /\ 1 \in 1..Len(a) /\ 1 \in 1..1
  <2>1. Len(ms) \in Nat
    OBVIOUS
  <2>2. QED
    BY <1>1, <2>1 DEF Framed
<1>3. a[1].role = "system" /\ ~Blank(a[1].says)
  BY <1>1, <1>2 DEF Framed
<1>4. 1 \in Spoken(a, "system")
  BY <1>2, <1>3, RoleIs DEF Spoken
<1>5. ASSUME NEW j \in Spoken(a, "system") PROVE j <= 1
  <2>1. SUFFICES ASSUME j # 1 PROVE FALSE
    BY <1>2 DEF Spoken
  <2> DEFINE i == j - 1
  <2>2. j \in 1..Len(a)
    BY DEF Spoken
  <2>3. i \in 1..Len(ms) /\ i + 1 = j
    BY <1>2, <2>1, <2>2
  <2> HIDE DEF i
  <2>4. a[j] = ms[i]
    BY <1>1, <2>3
  <2>5. i \in Spoken(ms, "system")
    BY <2>3, <2>4 DEF Spoken
  <2>6. QED
    BY <2>5
<1>6. SystemPrompt(g) = a[1].says
  BY <1>2, <1>4, <1>5, FrontIsIgnored
<1>7. QED
  BY <1>1, <1>6

\* Found documents are in the system section, beside a client's own system
\* message; without any, a client that has none is told not to invent
\* (server.py:101-144, prompt_normalizer.py:37).
LEMMA GroundingIsKept ==
  ASSUME NEW ms \in Seq(Message), NEW fit \in 0..MaxDocs, NEW explained \in BOOLEAN,
         LastUser(ms) # {}, OneSystemVoice(ms)
  PROVE  LET system == SystemPrompt(Given(ms, TRUE, fit, explained))
         IN  /\ fit > 0 => system = Context(fit) \union UNION {ms[i].says : i \in Systems(ms)}
             /\ fit = 0 /\ Spoken(ms, "system") = {} => system = {"no_info"}
<1> DEFINE a == Augment(ms, TRUE, fit)
           g == Given(ms, TRUE, fit, explained)
<1>1. g = IF explained THEN AtFront(Says("system", "tool"), a) ELSE a
  BY DEF Given
<1>2. ASSUME fit = 0, Spoken(ms, "system") = {} PROVE SystemPrompt(g) = {"no_info"}
  <2>1. a = AtFront(SystemMessage({"no_info"}), ms)
    BY <1>2, WordSays DEF Augment, ServerParts
  <2>2. {"no_info"} \in SUBSET Added /\ ~Blank({"no_info"})
    BY WordSays DEF ServerParts
  <2> HIDE DEF a, g
  <2>3. QED
    BY <1>1, <1>2, <2>1, <2>2, FrontIsKept
<1>3. ASSUME fit > 0, Systems(ms) = {}
      PROVE  SystemPrompt(g) = Context(fit) \union UNION {ms[i].says : i \in Systems(ms)}
  <2>1. a = AtFront(SystemMessage(Context(fit)), ms)
    BY <1>3, ContextSays DEF Augment, Inject
  <2>2. Spoken(ms, "system") = {}
    BY <1>3 DEF Spoken, OneSystemVoice, Systems
  <2> HIDE DEF a, g
  <2>3. SystemPrompt(g) = Context(fit)
    BY <1>1, <2>1, <2>2, ContextSays, FrontIsKept
  <2>4. UNION {ms[i].says : i \in Systems(ms)} = {}
    BY <1>3
  <2>5. QED
    BY <2>3, <2>4
<1>4. ASSUME fit > 0, Systems(ms) # {}
      PROVE  SystemPrompt(g) = Context(fit) \union UNION {ms[i].says : i \in Systems(ms)}
  <2> DEFINE s == Least(Systems(ms))
  <2>1. a = Inject(ms, fit)
    BY <1>4 DEF Augment
  <2> HIDE DEF a, g
  <2>2. /\ Framed(a, 0, ms) /\ s \in Systems(ms)
        /\ \A i \in 1..Len(ms) :
             a[i].says = IF i = s THEN ms[i].says \union Context(fit) ELSE ms[i].says
    BY <1>4, <2>1, InjectedFramed
  <2> HIDE DEF s
  <2>3. a \in Seq(AnyMessage) /\ Len(a) = Len(ms) /\ ms \in Seq(AnyMessage)
        /\ \A i \in 1..Len(ms) : a[i].role = ms[i].role
    <3>1. \A i \in 1..Len(ms) : 0 + i = i
      OBVIOUS
    <3>2. QED
      BY <2>2, <3>1, ClientFramed DEF Framed
  <2>4. s \in 1..Len(ms) /\ ms[s].role = "system" /\ Role(ms[s]) = "system"
    BY <2>2, <2>3, RoleIs DEF Systems
  <2>5. a[s].says = ms[s].says \union Context(fit)
    BY <2>2, <2>4
  <2>6. s \in Spoken(a, "system")
    <3>1. a[s] \in AnyMessage /\ a[s].role = "system" /\ s \in 1..Len(a)
      BY <2>3, <2>4
    <3>2. Role(a[s]) = "system"
      BY <3>1, RoleIs
    <3>3. ~Blank(a[s].says)
      BY <2>5 DEF Blank, Context
    <3>4. QED
      BY <2>3, <3>1, <3>2, <3>3 DEF Spoken
  <2>7. ASSUME NEW j \in Spoken(a, "system") PROVE j <= s
    <3>1. j \in 1..Len(ms) /\ Role(ms[j]) = "system"
      BY <2>3, RoleIs DEF Spoken
    <3>2. j = s
      BY <2>4, <3>1 DEF OneSystemVoice
    <3>3. QED
      BY <2>4, <3>2
  <2>8. SystemPrompt(g) = a[s].says
    BY <1>1, <2>3, <2>6, <2>7, FrontIsIgnored
  <2>9. Systems(ms) = {s}
    <3>1. ASSUME NEW i \in Systems(ms) PROVE i = s
      BY <2>3, <2>4, RoleIs DEF Systems, OneSystemVoice
    <3>2. QED
      BY <2>2, <3>1
  <2>10. UNION {ms[i].says : i \in Systems(ms)} = ms[s].says
    BY <2>9
  <2>11. QED
    BY <2>5, <2>8, <2>10
<1>5. QED
  BY <1>2, <1>3, <1>4

-----------------------------------------------------------------------------
(* The turns                                                               *)

\* The messages the router gets are the client's, behind the server's.
LEMMA GivenFramed ==
  ASSUME NEW ms \in Seq(Message), NEW kb \in BOOLEAN, NEW fit \in 0..MaxDocs,
         NEW explained \in BOOLEAN
  PROVE  \E k \in Nat : Framed(Given(ms, kb, fit, explained), k, ms)
<1> DEFINE a == Augment(ms, kb, fit)
<1>1. \E k \in Nat : Framed(a, k, ms)
  <2>1. CASE LastUser(ms) = {} \/ ~kb
    BY <2>1, ClientFramed DEF Augment
  <2>2. CASE ~(LastUser(ms) = {} \/ ~kb) /\ fit = 0
    <3>1. a = AtFront(SystemMessage({"no_info"}), ms)
      BY <2>2, WordSays DEF Augment, ServerParts
    <3>2. {"no_info"} \in SUBSET Added /\ ~Blank({"no_info"})
      BY WordSays DEF ServerParts
    <3>3. QED
      BY <3>1, <3>2, ClientFramed, FrontFramed
  <2>3. CASE ~(LastUser(ms) = {} \/ ~kb) /\ fit # 0
    <3>1. a = Inject(ms, fit)
      BY <2>3 DEF Augment
    <3>2. CASE Systems(ms) = {}
      <4>1. a = AtFront(SystemMessage(Context(fit)), ms)
        BY <3>1, <3>2, ContextSays DEF Inject
      <4>2. QED
        BY <4>1, ContextSays, ClientFramed, FrontFramed
    <3>3. CASE Systems(ms) # {}
      BY <3>1, <3>3, InjectedFramed
    <3>4. QED
      BY <3>2, <3>3
  <2>4. QED
    BY <2>1, <2>2, <2>3
<1> HIDE DEF a
<1>2. PICK k \in Nat : Framed(a, k, ms)
  BY <1>1
<1>3. CASE explained
  <2>1. Given(ms, kb, fit, explained) = AtFront(SystemMessage({"tool"}), a)
    BY <1>3, WordSays DEF Given, a, ServerParts
  <2>2. {"tool"} \in SUBSET Added /\ ~Blank({"tool"})
    BY WordSays DEF ServerParts
  <2>3. k + 1 \in Nat /\ Framed(AtFront(SystemMessage({"tool"}), a), k + 1, ms)
    BY <1>2, <2>2, FrontFramed
  <2>4. QED
    BY <2>1, <2>3
<1>4. CASE ~explained
  BY <1>1, <1>4 DEF Given, a
<1>5. QED
  BY <1>3, <1>4

\* The turns of what the router gets are the client's, at a distance.
LEMMA TurnsAreTheClients ==
  ASSUME NEW ms \in Seq(Message), NEW k \in Nat, NEW g, Framed(g, k, ms)
  PROVE  /\ \A j \in Turns(g) : j - k \in Turns(ms) /\ j \in (k + 1)..(k + Len(ms))
         /\ \A i \in 1..Len(ms) : Role(ms[i]) # "system" => g[k + i] = ms[i]
<1>1. /\ g \in Seq(AnyMessage) /\ Len(g) = k + Len(ms) /\ ms \in Seq(AnyMessage)
      /\ \A i \in 1..k : g[i].role = "system"
  BY ClientFramed DEF Framed
<1>11. ASSUME NEW i \in 1..Len(ms)
       PROVE  g[k + i].role = ms[i].role /\ (ms[i].role # "system" => g[k + i] = ms[i])
  BY DEF Framed
<1>2. ASSUME NEW i \in 1..Len(ms), Role(ms[i]) # "system" PROVE g[k + i] = ms[i]
  <2>1. ms[i] \in AnyMessage
    BY <1>1
  <2>2. ms[i].role # "system"
    BY <1>2, <2>1, RoleIs
  <2>3. QED
    BY <1>11, <2>2
<1>3. ASSUME NEW j \in Turns(g) PROVE j - k \in Turns(ms) /\ j \in (k + 1)..(k + Len(ms))
  <2>1. j \in 1..Len(g) /\ Role(g[j]) \in {"user", "assistant"} /\ ~Blank(g[j].says)
    BY <1>1 DEF Turns, Spoken
  <2>2. g[j] \in AnyMessage
    BY <1>1, <2>1
  <2>3. g[j].role # "system"
    BY <2>1, <2>2, RoleIs
  <2>4. j \notin 1..k
    BY <1>1, <2>3
  <2>5. j - k \in 1..Len(ms) /\ k + (j - k) = j /\ j \in (k + 1)..(k + Len(ms))
    BY <1>1, <2>1, <2>4
  <2>6. g[j] = ms[j - k]
    <3> DEFINE i == j - k
    <3>1. i \in 1..Len(ms) /\ k + i = j
      BY <2>5
    <3> HIDE DEF i
    <3>2. g[k + i].role = ms[i].role /\ (ms[i].role # "system" => g[k + i] = ms[i])
      BY <1>11, <3>1
    <3>3. g[j] = ms[i]
      BY <2>3, <3>1, <3>2
    <3>4. QED
      BY <3>3 DEF i
  <2>7. QED
    BY <2>1, <2>5, <2>6 DEF Turns, Spoken
<1>4. QED
  BY <1>2, <1>3

\* A question that less than a window of turns follows is in the prompt
\* (prompt_normalizer.py:39-49).
LEMMA QuestionIsKept ==
  ASSUME NEW ms \in Seq(Message), NEW kb \in BOOLEAN, NEW fit \in 0..MaxDocs,
         NEW explained \in BOOLEAN, NEW q \in 1..Len(ms),
         ms[q].role = "user", ~Blank(ms[q].says),
         Cardinality({i \in Turns(ms) : i > q}) < Window
  PROVE  LET kept == Normalize(Given(ms, kb, fit, explained)).turns
         IN  \E i \in DOMAIN kept : kept[i] = ms[q]
<1> DEFINE g == Given(ms, kb, fit, explained)
<1>1. PICK k \in Nat : Framed(g, k, ms)
  BY GivenFramed
<1> HIDE DEF g
<1>2. /\ \A j \in Turns(g) : j - k \in Turns(ms) /\ j \in (k + 1)..(k + Len(ms))
      /\ \A i \in 1..Len(ms) : Role(ms[i]) # "system" => g[k + i] = ms[i]
  BY <1>1, TurnsAreTheClients
<1>3. Role(ms[q]) = "user"
  <2>1. ms[q] \in AnyMessage
    BY ClientFramed DEF Framed
  <2>2. QED
    BY <2>1, RoleIs
<1>4. g[k + q] = ms[q] /\ k + q \in 1..Len(g) /\ Len(g) \in Nat
  BY <1>1, <1>2, <1>3 DEF Framed
<1>5. k + q \in Spoken(g, "user") /\ k + q \in Turns(g)
  BY <1>3, <1>4 DEF Spoken, Turns
<1>6. Room(g) = Window
  BY <1>5 DEF Room, Greets
<1>7. Cardinality({j \in Turns(g) : j > k + q}) < Window
  <2> DEFINE S == {j \in Turns(g) : j > k + q}
             T == {i \in Turns(ms) : i > q}
             f == [j \in S |-> j - k]
  <2>1. IsFiniteSet(T)
    <3>1. 1 \in Int /\ Len(ms) \in Int
      OBVIOUS
    <3>2. IsFiniteSet(1..Len(ms))
      BY <3>1, FS_Interval
    <3>3. T \in SUBSET (1..Len(ms))
      BY DEF Turns, Spoken
    <3>4. QED
      BY <3>2, <3>3, FS_Subset
  <2>2. f \in [S -> T]
    <3>1. ASSUME NEW j \in S PROVE j - k \in T
      BY <1>2
    <3>2. QED
      BY <3>1
  <2>3. ASSUME NEW i \in S, NEW j \in S, f[i] = f[j] PROVE i = j
    <3>1. i \in Nat /\ j \in Nat
      BY <1>2
    <3>2. QED
      BY <2>3, <3>1
  <2>4. f \in Injection(S, T)
    BY <2>2, <2>3 DEF Injection, IsInjective
  <2> HIDE DEF f, S, T
  <2>5. IsFiniteSet(S) /\ Cardinality(S) <= Cardinality(T)
    BY <2>1, <2>4, FS_Injection
  <2>6. Cardinality(S) \in Nat /\ Cardinality(T) \in Nat /\ Window \in Nat
    BY <2>1, <2>5, FS_CardinalityType, WindowAssumption
  <2>7. Cardinality(T) < Window
    BY DEF T
  <2>8. QED
    BY <2>5, <2>6, <2>7 DEF S
<1>8. k + q \in Recent(g)
  BY <1>5, <1>6, <1>7 DEF Recent
<1>9. QED
  BY <1>4, <1>8 DEF Normalize, g
=============================================================================
