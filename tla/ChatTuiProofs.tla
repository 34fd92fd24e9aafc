---------------------------- MODULE ChatTuiProofs ----------------------------
(***************************************************************************)
(* Proofs about ChatTui for any number of chats, turns, pieces and         *)
(* commands.                                                               *)
(*                                                                         *)
(* Two facts carry the rest.  The chat that is being sent is the one the   *)
(* interface is at work on (Input), and two chats that are awaited at a    *)
(* time are both in the crowd (Apart): so a chat outside the crowd has the *)
(* buffer and the end of the conversation to itself.  What the panel shows *)
(* depends on the first alone (OwnLines); whose the buffer is (Reading),   *)
(* what a question is sent with (Kept) and whether turns alternate (Turns) *)
(* follow the lone chat from its question to its end.                      *)
(*                                                                         *)
(* On top of these, Together says what chats that are awaited together do  *)
(* to each other, and that they do it to nobody else.                      *)
(***************************************************************************)
EXTENDS ChatTui, FiniteSetTheorems, SequenceTheorems, TLAPS

\* TypeOK but for the length of the conversation, which Bounded gives.
Types ==
  /\ ui \in [at : {"idle", "trim", "post", "open"}, chat : Chats \union {None}]
  /\ lines \in Seq(Line)
  /\ conv \in Seq(Message)
  /\ buf \in Seq(Chats)
  /\ at \in [Chats -> Points]
  /\ slot \in [Chats -> Nat]
  /\ asked \in [Chats -> Seq(Message)]
  /\ got \in [Chats -> 0..MaxPieces]
  /\ crowd \subseteq Chats
  /\ wiped \in BOOLEAN
  /\ commands \in 0..MaxCommands

Input ==
  /\ ui.at = "idle" <=> ui.chat = None
  /\ \A s \in Chats : at[s] = "sending" <=> ui.chat = s
  /\ \A s \in Chats : at[s] \notin {"unsent", "sending"} => slot[s] # 0

Control == Types /\ Input

\* Each chat that is over has added an answer at most, and what its question
\* added was trimmed away before the next one.
Done == {s \in Chats : at[s] = "done"}

Bounded ==
  Len(conv) <= 2 * MaxTurns + Cardinality(Done) + (IF ui.at = "trim" THEN 1 ELSE 0)

Apart == \A s, t \in Awaited : s # t => s \in crowd

Streaming == {s \in Awaited : at[s] # "sending"}

OwnLines ==
  ~wiped => \A s \in Streaming :
    /\ slot[s] \in 1..Len(lines)
    /\ lines[slot[s]].by = s
    /\ lines[slot[s]].kind # "question"

Reading ==
  /\ \A s \in Chats : at[s] \in {"unsent", "sending"} => got[s] = 0
  /\ \A s \in Streaming \ crowd : buf = Pieces(s)

Recorded ==
  \A i \in 1..Len(conv) : conv[i].role = "assistant" =>
    /\ at[conv[i].of] = "done"
    /\ conv[i].of \notin crowd => conv[i].text = Pieces(conv[i].of)

EndsWith(m) == conv # <<>> /\ conv[Len(conv)] = m

Kept ==
  ui.at \in {"trim", "post"} /\ ui.chat \notin crowd =>
    /\ EndsWith(Question(ui.chat))
    /\ ui.at = "post" => ~TooLong

Alternates(c) == \A i \in 1..Len(c) - 1 : c[i].role # c[i+1].role

LastRole(role) == conv = <<>> \/ conv[Len(conv)].role = role

Turns ==
  crowd = {} /\ ~wiped =>
    /\ Alternates(conv)
    /\ Awaited = {} => LastRole("assistant")
    /\ Awaited # {} => LastRole("user")

IInv ==
  /\ Control /\ Bounded /\ Apart /\ OwnLines /\ Reading /\ Recorded
  /\ Kept /\ RequestEndsWithItsQuestion
  /\ Turns /\ TurnsAlternate

-----------------------------------------------------------------------------
(* Lemmas                                                                  *)

\* A sequence with one more element at its end.
LEMMA OneMore ==
  ASSUME NEW S, NEW c \in Seq(S), NEW e \in S
  PROVE  /\ Append(c, e) \in Seq(S)
         /\ Len(Append(c, e)) = Len(c) + 1
         /\ Append(c, e)[Len(c) + 1] = e
         /\ \A i \in 1..Len(c) : Append(c, e)[i] = c[i]
         /\ Append(c, e) # <<>>
OBVIOUS

\* What pop(0) leaves.
LEMMA WithoutFirst ==
  ASSUME NEW S, NEW c \in Seq(S), c # <<>>
  PROVE  /\ Tail(c) \in Seq(S)
         /\ Len(Tail(c)) = Len(c) - 1
         /\ \A i \in 1..Len(c) - 1 : Tail(c)[i] = c[i + 1]
OBVIOUS

\* What pop() leaves.
LEMMA WithoutLast ==
  ASSUME NEW S, NEW c \in Seq(S), c # <<>>
  PROVE  /\ SubSeq(c, 1, Len(c) - 1) \in Seq(S)
         /\ Len(SubSeq(c, 1, Len(c) - 1)) = Len(c) - 1
         /\ \A i \in 1..Len(c) - 1 : SubSeq(c, 1, Len(c) - 1)[i] = c[i]
<1> DEFINE n == Len(c) - 1
<1>1. n \in Nat /\ \A i \in 1..n : c[i] \in S
  OBVIOUS
<1>2. /\ SubSeq(c, 1, n) \in Seq(S)
      /\ Len(SubSeq(c, 1, n)) = IF 1 <= n THEN n - 1 + 1 ELSE 0
      /\ \A i \in 1..n - 1 + 1 : SubSeq(c, 1, n)[i] = c[1 + i - 1]
  <2> HIDE DEF n
  <2> QED
    BY <1>1, SubSeqProperties
<1> HIDE DEF n
<1>3. n - 1 + 1 = n /\ (IF 1 <= n THEN n - 1 + 1 ELSE 0) = n
  BY <1>1
<1>4. \A i \in 1..n : 1 + i - 1 = i
  BY <1>1
<1>5. /\ SubSeq(c, 1, n) \in Seq(S)
      /\ Len(SubSeq(c, 1, n)) = n
      /\ \A i \in 1..n : SubSeq(c, 1, n)[i] = c[i]
  BY <1>2, <1>3, <1>4
<1> QED
  BY <1>5 DEF n

\* A line rewritten in place.
LEMMA OneChanged ==
  ASSUME NEW S, NEW c \in Seq(S), NEW e \in S, NEW k \in 1..Len(c)
  PROVE  /\ [c EXCEPT ![k] = e] \in Seq(S)
         /\ Len([c EXCEPT ![k] = e]) = Len(c)
         /\ \A i \in 1..Len(c) : [c EXCEPT ![k] = e][i] = IF i = k THEN e ELSE c[i]
OBVIOUS

\* What steps put into the conversation and on the panel.
LEMMA Said ==
  /\ \A s \in Chats : Question(s) \in Message
  /\ \A s \in Chats, t \in Seq(Chats) : Answer(s, t) \in Message
BY DEF Question, Answer, Message

LEMMA Panel ==
  ASSUME Types
  PROVE  /\ \A s \in Chats : Append(lines, Written("question", s, <<>>)) \in Seq(Line)
         /\ \A s \in Chats : Append(lines, Written("reply", s, <<>>)) \in Seq(Line)
         /\ Append(lines, Written("info", None, <<>>)) \in Seq(Line)
         /\ <<Written("info", None, <<>>)>> \in Seq(Line)
<1>1. \A s \in Chats : Written("question", s, <<>>) \in Line /\ Written("reply", s, <<>>) \in Line
  BY DEF Written, Line
<1>2. Written("info", None, <<>>) \in Line
  BY DEF Written, Line
<1>3. lines \in Seq(Line)
  BY DEF Types
<1> HIDE DEF Written
<1> QED
  BY <1>1, <1>2, <1>3

-----------------------------------------------------------------------------
(* Control                                                                 *)

LEMMA ControlInit == Init => Control
<1> SUFFICES ASSUME Init PROVE Control
  OBVIOUS
<1>1. lines \in Seq(Line)
  <2>1. Written("info", None, <<>>) \in Line
    BY DEF Written, Line
  <2> QED
    BY <2>1 DEF Init
<1>2. ui \in [at : {"idle", "trim", "post", "open"}, chat : Chats \union {None}]
  BY DEF Init
<1>3. /\ conv \in Seq(Message) /\ buf \in Seq(Chats)
      /\ at \in [Chats -> Points] /\ slot \in [Chats -> Nat]
      /\ asked \in [Chats -> Seq(Message)] /\ got \in [Chats -> 0..MaxPieces]
  BY BoundsAssumption DEF Init, Points
<1>4. crowd \subseteq Chats /\ wiped \in BOOLEAN
  BY DEF Init
<1>6. commands \in 0..MaxCommands
  BY BoundsAssumption DEF Init
<1>5. Input
  BY ChatsAssumption DEF Init, Input
<1> QED
  BY <1>1, <1>2, <1>3, <1>4, <1>5, <1>6 DEF Control, Types

\* The interface's own steps.
LEMMA ControlUi ==
  ASSUME Control,
         \/ \E s \in Chats : Enter(s)
         \/ TrimOne \/ Trimmed \/ Post \/ Open \/ Inform \/ Clear \/ ClearHistory
  PROVE  Control'
<1> USE DEF Control, Types
<1>1. ASSUME NEW s \in Chats, Enter(s) PROVE Control'
  <2>1. lines' \in Seq(Line) /\ conv' \in Seq(Message)
    BY <1>1, Panel, Said, OneMore DEF Enter
  <2>2. crowd' \subseteq Chats
    BY <1>1 DEF Enter, Awaited
  <2>3. /\ ui' = [at |-> "trim", chat |-> s] /\ ui.chat = None
        /\ at' \in [Chats -> Points] /\ at'[s] = "sending"
        /\ \A t \in Chats \ {s} : at'[t] = at[t]
    BY <1>1 DEF Enter, Goto, Points, Input
  <2>4. Input'
    <3>1. ui'.at = "trim" /\ ui'.chat = s /\ slot' = slot /\ s # None /\ at[s] = "unsent"
      BY <1>1, <2>3, ChatsAssumption DEF Enter, Goto
    <3>2. \A t \in Chats : at[t] # "sending"
      BY <2>3, ChatsAssumption DEF Input
    <3>3. \A t \in Chats : at'[t] = "sending" <=> t = s
      BY <2>3, <3>2
    <3>4. \A t \in Chats : at'[t] \notin {"unsent", "sending"} => slot'[t] # 0
      BY <2>3, <3>1 DEF Input
    <3> QED
      BY <3>1, <3>3, <3>4 DEF Input
  <2> QED
    BY <1>1, <2>1, <2>2, <2>3, <2>4 DEF Enter
<1>2. CASE TrimOne
  <2>1. conv # <<>> /\ Tail(conv) \in Seq(Message)
    BY <1>2, BoundsAssumption, WithoutFirst DEF TrimOne, TooLong, Control, Types
  <2> QED
    BY <1>2, <2>1 DEF TrimOne, Control, Types, Input
<1>3. CASE Trimmed
  BY <1>3 DEF Trimmed, Control, Types, Input
<1>4. CASE Post
  BY <1>4 DEF Post, Control, Types, Input
<1>5. CASE Open
  <2>1. ui.chat \in Chats /\ at[ui.chat] = "sending"
    BY <1>5 DEF Open, Input
  <2>2. lines' \in Seq(Line)
    BY <1>5, <2>1, Panel DEF Open
  <2>3. /\ at' \in [Chats -> Points] /\ slot' \in [Chats -> Nat]
        /\ ui' = [at |-> "idle", chat |-> None]
    BY <1>5, <2>1 DEF Open, Goto, Placeholder, Points
  <2>4. Input'
    BY <1>5, <2>1, <2>3, ChatsAssumption DEF Open, Goto, Placeholder, Input
  <2> QED
    BY <1>5, <2>2, <2>3, <2>4 DEF Open, FreshBuffer
<1>6. CASE Inform \/ ClearHistory
  <2>1. lines' \in Seq(Line)
    BY <1>6, Panel DEF Inform, ClearHistory
  <2>2. conv' \in Seq(Message) /\ commands' \in 0..MaxCommands
    <3>1. conv' \in Seq(Message)
      <4>1. CASE Inform
        BY <4>1 DEF Inform
      <4>2. CASE ClearHistory
        BY <4>2 DEF ClearHistory
      <4> QED
        BY <1>6, <4>1, <4>2
    <3>2. commands' = commands + 1 /\ commands < MaxCommands
      BY <1>6 DEF Inform, ClearHistory, Command
    <3> QED
      BY <3>1, <3>2, BoundsAssumption
  <2> QED
    BY <1>6, <2>1, <2>2 DEF Inform, ClearHistory, Command, Input
<1>7. CASE Clear
  <2>1. lines' \in Seq(Line) /\ commands' \in 0..MaxCommands
    BY <1>7, BoundsAssumption DEF Clear, Command
  <2> QED
    BY <1>7, <2>1 DEF Clear, Command, Input
<1> QED
  BY <1>1, <1>2, <1>3, <1>4, <1>5, <1>6, <1>7

\* A thread that writes on its line keeps the panel a panel.
LEMMA Rewritten ==
  ASSUME Control, NEW s \in Chats, at[s] \notin {"unsent", "sending"}, HasLine(s),
         NEW k \in {"reply", "empty", "error"}, NEW t \in Seq(Chats),
         Rewrite(s, k, t)
  PROVE  /\ lines' \in Seq(Line) /\ Len(lines') = Len(lines)
         /\ \A i \in 1..Len(lines) :
              lines'[i] = IF i = slot[s] THEN Written(k, s, t) ELSE lines[i]
<1>1. lines \in Seq(Line) /\ Written(k, s, t) \in Line /\ slot[s] \in 1..Len(lines)
  BY DEF Control, Types, Input, HasLine, Written, Line
<1> QED
  BY <1>1, OneChanged DEF Rewrite

\* The steps of a thread leave the question being sent alone.
LEMMA ControlThread ==
  ASSUME Control, NEW s \in Chats, Stream(s)
  PROVE  Control'
<1>1. CASE Piece(s)
  BY <1>1, BoundsAssumption DEF Piece, Goto, Control, Types, Input, Points
<1>2. CASE Show(s)
  <2>1. lines' \in Seq(Line)
    BY <1>2, Rewritten DEF Show, Goto, Control, Types
  <2> QED
    BY <1>2, <2>1 DEF Show, Goto, Control, Types, Input, Points
<1>3. CASE End(s) \/ Fail(s)
  BY <1>3 DEF End, Fail, Goto, Control, Types, Input, Points
<1>4. CASE Finish(s)
  <2>1. lines' \in Seq(Line)
    BY <1>4, Rewritten DEF Finish, Goto, Control, Types
  <2> QED
    BY <1>4, <2>1 DEF Finish, Goto, Control, Types, Input, Points
<1>5. CASE Record(s)
  <2>1. conv' \in Seq(Message)
    BY <1>5, Said, OneMore DEF Record, Control, Types
  <2> QED
    BY <1>5, <2>1 DEF Record, Goto, Control, Types, Input, Points
<1>6. CASE ShowError(s)
  <2>1. lines' \in Seq(Line)
    <3>1. lines \in Seq(Line) /\ <<>> \in Seq(Chats)
      BY DEF Control, Types
    <3>2. CASE HasLine(s) /\ at[s] = "failing" /\ Rewrite(s, "error", <<>>)
      BY <3>1, <3>2, Rewritten
    <3> QED
      BY <1>6, <3>1, <3>2 DEF ShowError, Goto
  <2> QED
    BY <1>6, <2>1 DEF ShowError, Goto, Control, Types, Input, Points
<1>7. CASE Unask(s)
  BY <1>7 DEF Unask, Goto, Control, Types, Input, Points
<1>8. CASE Pop(s)
  <2>1. conv' \in Seq(Message)
    BY <1>8, WithoutLast DEF Pop, DropLast, Control, Types
  <2> QED
    BY <1>8, <2>1 DEF Pop, Goto, Control, Types, Input, Points
<1> QED
  BY <1>1, <1>2, <1>3, <1>4, <1>5, <1>6, <1>7, <1>8 DEF Stream

LEMMA ControlStep ==
  ASSUME Control, Next
  PROVE  Control'
BY ControlUi, ControlThread DEF Next

-----------------------------------------------------------------------------
(* Who is awaited                                                          *)

\* Every step but a new question leaves fewer chats awaited, or the same.
LEMMA FewerAwaited ==
  ASSUME Control, Next, \A s \in Chats : ~Enter(s)
  PROVE  /\ Awaited' \subseteq Awaited /\ crowd' = crowd
         /\ \A s \in Chats : at[s] = "done" => at'[s] = "done"
         /\ \A s \in Chats : at[s] = "unsent" => at'[s] = "unsent"
<1>1. CASE TrimOne \/ Trimmed \/ Post \/ Inform \/ Clear \/ ClearHistory
  <2>1. at' = at /\ crowd' = crowd
    BY <1>1 DEF TrimOne, Trimmed, Post, Inform, Clear, ClearHistory, Command
  <2> QED
    BY <2>1 DEF Awaited
<1>2. CASE Open
  <2>1. ui.chat \in Chats /\ at[ui.chat] = "sending"
    BY <1>2 DEF Open, Goto, Control, Types, Input
  <2> QED
    BY <1>2, <2>1 DEF Open, Goto, Awaited, Control, Types
<1>3. ASSUME NEW s \in Chats, Stream(s)
      PROVE  /\ at[s] \notin {"unsent", "done"} /\ crowd' = crowd
             /\ \A t \in Chats \ {s} : at'[t] = at[t]
  <2>1. crowd' = crowd
    BY <1>3 DEF Stream, Piece, Show, End, Finish, Record, Fail, ShowError, Unask, Pop
  <2>2. PICK from \in Points \ {"unsent", "done"}, to \in Points : Goto(s, from, to)
    BY <1>3 DEF Stream, Piece, Show, End, Finish, Record, Fail, ShowError, Unask, Pop, Points
  <2> QED
    BY <2>1, <2>2 DEF Goto, Control, Types
<1> QED
  BY <1>1, <1>2, <1>3 DEF Next, Awaited

\* What a question does to those awaited.
LEMMA Entered ==
  ASSUME Control, NEW s \in Chats, Enter(s)
  PROVE  /\ at[s] = "unsent" /\ at'[s] = "sending"
         /\ \A t \in Chats \ {s} : at'[t] = at[t]
         /\ Awaited' = Awaited \union {s}
         /\ crowd \subseteq crowd'
         /\ Awaited # {} => Awaited' \subseteq crowd'
<1>1. /\ at[s] = "unsent" /\ at'[s] = "sending"
      /\ \A t \in Chats \ {s} : at'[t] = at[t]
  BY DEF Enter, Goto, Control, Types
<1>2. Awaited' = Awaited \union {s}
  BY <1>1 DEF Awaited
<1>3. crowd \subseteq crowd' /\ (Awaited # {} => Awaited \union {s} \subseteq crowd')
  BY DEF Enter
<1> QED
  BY <1>1, <1>2, <1>3

LEMMA ApartStep ==
  ASSUME Control, Apart, Next
  PROVE  Apart'
<1>1. ASSUME NEW s \in Chats, Enter(s) PROVE Apart'
  BY <1>1, Entered DEF Apart
<1>2. ASSUME \A s \in Chats : ~Enter(s) PROVE Apart'
  BY <1>2, FewerAwaited DEF Apart
<1> QED
  BY <1>1, <1>2

\* The crowd only grows, and a chat that is over stays over.
LEMMA CrowdGrows ==
  ASSUME Control, Next
  PROVE  /\ crowd \subseteq crowd'
         /\ \A s \in Chats : at[s] = "done" => at'[s] = "done"
<1>1. ASSUME NEW s \in Chats, Enter(s)
      PROVE  /\ crowd \subseteq crowd'
             /\ \A t \in Chats : at[t] = "done" => at'[t] = "done"
  BY <1>1, Entered
<1> QED
  BY <1>1, FewerAwaited

\* A chat outside the crowd is awaited alone.
LEMMA Lone ==
  ASSUME Apart, NEW s \in Awaited, NEW t \in Awaited, s \notin crowd
  PROVE  t = s
BY DEF Apart

-----------------------------------------------------------------------------
(* How long the conversation gets                                          *)

LEMMA DoneIsFinite ==
  /\ IsFiniteSet(Done) /\ Cardinality(Done) \in Nat
  /\ IsFiniteSet(Done') /\ Cardinality(Done') \in Nat
  /\ Done \subseteq Done' => Cardinality(Done) <= Cardinality(Done')
<1>1. Done \subseteq Chats /\ Done' \subseteq Chats
  BY DEF Done
<1>2. IsFiniteSet(Done) /\ IsFiniteSet(Done')
  BY <1>1, ChatsAssumption, FS_Subset
<1> QED
  BY <1>2, FS_CardinalityType, FS_Subset

LEMMA BoundedStep ==
  ASSUME Control, Control', Bounded, Next
  PROVE  Bounded'
<1>1. conv \in Seq(Message) /\ MaxTurns \in Nat /\ Len(conv) \in Nat
  BY BoundsAssumption DEF Control, Types
<1>2. Done \subseteq Done' /\ Cardinality(Done) <= Cardinality(Done')
  <2>1. Done \subseteq Done'
    BY CrowdGrows DEF Done
  <2> QED
    BY <2>1, DoneIsFinite
<1>3. ASSUME Len(conv') <= Len(conv), ui.at = "trim" => ui'.at = "trim"
      PROVE  Bounded'
  <2>1. Len(conv') \in Nat
    BY DEF Control, Types
  <2> QED
    BY <1>1, <1>2, <1>3, <2>1, DoneIsFinite DEF Bounded
<1>4. ASSUME NEW s \in Chats, Enter(s) PROVE Bounded'
  <2>1. Len(conv') = Len(conv) + 1 /\ ui.at = "idle" /\ ui'.at = "trim"
    BY <1>1, <1>4, Said, OneMore DEF Enter
  <2> QED
    BY <1>1, <1>2, <2>1, DoneIsFinite DEF Bounded
<1>5. CASE TrimOne
  <2>1. conv # <<>>
    BY <1>1, <1>5 DEF TrimOne, TooLong
  <2>2. Len(conv') = Len(conv) - 1 /\ ui' = ui
    BY <1>1, <1>5, <2>1, WithoutFirst DEF TrimOne
  <2> QED
    BY <1>1, <1>3, <2>2
<1>6. CASE Trimmed
  <2>1. Len(conv') <= 2 * MaxTurns /\ Len(conv') \in Nat
    BY <1>1, <1>6 DEF Trimmed, TooLong
  <2> QED
    BY <1>1, <2>1, DoneIsFinite DEF Bounded
<1>7. CASE Post \/ Open \/ Inform \/ Clear
  <2>1. conv' = conv /\ ui.at # "trim"
    BY <1>7 DEF Post, Open, Inform, Clear, Command
  <2> QED
    BY <1>1, <1>3, <2>1
<1>8. CASE ClearHistory
  <2>1. Len(conv') = 0 /\ ui.at # "trim"
    BY <1>8 DEF ClearHistory, Command
  <2> QED
    BY <1>1, <1>3, <2>1
<1>9. ASSUME NEW s \in Chats, Record(s) PROVE Bounded'
  <2>1. Len(conv') = Len(conv) + 1 /\ ui' = ui
    BY <1>1, <1>9, Said, OneMore DEF Record, Control, Types
  <2>2. at[s] # "done" /\ Done' = Done \union {s}
    BY <1>9 DEF Record, Goto, Done, Control, Types
  <2>3. Cardinality(Done') = Cardinality(Done) + 1
    BY <2>2, DoneIsFinite, FS_AddElement DEF Done
  <2> QED
    BY <1>1, <2>1, <2>3, DoneIsFinite DEF Bounded
<1>10. ASSUME NEW s \in Chats, Pop(s) PROVE Bounded'
  <2>1. Len(conv') <= Len(conv) /\ ui' = ui
    <3>1. CASE conv = <<>>
      BY <1>1, <1>10, <3>1 DEF Pop, DropLast
    <3>2. CASE conv # <<>>
      BY <1>1, <1>10, <3>2, WithoutLast DEF Pop, DropLast
    <3> QED
      BY <3>1, <3>2
  <2> QED
    BY <1>3, <2>1
<1>11. ASSUME NEW s \in Chats,
              Piece(s) \/ Show(s) \/ End(s) \/ Finish(s) \/ Fail(s) \/ ShowError(s) \/ Unask(s)
       PROVE  Bounded'
  <2>1. conv' = conv /\ ui' = ui
    BY <1>11 DEF Piece, Show, End, Finish, Fail, ShowError, Unask
  <2> QED
    BY <1>1, <1>3, <2>1
<1> QED
  BY <1>4, <1>5, <1>6, <1>7, <1>8, <1>9, <1>10, <1>11 DEF Next, Stream

\* The question on its way is not over, so there is room for it.
LEMMA BoundedTypes ==
  ASSUME Control, Bounded
  PROVE  TypeOK
<1>1. Cardinality(Chats) \in Nat /\ Cardinality(Done) <= Cardinality(Chats)
  BY ChatsAssumption, FS_CardinalityType, FS_Subset DEF Done
<1>2. ASSUME ui.at = "trim" PROVE Cardinality(Done) + 1 <= Cardinality(Chats)
  <2>1. ui.chat \in Chats /\ ui.chat \notin Done
    BY <1>2 DEF Control, Types, Input, Done
  <2>2. Cardinality(Done \union {ui.chat}) = Cardinality(Done) + 1
    BY <2>1, DoneIsFinite, FS_AddElement
  <2>3. Done \union {ui.chat} \subseteq Chats
    BY <2>1 DEF Done
  <2> QED
    BY <2>2, <2>3, ChatsAssumption, FS_Subset
<1>3. Len(conv) <= 2 * MaxTurns + Cardinality(Chats)
  <2>1. Len(conv) \in Nat /\ MaxTurns \in Nat
    BY BoundsAssumption DEF Control, Types
  <2> QED
    BY <1>1, <1>2, <2>1, DoneIsFinite DEF Bounded
<1> QED
  BY <1>3 DEF TypeOK, Control, Types

-----------------------------------------------------------------------------
(* Whose line a thread writes on                                           *)

\* The steps that leave the panel and who streams alone, or write nothing.
LEMMA OwnLinesKept ==
  ASSUME OwnLines, wiped' = wiped, slot' = slot, lines' = lines, Streaming' \subseteq Streaming
  PROVE  OwnLines'
BY DEF OwnLines

\* A line is added at the end, for nobody who streams.
LEMMA OwnLinesAppended ==
  ASSUME Control, OwnLines, wiped' = wiped, NEW line \in Line, lines' = Append(lines, line),
         \A s \in Streaming' : s \in Streaming /\ slot'[s] = slot[s]
  PROVE  OwnLines'
<1>1. /\ Len(lines') = Len(lines) + 1
      /\ \A i \in 1..Len(lines) : lines'[i] = lines[i]
      /\ Len(lines) \in Nat
  BY OneMore DEF Control, Types
<1> QED
  BY <1>1 DEF OwnLines

\* A thread writes on its own line, which is no other's.
LEMMA OwnLinesRewritten ==
  ASSUME Control, OwnLines, wiped' = wiped, slot' = slot,
         NEW s \in Streaming, HasLine(s), Streaming' \subseteq Streaming,
         NEW k \in {"reply", "empty", "error"}, NEW t \in Seq(Chats), Rewrite(s, k, t)
  PROVE  OwnLines'
<1>1. s \in Chats /\ at[s] \notin {"unsent", "sending"}
  BY DEF Streaming, Awaited
<1>2. /\ Len(lines') = Len(lines)
      /\ \A i \in 1..Len(lines) : lines'[i] = IF i = slot[s] THEN Written(k, s, t) ELSE lines[i]
  BY <1>1, Rewritten
<1>3. Written(k, s, t).by = s /\ Written(k, s, t).kind # "question"
  BY DEF Written
<1>4. SUFFICES ASSUME ~wiped, NEW u \in Streaming
               PROVE  /\ slot[u] \in 1..Len(lines)
                      /\ lines'[slot[u]].by = u /\ lines'[slot[u]].kind # "question"
  BY <1>2 DEF OwnLines
<1>5. /\ slot[u] \in 1..Len(lines)
      /\ lines[slot[u]].by = u /\ lines[slot[u]].kind # "question"
      /\ lines[slot[s]].by = s
  BY <1>4 DEF OwnLines
<1>6. CASE u = s
  BY <1>2, <1>3, <1>5, <1>6
<1>7. CASE u # s
  BY <1>2, <1>5, <1>7
<1> QED
  BY <1>6, <1>7

\* What the steps of a thread leave alone, and whom they move.
LEMMA StreamMoves ==
  ASSUME Control, NEW s \in Chats, Stream(s)
  PROVE  /\ ui' = ui /\ slot' = slot /\ asked' = asked /\ crowd' = crowd /\ wiped' = wiped
         /\ at[s] \notin {"unsent", "sending", "done"}
         /\ at'[s] \notin {"unsent", "sending"}
         /\ \A t \in Chats \ {s} : at'[t] = at[t]
         /\ s \in Streaming
         /\ Streaming' \subseteq Streaming
         /\ Awaited' \subseteq Awaited
<1>1. ui' = ui /\ slot' = slot /\ asked' = asked /\ crowd' = crowd /\ wiped' = wiped
  BY DEF Stream, Piece, Show, End, Finish, Record, Fail, ShowError, Unask, Pop
<1>2. PICK from \in Points \ {"unsent", "sending", "done"}, to \in Points \ {"unsent", "sending"} :
        Goto(s, from, to)
  BY DEF Stream, Piece, Show, End, Finish, Record, Fail, ShowError, Unask, Pop, Points
<1>3. /\ at[s] \notin {"unsent", "sending", "done"}
      /\ at'[s] \notin {"unsent", "sending"}
      /\ \A t \in Chats \ {s} : at'[t] = at[t]
  BY <1>2 DEF Goto, Control, Types
<1>4. s \in Streaming /\ Streaming' \subseteq Streaming /\ Awaited' \subseteq Awaited
  BY <1>3 DEF Streaming, Awaited
<1> QED
  BY <1>1, <1>3, <1>4

\* The interface's steps that neither begin nor open a request.
LEMMA UiStays ==
  ASSUME TrimOne \/ Trimmed \/ Post \/ Inform \/ Clear \/ ClearHistory
  PROVE  /\ at' = at /\ slot' = slot /\ got' = got /\ buf' = buf /\ crowd' = crowd
         /\ Awaited' = Awaited /\ Streaming' = Streaming
<1>1. at' = at /\ slot' = slot /\ got' = got /\ buf' = buf /\ crowd' = crowd
  BY DEF TrimOne, Trimmed, Post, Inform, Clear, ClearHistory, Command
<1> QED
  BY <1>1 DEF Awaited, Streaming

\* The chat being sent begins to stream.
LEMMA Opened ==
  ASSUME Control, Open
  PROVE  /\ ui.chat \in Chats /\ at[ui.chat] = "sending" /\ at'[ui.chat] = "reading"
         /\ slot'[ui.chat] = Len(lines) + 1
         /\ \A t \in Chats \ {ui.chat} : at'[t] = at[t] /\ slot'[t] = slot[t]
         /\ Awaited' = Awaited /\ ui.chat \in Awaited
         /\ Streaming' = Streaming \union {ui.chat} /\ ui.chat \notin Streaming
<1>1. ui.chat \in Chats /\ at[ui.chat] = "sending"
  BY DEF Open, Goto, Control, Types, Input
<1>2. /\ at'[ui.chat] = "reading" /\ slot'[ui.chat] = Len(lines) + 1
      /\ \A t \in Chats \ {ui.chat} : at'[t] = at[t] /\ slot'[t] = slot[t]
  BY <1>1 DEF Open, Goto, Placeholder, Control, Types
<1>3. Awaited' = Awaited /\ ui.chat \in Awaited
  BY <1>1, <1>2 DEF Awaited
<1>4. Streaming' = Streaming \union {ui.chat} /\ ui.chat \notin Streaming
  <2>1. \A t \in Chats : t \in Streaming' <=> t \in Streaming \/ t = ui.chat
    BY <1>1, <1>2, <1>3 DEF Streaming, Awaited
  <2>2. Streaming \subseteq Chats /\ Streaming' \subseteq Chats
    BY DEF Streaming, Awaited
  <2>3. ui.chat \notin Streaming
    BY <1>1 DEF Streaming
  <2> QED
    BY <1>1, <2>1, <2>2, <2>3
<1> QED
  BY <1>1, <1>2, <1>3, <1>4

LEMMA OwnLinesOpen ==
  ASSUME Control, OwnLines, Open
  PROVE  OwnLines'
<1> DEFINE u == ui.chat
           line == Written("reply", u, <<>>)
<1>1. u \in Chats /\ slot'[u] = Len(lines) + 1 /\ Streaming' = Streaming \union {u}
  BY Opened
<1>2. \A s \in Streaming : s # u /\ slot'[s] = slot[s]
  BY Opened DEF Streaming, Awaited
<1>3. lines \in Seq(Line) /\ line \in Line /\ lines' = Append(lines, line) /\ wiped' = wiped
  BY <1>1 DEF Open, Control, Types, Written, Line
<1>4. line.by = u /\ line.kind # "question"
  BY DEF Written
<1> HIDE DEF u, line
<1>5. /\ Len(lines') = Len(lines) + 1 /\ lines'[Len(lines) + 1] = line
      /\ \A i \in 1..Len(lines) : lines'[i] = lines[i]
      /\ Len(lines) \in Nat
  BY <1>3, OneMore
<1>6. SUFFICES ASSUME ~wiped, NEW s \in Streaming'
               PROVE  /\ slot'[s] \in 1..Len(lines')
                      /\ lines'[slot'[s]].by = s /\ lines'[slot'[s]].kind # "question"
  BY <1>3 DEF OwnLines
<1>7. CASE s = u
  BY <1>1, <1>4, <1>5, <1>7
<1>8. CASE s \in Streaming
  <2>1. /\ slot[s] \in 1..Len(lines)
        /\ lines[slot[s]].by = s /\ lines[slot[s]].kind # "question"
    BY <1>6, <1>8 DEF OwnLines
  <2> QED
    BY <1>2, <1>5, <1>8, <2>1
<1> QED
  BY <1>1, <1>6, <1>7, <1>8

LEMMA OwnLinesStep ==
  ASSUME Control, OwnLines, Next
  PROVE  OwnLines'
<1>0. <<>> \in Seq(Chats) /\ buf \in Seq(Chats)
  BY DEF Control, Types
<1>1. ASSUME NEW s \in Chats, Enter(s) PROVE OwnLines'
  <2>1. \A t \in Streaming' : t \in Streaming /\ slot'[t] = slot[t]
    BY <1>1, Entered DEF Enter, Streaming, Awaited
  <2>2. Written("question", s, <<>>) \in Line
    BY DEF Written, Line
  <2>3. wiped' = wiped /\ lines' = Append(lines, Written("question", s, <<>>))
    BY <1>1 DEF Enter
  <2> HIDE DEF Written
  <2> QED
    BY <2>1, <2>2, <2>3, OwnLinesAppended
<1>2. CASE TrimOne \/ Trimmed \/ Post
  BY <1>2, UiStays, OwnLinesKept DEF TrimOne, Trimmed, Post
<1>3. CASE Open
  BY <1>3, OwnLinesOpen
<1>4. CASE Inform \/ ClearHistory
  <2>1. Written("info", None, <<>>) \in Line
    BY DEF Written, Line
  <2>2. wiped' = wiped /\ lines' = Append(lines, Written("info", None, <<>>))
    BY <1>4 DEF Inform, ClearHistory
  <2>3. \A t \in Streaming' : t \in Streaming /\ slot'[t] = slot[t]
    BY <1>4, UiStays
  <2> QED
    BY <2>1, <2>2, <2>3, OwnLinesAppended
<1>5. CASE Clear
  <2>1. wiped' = (wiped \/ Awaited # {}) /\ Awaited' = Awaited
    BY <1>5, UiStays DEF Clear
  <2> QED
    BY <2>1 DEF OwnLines, Streaming
<1>6. ASSUME NEW s \in Chats, Stream(s), lines' = lines PROVE OwnLines'
  BY <1>6, StreamMoves, OwnLinesKept
<1>7. ASSUME NEW s \in Chats, Stream(s), HasLine(s),
             NEW k \in {"reply", "empty", "error"}, NEW t \in Seq(Chats), Rewrite(s, k, t)
      PROVE  OwnLines'
  BY <1>7, StreamMoves, OwnLinesRewritten
<1>8. ASSUME NEW s \in Chats, Stream(s) PROVE OwnLines'
  <2>1. CASE Piece(s) \/ End(s) \/ Record(s) \/ Fail(s) \/ Unask(s) \/ Pop(s)
    BY <1>6, <1>8, <2>1 DEF Piece, End, Record, Fail, Unask, Pop
  <2>2. CASE Show(s)
    BY <1>0, <1>6, <1>7, <1>8, <2>2 DEF Show
  <2>3. CASE Finish(s)
    BY <1>0, <1>6, <1>7, <1>8, <2>3 DEF Finish
  <2>4. CASE ShowError(s)
    BY <1>0, <1>6, <1>7, <1>8, <2>4 DEF ShowError
  <2> QED
    BY <1>8, <2>1, <2>2, <2>3, <2>4 DEF Stream
<1> QED
  BY <1>1, <1>2, <1>3, <1>4, <1>5, <1>8 DEF Next

-----------------------------------------------------------------------------
(* Whose reply the buffer holds                                            *)

LEMMA OnePieceMore ==
  ASSUME NEW s \in Chats, NEW n \in Nat
  PROVE  Append([i \in 1..n |-> s], s) = [i \in 1..n + 1 |-> s]
<1>1. [i \in 1..n |-> s] \in Seq(Chats) /\ Len([i \in 1..n |-> s]) = n
  OBVIOUS
<1>2. [i \in 1..n + 1 |-> s] \in Seq(Chats) /\ Len([i \in 1..n + 1 |-> s]) = n + 1
  OBVIOUS
<1> DEFINE c == [i \in 1..n |-> s]
           d == [i \in 1..n + 1 |-> s]
<1>3. /\ Append(c, s) \in Seq(Chats) /\ Len(Append(c, s)) = n + 1
      /\ Append(c, s)[n + 1] = s /\ \A i \in 1..n : Append(c, s)[i] = c[i]
  <2>1. c \in Seq(Chats) /\ Len(c) = n
    BY <1>1
  <2> HIDE DEF c
  <2> QED
    BY <2>1, OneMore
<1>4. \A i \in 1..n + 1 : d[i] = s
  OBVIOUS
<1>5. \A i \in 1..n : c[i] = s
  OBVIOUS
<1>6. d \in Seq(Chats) /\ Len(d) = n + 1
  BY <1>2
<1> HIDE DEF c, d
<1>7. \A i \in 1..n + 1 : Append(c, s)[i] = d[i]
  <2> SUFFICES ASSUME NEW i \in 1..n + 1 PROVE Append(c, s)[i] = d[i]
    OBVIOUS
  <2>1. i \in 1..n \/ i = n + 1
    OBVIOUS
  <2> QED
    BY <1>3, <1>4, <1>5, <2>1
<1>8. Append(c, s) = d
  BY <1>3, <1>6, <1>7, SeqEqual
<1> QED
  BY <1>8 DEF c, d

LEMMA ReadingStep ==
  ASSUME Control, Apart, Reading, Next
  PROVE  Reading'
<1>1. ASSUME NEW s \in Chats, Enter(s) PROVE Reading'
  <2>1. got' = got /\ buf' = buf /\ crowd \subseteq crowd'
    BY <1>1, Entered DEF Enter
  <2>3. Streaming' = Streaming
    BY <1>1, Entered DEF Streaming, Awaited
  <2>2. \A t \in Chats : at'[t] \in {"unsent", "sending"} => at[t] \in {"unsent", "sending"}
    BY <1>1, Entered
  <2> QED
    BY <2>1, <2>2, <2>3 DEF Reading, Pieces
<1>2. CASE TrimOne \/ Trimmed \/ Post \/ Inform \/ Clear \/ ClearHistory
  BY <1>2, UiStays DEF Reading, Pieces
<1>3. CASE Open
  <2>0. PICK u \in Chats : u = ui.chat
    BY <1>3, Opened
  <2>1. /\ at[u] = "sending" /\ u \in Awaited
        /\ Streaming' = Streaming \union {u}
        /\ \A t \in Chats \ {u} : at'[t] = at[t]
        /\ at'[u] = "reading"
    BY <1>3, <2>0, Opened
  <2>2. buf' = <<>> /\ got' = got /\ crowd' = crowd
    BY <1>3 DEF Open, FreshBuffer
  <2>3. got[u] = 0
    BY <2>1 DEF Reading
  <2>4. \A t \in Streaming \ crowd : t = u
    BY <2>1, Lone DEF Streaming
  <2>5. Pieces(u)' = <<>>
    BY <2>2, <2>3 DEF Pieces
  <2>6. \A t \in Chats : at'[t] \in {"unsent", "sending"} => got'[t] = 0
    BY <2>1, <2>2 DEF Reading
  <2>7. \A t \in Streaming' \ crowd' : t = u
    BY <2>1, <2>2, <2>4
  <2>8. \A t \in Streaming' \ crowd' : buf' = Pieces(t)'
    BY <2>2, <2>5, <2>7 DEF Pieces
  <2> QED
    BY <2>6, <2>8 DEF Reading
<1>4. ASSUME NEW s \in Chats, Piece(s) PROVE Reading'
  <2>1. /\ crowd' = crowd /\ s \in Streaming /\ Streaming' \subseteq Streaming
        /\ at[s] \notin {"unsent", "sending"}
        /\ at'[s] \notin {"unsent", "sending"}
        /\ \A t \in Chats \ {s} : at'[t] = at[t]
    BY <1>4, StreamMoves DEF Stream
  <2>2. /\ buf' = Append(buf, s) /\ got'[s] = got[s] + 1 /\ got[s] \in Nat
        /\ \A t \in Chats \ {s} : got'[t] = got[t]
    BY <1>4, BoundsAssumption DEF Piece, Control, Types
  <2>3. \A t \in Chats : at'[t] \in {"unsent", "sending"} => got'[t] = 0
    BY <2>1, <2>2 DEF Reading
  <2>4. \A t \in Streaming' \ crowd' : t = s
    BY <2>1, Lone DEF Streaming
  <2>5. s \notin crowd => buf' = Pieces(s)'
    BY <2>1, <2>2, OnePieceMore DEF Reading, Pieces
  <2>6. \A t \in Streaming' \ crowd' : buf' = Pieces(t)'
    BY <2>1, <2>4, <2>5
  <2> QED
    BY <2>3, <2>6 DEF Reading
<1>5. ASSUME NEW s \in Chats,
             Show(s) \/ End(s) \/ Finish(s) \/ Record(s) \/ Fail(s) \/ ShowError(s)
               \/ Unask(s) \/ Pop(s)
      PROVE  Reading'
  <2>1. /\ crowd' = crowd /\ Streaming' \subseteq Streaming
        /\ at'[s] \notin {"unsent", "sending"}
        /\ \A t \in Chats \ {s} : at'[t] = at[t]
    BY <1>5, StreamMoves DEF Stream
  <2>2. buf' = buf /\ got' = got
    BY <1>5 DEF Show, End, Finish, Record, Fail, ShowError, Unask, Pop
  <2> QED
    BY <2>1, <2>2 DEF Reading, Pieces
<1> QED
  BY <1>1, <1>2, <1>3, <1>4, <1>5 DEF Next, Stream

\* A thread that is over reads no more.
LEMMA ReadIsRead ==
  ASSUME Control, Next, NEW s \in Chats, at[s] = "done"
  PROVE  got'[s] = got[s] /\ at'[s] = "done"
<1>1. at'[s] = "done"
  BY CrowdGrows
<1>2. ASSUME NEW t \in Chats, Piece(t) PROVE got'[s] = got[s]
  BY <1>2 DEF Piece, Goto, Control, Types
<1>3. ASSUME NEW t \in Chats, Enter(t) \/ Show(t) \/ End(t) \/ Finish(t) \/ Record(t) \/ Fail(t)
                                \/ ShowError(t) \/ Unask(t) \/ Pop(t)
      PROVE  got' = got
  BY <1>3 DEF Enter, Show, End, Finish, Record, Fail, ShowError, Unask, Pop
<1>4. ASSUME TrimOne \/ Trimmed \/ Post \/ Open \/ Inform \/ Clear \/ ClearHistory
      PROVE  got' = got
  BY <1>4 DEF TrimOne, Trimmed, Post, Open, Inform, Clear, ClearHistory, Command
<1>5. got'[s] = got[s]
  BY <1>2, <1>3, <1>4 DEF Next, Stream
<1> QED
  BY <1>1, <1>5

-----------------------------------------------------------------------------
(* What enters the conversation                                            *)

Sound(m) ==
  m.role = "assistant" => /\ at[m.of] = "done"
                          /\ m.of \notin crowd => m.text = Pieces(m.of)

LEMMA SoundStays ==
  ASSUME Control, Next, NEW m \in Message, Sound(m)
  PROVE  Sound(m)'
<1>1. m.of \in Chats
  BY DEF Message
<1>2. crowd \subseteq crowd'
  BY CrowdGrows
<1>3. at[m.of] = "done" => at'[m.of] = "done" /\ got'[m.of] = got[m.of]
  BY <1>1, ReadIsRead
<1> QED
  BY <1>2, <1>3 DEF Sound, Pieces

\* Where the messages of the conversation come from.
LEMMA Spoken ==
  ASSUME Control, Next, NEW i \in 1..Len(conv')
  PROVE  \/ \E j \in 1..Len(conv) : conv'[i] = conv[j]
         \/ \E s \in Chats : Enter(s) /\ conv'[i] = Question(s)
         \/ \E s \in Chats : Record(s) /\ conv'[i] = Answer(s, buf)
<1>0. conv \in Seq(Message) /\ buf \in Seq(Chats) /\ Len(conv) \in Nat
  BY DEF Control, Types
<1>1. ASSUME NEW s \in Chats, NEW m \in Message, conv' = Append(conv, m)
      PROVE  conv'[i] = m \/ \E j \in 1..Len(conv) : conv'[i] = conv[j]
  <2>1. Len(conv') = Len(conv) + 1 /\ conv'[Len(conv) + 1] = m
        /\ \A j \in 1..Len(conv) : conv'[j] = conv[j]
    BY <1>0, <1>1, OneMore
  <2>2. i \in 1..Len(conv) \/ i = Len(conv) + 1
    BY <1>0, <2>1
  <2> QED
    BY <2>1, <2>2
<1>2. ASSUME NEW s \in Chats, Enter(s)
      PROVE  conv'[i] = Question(s) \/ \E j \in 1..Len(conv) : conv'[i] = conv[j]
  BY <1>1, <1>2, Said DEF Enter
<1>3. ASSUME NEW s \in Chats, Record(s)
      PROVE  conv'[i] = Answer(s, buf) \/ \E j \in 1..Len(conv) : conv'[i] = conv[j]
  BY <1>0, <1>1, <1>3, Said DEF Record
<1>4. CASE TrimOne
  <2>1. conv # <<>>
    BY <1>0, <1>4, BoundsAssumption DEF TrimOne, TooLong
  <2>2. Len(conv') = Len(conv) - 1 /\ \A j \in 1..Len(conv) - 1 : conv'[j] = conv[j + 1]
    BY <1>0, <1>4, <2>1, WithoutFirst DEF TrimOne
  <2>3. i + 1 \in 1..Len(conv) /\ conv'[i] = conv[i + 1]
    BY <1>0, <2>2
  <2> QED
    BY <2>3
<1>5. CASE ClearHistory
  BY <1>5 DEF ClearHistory
<1>6. ASSUME NEW s \in Chats, Pop(s)
      PROVE  \E j \in 1..Len(conv) : conv'[i] = conv[j]
  <2>1. conv # <<>>
    BY <1>6 DEF Pop, DropLast
  <2>2. Len(conv') = Len(conv) - 1 /\ \A j \in 1..Len(conv) - 1 : conv'[j] = conv[j]
    BY <1>0, <1>6, <2>1, WithoutLast DEF Pop, DropLast
  <2>3. i \in 1..Len(conv) /\ conv'[i] = conv[i]
    BY <1>0, <2>2
  <2> QED
    BY <2>3
<1>7. CASE conv' = conv
  BY <1>7
<1>8. ASSUME NEW s \in Chats, Stream(s), ~Record(s), ~Pop(s)
      PROVE  conv' = conv
  BY <1>8 DEF Stream, Piece, Show, End, Finish, Fail, ShowError, Unask
<1>9. CASE Trimmed \/ Post \/ Open \/ Inform \/ Clear
  BY <1>7, <1>9 DEF Trimmed, Post, Open, Inform, Clear
<1> QED
  BY <1>2, <1>3, <1>4, <1>5, <1>6, <1>7, <1>8, <1>9 DEF Next

LEMMA RecordedStep ==
  ASSUME Control, Control', Reading, Recorded, Next
  PROVE  Recorded'
<1>1. /\ \A i \in 1..Len(conv) : conv[i] \in Message /\ Sound(conv[i])
      /\ \A i \in 1..Len(conv') : conv'[i] \in Message
  <2>1. conv \in Seq(Message) /\ conv' \in Seq(Message)
    BY DEF Control, Types
  <2>2. \A i \in 1..Len(conv) : Sound(conv[i])
    BY DEF Recorded, Sound
  <2> QED
    BY <2>1, <2>2
<1>2. SUFFICES ASSUME NEW i \in 1..Len(conv')
               PROVE  \E m \in Message : m = conv'[i] /\ Sound(m)'
  BY DEF Recorded, Sound
<1>3. CASE \E j \in 1..Len(conv) : conv'[i] = conv[j]
  <2>1. PICK m \in Message : m = conv'[i] /\ Sound(m)
    BY <1>1, <1>3
  <2> QED
    BY <2>1, SoundStays
<1>4. ASSUME NEW s \in Chats, conv'[i] = Question(s)
      PROVE  \E m \in Message : m = conv'[i] /\ Sound(m)'
  <2>1. Question(s) \in Message /\ Question(s).role # "assistant"
    BY Said DEF Question
  <2> QED
    BY <1>4, <2>1 DEF Sound
<1>5. ASSUME NEW s \in Chats, Record(s), conv'[i] = Answer(s, buf)
      PROVE  \E m \in Message : m = conv'[i] /\ Sound(m)'
  <2>1. PICK m \in Message : m = conv'[i]
    BY <1>1
  <2>2. m.of = s /\ m.text = buf
    BY <1>5, <2>1 DEF Answer
  <2>3. s \in Streaming /\ crowd' = crowd /\ got' = got /\ at'[s] = "done"
    BY <1>5, StreamMoves DEF Stream, Record, Goto, Control, Types
  <2>4. s \notin crowd => buf = Pieces(s)
    BY <2>3 DEF Reading
  <2> QED
    BY <2>1, <2>2, <2>3, <2>4 DEF Sound, Pieces
<1> QED
  BY <1>3, <1>4, <1>5, Spoken

-----------------------------------------------------------------------------
(* What a question is sent with                                            *)

LEMMA LastAdded ==
  ASSUME NEW c \in Seq(Message), NEW m \in Message
  PROVE  Append(c, m) # <<>> /\ Append(c, m)[Len(Append(c, m))] = m
BY OneMore

\* While a question is sent that nobody else waits along with, no thread runs.
LEMMA SentAlone ==
  ASSUME Control, Apart, NEW s \in Chats, Stream(s), ui.at # "idle"
  PROVE  ui.chat \in crowd
<1>1. ui.chat \in Chats /\ at[ui.chat] = "sending"
  BY DEF Control, Types, Input
<1>2. ui.chat \in Awaited /\ s \in Awaited /\ s # ui.chat
  BY <1>1, StreamMoves DEF Awaited, Streaming
<1> QED
  BY <1>2 DEF Apart

LEMMA KeptStep ==
  ASSUME Control, Apart, Kept, Next
  PROVE  Kept'
<1>0. conv \in Seq(Message) /\ Len(conv) \in Nat /\ MaxTurns \in Nat \ {0}
  BY BoundsAssumption DEF Control, Types
<1>1. ASSUME NEW s \in Chats, Enter(s) PROVE Kept'
  <2>1. ui' = [at |-> "trim", chat |-> s] /\ conv' = Append(conv, Question(s))
    BY <1>1 DEF Enter
  <2>2. conv' # <<>> /\ conv'[Len(conv')] = Question(s)
    BY <1>0, <2>1, Said, LastAdded
  <2>3. Question(ui.chat)' = Question(s) /\ ui'.at # "post"
    BY <2>1 DEF Question
  <2> QED
    BY <2>2, <2>3 DEF Kept, EndsWith
<1>2. CASE TrimOne
  <2>1. Len(conv) > 2 /\ conv # <<>> /\ ui' = ui /\ ui.at = "trim" /\ crowd' = crowd
    BY <1>0, <1>2 DEF TrimOne, TooLong
  <2>2. /\ conv' \in Seq(Message) /\ Len(conv') = Len(conv) - 1
        /\ \A i \in 1..Len(conv) - 1 : conv'[i] = conv[i + 1]
    BY <1>0, <1>2, <2>1, WithoutFirst DEF TrimOne
  <2>3. conv' # <<>> /\ conv'[Len(conv')] = conv[Len(conv)]
    BY <1>0, <2>1, <2>2
  <2> QED
    BY <2>1, <2>3 DEF Kept, EndsWith, Question
<1>3. CASE Trimmed
  <2>1. ui.at = "trim" /\ ui'.chat = ui.chat /\ conv' = conv /\ crowd' = crowd /\ ~TooLong
    BY <1>3 DEF Trimmed, Control, Types
  <2> QED
    BY <2>1 DEF Kept, EndsWith, Question, TooLong
<1>4. CASE Post \/ Open \/ Inform \/ Clear \/ ClearHistory
  <2>1. ui'.at \notin {"trim", "post"}
    BY <1>4 DEF Post, Open, Inform, Clear, ClearHistory, Command, Control, Types
  <2> QED
    BY <2>1 DEF Kept
<1>5. ASSUME NEW s \in Chats, Stream(s) PROVE Kept'
  <2>1. ui' = ui /\ crowd' = crowd
    BY <1>5, StreamMoves
  <2> QED
    BY <1>5, <2>1, SentAlone DEF Kept
<1> QED
  BY <1>1, <1>2, <1>3, <1>4, <1>5 DEF Next

\* The request takes the conversation as it is when it is sent.
LEMMA AskedStays ==
  ASSUME Next, ~Post
  PROVE  asked' = asked
<1>1. ASSUME NEW s \in Chats, Enter(s) \/ Stream(s) PROVE asked' = asked
  BY <1>1 DEF Enter, Stream, Piece, Show, End, Finish, Record, Fail, ShowError, Unask, Pop
<1>2. CASE TrimOne \/ Trimmed \/ Open \/ Inform \/ Clear \/ ClearHistory
  BY <1>2 DEF TrimOne, Trimmed, Open, Inform, Clear, ClearHistory, Command
<1> QED
  BY <1>1, <1>2 DEF Next

LEMMA Posted ==
  ASSUME Control, Post
  PROVE  \E u \in Chats : /\ u = ui.chat /\ asked'[u] = conv
                          /\ \A t \in Chats \ {u} : asked'[t] = asked[t]
<1>1. ui.chat \in Chats
  BY DEF Post, Control, Types, Input
<1> QED
  BY <1>1 DEF Post, Control, Types

LEMMA RequestStep ==
  ASSUME Control, Kept, RequestEndsWithItsQuestion, Next
  PROVE  RequestEndsWithItsQuestion'
<1>1. crowd \subseteq crowd'
  BY CrowdGrows
<1>2. CASE ~Post
  BY <1>1, <1>2, AskedStays DEF RequestEndsWithItsQuestion, Question
<1>3. CASE Post
  <2>1. PICK u \in Chats : /\ u = ui.chat /\ asked'[u] = conv
                           /\ \A t \in Chats \ {u} : asked'[t] = asked[t]
    BY <1>3, Posted
  <2>2. Len(conv) \in Nat /\ MaxTurns \in Nat
    BY BoundsAssumption DEF Control, Types
  <2>3. u \notin crowd => /\ Len(conv) <= 2 * MaxTurns
                          /\ conv[Len(conv)] = Question(u)
    BY <1>3, <2>1, <2>2 DEF Kept, EndsWith, TooLong, Post
  <2>4. ASSUME NEW t \in Chats \ crowd', asked'[t] # <<>>
        PROVE  /\ Len(asked'[t]) <= 2 * MaxTurns
               /\ asked'[t][Len(asked'[t])] = Question(t)
    <3>1. CASE t = u
      BY <1>1, <2>1, <2>3, <3>1
    <3>2. CASE t # u
      BY <1>1, <2>1, <2>4, <3>2 DEF RequestEndsWithItsQuestion
    <3> QED
      BY <3>1, <3>2
  <2> QED
    BY <2>4 DEF RequestEndsWithItsQuestion, Question
<1> QED
  BY <1>2, <1>3

-----------------------------------------------------------------------------
(* Whose turn it is                                                        *)

LEMMA AlternatesMore ==
  ASSUME NEW c \in Seq(Message), Alternates(c), NEW m \in Message,
         c = <<>> \/ c[Len(c)].role # m.role
  PROVE  Alternates(Append(c, m))
<1> DEFINE d == Append(c, m)
<1>1. /\ Len(d) = Len(c) + 1 /\ d[Len(c) + 1] = m
      /\ \A i \in 1..Len(c) : d[i] = c[i]
      /\ Len(c) \in Nat
  BY OneMore
<1> HIDE DEF d
<1>2. SUFFICES ASSUME NEW i \in 1..Len(d) - 1 PROVE d[i].role # d[i+1].role
  BY DEF Alternates, d
<1>3. i \in 1..Len(c) /\ d[i] = c[i]
  BY <1>1
<1>4. CASE i = Len(c)
  <2>1. c # <<>> /\ d[i + 1] = m
    BY <1>1, <1>3, <1>4
  <2> QED
    BY <1>3, <1>4, <2>1
<1>5. CASE i # Len(c)
  <2>1. i \in 1..Len(c) - 1 /\ d[i + 1] = c[i + 1]
    BY <1>1, <1>3, <1>5
  <2> QED
    BY <1>3, <2>1 DEF Alternates
<1> QED
  BY <1>4, <1>5

LEMMA AlternatesLess ==
  ASSUME NEW c \in Seq(Message), Alternates(c), c # <<>>
  PROVE  /\ Alternates(Tail(c))
         /\ Tail(c) # <<>> => Tail(c)[Len(Tail(c))] = c[Len(c)]
         /\ Alternates(SubSeq(c, 1, Len(c) - 1))
         /\ SubSeq(c, 1, Len(c) - 1) # <<>> =>
              SubSeq(c, 1, Len(c) - 1)[Len(SubSeq(c, 1, Len(c) - 1))].role # c[Len(c)].role
<1> DEFINE d == Tail(c)
           e == SubSeq(c, 1, Len(c) - 1)
<1>1. /\ d \in Seq(Message) /\ Len(d) = Len(c) - 1
      /\ \A i \in 1..Len(c) - 1 : d[i] = c[i + 1]
  BY WithoutFirst
<1>2. /\ e \in Seq(Message) /\ Len(e) = Len(c) - 1
      /\ \A i \in 1..Len(c) - 1 : e[i] = c[i]
  BY WithoutLast
<1>3. Len(c) \in Nat \ {0}
  OBVIOUS
<1> HIDE DEF d, e
<1>4. Alternates(d)
  <2> SUFFICES ASSUME NEW i \in 1..Len(d) - 1 PROVE d[i].role # d[i+1].role
    BY DEF Alternates
  <2>1. i + 1 \in 1..Len(c) - 1 /\ d[i] = c[i + 1] /\ d[i + 1] = c[i + 1 + 1]
    BY <1>1, <1>3
  <2> QED
    BY <2>1 DEF Alternates
<1>5. d # <<>> => d[Len(d)] = c[Len(c)]
  BY <1>1, <1>3
<1>6. Alternates(e)
  <2> SUFFICES ASSUME NEW i \in 1..Len(e) - 1 PROVE e[i].role # e[i+1].role
    BY DEF Alternates
  <2>1. i \in 1..Len(c) - 1 /\ e[i] = c[i] /\ e[i + 1] = c[i + 1]
    BY <1>2, <1>3
  <2> QED
    BY <2>1 DEF Alternates
<1>7. ASSUME e # <<>> PROVE e[Len(e)].role # c[Len(c)].role
  <2>1. Len(e) \in 1..Len(c) - 1 /\ Len(e) + 1 = Len(c)
    BY <1>2, <1>3, <1>7
  <2>2. e[Len(e)] = c[Len(e)]
    BY <1>2, <2>1
  <2> QED
    BY <2>1, <2>2 DEF Alternates
<1> QED
  BY <1>4, <1>5, <1>6, <1>7 DEF d, e

\* A panel that is left alone was left alone before.
LEMMA LeftAlone ==
  ASSUME Next, ~wiped', Types
  PROVE  ~wiped
<1>1. ASSUME NEW s \in Chats, Enter(s) \/ Stream(s) PROVE wiped' = wiped
  BY <1>1 DEF Enter, Stream, Piece, Show, End, Finish, Record, Fail, ShowError, Unask, Pop
<1>2. ASSUME TrimOne \/ Trimmed \/ Post \/ Open \/ Inform \/ ClearHistory PROVE wiped' = wiped
  BY <1>2 DEF TrimOne, Trimmed, Post, Open, Inform, ClearHistory, Command
<1>3. ASSUME Clear PROVE wiped' = (wiped \/ Awaited # {})
  BY <1>3 DEF Clear
<1> QED
  BY <1>1, <1>2, <1>3 DEF Next

\* With nobody in the crowd, a chat that ends leaves nobody awaited.
LEMMA LastOneOut ==
  ASSUME Control, Apart, crowd = {}, NEW s \in Chats, Stream(s), at'[s] = "done"
  PROVE  Awaited # {} /\ Awaited' = {}
<1>1. s \in Awaited /\ Awaited' \subseteq Awaited
  BY StreamMoves DEF Streaming
<1>2. \A t \in Awaited : t = s
  BY <1>1, Lone
<1>3. s \notin Awaited'
  BY DEF Awaited
<1> QED
  BY <1>1, <1>2, <1>3

LEMMA StillAwaited ==
  ASSUME Control, NEW s \in Chats, Stream(s), at'[s] # "done"
  PROVE  Awaited # {} /\ Awaited' # {}
<1>1. s \in Awaited /\ at'[s] # "unsent"
  BY StreamMoves DEF Streaming
<1>2. s \in Awaited'
  BY <1>1 DEF Awaited
<1> QED
  BY <1>1, <1>2

\* The steps of a thread, by what they make of the conversation.
LEMMA TurnsThread ==
  ASSUME Control, Apart, OwnLines, NEW s \in Chats, Stream(s), crowd = {}, ~wiped,
         Alternates(conv), LastRole("user")
  PROVE  /\ Alternates(conv')
         /\ Awaited' = {} => LastRole("assistant")'
         /\ Awaited' # {} => LastRole("user")'
<1>0. conv \in Seq(Message) /\ Len(conv) \in Nat /\ buf \in Seq(Chats)
  BY DEF Control, Types
<1>1. HasLine(s)
  <2>1. s \in Streaming
    BY StreamMoves
  <2>2. slot[s] \in 1..Len(lines) /\ lines \in Seq(Line)
    BY <2>1 DEF OwnLines, Control, Types
  <2> QED
    BY <2>2 DEF HasLine
<1>2. ASSUME conv' = conv, at'[s] # "done"
      PROVE  /\ Alternates(conv')
             /\ Awaited' = {} => LastRole("assistant")'
             /\ Awaited' # {} => LastRole("user")'
  BY <1>2, StillAwaited DEF LastRole
<1>3. CASE Piece(s) \/ Show(s) \/ End(s) \/ Finish(s) \/ Fail(s)
  <2>1. conv' = conv /\ at'[s] # "done"
    BY <1>3 DEF Piece, Show, End, Finish, Fail, Goto, Control, Types
  <2> QED
    BY <1>2, <2>1
<1>4. CASE ShowError(s)
  <2>1. conv' = conv /\ at'[s] # "done"
    BY <1>1, <1>4 DEF ShowError, Goto, Control, Types
  <2> QED
    BY <1>2, <2>1
<1>5. CASE Unask(s)
  <2>1. conv' = conv /\ at'[s] = IF Unanswered THEN "pop" ELSE "done"
    BY <1>5 DEF Unask, Goto, Control, Types
  <2>2. CASE Unanswered
    BY <1>2, <2>1, <2>2
  <2>3. CASE ~Unanswered
    <3>1. conv = <<>>
      BY <2>3 DEF Unanswered, LastRole
    <3>2. Awaited' = {}
      BY <2>1, <2>3, LastOneOut
    <3> QED
      BY <2>1, <3>1, <3>2 DEF LastRole
  <2> QED
    BY <2>2, <2>3
<1>6. CASE Record(s)
  <2>1. conv' = Append(conv, Answer(s, buf)) /\ at'[s] = "done"
    BY <1>6 DEF Record, Goto, Control, Types
  <2>2. Answer(s, buf) \in Message /\ Answer(s, buf).role = "assistant"
    BY <1>0, Said DEF Answer
  <2>3. Alternates(conv')
    BY <1>0, <2>1, <2>2, AlternatesMore DEF LastRole
  <2>4. conv'[Len(conv')].role = "assistant"
    BY <1>0, <2>1, <2>2, LastAdded
  <2>5. Awaited' = {}
    BY <2>1, LastOneOut
  <2> QED
    BY <2>3, <2>4, <2>5 DEF LastRole
<1>7. CASE Pop(s)
  <2>1. DropLast /\ at'[s] = "done"
    BY <1>7 DEF Pop, Goto, Control, Types
  <2>2. Awaited' = {}
    BY <2>1, LastOneOut
  <2>3. CASE conv = <<>>
    <3>1. conv' = conv
      BY <2>1, <2>3 DEF DropLast
    <3> QED
      BY <2>2, <2>3, <3>1 DEF LastRole
  <2>4. CASE conv # <<>>
    <3>1. conv' = SubSeq(conv, 1, Len(conv) - 1)
      BY <2>1, <2>4 DEF DropLast
    <3>2. conv[Len(conv)].role = "user"
      BY <2>4 DEF LastRole
    <3>3. Alternates(conv') /\ (conv' # <<>> => conv'[Len(conv')].role # "user")
      BY <1>0, <2>4, <3>1, <3>2, AlternatesLess
    <3>4. conv' # <<>> => conv'[Len(conv')].role \in {"user", "assistant"}
      <4>1. conv' \in Seq(Message)
        BY <1>0, <2>4, <3>1, WithoutLast
      <4>2. conv' # <<>> => conv'[Len(conv')] \in Message
        BY <4>1
      <4> QED
        BY <4>2 DEF Message
    <3> QED
      BY <2>2, <3>3, <3>4 DEF LastRole
  <2> QED
    BY <2>3, <2>4
<1> QED
  BY <1>3, <1>4, <1>5, <1>6, <1>7 DEF Stream

LEMMA TurnsStep ==
  ASSUME Control, Apart, OwnLines, Turns, Next
  PROVE  Turns'
<1>0. conv \in Seq(Message) /\ Len(conv) \in Nat /\ MaxTurns \in Nat \ {0}
  BY BoundsAssumption DEF Control, Types
<1>1. SUFFICES ASSUME crowd' = {}, ~wiped'
               PROVE  /\ Alternates(conv')
                      /\ Awaited' = {} => LastRole("assistant")'
                      /\ Awaited' # {} => LastRole("user")'
  BY DEF Turns, Alternates
<1>2. crowd = {} /\ ~wiped
  BY <1>1, CrowdGrows, LeftAlone DEF Control
<1>3. /\ Alternates(conv)
      /\ Awaited = {} => LastRole("assistant")
      /\ Awaited # {} => LastRole("user")
  BY <1>2 DEF Turns
<1>4. ASSUME NEW s \in Chats, Enter(s)
      PROVE  /\ Alternates(conv')
             /\ Awaited' = {} => LastRole("assistant")'
             /\ Awaited' # {} => LastRole("user")'
  <2>1. Awaited' # {} /\ Awaited = {}
    BY <1>1, <1>4, Entered
  <2>2. conv' = Append(conv, Question(s)) /\ Question(s) \in Message /\ Question(s).role = "user"
    BY <1>4, Said DEF Enter, Question
  <2>3. Alternates(conv')
    BY <1>0, <1>3, <2>1, <2>2, AlternatesMore DEF LastRole
  <2>4. conv'[Len(conv')].role = "user"
    BY <1>0, <2>2, LastAdded
  <2> QED
    BY <2>1, <2>3, <2>4 DEF LastRole
<1>5. CASE TrimOne
  <2>1. conv # <<>> /\ conv' = Tail(conv) /\ Awaited' = Awaited
    BY <1>0, <1>5, UiStays DEF TrimOne, TooLong
  <2>2. Alternates(conv') /\ (conv' # <<>> => conv'[Len(conv')] = conv[Len(conv)])
    BY <1>0, <1>3, <2>1, AlternatesLess
  <2> QED
    BY <1>3, <2>1, <2>2 DEF LastRole
<1>6. CASE Trimmed \/ Post \/ Open \/ Inform \/ Clear
  <2>1. conv' = conv
    BY <1>6 DEF Trimmed, Post, Open, Inform, Clear
  <2>2. Awaited' = Awaited
    BY <1>6, UiStays, Opened
  <2> QED
    BY <1>3, <2>1, <2>2 DEF LastRole
<1>7. CASE ClearHistory
  BY <1>7 DEF ClearHistory, LastRole, Alternates
<1>8. ASSUME NEW s \in Chats, Stream(s)
      PROVE  /\ Alternates(conv')
             /\ Awaited' = {} => LastRole("assistant")'
             /\ Awaited' # {} => LastRole("user")'
  <2>1. Awaited # {}
    BY <1>8, StreamMoves DEF Streaming
  <2> QED
    BY <1>2, <1>3, <1>8, <2>1, TurnsThread
<1> QED
  BY <1>4, <1>5, <1>6, <1>7, <1>8 DEF Next

LEMMA TurnsAlternateStep ==
  ASSUME Control, Turns, TurnsAlternate, Next
  PROVE  TurnsAlternate'
<1>1. SUFFICES ASSUME crowd' = {}, ~wiped', NEW s \in Chats
               PROVE  Alternates(asked'[s])
  BY DEF TurnsAlternate, Alternates
<1>2. crowd = {} /\ ~wiped
  BY <1>1, CrowdGrows, LeftAlone DEF Control
<1>3. Alternates(asked[s]) /\ Alternates(conv)
  BY <1>2 DEF TurnsAlternate, Turns, Alternates
<1>4. CASE ~Post
  BY <1>3, <1>4, AskedStays
<1>5. CASE Post
  BY <1>3, <1>5, Posted
<1> QED
  BY <1>4, <1>5

-----------------------------------------------------------------------------
(* The invariant                                                           *)

LEMMA InvariantInit == Init => IInv
<1> SUFFICES ASSUME Init PROVE IInv
  OBVIOUS
<1>1. Control
  BY ControlInit
<1>2. Awaited = {} /\ Done = {}
  BY DEF Init, Awaited, Done
<1>3. Bounded
  BY <1>2, BoundsAssumption, FS_EmptySet DEF Bounded, Init
<1>4. Apart /\ OwnLines
  BY <1>2 DEF Apart, OwnLines, Streaming
<1>5. Reading
  BY <1>2 DEF Init, Reading, Streaming
<1>6. Recorded /\ Kept /\ RequestEndsWithItsQuestion
  BY DEF Init, Recorded, Kept, RequestEndsWithItsQuestion
<1>7. Turns /\ TurnsAlternate
  BY <1>2 DEF Init, Turns, TurnsAlternate, Alternates, LastRole
<1> QED
  BY <1>1, <1>3, <1>4, <1>5, <1>6, <1>7 DEF IInv

LEMMA InvariantStep == IInv /\ [Next]_vars => IInv'
<1> SUFFICES ASSUME IInv, [Next]_vars PROVE IInv'
  OBVIOUS
<1>1. CASE Next
  <2>1. Control'
    BY <1>1, ControlStep DEF IInv
  <2>2. Bounded' /\ Apart' /\ OwnLines' /\ Reading'
    BY <1>1, <2>1, BoundedStep, ApartStep, OwnLinesStep, ReadingStep DEF IInv
  <2>3. Recorded' /\ Kept' /\ RequestEndsWithItsQuestion'
    BY <1>1, <2>1, RecordedStep, KeptStep, RequestStep DEF IInv
  <2>4. Turns' /\ TurnsAlternate'
    BY <1>1, TurnsStep, TurnsAlternateStep DEF IInv
  <2> QED
    BY <2>1, <2>2, <2>3, <2>4 DEF IInv
<1>2. CASE UNCHANGED vars
  BY <1>2 DEF vars, IInv, Control, Types, Input, Bounded, Done, Apart, Awaited, OwnLines,
    Streaming, Reading, Pieces, Recorded, Kept, EndsWith, TooLong, Turns, LastRole,
    RequestEndsWithItsQuestion, TurnsAlternate
<1> QED
  BY <1>1, <1>2

LEMMA Invariance == Spec => []IInv
BY InvariantInit, InvariantStep, PTL DEF Spec

-----------------------------------------------------------------------------
(* Theorems                                                                *)

\* The dashboard's variables keep their types, and the conversation never
\* holds more than its limit and a message for each chat (:536-545, :601).
THEOREM TypeCorrect == Spec => []TypeOK
<1>1. IInv => TypeOK
  BY BoundedTypes DEF IInv
<1> QED
  BY <1>1, Invariance, PTL

\* Each thread's index stays the index of its own line, however many other
\* threads write and however many lines are added, until the panel is cleared
\* under it (:556-559, :584).
THEOREM WritesItsOwnLineCorrect == Spec => []WritesItsOwnLine
<1>1. IInv => WritesItsOwnLine
  <2> SUFFICES ASSUME IInv, ~wiped, NEW s \in Awaited, at[s] # "sending"
               PROVE  HasLine(s) /\ lines[slot[s]].by = s /\ lines[slot[s]].kind # "question"
    BY DEF WritesItsOwnLine
  <2>1. s \in Streaming
    BY DEF Streaming
  <2>2. slot[s] \in 1..Len(lines) /\ lines[slot[s]].by = s /\ lines[slot[s]].kind # "question"
    BY <2>1 DEF IInv, OwnLines
  <2>3. lines \in Seq(Line)
    BY DEF IInv, Control, Types
  <2> QED
    BY <2>2, <2>3 DEF HasLine
<1> QED
  BY <1>1, Invariance, PTL

\* The one buffer serves a chat that is read alone as if it were its own:
\* what it records is every piece it read, in order, and nothing else
\* (:557, :583, :601).
THEOREM LoneReplyCorrect == Spec => []LoneReplyIsItsOwn
<1>1. IInv => LoneReplyIsItsOwn
  BY DEF IInv, Recorded, LoneReplyIsItsOwn
<1> QED
  BY <1>1, Invariance, PTL

\* What is trimmed is never the question being sent, and enough is
\* (:536-545).
THEOREM RequestEndsCorrect == Spec => []RequestEndsWithItsQuestion
<1>1. IInv => RequestEndsWithItsQuestion
  BY DEF IInv
<1> QED
  BY <1>1, Invariance, PTL

\* With replies awaited one at a time and the panel left alone, failures,
\* trimming and a forgotten history never put two questions or two answers in
\* a row (:538-545, :606-614).
THEOREM TurnsAlternateCorrect == Spec => []TurnsAlternate
<1>1. IInv => TurnsAlternate
  BY DEF IInv
<1> QED
  BY <1>1, Invariance, PTL

-----------------------------------------------------------------------------
(* What goes together                                                      *)

\* A chat awaited alone finds its own question last, or a conversation that
\* was forgotten meanwhile.
LoneAsks == \A s \in Awaited \ crowd : conv = <<>> \/ EndsWith(Question(s))

\* Pieces of others are in a text only if all of them were awaited together.
Blends(text, s) == \A j \in 1..Len(text) : text[j] = s \/ {text[j], s} \subseteq crowd

BufferBlends == \A s \in Streaming : Blends(buf, s)

RepliesBlendOnlyInCrowd ==
  \A i \in 1..Len(conv) : conv[i].role = "assistant" => Blends(conv[i].text, conv[i].of)

LoneAnswersFollow ==
  \A i \in 1..Len(conv) - 1 :
    conv[i + 1].role = "assistant" /\ conv[i + 1].of \notin crowd
      => conv[i] = Question(conv[i + 1].of)

Together == LoneAsks /\ BufferBlends /\ RepliesBlendOnlyInCrowd /\ LoneAnswersFollow

LEMMA LoneAsksStep ==
  ASSUME Control, Apart, LoneAsks, Next
  PROVE  LoneAsks'
<1>0. conv \in Seq(Message) /\ Len(conv) \in Nat /\ MaxTurns \in Nat \ {0}
  BY BoundsAssumption DEF Control, Types
<1>1. ASSUME NEW s \in Chats, Enter(s) PROVE LoneAsks'
  <2>1. CASE Awaited # {}
    BY <1>1, <2>1, Entered DEF LoneAsks
  <2>2. CASE Awaited = {}
    <3>1. Awaited' = {s} /\ conv' = Append(conv, Question(s))
      BY <1>1, <2>2, Entered DEF Enter
    <3>2. conv' # <<>> /\ conv'[Len(conv')] = Question(s)
      BY <1>0, <3>1, Said, LastAdded
    <3> QED
      BY <3>1, <3>2 DEF LoneAsks, EndsWith, Question
  <2> QED
    BY <2>1, <2>2
<1>2. CASE TrimOne
  <2>1. Len(conv) > 2 /\ conv # <<>> /\ Awaited' = Awaited /\ crowd' = crowd
    BY <1>0, <1>2, UiStays DEF TrimOne, TooLong
  <2>2. /\ conv' \in Seq(Message) /\ Len(conv') = Len(conv) - 1
        /\ \A i \in 1..Len(conv) - 1 : conv'[i] = conv[i + 1]
    BY <1>0, <1>2, <2>1, WithoutFirst DEF TrimOne
  <2>3. conv' # <<>> /\ conv'[Len(conv')] = conv[Len(conv)]
    BY <1>0, <2>1, <2>2
  <2> QED
    BY <2>1, <2>3 DEF LoneAsks, EndsWith, Question
<1>3. CASE Trimmed \/ Post \/ Open \/ Inform \/ Clear
  <2>1. conv' = conv
    BY <1>3 DEF Trimmed, Post, Open, Inform, Clear
  <2>2. Awaited' = Awaited /\ crowd' = crowd
    BY <1>3, UiStays, Opened DEF Open
  <2> QED
    BY <2>1, <2>2 DEF LoneAsks, EndsWith, Question
<1>4. CASE ClearHistory
  BY <1>4 DEF ClearHistory, LoneAsks
<1>5. ASSUME NEW s \in Chats, Stream(s) PROVE LoneAsks'
  <2>1. s \in Awaited /\ Awaited' \subseteq Awaited /\ crowd' = crowd
    BY <1>5, StreamMoves DEF Streaming
  <2>2. SUFFICES ASSUME NEW t \in Awaited' \ crowd'
                 PROVE  conv' = <<>> \/ EndsWith(Question(t))'
    BY DEF LoneAsks, EndsWith, Question
  <2>3. t \in Awaited \ crowd /\ t = s /\ at'[s] # "done"
    BY <2>1, <2>2, Lone DEF Awaited
  <2>4. conv' = conv
    BY <1>5, <2>3
       DEF Stream, Piece, Show, End, Finish, Record, Fail, ShowError, Unask, Pop, Goto,
           Control, Types
  <2> QED
    BY <2>3, <2>4 DEF LoneAsks, EndsWith, Question
<1> QED
  BY <1>1, <1>2, <1>3, <1>4, <1>5 DEF Next

LEMMA BufferBlendsStep ==
  ASSUME Control, Apart, BufferBlends, Next
  PROVE  BufferBlends'
<1>1. crowd \subseteq crowd'
  BY CrowdGrows
<1>2. ASSUME buf' = buf, Streaming' \subseteq Streaming PROVE BufferBlends'
  BY <1>1, <1>2 DEF BufferBlends, Blends
<1>3. ASSUME NEW s \in Chats, Enter(s) PROVE BufferBlends'
  <2>1. buf' = buf
    BY <1>3 DEF Enter
  <2>2. Streaming' \subseteq Streaming
    BY <1>3, Entered DEF Streaming, Awaited
  <2> QED
    BY <1>2, <2>1, <2>2
<1>4. CASE TrimOne \/ Trimmed \/ Post \/ Inform \/ Clear \/ ClearHistory
  BY <1>2, <1>4, UiStays
<1>5. CASE Open
  BY <1>5 DEF Open, FreshBuffer, BufferBlends, Blends
<1>6. ASSUME NEW s \in Chats, Piece(s) PROVE BufferBlends'
  <2>1. /\ s \in Streaming /\ Streaming' \subseteq Streaming /\ Streaming \subseteq Awaited
        /\ buf \in Seq(Chats) /\ buf' = Append(buf, s)
    BY <1>6, StreamMoves DEF Stream, Piece, Streaming, Control, Types
  <2>2. /\ Len(buf') = Len(buf) + 1 /\ buf'[Len(buf) + 1] = s
        /\ \A j \in 1..Len(buf) : buf'[j] = buf[j]
        /\ Len(buf) \in Nat
    BY <2>1, OneMore
  <2>3. SUFFICES ASSUME NEW t \in Streaming', NEW j \in 1..Len(buf')
                 PROVE  buf'[j] = t \/ (buf'[j] \in crowd /\ t \in crowd)
    BY <1>1 DEF BufferBlends, Blends
  <2>4. CASE j \in 1..Len(buf)
    BY <2>1, <2>2, <2>4 DEF BufferBlends, Blends
  <2>5. CASE j = Len(buf) + 1
    <3>1. buf'[j] = s /\ s \in Awaited /\ t \in Awaited
      BY <2>1, <2>2, <2>5
    <3> QED
      BY <3>1 DEF Apart
  <2>6. j \in 1..Len(buf) \/ j = Len(buf) + 1
    BY <2>2
  <2> QED
    BY <2>4, <2>5, <2>6
<1>7. ASSUME NEW s \in Chats,
             Show(s) \/ End(s) \/ Finish(s) \/ Record(s) \/ Fail(s) \/ ShowError(s)
               \/ Unask(s) \/ Pop(s)
      PROVE  BufferBlends'
  <2>1. buf' = buf
    BY <1>7 DEF Show, End, Finish, Record, Fail, ShowError, Unask, Pop
  <2> QED
    BY <1>2, <1>7, <2>1, StreamMoves DEF Stream
<1> QED
  BY <1>3, <1>4, <1>5, <1>6, <1>7 DEF Next, Stream

LEMMA RepliesBlendStep ==
  ASSUME Control, BufferBlends, RepliesBlendOnlyInCrowd, Next
  PROVE  RepliesBlendOnlyInCrowd'
<1>1. crowd \subseteq crowd'
  BY CrowdGrows
<1>2. SUFFICES ASSUME NEW i \in 1..Len(conv'), conv'[i].role = "assistant",
                      NEW j \in 1..Len(conv'[i].text)
               PROVE  \/ conv'[i].text[j] = conv'[i].of
                      \/ conv'[i].text[j] \in crowd /\ conv'[i].of \in crowd
  BY <1>1 DEF RepliesBlendOnlyInCrowd, Blends
<1>3. CASE \E k \in 1..Len(conv) : conv'[i] = conv[k]
  BY <1>2, <1>3 DEF RepliesBlendOnlyInCrowd, Blends
<1>4. CASE \E s \in Chats : conv'[i] = Question(s)
  BY <1>2, <1>4 DEF Question
<1>5. ASSUME NEW s \in Chats, Record(s), conv'[i] = Answer(s, buf)
      PROVE  \/ conv'[i].text[j] = conv'[i].of
             \/ conv'[i].text[j] \in crowd /\ conv'[i].of \in crowd
  <2>1. s \in Streaming
    BY <1>5, StreamMoves DEF Stream
  <2>2. conv'[i].text = buf /\ conv'[i].of = s
    BY <1>5 DEF Answer
  <2> QED
    BY <1>2, <2>1, <2>2 DEF BufferBlends, Blends
<1> QED
  BY <1>3, <1>4, <1>5, Spoken

\* Messages that came in a row stay in a row.
LEMMA FollowsKept ==
  ASSUME Control, LoneAnswersFollow, Next,
         \A i \in 1..Len(conv') - 1 : \E k \in 1..Len(conv) - 1 :
           conv'[i] = conv[k] /\ conv'[i + 1] = conv[k + 1]
  PROVE  LoneAnswersFollow'
<1>1. crowd \subseteq crowd'
  BY CrowdGrows
<1>2. SUFFICES ASSUME NEW i \in 1..Len(conv') - 1, conv'[i + 1].role = "assistant",
                      conv'[i + 1].of \notin crowd'
               PROVE  conv'[i] = Question(conv'[i + 1].of)
  BY DEF LoneAnswersFollow, Question
<1>3. PICK k \in 1..Len(conv) - 1 : conv'[i] = conv[k] /\ conv'[i + 1] = conv[k + 1]
  BY <1>2
<1>4. conv[k + 1].role = "assistant" /\ conv[k + 1].of \notin crowd
  BY <1>1, <1>2, <1>3
<1> QED
  BY <1>3, <1>4 DEF LoneAnswersFollow

\* A message that comes to what is there.
LEMMA FollowsAdded ==
  ASSUME Control, LoneAnswersFollow, Next, NEW m \in Message, conv' = Append(conv, m),
         m.role = "assistant" /\ m.of \notin crowd => conv = <<>> \/ EndsWith(Question(m.of))
  PROVE  LoneAnswersFollow'
<1>0. conv \in Seq(Message) /\ Len(conv) \in Nat /\ crowd \subseteq crowd'
  BY CrowdGrows DEF Control, Types
<1>1. /\ Len(conv') = Len(conv) + 1 /\ conv'[Len(conv) + 1] = m
      /\ \A i \in 1..Len(conv) : conv'[i] = conv[i]
  BY <1>0, OneMore
<1>2. SUFFICES ASSUME NEW i \in 1..Len(conv') - 1, conv'[i + 1].role = "assistant",
                      conv'[i + 1].of \notin crowd
               PROVE  conv'[i] = Question(conv'[i + 1].of)
  BY <1>0 DEF LoneAnswersFollow, Question
<1>3. i \in 1..Len(conv) /\ conv'[i] = conv[i]
  BY <1>0, <1>1, <1>2
<1>4. CASE i = Len(conv)
  <2>1. conv'[i + 1] = m /\ conv # <<>>
    BY <1>0, <1>1, <1>3, <1>4
  <2> QED
    BY <1>2, <1>3, <1>4, <2>1 DEF EndsWith
<1>5. CASE i # Len(conv)
  <2>1. i \in 1..Len(conv) - 1 /\ i + 1 \in 1..Len(conv)
    BY <1>0, <1>3, <1>5
  <2>2. conv'[i + 1] = conv[i + 1]
    BY <1>1, <2>1
  <2> QED
    BY <1>2, <1>3, <2>1, <2>2 DEF LoneAnswersFollow
<1> QED
  BY <1>4, <1>5

LEMMA LoneAnswersFollowStep ==
  ASSUME Control, LoneAsks, LoneAnswersFollow, Next
  PROVE  LoneAnswersFollow'
<1>0. conv \in Seq(Message) /\ Len(conv) \in Nat /\ buf \in Seq(Chats) /\ MaxTurns \in Nat \ {0}
  BY BoundsAssumption DEF Control, Types
<1>1. ASSUME conv' = conv PROVE LoneAnswersFollow'
  BY <1>1, FollowsKept
<1>2. ASSUME NEW s \in Chats, Enter(s) PROVE LoneAnswersFollow'
  <2>1. conv' = Append(conv, Question(s)) /\ Question(s) \in Message
    BY <1>2, Said DEF Enter
  <2>2. Question(s).role # "assistant"
    BY DEF Question
  <2> HIDE DEF Question
  <2> QED
    BY <2>1, <2>2, FollowsAdded
<1>3. ASSUME NEW s \in Chats, Record(s) PROVE LoneAnswersFollow'
  <2>1. conv' = Append(conv, Answer(s, buf)) /\ Answer(s, buf) \in Message
    BY <1>0, <1>3, Said DEF Record
  <2>2. Answer(s, buf).of = s /\ s \in Awaited
    BY <1>3, StreamMoves DEF Answer, Stream, Streaming
  <2>3. s \notin crowd => conv = <<>> \/ EndsWith(Question(s))
    BY <2>2 DEF LoneAsks
  <2> HIDE DEF Answer
  <2> QED
    BY <2>1, <2>2, <2>3, FollowsAdded
<1>4. CASE TrimOne
  <2>1. conv # <<>> /\ conv' = Tail(conv)
    BY <1>0, <1>4 DEF TrimOne, TooLong
  <2>2. Len(conv') = Len(conv) - 1 /\ \A i \in 1..Len(conv) - 1 : conv'[i] = conv[i + 1]
    BY <1>0, <2>1, WithoutFirst
  <2>3. ASSUME NEW i \in 1..Len(conv') - 1
        PROVE  \E k \in 1..Len(conv) - 1 : conv'[i] = conv[k] /\ conv'[i + 1] = conv[k + 1]
    <3>1. i \in 1..Len(conv) - 1 /\ i + 1 \in 1..Len(conv) - 1
      BY <1>0, <2>2
    <3> QED
      BY <2>2, <3>1
  <2> QED
    BY <2>3, FollowsKept
<1>5. ASSUME NEW s \in Chats, Pop(s), conv # <<>> PROVE LoneAnswersFollow'
  <2>1. conv' = SubSeq(conv, 1, Len(conv) - 1)
    BY <1>5 DEF Pop, DropLast
  <2>2. Len(conv') = Len(conv) - 1 /\ \A i \in 1..Len(conv) - 1 : conv'[i] = conv[i]
    BY <1>0, <1>5, <2>1, WithoutLast
  <2>3. ASSUME NEW i \in 1..Len(conv') - 1
        PROVE  \E k \in 1..Len(conv) - 1 : conv'[i] = conv[k] /\ conv'[i + 1] = conv[k + 1]
    <3>1. i \in 1..Len(conv) - 1 /\ i + 1 \in 1..Len(conv) - 1
      BY <1>0, <2>2
    <3> QED
      BY <2>2, <3>1
  <2> QED
    BY <2>3, FollowsKept
<1>6. ASSUME NEW s \in Chats, Stream(s), ~Record(s), ~(Pop(s) /\ conv # <<>>) PROVE conv' = conv
  BY <1>6 DEF Stream, Piece, Show, End, Finish, Fail, ShowError, Unask, Pop, DropLast
<1>7. CASE Trimmed \/ Post \/ Open \/ Inform \/ Clear
  BY <1>1, <1>7 DEF Trimmed, Post, Open, Inform, Clear
<1>8. CASE ClearHistory
  BY <1>8 DEF ClearHistory, LoneAnswersFollow
<1>9. ASSUME NEW s \in Chats, Stream(s) PROVE LoneAnswersFollow'
  BY <1>1, <1>3, <1>5, <1>6, <1>9
<1> QED
  BY <1>2, <1>4, <1>7, <1>8, <1>9 DEF Next

LEMMA Togetherness == Spec => []Together
<1>1. Init => Together
  <2> SUFFICES ASSUME Init PROVE Together
    OBVIOUS
  <2>1. Awaited = {} /\ conv = <<>>
    BY DEF Init, Awaited
  <2> QED
    BY <2>1
       DEF Together, LoneAsks, BufferBlends, Streaming, RepliesBlendOnlyInCrowd, LoneAnswersFollow
<1>2. IInv /\ Together /\ [Next]_vars => Together'
  <2> SUFFICES ASSUME IInv, Together, [Next]_vars PROVE Together'
    OBVIOUS
  <2>1. CASE Next
    BY <2>1, LoneAsksStep, BufferBlendsStep, RepliesBlendStep, LoneAnswersFollowStep
       DEF Together, IInv
  <2>2. CASE UNCHANGED vars
    BY <2>2
       DEF vars, Together, LoneAsks, Awaited, EndsWith, BufferBlends, Streaming, Blends,
           RepliesBlendOnlyInCrowd, LoneAnswersFollow
  <2> QED
    BY <2>1, <2>2
<1> QED
  BY <1>1, <1>2, Invariance, PTL DEF Spec

\* The one buffer mixes only replies that were awaited at the same time: no
\* recorded answer has a piece of a chat that was awaited alone, nor does that
\* chat's answer have a piece of another, whatever was cleared, failed or went
\* on before (:557, :583, :601).
THEOREM RepliesBlendOnlyInCrowdCorrect == Spec => []RepliesBlendOnlyInCrowd
<1>1. Together => RepliesBlendOnlyInCrowd
  BY DEF Together
<1> QED
  BY <1>1, Togetherness, PTL

\* The answer to a question that was awaited alone comes right after it, or
\* begins a conversation that was forgotten meanwhile (:538, :601).
THEOREM LoneAnswersFollowCorrect == Spec => []LoneAnswersFollow
<1>1. Together => LoneAnswersFollow
  BY DEF Together
<1> QED
  BY <1>1, Togetherness, PTL

FailureTakesBackItsOwn ==
  [][\A s \in Chats \ crowd : Pop(s) /\ conv # <<>> => conv[Len(conv)] = Question(s)]_vars

\* A chat that fails and was awaited alone takes back its own question and
\* nobody else's, although it looks and pops in two steps (:606-614).
THEOREM FailureTakesBackItsOwnCorrect == Spec => FailureTakesBackItsOwn
<1>1. IInv /\ Together =>
        \A s \in Chats \ crowd : Pop(s) /\ conv # <<>> => conv[Len(conv)] = Question(s)
  <2> SUFFICES ASSUME IInv, Together, NEW s \in Chats \ crowd, Pop(s), conv # <<>>
               PROVE  conv[Len(conv)] = Question(s)
    OBVIOUS
  <2>1. s \in Awaited \ crowd
    BY StreamMoves DEF IInv, Stream, Streaming
  <2> QED
    BY <2>1 DEF Together, LoneAsks, EndsWith
<1> QED
  BY <1>1, Invariance, Togetherness, PTL DEF FailureTakesBackItsOwn
=============================================================================
