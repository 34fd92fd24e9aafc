------------------------------- MODULE ChatTui -------------------------------
(***************************************************************************)
(* The terminal dashboard (src/ui/chat_tui.py): the user interface's own   *)
(* thread, which handles a line of input at a time and never waits for an  *)
(* answer, and one thread per chat request, which reads the streamed       *)
(* reply.  They share the panel's lines, the conversation and one buffer   *)
(* for the reply being read, without a lock; a thread may lose the         *)
(* processor between any two statements.                                   *)
(*                                                                         *)
(* A chat stands for its question, its request and its thread; a piece of  *)
(* a reply is the chat it belongs to.  _streaming is left out: it is set   *)
(* and never read.                                                         *)
(***************************************************************************)
EXTENDS Naturals, Sequences, FiniteSets

CONSTANTS Chats,       \* the requests a user sends
          MaxPieces,   \* content chunks of one reply
          MaxTurns,    \* _MAX_TURNS
          MaxCommands, \* bound on /clear, /clear-history and informative commands
          None         \* nobody

ASSUME ChatsAssumption == IsFiniteSet(Chats) /\ None \notin Chats
ASSUME BoundsAssumption == /\ MaxPieces \in Nat /\ MaxTurns \in Nat \ {0}
                           /\ MaxCommands \in Nat

-----------------------------------------------------------------------------
VARIABLES
  ui,       \* what the interface is doing, for which chat
  lines,    \* chat_lines: what each line is and who wrote it
  conv,     \* _conversation
  buf,      \* _streaming_buf
  at,       \* control point of each chat
  slot,     \* placeholder_idx, counted from 1
  asked,    \* the messages in each chat's request
  got,      \* history: pieces of its reply each thread has read
  crowd,    \* history: chats sent or answered while another was
  wiped,    \* history: was the panel cleared while a reply was awaited
  commands  \* commands given so far (bounded by MaxCommands)

vars == <<ui, lines, conv, buf, at, slot, asked, got, crowd, wiped, commands>>

Line    == [kind : {"question", "reply", "empty", "error", "info"}, by : Chats \union {None},
            text : Seq(Chats)]
Message == [role : {"user", "assistant"}, of : Chats, text : Seq(Chats)]

Question(s)    == [role |-> "user", of |-> s, text |-> <<>>]
Answer(s, t)   == [role |-> "assistant", of |-> s, text |-> t]
Written(k, s, t) == [kind |-> k, by |-> s, text |-> t]

Points == {"unsent", "sending", "reading", "show", "finish", "record",
           "failing", "unask", "pop", "done"}

TypeOK ==
  /\ ui \in [at : {"idle", "trim", "post", "open"}, chat : Chats \union {None}]
  /\ lines \in Seq(Line)
  /\ conv \in Seq(Message)
  /\ Len(conv) <= 2 * MaxTurns + Cardinality(Chats)
  /\ buf \in Seq(Chats)
  /\ at \in [Chats -> Points]
  /\ slot \in [Chats -> Nat]
  /\ asked \in [Chats -> Seq(Message)]
  /\ got \in [Chats -> 0..MaxPieces]
  /\ crowd \subseteq Chats
  /\ wiped \in BOOLEAN
  /\ commands \in 0..MaxCommands

\* The dashboard starts with one line that tells how to get help.
Init ==
  /\ ui = [at |-> "idle", chat |-> None]
  /\ lines = <<Written("info", None, <<>>)>>
  /\ conv = <<>> /\ buf = <<>>
  /\ at = [s \in Chats |-> "unsent"]
  /\ slot = [s \in Chats |-> 0]
  /\ asked = [s \in Chats |-> <<>>]
  /\ got = [s \in Chats |-> 0]
  /\ crowd = {} /\ wiped = FALSE /\ commands = 0

Awaited == {s \in Chats : at[s] \notin {"unsent", "done"}}

Goto(s, from, to) == at[s] = from /\ at' = [at EXCEPT ![s] = to]

-----------------------------------------------------------------------------
(* _handle_input and _do_chat, statement by statement                      *)

Enter(s) ==
  /\ ui.at = "idle"
  /\ ui' = [at |-> "trim", chat |-> s]
  /\ Goto(s, "unsent", "sending")
  /\ lines' = Append(lines, Written("question", s, <<>>))
  /\ conv' = Append(conv, Question(s))
  /\ crowd' = IF Awaited = {} THEN crowd ELSE crowd \union Awaited \union {s}
  /\ UNCHANGED <<buf, slot, asked, got, wiped, commands>>

TooLong_Never == FALSE                   \* mutant: the context is never cut

TooLong_OneMore == Len(conv) > 2 * MaxTurns + 1   \* mutant

TooLong == Len(conv) > 2 * MaxTurns

\* The oldest message goes, whoever said it.
TrimOne ==
  /\ ui.at = "trim"
  /\ TooLong
  /\ conv' = Tail(conv)
  /\ UNCHANGED <<ui, lines, buf, at, slot, asked, got, crowd, wiped, commands>>

Trimmed ==
  /\ ui.at = "trim"
  /\ ~TooLong
  /\ ui' = [ui EXCEPT !.at = "post"]
  /\ UNCHANGED <<lines, conv, buf, at, slot, asked, got, crowd, wiped, commands>>

\* The request's body is serialised.
Post ==
  /\ ui.at = "post"
  /\ asked' = [asked EXCEPT ![ui.chat] = conv]
  /\ ui' = [ui EXCEPT !.at = "open"]
  /\ UNCHANGED <<lines, conv, buf, at, slot, got, crowd, wiped, commands>>

FreshBuffer_Not == UNCHANGED buf         \* mutant: the last reply stays in it

FreshBuffer == buf' = <<>>

Placeholder_Early == slot' = [slot EXCEPT ![ui.chat] = Len(lines)]   \* mutant: before the append

Placeholder == slot' = [slot EXCEPT ![ui.chat] = Len(lines) + 1]

\* The buffer is emptied, the reply's line added and the thread started.
Open ==
  /\ ui.at = "open"
  /\ FreshBuffer
  /\ lines' = Append(lines, Written("reply", ui.chat, <<>>))
  /\ Placeholder
  /\ Goto(ui.chat, "sending", "reading")
  /\ ui' = [at |-> "idle", chat |-> None]
  /\ UNCHANGED <<conv, asked, got, crowd, wiped, commands>>

Command ==
  /\ ui.at = "idle"
  /\ commands < MaxCommands
  /\ commands' = commands + 1
  /\ UNCHANGED <<ui, buf, at, slot, asked, got, crowd>>

\* /help, /tools, /run, /health, /model, /history, /exit (which only says bye)
\* and unknown commands.
Inform ==
  /\ Command
  /\ lines' = Append(lines, Written("info", None, <<>>))
  /\ UNCHANGED <<conv, wiped>>

\* /clear and Ctrl-L.
Clear ==
  /\ Command
  /\ lines' = <<>>
  /\ wiped' = (wiped \/ Awaited # {})
  /\ UNCHANGED conv

ClearHistory ==
  /\ Command
  /\ conv' = <<>>
  /\ lines' = Append(lines, Written("info", None, <<>>))
  /\ UNCHANGED wiped

-----------------------------------------------------------------------------
(* _stream, the thread of one chat                                         *)

HasLine(s) == slot[s] <= Len(lines)

Rewrite(s, kind, text) == lines' = [lines EXCEPT ![slot[s]] = Written(kind, s, text)]

\* A content chunk.
Piece(s) ==
  /\ got[s] < MaxPieces
  /\ Goto(s, "reading", "show")
  /\ buf' = Append(buf, s)
  /\ got' = [got EXCEPT ![s] = @ + 1]
  /\ UNCHANGED <<ui, lines, conv, slot, asked, crowd, wiped, commands>>

\* Without its line (cleared away), an IndexError that is passed over.
Show(s) ==
  /\ Goto(s, "show", "reading")
  /\ \/ HasLine(s) /\ Rewrite(s, "reply", buf)
     \/ ~HasLine(s) /\ UNCHANGED lines
  /\ UNCHANGED <<ui, conv, buf, slot, asked, got, crowd, wiped, commands>>

\* The response is over.
End(s) ==
  /\ Goto(s, "reading", "finish")
  /\ UNCHANGED <<ui, lines, conv, buf, slot, asked, got, crowd, wiped, commands>>

Finish(s) ==
  /\ \/ buf # <<>> /\ Goto(s, "finish", "record") /\ UNCHANGED lines
     \/ buf = <<>> /\ HasLine(s) /\ Goto(s, "finish", "record") /\ Rewrite(s, "empty", <<>>)
     \/ buf = <<>> /\ ~HasLine(s) /\ Goto(s, "finish", "failing") /\ UNCHANGED lines
  /\ UNCHANGED <<ui, conv, buf, slot, asked, got, crowd, wiped, commands>>

Record(s) ==
  /\ Goto(s, "record", "done")
  /\ conv' = Append(conv, Answer(s, buf))
  /\ UNCHANGED <<ui, lines, buf, slot, asked, got, crowd, wiped, commands>>

\* An error status, a lost connection, 180 seconds of silence.
Fail(s) ==
  /\ Goto(s, "reading", "failing")
  /\ UNCHANGED <<ui, lines, conv, buf, slot, asked, got, crowd, wiped, commands>>

\* Without its line the handler itself fails, and the thread with it.
ShowError(s) ==
  /\ \/ HasLine(s) /\ Goto(s, "failing", "unask") /\ Rewrite(s, "error", <<>>)
     \/ ~HasLine(s) /\ Goto(s, "failing", "done") /\ UNCHANGED lines
  /\ UNCHANGED <<ui, conv, buf, slot, asked, got, crowd, wiped, commands>>

Unanswered == conv # <<>> /\ conv[Len(conv)].role = "user"

Unask(s) ==
  /\ Goto(s, "unask", IF Unanswered THEN "pop" ELSE "done")
  /\ UNCHANGED <<ui, lines, conv, buf, slot, asked, got, crowd, wiped, commands>>

DropLast_Not == UNCHANGED conv           \* mutant: the failed question stays

\* pop() of what is last by now; of an emptied list, an IndexError.
DropLast == conv' = IF conv = <<>> THEN <<>> ELSE SubSeq(conv, 1, Len(conv) - 1)

Pop(s) ==
  /\ Goto(s, "pop", "done")
  /\ DropLast
  /\ UNCHANGED <<ui, lines, buf, slot, asked, got, crowd, wiped, commands>>

-----------------------------------------------------------------------------
Stream(s) == \/ Piece(s) \/ Show(s) \/ End(s) \/ Finish(s) \/ Record(s)
             \/ Fail(s) \/ ShowError(s) \/ Unask(s) \/ Pop(s)

Next ==
  \/ \E s \in Chats : Enter(s) \/ Stream(s)
  \/ TrimOne \/ Trimmed \/ Post \/ Open \/ Inform \/ Clear \/ ClearHistory

Spec == Init /\ [][Next]_vars

-----------------------------------------------------------------------------
(* Properties                                                              *)

Pieces(s) == [i \in 1..got[s] |-> s]

\* However many replies are read at once, each thread keeps writing on the
\* line made for it, unless the panel was cleared under it (:556-559, :584):
\* the index it took stays right though lines come after it, and no question
\* is written over.
WritesItsOwnLine ==
  ~wiped => \A s \in Awaited : at[s] # "sending" =>
    HasLine(s) /\ lines[slot[s]].by = s /\ lines[slot[s]].kind # "question"

\* A reply read while no other was awaited enters the conversation whole and
\* unmixed, whatever went wrong with earlier ones (:557, :583, :601).
LoneReplyIsItsOwn ==
  \A i \in 1..Len(conv) :
    conv[i].role = "assistant" /\ conv[i].of \notin crowd => conv[i].text = Pieces(conv[i].of)

\* A question sent while no reply was awaited is the last message of its own
\* request, which holds at most _MAX_TURNS turns (:536-545).
RequestEndsWithItsQuestion ==
  \A s \in Chats \ crowd : asked[s] # <<>> =>
    /\ Len(asked[s]) <= 2 * MaxTurns
    /\ asked[s][Len(asked[s])] = Question(s)

\* As long as replies are awaited one at a time and their lines are left
\* alone, questions and answers alternate in what the model is given: a failed
\* question is taken back, the trimmed ones were the oldest (:538-545, :606-614).
TurnsAlternate ==
  crowd = {} /\ ~wiped =>
    \A s \in Chats : \A i \in 1..Len(asked[s]) - 1 : asked[s][i].role # asked[s][i+1].role
===============================================================================
