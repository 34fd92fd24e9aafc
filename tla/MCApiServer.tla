----------------------------- MODULE MCApiServer ------------------------------
(***************************************************************************)
(* An instance of ApiServer for TLC.                                       *)
(***************************************************************************)
EXTENDS ApiServer, TLC

CONSTANTS r1, r2

Question == Says("user", "question")
Plain    == <<Question>>

SampleExcerpts == <<"best", "second">>

\* Histories longer than the window, with a question at the end or early;
\* system messages of the client's in every number and spelling; no question.
SampleConversations ==
  {<<Says("system", "client"), Says("user", "earlier"), Says("assistant", "reply"), Question>>,
   <<Says("system", "client"), Says("system", "space"), Question, Says("assistant", "reply")>>,
   <<Says("System", "client"), Question>>,
   <<Question, Says("developer", "client"), Says("assistant", "reply")>>,
   <<Says("user", "space"), Says("assistant", "reply"), Says("assistant", "earlier")>>,
   <<>>}

Hits(infra, code) ==
  [infra |-> infra, code |-> code, destructive |-> FALSE, secret |-> FALSE, cloud |-> FALSE]

InfraQuery == Hits(1, 0)

\* One query per way to a persona.
SampleQueries ==
  {Hits(1, 1), [Hits(1, 2) EXCEPT !.destructive = TRUE],
   [Hits(0, 1) EXCEPT !.secret = TRUE, !.cloud = TRUE]}

Chat(kind, ms, q, match, explain) ==
  [kind |-> kind, key |-> "good", messages |-> ms, query |-> q, match |-> match,
   explain |-> explain]

ChatAsks ==
  {Chat(k, Plain, InfraQuery, match, TRUE) : k \in {"chat", "stream"},
                                             match \in {"docker_ps", Restart}}
  \union {Chat(k, Plain, InfraQuery, "docker_ps", FALSE) : k \in {"chat", "stream"}}
  \union {Chat("chat", Plain, q, "docker_ps", FALSE) : q \in SampleQueries}
  \union {Chat("chat", ms, InfraQuery, "docker_ps", TRUE) : ms \in SampleConversations}

RunAsks ==
  {a \in [kind : {"run"}, key : {"good"}, tool : {"server_status_top", Restart, Unknown},
          service : Services \union {None}, target : Configured \union {"local", Unknown}] :
     /\ a.tool # Restart => a.service = None
     /\ a.target # "local" => a.tool = "server_status_top"}

BadKeys == {[kind |-> "run", key |-> k, tool |-> "docker_ps",
             service |-> None, target |-> "local"] : k \in Key \ {"good"}}

\* Every kind of chat and run with the right key, one run with the others;
\* and one of each kind for the request it meets.
SampleAsks ==
  (r1 :> ChatAsks \union RunAsks \union BadKeys \union {[kind |-> "health", key |-> "good"]})
  @@
  (r2 :> {Chat("stream", Plain, InfraQuery, None, FALSE),
          [kind |-> "run", key |-> "good", tool |-> "docker_ps",
           service |-> None, target |-> "local"],
          [kind |-> "health", key |-> "good"]})
=============================================================================
