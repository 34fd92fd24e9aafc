-------------------------------- MODULE Tools --------------------------------
(***************************************************************************)
(* The allowlist and the executor: src/core/tool_registry.py, default      *)
(* registry, and src/core/tool_executor.py.  A command line is the verb it *)
(* begins with and its argument; a run of it is the way it ends.           *)
(***************************************************************************)
CONSTANTS Services,    \* service names that callers send
          Restartable, \* RESTARTABLE_SERVICES
          None

ASSUME ServicesAssumption == Restartable \subseteq Services /\ None \notin Services

Fixed   == {"server_status_top", "service_status", "docker_ps"}
Restart == "safe_restart_service"

Verbs   == {"status", "docker_ps", "docker_restart"}
Command == [verb : Verbs, argument : Services \union {None}]

Line(verb, argument) == [verb |-> verb, argument |-> argument]

Tool(lines, safe, confirm) ==
  [commands |-> lines, safe |-> safe, requires_confirmation |-> confirm]

\* ToolRegistry.default().  The restart tool's list of commands is empty.
Registry ==
  [name \in Fixed \union {Restart} |->
     CASE name = "server_status_top" -> Tool(Line("status", None), TRUE, FALSE)
       [] name = Restart             -> Tool(None, FALSE, TRUE)
       [] OTHER                      -> Tool(Line("docker_ps", None), TRUE, FALSE)]

BuildRestartCommand(service) ==
  IF service \in Restartable THEN Line("docker_restart", service) ELSE None

\* The deny list's patterns that a command of this registry can match.
DangerousVerbs == {"docker_restart"}

RejectIfDangerous_Not(command) == FALSE   \* mutant: the pattern is gone

RejectIfDangerous(command) == command.verb \in DangerousVerbs

(***************************************************************************)
(* How a run ends.  The shell may succeed, fail, or be killed after 15     *)
(* seconds with nothing printed ("quiet").  If it had printed something,   *)
(* TimeoutExpired holds it as bytes, text=True or not: a ToolResult with   *)
(* bytes ("partial"), or, beyond 12000 of them, a TypeError in _truncate   *)
(* ("raises"; so does output that is not UTF-8).                           *)
(***************************************************************************)
ShellEnds == {"ok", "failed", "quiet", "partial", "raises"}

RunCommands(command) ==
  IF RejectIfDangerous(command) THEN {"rejected"} ELSE ShellEnds

=============================================================================
