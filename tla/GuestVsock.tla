----------------------------- MODULE GuestVsock -----------------------------
(***************************************************************************)
(* The exchanges between sev-verify (guest_vsock.py) and the command agent *)
(* in the guest (vsock_exec.py), over AF_VSOCK streams: one connection per *)
(* request, a client that gives up after a timeout, and an agent that      *)
(* serves the connections of its listening socket one after the other,     *)
(* runs a command for as long as it takes, and is restarted by systemd     *)
(* when it dies.                                                           *)
(*                                                                         *)
(* A request is the number of its exchange.  An answer is one object and   *)
(* has arrived when the agent has closed the connection.                   *)
(***************************************************************************)
EXTENDS Integers, Sequences

CONSTANTS
  MaxRequests,   \* bound: exchanges in one behaviour
  Backlog,       \* connections the listening socket holds
  AgentMayDie    \* the guest may stop or reboot, and the agent with it

ASSUME VsockAssumption ==
  /\ MaxRequests \in Nat
  /\ Backlog \in Nat \ {0}
  /\ AgentMayDie \in BOOLEAN

Requests == 1 .. MaxRequests
None     == 0

VARIABLES
  asked,     \* the requests so far: pings and commands
  mode,      \* what the client does: a boot wait or a single command
  client,    \* where the client is in its exchange
  outcome,   \* how the client's last call ended
  queue,     \* connections that the agent has not accepted
  sent,      \* requests whose payload has been sent
  reply,     \* what has come back on the connection of each request
  agent,     \* where the agent is
  serving,   \* the request it serves
  executed   \* history: commands that ran to their end, in that order

clientVars == <<asked, mode, client, outcome>>
agentVars  == <<agent, serving, executed>>
vars == <<clientVars, queue, sent, reply, agentVars>>

current == Len(asked)

TypeOK ==
  /\ asked \in Seq({"ping", "cmd"}) /\ current <= MaxRequests
  /\ mode \in {"none", "boot", "command"}
  /\ client \in {"idle", "connect", "send", "recv", "sleep"}
  /\ outcome \in {"none", "answered", "error", "raised", "killed"}
  /\ queue \in Seq(Requests) /\ Len(queue) <= Backlog
  /\ sent \subseteq Requests
  /\ reply \in [Requests -> {"none", "response", "closed", "reset"}]
  /\ agent \in {"down", "accept", "read", "run", "reply"}
  /\ serving \in Requests \cup {None}
  /\ executed \in Seq(Requests)

\* The client's socket for a request is open: it is closed with its exchange.
Open(r) == r = current /\ client \in {"send", "recv"}

----------------------------------------------------------------------------
(* The client *)

Begin(kind) ==
  /\ current < MaxRequests
  /\ asked' = Append(asked, kind)
  /\ client' = "connect"

\* run_guest_command, for a guest step, a pull or the journal.
StartCommand ==
  /\ client = "idle"
  /\ Begin("cmd")
  /\ mode' = "command"
  /\ outcome' = "none"
  /\ UNCHANGED <<queue, sent, reply, agentVars>>

\* wait_for_guest
StartBootWait ==
  /\ client = "idle"
  /\ Begin("ping")
  /\ mode' = "boot"
  /\ outcome' = "none"
  /\ UNCHANGED <<queue, sent, reply, agentVars>>

\* The poll interval is over and the deadline is not.
RetryPing ==
  /\ client = "sleep"
  /\ Begin("ping")
  /\ UNCHANGED <<mode, outcome, queue, sent, reply, agentVars>>

End(how) ==
  /\ client' = "idle"
  /\ mode' = "none"
  /\ outcome' = how
  /\ UNCHANGED asked

\* The deadline of the boot wait is over, or QEMU has exited.
GiveUp ==
  /\ client = "sleep"
  /\ End("error")
  /\ UNCHANGED <<queue, sent, reply, agentVars>>

\* GuestVsockError: the boot wait sleeps and tries again, a command fails.
VsockError ==
  IF mode = "boot" THEN client' = "sleep" /\ UNCHANGED <<asked, mode, outcome>>
                   ELSE End("error")

\* The kernel of the guest completes a connection as long as the agent
\* listens and its queue has room.
Connects ==
  /\ client = "connect"
  /\ agent # "down"
  /\ Len(queue) < Backlog
  /\ client' = "send"
  /\ queue' = Append(queue, current)
  /\ UNCHANGED <<asked, mode, outcome, sent, reply, agentVars>>

\* Any OSError of connect, its timeout among them.
ConnectFails ==
  /\ client = "connect"
  /\ VsockError
  /\ UNCHANGED <<queue, sent, reply, agentVars>>

Sends ==
  /\ client = "send"
  /\ reply[current] = "none"
  /\ client' = "recv"
  /\ sent' = sent \cup {current}
  /\ UNCHANGED <<asked, mode, outcome, queue, reply, agentVars>>

\* sendall on a connection that is gone: its OSError is not converted.
SendRaises ==
  /\ client = "send"
  /\ reply[current] \in {"closed", "reset"}
  /\ End("raised")
  /\ UNCHANGED <<queue, sent, reply, agentVars>>

Receives ==
  /\ client = "recv"
  /\ reply[current] = "response"
  /\ End("answered")
  /\ UNCHANGED <<queue, sent, reply, agentVars>>

\* Mutant: recv has no timeout.
ReceiveFailsIfClosed ==
  /\ client = "recv"
  /\ reply[current] = "closed"
  /\ VsockError
  /\ UNCHANGED <<queue, sent, reply, agentVars>>

\* A response over the client's limit, an empty one, or none in time.
ReceiveFails ==
  /\ client = "recv"
  /\ reply[current] # "reset"
  /\ VsockError
  /\ UNCHANGED <<queue, sent, reply, agentVars>>

\* Mutant: the exception of a reset is kept as the call's result.
ReceiveRaisesTimeout ==
  /\ client = "recv"
  /\ reply[current] = "reset"
  /\ End("reset")
  /\ UNCHANGED <<queue, sent, reply, agentVars>>

\* recv on a connection that was reset: only its timeout is converted.
ReceiveRaises ==
  /\ client = "recv"
  /\ reply[current] = "reset"
  /\ End("raised")
  /\ UNCHANGED <<queue, sent, reply, agentVars>>

\* sev-verify is interrupted, or killed by its service's timeout; the kernel
\* closes its socket.  A later invocation goes on.
Killed ==
  /\ client # "idle"
  /\ End("killed")
  /\ UNCHANGED <<queue, sent, reply, agentVars>>

----------------------------------------------------------------------------
(* The agent *)

\* The process is gone, and with it the connections of its queue and the one
\* it serves: their clients find the stream closed, or reset.
Dies ==
  /\ agent' = "down"
  /\ serving' = None
  /\ queue' = <<>>
  /\ LET lost == {r \in Requests : r = serving \/ \E k \in DOMAIN queue : queue[k] = r}
     IN \E how \in {"closed", "reset"} :
          reply' = [r \in Requests |-> IF r \in lost THEN how ELSE reply[r]]

\* systemd starts it: at boot, or two seconds after it failed.
AgentStarts ==
  /\ agent = "down"
  /\ agent' = "accept"
  /\ UNCHANGED <<clientVars, queue, sent, reply, serving, executed>>

\* Mutant: the connections are not served in their order.
AcceptsAny ==
  /\ agent = "accept"
  /\ queue # <<>>
  /\ \E k \in DOMAIN queue :
       /\ serving' = queue[k]
       /\ queue' = SubSeq(queue, 1, k - 1) \o SubSeq(queue, k + 1, Len(queue))
  /\ agent' = "read"
  /\ UNCHANGED <<clientVars, sent, reply, executed>>

Accepts ==
  /\ agent = "accept"
  /\ queue # <<>>
  /\ serving' = Head(queue)
  /\ queue' = Tail(queue)
  /\ agent' = "read"
  /\ UNCHANGED <<clientVars, sent, reply, executed>>

Serve(next) ==
  /\ agent' = next
  /\ UNCHANGED <<clientVars, queue, sent, executed>>

ReadsPing ==
  /\ agent = "read"
  /\ serving \in sent
  /\ asked[serving] = "ping"
  /\ Serve("reply")
  /\ UNCHANGED <<reply, serving>>

ReadsCommand ==
  /\ agent = "read"
  /\ serving \in sent
  /\ asked[serving] = "cmd"
  /\ Serve("run")
  /\ UNCHANGED <<reply, serving>>

\* Mutant: the end of the stream is taken for a request to come.
ReadsNothingWaits ==
  /\ agent = "read"
  /\ serving \notin sent
  /\ ~Open(serving)
  /\ UNCHANGED vars

\* The client has closed the connection without a request.
ReadsNothing ==
  /\ agent = "read"
  /\ serving \notin sent
  /\ ~Open(serving)
  /\ Serve("accept")
  /\ serving' = None
  /\ reply' = [reply EXCEPT ![serving] = "closed"]

\* subprocess.run without a timeout returns.
CommandEnds ==
  /\ agent = "run"
  /\ executed' = Append(executed, serving)
  /\ agent' = "reply"
  /\ UNCHANGED <<clientVars, queue, sent, reply, serving>>

\* Mutant: a response is sent before the command has ended.
RespondsEarly ==
  /\ agent \in {"run", "reply"}
  /\ Serve("accept")
  /\ serving' = None
  /\ reply' = [reply EXCEPT ![serving] = "response"]

\* The response is sent; a client that has just gone may not be noticed.
Responds ==
  /\ agent = "reply"
  /\ Serve("accept")
  /\ serving' = None
  /\ reply' = [reply EXCEPT ![serving] = "response"]

\* The client has given up: sendall raises outside of the try block and the
\* agent's main loop ends with it.
ResponseRaises ==
  /\ agent = "reply"
  /\ ~Open(serving)
  /\ Dies
  /\ UNCHANGED <<clientVars, sent, executed>>

\* The guest stops or reboots, or the agent is killed; a command it runs dies
\* with it.
AgentDies ==
  /\ AgentMayDie
  /\ agent # "down"
  /\ Dies
  /\ UNCHANGED <<clientVars, sent, executed>>

----------------------------------------------------------------------------
Init ==
  /\ asked = <<>>
  /\ mode = "none"
  /\ client = "idle"
  /\ outcome = "none"
  /\ queue = <<>>
  /\ sent = {}
  /\ reply = [r \in Requests |-> "none"]
  /\ agent = "down"
  /\ serving = None
  /\ executed = <<>>

Exchange ==
  \/ Connects \/ ConnectFails \/ Sends \/ SendRaises
  \/ Receives \/ ReceiveFails \/ ReceiveRaises
  \/ GiveUp

Client == StartCommand \/ StartBootWait \/ RetryPing \/ Exchange \/ Killed

Serving ==
  Accepts \/ ReadsPing \/ ReadsCommand \/ ReadsNothing \/ Responds \/ ResponseRaises

Agent == AgentStarts \/ Serving \/ CommandEnds \/ AgentDies

Next == Client \/ Agent

Spec == Init /\ [][Next]_vars

\* Every wait of the client has a deadline; systemd starts the agent again and
\* the agent goes on.  A command may hang.
FairSpec ==
  /\ Spec
  /\ WF_vars(Exchange)
  /\ WF_vars(AgentStarts) /\ WF_vars(Serving)

----------------------------------------------------------------------------
(* Properties *)

\* Commands take effect in the order in which they were asked for, each at
\* most once, although a command may outlive its exchange, wait behind another
\* and be dropped by a restart of the agent.
SerialCommands ==
  \A j, k \in DOMAIN executed : j < k => executed[j] < executed[k]

\* Once a call has been answered nothing asked before it can still happen: a
\* command that timed out has ended by then or never will run.
NoLateEffect ==
  outcome = "answered" => agent \notin {"read", "run"} /\ queue = <<>>

\* An answered command has run to its end, once.
AnsweredMeansRun ==
  outcome = "answered" /\ asked[current] = "cmd" =>
    \E k \in DOMAIN executed : executed[k] = current

\* As long as no command hangs for ever every connection in the queue is
\* served or dropped: a client that gives up, before it has sent its request
\* or after, never blocks those behind it for good.
QueueDrains ==
  []<>(agent # "run") =>
    \A r \in Requests :
      (\E k \in DOMAIN queue : queue[k] = r) ~> (\A k \in DOMAIN queue : queue[k] # r)

\* The exchange of a call ends, also when its command hangs.
ExchangeEnds == (client \in {"connect", "send", "recv"}) ~> (client \in {"idle", "sleep"})

\* GuestVsockError: "Raised when vsock connectivity or command execution
\* fails."  Nothing else leaves an exchange.
FailuresAreVsockErrors == outcome # "raised"

=============================================================================
