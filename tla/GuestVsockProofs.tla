-------------------------- MODULE GuestVsockProofs --------------------------
(***************************************************************************)
(* Proofs about GuestVsock, for every number of requests and every length  *)
(* of the listening socket's queue: commands take effect in order, an      *)
(* answer is the last word, and an answered command has run.               *)
(***************************************************************************)
EXTENDS GuestVsock, SequenceTheorems, TLAPS

\* The latest request for which there may be a connection.
Latest == IF client = "connect" THEN current - 1 ELSE current

Busy == agent \in {"read", "run", "reply"}

\* How the places of client and agent go together with what they have in hand.
Control ==
  /\ client # "idle" => current \in Requests
  /\ Busy <=> serving # None
  /\ outcome = "answered" => client = "idle" /\ queue = <<>> /\ agent \in {"down", "accept"}

\* Requests pass the queue, the agent and the history in their order: what has
\* been executed or responded to comes before what is still to be served.
Order ==
  /\ \A j, k \in DOMAIN queue : j < k => queue[j] < queue[k]
  /\ \A k \in DOMAIN queue : serving < queue[k] /\ queue[k] <= Latest
  /\ serving <= Latest
  /\ \A e \in DOMAIN executed :
       /\ executed[e] <= Latest
       /\ agent \in {"read", "run"} => executed[e] < serving
       /\ \A k \in DOMAIN queue : executed[e] < queue[k]

Responded(r) == reply[r] = "response"

\* A response has overtaken nothing, and says that its command has run.
Responses ==
  /\ \A r \in Requests : Responded(r) =>
       /\ r <= Latest
       /\ serving # None => r < serving
       /\ \A k \in DOMAIN queue : r < queue[k]
       /\ asked[r] = "cmd" => \E e \in DOMAIN executed : executed[e] = r
  /\ agent = "reply" /\ asked[serving] = "cmd" => \E e \in DOMAIN executed : executed[e] = serving

IInv ==
  /\ TypeOK
  /\ Control
  /\ Order
  /\ Responses
  /\ SerialCommands
  /\ AnsweredMeansRun

----------------------------------------------------------------------------
(* Sequences of requests *)

\* The elements of a sequence of requests are positive integers.
LEMMA Elements ==
  ASSUME NEW s \in Seq(Requests), NEW k \in DOMAIN s
  PROVE  s[k] \in Requests /\ s[k] \in Int /\ 1 <= s[k]
<1>1. s[k] \in Requests
  OBVIOUS
<1> QED
  BY <1>1, VsockAssumption DEF Requests

\* What is at which place after an element has been added at the end.
LEMMA Appended ==
  ASSUME NEW s \in Seq(Requests), NEW r
  PROVE  /\ Len(s) \in Nat
         /\ DOMAIN Append(s, r) = 1 .. Len(s) + 1
         /\ DOMAIN s = 1 .. Len(s)
         /\ \A k \in DOMAIN s : Append(s, r)[k] = s[k]
         /\ Append(s, r)[Len(s) + 1] = r
OBVIOUS

\* What is at which place after the first element has been taken.
LEMMA Taken ==
  ASSUME NEW s \in Seq(Requests), s # <<>>
  PROVE  /\ Tail(s) \in Seq(Requests)
         /\ 1 \in DOMAIN s /\ Head(s) = s[1] /\ Head(s) \in Requests
         /\ \A k \in DOMAIN Tail(s) : k + 1 \in DOMAIN s /\ Tail(s)[k] = s[k + 1]
OBVIOUS

----------------------------------------------------------------------------
(* Type correctness *)

\* A new exchange extends the requests by one and leaves the earlier ones.
LEMMA BeginTyped ==
  ASSUME TypeOK, NEW kind \in {"ping", "cmd"}, Begin(kind)
  PROVE  /\ asked' \in Seq({"ping", "cmd"})
         /\ Len(asked') = Len(asked) + 1
         /\ Len(asked') <= MaxRequests
         /\ \A r \in 1 .. Len(asked) : asked'[r] = asked[r]
         /\ asked'[Len(asked')] = kind
BY VsockAssumption DEF TypeOK, Begin, current

\* When the agent dies it holds no connection any more, and no response is lost
\* that has not been waited for.
LEMMA DiesTyped ==
  ASSUME TypeOK, Dies
  PROVE  /\ reply' \in [Requests -> {"none", "response", "closed", "reset"}]
         /\ \A r \in Requests : reply'[r] = "response" => reply[r] = "response"
BY DEF TypeOK, Dies

\* The steps of the client keep the types.
LEMMA ClientTyped ==
  ASSUME TypeOK, Control, Client
  PROVE  TypeOK'
<1>1. CASE \E kind \in {"ping", "cmd"} :
             /\ Begin(kind)
             /\ mode' \in {"none", "boot", "command"}
             /\ outcome' \in {"none", "answered", "error", "raised", "killed"}
             /\ UNCHANGED <<queue, sent, reply, agentVars>>
  <2>1. client' = "connect"
    BY <1>1 DEF Begin
  <2> QED
    BY <1>1, <2>1, BeginTyped DEF TypeOK, current, agentVars
<1>2. CASE Connects
  <2>1. current \in Nat /\ Len(queue) + 1 <= Backlog
    BY <1>2, VsockAssumption DEF Connects, TypeOK, current
  <2>2. current \in Requests
    BY <1>2 DEF Connects, Control
  <2>3. queue' \in Seq(Requests) /\ Len(queue') <= Backlog
    BY <1>2, <2>1, <2>2 DEF Connects, TypeOK
  <2> QED
    BY <1>2, <2>1, <2>3 DEF Connects, TypeOK, current, agentVars
<1>3. CASE Sends
  BY <1>3 DEF Sends, TypeOK, Control, current, agentVars
<1>4. CASE ConnectFails \/ SendRaises \/ Receives \/ ReceiveFails \/ ReceiveRaises \/ GiveUp \/ Killed
  BY <1>4 DEF ConnectFails, SendRaises, Receives, ReceiveFails, ReceiveRaises, GiveUp, Killed,
              VsockError, End, TypeOK, current, agentVars
<1> QED
  BY <1>1, <1>2, <1>3, <1>4
     DEF Client, Exchange, StartCommand, StartBootWait, RetryPing, TypeOK

\* The steps of the agent keep the types.
LEMMA AgentTyped ==
  ASSUME TypeOK, Control, Agent
  PROVE  TypeOK'
<1>1. CASE AgentStarts \/ ReadsPing \/ ReadsCommand \/ ReadsNothing \/ Responds
  BY <1>1 DEF AgentStarts, ReadsPing, ReadsCommand, ReadsNothing, Responds, Serve,
              TypeOK, current, clientVars
<1>2. CASE Accepts
  <2>1. Head(queue) \in Requests /\ Tail(queue) \in Seq(Requests) /\ Len(Tail(queue)) <= Backlog
    BY <1>2, VsockAssumption DEF Accepts, TypeOK
  <2> QED
    BY <1>2, <2>1 DEF Accepts, TypeOK, current, clientVars
<1>3. CASE CommandEnds
  <2>1. serving \in Requests
    BY <1>3 DEF CommandEnds, TypeOK, Control, Busy
  <2> QED
    BY <1>3, <2>1 DEF CommandEnds, TypeOK, current, clientVars
<1>4. CASE ResponseRaises \/ AgentDies
  <2>1. Dies /\ UNCHANGED <<clientVars, sent, executed>>
    BY <1>4 DEF ResponseRaises, AgentDies
  <2>2. agent' = "down" /\ serving' = None /\ queue' = <<>>
    BY <2>1 DEF Dies
  <2> QED
    BY <2>1, <2>2, DiesTyped, VsockAssumption DEF TypeOK, current, clientVars
<1> QED
  BY <1>1, <1>2, <1>3, <1>4 DEF Agent, Serving

----------------------------------------------------------------------------
(* The order of requests *)

\* What the client does beside the connections of the agent.
Aside ==
  /\ UNCHANGED <<queue, reply, agentVars>>
  /\ Len(asked) <= Len(asked')
  /\ \A r \in 1 .. Len(asked) : asked'[r] = asked[r]
  /\ Latest <= Latest'

\* A step of the client aside disturbs no order and no response.
LEMMA AsideKeeps ==
  ASSUME IInv, TypeOK', Aside
  PROVE  Order' /\ Responses' /\ SerialCommands'
<1>1. Latest \in Int /\ Latest' \in Int /\ Latest <= Len(asked) /\ Latest <= Latest'
  BY DEF Aside, Latest, IInv, TypeOK, current
<1> DEFINE last == Latest
           next == Latest'
<1>2. last \in Int /\ next \in Int /\ last <= Len(asked) /\ last <= next
  BY <1>1
<1>3. Order'
  <2>1. /\ \A j, k \in DOMAIN queue : j < k => queue[j] < queue[k]
        /\ \A k \in DOMAIN queue : serving < queue[k] /\ queue[k] <= last
        /\ serving <= last
        /\ \A e \in DOMAIN executed :
             /\ executed[e] <= last
             /\ agent \in {"read", "run"} => executed[e] < serving
             /\ \A k \in DOMAIN queue : executed[e] < queue[k]
    BY DEF IInv, Order
  <2>2. /\ \A k \in DOMAIN queue : queue[k] \in Int
        /\ \A e \in DOMAIN executed : executed[e] \in Int
        /\ serving \in Int
    BY Elements, VsockAssumption DEF IInv, TypeOK, Requests, None
  <2> HIDE DEF last, next
  <2>3. /\ \A k \in DOMAIN queue : queue[k] <= next
        /\ \A e \in DOMAIN executed : executed[e] <= next
        /\ serving <= next
    BY <1>2, <2>1, <2>2
  <2>4. UNCHANGED <<queue, agent, serving, executed>>
    BY DEF Aside, agentVars
  <2> QED
    BY <2>1, <2>3, <2>4 DEF Order, next
<1>4. Responses'
  <2>1. ASSUME NEW r \in Requests, reply'[r] = "response"
        PROVE  /\ r <= next
               /\ serving' # None => r < serving'
               /\ \A k \in DOMAIN queue' : r < queue'[k]
               /\ asked'[r] = "cmd" => \E e \in DOMAIN executed' : executed'[e] = r
    <3>1. UNCHANGED <<queue, reply, serving, executed>>
      BY DEF Aside, agentVars
    <3>2. /\ r <= last
          /\ serving # None => r < serving
          /\ \A k \in DOMAIN queue : r < queue[k]
          /\ asked[r] = "cmd" => \E e \in DOMAIN executed : executed[e] = r
      BY <2>1, <3>1 DEF IInv, Responses, Responded
    <3>3. r \in Int /\ 1 <= r
      BY VsockAssumption DEF Requests
    <3> HIDE DEF last, next
    <3>4. r <= next /\ r \in 1 .. Len(asked)
      BY <1>2, <3>2, <3>3 DEF IInv, TypeOK
    <3>5. asked'[r] = asked[r]
      BY <3>4 DEF Aside
    <3> QED
      BY <3>1, <3>2, <3>4, <3>5
  <2>2. ASSUME agent' = "reply", asked'[serving'] = "cmd"
        PROVE  \E e \in DOMAIN executed' : executed'[e] = serving'
    <3>1. UNCHANGED <<agent, serving, executed>>
      BY DEF Aside, agentVars
    <3>2. serving \in Requests /\ serving <= last
      BY <2>2, <3>1 DEF IInv, TypeOK, Control, Busy, Order
    <3>3. serving \in Int /\ 1 <= serving
      BY <3>2, VsockAssumption DEF Requests
    <3> HIDE DEF last, next
    <3>4. serving \in 1 .. Len(asked)
      BY <1>2, <3>2, <3>3 DEF IInv, TypeOK
    <3> QED
      BY <2>2, <3>1, <3>4 DEF Aside, IInv, Responses
  <2> QED
    BY <2>1, <2>2 DEF Responses, Responded
<1>5. SerialCommands'
  BY DEF Aside, agentVars, IInv, SerialCommands
<1> QED
  BY <1>3, <1>4, <1>5

\* A connection that joins the queue is the latest.
LEMMA ConnectsKeeps ==
  ASSUME IInv, TypeOK', Connects
  PROVE  Order' /\ Responses' /\ SerialCommands'
<1>1. /\ current \in Requests /\ current \in Int /\ queue \in Seq(Requests)
      /\ Latest = current - 1 /\ Latest' = current /\ UNCHANGED asked
  BY VsockAssumption DEF IInv, Control, TypeOK, Connects, Latest, current, Requests
<1>2. UNCHANGED <<reply, agent, serving, executed>> /\ queue' = Append(queue, current)
  BY DEF Connects, agentVars
<1>3. \A k \in DOMAIN queue' : \/ k \in DOMAIN queue /\ queue'[k] = queue[k]
                               \/ k = Len(queue) + 1 /\ queue'[k] = current
  BY <1>1, <1>2, Appended
<1>4. DOMAIN queue = 1 .. Len(queue) /\ Len(queue) \in Nat
  BY <1>1
<1>5. /\ \A k \in DOMAIN queue : queue[k] \in Int /\ queue[k] < current /\ serving < queue[k]
      /\ serving \in Int /\ serving < current
      /\ \A e \in DOMAIN executed : executed[e] \in Int /\ executed[e] < current
  <2>1. serving \in Int
    BY VsockAssumption DEF IInv, TypeOK, Requests, None
  <2> QED
    BY <1>1, <2>1, Elements DEF IInv, TypeOK, Order
<1>6. Order'
  <2>1. ASSUME NEW j \in DOMAIN queue', NEW k \in DOMAIN queue', j < k
        PROVE  queue'[j] < queue'[k]
    BY <2>1, <1>3, <1>4, <1>5 DEF IInv, Order
  <2>2. ASSUME NEW k \in DOMAIN queue'
        PROVE  serving < queue'[k] /\ queue'[k] <= current
    BY <1>1, <1>3, <1>5
  <2>3. ASSUME NEW e \in DOMAIN executed
        PROVE  /\ executed[e] <= current
               /\ agent \in {"read", "run"} => executed[e] < serving
               /\ \A k \in DOMAIN queue' : executed[e] < queue'[k]
    BY <1>1, <1>3, <1>5 DEF IInv, Order
  <2>4. serving <= current
    BY <1>1, <1>5
  <2> QED
    BY <1>1, <1>2, <2>1, <2>2, <2>3, <2>4 DEF Order
<1>7. Responses'
  <2>1. ASSUME NEW r \in Requests, reply[r] = "response"
        PROVE  /\ r <= current
               /\ serving # None => r < serving
               /\ \A k \in DOMAIN queue' : r < queue'[k]
               /\ asked[r] = "cmd" => \E e \in DOMAIN executed : executed[e] = r
    <3>1. /\ r <= current - 1
          /\ serving # None => r < serving
          /\ \A k \in DOMAIN queue : r < queue[k]
          /\ asked[r] = "cmd" => \E e \in DOMAIN executed : executed[e] = r
      BY <1>1, <2>1 DEF IInv, Responses, Responded
    <3>2. r \in Int
      BY VsockAssumption DEF Requests
    <3> QED
      BY <1>1, <1>3, <3>1, <3>2
  <2> QED
    BY <1>1, <1>2, <2>1 DEF Responses, Responded, IInv
<1> QED
  BY <1>2, <1>6, <1>7 DEF IInv, SerialCommands

\* The agent takes the first of the queue: it comes after all that was before.
LEMMA AcceptsKeeps ==
  ASSUME IInv, TypeOK', Accepts
  PROVE  Order' /\ Responses' /\ SerialCommands'
<1>1. UNCHANGED <<reply, executed, asked, client>> /\ agent' = "read"
  BY DEF Accepts, clientVars
<1>2. /\ queue \in Seq(Requests) /\ 1 \in DOMAIN queue
      /\ serving' = queue[1] /\ serving' \in Requests
      /\ \A k \in DOMAIN queue' : k + 1 \in DOMAIN queue /\ queue'[k] = queue[k + 1]
  BY Taken DEF IInv, TypeOK, Accepts
<1>3. queue' \in Seq(Requests)
  BY DEF TypeOK
<1>4. Latest' = Latest
  BY <1>1 DEF Latest, current
<1>5. ASSUME NEW k \in DOMAIN queue'
      PROVE  k \in Nat \ {0} /\ k < k + 1 /\ 1 < k + 1
  BY <1>3
<1>6. Order'
  <2>1. ASSUME NEW j \in DOMAIN queue', NEW k \in DOMAIN queue', j < k
        PROVE  queue'[j] < queue'[k]
    <3>1. j + 1 < k + 1
      BY <1>5, <2>1
    <3> QED
      BY <1>2, <3>1 DEF IInv, Order
  <2>2. ASSUME NEW k \in DOMAIN queue'
        PROVE  serving' < queue'[k] /\ queue'[k] <= Latest
    BY <1>2, <1>5 DEF IInv, Order
  <2>3. ASSUME NEW e \in DOMAIN executed
        PROVE  /\ executed[e] <= Latest
               /\ executed[e] < serving'
               /\ \A k \in DOMAIN queue' : executed[e] < queue'[k]
    BY <1>2 DEF IInv, Order
  <2>4. serving' <= Latest
    BY <1>2 DEF IInv, Order
  <2> QED
    BY <1>1, <1>4, <2>1, <2>2, <2>3, <2>4 DEF Order
<1>7. Responses'
  <2>1. ASSUME NEW r \in Requests, reply[r] = "response"
        PROVE  /\ r <= Latest
               /\ r < serving'
               /\ \A k \in DOMAIN queue' : r < queue'[k]
               /\ asked[r] = "cmd" => \E e \in DOMAIN executed : executed[e] = r
    BY <1>2, <2>1 DEF IInv, Responses, Responded
  <2> QED
    BY <1>1, <1>4, <2>1 DEF Responses, Responded
<1> QED
  BY <1>1, <1>6, <1>7 DEF IInv, SerialCommands

\* The agent reads the request it serves, and answers an empty one by closing.
LEMMA ReadsKeeps ==
  ASSUME IInv, TypeOK', ReadsPing \/ ReadsCommand \/ ReadsNothing
  PROVE  Order' /\ Responses' /\ SerialCommands'
<1>1. UNCHANGED <<asked, client, queue, executed>> /\ agent = "read"
  BY DEF ReadsPing, ReadsCommand, ReadsNothing, Serve, clientVars
<1>2. serving' = serving \/ (serving' = None /\ agent' = "accept")
  BY DEF ReadsPing, ReadsCommand, ReadsNothing, Serve
<1>3. \A r \in Requests : reply'[r] = "response" => reply[r] = "response"
  BY DEF IInv, TypeOK, ReadsPing, ReadsCommand, ReadsNothing
<1>4. Latest' = Latest
  BY <1>1 DEF Latest, current
<1>5. Order'
  <2>1. \A k \in DOMAIN queue : None < queue[k]
    BY Elements DEF IInv, TypeOK, None
  <2>2. None <= Latest
    BY VsockAssumption DEF IInv, Control, TypeOK, Requests, Latest, None, current
  <2> QED
    BY <1>1, <1>2, <1>4, <2>1, <2>2 DEF IInv, Order
<1>6. Responses'
  <2>1. agent' = "reply" => asked[serving] = "ping" /\ serving' = serving
    BY DEF ReadsPing, ReadsCommand, ReadsNothing, Serve
  <2> QED
    BY <1>1, <1>2, <1>3, <1>4, <2>1 DEF IInv, Responses, Responded
<1> QED
  BY <1>1, <1>5, <1>6 DEF IInv, SerialCommands

\* A command that ends is the latest that has run.
LEMMA CommandEndsKeeps ==
  ASSUME IInv, TypeOK', CommandEnds
  PROVE  Order' /\ Responses' /\ SerialCommands'
<1>1. /\ UNCHANGED <<asked, client, queue, reply, serving>>
      /\ agent = "run" /\ agent' = "reply" /\ executed' = Append(executed, serving)
  BY DEF CommandEnds, clientVars
<1>2. executed \in Seq(Requests) /\ serving \in Requests /\ serving \in Int
  BY <1>1, VsockAssumption DEF IInv, TypeOK, Control, Busy, Requests
<1>3. /\ \A e \in DOMAIN executed' : \/ e \in DOMAIN executed /\ executed'[e] = executed[e]
                                     \/ e = Len(executed) + 1 /\ executed'[e] = serving
      /\ \A e \in DOMAIN executed : e \in DOMAIN executed' /\ executed'[e] = executed[e]
      /\ Len(executed) + 1 \in DOMAIN executed' /\ executed'[Len(executed) + 1] = serving
      /\ DOMAIN executed = 1 .. Len(executed) /\ Len(executed) \in Nat
  BY <1>1, <1>2, Appended
<1>4. Latest' = Latest
  BY <1>1 DEF Latest, current
<1>5. Order'
  BY <1>1, <1>3, <1>4 DEF IInv, Order
<1>6. Responses'
  <2>1. ASSUME NEW r \in Requests, \E e \in DOMAIN executed : executed[e] = r
        PROVE  \E e \in DOMAIN executed' : executed'[e] = r
    BY <1>3, <2>1
  <2> QED
    BY <1>1, <1>3, <1>4, <2>1 DEF IInv, Responses, Responded
<1>7. SerialCommands'
  <2>1. ASSUME NEW j \in DOMAIN executed', NEW k \in DOMAIN executed', j < k
        PROVE  executed'[j] < executed'[k]
    <3>1. j \in DOMAIN executed
      BY <1>3, <2>1
    <3>2. executed[j] < serving
      BY <1>1, <3>1 DEF IInv, Order
    <3> QED
      BY <1>3, <2>1, <3>1, <3>2 DEF IInv, SerialCommands
  <2> QED
    BY <2>1 DEF SerialCommands
<1> QED
  BY <1>5, <1>6, <1>7

\* The response to a request comes after every response before it.
LEMMA RespondsKeeps ==
  ASSUME IInv, TypeOK', Responds
  PROVE  Order' /\ Responses' /\ SerialCommands'
<1>1. /\ UNCHANGED <<asked, client, queue, executed>>
      /\ agent = "reply" /\ agent' = "accept" /\ serving' = None
      /\ reply' = [reply EXCEPT ![serving] = "response"]
  BY DEF Responds, Serve, clientVars
<1>2. serving \in Requests /\ serving \in Int /\ 1 <= serving
  BY <1>1, VsockAssumption DEF IInv, TypeOK, Control, Busy, Requests
<1>3. \A r \in Requests : reply'[r] = "response" => reply[r] = "response" \/ r = serving
  BY <1>1 DEF IInv, TypeOK
<1>4. Latest' = Latest /\ Latest \in Int
  BY <1>1 DEF Latest, current, IInv, TypeOK
<1>5. Order'
  <2>1. \A k \in DOMAIN queue : None < queue[k]
    BY Elements DEF IInv, TypeOK, None
  <2>2. None <= Latest
    BY <1>2, <1>4 DEF IInv, Order, None
  <2> QED
    BY <1>1, <1>4, <2>1, <2>2 DEF IInv, Order
<1>6. Responses'
  BY <1>1, <1>3, <1>4 DEF IInv, Responses, Responded, Order
<1> QED
  BY <1>1, <1>5, <1>6 DEF IInv, SerialCommands

\* An agent that dies takes its connections with it and answers nothing.
LEMMA DiesKeeps ==
  ASSUME IInv, TypeOK', Dies, UNCHANGED <<clientVars, sent, executed>>
  PROVE  Order' /\ Responses' /\ SerialCommands'
<1>1. /\ UNCHANGED <<asked, client, executed>>
      /\ queue' = <<>> /\ agent' = "down" /\ serving' = None
  BY DEF Dies, clientVars
<1>2. \A r \in Requests : reply'[r] = "response" => reply[r] = "response"
  BY DiesTyped DEF IInv
<1>3. Latest' = Latest
  BY <1>1 DEF Latest, current
<1>4. None <= Latest
  BY VsockAssumption DEF IInv, Control, TypeOK, Requests, Latest, None, current
<1>5. DOMAIN queue' = {}
  BY <1>1
<1>6. Order'
  BY <1>1, <1>3, <1>4, <1>5 DEF IInv, Order
<1>7. Responses'
  BY <1>1, <1>2, <1>3, <1>5 DEF IInv, Responses, Responded
<1> QED
  BY <1>1, <1>6, <1>7 DEF IInv, SerialCommands

----------------------------------------------------------------------------
(* The inductive invariant *)

\* The client's steps that do not connect are steps aside.
LEMMA ClientAside ==
  ASSUME IInv, Client, ~Connects
  PROVE  Aside
<1>1. CASE StartCommand \/ StartBootWait \/ RetryPing
  <2>1. PICK kind \in {"ping", "cmd"} : Begin(kind)
    BY <1>1 DEF StartCommand, StartBootWait, RetryPing
  <2>2. /\ UNCHANGED <<queue, reply, agentVars>>
        /\ client' = "connect" /\ client # "connect" /\ Len(asked) \in Nat
    BY <1>1 DEF StartCommand, StartBootWait, RetryPing, Begin, IInv, TypeOK
  <2>3. /\ Len(asked') = Len(asked) + 1
        /\ \A r \in 1 .. Len(asked) : asked'[r] = asked[r]
    BY <2>1, BeginTyped DEF IInv
  <2> QED
    BY <2>2, <2>3 DEF Aside, Latest, current
<1>2. CASE Exchange \/ Killed
  <2>1. /\ UNCHANGED <<asked, queue, reply, agentVars>>
        /\ client' # "connect"
    BY <1>2 DEF Exchange, ConnectFails, Sends, SendRaises, Receives, ReceiveFails,
                ReceiveRaises, GiveUp, Killed, VsockError, End
  <2>2. Len(asked) \in Nat
    BY DEF IInv, TypeOK
  <2> QED
    BY <2>1, <2>2 DEF Aside, Latest, current
<1> QED
  BY <1>1, <1>2 DEF Client

\* A client that is answered leaves nothing behind it: the response was to its
\* latest request, and responses overtake nothing.
LEMMA AnsweredLast ==
  ASSUME IInv, Receives
  PROVE  queue = <<>> /\ agent \in {"down", "accept"}
<1>1. current \in Requests /\ current \in Int /\ Latest = current /\ reply[current] = "response"
  BY VsockAssumption DEF Receives, IInv, Control, Latest, Requests
<1>2. queue = <<>>
  <2>1. ASSUME NEW k \in DOMAIN queue
        PROVE  FALSE
    <3>1. current < queue[k] /\ queue[k] <= current
      BY <1>1 DEF IInv, Responses, Responded, Order
    <3>2. queue[k] \in Int
      BY Elements DEF IInv, TypeOK
    <3> QED
      BY <1>1, <3>1, <3>2
  <2>2. queue \in Seq(Requests)
    BY DEF IInv, TypeOK
  <2> QED
    BY <2>1, <2>2
<1>3. serving = None
  <2>1. SUFFICES ASSUME serving # None PROVE FALSE
    OBVIOUS
  <2>2. serving \in Int
    BY <2>1, VsockAssumption DEF IInv, TypeOK, Requests
  <2>3. current < serving /\ serving <= current
    BY <1>1, <2>1 DEF IInv, Responses, Responded, Order
  <2> QED
    BY <1>1, <2>2, <2>3
<1> QED
  BY <1>2, <1>3 DEF IInv, TypeOK, Control, Busy

\* Client and agent stay where their hands say they are.
LEMMA ControlKept ==
  ASSUME IInv, TypeOK', Next
  PROVE  Control'
<1>1. CASE StartCommand \/ StartBootWait \/ RetryPing
  <2>1. PICK kind \in {"ping", "cmd"} : Begin(kind)
    BY <1>1 DEF StartCommand, StartBootWait, RetryPing
  <2>2. Len(asked') \in Requests
    BY <2>1, BeginTyped, VsockAssumption DEF IInv, TypeOK, Requests
  <2>3. outcome' # "answered"
    BY <1>1 DEF StartCommand, StartBootWait, RetryPing, IInv, Control
  <2> QED
    BY <1>1, <2>2, <2>3 DEF StartCommand, StartBootWait, RetryPing, agentVars,
                            IInv, Control, Busy, current
<1>2. CASE Receives
  BY <1>2, AnsweredLast DEF Receives, End, agentVars, IInv, Control, Busy, current
<1>3. CASE (Exchange /\ ~Receives) \/ Killed
  <2>1. /\ UNCHANGED <<asked, agentVars>>
        /\ client # "idle"
        /\ outcome' # "answered"
    BY <1>3 DEF Exchange, Connects, ConnectFails, Sends, SendRaises, ReceiveFails,
                ReceiveRaises, GiveUp, Killed, VsockError, End, IInv, Control
  <2> QED
    BY <2>1 DEF agentVars, IInv, Control, Busy, current
<1>4. CASE AgentStarts
  BY <1>4 DEF AgentStarts, clientVars, IInv, Control, Busy, current
<1>5. CASE Accepts
  <2>1. Head(queue) \in Requests
    BY <1>5, Taken DEF Accepts, IInv, TypeOK
  <2>2. Head(queue) # None
    BY <2>1, VsockAssumption DEF Requests, None
  <2> QED
    BY <1>5, <2>2 DEF Accepts, clientVars, IInv, Control, Busy, current
<1>6. CASE ReadsPing \/ ReadsCommand \/ ReadsNothing \/ Responds \/ CommandEnds
  BY <1>6 DEF ReadsPing, ReadsCommand, ReadsNothing, Responds, CommandEnds, Serve,
              clientVars, IInv, Control, Busy, current
<1>7. CASE ResponseRaises \/ AgentDies
  BY <1>7 DEF ResponseRaises, AgentDies, Dies, clientVars, IInv, Control, Busy, current
<1> QED
  BY <1>1, <1>2, <1>3, <1>4, <1>5, <1>6, <1>7 DEF Next, Client, Exchange, Agent, Serving

\* What has been executed stays executed, and the answer is to the last request.
LEMMA AnsweredMeansRunKept ==
  ASSUME IInv, TypeOK', Next
  PROVE  AnsweredMeansRun'
<1>1. SUFFICES ASSUME outcome' = "answered", asked'[current'] = "cmd"
               PROVE  \E k \in DOMAIN executed' : executed'[k] = current'
  BY DEF AnsweredMeansRun
<1>2. CASE Receives
  <2>1. /\ current \in Requests /\ reply[current] = "response"
        /\ UNCHANGED <<asked, executed>>
    BY <1>2 DEF Receives, End, agentVars, IInv, Control
  <2> QED
    BY <1>1, <2>1 DEF IInv, Responses, Responded, current
<1>3. CASE ~Receives
  <2>1. outcome = "answered" /\ UNCHANGED <<asked, executed>>
    BY <1>1, <1>3
       DEF Next, Client, StartCommand, StartBootWait, RetryPing, Exchange, Killed,
           Connects, ConnectFails, Sends, SendRaises, ReceiveFails, ReceiveRaises, GiveUp,
           VsockError, End, Begin, Agent, AgentStarts, Serving, CommandEnds, AgentDies, Accepts,
           ReadsPing, ReadsCommand, ReadsNothing, Responds, ResponseRaises, Serve,
           clientVars, agentVars, IInv, Control
  <2> QED
    BY <1>1, <2>1 DEF IInv, AnsweredMeansRun, current
<1> QED
  BY <1>2, <1>3

\* The invariant holds at the start.
LEMMA InitIInv == Init => IInv
<1> SUFFICES ASSUME Init PROVE IInv
  OBVIOUS
<1>1. current = 0 /\ Latest = 0 /\ DOMAIN queue = {} /\ DOMAIN executed = {}
  BY DEF Init, current, Latest
<1>2. TypeOK
  BY <1>1, VsockAssumption DEF Init, TypeOK
<1> QED
  BY <1>1, <1>2 DEF Init, IInv, Control, Busy, Order, Responses, Responded, None,
                    SerialCommands, AnsweredMeansRun

\* Every step keeps the invariant.
LEMMA NextIInv == IInv /\ [Next]_vars => IInv'
<1> SUFFICES ASSUME IInv, [Next]_vars PROVE IInv'
  OBVIOUS
<1>1. CASE Next
  <2>1. TypeOK'
    BY <1>1, ClientTyped, AgentTyped DEF Next, IInv
  <2>2. Control' /\ AnsweredMeansRun'
    BY <1>1, <2>1, ControlKept, AnsweredMeansRunKept
  <2>3. Order' /\ Responses' /\ SerialCommands'
    <3>1. CASE Client
      BY <2>1, <3>1, ClientAside, AsideKeeps, ConnectsKeeps
    <3>2. CASE AgentStarts
      BY <3>2 DEF AgentStarts, clientVars, IInv, Order, Latest, Responses, Responded,
                  SerialCommands, current
    <3>3. CASE Accepts
      BY <2>1, <3>3, AcceptsKeeps
    <3>4. CASE ReadsPing \/ ReadsCommand \/ ReadsNothing
      BY <2>1, <3>4, ReadsKeeps
    <3>5. CASE Responds
      BY <2>1, <3>5, RespondsKeeps
    <3>6. CASE CommandEnds
      BY <2>1, <3>6, CommandEndsKeeps
    <3>7. CASE ResponseRaises \/ AgentDies
      BY <2>1, <3>7, DiesKeeps DEF ResponseRaises, AgentDies
    <3> QED
      BY <1>1, <3>1, <3>2, <3>3, <3>4, <3>5, <3>6, <3>7 DEF Next, Agent, Serving
  <2> QED
    BY <2>1, <2>2, <2>3 DEF IInv
<1>2. CASE UNCHANGED vars
  BY <1>2 DEF vars, clientVars, agentVars, IInv, TypeOK, Control, Busy, Order, Latest,
              Responses, Responded, SerialCommands, AnsweredMeansRun, current
<1> QED
  BY <1>1, <1>2

\* The invariant holds of every behaviour.
THEOREM Invariance == Spec => []IInv
BY InitIInv, NextIInv, PTL DEF Spec

----------------------------------------------------------------------------
(* Results *)

\* Every state of an exchange is typed, and the queue never exceeds Backlog.
THEOREM TypeCorrect == Spec => []TypeOK
<1>1. IInv => TypeOK
  BY DEF IInv
<1> QED
  BY <1>1, Invariance, PTL

\* Commands take effect in the order in which they were asked for, each at most
\* once, whatever dies or gives up.
THEOREM Serial == Spec => []SerialCommands
<1>1. IInv => SerialCommands
  BY DEF IInv
<1> QED
  BY <1>1, Invariance, PTL

\* After an answer nothing that was asked before still happens in the guest.
THEOREM AnswerIsLast == Spec => []NoLateEffect
<1>1. IInv => NoLateEffect
  BY DEF IInv, Control, NoLateEffect
<1> QED
  BY <1>1, Invariance, PTL

\* An answered command has run to its end.
THEOREM AnsweredHasRun == Spec => []AnsweredMeansRun
<1>1. IInv => AnsweredMeansRun
  BY DEF IInv
<1> QED
  BY <1>1, Invariance, PTL
=============================================================================
