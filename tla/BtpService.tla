------------------------------ MODULE BtpService ----------------------------
(***************************************************************************)
(* The BTP service of two nodes that are each other's account: the         *)
(* WebSocket connections between them, the requests sent over them, the    *)
(* table of pending outgoing requests and the queue of incoming ones.      *)
(*                                                                         *)
(* A node's queue is worked off by one task, which awaits the incoming     *)
(* handler before it takes the next request.  A request that came from     *)
(* another BTP account and is routed to the peer is sent from within that  *)
(* task; other requests are sent from tasks of their own.                  *)
(***************************************************************************)
EXTENDS Naturals, Sequences, FiniteSets

CONSTANTS
  Nodes,        \* the two nodes
  Requests,     \* ILP Prepares that one node sends to the other
  Origin,       \* request -> the node that sends it
  Relayed,      \* the requests their node takes from its own queue
  RequestIds,   \* what random::<u32>() may return
  Draws,        \* request -> the ids it may draw
  Conns,        \* WebSocket connections between the two nodes: 1, 2, ...
  None,
  RacingTimeouts,  \* SEND_MSG_TIMEOUT may end before the peer is done
  \* bound on the environment
  MaxDisruptions  \* connections that break and accounts that are edited

ASSUME BtpAssumption ==
  /\ IsFiniteSet(Nodes) /\ Cardinality(Nodes) = 2
  /\ Origin \in [Requests -> Nodes] /\ Relayed \subseteq Requests
  /\ Draws \in [Requests -> SUBSET RequestIds]
  /\ Conns \subseteq Nat
  /\ None \notin Requests \cup Conns \cup RequestIds /\ "canceled" \notin Requests
  /\ None \notin {"canceled", "response"}
  /\ RacingTimeouts \in BOOLEAN /\ MaxDisruptions \in Nat

VARIABLES
  ws,            \* connection -> state of the WebSocket
  added,         \* connection -> nodes that have called add_connection
  writing,       \* connection -> nodes whose write task has not ended
  wire,          \* connection -> node -> messages it has sent, not yet read
  connections,   \* node -> the connection its map has for the peer, or None
  pending_outgoing,  \* node -> request id -> the waiting request, or None
  pending_incoming,  \* node -> queue of Prepares
  handling,      \* node -> the Prepare its handler works on, or None
  req,           \* request -> its send_request call
  disruptions

conn_vars == <<ws, added, writing, connections>>
vars == <<ws, added, writing, wire, connections, pending_outgoing,
          pending_incoming, handling, req, disruptions>>

Peer(n) == CHOOSE m \in Nodes : m # n

\* The ends of a send_request call: the peer's Fulfill or Reject, one of the
\* node's own rejects, or the call of the next service.
Results == {"response", "T00", "R00", "next"}

\* req is the Prepare, or the Prepare that the Fulfill or Reject answers.
Message == [type : {"prepare", "response"}, id : RequestIds, req : Requests]

\* An incoming Prepare: from the peer, with its id, or from another account.
Incoming == [req : Requests, id : RequestIds \cup {None}, over : Conns \cup {None}]

Call == [pc : {"idle", "queued", "insert", "wait", "done"},
         conn : Conns \cup {None}, id : RequestIds \cup {None},
         reply : Requests \cup {"canceled", None},  \* the Prepare it answers
         result : Results \cup {None}]

Init ==
  /\ ws = [c \in Conns |-> "new"]
  /\ added = [c \in Conns |-> {}]
  /\ writing = [c \in Conns |-> {}]
  /\ wire = [c \in Conns |-> [n \in Nodes |-> << >>]]
  /\ connections = [n \in Nodes |-> None]
  /\ pending_outgoing = [n \in Nodes |-> [i \in RequestIds |-> None]]
  /\ pending_incoming = [n \in Nodes |-> << >>]
  /\ handling = [n \in Nodes |-> None]
  /\ req = [r \in Requests |-> [pc |-> "idle", conn |-> None, id |-> None,
                                reply |-> None, result |-> None]]
  /\ disruptions = 0

-----------------------------------------------------------------------------
(* Connections *)

\* add_connection, once the peers have connected and authenticated: the tasks
\* are spawned and the map's sender is replaced.  Either end may be first;
\* a node has its connections one after another.
AddConnection(n, c) ==
  /\ n \notin added[c] /\ \A b \in Conns : b < c => n \in added[b]
  /\ ws' = [ws EXCEPT ![c] = IF @ = "new" THEN "open" ELSE @]
  /\ added' = [added EXCEPT ![c] = @ \cup {n}]
  /\ writing' = [writing EXCEPT ![c] = @ \cup {n}]
  /\ connections' = [connections EXCEPT ![n] = c]
  /\ UNCHANGED <<wire, pending_outgoing, pending_incoming, handling, req, disruptions>>

\* The connection breaks and what was under way is lost.
Lose(c) ==
  /\ ws[c] = "open" /\ disruptions < MaxDisruptions
  /\ disruptions' = disruptions + 1
  /\ ws' = [ws EXCEPT ![c] = "lost"]
  /\ wire' = [wire EXCEPT ![c] = [n \in Nodes |-> << >>]]
  /\ UNCHANGED <<added, writing, connections, pending_outgoing,
                 pending_incoming, handling, req>>

\* The write task meets the broken connection (at the next ping at the
\* latest) and ends; the map keeps its sender.
EndWriting(n, c) ==
  /\ ws[c] = "lost" /\ n \in writing[c]
  /\ writing' = [writing EXCEPT ![c] = @ \ {n}]
  /\ UNCHANGED <<ws, added, wire, connections, pending_outgoing,
                 pending_incoming, handling, req, disruptions>>

\* close_connection, when the account is edited or deleted.
CloseConnection(n) ==
  /\ connections[n] # None /\ disruptions < MaxDisruptions
  /\ disruptions' = disruptions + 1
  /\ connections' = [connections EXCEPT ![n] = None]
  /\ UNCHANGED <<ws, added, writing, wire, pending_outgoing, pending_incoming,
                 handling, req>>

\* unbounded_send succeeds while the write task runs; what is written to a
\* broken connection is lost.
CanSend(n, c) == n \in writing[c]
Wire(n, c, m) ==
  IF ws[c] = "open" THEN [wire EXCEPT ![c][n] = Append(@, m)] ELSE wire

-----------------------------------------------------------------------------
(* send_request *)

\* A request of another BTP account, which the queue's task will handle.
Arrive(r) ==
  /\ r \in Relayed /\ req[r].pc = "idle"
  /\ req' = [req EXCEPT ![r].pc = "queued"]
  /\ pending_incoming' = [pending_incoming EXCEPT ![Origin[r]] =
       Append(@, [req |-> r, id |-> None, over |-> None])]
  /\ UNCHANGED <<conn_vars, wire, pending_outgoing, handling, disruptions>>

\* r is at its call of send_request: in a task of its own, or in the queue's.
Calls(r) ==
  IF r \in Relayed
    THEN req[r].pc = "queued" /\ handling[Origin[r]] # None
           /\ handling[Origin[r]].req = r /\ handling[Origin[r]].id = None
    ELSE req[r].pc = "idle"

\* The Prepare is handed to the write task of the account's connection, under a
\* random id.
SendRequest(r, id) ==
  LET n == Origin[r]
      c == connections[n]
  IN /\ Calls(r) /\ c # None /\ CanSend(n, c)
     /\ wire' = Wire(n, c, [type |-> "prepare", id |-> id, req |-> r])
     /\ req' = [req EXCEPT ![r].pc = "insert", ![r].id = id, ![r].conn = c]
     /\ UNCHANGED <<conn_vars, pending_outgoing, pending_incoming, handling, disruptions>>

Done(r, result) ==
  /\ req' = [req EXCEPT ![r].pc = "done", ![r].result = result]
  /\ UNCHANGED <<conn_vars, wire, pending_outgoing, pending_incoming, handling, disruptions>>

\* The map has no connection: the next service is called.
NoConnection(r) ==
  Calls(r) /\ connections[Origin[r]] = None /\ Done(r, "next")

\* The map's connection has no write task any more.
SendError(r) ==
  LET n == Origin[r]
      c == connections[n]
  IN Calls(r) /\ c # None /\ ~CanSend(n, c) /\ Done(r, "T00")

\* The answer channel is stored; the channel of an earlier request with the
\* same id is dropped.
Insert(r) ==
  LET n == Origin[r]
      old == pending_outgoing[n][req[r].id]
  IN /\ req[r].pc = "insert"
     /\ pending_outgoing' = [pending_outgoing EXCEPT ![n][req[r].id] = r]
     /\ req' = [q \in Requests |->
                  CASE q = r   -> [req[q] EXCEPT !.pc = "wait"]
                    [] q = old -> [req[q] EXCEPT !.reply = "canceled"]
                    [] OTHER   -> req[q]]
     /\ UNCHANGED <<conn_vars, wire, pending_incoming, handling, disruptions>>

\* Mutant of Resolve: what the channel holds is returned as it is.
Resolve_Raw(r) ==
  req[r].pc = "wait" /\ req[r].reply # None /\ Done(r, req[r].reply)

\* The channel has the answer, or was dropped.
Resolve(r) ==
  /\ req[r].pc = "wait" /\ req[r].reply # None
  /\ Done(r, IF req[r].reply = "canceled" THEN "T00" ELSE "response")

\* Nothing is under way that could still bring an answer.
Quiet ==
  /\ \A r \in Requests : /\ ~Calls(r) /\ req[r].pc # "insert"
                         /\ req[r].pc = "wait" => req[r].reply = None
  /\ \A c \in Conns : /\ ws[c] = "open" => added[c] = Nodes
                      /\ \A n \in Nodes : wire[c][n] = << >>
  /\ \A n \in Nodes : IF handling[n] = None THEN pending_incoming[n] = << >>
                                            ELSE handling[n].id = None

\* Mutant of TimeOut: the entry of the request stays in the table.
TimeOut_Leak(r) ==
  LET n == Origin[r]
  IN /\ req[r].pc = "wait" /\ req[r].reply = None
     /\ RacingTimeouts \/ Quiet
     /\ connections' = [connections EXCEPT ![n] = None]
     /\ req' = [req EXCEPT ![r].pc = "done", ![r].result = "R00"]
     /\ UNCHANGED <<ws, added, writing, wire, pending_outgoing, pending_incoming,
                    handling, disruptions>>

\* Mutant of TimeOut: only a broken connection is given up.
TimeOut_WhenLost(r) ==
  LET n == Origin[r]
  IN /\ req[r].pc = "wait" /\ req[r].reply = None
     /\ ws[req[r].conn] = "lost"
     /\ pending_outgoing' = [pending_outgoing EXCEPT ![n][req[r].id] = None]
     /\ connections' = [connections EXCEPT ![n] = None]
     /\ req' = [req EXCEPT ![r].pc = "done", ![r].result = "R00"]
     /\ UNCHANGED <<ws, added, writing, wire, pending_incoming, handling, disruptions>>

\* SEND_MSG_TIMEOUT passes: the request is given up, and the sender that the
\* map has by then is removed.  The connection's tasks hold senders of their
\* own and go on.
TimeOut(r) ==
  LET n == Origin[r]
  IN /\ req[r].pc = "wait" /\ req[r].reply = None
     /\ RacingTimeouts \/ Quiet
     /\ pending_outgoing' = [pending_outgoing EXCEPT ![n][req[r].id] = None]
     /\ connections' = [connections EXCEPT ![n] = None]
     /\ req' = [req EXCEPT ![r].pc = "done", ![r].result = "R00"]
     /\ UNCHANGED <<ws, added, writing, wire, pending_incoming, handling, disruptions>>

-----------------------------------------------------------------------------
(* Incoming messages and the queue's task *)

\* Mutant of Matching: answers are matched in the order of the requests.
Matching_InOrder(n, m) ==
  LET waiting == {i \in RequestIds : pending_outgoing[n][i] # None}
  IN IF waiting = {} THEN None
     ELSE pending_outgoing[n][CHOOSE i \in waiting : TRUE]

\* The request that waits for the answer m.
Matching(n, m) == pending_outgoing[n][m.id]

\* handle_message: a Prepare is queued, an answer goes to the request that
\* waits for it; one that nobody waits for is dropped.
HandleMessage(n, c) ==
  LET m == Head(wire[c][Peer(n)])
      r == Matching(n, m)
  IN /\ n \in writing[c] /\ wire[c][Peer(n)] # << >>
     /\ wire' = [wire EXCEPT ![c][Peer(n)] = Tail(@)]
     /\ \/ /\ m.type = "prepare"
           /\ pending_incoming' = [pending_incoming EXCEPT ![n] =
                Append(@, [req |-> m.req, id |-> m.id, over |-> c])]
           /\ UNCHANGED <<pending_outgoing, req>>
        \/ /\ m.type = "response" /\ r # None
           /\ pending_outgoing' = [pending_outgoing EXCEPT ![n] =
                [i \in RequestIds |-> IF @[i] = r THEN None ELSE @[i]]]
           /\ req' = [req EXCEPT ![r].reply = m.req]
           /\ UNCHANGED pending_incoming
        \/ /\ m.type = "response" /\ r = None
           /\ UNCHANGED <<pending_outgoing, pending_incoming, req>>
     /\ UNCHANGED <<conn_vars, handling, disruptions>>

\* The task takes the next Prepare; one for the peer will be sent from here.
TakeIncoming(n) ==
  LET p == Head(pending_incoming[n])
  IN /\ handling[n] = None /\ pending_incoming[n] # << >>
     /\ handling' = [handling EXCEPT ![n] = p]
     /\ pending_incoming' = [pending_incoming EXCEPT ![n] = Tail(@)]
     /\ UNCHANGED <<conn_vars, wire, pending_outgoing, req, disruptions>>

\* The handler answers a Prepare of the peer: the answer goes to the
\* connection the map has now, and nowhere if it has none or a dead one.
Answer(n) ==
  LET p == handling[n]
      c == connections[n]
  IN /\ p # None /\ p.id # None
     /\ handling' = [handling EXCEPT ![n] = None]
     /\ wire' = IF c # None /\ CanSend(n, c)
                  THEN Wire(n, c, [type |-> "response", id |-> p.id, req |-> p.req])
                  ELSE wire
     /\ UNCHANGED <<conn_vars, pending_outgoing, pending_incoming, req, disruptions>>

\* The relayed request has its result, which goes to the account it came from.
AnswerRelayed(n) ==
  /\ handling[n] # None /\ handling[n].id = None
  /\ req[handling[n].req].pc = "done"
  /\ handling' = [handling EXCEPT ![n] = None]
  /\ UNCHANGED <<conn_vars, wire, pending_outgoing, pending_incoming, req, disruptions>>

-----------------------------------------------------------------------------

\* A step of the task that runs r's send_request.
Step(r) ==
  \/ \E id \in Draws[r] : SendRequest(r, id)
  \/ NoConnection(r)
  \/ SendError(r)
  \/ Insert(r)
  \/ Resolve(r)

Next ==
  \/ \E c \in Conns : Lose(c)
  \/ \E n \in Nodes, c \in Conns :
       AddConnection(n, c) \/ EndWriting(n, c) \/ HandleMessage(n, c)
  \/ \E n \in Nodes :
       \/ CloseConnection(n)
       \/ TakeIncoming(n)
       \/ Answer(n)
       \/ AnswerRelayed(n)
  \/ \E r \in Requests : Arrive(r) \/ Step(r) \/ TimeOut(r)

Spec == Init /\ [][Next]_vars

\* The runtime schedules every task and the timers fire.  Nothing is assumed
\* of connections, which may stay down, nor of their messages.
FairSpec ==
  /\ Spec
  /\ \A r \in Requests : WF_vars(Step(r)) /\ WF_vars(TimeOut(r))
  /\ \A n \in Nodes :
       /\ WF_vars(TakeIncoming(n))
       /\ WF_vars(Answer(n))
       /\ WF_vars(AnswerRelayed(n))

-----------------------------------------------------------------------------
(* Properties *)

\* Every variable has its type.
TypeOK ==
  /\ ws \in [Conns -> {"new", "open", "lost"}]
  /\ added \in [Conns -> SUBSET Nodes] /\ writing \in [Conns -> SUBSET Nodes]
  /\ wire \in [Conns -> [Nodes -> Seq(Message)]]
  /\ connections \in [Nodes -> Conns \cup {None}]
  /\ pending_outgoing \in [Nodes -> [RequestIds -> Requests \cup {None}]]
  /\ pending_incoming \in [Nodes -> Seq(Incoming)]
  /\ handling \in [Nodes -> Incoming \cup {None}]
  /\ req \in [Requests -> Call]
  /\ disruptions \in 0..MaxDisruptions

\* A request waits for an answer exactly when the table has its channel: no
\* entry outlives its request, and nobody waits for a channel that is gone.
PendingMeansWaiting ==
  \A r \in Requests :
    (req[r].pc = "wait" /\ req[r].reply = None)
      <=> (\E i \in RequestIds : pending_outgoing[Origin[r]][i] = r)

\* No other request of r's node had its id.
UniqueId(r) ==
  \A q \in Requests \ {r} : Origin[q] = Origin[r] => req[q].id # req[r].id

\* The fulfill or reject that send_request returns is what the peer answered
\* to this very request, however late or reordered the answers are.
AnswersAreOwn ==
  \A r \in Requests :
    req[r].result = "response" /\ UniqueId(r) => req[r].reply = r

\* Every request that reaches the service returns, also when two nodes' queues
\* wait for each other and when connections break.
EveryRequestReturns ==
  <>[](\A r \in Requests : req[r].pc \in {"idle", "done"})

\* The response to a Prepare is sent while the connection that brought it is
\* open.
ResponsesAreSent ==
  [][\A n \in Nodes :
       handling[n] # None /\ handling'[n] = None /\ handling[n].id # None
         /\ ws[handling[n].over] = "open"
       => wire' # wire]_vars
=============================================================================
