--------------------------- MODULE BtpServiceProofs --------------------------
(***************************************************************************)
(* Proofs about the BTP service: for any number of requests, ids and       *)
(* connections, however they break and however late answers are, the table *)
(* of pending requests holds exactly the requests that wait, and an answer *)
(* reaches the request it answers unless the node drew the same id twice.  *)
(***************************************************************************)
EXTENDS BtpService, FiniteSetTheorems, TLAPS

-----------------------------------------------------------------------------
(* Nodes and sequences *)

\* Each of the two nodes is the other's peer.
LEMMA PeerLemma ==
  ASSUME NEW n \in Nodes
  PROVE  Peer(n) \in Nodes /\ Peer(n) # n /\ Peer(Peer(n)) = n
<1>1. IsFiniteSet(Nodes) /\ Cardinality(Nodes) = 2
  BY BtpAssumption
<1>2. IsFiniteSet(Nodes \ {n}) /\ Cardinality(Nodes \ {n}) = 1
  BY <1>1, FS_RemoveElement
<1>3. PICK m : Nodes \ {n} = {m}
  BY <1>2, FS_Singleton
<1>4. Nodes = {n, m} /\ m # n
  BY <1>3
<1>5. Peer(n) = m
  BY <1>4 DEF Peer
<1>6. Peer(m) = n
  BY <1>4 DEF Peer
<1> QED BY <1>4, <1>5, <1>6

\* What Append, Head and Tail do to a queue.
LEMMA AppendElements ==
  ASSUME NEW S, NEW s \in Seq(S), NEW e \in S
  PROVE  /\ Append(s, e) \in Seq(S)
         /\ \A k \in 1..Len(Append(s, e)) :
              Append(s, e)[k] = e \/ \E j \in 1..Len(s) : Append(s, e)[k] = s[j]
OBVIOUS

\* The same.
LEMMA TailElements ==
  ASSUME NEW S, NEW s \in Seq(S), s # << >>
  PROVE  /\ Head(s) \in S /\ Tail(s) \in Seq(S)
         /\ 1 \in 1..Len(s) /\ Head(s) = s[1]
         /\ \A k \in 1..Len(Tail(s)) : \E j \in 1..Len(s) : Tail(s)[k] = s[j]
<1>1. /\ Head(s) = s[1] /\ Len(s) \in Nat \ {0} /\ Len(Tail(s)) = Len(s) - 1
      /\ Tail(s) \in Seq(S) /\ \A k \in 1..(Len(s) - 1) : Tail(s)[k] = s[k + 1]
  OBVIOUS
<1>2. \A k \in 1..(Len(s) - 1) : k + 1 \in 1..Len(s)
  BY <1>1
<1> QED BY <1>1, <1>2

-----------------------------------------------------------------------------
(* Types *)

\* The constants.
LEMMA Constants ==
  /\ Origin \in [Requests -> Nodes] /\ Relayed \subseteq Requests
  /\ \A r \in Requests : Draws[r] \subseteq RequestIds
  /\ None \notin Requests /\ None \notin Conns /\ None \notin RequestIds
  /\ None # "canceled" /\ None # "response" /\ "canceled" \notin Requests
  /\ MaxDisruptions \in Nat
BY BtpAssumption

\* A send_request call ends.
LEMMA DoneType ==
  ASSUME TypeOK, NEW r \in Requests, NEW result \in Results, Done(r, result)
  PROVE  /\ TypeOK'
         /\ req' = [req EXCEPT ![r] = [req[r] EXCEPT !.pc = "done", !.result = result]]
<1>1. req' = [req EXCEPT ![r] = [req[r] EXCEPT !.pc = "done", !.result = result]]
  BY DEF Done, TypeOK
<1>2. [req[r] EXCEPT !.pc = "done", !.result = result] \in Call
  BY DEF TypeOK, Call
<1>3. req' \in [Requests -> Call]
  BY <1>1, <1>2 DEF TypeOK
<1>4. UNCHANGED <<conn_vars, wire, pending_outgoing, pending_incoming, handling, disruptions>>
  BY DEF Done
<1> QED BY <1>1, <1>3, <1>4 DEF TypeOK, conn_vars

\* What Wire returns.
LEMMA WireType ==
  ASSUME TypeOK, NEW n \in Nodes, NEW c \in Conns, NEW m \in Message
  PROVE  Wire(n, c, m) \in [Conns -> [Nodes -> Seq(Message)]]
<1>1. Append(wire[c][n], m) \in Seq(Message)
  BY AppendElements DEF TypeOK
<1> QED BY <1>1 DEF Wire, TypeOK

\* The types are kept by the steps of a send_request call.
LEMMA RequestType ==
  ASSUME TypeOK, NEW r \in Requests, Arrive(r) \/ Step(r) \/ TimeOut(r)
  PROVE  TypeOK'
<1>1. req[r] \in Call /\ Origin[r] \in Nodes
  BY Constants DEF TypeOK
<1>2. CASE Arrive(r)
  <2> DEFINE p == [req |-> r, id |-> None, over |-> None]
  <2>1. p \in Incoming
    BY DEF Incoming
  <2>2. /\ req' = [req EXCEPT ![r].pc = "queued"]
        /\ pending_incoming' = [pending_incoming EXCEPT ![Origin[r]] = Append(@, p)]
        /\ UNCHANGED <<conn_vars, wire, pending_outgoing, handling, disruptions>>
    BY <1>2 DEF Arrive
  <2> HIDE DEF p
  <2>3. pending_incoming' \in [Nodes -> Seq(Incoming)]
    <3>1. Append(pending_incoming[Origin[r]], p) \in Seq(Incoming)
      BY <1>1, <2>1, AppendElements DEF TypeOK
    <3> QED BY <2>2, <3>1 DEF TypeOK
  <2>4. req' \in [Requests -> Call]
    BY <1>1, <2>2 DEF TypeOK, Call
  <2> QED BY <2>2, <2>3, <2>4 DEF TypeOK, conn_vars
<1>3. ASSUME NEW id \in Draws[r], SendRequest(r, id) PROVE TypeOK'
  <2> DEFINE n == Origin[r]
             c == connections[n]
             m == [type |-> "prepare", id |-> id, req |-> r]
  <2>1. id \in RequestIds /\ m \in Message
    BY Constants DEF Message
  <2>2. /\ c # None /\ wire' = Wire(n, c, m)
        /\ req' = [req EXCEPT ![r].pc = "insert", ![r].id = id, ![r].conn = c]
        /\ UNCHANGED <<conn_vars, pending_outgoing, pending_incoming, handling, disruptions>>
    BY <1>3 DEF SendRequest
  <2>3. c \in Conns
    BY <1>1, <2>2 DEF TypeOK
  <2> HIDE DEF c, m
  <2>4. wire' \in [Conns -> [Nodes -> Seq(Message)]]
    BY <1>1, <2>1, <2>2, <2>3, WireType
  <2>5. req' \in [Requests -> Call]
    BY <1>1, <2>1, <2>2, <2>3 DEF TypeOK, Call
  <2> QED BY <2>2, <2>4, <2>5 DEF TypeOK, conn_vars
<1>4. CASE NoConnection(r)
  BY <1>4, DoneType DEF NoConnection, Results
<1>5. CASE SendError(r)
  BY <1>5, DoneType DEF SendError, Results
<1>6. CASE Insert(r)
  <2> DEFINE n == Origin[r]
             old == pending_outgoing[n][req[r].id]
  <2>1. /\ pending_outgoing' = [pending_outgoing EXCEPT ![n][req[r].id] = r]
        /\ req' = [q \in Requests |->
                     CASE q = r   -> [req[q] EXCEPT !.pc = "wait"]
                       [] q = old -> [req[q] EXCEPT !.reply = "canceled"]
                       [] OTHER   -> req[q]]
        /\ UNCHANGED <<conn_vars, wire, pending_incoming, handling, disruptions>>
    BY <1>6 DEF Insert
  <2>2. pending_outgoing' \in [Nodes -> [RequestIds -> Requests \cup {None}]]
    BY <1>1, <2>1 DEF TypeOK
  <2> HIDE DEF old
  <2>3. \A q \in Requests : /\ [req[q] EXCEPT !.pc = "wait"] \in Call
                            /\ [req[q] EXCEPT !.reply = "canceled"] \in Call
                            /\ req[q] \in Call
    BY DEF TypeOK, Call
  <2>4. req' \in [Requests -> Call]
    BY <2>1, <2>3
  <2> QED BY <2>1, <2>2, <2>4 DEF TypeOK, conn_vars
<1>7. CASE Resolve(r)
  BY <1>7, DoneType DEF Resolve, Results
<1>8. CASE TimeOut(r)
  <2>1. /\ pending_outgoing' = [pending_outgoing EXCEPT ![Origin[r]][req[r].id] = None]
        /\ connections' = [connections EXCEPT ![Origin[r]] = None]
        /\ req' = [req EXCEPT ![r].pc = "done", ![r].result = "R00"]
        /\ UNCHANGED <<ws, added, writing, wire, pending_incoming, handling, disruptions>>
    BY <1>8 DEF TimeOut
  <2>2. pending_outgoing' \in [Nodes -> [RequestIds -> Requests \cup {None}]]
    BY <1>1, <2>1 DEF TypeOK
  <2>3. connections' \in [Nodes -> Conns \cup {None}]
    BY <1>1, <2>1 DEF TypeOK
  <2>4. req' \in [Requests -> Call]
    BY <1>1, <2>1 DEF TypeOK, Call, Results
  <2> QED BY <2>1, <2>2, <2>3, <2>4 DEF TypeOK
<1> QED BY <1>2, <1>3, <1>4, <1>5, <1>6, <1>7, <1>8 DEF Step

\* What HandleMessage does with the message it reads: it queues a Prepare, or
\* gives an answer to the request that waits for it, or drops it.
Queues(n, c, m) ==
  /\ m.type = "prepare"
  /\ pending_incoming' = [pending_incoming EXCEPT ![n] =
       Append(@, [req |-> m.req, id |-> m.id, over |-> c])]
  /\ UNCHANGED <<pending_outgoing, req>>

Delivers(n, m, r) ==
  /\ m.type = "response" /\ r = pending_outgoing[n][m.id]
  /\ pending_outgoing' = [pending_outgoing EXCEPT ![n] =
       [i \in RequestIds |-> IF @[i] = r THEN None ELSE @[i]]]
  /\ req' = [req EXCEPT ![r].reply = m.req]
  /\ UNCHANGED pending_incoming

Handles(n, c, m) ==
  /\ wire[c][Peer(n)] # << >> /\ m = Head(wire[c][Peer(n)])
  /\ wire' = [wire EXCEPT ![c][Peer(n)] = Tail(@)]
  /\ \/ Queues(n, c, m)
     \/ \E r \in Requests : Delivers(n, m, r)
     \/ UNCHANGED <<pending_outgoing, pending_incoming, req>>
  /\ UNCHANGED <<conn_vars, handling, disruptions>>

\* HandleMessage reads a message and does one of the three.
LEMMA HandleParts ==
  ASSUME TypeOK, NEW n \in Nodes, NEW c \in Conns, HandleMessage(n, c)
  PROVE  \E m \in Message : Handles(n, c, m)
<1> DEFINE m == Head(wire[c][Peer(n)])
           r == pending_outgoing[n][m.id]
<1>1. wire[c][Peer(n)] # << >> /\ wire[c][Peer(n)] \in Seq(Message)
  BY PeerLemma DEF HandleMessage, TypeOK
<1>2. m \in Message
  BY <1>1, TailElements
<1>3. r \in Requests \cup {None}
  <2>1. m.id \in RequestIds
    BY <1>2 DEF Message
  <2> HIDE DEF m
  <2> QED BY <2>1 DEF TypeOK
<1>4. /\ wire' = [wire EXCEPT ![c][Peer(n)] = Tail(@)]
      /\ \/ Queues(n, c, m)
         \/ /\ m.type = "response" /\ r # None
            /\ pending_outgoing' = [pending_outgoing EXCEPT ![n] =
                 [i \in RequestIds |-> IF @[i] = r THEN None ELSE @[i]]]
            /\ req' = [req EXCEPT ![r].reply = m.req]
            /\ UNCHANGED pending_incoming
         \/ UNCHANGED <<pending_outgoing, pending_incoming, req>>
      /\ UNCHANGED <<conn_vars, handling, disruptions>>
  BY Zenon DEF HandleMessage, Matching, Queues
<1> HIDE DEF m
<1>5. \/ Queues(n, c, m) \/ \E q \in Requests : Delivers(n, m, q)
      \/ UNCHANGED <<pending_outgoing, pending_incoming, req>>
  <2>1. ASSUME /\ m.type = "response" /\ r # None
               /\ pending_outgoing' = [pending_outgoing EXCEPT ![n] =
                    [i \in RequestIds |-> IF @[i] = r THEN None ELSE @[i]]]
               /\ req' = [req EXCEPT ![r].reply = m.req]
               /\ UNCHANGED pending_incoming
        PROVE  r \in Requests /\ Delivers(n, m, r)
    BY Zenon, <1>3, <2>1 DEF Delivers
  <2> HIDE DEF r
  <2> QED BY Zenon, <1>4, <2>1
<1>6. Handles(n, c, m)
  BY <1>1, <1>4, <1>5 DEF Handles, m
<1> QED BY <1>2, <1>6

\* The types are kept by the steps of a node.
LEMMA NodeType ==
  ASSUME TypeOK, NEW n \in Nodes,
         CloseConnection(n) \/ TakeIncoming(n) \/ Answer(n) \/ AnswerRelayed(n)
  PROVE  TypeOK'
<1>1. CASE CloseConnection(n)
  BY <1>1, Constants DEF CloseConnection, TypeOK
<1>2. CASE TakeIncoming(n)
  <2>1. /\ pending_incoming[n] # << >> /\ pending_incoming[n] \in Seq(Incoming)
        /\ handling' = [handling EXCEPT ![n] = Head(pending_incoming[n])]
        /\ pending_incoming' = [pending_incoming EXCEPT ![n] = Tail(@)]
        /\ UNCHANGED <<conn_vars, wire, pending_outgoing, req, disruptions>>
    BY <1>2 DEF TakeIncoming, TypeOK
  <2>2. Head(pending_incoming[n]) \in Incoming /\ Tail(pending_incoming[n]) \in Seq(Incoming)
    BY <2>1, TailElements
  <2>3. handling' \in [Nodes -> Incoming \cup {None}]
    BY <2>1, <2>2 DEF TypeOK
  <2>4. pending_incoming' \in [Nodes -> Seq(Incoming)]
    BY <2>1, <2>2 DEF TypeOK
  <2> QED BY <2>1, <2>3, <2>4 DEF TypeOK, conn_vars
<1>3. CASE Answer(n)
  <2> DEFINE p == handling[n]
             c == connections[n]
             m == [type |-> "response", id |-> p.id, req |-> p.req]
  <2>1. /\ p # None /\ p.id # None
        /\ handling' = [handling EXCEPT ![n] = None]
        /\ wire' = IF c # None /\ CanSend(n, c) THEN Wire(n, c, m) ELSE wire
        /\ UNCHANGED <<conn_vars, pending_outgoing, pending_incoming, req, disruptions>>
    BY <1>3 DEF Answer
  <2>2. m \in Message
    BY <2>1 DEF TypeOK, Incoming, Message
  <2>3. c # None => c \in Conns
    BY DEF TypeOK
  <2> HIDE DEF p, c, m
  <2>4. wire' \in [Conns -> [Nodes -> Seq(Message)]]
    <3>1. c # None => Wire(n, c, m) \in [Conns -> [Nodes -> Seq(Message)]]
      BY <2>2, <2>3, WireType
    <3> QED BY <2>1, <3>1 DEF TypeOK
  <2>5. handling' \in [Nodes -> Incoming \cup {None}]
    BY <2>1 DEF TypeOK
  <2> QED BY <2>1, <2>4, <2>5 DEF TypeOK, conn_vars
<1>4. CASE AnswerRelayed(n)
  BY <1>4 DEF AnswerRelayed, TypeOK, conn_vars
<1> QED BY <1>1, <1>2, <1>3, <1>4

\* The types are kept by the steps of a connection.
LEMMA ConnType ==
  ASSUME TypeOK, NEW n \in Nodes, NEW c \in Conns,
         Lose(c) \/ AddConnection(n, c) \/ EndWriting(n, c) \/ HandleMessage(n, c)
  PROVE  TypeOK'
<1>1. CASE Lose(c)
  <2>1. << >> \in Seq(Message)
    OBVIOUS
  <2>2. wire' \in [Conns -> [Nodes -> Seq(Message)]]
    BY <1>1, <2>1 DEF Lose, TypeOK
  <2>3. disruptions' \in 0..MaxDisruptions
    BY <1>1, Constants DEF Lose, TypeOK
  <2>4. ws' \in [Conns -> {"new", "open", "lost"}]
    BY <1>1 DEF Lose, TypeOK
  <2> QED BY <1>1, <2>2, <2>3, <2>4 DEF Lose, TypeOK
<1>2. CASE AddConnection(n, c)
  <2>1. ws' \in [Conns -> {"new", "open", "lost"}]
    BY <1>2 DEF AddConnection, TypeOK
  <2>2. /\ added' \in [Conns -> SUBSET Nodes] /\ writing' \in [Conns -> SUBSET Nodes]
        /\ connections' \in [Nodes -> Conns \cup {None}]
    BY <1>2 DEF AddConnection, TypeOK
  <2> QED BY <1>2, <2>1, <2>2 DEF AddConnection, TypeOK
<1>3. CASE EndWriting(n, c)
  <2>1. writing' \in [Conns -> SUBSET Nodes]
    BY <1>3 DEF EndWriting, TypeOK
  <2> QED BY <1>3, <2>1 DEF EndWriting, TypeOK
<1>4. CASE HandleMessage(n, c)
  <2>1. PICK m \in Message : Handles(n, c, m)
    BY <1>4, HandleParts
  <2>2. m.id \in RequestIds /\ m.req \in Requests
    BY DEF Message
  <2>3. wire' \in [Conns -> [Nodes -> Seq(Message)]]
    <3>1. wire[c][Peer(n)] \in Seq(Message) /\ Peer(n) \in Nodes
      BY PeerLemma DEF TypeOK
    <3>2. Tail(wire[c][Peer(n)]) \in Seq(Message)
      BY <2>1, <3>1, TailElements DEF Handles
    <3> QED BY <2>1, <3>1, <3>2 DEF TypeOK, Handles
  <2>4. pending_incoming' \in [Nodes -> Seq(Incoming)]
    <3> DEFINE p == [req |-> m.req, id |-> m.id, over |-> c]
    <3>1. p \in Incoming
      BY <2>2 DEF Incoming
    <3> HIDE DEF p
    <3>2. Append(pending_incoming[n], p) \in Seq(Incoming)
      BY <3>1, AppendElements DEF TypeOK
    <3>3. [pending_incoming EXCEPT ![n] = Append(@, p)] \in [Nodes -> Seq(Incoming)]
      BY <3>2 DEF TypeOK
    <3> QED BY <2>1, <3>3 DEF TypeOK, p, Handles, Queues, Delivers
  <2>5. /\ pending_outgoing' \in [Nodes -> [RequestIds -> Requests \cup {None}]]
        /\ req' \in [Requests -> Call]
    <3>1. CASE UNCHANGED <<pending_outgoing, req>>
      BY <3>1 DEF TypeOK
    <3>2. ASSUME NEW r \in Requests, Delivers(n, m, r)
          PROVE  /\ pending_outgoing' \in [Nodes -> [RequestIds -> Requests \cup {None}]]
                 /\ req' \in [Requests -> Call]
      <4>1. pending_outgoing' \in [Nodes -> [RequestIds -> Requests \cup {None}]]
        BY <3>2 DEF TypeOK, Delivers
      <4>2. req' = [req EXCEPT ![r] = [req[r] EXCEPT !.reply = m.req]]
        BY <3>2 DEF Delivers
      <4>3. [req[r] EXCEPT !.reply = m.req] \in Call
        BY <2>2 DEF TypeOK, Call
      <4>4. req' \in [Requests -> Call]
        BY <4>2, <4>3 DEF TypeOK
      <4> QED BY <4>1, <4>4
    <3> QED BY <2>1, <3>1, <3>2 DEF Handles, Queues
  <2> QED BY <2>1, <2>3, <2>4, <2>5 DEF TypeOK, conn_vars, Handles
<1> QED BY <1>1, <1>2, <1>3, <1>4

\* Every step keeps the types.
LEMMA TypeStep == ASSUME TypeOK, [Next]_vars PROVE TypeOK'
<1>1. CASE UNCHANGED vars
  BY <1>1 DEF vars, TypeOK
<1>2. ASSUME NEW c \in Conns, Lose(c) PROVE TypeOK'
  <2>1. PICK n \in Nodes : TRUE
    BY BtpAssumption, FS_EmptySet
  <2> QED BY <1>2, ConnType
<1>3. ASSUME NEW n \in Nodes, NEW c \in Conns,
             AddConnection(n, c) \/ EndWriting(n, c) \/ HandleMessage(n, c)
      PROVE  TypeOK'
  BY <1>3, ConnType
<1>4. ASSUME NEW n \in Nodes,
             CloseConnection(n) \/ TakeIncoming(n) \/ Answer(n) \/ AnswerRelayed(n)
      PROVE  TypeOK'
  BY <1>4, NodeType
<1>5. ASSUME NEW r \in Requests, Arrive(r) \/ Step(r) \/ TimeOut(r) PROVE TypeOK'
  BY <1>5, RequestType
<1> QED BY <1>1, <1>2, <1>3, <1>4, <1>5 DEF Next

\* The first state has the types.
LEMMA TypeInit == Init => TypeOK
<1> SUFFICES ASSUME Init PROVE TypeOK
  OBVIOUS
<1>1. << >> \in Seq(Message) /\ << >> \in Seq(Incoming)
  OBVIOUS
<1>2. req \in [Requests -> Call]
  BY DEF Init, Call
<1>3. wire \in [Conns -> [Nodes -> Seq(Message)]] /\ pending_incoming \in [Nodes -> Seq(Incoming)]
  BY <1>1 DEF Init
<1>4. 0 \in 0..MaxDisruptions
  BY Constants
<1>5. /\ ws \in [Conns -> {"new", "open", "lost"}]
      /\ added \in [Conns -> SUBSET Nodes] /\ writing \in [Conns -> SUBSET Nodes]
      /\ connections \in [Nodes -> Conns \cup {None}]
      /\ pending_outgoing \in [Nodes -> [RequestIds -> Requests \cup {None}]]
      /\ handling \in [Nodes -> Incoming \cup {None}]
  BY DEF Init
<1> QED BY <1>2, <1>3, <1>4, <1>5 DEF Init, TypeOK

\* The table, the queues and every call have their types: an answer is only
\* given to a request, and a request is only entered under an id.
THEOREM TypeCorrect == Spec => []TypeOK
<1>1. Init => TypeOK
  BY TypeInit
<1>2. TypeOK /\ [Next]_vars => TypeOK'
  BY TypeStep
<1> QED BY <1>1, <1>2, PTL DEF Spec

-----------------------------------------------------------------------------
(* The inductive invariant *)

\* q was sent by n under the id i.
Sent(n, q, i) ==
  Origin[q] = n /\ req[q].id = i /\ req[q].pc \notin {"idle", "queued"}

\* r waits and has not been answered.
Waiting(r) == req[r].pc = "wait" /\ req[r].reply = None

\* The table has the waiting requests, each under its id and at its node.
TableOK ==
  /\ \A n \in Nodes, i \in RequestIds : pending_outgoing[n][i] # None =>
       Waiting(pending_outgoing[n][i]) /\ Sent(n, pending_outgoing[n][i], i)
  /\ \A r \in Requests : Waiting(r) => pending_outgoing[Origin[r]][req[r].id] = r
  /\ \A r \in Requests :
       /\ req[r].pc \in {"insert", "wait"} => req[r].id \in RequestIds
       /\ req[r].pc \in {"idle", "queued", "insert"} => req[r].reply = None

\* A message, or an incoming Prepare, carries the id its request was sent under.
Carries(n, m) == Sent(IF m.type = "prepare" THEN n ELSE Peer(n), m.req, m.id)
Asks(n, p) == p.id # None => Sent(Peer(n), p.req, p.id)
MessagesOK ==
  /\ \A c \in Conns, n \in Nodes : \A k \in 1..Len(wire[c][n]) : Carries(n, wire[c][n][k])
  /\ \A n \in Nodes : \A k \in 1..Len(pending_incoming[n]) : Asks(n, pending_incoming[n][k])
  /\ \A n \in Nodes : handling[n] # None => Asks(n, handling[n])

\* A request's answer is to a request of the same node with the same id.
RepliesOK ==
  \A r \in Requests :
    /\ req[r].reply \in Requests => Sent(Origin[r], req[r].reply, req[r].id)
    /\ req[r].reply # None => req[r].pc \in {"wait", "done"}
    /\ req[r].result # None => req[r].pc = "done"
    /\ req[r].result = "response" => req[r].reply \in Requests

\* A step in which at most the call of r changes, and no waiting starts or ends.
LEMMA OneCall ==
  ASSUME TypeOK, TableOK, NEW r \in Requests, NEW rec \in Call,
         req' = [req EXCEPT ![r] = rec], UNCHANGED pending_outgoing,
         ~Waiting(r), ~(rec.pc = "wait" /\ rec.reply = None),
         rec.pc \in {"insert", "wait"} => rec.id \in RequestIds,
         rec.pc \in {"idle", "queued", "insert"} => rec.reply = None
  PROVE  TableOK'
<1>1. \A q \in Requests : req'[q] = IF q = r THEN rec ELSE req[q]
  BY DEF TypeOK
<1>2. ASSUME NEW n \in Nodes, NEW i \in RequestIds, pending_outgoing'[n][i] # None
      PROVE  Waiting(pending_outgoing[n][i])' /\ Sent(n, pending_outgoing[n][i], i)'
  <2>1. PICK q : q = pending_outgoing[n][i]
    OBVIOUS
  <2>2. q \in Requests /\ Waiting(q) /\ Sent(n, q, i)
    BY <1>2, <2>1 DEF TypeOK, TableOK
  <2>3. q # r
    BY <2>2
  <2>4. req'[q] = req[q]
    BY <1>1, <2>2, <2>3
  <2>5. pending_outgoing'[n][i] = q
    BY <2>1
  <2> QED BY <2>2, <2>4, <2>5 DEF Waiting, Sent
<1>3. ASSUME NEW q \in Requests
      PROVE  /\ Waiting(q)' => pending_outgoing'[Origin[q]][req'[q].id] = q
             /\ req'[q].pc \in {"insert", "wait"} => req'[q].id \in RequestIds
             /\ req'[q].pc \in {"idle", "queued", "insert"} => req'[q].reply = None
  <2>1. CASE q = r
    BY <1>1, <2>1 DEF Waiting
  <2>2. CASE q # r
    <3>1. req'[q] = req[q]
      BY <1>1, <2>2
    <3> QED BY <3>1 DEF Waiting, TableOK
  <2> QED BY <2>1, <2>2
<1> QED BY <1>2, <1>3 DEF TableOK

\* The record of a call that is changed by one of its own steps.
LEMMA CallSteps ==
  ASSUME TypeOK, NEW r \in Requests
  PROVE  /\ Arrive(r) => /\ req[r].pc = "idle"
                         /\ req' = [req EXCEPT ![r] = [req[r] EXCEPT !.pc = "queued"]]
                         /\ UNCHANGED pending_outgoing
         /\ \A id \in Draws[r] : SendRequest(r, id) =>
              /\ req[r].pc \in {"idle", "queued"}
              /\ req' = [req EXCEPT ![r] = [req[r] EXCEPT !.pc = "insert", !.id = id,
                                                  !.conn = connections[Origin[r]]]]
              /\ connections[Origin[r]] \in Conns
              /\ UNCHANGED pending_outgoing
         /\ NoConnection(r) \/ SendError(r) => req[r].pc \in {"idle", "queued"}
<1>1. ASSUME Arrive(r)
      PROVE  /\ req[r].pc = "idle"
             /\ req' = [req EXCEPT ![r] = [req[r] EXCEPT !.pc = "queued"]]
             /\ UNCHANGED pending_outgoing
  BY <1>1 DEF Arrive, TypeOK
<1>2. Calls(r) => req[r].pc \in {"idle", "queued"}
  BY DEF Calls
<1>3. ASSUME NEW id \in Draws[r], SendRequest(r, id)
      PROVE  /\ req[r].pc \in {"idle", "queued"}
             /\ req' = [req EXCEPT ![r] = [req[r] EXCEPT !.pc = "insert", !.id = id,
                                                  !.conn = connections[Origin[r]]]]
             /\ connections[Origin[r]] \in Conns
             /\ UNCHANGED pending_outgoing
  <2>1. /\ Calls(r) /\ connections[Origin[r]] # None /\ UNCHANGED pending_outgoing
        /\ req' = [req EXCEPT ![r].pc = "insert", ![r].id = id,
                              ![r].conn = connections[Origin[r]]]
    BY <1>3 DEF SendRequest
  <2>2. connections[Origin[r]] \in Conns
    BY <2>1, Constants DEF TypeOK
  <2>3. req' = [req EXCEPT ![r] = [req[r] EXCEPT !.pc = "insert", !.id = id,
                                                  !.conn = connections[Origin[r]]]]
    BY <2>1 DEF TypeOK
  <2> QED BY <1>2, <2>1, <2>2, <2>3
<1>4. NoConnection(r) \/ SendError(r) => Calls(r)
  BY DEF NoConnection, SendError
<1> QED BY <1>1, <1>2, <1>3, <1>4

\* Insert enters r, and drops the channel of the request it replaces.
LEMMA InsertTable ==
  ASSUME TypeOK, TableOK, NEW r \in Requests, Insert(r)
  PROVE  TableOK'
<1> DEFINE n == Origin[r]
           j == req[r].id
           old == pending_outgoing[n][j]
<1>1. /\ req[r].pc = "insert" /\ n \in Nodes /\ j \in RequestIds /\ req[r].reply = None
  BY Constants DEF Insert, TableOK
<1>2. old \in Requests \cup {None} /\ old # r
  <2>1. old \in Requests \cup {None}
    BY <1>1 DEF TypeOK
  <2>2. old # None => Waiting(old)
    BY <1>1 DEF TableOK
  <2>3. r # None /\ ~Waiting(r)
    BY <1>1, Constants DEF Waiting
  <2> QED BY <2>1, <2>2, <2>3
<1>3. /\ pending_outgoing' = [pending_outgoing EXCEPT ![n][j] = r]
      /\ req' = [q \in Requests |->
                   CASE q = r   -> [req[q] EXCEPT !.pc = "wait"]
                     [] q = old -> [req[q] EXCEPT !.reply = "canceled"]
                     [] OTHER   -> req[q]]
  BY DEF Insert
<1> HIDE DEF n, j, old
<1>4. req'[r] = [req[r] EXCEPT !.pc = "wait"]
  BY <1>2, <1>3
<1>5. old # None => req'[old] = [req[old] EXCEPT !.reply = "canceled"]
  BY <1>2, <1>3
<1>6. \A q \in Requests : q # r /\ q # old => req'[q] = req[q]
  BY <1>3
<1>7. /\ pending_outgoing'[n][j] = r
      /\ \A m \in Nodes, i \in RequestIds :
           ~(m = n /\ i = j) => pending_outgoing'[m][i] = pending_outgoing[m][i]
  BY <1>1, <1>3 DEF TypeOK
<1>8. /\ req'[r].pc = "wait" /\ req'[r].id = j /\ req'[r].reply = None
  BY <1>1, <1>4 DEF TypeOK, Call, j
<1>9. old # None => /\ req'[old].pc = req[old].pc /\ req'[old].id = req[old].id
                    /\ req'[old].reply = "canceled" /\ None # "canceled"
  BY <1>2, <1>5, Constants DEF TypeOK, Call
<1>10. ASSUME NEW m \in Nodes, NEW i \in RequestIds, NEW q,
              q = pending_outgoing'[m][i], q # None
       PROVE  Waiting(q)' /\ Sent(m, q, i)'
  <2>1. CASE m = n /\ i = j
    BY <1>7, <1>8, <1>10, <2>1 DEF Waiting, Sent, n
  <2>2. CASE ~(m = n /\ i = j)
    <3>1. q = pending_outgoing[m][i] /\ q \in Requests
      BY <1>7, <1>10, <2>2 DEF TypeOK
    <3>2. Waiting(q) /\ Sent(m, q, i)
      BY <1>10, <3>1 DEF TableOK
    <3>3. q # r
      BY <1>1, <3>2 DEF Waiting
    <3>4. q # old
      <4> SUFFICES ASSUME q = old PROVE FALSE
        OBVIOUS
      <4>1. Sent(n, old, j)
        BY <1>1, <1>10 DEF TableOK, old
      <4> QED BY <2>2, <3>2, <4>1 DEF Sent
    <3> QED BY <1>6, <3>1, <3>2, <3>3, <3>4 DEF Waiting, Sent
  <2> QED BY <2>1, <2>2
<1>11. ASSUME NEW q \in Requests
       PROVE  /\ Waiting(q)' => pending_outgoing'[Origin[q]][req'[q].id] = q
              /\ req'[q].pc \in {"insert", "wait"} => req'[q].id \in RequestIds
              /\ req'[q].pc \in {"idle", "queued", "insert"} => req'[q].reply = None
  <2>1. CASE q = r
    BY <1>1, <1>7, <1>8, <2>1 DEF n
  <2>2. CASE q = old
    <3>1. Waiting(q) /\ req[q].id \in RequestIds
      <4>1. old # None /\ Waiting(old)
        BY <1>1, <2>2, Constants DEF TableOK, old
      <4> QED BY <2>2, <4>1 DEF TableOK, Waiting
    <3> QED BY <1>9, <2>2, <3>1, Constants DEF Waiting
  <2>3. CASE q # r /\ q # old
    <3>1. req'[q] = req[q]
      BY <1>6, <2>3
    <3>2. ASSUME Waiting(q)' PROVE pending_outgoing'[Origin[q]][req'[q].id] = q
      <4>1. Waiting(q)
        BY <3>1, <3>2 DEF Waiting
      <4>2. pending_outgoing[Origin[q]][req[q].id] = q /\ req[q].id \in RequestIds
        BY <4>1 DEF TableOK, Waiting
      <4>3. ~(Origin[q] = n /\ req[q].id = j)
        BY <2>3, <4>2 DEF old
      <4> QED BY <1>7, <3>1, <4>2, <4>3, Constants
    <3> QED BY <3>1, <3>2 DEF TableOK
  <2> QED BY <2>1, <2>2, <2>3
<1> QED BY <1>10, <1>11 DEF TableOK

\* Where r is in the table, and nowhere else.
LEMMA OnePlace ==
  ASSUME TypeOK, TableOK, NEW r \in Requests, Waiting(r)
  PROVE  /\ req[r].id \in RequestIds /\ Origin[r] \in Nodes
         /\ \A n \in Nodes, i \in RequestIds :
              pending_outgoing[n][i] = r <=> n = Origin[r] /\ i = req[r].id
<1>1. /\ req[r].id \in RequestIds /\ Origin[r] \in Nodes
      /\ pending_outgoing[Origin[r]][req[r].id] = r
  BY Constants DEF TableOK, Waiting
<1>2. ASSUME NEW n \in Nodes, NEW i \in RequestIds, pending_outgoing[n][i] = r
      PROVE  n = Origin[r] /\ i = req[r].id
  BY <1>2, Constants DEF TableOK, Sent
<1> QED BY <1>1, <1>2

\* A request that waits stops waiting, and its entry is removed.
LEMMA OutOfTable ==
  ASSUME TypeOK, TableOK, NEW r \in Requests, Waiting(r), NEW rec \in Call,
         req' = [req EXCEPT ![r] = rec], ~(rec.pc = "wait" /\ rec.reply = None),
         rec.pc \in {"wait", "done"}, rec.id = req[r].id,
         \A n \in Nodes, i \in RequestIds :
           pending_outgoing'[n][i] = IF n = Origin[r] /\ i = req[r].id THEN None
                                     ELSE pending_outgoing[n][i]
  PROVE  TableOK'
<1>1. /\ req[r].id \in RequestIds /\ Origin[r] \in Nodes
      /\ \A n \in Nodes, i \in RequestIds :
           pending_outgoing[n][i] = r <=> n = Origin[r] /\ i = req[r].id
  BY OnePlace
<1>2. \A q \in Requests : req'[q] = IF q = r THEN rec ELSE req[q]
  BY DEF TypeOK
<1>3. ASSUME NEW n \in Nodes, NEW i \in RequestIds, NEW q,
             q = pending_outgoing'[n][i], q # None
      PROVE  Waiting(q)' /\ Sent(n, q, i)'
  <2>1. q = pending_outgoing[n][i] /\ q \in Requests /\ q # r
    BY <1>1, <1>3 DEF TypeOK
  <2>2. Waiting(q) /\ Sent(n, q, i)
    BY <1>3, <2>1 DEF TableOK
  <2>3. req'[q] = req[q]
    BY <1>2, <2>1
  <2> QED BY <2>2, <2>3 DEF Waiting, Sent
<1>4. ASSUME NEW q \in Requests
      PROVE  /\ Waiting(q)' => pending_outgoing'[Origin[q]][req'[q].id] = q
             /\ req'[q].pc \in {"insert", "wait"} => req'[q].id \in RequestIds
             /\ req'[q].pc \in {"idle", "queued", "insert"} => req'[q].reply = None
  <2>1. CASE q = r
    BY <1>1, <1>2, <2>1 DEF Waiting
  <2>2. CASE q # r
    <3>1. req'[q] = req[q]
      BY <1>2, <2>2
    <3>2. ASSUME Waiting(q)' PROVE pending_outgoing'[Origin[q]][req'[q].id] = q
      <4>1. Waiting(q)
        BY <3>1, <3>2 DEF Waiting
      <4>2. /\ pending_outgoing[Origin[q]][req[q].id] = q /\ req[q].id \in RequestIds
            /\ Origin[q] \in Nodes
        BY <4>1, Constants DEF TableOK, Waiting
      <4>3. ~(Origin[q] = Origin[r] /\ req[q].id = req[r].id)
        BY <1>1, <2>2, <4>2
      <4> QED BY <3>1, <4>2, <4>3
    <3> QED BY <3>1, <3>2 DEF TableOK
  <2> QED BY <2>1, <2>2
<1> QED BY <1>3, <1>4 DEF TableOK

\* A call ends that does not wait in the table.
LEMMA DoneTable ==
  ASSUME TypeOK, TableOK, NEW r \in Requests, NEW result \in Results,
         ~Waiting(r), Done(r, result)
  PROVE  TableOK'
<1> DEFINE rec == [req[r] EXCEPT !.pc = "done", !.result = result]
<1>1. req' = [req EXCEPT ![r] = rec]
  BY DoneType
<1>2. UNCHANGED pending_outgoing
  BY DEF Done
<1>3. rec \in Call /\ rec.pc = "done"
  BY DEF TypeOK, Call
<1> HIDE DEF rec
<1> QED BY <1>1, <1>2, <1>3, OneCall

\* The steps of a call keep the table.
LEMMA CallTable ==
  ASSUME TypeOK, TableOK, NEW r \in Requests, Arrive(r) \/ Step(r) \/ TimeOut(r)
  PROVE  TableOK'
<1>1. req[r] \in Call /\ None # "canceled"
  BY Constants DEF TypeOK
<1>2. req[r].pc \in {"idle", "queued"} => req[r].reply = None /\ ~Waiting(r)
  BY DEF TableOK, Waiting
<1>3. CASE Arrive(r)
  <2> DEFINE rec == [req[r] EXCEPT !.pc = "queued"]
  <2>1. /\ req[r].pc = "idle" /\ req' = [req EXCEPT ![r] = rec] /\ UNCHANGED pending_outgoing
    BY <1>3, CallSteps
  <2>2. rec \in Call /\ rec.pc = "queued" /\ rec.reply = None
    BY <1>1, <1>2, <2>1 DEF Call
  <2> HIDE DEF rec
  <2> QED BY <1>2, <2>1, <2>2, OneCall
<1>4. ASSUME NEW id \in Draws[r], SendRequest(r, id) PROVE TableOK'
  <2> DEFINE rec == [req[r] EXCEPT !.pc = "insert", !.id = id, !.conn = connections[Origin[r]]]
  <2>1. /\ req[r].pc \in {"idle", "queued"} /\ req' = [req EXCEPT ![r] = rec]
        /\ connections[Origin[r]] \in Conns /\ UNCHANGED pending_outgoing
    BY <1>4, CallSteps
  <2>2. id \in RequestIds
    BY Constants
  <2>3. rec \in Call /\ rec.pc = "insert" /\ rec.id = id /\ rec.reply = None
    BY <1>1, <1>2, <2>1, <2>2 DEF Call
  <2> HIDE DEF rec
  <2> QED BY <1>2, <2>1, <2>2, <2>3, OneCall
<1>5. CASE NoConnection(r)
  BY <1>2, <1>5, CallSteps, DoneTable DEF NoConnection, Results
<1>6. CASE SendError(r)
  BY <1>2, <1>6, CallSteps, DoneTable DEF SendError, Results
<1>7. CASE Insert(r)
  BY <1>7, InsertTable
<1>8. CASE Resolve(r)
  BY <1>8, DoneTable DEF Resolve, Results, Waiting
<1>9. CASE TimeOut(r)
  <2> DEFINE rec == [req[r] EXCEPT !.pc = "done", !.result = "R00"]
  <2>1. /\ Waiting(r)
        /\ pending_outgoing' = [pending_outgoing EXCEPT ![Origin[r]][req[r].id] = None]
        /\ req' = [req EXCEPT ![r] = rec]
    BY <1>9 DEF TimeOut, Waiting, TypeOK
  <2>2. rec \in Call /\ rec.pc = "done" /\ rec.id = req[r].id
    BY <1>1 DEF Call, Results
  <2> HIDE DEF rec
  <2>3. \A n \in Nodes, i \in RequestIds :
           pending_outgoing'[n][i] = IF n = Origin[r] /\ i = req[r].id THEN None
                                     ELSE pending_outgoing[n][i]
    BY <2>1, OnePlace DEF TypeOK
  <2> QED BY <2>1, <2>2, <2>3, OutOfTable
<1> QED BY <1>3, <1>4, <1>5, <1>6, <1>7, <1>8, <1>9 DEF Step

\* An answer is given to a request, which leaves the table.
LEMMA DeliverTable ==
  ASSUME TypeOK, TableOK, NEW n \in Nodes, NEW m \in Message, NEW r \in Requests,
         Delivers(n, m, r)
  PROVE  TableOK' /\ Waiting(r) /\ Origin[r] = n /\ req[r].id = m.id
<1> DEFINE rec == [req[r] EXCEPT !.reply = m.req]
<1>1. m.id \in RequestIds /\ m.req \in Requests /\ r # None
  BY Constants DEF Message
<1>2. /\ r = pending_outgoing[n][m.id]
      /\ pending_outgoing' = [pending_outgoing EXCEPT ![n] =
           [i \in RequestIds |-> IF @[i] = r THEN None ELSE @[i]]]
      /\ req' = [req EXCEPT ![r] = rec]
  BY DEF Delivers
<1>3. Waiting(r) /\ Origin[r] = n /\ req[r].id = m.id
  BY <1>1, <1>2 DEF TableOK, Sent
<1>4. rec \in Call /\ rec.pc = "wait" /\ rec.id = req[r].id /\ rec.reply # None
  BY <1>1, <1>3, Constants DEF TypeOK, Call, Waiting
<1> HIDE DEF rec
<1>5. ASSUME NEW k \in Nodes, NEW i \in RequestIds
      PROVE  pending_outgoing'[k][i] = IF k = Origin[r] /\ i = req[r].id THEN None
                                       ELSE pending_outgoing[k][i]
  <2>1. pending_outgoing[k][i] = r <=> k = Origin[r] /\ i = req[r].id
    BY <1>3, OnePlace
  <2>2. CASE k = n
    <3>1. pending_outgoing'[k][i] = IF pending_outgoing[k][i] = r THEN None
                                    ELSE pending_outgoing[k][i]
      BY <1>2, <2>2 DEF TypeOK
    <3> QED BY <1>3, <2>1, <2>2, <3>1
  <2>3. CASE k # n
    BY <1>2, <1>3, <2>3 DEF TypeOK
  <2> QED BY <2>2, <2>3
<1>6. TableOK'
  BY <1>2, <1>3, <1>4, <1>5, OutOfTable
<1> QED BY <1>3, <1>6

\* A step that changes neither the calls nor the table.
LEMMA SameTable == ASSUME TableOK, UNCHANGED <<req, pending_outgoing>> PROVE TableOK'
BY DEF TableOK, Waiting, Sent

\* The steps that leave the calls and the table alone.
Aside ==
  \/ UNCHANGED vars \/ \E c \in Conns : Lose(c)
  \/ \E n \in Nodes, c \in Conns : AddConnection(n, c) \/ EndWriting(n, c)
  \/ \E n \in Nodes :
       CloseConnection(n) \/ TakeIncoming(n) \/ Answer(n) \/ AnswerRelayed(n)

\* They do.
LEMMA AsideSame == ASSUME Aside PROVE UNCHANGED <<req, pending_outgoing>>
BY DEF Aside, vars, Lose, AddConnection, EndWriting, CloseConnection, TakeIncoming, Answer,
       AnswerRelayed

\* Every step is one of these, a message that is handled, or a call's step.
LEMMA StepCases ==
  ASSUME TypeOK, [Next]_vars
  PROVE  \/ Aside
         \/ \E n \in Nodes, c \in Conns, m \in Message : Handles(n, c, m)
         \/ \E r \in Requests : Arrive(r) \/ Step(r) \/ TimeOut(r)
<1>1. ASSUME NEW n \in Nodes, NEW c \in Conns, HandleMessage(n, c)
      PROVE  \E m \in Message : Handles(n, c, m)
  BY <1>1, HandleParts
<1> QED BY <1>1 DEF Next, Aside

\* Every step keeps the table.
LEMMA TableStep == ASSUME TypeOK, TableOK, [Next]_vars PROVE TableOK'
<1>1. CASE Aside
  BY <1>1, AsideSame, SameTable
<1>2. ASSUME NEW n \in Nodes, NEW c \in Conns, NEW m \in Message, Handles(n, c, m)
      PROVE  TableOK'
  <2>1. CASE UNCHANGED <<pending_outgoing, req>>
    BY <2>1, SameTable
  <2>2. ASSUME NEW r \in Requests, Delivers(n, m, r) PROVE TableOK'
    BY <2>2, DeliverTable
  <2> QED BY <1>2, <2>1, <2>2 DEF Handles, Queues
<1>3. ASSUME NEW r \in Requests, Arrive(r) \/ Step(r) \/ TimeOut(r) PROVE TableOK'
  BY <1>3, CallTable
<1> QED BY <1>1, <1>2, <1>3, StepCases

\* A request waits for an answer exactly when the table has its channel, also
\* when ids collide, answers are late and timeouts race them: no entry
\* outlives its request, and nobody waits for a channel that is gone.
THEOREM TableIsExact == Spec => []PendingMeansWaiting
<1>1. Init => TypeOK /\ TableOK
  <2> SUFFICES ASSUME Init PROVE TableOK
    BY TypeInit
  <2> QED BY DEF Init, TableOK, Waiting
<1>2. TypeOK /\ TableOK /\ [Next]_vars => (TypeOK /\ TableOK)'
  BY TypeStep, TableStep
<1>3. ASSUME TypeOK, TableOK, NEW r \in Requests
      PROVE  Waiting(r) <=> \E i \in RequestIds : pending_outgoing[Origin[r]][i] = r
  <2>1. ASSUME Waiting(r) PROVE \E i \in RequestIds : pending_outgoing[Origin[r]][i] = r
    BY <1>3, <2>1, OnePlace
  <2>2. ASSUME NEW i \in RequestIds, pending_outgoing[Origin[r]][i] = r PROVE Waiting(r)
    BY <1>3, <2>2, Constants DEF TableOK
  <2> QED BY <2>1, <2>2
<1>4. TypeOK /\ TableOK => PendingMeansWaiting
  BY <1>3 DEF PendingMeansWaiting, Waiting
<1> QED BY <1>1, <1>2, <1>4, PTL DEF Spec

-----------------------------------------------------------------------------
(* Answers *)

\* A request keeps the id it was sent under.
LEMMA SentStable ==
  ASSUME TypeOK, TableOK, [Next]_vars, NEW n, NEW q \in Requests, NEW i, Sent(n, q, i)
  PROVE  Sent(n, q, i)'
<1>1. ASSUME req'[q].id = req[q].id, req'[q].pc \notin {"idle", "queued"}
      PROVE  Sent(n, q, i)'
  BY <1>1 DEF Sent
<1>2. req[q] \in Call /\ req[q].pc \notin {"idle", "queued"}
  BY DEF TypeOK, Sent
<1>3. CASE req' = req
  BY <1>1, <1>2, <1>3
<1>4. ASSUME NEW r \in Requests, NEW rec, req' = [req EXCEPT ![r] = rec],
             r = q => rec.id = req[q].id /\ rec.pc \notin {"idle", "queued"}
      PROVE  Sent(n, q, i)'
  BY <1>1, <1>2, <1>4 DEF TypeOK
<1>5. ASSUME NEW r \in Requests, NEW result \in Results, Done(r, result)
      PROVE  Sent(n, q, i)'
  <2> DEFINE rec == [req[r] EXCEPT !.pc = "done", !.result = result]
  <2>1. req' = [req EXCEPT ![r] = rec]
    BY <1>5, DoneType
  <2>2. rec.id = req[r].id /\ rec.pc = "done"
    BY DEF TypeOK, Call
  <2> HIDE DEF rec
  <2> QED BY <1>4, <2>1, <2>2
<1>6. ASSUME NEW r \in Requests, Arrive(r) \/ Step(r) \/ TimeOut(r) PROVE Sent(n, q, i)'
  <2>1. CASE Arrive(r)
    <3> DEFINE rec == [req[r] EXCEPT !.pc = "queued"]
    <3>1. req[r].pc = "idle" /\ req' = [req EXCEPT ![r] = rec]
      BY <2>1, CallSteps
    <3> HIDE DEF rec
    <3> QED BY <1>2, <1>4, <3>1
  <2>2. ASSUME NEW id \in Draws[r], SendRequest(r, id) PROVE Sent(n, q, i)'
    <3> DEFINE rec == [req[r] EXCEPT !.pc = "insert", !.id = id, !.conn = connections[Origin[r]]]
    <3>1. req[r].pc \in {"idle", "queued"} /\ req' = [req EXCEPT ![r] = rec]
      BY <2>2, CallSteps
    <3> HIDE DEF rec
    <3> QED BY <1>2, <1>4, <3>1
  <2>3. CASE NoConnection(r) \/ SendError(r) \/ Resolve(r)
    BY <1>5, <2>3 DEF NoConnection, SendError, Resolve, Results
  <2>4. CASE Insert(r)
    <3> DEFINE old == pending_outgoing[Origin[r]][req[r].id]
    <3>1. req' = [x \in Requests |->
                    CASE x = r   -> [req[x] EXCEPT !.pc = "wait"]
                      [] x = old -> [req[x] EXCEPT !.reply = "canceled"]
                      [] OTHER   -> req[x]]
      BY <2>4 DEF Insert
    <3> HIDE DEF old
    <3>2. \/ req'[q] = [req[q] EXCEPT !.pc = "wait"]
          \/ req'[q] = [req[q] EXCEPT !.reply = "canceled"]
          \/ req'[q] = req[q]
      BY <3>1
    <3>3. req'[q].id = req[q].id /\ req'[q].pc \notin {"idle", "queued"}
      BY <1>2, <3>2 DEF Call
    <3> QED BY <1>1, <3>3
  <2>5. CASE TimeOut(r)
    <3> DEFINE rec == [req[r] EXCEPT !.pc = "done", !.result = "R00"]
    <3>1. req' = [req EXCEPT ![r] = rec]
      BY <2>5 DEF TimeOut, TypeOK
    <3>2. rec.id = req[r].id /\ rec.pc = "done"
      BY DEF TypeOK, Call
    <3> HIDE DEF rec
    <3> QED BY <1>4, <3>1, <3>2
  <2> QED BY <1>6, <2>1, <2>2, <2>3, <2>4, <2>5 DEF Step
<1>7. CASE Aside
  BY <1>3, <1>7, AsideSame
<1>8. ASSUME NEW k \in Nodes, NEW c \in Conns, NEW m \in Message, Handles(k, c, m)
      PROVE  Sent(n, q, i)'
  <2>1. ASSUME NEW r \in Requests, Delivers(k, m, r) PROVE Sent(n, q, i)'
    <3> DEFINE rec == [req[r] EXCEPT !.reply = m.req]
    <3>1. req' = [req EXCEPT ![r] = rec]
      BY <2>1 DEF Delivers
    <3>2. rec.id = req[r].id /\ rec.pc = req[r].pc
      BY DEF TypeOK, Call
    <3> HIDE DEF rec
    <3> QED BY <1>2, <1>4, <3>1, <3>2
  <2> QED BY <1>3, <1>8, <2>1 DEF Handles, Queues
<1> QED BY <1>6, <1>7, <1>8, StepCases

\* A message that is under way keeps what it carries, and so does a Prepare
\* that is queued or handled.
LEMMA CarriesStable ==
  ASSUME TypeOK, TableOK, [Next]_vars, NEW n \in Nodes
  PROVE  /\ \A m \in Message : Carries(n, m) => Carries(n, m)'
         /\ \A p \in Incoming : Asks(n, p) => Asks(n, p)'
<1>1. ASSUME NEW m \in Message, Carries(n, m) PROVE Carries(n, m)'
  <2>1. m.req \in Requests
    BY DEF Message
  <2> QED BY <1>1, <2>1, SentStable DEF Carries
<1>2. ASSUME NEW p \in Incoming, Asks(n, p) PROVE Asks(n, p)'
  <2>1. p.req \in Requests
    BY DEF Incoming
  <2> QED BY <1>2, <2>1, SentStable DEF Asks
<1> QED BY <1>1, <1>2

\* MessagesOK after a step whose messages and Prepares are old or carry their id.
LEMMA MessagesFrom ==
  ASSUME TypeOK, TableOK, MessagesOK, [Next]_vars,
         \A c \in Conns, n \in Nodes : \A k \in 1..Len(wire'[c][n]) :
           \/ \E j \in 1..Len(wire[c][n]) : wire'[c][n][k] = wire[c][n][j]
           \/ Carries(n, wire[c][n][k])',
         \A n \in Nodes : \A k \in 1..Len(pending_incoming'[n]) :
           \/ \E j \in 1..Len(pending_incoming[n]) :
                pending_incoming'[n][k] = pending_incoming[n][j]
           \/ Asks(n, pending_incoming[n][k])',
         \A n \in Nodes : handling'[n] # None =>
           \/ handling'[n] = handling[n]
           \/ Asks(n, handling[n])'
  PROVE  MessagesOK'
<1>1. ASSUME NEW c \in Conns, NEW n \in Nodes, NEW k \in 1..Len(wire'[c][n])
      PROVE  Carries(n, wire[c][n][k])'
  <2>1. ASSUME NEW j \in 1..Len(wire[c][n]), wire'[c][n][k] = wire[c][n][j]
        PROVE  Carries(n, wire[c][n][k])'
    <3>1. PICK m : m = wire[c][n][j]
      OBVIOUS
    <3>2. m \in Message /\ Carries(n, m)
      BY <3>1 DEF TypeOK, MessagesOK
    <3>3. Carries(n, m)'
      BY <3>2, CarriesStable
    <3> QED BY <2>1, <3>1, <3>3 DEF Carries
  <2> QED BY <2>1
<1>2. ASSUME NEW n \in Nodes, NEW k \in 1..Len(pending_incoming'[n])
      PROVE  Asks(n, pending_incoming[n][k])'
  <2>1. ASSUME NEW j \in 1..Len(pending_incoming[n]),
               pending_incoming'[n][k] = pending_incoming[n][j]
        PROVE  Asks(n, pending_incoming[n][k])'
    <3>1. PICK p : p = pending_incoming[n][j]
      OBVIOUS
    <3>2. p \in Incoming /\ Asks(n, p)
      BY <3>1 DEF TypeOK, MessagesOK
    <3>3. Asks(n, p)'
      BY <3>2, CarriesStable
    <3> QED BY <2>1, <3>1, <3>3 DEF Asks
  <2> QED BY <2>1
<1>3. ASSUME NEW n \in Nodes, handling'[n] # None PROVE Asks(n, handling[n])'
  <2>1. CASE handling'[n] = handling[n]
    <3>1. PICK p : p = handling[n]
      OBVIOUS
    <3>2. p \in Incoming /\ Asks(n, p)
      BY <1>3, <2>1, <3>1 DEF TypeOK, MessagesOK
    <3>3. Asks(n, p)'
      BY <3>2, CarriesStable
    <3> QED BY <2>1, <3>1, <3>3 DEF Asks
  <2> QED BY <1>3, <2>1
<1> QED BY <1>1, <1>2, <1>3 DEF MessagesOK

\* A sequence of unchanged queues has old elements only.
LEMMA SameElements ==
  ASSUME NEW s, NEW t, t = s
  PROVE  \A k \in 1..Len(t) : \E j \in 1..Len(s) : t[k] = s[j]
OBVIOUS

\* What is sent is the old messages and the new one.
LEMMA WireElements ==
  ASSUME TypeOK, NEW n \in Nodes, NEW c \in Conns, NEW m \in Message, wire' = Wire(n, c, m)
  PROVE  \A d \in Conns, b \in Nodes : \A k \in 1..Len(wire'[d][b]) :
           \/ \E j \in 1..Len(wire[d][b]) : wire'[d][b][k] = wire[d][b][j]
           \/ b = n /\ wire'[d][b][k] = m
<1>1. CASE ws[c] # "open"
  BY <1>1, SameElements DEF Wire
<1>2. CASE ws[c] = "open"
  <2>1. wire' = [wire EXCEPT ![c][n] = Append(@, m)]
    BY <1>2 DEF Wire
  <2> TAKE d \in Conns, b \in Nodes
  <2>2. CASE d = c /\ b = n
    <3>1. wire'[d][b] = Append(wire[d][b], m) /\ wire[d][b] \in Seq(Message)
      BY <2>1, <2>2 DEF TypeOK
    <3> QED BY <2>2, <3>1, AppendElements
  <2>3. CASE ~(d = c /\ b = n)
    <3>1. wire'[d][b] = wire[d][b]
      BY <2>1, <2>3 DEF TypeOK
    <3> QED BY <3>1, SameElements
  <2> QED BY <2>2, <2>3
<1> QED BY <1>1, <1>2

\* Every step keeps what messages and Prepares carry.
LEMMA MessagesStep ==
  ASSUME TypeOK, TableOK, MessagesOK, [Next]_vars
  PROVE  MessagesOK'
<1>1. ASSUME wire' = wire
      PROVE  \A c \in Conns, n \in Nodes : \A k \in 1..Len(wire'[c][n]) :
               \E j \in 1..Len(wire[c][n]) : wire'[c][n][k] = wire[c][n][j]
  BY <1>1, SameElements
<1>2. ASSUME pending_incoming' = pending_incoming
      PROVE  \A n \in Nodes : \A k \in 1..Len(pending_incoming'[n]) :
               \E j \in 1..Len(pending_incoming[n]) :
                 pending_incoming'[n][k] = pending_incoming[n][j]
  BY <1>2, SameElements
<1>3. ASSUME wire' = wire, pending_incoming' = pending_incoming, handling' = handling
      PROVE  MessagesOK'
  BY <1>1, <1>2, <1>3, MessagesFrom
<1>4. ASSUME NEW c \in Conns, Lose(c) PROVE MessagesOK'
  <2>1. /\ wire' = [wire EXCEPT ![c] = [n \in Nodes |-> << >>]]
        /\ pending_incoming' = pending_incoming /\ handling' = handling
    BY <1>4 DEF Lose
  <2>2. \A d \in Conns, n \in Nodes : \A k \in 1..Len(wire'[d][n]) :
          \E j \in 1..Len(wire[d][n]) : wire'[d][n][k] = wire[d][n][j]
    <3> TAKE d \in Conns, n \in Nodes
    <3>1. CASE d = c
      <4>1. wire'[d][n] = << >>
        BY <2>1, <3>1 DEF TypeOK
      <4> QED BY <4>1
    <3>2. CASE d # c
      <4>1. wire'[d][n] = wire[d][n]
        BY <2>1, <3>2 DEF TypeOK
      <4> QED BY <4>1, SameElements
    <3> QED BY <3>1, <3>2
  <2> QED BY <1>2, <2>1, <2>2, MessagesFrom
<1>5. ASSUME NEW n \in Nodes, TakeIncoming(n) PROVE MessagesOK'
  <2>1. /\ pending_incoming[n] # << >> /\ pending_incoming[n] \in Seq(Incoming)
        /\ handling' = [handling EXCEPT ![n] = Head(pending_incoming[n])]
        /\ pending_incoming' = [pending_incoming EXCEPT ![n] = Tail(@)] /\ wire' = wire
    BY <1>5 DEF TakeIncoming, TypeOK
  <2>2. /\ Head(pending_incoming[n]) \in Incoming
        /\ 1 \in 1..Len(pending_incoming[n]) /\ Head(pending_incoming[n]) = pending_incoming[n][1]
        /\ \A k \in 1..Len(Tail(pending_incoming[n])) : \E j \in 1..Len(pending_incoming[n]) :
             Tail(pending_incoming[n])[k] = pending_incoming[n][j]
    BY <2>1, TailElements
  <2>3. \A b \in Nodes : \A k \in 1..Len(pending_incoming'[b]) :
           \E j \in 1..Len(pending_incoming[b]) : pending_incoming'[b][k] = pending_incoming[b][j]
    <3> TAKE b \in Nodes
    <3>1. CASE b = n
      <4>1. pending_incoming'[b] = Tail(pending_incoming[b])
        BY <2>1, <3>1 DEF TypeOK
      <4> QED BY <2>2, <3>1, <4>1
    <3>2. CASE b # n
      <4>1. pending_incoming'[b] = pending_incoming[b]
        BY <2>1, <3>2 DEF TypeOK
      <4> QED BY <4>1, SameElements
    <3> QED BY <3>1, <3>2
  <2>4. PICK p : p = Head(pending_incoming[n])
    OBVIOUS
  <2>5. p \in Incoming /\ Asks(n, p)
    BY <2>2, <2>4 DEF MessagesOK
  <2>6. Asks(n, p)'
    BY <2>5, CarriesStable
  <2>7. \A b \in Nodes : handling'[b] # None => handling'[b] = handling[b] \/ Asks(b, handling[b])'
    <3> TAKE b \in Nodes
    <3>1. CASE b = n
      <4>1. handling'[b] = p
        BY <2>1, <2>4, <3>1 DEF TypeOK
      <4> QED BY <2>6, <3>1, <4>1 DEF Asks
    <3>2. CASE b # n
      BY <2>1, <3>2 DEF TypeOK
    <3> QED BY <3>1, <3>2
  <2> QED BY <1>1, <2>1, <2>3, <2>7, MessagesFrom
<1>6. ASSUME NEW n \in Nodes, Answer(n) PROVE MessagesOK'
  <2> DEFINE c == connections[n]
  <2>1. PICK p : p = handling[n]
    OBVIOUS
  <2>2. PICK m : m = [type |-> "response", id |-> p.id, req |-> p.req]
    OBVIOUS
  <2>3. /\ p # None /\ p.id # None
        /\ handling' = [handling EXCEPT ![n] = None]
        /\ wire' = IF c # None /\ CanSend(n, c) THEN Wire(n, c, m) ELSE wire
        /\ pending_incoming' = pending_incoming
    BY <1>6, <2>1, <2>2 DEF Answer
  <2>4. p \in Incoming /\ Asks(n, p) /\ p.req \in Requests
    BY <2>1, <2>3 DEF TypeOK, MessagesOK, Incoming
  <2>5. m \in Message /\ Carries(n, m)
    BY <2>2, <2>3, <2>4 DEF Message, Incoming, Carries, Asks
  <2>6. Carries(n, m)'
    BY <2>5, CarriesStable
  <2>7. \A d \in Conns, b \in Nodes : \A k \in 1..Len(wire'[d][b]) :
          \/ \E j \in 1..Len(wire[d][b]) : wire'[d][b][k] = wire[d][b][j]
          \/ b = n /\ wire'[d][b][k] = m
    <3>1. CASE wire' = wire
      BY <1>1, <3>1
    <3>2. CASE c # None /\ wire' = Wire(n, c, m)
      <4>1. c \in Conns
        BY <3>2 DEF TypeOK
      <4> HIDE DEF c
      <4> QED BY <2>5, <3>2, <4>1, WireElements
    <3> QED BY <2>3, <3>1, <3>2
  <2>8. \A d \in Conns, b \in Nodes : \A k \in 1..Len(wire'[d][b]) :
          \/ \E j \in 1..Len(wire[d][b]) : wire'[d][b][k] = wire[d][b][j]
          \/ Carries(b, wire[d][b][k])'
    BY <2>6, <2>7 DEF Carries
  <2>9. \A b \in Nodes : handling'[b] # None => handling'[b] = handling[b]
    BY <2>3 DEF TypeOK
  <2> QED BY <1>2, <2>3, <2>8, <2>9, MessagesFrom
<1>7. ASSUME NEW n \in Nodes, AnswerRelayed(n) PROVE MessagesOK'
  <2>1. /\ wire' = wire /\ pending_incoming' = pending_incoming
        /\ \A b \in Nodes : handling'[b] # None => handling'[b] = handling[b]
    BY <1>7 DEF AnswerRelayed, TypeOK
  <2> QED BY <1>1, <1>2, <2>1, MessagesFrom
<1>8. ASSUME Aside PROVE MessagesOK'
  <2>1. \/ wire' = wire /\ pending_incoming' = pending_incoming /\ handling' = handling
        \/ \E c \in Conns : Lose(c)
        \/ \E n \in Nodes : TakeIncoming(n) \/ Answer(n) \/ AnswerRelayed(n)
    BY <1>8 DEF Aside, vars, AddConnection, EndWriting, CloseConnection
  <2> QED BY <1>3, <1>4, <1>5, <1>6, <1>7, <2>1
<1>9. ASSUME NEW n \in Nodes, NEW c \in Conns, NEW m \in Message, Handles(n, c, m)
      PROVE  MessagesOK'
  <2> DEFINE s == wire[c][Peer(n)]
  <2>1. /\ s # << >> /\ m = Head(s) /\ wire' = [wire EXCEPT ![c][Peer(n)] = Tail(@)]
        /\ handling' = handling /\ Peer(n) \in Nodes /\ Peer(Peer(n)) = n /\ Peer(n) # n
    BY <1>9, PeerLemma DEF Handles
  <2>2. /\ 1 \in 1..Len(s) /\ m = s[1]
        /\ \A k \in 1..Len(Tail(s)) : \E j \in 1..Len(s) : Tail(s)[k] = s[j]
    <3>1. s \in Seq(Message)
      BY <2>1 DEF TypeOK
    <3> QED BY <2>1, <3>1, TailElements
  <2>3. \A d \in Conns, b \in Nodes : \A k \in 1..Len(wire'[d][b]) :
          \E j \in 1..Len(wire[d][b]) : wire'[d][b][k] = wire[d][b][j]
    <3> TAKE d \in Conns, b \in Nodes
    <3>1. CASE d = c /\ b = Peer(n)
      <4>1. wire'[d][b] = Tail(s) /\ wire[d][b] = s
        BY <2>1, <3>1 DEF TypeOK
      <4> QED BY <2>2, <4>1
    <3>2. CASE ~(d = c /\ b = Peer(n))
      <4>1. wire'[d][b] = wire[d][b]
        BY <2>1, <3>2 DEF TypeOK
      <4> QED BY <4>1, SameElements
    <3> QED BY <3>1, <3>2
  <2>4. CASE Queues(n, c, m)
    <3>1. PICK p : p = [req |-> m.req, id |-> m.id, over |-> c]
      OBVIOUS
    <3>2. m.type = "prepare" /\ pending_incoming' = [pending_incoming EXCEPT ![n] = Append(@, p)]
      BY <2>4, <3>1 DEF Queues
    <3>3. Carries(Peer(n), m)
      BY <2>1, <2>2 DEF MessagesOK
    <3>4. p \in Incoming /\ Asks(n, p)
      BY <3>1, <3>2, <3>3 DEF Message, Incoming, Carries, Asks
    <3>5. Asks(n, p)'
      BY <3>4, CarriesStable
    <3>6. \A b \in Nodes : \A k \in 1..Len(pending_incoming'[b]) :
            \/ \E j \in 1..Len(pending_incoming[b]) :
                 pending_incoming'[b][k] = pending_incoming[b][j]
            \/ b = n /\ pending_incoming'[b][k] = p
      <4> TAKE b \in Nodes
      <4>1. CASE b = n
        <5>1. /\ pending_incoming'[b] = Append(pending_incoming[b], p)
              /\ pending_incoming[b] \in Seq(Incoming)
          BY <3>2, <4>1 DEF TypeOK
        <5> QED BY <3>4, <4>1, <5>1, AppendElements
      <4>2. CASE b # n
        <5>1. pending_incoming'[b] = pending_incoming[b]
          BY <3>2, <4>2 DEF TypeOK
        <5> QED BY <5>1, SameElements
      <4> QED BY <4>1, <4>2
    <3>7. \A b \in Nodes : \A k \in 1..Len(pending_incoming'[b]) :
            \/ \E j \in 1..Len(pending_incoming[b]) :
                 pending_incoming'[b][k] = pending_incoming[b][j]
            \/ Asks(b, pending_incoming[b][k])'
      BY <3>5, <3>6 DEF Asks
    <3> QED BY <2>1, <2>3, <3>7, MessagesFrom
  <2>5. CASE pending_incoming' = pending_incoming
    BY <1>2, <2>1, <2>3, <2>5, MessagesFrom
  <2> QED BY <1>9, <2>4, <2>5 DEF Handles, Delivers
<1>10. ASSUME NEW r \in Requests, Arrive(r) PROVE MessagesOK'
  <2>1. PICK p : p = [req |-> r, id |-> None, over |-> None]
    OBVIOUS
  <2>2. /\ pending_incoming' = [pending_incoming EXCEPT ![Origin[r]] = Append(@, p)]
        /\ wire' = wire /\ handling' = handling
    BY <1>10, <2>1 DEF Arrive
  <2>3. p \in Incoming /\ p.id = None
    BY <2>1 DEF Incoming
  <2>4. \A b \in Nodes : \A k \in 1..Len(pending_incoming'[b]) :
          \/ \E j \in 1..Len(pending_incoming[b]) :
               pending_incoming'[b][k] = pending_incoming[b][j]
          \/ pending_incoming'[b][k] = p
    <3> TAKE b \in Nodes
    <3>1. CASE b = Origin[r]
      <4>1. /\ pending_incoming'[b] = Append(pending_incoming[b], p)
            /\ pending_incoming[b] \in Seq(Incoming)
        BY <2>2, <3>1 DEF TypeOK
      <4> QED BY <2>3, <4>1, AppendElements
    <3>2. CASE b # Origin[r]
      <4>1. pending_incoming'[b] = pending_incoming[b]
        BY <2>2, <3>2 DEF TypeOK
      <4> QED BY <4>1, SameElements
    <3> QED BY <3>1, <3>2
  <2>5. \A b \in Nodes : \A k \in 1..Len(pending_incoming'[b]) :
          \/ \E j \in 1..Len(pending_incoming[b]) :
               pending_incoming'[b][k] = pending_incoming[b][j]
          \/ Asks(b, pending_incoming[b][k])'
    BY <2>3, <2>4 DEF Asks
  <2> QED BY <1>1, <2>2, <2>5, MessagesFrom
<1>11. ASSUME NEW r \in Requests, NEW id \in Draws[r], SendRequest(r, id) PROVE MessagesOK'
  <2> DEFINE n == Origin[r]
             c == connections[n]
  <2>1. PICK m : m = [type |-> "prepare", id |-> id, req |-> r]
    OBVIOUS
  <2>2. /\ wire' = Wire(n, c, m) /\ pending_incoming' = pending_incoming
        /\ handling' = handling
    BY <1>11, <2>1 DEF SendRequest
  <2>3. /\ m \in Message /\ m.req = r /\ m.id = id /\ m.type = "prepare" /\ n \in Nodes
    BY <2>1, Constants DEF Message
  <2>4. c \in Conns /\ req'[r].id = id /\ req'[r].pc = "insert"
    <3>1. req' = [req EXCEPT ![r] = [req[r] EXCEPT !.pc = "insert", !.id = id, !.conn = c]]
      BY <1>11, CallSteps
    <3>2. req[r] \in Call
      BY DEF TypeOK
    <3>3. c \in Conns
      BY <1>11, CallSteps
    <3> QED BY <3>1, <3>2, <3>3 DEF TypeOK, Call
  <2>5. Carries(n, m)'
    BY <2>3, <2>4 DEF Carries, Sent
  <2> HIDE DEF c
  <2>6. \A d \in Conns, b \in Nodes : \A k \in 1..Len(wire'[d][b]) :
          \/ \E j \in 1..Len(wire[d][b]) : wire'[d][b][k] = wire[d][b][j]
          \/ b = n /\ wire'[d][b][k] = m
    BY <2>2, <2>3, <2>4, WireElements
  <2>7. \A d \in Conns, b \in Nodes : \A k \in 1..Len(wire'[d][b]) :
          \/ \E j \in 1..Len(wire[d][b]) : wire'[d][b][k] = wire[d][b][j]
          \/ Carries(b, wire[d][b][k])'
    BY <2>5, <2>6 DEF Carries
  <2> QED BY <1>2, <2>2, <2>7, MessagesFrom
<1>12. ASSUME NEW r \in Requests,
              NoConnection(r) \/ SendError(r) \/ Insert(r) \/ Resolve(r) \/ TimeOut(r)
       PROVE  MessagesOK'
  <2>1. wire' = wire /\ pending_incoming' = pending_incoming /\ handling' = handling
    BY <1>12 DEF NoConnection, SendError, Insert, Resolve, TimeOut, Done
  <2> QED BY <1>3, <2>1
<1> QED BY <1>8, <1>9, <1>10, <1>11, <1>12, StepCases DEF Step

\* What RepliesOK says of one request.
ReplyOK(r) ==
  /\ req[r].reply \in Requests => Sent(Origin[r], req[r].reply, req[r].id)
  /\ req[r].reply # None => req[r].pc \in {"wait", "done"}
  /\ req[r].result # None => req[r].pc = "done"
  /\ req[r].result = "response" => req[r].reply \in Requests

\* A request whose answer, id and result are the same keeps ReplyOK.
LEMMA SameReply ==
  ASSUME TypeOK, TableOK, RepliesOK, [Next]_vars, NEW r \in Requests,
         req'[r].reply = req[r].reply, req'[r].id = req[r].id \/ req[r].reply = None,
         req'[r].result = req[r].result,
         req'[r].pc = req[r].pc \/ (req[r].reply = None /\ req[r].result = None)
  PROVE  ReplyOK(r)'
<1>1. ReplyOK(r)
  BY DEF RepliesOK, ReplyOK
<1>2. ASSUME req[r].reply \in Requests PROVE Sent(Origin[r], req[r].reply, req[r].id)'
  <2>1. req[r].reply # None /\ req'[r].id = req[r].id
    BY <1>2, Constants
  <2>2. PICK q \in Requests : q = req[r].reply
    BY <1>2
  <2>3. PICK i : i = req[r].id
    OBVIOUS
  <2>4. Sent(Origin[r], q, i)'
    BY <1>1, <2>2, <2>3, SentStable DEF ReplyOK
  <2> QED BY <2>1, <2>2, <2>3, <2>4 DEF Sent
<1>3. req'[r].reply \in Requests => Sent(Origin[r], req[r].reply, req[r].id)'
  BY <1>2
<1> QED BY <1>1, <1>3, Constants DEF ReplyOK

\* Every step keeps the answers.
LEMMA RepliesStep ==
  ASSUME TypeOK, TableOK, MessagesOK, RepliesOK, [Next]_vars
  PROVE  RepliesOK'
<1> SUFFICES ASSUME NEW q \in Requests PROVE ReplyOK(q)'
  BY DEF RepliesOK, ReplyOK
<1>1. req[q] \in Call /\ ReplyOK(q)
  BY DEF TypeOK, RepliesOK, ReplyOK
<1>2. ASSUME req'[q] = req[q] PROVE ReplyOK(q)'
  BY <1>2, SameReply
<1>3. ASSUME NEW r \in Requests, NEW rec, req' = [req EXCEPT ![r] = rec], q # r
      PROVE  ReplyOK(q)'
  <2>1. req'[q] = req[q]
    BY <1>3 DEF TypeOK
  <2> QED BY <1>2, <2>1
<1>4. ASSUME NEW result \in Results, Done(q, result),
             req[q].reply # None => req[q].pc = "wait",
             result = "response" => req[q].reply \in Requests
      PROVE  ReplyOK(q)'
  <2> DEFINE rec == [req[q] EXCEPT !.pc = "done", !.result = result]
  <2>1. req' = [req EXCEPT ![q] = rec]
    BY <1>4, DoneType
  <2>2. rec.pc = "done" /\ rec.result = result /\ rec.id = req[q].id /\ rec.reply = req[q].reply
    BY <1>1 DEF Call
  <2> HIDE DEF rec
  <2>3. req'[q] = rec
    BY <2>1 DEF TypeOK
  <2>4. ASSUME req[q].reply \in Requests PROVE Sent(Origin[q], req[q].reply, req[q].id)'
    <3>1. PICK x \in Requests : x = req[q].reply
      BY <2>4
    <3>2. PICK i : i = req[q].id
      OBVIOUS
    <3>3. Sent(Origin[q], x, i)'
      BY <1>1, <3>1, <3>2, SentStable DEF ReplyOK
    <3> QED BY <2>2, <2>3, <3>1, <3>2, <3>3 DEF Sent
  <2> QED BY <1>4, <2>2, <2>3, <2>4 DEF ReplyOK
<1>5. ASSUME NEW r \in Requests, NEW result \in Results, Done(r, result), r # q
      PROVE  ReplyOK(q)'
  <2>1. req' = [req EXCEPT ![r] = [req[r] EXCEPT !.pc = "done", !.result = result]]
    BY <1>5, DoneType
  <2>2. req'[q] = req[q]
    BY <1>5, <2>1 DEF TypeOK
  <2> QED BY <1>2, <2>2
<1>6. ASSUME NEW r \in Requests, Arrive(r) \/ Step(r) \/ TimeOut(r) PROVE ReplyOK(q)'
  <2>1. CASE Arrive(r)
    <3> DEFINE rec == [req[r] EXCEPT !.pc = "queued"]
    <3>1. req[r].pc = "idle" /\ req' = [req EXCEPT ![r] = rec]
      BY <2>1, CallSteps
    <3>2. CASE r = q
      <4>1. /\ rec.reply = req[q].reply /\ rec.id = req[q].id /\ rec.result = req[q].result
        BY <1>1, <3>2 DEF Call
      <4> HIDE DEF rec
      <4>2. req'[q] = rec
        BY <3>1, <3>2 DEF TypeOK
      <4>3. req[q].reply = None /\ req[q].result = None
        BY <1>1, <3>1, <3>2 DEF ReplyOK
      <4> QED BY <4>1, <4>2, <4>3, SameReply
    <3> HIDE DEF rec
    <3> QED BY <1>3, <3>1, <3>2
  <2>2. ASSUME NEW id \in Draws[r], SendRequest(r, id) PROVE ReplyOK(q)'
    <3> DEFINE rec == [req[r] EXCEPT !.pc = "insert", !.id = id, !.conn = connections[Origin[r]]]
    <3>1. req[r].pc \in {"idle", "queued"} /\ req' = [req EXCEPT ![r] = rec]
      BY <2>2, CallSteps
    <3>2. CASE r = q
      <4>1. rec.reply = req[q].reply /\ rec.result = req[q].result
        BY <1>1, <3>2 DEF Call
      <4> HIDE DEF rec
      <4>2. req'[q] = rec
        BY <3>1, <3>2 DEF TypeOK
      <4>3. req[q].reply = None /\ req[q].result = None
        BY <1>1, <3>1, <3>2 DEF ReplyOK
      <4> QED BY <4>1, <4>2, <4>3, SameReply
    <3> HIDE DEF rec
    <3> QED BY <1>3, <3>1, <3>2
  <2>3. CASE NoConnection(r) \/ SendError(r)
    <3>1. PICK result \in {"next", "T00"} : Done(r, result)
      BY <2>3 DEF NoConnection, SendError
    <3>2. result \in Results /\ result # "response"
      BY DEF Results
    <3>3. r = q => req[q].reply = None
      BY <1>1, <2>3, CallSteps DEF ReplyOK
    <3> QED BY <1>4, <1>5, <3>1, <3>2, <3>3
  <2>4. CASE Resolve(r)
    <3> DEFINE result == IF req[r].reply = "canceled" THEN "T00" ELSE "response"
    <3>1. req[r].pc = "wait" /\ req[r].reply # None /\ Done(r, result)
      BY <2>4 DEF Resolve
    <3>2. result \in Results
      BY DEF Results
    <3>3. r = q /\ result = "response" => req[q].reply \in Requests
      BY <1>1, <3>1 DEF Call
    <3> HIDE DEF result
    <3> QED BY <1>4, <1>5, <3>1, <3>2, <3>3
  <2>5. CASE Insert(r)
    <3> DEFINE old == pending_outgoing[Origin[r]][req[r].id]
    <3>1. /\ req[r].pc = "insert"
          /\ req' = [x \in Requests |->
                       CASE x = r   -> [req[x] EXCEPT !.pc = "wait"]
                         [] x = old -> [req[x] EXCEPT !.reply = "canceled"]
                         [] OTHER   -> req[x]]
      BY <2>5 DEF Insert
    <3>2. old # None => Waiting(old)
      BY <3>1, Constants DEF TableOK
    <3> HIDE DEF old
    <3>3. CASE q = r
      <4>1. old # r
        BY <3>1, <3>2, Constants DEF Waiting
      <4>2. req'[q] = [req[q] EXCEPT !.pc = "wait"]
        BY <3>1, <3>3, <4>1
      <4>3. req[q].reply = None /\ req[q].result = None
        BY <1>1, <3>1, <3>3 DEF ReplyOK
      <4>4. /\ req'[q].reply = req[q].reply /\ req'[q].id = req[q].id
            /\ req'[q].result = req[q].result
        BY <1>1, <4>2 DEF Call
      <4> QED BY <4>3, <4>4, SameReply
    <3>4. CASE q # r /\ q = old
      <4>1. req'[q] = [req[q] EXCEPT !.reply = "canceled"]
        BY <3>1, <3>4
      <4>2. /\ req'[q].reply = "canceled" /\ req'[q].pc = req[q].pc
            /\ req'[q].result = req[q].result
        BY <1>1, <4>1 DEF Call
      <4>3. req[q].pc = "wait" /\ req[q].result = None
        BY <1>1, <3>2, <3>4, Constants DEF Waiting, ReplyOK
      <4> QED BY <1>1, <4>2, <4>3, Constants DEF ReplyOK
    <3>5. CASE q # r /\ q # old
      BY <1>2, <3>1, <3>5
    <3> QED BY <3>3, <3>4, <3>5
  <2>6. CASE TimeOut(r)
    <3> DEFINE rec == [req[r] EXCEPT !.pc = "done", !.result = "R00"]
    <3>1. req' = [req EXCEPT ![r] = rec] /\ req[r].reply = None
      BY <2>6 DEF TimeOut, TypeOK
    <3>2. CASE r = q
      <4>1. rec.reply = None /\ rec.pc = "done" /\ rec.result = "R00"
        BY <1>1, <3>1, <3>2 DEF Call
      <4> HIDE DEF rec
      <4>2. req'[q] = rec
        BY <3>1, <3>2 DEF TypeOK
      <4> QED BY <4>1, <4>2, Constants DEF ReplyOK
    <3> HIDE DEF rec
    <3> QED BY <1>3, <3>1, <3>2
  <2> QED BY <1>6, <2>1, <2>2, <2>3, <2>4, <2>5, <2>6 DEF Step
<1>7. CASE Aside
  BY <1>2, <1>7, AsideSame
<1>8. ASSUME NEW n \in Nodes, NEW c \in Conns, NEW m \in Message, Handles(n, c, m)
      PROVE  ReplyOK(q)'
  <2>1. ASSUME NEW r \in Requests, Delivers(n, m, r) PROVE ReplyOK(q)'
    <3> DEFINE rec == [req[r] EXCEPT !.reply = m.req]
    <3>1. req' = [req EXCEPT ![r] = rec] /\ m.type = "response"
      BY <2>1 DEF Delivers
    <3>2. Waiting(r) /\ Origin[r] = n /\ req[r].id = m.id
      BY <2>1, DeliverTable
    <3>3. Carries(Peer(n), m) /\ Peer(Peer(n)) = n /\ m.req \in Requests
      <4>1. /\ wire[c][Peer(n)] # << >> /\ m = Head(wire[c][Peer(n)]) /\ Peer(n) \in Nodes
            /\ Peer(Peer(n)) = n
        BY <1>8, PeerLemma DEF Handles
      <4>2. wire[c][Peer(n)] \in Seq(Message)
        BY <4>1 DEF TypeOK
      <4>3. 1 \in 1..Len(wire[c][Peer(n)]) /\ m = wire[c][Peer(n)][1]
        BY <4>1, <4>2, TailElements
      <4> QED BY <4>1, <4>3 DEF MessagesOK, Message
    <3>4. Sent(n, m.req, m.id)
      BY <3>1, <3>3 DEF Carries
    <3>5. Sent(n, m.req, m.id)'
      BY <3>3, <3>4, SentStable
    <3>6. CASE r = q
      <4>1. /\ rec.reply = m.req /\ rec.pc = "wait" /\ rec.id = m.id
            /\ rec.result = req[q].result
        BY <1>1, <3>2, <3>6 DEF Call, Waiting
      <4> HIDE DEF rec
      <4>2. req'[q] = rec
        BY <3>1, <3>6 DEF TypeOK
      <4>3. req[q].result = None
        BY <1>1, <3>2, <3>6 DEF ReplyOK, Waiting
      <4>4. Sent(Origin[q], req[q].reply, req[q].id)'
        BY <3>2, <3>5, <3>6, <4>1, <4>2 DEF Sent
      <4> QED BY <3>3, <4>1, <4>2, <4>3, <4>4 DEF ReplyOK
    <3> HIDE DEF rec
    <3> QED BY <1>3, <3>1, <3>6
  <2>2. CASE UNCHANGED req
    BY <1>2, <2>2
  <2> QED BY <1>8, <2>1, <2>2 DEF Handles, Queues
<1> QED BY <1>6, <1>7, <1>8, StepCases

\* A fulfill or reject that send_request returns is the peer's answer to this
\* very request, however late, reordered or spread over reconnections answers
\* are, as long as no other request of the node had its id.
THEOREM AnswersReachTheirRequest == Spec => []AnswersAreOwn
<1> DEFINE Inv == TypeOK /\ TableOK /\ MessagesOK /\ RepliesOK
<1>1. Init => Inv
  <2> SUFFICES ASSUME Init PROVE TableOK /\ MessagesOK /\ RepliesOK
    BY TypeInit
  <2>1. TableOK
    BY DEF Init, TableOK, Waiting
  <2>2. MessagesOK
    <3>1. \A k \in 1..Len(<< >>) : FALSE
      OBVIOUS
    <3> QED BY <3>1 DEF Init, MessagesOK
  <2>3. RepliesOK
    <3> SUFFICES ASSUME NEW r \in Requests
                 PROVE  /\ req[r].reply \notin Requests /\ req[r].reply = None
                        /\ req[r].result = None /\ req[r].result # "response"
      BY DEF RepliesOK
    <3>1. req[r].reply = None /\ req[r].result = None
      BY DEF Init
    <3> QED BY <3>1, Constants
  <2> QED BY <2>1, <2>2, <2>3
<1>2. Inv /\ [Next]_vars => Inv'
  BY TypeStep, TableStep, MessagesStep, RepliesStep
<1>3. Inv => AnswersAreOwn
  <2> SUFFICES ASSUME RepliesOK, NEW r \in Requests, req[r].result = "response", UniqueId(r)
               PROVE  req[r].reply = r
    BY DEF AnswersAreOwn
  <2>1. req[r].reply \in Requests /\ Sent(Origin[r], req[r].reply, req[r].id)
    BY DEF RepliesOK
  <2> QED BY <2>1 DEF Sent, UniqueId
<1> HIDE DEF Inv
<1> QED BY <1>1, <1>2, <1>3, PTL DEF Spec
=============================================================================
