------------------------------ MODULE CcpSync -------------------------------
(***************************************************************************)
(* How the route managers of two connectors keep a routing table in step:  *)
(* the speaker broadcasts the changes of its forwarding table to the nodes *)
(* that listen to it, over HTTP or BTP requests that may be lost, delayed  *)
(* or left without an answer, and a listener that misses an epoch asks for *)
(* what it does not have.  Both sides may restart; their tables are only   *)
(* in memory.                                                              *)
(*                                                                         *)
(* The best routes of the speaker change from outside (Publish).           *)
(***************************************************************************)
EXTENDS RoutingTable, FiniteSets

CONSTANTS Listeners,    \* accounts the speaker sends routes to
          Children,     \* those that are its children, the others are peers
          MaxBackoff,   \* u8::MAX in the code
          \* bounds on the environment
          MaxEpoch,     \* changes of the forwarding table between restarts
          MaxFaults,    \* restarts, lost or late messages, failed store calls
          MaxUnderway   \* route updates on their way at the same time

ASSUME ListenerAssumption == Children \subseteq Listeners /\ Listeners # {}
ASSUME BackoffAssumption == MaxBackoff \in Nat \ {0}
ASSUME EnvironmentAssumption ==
  /\ MaxEpoch \in Nat /\ MaxFaults \in Nat
  /\ MaxUnderway \in Nat \ {0}

VARIABLES
  \* the speaker
  id,            \* of the forwarding table: how often the speaker was started
  updates,       \* forwarding_table_updates, one transition per epoch
  history,       \* the forwarding table at every epoch (auxiliary)
  last_epoch_updates_sent_for,
  unavailable,   \* unavailable_accounts: listener -> its backoff
  broadcast,     \* the broadcast in progress and its locals
  \* the listeners
  table,         \* incoming table for the speaker
  asking,        \* listeners whose handler found a gap and reads its table next
  \* messages underway
  sent,          \* route updates
  asked,         \* route control requests, from the task spawned for each on
  faults

speakerVars == <<id, updates, history, last_epoch_updates_sent_for,
                 unavailable, broadcast>>
listenerVars == <<table, asking>>
vars == <<speakerVars, listenerVars, sent, asked, faults>>

Epoch == Len(updates)
ForwardingTable == history[Epoch + 1]

\* max = 0: the account is not in the map.
Available == [max |-> 0, skip_intervals |-> 0]

IdleBroadcast == [pc |-> "idle", todo |-> {}, update |-> NoRoute,
                  waiting |-> {}, failed |-> {}, ok |-> {}]

\* The tables a listener has seen are auxiliary.
NewTable == [id |-> DUMMY_ROUTING_TABLE_ID, epoch |-> 0, routes |-> NoRoutes,
             seen |-> {}]

\* request_all_routes, when a listener starts.
AskForAll(l) == [account |-> l, id |-> DUMMY_ROUTING_TABLE_ID, epoch |-> 0]

Init ==
  /\ id = 1 /\ updates = <<>> /\ history = <<NoRoutes>>
  /\ last_epoch_updates_sent_for = 0
  /\ unavailable = [l \in Listeners |-> Available]
  /\ broadcast = IdleBroadcast
  /\ table = [l \in Listeners |-> NewTable]
  /\ asking = {}
  /\ sent = {}
  /\ asked = {AskForAll(l) : l \in Listeners}
  /\ faults = 0

Fault == faults < MaxFaults /\ faults' = faults + 1

-----------------------------------------------------------------------------
(* The speaker *)

\* update_best_routes: some prefixes get a route through another account,
\* others have none any more.
Publish(t) ==
  /\ Epoch < MaxEpoch
  /\ Announced(t) \cap t.withdrawn = {}
  /\ \A p \in Announced(t) : t.new[p] # ForwardingTable[p]
  /\ updates' = Append(updates, t)
  /\ history' = Append(history, Apply(ForwardingTable, t))
  /\ UNCHANGED <<id, last_epoch_updates_sent_for, unavailable, broadcast,
                 listenerVars, sent, asked, faults>>

Skipped == {l \in Listeners : unavailable[l].skip_intervals > 0}

\* Mutant of CountDown: the interval counter is not saturating.
CountDown_Wraps(b) == [b EXCEPT !.skip_intervals = @ - 1]

CountDown(b) ==
  [b EXCEPT !.skip_intervals = IF @ > 0 THEN @ - 1 ELSE 0]

\* send_route_updates up to the store call.
PickAccounts ==
  /\ broadcast.pc = "idle"
  /\ broadcast' = [broadcast EXCEPT !.pc = "update",
                                    !.todo = Listeners \ Skipped]
  /\ unavailable' = [l \in Listeners |-> CountDown(unavailable[l])]
  /\ UNCHANGED <<id, updates, history, last_epoch_updates_sent_for,
                 listenerVars, sent, asked, faults>>

\* One update for everybody, from the epoch the last broadcast ended with.
CreateBroadcast ==
  /\ broadcast.pc = "update"
  /\ last_epoch_updates_sent_for' = Epoch
  /\ broadcast' =
       [broadcast EXCEPT !.pc = "send",
          !.update = CreateRouteUpdate(id, updates,
                       last_epoch_updates_sent_for, Epoch)]
  /\ UNCHANGED <<id, updates, history, unavailable, listenerVars, sent, asked,
                 faults>>

\* get_accounts_to_send_routes_to ends in an error: so does the broadcast.
PickAccountsFails ==
  /\ broadcast.pc = "update" /\ Fault
  /\ broadcast' = IdleBroadcast
  /\ UNCHANGED <<id, updates, history, last_epoch_updates_sent_for,
                 unavailable, listenerVars, sent, asked>>

\* The accounts are served one after the other, each awaited.
SendUpdate(l) ==
  /\ broadcast.pc = "send" /\ broadcast.waiting = {} /\ l \in broadcast.todo
  /\ Cardinality(sent) < MaxUnderway
  /\ sent' = sent \cup {[to |-> l, update |-> broadcast.update,
                         awaited |-> TRUE]}
  /\ broadcast' = [broadcast EXCEPT !.todo = @ \ {l}, !.waiting = {l}]
  /\ UNCHANGED <<id, updates, history, last_epoch_updates_sent_for,
                 unavailable, listenerVars, asked, faults>>

\* The backoff of an account after a broadcast: only children are backed off,
\* any success ends it.
Backoff(l) ==
  CASE l \in broadcast.ok -> Available
    [] l \in broadcast.failed \cap Children ->
         LET max == IF unavailable[l].max < MaxBackoff
                      THEN unavailable[l].max + 1 ELSE MaxBackoff
         IN [max |-> max, skip_intervals |-> max]
    [] OTHER -> unavailable[l]

FinishBroadcast ==
  /\ broadcast.pc = "send" /\ broadcast.todo = {} /\ broadcast.waiting = {}
  /\ unavailable' = [l \in Listeners |-> Backoff(l)]
  /\ broadcast' = IdleBroadcast
  /\ UNCHANGED <<id, updates, history, last_epoch_updates_sent_for,
                 listenerVars, sent, asked, faults>>

\* The first epoch a listener that asks for routes needs.
FirstEpoch(c) ==
  IF c.id # id THEN 0
  ELSE IF c.epoch < Epoch THEN c.epoch ELSE Epoch

\* handle_route_control_request and the send_route_update it spawns.
HandleRouteControlRequest(c) ==
  /\ c \in asked /\ Cardinality(sent) < MaxUnderway
  /\ asked' = asked \ {c}
  /\ unavailable' = [unavailable EXCEPT ![c.account] = Available]
  /\ sent' = sent \cup
       {[to |-> c.account, awaited |-> FALSE,
         update |-> CreateRouteUpdate(id, updates, FirstEpoch(c), Epoch)]}
  /\ UNCHANGED <<id, updates, history, last_epoch_updates_sent_for, broadcast,
                 listenerVars, faults>>

\* The speaker is started again: a new table, the old one is forgotten.
RestartSpeaker ==
  /\ Fault
  /\ id' = id + 1 /\ updates' = <<>> /\ history' = <<NoRoutes>>
  /\ last_epoch_updates_sent_for' = 0
  /\ unavailable' = [l \in Listeners |-> Available]
  /\ broadcast' = IdleBroadcast
  /\ sent' = {[m EXCEPT !.awaited = FALSE] : m \in sent}
  /\ UNCHANGED <<listenerVars, asked>>

-----------------------------------------------------------------------------
(* The listeners *)

\* The answer reaches a broadcast that still waits for it.
Answer(m, success) ==
  broadcast' =
    CASE ~m.awaited -> broadcast
      [] m.awaited /\ success ->
           [broadcast EXCEPT !.waiting = {}, !.ok = @ \cup {m.to}]
      [] OTHER -> [broadcast EXCEPT !.waiting = {}, !.failed = @ \cup {m.to}]

\* Mutant of RequestMissing: a gap is rejected and nothing more.
RequestMissing_Never(l, gap) == UNCHANGED asking

\* A gap makes the listener ask for the epochs it misses.
RequestMissing(l, gap) == asking' = IF gap THEN asking \cup {l} ELSE asking

\* handle_route_update_request.
HandleRouteUpdateRequest(m) ==
  LET l == m.to
      gap == IsGap(table[l], m.update)
  IN /\ m \in sent
     /\ sent' = sent \ {m}
     /\ table' = [table EXCEPT ![l] =
                    [HandleUpdateRequest(l, table[l], m.update) EXCEPT
                       !.seen = @ \cup {m.update.id}]]
     /\ RequestMissing(l, gap)
     /\ Answer(m, ~gap)
     /\ UNCHANGED <<id, updates, history, last_epoch_updates_sent_for,
                    unavailable, asked, faults>>

\* The handler has released the lock of the update.  It reads its table again,
\* which another update may have changed, and spawns send_route_control_request
\* with what it finds; from then on the request is underway.
SendRouteControlRequest(l) ==
  /\ l \in asking
  /\ asking' = asking \ {l}
  /\ asked' = asked \cup {[account |-> l, id |-> table[l].id,
                           epoch |-> table[l].epoch]}
  /\ UNCHANGED <<speakerVars, table, sent, faults>>

RestartListener(l) ==
  /\ Fault
  /\ table' = [table EXCEPT ![l] = NewTable]
  /\ asking' = asking \ {l}
  /\ asked' = asked \cup {AskForAll(l)}
  /\ UNCHANGED <<speakerVars, sent>>

-----------------------------------------------------------------------------
(* The network *)

\* A route update is lost, or its sender stops waiting while it is underway.
LoseUpdate(m, late) ==
  /\ m \in sent /\ Fault
  /\ late => m.awaited
  /\ sent' = (sent \ {m}) \cup (IF late THEN {[m EXCEPT !.awaited = FALSE]}
                                        ELSE {})
  /\ Answer(m, FALSE)
  /\ UNCHANGED <<id, updates, history, last_epoch_updates_sent_for,
                 unavailable, listenerVars, asked>>

LoseControl(c) ==
  /\ c \in asked /\ Fault
  /\ asked' = asked \ {c}
  /\ UNCHANGED <<speakerVars, listenerVars, sent>>

BroadcastStep ==
  \/ PickAccounts \/ CreateBroadcast \/ FinishBroadcast
  \/ \E l \in Listeners : SendUpdate(l)

\* A message to l that is, or is not, awaited by a broadcast.
Deliver(l, awaited) ==
  \E m \in sent : m.to = l /\ m.awaited = awaited /\ HandleRouteUpdateRequest(m)

Next ==
  \/ \E t \in Transition : Publish(t)
  \/ BroadcastStep
  \/ PickAccountsFails
  \/ \E c \in asked : HandleRouteControlRequest(c) \/ LoseControl(c)
  \/ \E l \in Listeners, awaited \in BOOLEAN : Deliver(l, awaited)
  \/ \E m \in sent, late \in BOOLEAN : LoseUpdate(m, late)
  \/ \E l \in Listeners : SendRouteControlRequest(l) \/ RestartListener(l)
  \/ RestartSpeaker

Spec == Init /\ [][Next]_vars

\* The interval keeps ticking, spawned tasks run, and a message that is not
\* lost arrives.
Fairness ==
  /\ WF_vars(BroadcastStep)
  /\ \A l \in Listeners :
       /\ WF_vars(SendRouteControlRequest(l))
       /\ \A awaited \in BOOLEAN : WF_vars(Deliver(l, awaited))
       /\ WF_vars(\E c \in asked : c.account = l
                                   /\ HandleRouteControlRequest(c))

FairSpec == Spec /\ Fairness

-----------------------------------------------------------------------------
(* Properties *)

\* Types.  The backoff counters are bytes that must neither wrap below zero
\* nor exceed their largest value, whatever the order of failed broadcasts and
\* control requests.
TypeOK ==
  /\ id \in Nat /\ last_epoch_updates_sent_for \in 0..Epoch
  /\ \A i \in DOMAIN updates : updates[i] \in Transition
  /\ history \in [1..Epoch + 1 -> Routes]
  /\ unavailable \in [Listeners -> [max : 0..MaxBackoff,
                                    skip_intervals : 0..MaxBackoff]]
  /\ \A l \in Listeners : /\ table[l].id \in Nat /\ table[l].epoch \in Nat
                          /\ table[l].routes \in Routes
  /\ asking \subseteq Listeners

\* Listener l believes to be at epoch e of the speaker's present table.
At(l, e) == table[l].id = id /\ table[l].epoch = e

Refused(l, path) == l \in path

\* A listener that is at an epoch of the speaker's table has every route the
\* speaker had at that epoch and the listener accepts: lost, late, repeated
\* and reordered updates never leave a hole behind an epoch number, nor do the
\* ranges merged into one update.
NoMissingRoutes ==
  \A l \in Listeners : \A e \in 1..Epoch : At(l, e) =>
    /\ table[l].routes[OwnPrefix] # NoRoute
    /\ \A p \in Learned :
         LET route == history[e + 1][p]
         IN route # NoRoute /\ ~Refused(l, route) => table[l].routes[p] = route

\* It has no route the speaker had withdrawn by then.
NoWithdrawnRoutes ==
  \A l \in Listeners : \A e \in 0..Epoch : At(l, e) =>
    \A p \in Learned : history[e + 1][p] = NoRoute
                          => table[l].routes[p] = NoRoute

\* The same for a listener that has known no other table of the speaker.
NoWithdrawnRoutesInOneTable ==
  \A l \in Listeners : table[l].seen = {id} => 
    \A e \in 0..Epoch : At(l, e) =>
      \A p \in Learned : history[e + 1][p] = NoRoute
                            => table[l].routes[p] = NoRoute

\* Once routes stop changing and messages get through, every listener catches
\* up with the last epoch and stays there, backed off or not.
EventuallyInSync == <>[](\A l \in Listeners : At(l, Epoch))
=============================================================================
