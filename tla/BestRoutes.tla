----------------------------- MODULE BestRoutes -----------------------------
(***************************************************************************)
(* How a CcpRouteManager turns the routes its peers offer into the routes  *)
(* it uses and announces: update_best_routes and                           *)
(* get_best_route_for_prefix over the incoming tables, the local table,    *)
(* the forwarding table and its log of updates, and the store.             *)
(*                                                                         *)
(* A route update of a peer spawns a task (the repository's tests await it *)
(* instead), the broadcast runs another.  A task awaits the store, reads   *)
(* the tables under read locks, changes them under write locks taken       *)
(* later, and hands the local table to the store after releasing them.     *)
(***************************************************************************)
EXTENDS RouteStore, Integers, Sequences, FiniteSets, Functions

CONSTANTS
  relation,     \* account -> 0 parent, 1 peer, 2 child
  id_order,     \* account -> its place in the order of account ids
  address,      \* account -> its ILP address, as a prefix
  Above,        \* prefix -> the prefixes it starts with, itself included
  length,       \* prefix -> its length
  Offered,      \* prefixes that peers announce
  Lengths,      \* account -> the lengths of the paths it announces
  StaticRoutes, \* the tables of static routes that the operator may set
  Advertisable, \* prefixes with the node's scheme, not below its own address
  Tasks,        \* update_best_routes of a route update or of the broadcast
  operator,     \* the HTTP API that sets static routes
  \* bounds on the environment
  MaxUpdates,   \* route updates of peers
  MaxDisturbances \* static routes changed, polls, and store calls that fail

Route == [prefix : Destinations, path : Nat]

ASSUME BestRoutesAssumption ==
  /\ Tasks \cup {operator, poller} \subseteq Callers
  /\ {operator, poller} \cap Tasks = {} /\ operator # poller
  /\ None \notin Accounts \cup Nat \cup [account : Accounts, route : Route]
  /\ IsFiniteSet(Destinations)
  /\ StaticRoutes \subseteq [Destinations -> Accounts \cup {None}]
  /\ address \in [Accounts -> Destinations] /\ Offered \subseteq Destinations
  /\ Above \in [Destinations -> SUBSET Destinations] /\ length \in [Destinations -> Nat]
  /\ \A p \in Destinations : p \in Above[p]
  /\ \A p \in Destinations : \A q \in Above[p] \ {p} : length[q] < length[p]
  /\ \A a, b \in Accounts : address[a] = address[b] => a = b
  /\ relation \in [Accounts -> 0..2] /\ id_order \in [Accounts -> Nat]
  /\ \A a, b \in Accounts : id_order[a] = id_order[b] => a = b
  /\ Lengths \in [Accounts -> SUBSET Nat] /\ {MaxUpdates, MaxDisturbances} \subseteq Nat

VARIABLES
  incoming,     \* account -> the table of the routes it offers
  local_table,
  forwarding_table,
  announced,    \* what forwarding_table_updates adds up to: prefix -> path, or None
  task,         \* task -> its program counter and locals
  excuse,       \* history: why the best route may not be in use
  updates, disturbances

tables == <<local_table, forwarding_table, announced>>
counters == <<updates, disturbances>>
vars == <<configured, incoming, local_table, forwarding_table, announced, stored,
          task, excuse, updates, disturbances, router, refresh, behind>>

Entry == [account : Accounts, route : Route]
Table == [Destinations -> Entry \cup {None}]

NoTask == [pc |-> "idle", prefixes |-> {}, configured |-> NoRoutes,
           better |-> NoRoutes, withdrawn |-> {}, table |-> NoRoutes]

\* get_local_and_configured_routes: every account's address is a local route.
local_routes == [p \in Destinations |->
  IF \E a \in Accounts : address[a] = p THEN CHOOSE a \in Accounts : address[a] = p
                                         ELSE None]

Live == {t \in Tasks : task[t].pc # "idle"}

Init ==
  /\ StoreInit
  /\ incoming = [a \in Accounts |-> NoRoutes]
  /\ local_table = NoRoutes
  /\ forwarding_table = NoRoutes
  /\ announced = NoRoutes
  /\ task = [t \in Tasks |-> NoTask]
  /\ excuse = {}
  /\ updates = 0 /\ disturbances = 0

-----------------------------------------------------------------------------
(* Looking routes up *)

\* PrefixMap::resolve: the entry with the longest matching prefix.
Resolve(table, p) ==
  LET matching == {q \in Above[p] : table[q] # None}
  IN IF matching = {} THEN None
     ELSE table[CHOOSE q \in matching : \A o \in matching : length[o] <= length[q]]

\* A route to the account itself.
DirectEntry(a) == [account |-> a, route |-> [prefix |-> address[a], path |-> 0]]

\* Mutant of Better: the longer path is taken.
Better_Longest(e, o) ==
  LET r == relation[e.account]
      s == relation[o.account]
  IN \/ r > s
     \/ r = s /\ e.route.path > o.route.path
     \/ r = s /\ e.route.path = o.route.path
          /\ id_order[e.account] < id_order[o.account]

\* Child before peer before parent, then the shorter path, then the account id.
Better(e, o) ==
  LET r == relation[e.account]
      s == relation[o.account]
  IN \/ r > s
     \/ r = s /\ e.route.path < o.route.path
     \/ r = s /\ e.route.path = o.route.path
          /\ id_order[e.account] < id_order[o.account]

\* get_best_route_for_prefix: a configured route for the prefix or a shorter
\* one, a local route, or the best one that is offered.
BestRoute(p, static) ==
  LET fixed    == Resolve(static, p)
      offers   == {Resolve(incoming[a], p) : a \in Accounts} \ {None}
  IN CASE fixed # None -> DirectEntry(fixed)
       [] fixed = None /\ local_routes[p] # None -> DirectEntry(local_routes[p])
       [] fixed = None /\ local_routes[p] = None /\ offers = {} -> None
       [] OTHER -> CHOOSE e \in offers : \A o \in offers \ {e} : Better(e, o)

-----------------------------------------------------------------------------
(* What starts a task *)

\* Tasks that run at the same time may apply what they read too late.
Spawn(t, prefixes) ==
  /\ task[t].pc = "idle" /\ refresh[t].pc = "idle"
  /\ task' = [task EXCEPT ![t] = [NoTask EXCEPT !.pc = "load", !.prefixes = prefixes]]

Overlap == IF Live = {} THEN {} ELSE {"overlap"}

\* The table of an account after an update: delete_route for the prefixes that
\* are gone, then add_route for the new routes.
Offer(a, gone, new, path) ==
  [incoming EXCEPT ![a] =
     [p \in Destinations |->
        CASE p \in new -> [account |-> a, route |-> [prefix |-> p, path |-> path]]
          [] p \in gone \ new -> None
          [] OTHER -> incoming[a][p]]]

\* A peer withdraws routes and announces others for new prefixes: the best
\* routes for all of them are looked for.
HandleUpdate(t, a, gone, new, path) ==
  /\ updates < MaxUpdates /\ gone \cup new # {}
  /\ \A p \in gone : incoming[a][p] # None
  /\ \A p \in new : incoming[a][p] = None
  /\ incoming' = Offer(a, gone, new, path)
  /\ updates' = updates + 1
  /\ excuse' = excuse \cup Overlap
  /\ Spawn(t, gone \cup new)
  /\ UNCHANGED <<configured, tables, stored, disturbances, refreshing>>

\* A peer announces another path for a prefix it has a route for: its table is
\* changed and nothing is recalculated.
Reannounce(a, p, path) ==
  /\ updates < MaxUpdates /\ incoming[a][p] # None
  /\ incoming[a][p].route.path # path
  /\ incoming' = Offer(a, {}, {p}, path)
  /\ updates' = updates + 1
  /\ excuse' = excuse \cup {"modified"}
  /\ UNCHANGED <<configured, tables, stored, task, disturbances, refreshing>>

\* broadcast_routes, one at a time: all configured and local prefixes are
\* checked.
BroadcastRoutes(t) ==
  /\ \A o \in Live : task[o].prefixes # {}
  /\ Spawn(t, {})
  /\ excuse' = excuse \cup Overlap
  /\ UNCHANGED <<configured, incoming, tables, stored, counters, refreshing>>

\* The operator changes the static routes.  The router has them at once, the
\* local table not before the next broadcast.
SetStatic(routes) ==
  /\ disturbances < MaxDisturbances
  /\ WriteStatic(operator, routes)
  /\ disturbances' = disturbances + 1
  /\ excuse' = excuse \cup {"static"}
  /\ UNCHANGED <<incoming, tables, task, updates>>

\* Steps of update_routes and of its poll loop.
RefreshRoutes(c) ==
  /\ LoadRoutes(c) \/ InstallRoutes(c)
  /\ UNCHANGED <<incoming, tables, task, excuse, counters>>

PollRoutes ==
  /\ Poll /\ disturbances < MaxDisturbances
  /\ disturbances' = disturbances + 1
  /\ UNCHANGED <<incoming, tables, task, excuse, updates>>

FailRefresh(c) ==
  /\ RefreshFails(c) /\ disturbances < MaxDisturbances
  /\ disturbances' = disturbances + 1
  /\ UNCHANGED <<incoming, tables, task, excuse, updates>>

-----------------------------------------------------------------------------
(* update_best_routes *)

\* The store's routes are read.
Load(t) ==
  /\ task[t].pc = "load"
  /\ task' = [task EXCEPT ![t].pc = "compute", ![t].configured = configured]
  /\ UNCHANGED <<configured, incoming, tables, stored, excuse, counters, refreshing>>

\* The store fails before it has changed anything; nobody looks at the error.
Fail(t) ==
  /\ task[t].pc \in {"load", "write"} /\ disturbances < MaxDisturbances
  /\ disturbances' = disturbances + 1
  /\ excuse' = excuse \cup {"failed"}
  /\ task' = [task EXCEPT ![t] = NoTask]
  /\ UNCHANGED <<configured, incoming, tables, stored, updates, refreshing>>

ToCheck(t) ==
  IF task[t].prefixes # {} THEN task[t].prefixes
  ELSE {p \in Destinations : task[t].configured[p] # None \/ local_routes[p] # None}

\* Under read locks: the prefixes with another best account, and those with no
\* route any more.
Compute(t) ==
  LET best(p)   == BestRoute(p, task[t].configured)
      used(p)   == Resolve(local_table, p)
      better    == [p \in Destinations |->
                      IF p \in ToCheck(t) /\ best(p) # None
                           /\ (used(p) = None \/ used(p).account # best(p).account)
                        THEN best(p) ELSE None]
      withdrawn == {p \in ToCheck(t) : best(p) = None}
  IN /\ task[t].pc = "compute"
     /\ task' = [task EXCEPT ![t] =
          IF better = NoRoutes /\ withdrawn = {} THEN NoTask
          ELSE [@ EXCEPT !.pc = "apply", !.better = better, !.withdrawn = withdrawn]]
     /\ UNCHANGED <<configured, incoming, tables, stored, excuse, counters, refreshing>>

\* Mutant of Extended: the first hop is taken out.
Extended_Pops(e) == [e EXCEPT !.route.path = @ - 1]

\* The route as it is announced, with the node's own address in the path.
Extended(e) == [e EXCEPT !.route.path = @ + 1]

\* Mutant of Announces: a prefix that was announced before is not announced again.
Announces_Once(table, p, e) ==
  e.route.prefix \in Advertisable /\ Resolve(table, p) = None

\* A better route is announced unless the forwarding table has one over the
\* same account, or its prefix is not the node's to announce.
Announces(table, p, e) ==
  LET old == Resolve(table, p)
  IN e.route.prefix \in Advertisable /\ (old = None \/ old.account # e.account)

\* A better route enters the forwarding table and the update, which has it
\* under the prefix it was offered for.
ForwardOne(f, p, e) ==
  IF Announces(f.table, p, e)
    THEN [table |-> [f.table EXCEPT ![p] = Extended(e)],
          new   |-> [f.new EXCEPT ![e.route.prefix] = Extended(e).route.path]]
    ELSE f

\* The better routes enter one by one.
Forward(better, order) ==
  LET first[i \in 0..Len(order)] ==
        IF i = 0 THEN [table |-> forwarding_table, new |-> NoRoutes]
                 ELSE ForwardOne(first[i - 1], order[i], better[order[i]])
  IN first[Len(order)]

\* The withdrawn prefixes leave a table.
Forgets(table, withdrawn) ==
  [p \in Destinations |-> IF p \in withdrawn THEN None ELSE table[p]]

\* Mutant of Told: the withdrawn prefixes are left out of the update.
Told_NewOnly(new, withdrawn) ==
  [p \in Destinations |-> IF new[p] # None THEN new[p] ELSE announced[p]]

\* What a listener has that applies the updates in order: the withdrawn
\* prefixes leave its table, then the new routes enter it.
Told(new, withdrawn) ==
  [p \in Destinations |-> CASE new[p] # None -> new[p]
                        [] new[p] = None /\ p \in withdrawn -> None
                        [] OTHER -> announced[p]]

\* Under write locks: both tables are changed, in the order in which the
\* routes were found, and the next epoch is logged.  The local table is copied
\* for the store.
Apply(t) ==
  LET better == task[t].better
      found  == {p \in Destinations : better[p] # None}
      set    == [p \in Destinations |-> IF p \in found THEN better[p] ELSE local_table[p]]
      table  == Forgets(set, task[t].withdrawn)
  IN \E order \in Bijection(1..Cardinality(found), found) :
       LET forward == Forward(better, order)
       IN /\ task[t].pc = "apply"
          /\ local_table' = table
          /\ forwarding_table' = Forgets(forward.table, task[t].withdrawn)
          /\ announced' = Told(forward.new, task[t].withdrawn)
          /\ task' = [task EXCEPT ![t] = [NoTask EXCEPT !.pc = "write", !.table = table,
                                                      !.prefixes = task[t].prefixes]]
          /\ UNCHANGED <<configured, incoming, stored, excuse, counters, refreshing>>

\* What the store keeps of a table.
AccountsOf(table) ==
  [p \in Destinations |-> IF table[p] = None THEN None ELSE table[p].account]

\* set_routes of the store, without any lock, replaces its routes by those of
\* the copy; Redis refuses to set no fields, and then drops the deletion with
\* it.
SetRoutes(t) ==
  /\ task[t].pc = "write" /\ task[t].table # NoRoutes
  /\ WriteRoutes(t, AccountsOf(task[t].table))
  /\ task' = [task EXCEPT ![t] = NoTask]
  /\ UNCHANGED <<incoming, tables, excuse, counters>>

SetNoRoutes(t) ==
  /\ task[t].pc = "write" /\ task[t].table = NoRoutes
  /\ excuse' = excuse \cup {"failed"}
  /\ task' = [task EXCEPT ![t] = NoTask]
  /\ UNCHANGED <<configured, incoming, tables, stored, counters, refreshing>>

-----------------------------------------------------------------------------

Step(t) == Load(t) \/ Compute(t) \/ Apply(t) \/ SetRoutes(t) \/ SetNoRoutes(t)

Next ==
  \/ \E t \in Tasks :
       \/ \E a \in Accounts, gone, new \in SUBSET Offered : \E path \in Lengths[a] :
            HandleUpdate(t, a, gone, new, path)
       \/ BroadcastRoutes(t)
       \/ Fail(t)
       \/ Step(t)
  \/ \E a \in Accounts, p \in Offered : \E path \in Lengths[a] : Reannounce(a, p, path)
  \/ \E routes \in StaticRoutes : SetStatic(routes)
  \/ \E c \in Callers : RefreshRoutes(c) \/ FailRefresh(c)
  \/ PollRoutes

Spec == Init /\ [][Next]_vars

-----------------------------------------------------------------------------
(* Properties *)

\* Every variable has its type.
TypeOK ==
  /\ StoreTypeOK
  /\ incoming \in [Accounts -> Table]
  /\ local_table \in Table /\ forwarding_table \in Table
  /\ announced \in [Destinations -> Nat \cup {None}]
  /\ task \in [Tasks -> [pc : {"idle", "load", "compute", "apply", "write"},
                         prefixes : SUBSET Destinations,
                         configured : [Destinations -> Accounts \cup {None}],
                         better : Table, withdrawn : SUBSET Destinations, table : Table]]
  /\ excuse \subseteq {"overlap", "modified", "static", "failed"}
  /\ updates \in 0..MaxUpdates /\ disturbances \in 0..MaxDisturbances

\* Whatever order the tasks apply their findings in, the forwarding table has
\* a route only where the local table has one, over the account that packets
\* take, unless that account's route is not the node's to announce.
ForwardsAsRouted ==
  \A p \in Destinations : forwarding_table[p] # None =>
    /\ local_table[p] # None
    /\ local_table[p].route.prefix \in Advertisable =>
         forwarding_table[p].account = local_table[p].account

\* A prefix that contains others and is contained in others.
Between(p) == Above[p] # {p} /\ \E q \in Destinations \ {p} : p \in Above[q]

\* The node has a route for every prefix it told its peers of and did not
\* withdraw, while no two tasks ran at the same time, no static route was
\* announced under its account's address and no task was lost.  A route is
\* announced under the prefix it was offered for, which may be shorter than the
\* one it was found for; when that prefix lies between others the node may have
\* used a route of a shorter one for it, which is gone.
AnnouncedIsRouted ==
  excuse \subseteq {"modified"} =>
    \A p \in Destinations : announced[p] # None /\ ~Between(p) =>
      Resolve(local_table, p) # None

AtRest == Live = {} /\ \A c \in Callers : refresh[c].pc = "idle"

\* Account a offers a route for p that no other account's offer beats: it has
\* the closest relation and then the shortest path.
Best(a, p) ==
  /\ incoming[a][p] # None
  /\ \A b \in Accounts : incoming[b][p] # None =>
       /\ relation[b] <= relation[a]
       /\ relation[b] = relation[a] =>
            incoming[a][p].route.path <= incoming[b][p].route.path

\* Entry e is the one to use for p: the best account's, or none when nobody
\* offers a route.
Chosen(e, p) ==
  IF \A a \in Accounts : incoming[a][p] = None THEN e = None
  ELSE e # None /\ Best(e.account, p)

\* Between updates the node uses the best account for a prefix that no other
\* prefix contains and that is not an account's own address.  A task that ran
\* at the same time as another, a path changed for a known prefix, a static
\* route or a store error excuses the node: the code then leaves an older
\* choice in place.
BestInUse ==
  Live = {} /\ excuse = {} =>
    \A p \in Destinations : Above[p] = {p} /\ local_routes[p] = None =>
      Chosen(local_table[p], p)

\* Between updates the router has what the store has: a call of update_routes
\* that ran alone has made good whatever calls before it failed, or read and
\* installed in different orders.  Then packets take the static routes and,
\* elsewhere, the accounts of the local table, unless two tasks could write
\* theirs in the other order or a write failed.
RouterHasTable ==
  AtRest /\ ~behind =>
    /\ router = RoutesInStore
    /\ excuse \cap {"overlap", "failed"} = {} =>
         \A p \in Destinations :
           router[p] = IF configured[p] # None THEN configured[p]
                       ELSE IF local_table[p] # None THEN local_table[p].account
                       ELSE None
=============================================================================
