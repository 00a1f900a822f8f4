---------------------------- MODULE RoutingTable ----------------------------
(***************************************************************************)
(* The routing tables of the connector-to-connector protocol and what one  *)
(* route update does to them.  A route is its path, the set of nodes it    *)
(* goes through; a table keeps at most one route per prefix.               *)
(*                                                                         *)
(* An update carries, per prefix, the routes announced for it in order     *)
(* (the last one a receiver accepts is the one it keeps), and the prefixes *)
(* withdrawn.                                                              *)
(***************************************************************************)
EXTENDS Integers, Sequences

CONSTANTS Learned,    \* prefixes the speaker learns and withdraws
          OwnPrefix,   \* the speaker's own address
          Paths,       \* sets of nodes a route goes through
          NoRoute      \* no route for a prefix

ASSUME PrefixAssumption == OwnPrefix \notin Learned
ASSUME RouteAssumption == NoRoute \notin Paths /\ {} \in Paths

AllPrefixes == Learned \cup {OwnPrefix}
Routes == [AllPrefixes -> Paths \cup {NoRoute}]
NoRoutes == [p \in AllPrefixes |-> NoRoute]

\* The id every node starts with for a peer it has not heard of.
DUMMY_ROUTING_TABLE_ID == 0

\* One entry of forwarding_table_updates: the transition between two epochs.
\* No prefix is both announced and withdrawn.
Transition == [new : [Learned -> Paths \cup {NoRoute}],
               withdrawn : SUBSET Learned]

Announced(t) == {p \in Learned : t.new[p] # NoRoute}

\* The forwarding table after a transition.
Apply(routes, t) ==
  [p \in AllPrefixes |->
     CASE p \in t.withdrawn -> NoRoute
       [] p \in Announced(t) -> t.new[p]
       [] OTHER -> routes[p]]

-----------------------------------------------------------------------------
(* create_route_update *)

\* An update before any epoch is merged into it.  The first one brings the
\* speaker's own prefix.
EmptyUpdate(from) ==
  [new |-> [p \in AllPrefixes |-> IF from = 0 /\ p = OwnPrefix THEN <<{}>>
                                  ELSE <<>>],
   withdrawn |-> {}]

\* Mutant of Merge: a withdrawal leaves earlier announcements in the update.
Merge_KeepsWithdrawn(u, t) ==
  [new |-> [p \in AllPrefixes |->
              IF p \in Announced(t) THEN Append(u.new[p], t.new[p])
                                    ELSE u.new[p]],
   withdrawn |-> (u.withdrawn \ Announced(t)) \cup t.withdrawn]

\* A withdrawal cancels what was announced before it and the other way round.
Merge(u, t) ==
  [new |-> [p \in AllPrefixes |->
              CASE p \in t.withdrawn -> <<>>
                [] p \in Announced(t) -> Append(u.new[p], t.new[p])
                [] OTHER -> u.new[p]],
   withdrawn |-> (u.withdrawn \ Announced(t)) \cup t.withdrawn]

\* The update from one epoch to each later one.
MergedUpdates(updates, from, to) ==
  LET merged[e \in from..to] == IF e = from THEN EmptyUpdate(from)
                                            ELSE Merge(merged[e - 1], updates[e])
  IN merged

CreateRouteUpdate(id, updates, from, to) ==
  [id |-> id, from |-> from, to |-> to,
   routes |-> MergedUpdates(updates, from, to)[to]]

-----------------------------------------------------------------------------
(* The receiver *)

\* filter_routes: a node does not accept routes that go through itself.
FilterRoutes(node, paths) == {i \in DOMAIN paths : node \notin paths[i]}

\* Withdrawn prefixes are deleted first, then the accepted routes are added
\* one after the other, each replacing the one before.
AddRoutes(node, routes, update) ==
  [p \in AllPrefixes |->
     LET accepted == FilterRoutes(node, update.new[p])
         last     == CHOOSE i \in accepted : \A j \in accepted : j <= i
     IN CASE accepted # {} -> update.new[p][last]
          [] accepted = {} /\ p \in update.withdrawn -> NoRoute
          [] OTHER -> routes[p]]

\* Mutant of Gap: one missing epoch goes unnoticed.
Gap_OffByOne(epoch, u) == u.from > epoch + 1

\* The update starts after the last epoch the receiver knows.
Gap(epoch, u) == u.from > epoch

\* handle_update_request.  An update of another table starts that table at
\* epoch 0, with the routes of the old one; what is older than the table is
\* ignored.
HandleUpdateRequest(node, table, u) ==
  LET epoch == IF table.id = u.id THEN table.epoch ELSE 0
  IN CASE Gap(epoch, u) \/ u.to < epoch ->
            [table EXCEPT !.id = u.id, !.epoch = epoch]
       [] OTHER ->
            [table EXCEPT !.id = u.id, !.epoch = u.to,
                          !.routes = AddRoutes(node, @, u.routes)]

\* Whether the update is answered with an error.
IsGap(table, u) == Gap(IF table.id = u.id THEN table.epoch ELSE 0, u)
=============================================================================
