----------------------------- MODULE RouteStore -----------------------------
(***************************************************************************)
(* The routes in the store and the copy of them that the router uses.      *)
(*                                                                         *)
(* Redis has the routes that set_routes wrote and the static routes of the *)
(* operator.  update_routes reads both and puts them into the router's     *)
(* table; it is called after every write and by a poll loop.  Its calls    *)
(* run at the same time, and what each reads it installs later.  (The      *)
(* default route is left out.)                                             *)
(***************************************************************************)
CONSTANTS
  Accounts,
  Destinations, \* prefixes of routes, the accounts' addresses among them
  Callers,      \* who may call update_routes, each once at a time
  poller,       \* the poll loop among them
  None

VARIABLES
  configured,   \* the static routes: prefix -> account, or None
  stored,       \* the other routes
  router,       \* the router's table
  refresh,      \* caller -> what its update_routes is about to do, and has read
  behind        \* history: a call failed or read while another had yet to
                \* install what it read, and no call has run alone since

refreshing == <<router, refresh, behind>>

NoRoutes == [p \in Destinations |-> None]

NoRefresh == [pc |-> "idle", routes |-> NoRoutes]

StoreInit ==
  /\ configured = NoRoutes
  /\ stored = NoRoutes
  /\ router = NoRoutes
  /\ refresh = [c \in Callers |-> NoRefresh]
  /\ behind = FALSE

\* A static route overwrites another one for the same prefix.
RoutesInStore ==
  [p \in Destinations |-> IF configured[p] # None THEN configured[p] ELSE stored[p]]

\* update_routes is called.
UpdateRoutes(c) ==
  /\ refresh[c].pc = "idle"
  /\ refresh' = [refresh EXCEPT ![c] = [NoRefresh EXCEPT !.pc = "load"]]
  /\ UNCHANGED <<router, behind>>

\* The next tick of the poll loop.
Poll ==
  /\ UpdateRoutes(poller)
  /\ UNCHANGED <<configured, stored>>

\* Both kinds of routes are read together.
LoadRoutes(c) ==
  /\ refresh[c].pc = "load"
  /\ refresh' = [refresh EXCEPT ![c] = [pc |-> "install", routes |-> RoutesInStore]]
  /\ behind' = \E o \in Callers \ {c} : refresh[o].pc = "install"
  /\ UNCHANGED <<configured, stored, router>>

\* What was read replaces the router's table.
InstallRoutes(c) ==
  /\ refresh[c].pc = "install"
  /\ router' = refresh[c].routes
  /\ refresh' = [refresh EXCEPT ![c] = NoRefresh]
  /\ UNCHANGED <<configured, stored, behind>>

\* The store cannot be read: the router keeps its table.
RefreshFails(c) ==
  /\ refresh[c].pc = "load"
  /\ refresh' = [refresh EXCEPT ![c] = NoRefresh]
  /\ behind' = TRUE
  /\ UNCHANGED <<configured, stored, router>>

\* Mutant of WriteStatic: the router has to wait for the next poll.
WriteStatic_NoRefresh(c, routes) ==
  /\ routes # NoRoutes /\ routes # configured
  /\ configured' = routes
  /\ UNCHANGED <<stored, refreshing>>

\* The static routes are written: one is added to them (set_static_route) or
\* all are replaced (set_static_routes).  Redis refuses to replace them by none.
WriteStatic(c, routes) ==
  /\ routes # NoRoutes /\ routes # configured
  /\ configured' = routes
  /\ UpdateRoutes(c)
  /\ UNCHANGED stored

\* The other routes are replaced.
WriteRoutes(c, routes) ==
  /\ stored' = routes
  /\ UpdateRoutes(c)
  /\ UNCHANGED configured

StoreTypeOK ==
  /\ {configured, stored, router} \subseteq [Destinations -> Accounts \cup {None}]
  /\ refresh \in [Callers -> [pc : {"idle", "load", "install"},
                              routes : [Destinations -> Accounts \cup {None}]]]
  /\ behind \in BOOLEAN
=============================================================================
