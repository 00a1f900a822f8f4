-------------------------- MODULE BestRoutesProofs --------------------------
(***************************************************************************)
(* Proofs about BestRoutes: every variable keeps its type, the forwarding  *)
(* table follows the local table, what was announced is routed, the best   *)
(* account is in use, and the router has the table, for every set of       *)
(* accounts, prefixes and tasks.                                           *)
(***************************************************************************)
EXTENDS BestRoutes, SumTheorems

-----------------------------------------------------------------------------
(* Looking routes up *)

\* No entry, account or number is None.
LEMMA NoneIsNone == None \notin Accounts /\ None \notin Nat /\ None \notin Entry
BY BestRoutesAssumption DEF Entry

\* The prefixes above one.
LEMMA AboveType ==
  ASSUME NEW p \in Destinations
  PROVE  /\ Above[p] \subseteq Destinations /\ p \in Above[p] /\ length[p] \in Nat
         /\ \A q \in Above[p] : length[q] \in Nat /\ length[q] <= length[p]
         /\ \A q \in Above[p] : length[p] <= length[q] => q = p
<1>1. /\ Above \in [Destinations -> SUBSET Destinations] /\ length \in [Destinations -> Nat]
      /\ p \in Above[p] /\ \A q \in Above[p] \ {p} : length[q] < length[p]
  BY BestRoutesAssumption
<1> QED BY <1>1

\* The entry that is found is that of a prefix above, and there is one whenever
\* such a prefix has one; the prefix itself comes first.
LEMMA ResolveFinds ==
  ASSUME NEW table, NEW p \in Destinations
  PROVE  /\ \/ Resolve(table, p) = None /\ \A q \in Above[p] : table[q] = None
            \/ \E q \in Above[p] : table[q] # None /\ Resolve(table, p) = table[q]
         /\ table[p] # None => Resolve(table, p) = table[p]
<1> DEFINE M == {q \in Above[p] : table[q] # None}
           q0 == CHOOSE q \in M : \A o \in M : length[o] <= length[q]
<1>1. Resolve(table, p) = IF M = {} THEN None ELSE table[q0]
  BY Zenon DEF Resolve
<1>2. ASSUME M # {} PROVE q0 \in M /\ \A o \in M : length[o] <= length[q0]
  <2> DEFINE C == {length[q] : q \in M}
  <2>1. C \subseteq 0..length[p] /\ C # {} /\ length[p] \in Nat
    BY <1>2, AboveType
  <2>2. PICK c \in C : \A k \in C : k <= c
    <3> HIDE DEF C
    <3>1. PICK n \in Nat : n = length[p]
      BY <2>1
    <3> QED BY <2>1, <3>1, Greatest
  <2>3. PICK q \in M : length[q] = c
    BY <2>2
  <2>4. \A o \in M : length[o] <= length[q]
    BY <2>2, <2>3
  <2> HIDE DEF M
  <2> QED BY <2>4
<1>3. ASSUME table[p] # None PROVE M # {} /\ q0 = p
  <2>1. p \in M
    BY <1>3, AboveType
  <2>2. q0 \in M /\ length[p] <= length[q0]
    BY <1>2, <2>1
  <2>3. q0 \in Above[p]
    BY <2>2
  <2> HIDE DEF q0, M
  <2> QED BY <2>1, <2>2, <2>3, AboveType
<1>4. CASE M = {}
  <2>1. Resolve(table, p) = None /\ \A q \in Above[p] : table[q] = None
    BY <1>1, <1>4
  <2> QED BY <2>1, AboveType
<1>5. CASE M # {}
  <2>1. q0 \in M /\ Resolve(table, p) = table[q0]
    BY <1>1, <1>2, <1>5
  <2>2. q0 \in Above[p] /\ table[q0] # None
    BY <2>1
  <2> HIDE DEF q0, M
  <2> QED BY <1>3, <2>1, <2>2
<1> QED BY <1>4, <1>5

\* A prefix that no other contains has its own entry.
LEMMA ResolveOutermost ==
  ASSUME NEW table, NEW p \in Destinations, Above[p] = {p}
  PROVE  Resolve(table, p) = table[p]
<1>1. /\ \/ Resolve(table, p) = None /\ \A q \in Above[p] : table[q] = None
         \/ \E q \in Above[p] : table[q] # None /\ Resolve(table, p) = table[q]
  BY ResolveFinds
<1> QED BY <1>1

\* What is found in a table has the type of its entries.
LEMMA ResolveType ==
  ASSUME NEW S, NEW table \in [Destinations -> S \cup {None}], NEW p \in Destinations
  PROVE  Resolve(table, p) \in S \cup {None}
<1>1. \/ Resolve(table, p) = None
      \/ \E q \in Above[p] : Resolve(table, p) = table[q]
  BY ResolveFinds
<1>2. CASE \E q \in Above[p] : Resolve(table, p) = table[q]
  <2>1. PICK q \in Above[p] : Resolve(table, p) = table[q]
    BY <1>2
  <2>2. q \in Destinations
    BY AboveType
  <2> QED BY <2>1, <2>2
<1> QED BY <1>1, <1>2

\* The account with an address is the one local route for it.
LEMMA LocalRoute ==
  ASSUME NEW p \in Destinations
  PROVE  /\ local_routes[p] \in Accounts \cup {None}
         /\ local_routes[p] # None => address[local_routes[p]] = p
<1>1. local_routes[p] = IF \E a \in Accounts : address[a] = p
                          THEN CHOOSE a \in Accounts : address[a] = p ELSE None
  BY Zenon DEF local_routes
<1> QED BY <1>1

\* A direct entry is an entry.
LEMMA DirectType ==
  ASSUME NEW a \in Accounts
  PROVE  /\ DirectEntry(a) \in Entry /\ DirectEntry(a) # None
         /\ DirectEntry(a).account = a /\ DirectEntry(a).route.prefix = address[a]
<1>1. address[a] \in Destinations
  BY BestRoutesAssumption
<1>2. PICK r : r = [prefix |-> address[a], path |-> 0]
  OBVIOUS
<1>3. r \in Route /\ r.prefix = address[a]
  BY <1>1, <1>2 DEF Route
<1>4. DirectEntry(a) = [account |-> a, route |-> r]
  BY <1>2 DEF DirectEntry
<1>5. DirectEntry(a) \in Entry
  BY <1>3, <1>4 DEF Entry
<1> QED BY <1>3, <1>4, <1>5, NoneIsNone

\* An entry and what it is compared by.
LEMMA EntryType ==
  ASSUME NEW e \in Entry
  PROVE  /\ e.account \in Accounts /\ e.route \in Route /\ e.route.path \in Nat
         /\ e.route.prefix \in Destinations
         /\ relation[e.account] \in 0..2 /\ id_order[e.account] \in Nat
<1>1. e.account \in Accounts /\ e.route \in Route
  BY DEF Entry
<1>2. e.route.path \in Nat /\ e.route.prefix \in Destinations
  BY <1>1 DEF Route
<1> QED BY <1>1, <1>2, BestRoutesAssumption

\* Among entries of different accounts one is better than all others.
LEMMA BestExists ==
  ASSUME NEW O, O \subseteq Entry, O # {},
         \A d, e \in O : d.account = e.account => d = e
  PROVE  \E e \in O : \A o \in O \ {e} : Better(e, o)
<1> DEFINE rel(e) == relation[e.account]
           R == {rel(e) : e \in O}
<1>1. \A e \in O : rel(e) \in 0..2 /\ e.route.path \in Nat /\ id_order[e.account] \in Nat
                   /\ e.account \in Accounts
  BY EntryType
<1>2. PICK r \in R : \A k \in R : k <= r
  <2>1. R \subseteq 0..2 /\ R # {}
    BY <1>1
  <2>2. PICK n \in Nat : n = 2
    OBVIOUS
  <2> HIDE DEF R
  <2> QED BY <2>1, <2>2, Greatest
<1> DEFINE O1 == {e \in O : rel(e) = r}
           P == {e.route.path : e \in O1}
<1>3. PICK m \in P : \A k \in P : m <= k
  <2>1. P \subseteq Nat /\ P # {}
    BY <1>1, <1>2
  <2> HIDE DEF P
  <2> QED BY <2>1, Least
<1> DEFINE O2 == {e \in O1 : e.route.path = m}
           I == {id_order[e.account] : e \in O2}
<1>4. PICK i \in I : \A k \in I : i <= k
  <2>1. I \subseteq Nat /\ I # {}
    BY <1>1, <1>3
  <2> HIDE DEF I
  <2> QED BY <2>1, Least
<1>5. PICK e \in O : rel(e) = r /\ e.route.path = m /\ id_order[e.account] = i
  BY <1>4
<1>6. ASSUME NEW o \in O \ {e} PROVE Better(e, o)
  <2>1. rel(o) <= r /\ rel(o) \in 0..2 /\ r \in 0..2
    BY <1>1, <1>2
  <2>2. rel(o) = r => m <= o.route.path
    BY <1>3
  <2>3. rel(o) = r /\ o.route.path = m => i <= id_order[o.account]
    BY <1>4
  <2>4. id_order[o.account] # id_order[e.account]
    <3>1. o.account # e.account /\ o.account \in Accounts /\ e.account \in Accounts
      BY <1>1, <1>6
    <3> QED BY <3>1, BestRoutesAssumption
  <2>5. /\ m \in Nat /\ o.route.path \in Nat /\ i \in Nat /\ id_order[o.account] \in Nat
    BY <1>1, <1>5
  <2>6. \/ r > rel(o)
        \/ r = rel(o) /\ m < o.route.path
        \/ r = rel(o) /\ m = o.route.path /\ i < id_order[o.account]
    <3> HIDE DEF R, P, I, O1, O2, rel
    <3> QED BY <1>5, <2>1, <2>2, <2>3, <2>4, <2>5
  <2> QED BY <1>5, <2>6 DEF Better
<1> HIDE DEF R, P, I, O1, O2, rel
<1> QED BY <1>6

-----------------------------------------------------------------------------
(* The best route *)

\* What the peers offer is kept under its account and prefix.
OffersOK ==
  \A a \in Accounts, p \in Destinations : incoming[a][p] # None =>
    incoming[a][p].account = a /\ incoming[a][p].route.prefix = p

OfferedBy(a, p) == incoming[a][p] # None
IsOffered(p) == \E a \in Accounts : OfferedBy(a, p)

OffersFor(p) == {Resolve(incoming[a], p) : a \in Accounts} \ {None}

\* The offers for a prefix are entries of different accounts, each for a prefix
\* above it.
LEMMA OffersType ==
  ASSUME incoming \in [Accounts -> Table], OffersOK, NEW p \in Destinations
  PROVE  /\ OffersFor(p) \subseteq Entry
         /\ \A e \in OffersFor(p) : \E q \in Above[p] :
              q \in Destinations /\ incoming[e.account][q] = e /\ e.route.prefix = q
         /\ \A d, e \in OffersFor(p) : d.account = e.account => d = e
         /\ \A e \in OffersFor(p) : e = Resolve(incoming[e.account], p)
<1>1. ASSUME NEW e \in OffersFor(p)
      PROVE  /\ e \in Entry /\ e = Resolve(incoming[e.account], p)
             /\ \E q \in Above[p] : q \in Destinations /\ incoming[e.account][q] = e
                                    /\ e.route.prefix = q
  <2>1. PICK a \in Accounts : e = Resolve(incoming[a], p) /\ e # None
    BY <1>1 DEF OffersFor
  <2>2. PICK q \in Above[p] : incoming[a][q] # None /\ e = incoming[a][q]
    BY <2>1, ResolveFinds
  <2>3. q \in Destinations
    BY AboveType
  <2>4. e.account = a /\ e.route.prefix = q
    BY <2>2, <2>3 DEF OffersOK
  <2>5. incoming[a] \in Table
    OBVIOUS
  <2>6. e \in Entry
    BY <2>1, <2>2, <2>3, <2>5 DEF Table
  <2> QED BY <2>1, <2>2, <2>3, <2>4, <2>6
<1> QED BY <1>1

\* With no static route the best route is the local one or one of the offers
\* that is better than all others.
LEMMA BestRouteIs ==
  ASSUME incoming \in [Accounts -> Table], OffersOK, NEW p \in Destinations,
         NEW static \in [Destinations -> Accounts \cup {None}]
  PROVE  \/ \E a \in Accounts : BestRoute(p, static) = DirectEntry(a)
                                /\ (address[a] = p \/ \E q \in Destinations : static[q] # None)
                                /\ (local_routes[p] # None \/ \E q \in Destinations : static[q] # None)
         \/ BestRoute(p, static) = None /\ OffersFor(p) = {} /\ local_routes[p] = None
         \/ /\ BestRoute(p, static) \in OffersFor(p)
            /\ \A o \in OffersFor(p) \ {BestRoute(p, static)} : Better(BestRoute(p, static), o)
<1> DEFINE fixed == Resolve(static, p)
           O == OffersFor(p)
           best == CHOOSE e \in O : \A o \in O \ {e} : Better(e, o)
<1>1. BestRoute(p, static) =
        CASE fixed # None -> DirectEntry(fixed)
          [] fixed = None /\ local_routes[p] # None -> DirectEntry(local_routes[p])
          [] fixed = None /\ local_routes[p] = None /\ O = {} -> None
          [] OTHER -> best
  BY Zenon DEF BestRoute, OffersFor
<1>2. fixed \in Accounts \cup {None} /\ local_routes[p] \in Accounts \cup {None}
  BY ResolveType, LocalRoute
<1>3. CASE fixed # None
  <2>1. BestRoute(p, static) = DirectEntry(fixed) /\ fixed \in Accounts
    BY <1>1, <1>2, <1>3
  <2>2. \E q \in Destinations : static[q] # None
    BY <1>3, ResolveFinds, AboveType
  <2> HIDE DEF fixed
  <2> QED BY <2>1, <2>2
<1>4. CASE fixed = None /\ local_routes[p] # None
  <2>1. BestRoute(p, static) = DirectEntry(local_routes[p]) /\ local_routes[p] \in Accounts
        /\ address[local_routes[p]] = p
    BY <1>1, <1>2, <1>4, LocalRoute
  <2> QED BY <1>4, <2>1
<1>5. CASE fixed = None /\ local_routes[p] = None /\ O = {}
  BY <1>1, <1>5
<1>6. CASE fixed = None /\ local_routes[p] = None /\ O # {}
  <2>1. BestRoute(p, static) = best
    BY <1>1, <1>6
  <2>2. \E e \in O : \A o \in O \ {e} : Better(e, o)
    <3>1. O \subseteq Entry /\ \A d, e \in O : d.account = e.account => d = e
      BY OffersType
    <3> HIDE DEF O
    <3> QED BY <1>6, <3>1, BestExists
  <2>3. best \in O /\ \A o \in O \ {best} : Better(best, o)
    <3> HIDE DEF O
    <3> QED BY <2>2
  <2> QED BY <2>1, <2>3
<1> QED BY <1>3, <1>4, <1>5, <1>6

\* The best route is an entry, or there is none and nobody offers one.
LEMMA BestType ==
  ASSUME incoming \in [Accounts -> Table], OffersOK, NEW p \in Destinations,
         NEW static \in [Destinations -> Accounts \cup {None}],
         NEW b, b = BestRoute(p, static)
  PROVE  b \in Entry \cup {None} /\ (b = None => ~IsOffered(p))
<1>1. CASE \E a \in Accounts : b = DirectEntry(a)
  BY <1>1, DirectType
<1>2. CASE b = None /\ OffersFor(p) = {}
  <2>1. ASSUME NEW a \in Accounts PROVE ~OfferedBy(a, p)
    <3>1. Resolve(incoming[a], p) = None
      BY <1>2 DEF OffersFor
    <3>2. incoming[a][p] # None => Resolve(incoming[a], p) = incoming[a][p]
      BY ResolveFinds
    <3> QED BY <3>1, <3>2 DEF OfferedBy
  <2> QED BY <1>2, <2>1 DEF IsOffered
<1>3. CASE b \in OffersFor(p)
  <2>1. b \in Entry
    BY <1>3, OffersType
  <2> QED BY <2>1, NoneIsNone
<1> QED BY <1>1, <1>2, <1>3, BestRouteIs

\* Without static routes its own prefix is the one asked for, or one above it
\* that somebody offers.
LEMMA BestFound ==
  ASSUME incoming \in [Accounts -> Table], OffersOK, NEW p \in Destinations,
         NEW static \in [Destinations -> Accounts \cup {None}],
         \A q \in Destinations : static[q] = None,
         NEW b, b = BestRoute(p, static), b # None
  PROVE  b.route.prefix \in Above[p] /\ (b.route.prefix = p \/ IsOffered(b.route.prefix))
<1>1. CASE \E a \in Accounts : b = DirectEntry(a) /\ address[a] = p
  BY <1>1, DirectType, AboveType
<1>2. CASE b \in OffersFor(p)
  <2>1. PICK q \in Above[p] : q \in Destinations /\ incoming[b.account][q] = b
                              /\ b.route.prefix = q
    BY <1>2, OffersType
  <2>2. b.account \in Accounts
    BY <1>2, OffersType, EntryType
  <2> QED BY <2>1, <2>2 DEF IsOffered, OfferedBy
<1> QED BY <1>1, <1>2, BestRouteIs

\* For a prefix that no other contains and that is no account's address it is
\* that of an account which no other beats.
LEMMA BestChosen ==
  ASSUME incoming \in [Accounts -> Table], OffersOK, NEW p \in Destinations,
         NEW static \in [Destinations -> Accounts \cup {None}],
         \A q \in Destinations : static[q] = None,
         Above[p] = {p}, local_routes[p] = None,
         NEW b, b = BestRoute(p, static)
  PROVE  Chosen(b, p)
<1>1. CASE b = None
  <2>1. ~IsOffered(p)
    BY <1>1, BestType
  <2>2. \A a \in Accounts : incoming[a][p] = None
    BY <2>1 DEF IsOffered, OfferedBy
  <2> QED BY <1>1, <2>2 DEF Chosen
<1>2. CASE b # None
  <2>1. b \in OffersFor(p) /\ \A o \in OffersFor(p) \ {b} : Better(b, o)
    BY <1>2, BestRouteIs
  <2>2. PICK a \in Accounts : a = b.account
    BY <2>1, OffersType, EntryType
  <2>3. b = incoming[a][p] /\ b \in Entry
    BY <2>1, <2>2, OffersType, ResolveOutermost
  <2>4. ASSUME NEW c \in Accounts, incoming[c][p] # None
        PROVE  /\ relation[c] <= relation[a]
               /\ relation[c] = relation[a] =>
                    incoming[a][p].route.path <= incoming[c][p].route.path
    <3>1. PICK o : o = incoming[c][p]
      OBVIOUS
    <3>2. o \in OffersFor(p)
      BY <2>4, <3>1, ResolveOutermost DEF OffersFor
    <3>3. o.account = c /\ o \in Entry
      BY <2>4, <3>1, <3>2, OffersType DEF OffersOK
    <3>4. relation[c] \in 0..2 /\ relation[a] \in 0..2 /\ o.route.path \in Nat /\ b.route.path \in Nat
      BY <2>2, <2>3, <3>3, EntryType
    <3>5. CASE o = b
      BY <2>2, <2>3, <3>1, <3>3, <3>4, <3>5
    <3>6. CASE o # b
      <4>1. Better(b, o)
        BY <2>1, <3>2, <3>6
      <4>2. \/ relation[a] > relation[c]
            \/ relation[a] = relation[c] /\ b.route.path <= o.route.path
        BY <2>2, <3>3, <3>4, <4>1 DEF Better
      <4> QED BY <2>3, <3>1, <3>4, <4>2
    <3> QED BY <3>5, <3>6
  <2>5. Best(b.account, p)
    BY <1>2, <2>2, <2>3, <2>4 DEF Best
  <2>6. ~ \A c \in Accounts : incoming[c][p] = None
    BY <1>2, <2>3
  <2> QED BY <1>2, <2>5, <2>6 DEF Chosen
<1> QED BY <1>1, <1>2

-----------------------------------------------------------------------------
(* The forwarding table *)

Updated == [table : Table, new : [Destinations -> Nat \cup {None}]]
Start == [table |-> forwarding_table, new |-> NoRoutes]

\* A function that lists the tables as the better routes enter, up to the n-th.
Steps(g, better, order, n) ==
  g = [i \in 0..n |-> IF i = 0 THEN Start ELSE ForwardOne(g[i - 1], order[i], better[order[i]])]

\* There is one for every number of routes.
LEMMA StepsExist ==
  ASSUME NEW better, NEW order, NEW n \in Nat
  PROVE  \E g : Steps(g, better, order, n)
<1> DEFINE C == {k \in 0..n : ~ \E g : Steps(g, better, order, k)}
<1>1. SUFFICES ASSUME C # {} PROVE FALSE
  <2>1. n \in 0..n
    OBVIOUS
  <2> QED BY <2>1
<1>2. PICK m \in C : \A k \in C : m <= k
  <2>1. C \subseteq Nat
    OBVIOUS
  <2> HIDE DEF C
  <2> QED BY <1>1, <2>1, Least
<1>3. m \in Nat /\ m <= n /\ ~ \E g : Steps(g, better, order, m)
  OBVIOUS
<1>4. CASE m = 0
  <2> DEFINE g == [i \in 0..m |-> Start]
  <2>1. \A i \in 0..m : i = 0
    BY <1>4
  <2>2. g = [i \in 0..m |-> IF i = 0 THEN Start
                            ELSE ForwardOne(g[i - 1], order[i], better[order[i]])]
    BY <2>1
  <2> HIDE DEF g
  <2>3. Steps(g, better, order, m)
    BY <2>2 DEF Steps
  <2> QED BY <1>3, <2>3
<1>5. CASE m # 0
  <2>1. m - 1 \in 0..n /\ m - 1 \notin C
    BY <1>2, <1>3, <1>5
  <2>2. PICK g : Steps(g, better, order, m - 1)
    BY <2>1
  <2>3. \A i \in 0..(m - 1) :
          g[i] = IF i = 0 THEN Start ELSE ForwardOne(g[i - 1], order[i], better[order[i]])
    BY <2>2 DEF Steps
  <2> DEFINE h == [i \in 0..m |-> IF i = m THEN ForwardOne(g[m - 1], order[m], better[order[m]])
                                  ELSE g[i]]
  <2>4. ASSUME NEW i \in 0..m
        PROVE  h[i] = IF i = 0 THEN Start ELSE ForwardOne(h[i - 1], order[i], better[order[i]])
    <3>1. CASE i = m
      <4>1. m - 1 \in 0..m /\ m - 1 # m
        BY <1>3, <1>5
      <4>2. h[m - 1] = g[m - 1]
        BY <4>1
      <4> QED BY <1>5, <3>1, <4>2
    <3>2. CASE i # m
      <4>1. i \in 0..(m - 1) /\ h[i] = g[i]
        BY <1>3, <3>2
      <4>2. i # 0 => h[i - 1] = g[i - 1]
        <5>1. i # 0 => i - 1 \in 0..m /\ i - 1 # m
          BY <1>3
        <5> QED BY <5>1
      <4>3. g[i] = IF i = 0 THEN Start ELSE ForwardOne(g[i - 1], order[i], better[order[i]])
        BY <2>3, <4>1
      <4> HIDE DEF h
      <4> QED BY <4>1, <4>2, <4>3
    <3> QED BY <3>1, <3>2
  <2>5. h = [i \in 0..m |-> h[i]]
    OBVIOUS
  <2> HIDE DEF h
  <2>6. Steps(h, better, order, m)
    BY <2>4, <2>5 DEF Steps
  <2> QED BY <1>3, <2>6
<1> QED BY <1>4, <1>5

\* The recursive definition of Forward holds.
LEMMA ForwardEquation ==
  ASSUME NEW better, NEW order, NEW n \in Nat, Len(order) = n
  PROVE  \E g : Steps(g, better, order, n) /\ Forward(better, order) = g[n]
<1>1. PICK f : Steps(f, better, order, n)
  BY StepsExist
<1> DEFINE S(h) == h = [i \in 0..Len(order) |->
                          IF i = 0 THEN [table |-> forwarding_table, new |-> NoRoutes]
                          ELSE ForwardOne(h[i - 1], order[i], better[order[i]])]
           g == CHOOSE h : S(h)
<1>2. S(f)
  BY <1>1 DEF Steps, Start
<1>3. Forward(better, order) = g[Len(order)]
  BY DEF Forward
<1>4. S(g)
  <2> HIDE DEF S
  <2> QED BY <1>2
<1>5. Steps(g, better, order, n)
  BY <1>4 DEF Steps, Start
<1> HIDE DEF g
<1> QED BY <1>3, <1>5

\* The prefixes that have a better route.
FoundIn(better, found) ==
  better \in Table /\ found \subseteq Destinations /\ \A p \in found : better[p] # None

\* Only the entry of p differs.
Apart(f, h, p) == \A q \in Destinations \ {p} : h.table[q] = f.table[q]

\* What the tables have after some of the better routes have entered: every
\* entry is the old one or that of a better route, and only the prefixes of
\* better routes are announced.
Entered(f, better, found) ==
  /\ f \in Updated
  /\ \A p \in Destinations : \/ f.table[p] = forwarding_table[p]
                             \/ p \in found /\ f.table[p] = Extended(better[p])
  /\ \A q \in Destinations : f.new[q] # None => \E p \in found : better[p].route.prefix = q

\* The entry of p agrees with route e, unless e is not announced.
Agrees(f, p, e) ==
  f.table[p] # None /\ e.route.prefix \in Advertisable => f.table[p].account = e.account

\* The route as it is announced.
LEMMA ExtendedType ==
  ASSUME NEW e \in Entry
  PROVE  /\ Extended(e) \in Entry /\ Extended(e).account = e.account
         /\ Extended(e).route.path \in Nat
<1>1. e.account \in Accounts /\ e.route \in Route /\ e.route.path \in Nat
  BY EntryType
<1>2. PICK r : r = [e.route EXCEPT !.path = e.route.path + 1]
  OBVIOUS
<1>3. r \in Route /\ r.path \in Nat
  BY <1>1, <1>2 DEF Route
<1>4. Extended(e) = [e EXCEPT !.route = r]
  BY <1>2 DEF Extended, Entry
<1> QED BY <1>1, <1>3, <1>4 DEF Entry

\* One more route enters.
LEMMA EnterOne ==
  ASSUME NEW better, NEW found, FoundIn(better, found),
         NEW f, Entered(f, better, found), NEW p \in found, NEW e, e = better[p],
         NEW h, h = ForwardOne(f, p, e)
  PROVE  Entered(h, better, found) /\ Agrees(h, p, e) /\ Apart(f, h, p)
<1>1. e \in Entry /\ p \in Destinations
  BY DEF Table, FoundIn
<1>2. Extended(e) \in Entry /\ Extended(e).account = e.account /\ Extended(e).route.path \in Nat
      /\ e.route.prefix \in Destinations
  BY <1>1, ExtendedType, EntryType
<1>3. f \in Updated /\ f.table \in Table /\ f.new \in [Destinations -> Nat \cup {None}]
  BY DEF Entered, Updated
<1>4. CASE Announces(f.table, p, e)
  <2>1. PICK tb, nw : /\ tb = [f.table EXCEPT ![p] = Extended(e)]
                      /\ nw = [f.new EXCEPT ![e.route.prefix] = Extended(e).route.path]
    OBVIOUS
  <2>2. h = [table |-> tb, new |-> nw]
    BY <1>4, <2>1 DEF ForwardOne
  <2>3. tb \in Table /\ nw \in [Destinations -> Nat \cup {None}]
    BY <1>1, <1>2, <1>3, <2>1 DEF Table
  <2>4. h \in Updated /\ h.table = tb /\ h.new = nw
    BY <2>2, <2>3 DEF Updated
  <2>5. /\ tb[p] = Extended(e) /\ \A q \in Destinations \ {p} : tb[q] = f.table[q]
        /\ \A q \in Destinations : nw[q] # None => q = e.route.prefix \/ f.new[q] # None
    BY <1>1, <1>2, <1>3, <2>1 DEF Table
  <2>6. \A q \in Destinations : \/ h.table[q] = forwarding_table[q]
                                \/ q \in found /\ h.table[q] = Extended(better[q])
    BY <2>4, <2>5 DEF Entered
  <2>7. \A q \in Destinations : h.new[q] # None => \E r \in found : better[r].route.prefix = q
    BY <2>4, <2>5 DEF Entered
  <2>8. Agrees(h, p, e)
    BY <1>2, <2>4, <2>5 DEF Agrees
  <2> QED BY <2>4, <2>5, <2>6, <2>7, <2>8 DEF Entered, Apart
<1>5. CASE ~Announces(f.table, p, e)
  <2>1. h = f
    BY <1>5 DEF ForwardOne
  <2>2. Agrees(h, p, e)
    <3>1. f.table[p] # None => Resolve(f.table, p) = f.table[p]
      BY <1>1, ResolveFinds
    <3> QED BY <1>5, <2>1, <3>1 DEF Agrees, Announces
  <2> QED BY <2>1, <2>2 DEF Apart
<1> QED BY <1>4, <1>5

\* All of them have entered.
LEMMA ForwardEnters ==
  ASSUME forwarding_table \in Table, NEW better, NEW found, FoundIn(better, found),
         NEW n \in Nat, NEW order \in [1..n -> found], Len(order) = n,
         NEW f, f = Forward(better, order)
  PROVE  /\ Entered(f, better, found)
         /\ \A i \in 1..n : Agrees(f, order[i], better[order[i]])
<1>1. PICK g : Steps(g, better, order, n) /\ f = g[n]
  BY ForwardEquation
<1>2. \A i \in 0..n : g[i] = IF i = 0 THEN Start
                             ELSE ForwardOne(g[i - 1], order[i], better[order[i]])
  BY <1>1 DEF Steps
<1> DEFINE Good(i) == /\ Entered(g[i], better, found)
                      /\ \A j \in 1..i : Agrees(g[i], order[j], better[order[j]])
           C == {i \in 0..n : ~Good(i)}
<1>3. ASSUME C # {} PROVE FALSE
  <2>1. PICK m \in C : \A k \in C : m <= k
    <3>1. C \subseteq Nat
      OBVIOUS
    <3> HIDE DEF C
    <3> QED BY <1>3, <3>1, Least
  <2>2. m \in 0..n /\ ~Good(m)
    OBVIOUS
  <2>3. CASE m = 0
    <3>1. g[m] = Start
      BY <1>2, <2>2, <2>3
    <3>2. NoRoutes \in [Destinations -> Nat \cup {None}] /\ \A q \in Destinations : NoRoutes[q] = None
      BY DEF NoRoutes
    <3>3. Start \in Updated /\ Start.table = forwarding_table /\ Start.new = NoRoutes
      BY <3>2 DEF Start, Updated
    <3>4. PICK s : s = Start
      OBVIOUS
    <3>6. s \in Updated /\ s.table = forwarding_table /\ \A q \in Destinations : s.new[q] = None
      BY <3>2, <3>3, <3>4, Zenon
    <3>7. Entered(s, better, found)
      BY <3>6 DEF Entered
    <3>5. Good(m)
      BY <2>3, <3>1, <3>4, <3>7
    <3> QED BY <2>2, <3>5
  <2>4. CASE m # 0
    <3>1. m - 1 \in 0..n /\ m \in 1..n /\ m - 1 \notin C
      BY <2>1, <2>2, <2>4
    <3>2. Good(m - 1)
      BY <3>1
    <3>3. PICK a, b : a = g[m - 1] /\ b = g[m]
      OBVIOUS
    <3>4. PICK p \in found : p = order[m]
      BY <3>1
    <3>5. b = ForwardOne(a, p, better[p])
      BY <1>2, <2>2, <2>4, <3>3, <3>4
    <3>6. Entered(a, better, found) /\ \A j \in 1..(m - 1) : Agrees(a, order[j], better[order[j]])
      BY <3>2, <3>3
    <3>7. Entered(b, better, found) /\ Agrees(b, p, better[p]) /\ Apart(a, b, p)
      <4>1. PICK e : e = better[p]
        OBVIOUS
      <4>2. b = ForwardOne(a, p, e) /\ Entered(a, better, found)
        BY <3>5, <3>6, <4>1
      <4>3. Entered(b, better, found) /\ Agrees(b, p, e) /\ Apart(a, b, p)
        BY ONLY <4>1, <4>2, p \in found, FoundIn(better, found), EnterOne
      <4> QED BY <4>1, <4>3
    <3>8. ASSUME NEW j \in 1..m PROVE Agrees(b, order[j], better[order[j]])
      <4>1. PICK q \in found : q = order[j]
        BY <3>1
      <4>2. CASE q = p
        BY <3>7, <4>1, <4>2
      <4>3. CASE q # p
        <5>1. j \in 1..(m - 1)
          BY <3>1, <3>4, <4>1, <4>3
        <5>2. Agrees(a, q, better[q]) /\ b.table[q] = a.table[q]
          BY <3>6, <3>7, <4>1, <4>3, <5>1 DEF Apart, FoundIn
        <5> QED BY <4>1, <5>2 DEF Agrees
      <4> QED BY <4>2, <4>3
    <3>9. Good(m)
      BY <3>3, <3>7, <3>8
    <3> QED BY <2>2, <3>9
  <2> QED BY <2>3, <2>4
<1>4. n \in 0..n /\ C = {}
  BY <1>3
<1>5. Good(n)
  BY <1>4
<1> QED BY <1>1, <1>5

-----------------------------------------------------------------------------
(* Types *)

TaskState == [pc : {"idle", "load", "compute", "apply", "write"},
              prefixes : SUBSET Destinations,
              configured : [Destinations -> Accounts \cup {None}],
              better : Table, withdrawn : SUBSET Destinations, table : Table]

Excuses == {"overlap", "modified", "static", "failed"}

\* The empty table fits everywhere.
LEMMA NoRoutesType ==
  /\ NoRoutes \in Table /\ NoRoutes \in [Destinations -> Accounts \cup {None}]
  /\ NoRoutes \in [Destinations -> Nat \cup {None}]
  /\ \A p \in Destinations : NoRoutes[p] = None
BY DEF NoRoutes, Table

\* A task that does nothing.
LEMMA NoTaskType ==
  /\ NoTask \in TaskState /\ NoTask.pc = "idle" /\ NoTask.prefixes = {}
  /\ NoTask.configured = NoRoutes /\ NoTask.better = NoRoutes /\ NoTask.withdrawn = {}
  /\ NoTask.table = NoRoutes
BY NoRoutesType DEF NoTask, TaskState

\* The types of what the tasks work with.
RouteTypes ==
  /\ configured \in [Destinations -> Accounts \cup {None}]
  /\ incoming \in [Accounts -> Table]
  /\ local_table \in Table /\ forwarding_table \in Table
  /\ announced \in [Destinations -> Nat \cup {None}]
  /\ stored \in [Destinations -> Accounts \cup {None}]
  /\ task \in [Tasks -> TaskState] /\ excuse \subseteq Excuses
  /\ updates \in 0..MaxUpdates /\ disturbances \in 0..MaxDisturbances

\* As the proofs use them.
LEMMA Types ==
  ASSUME RouteTypes
  PROVE  /\ configured \in [Destinations -> Accounts \cup {None}]
         /\ incoming \in [Accounts -> Table]
         /\ local_table \in Table /\ forwarding_table \in Table
         /\ announced \in [Destinations -> Nat \cup {None}]
         /\ stored \in [Destinations -> Accounts \cup {None}]
         /\ task \in [Tasks -> TaskState] /\ excuse \subseteq Excuses
         /\ updates \in 0..MaxUpdates /\ disturbances \in 0..MaxDisturbances
BY DEF RouteTypes

\* And back.
LEMMA TypesNext ==
  ASSUME /\ configured' \in [Destinations -> Accounts \cup {None}]
         /\ incoming' \in [Accounts -> Table]
         /\ local_table' \in Table /\ forwarding_table' \in Table
         /\ announced' \in [Destinations -> Nat \cup {None}]
         /\ stored' \in [Destinations -> Accounts \cup {None}]
         /\ task' \in [Tasks -> TaskState] /\ excuse' \subseteq Excuses
         /\ updates' \in 0..MaxUpdates /\ disturbances' \in 0..MaxDisturbances
  PROVE  RouteTypes'
BY DEF RouteTypes

\* Task t goes on with new.
Moves(t, new) == task' = [task EXCEPT ![t] = new]

\* Which changes nothing about the others.
LEMMA MovesTask ==
  ASSUME RouteTypes, NEW t \in Tasks, NEW new \in TaskState, Moves(t, new)
  PROVE  /\ task' \in [Tasks -> TaskState] /\ task'[t] = new
         /\ \A u \in Tasks : u # t => task'[u] = task[u]
<1>1. task \in [Tasks -> TaskState]
  BY Types
<1> QED BY <1>1 DEF Moves

\* What a task finds under the read locks.
Finds(t, better, withdrawn) ==
  \A p \in Destinations :
    LET best == BestRoute(p, task[t].configured)
        used == Resolve(local_table, p)
    IN /\ better[p] # None => p \in ToCheck(t) /\ better[p] = best
       /\ p \in withdrawn <=> p \in ToCheck(t) /\ best = None
       /\ p \in ToCheck(t) /\ best # None /\ better[p] = None =>
            used # None /\ used.account = best.account

\* It goes on with that, or ends when there is nothing to do.
LEMMA ComputeIs ==
  ASSUME RouteTypes, OffersOK, NEW t \in Tasks, Compute(t)
  PROVE  \E better \in Table, withdrawn \in SUBSET Destinations, new \in TaskState :
           /\ Finds(t, better, withdrawn) /\ Moves(t, new)
           /\ \/ new = NoTask /\ withdrawn = {} /\ \A p \in Destinations : better[p] = None
              \/ /\ new.pc = "apply" /\ new.better = better /\ new.withdrawn = withdrawn
                 /\ new.prefixes = task[t].prefixes /\ new.configured = task[t].configured
<1> DEFINE best(p) == BestRoute(p, task[t].configured)
           used(p) == Resolve(local_table, p)
           better == [p \in Destinations |->
                        IF p \in ToCheck(t) /\ best(p) # None
                             /\ (used(p) = None \/ used(p).account # best(p).account)
                          THEN best(p) ELSE None]
           withdrawn == {p \in ToCheck(t) : best(p) = None}
           new == IF better = NoRoutes /\ withdrawn = {} THEN NoTask
                  ELSE [task[t] EXCEPT !.pc = "apply", !.better = better, !.withdrawn = withdrawn]
<1>1. /\ task \in [Tasks -> TaskState] /\ incoming \in [Accounts -> Table]
  BY Types
<1>2. task[t] \in TaskState /\ task[t].configured \in [Destinations -> Accounts \cup {None}]
      /\ task[t].prefixes \in SUBSET Destinations
  BY <1>1 DEF TaskState
<1>3. ToCheck(t) \subseteq Destinations
  BY <1>2 DEF ToCheck
<1>4. Moves(t, new)
  BY Zenon DEF Compute, Moves
<1>5. \A p \in Destinations : best(p) \in Entry \cup {None}
  BY <1>1, <1>2, BestType
<1>6. better \in Table
  <2> HIDE DEF best, used
  <2> QED BY <1>5 DEF Table
<1>7. withdrawn \in SUBSET Destinations
  BY <1>3
<1>8. Finds(t, better, withdrawn)
  <2>1. ASSUME NEW p \in Destinations
        PROVE  /\ better[p] # None => p \in ToCheck(t) /\ better[p] = best(p)
               /\ p \in withdrawn <=> p \in ToCheck(t) /\ best(p) = None
               /\ p \in ToCheck(t) /\ best(p) # None /\ better[p] = None =>
                    used(p) # None /\ used(p).account = best(p).account
    <3> HIDE DEF best, used
    <3> QED OBVIOUS
  <2> HIDE DEF better, withdrawn
  <2> QED BY <2>1 DEF Finds
<1>9. CASE better = NoRoutes /\ withdrawn = {}
  <2>1. new = NoTask
    BY <1>9
  <2>2. \A p \in Destinations : better[p] = None
    BY <1>9, NoRoutesType, Zenon
  <2> HIDE DEF better, withdrawn, new
  <2> QED BY <1>4, <1>6, <1>7, <1>8, <1>9, <2>1, <2>2, NoTaskType
<1>10. CASE ~(better = NoRoutes /\ withdrawn = {})
  <2>1. new = [task[t] EXCEPT !.pc = "apply", !.better = better, !.withdrawn = withdrawn]
    BY <1>10
  <2> HIDE DEF better, withdrawn, new
  <2>2. /\ new \in TaskState /\ new.pc = "apply" /\ new.better = better
        /\ new.withdrawn = withdrawn
        /\ new.prefixes = task[t].prefixes /\ new.configured = task[t].configured
    BY <1>2, <1>6, <1>7, <2>1 DEF TaskState
  <2> QED BY <1>4, <1>6, <1>7, <1>8, <2>2
<1> QED BY <1>9, <1>10

\* The prefixes with a better route.
FoundBy(t) == {p \in Destinations : task[t].better[p] # None}

\* What the local table has for p once task t has applied its findings.
After(t, p) ==
  IF p \in task[t].withdrawn THEN None
  ELSE IF task[t].better[p] # None THEN task[t].better[p] ELSE local_table[p]

\* What task t does to the tables, f being the forwarding table and the update
\* with its better routes.
Applies(t, f) ==
  /\ Entered(f, task[t].better, FoundBy(t))
  /\ \A p \in FoundBy(t) : Agrees(f, p, task[t].better[p])
  /\ local_table' \in Table /\ \A p \in Destinations : local_table'[p] = After(t, p)
  /\ forwarding_table' \in Table
  /\ \A p \in Destinations :
       forwarding_table'[p] = IF p \in task[t].withdrawn THEN None ELSE f.table[p]
  /\ announced' \in [Destinations -> Nat \cup {None}]
  /\ \A p \in Destinations : announced'[p] # None =>
       \/ f.new[p] # None
       \/ f.new[p] = None /\ p \notin task[t].withdrawn /\ announced[p] # None

\* It applies its findings and goes on with a copy of the local table.
LEMMA ApplyIs ==
  ASSUME RouteTypes, NEW t \in Tasks, Apply(t)
  PROVE  \E f : \E new \in TaskState :
           /\ Applies(t, f) /\ Moves(t, new) /\ new.pc = "write" /\ new.table = local_table'
           /\ new.configured = NoRoutes
<1>1. /\ task \in [Tasks -> TaskState] /\ local_table \in Table /\ forwarding_table \in Table
      /\ announced \in [Destinations -> Nat \cup {None}]
  BY Types
<1>2. task[t] \in TaskState
  BY <1>1
<1>3. PICK better, withdrawn, found :
        better = task[t].better /\ withdrawn = task[t].withdrawn /\ found = FoundBy(t)
  OBVIOUS
<1>4. better \in Table /\ withdrawn \in SUBSET Destinations
  BY <1>2, <1>3 DEF TaskState
<1>5. FoundIn(better, found) /\ found = {p \in Destinations : better[p] # None}
  BY <1>3, <1>4 DEF FoundIn, FoundBy
<1>6. PICK n : n = Cardinality(found)
  OBVIOUS
<1>7. n \in Nat
  <2>1. IsFiniteSet(Destinations)
    BY BestRoutesAssumption
  <2>2. IsFiniteSet(found)
    BY <1>5, <2>1, FS_Subset
  <2> QED BY <1>6, <2>2, FS_CardinalityType
<1> DEFINE set == [p \in Destinations |-> IF p \in found THEN better[p] ELSE local_table[p]]
           tb == Forgets(set, withdrawn)
<1>8. PICK order \in Bijection(1..n, found) :
        /\ local_table' = tb
        /\ forwarding_table' = Forgets(Forward(better, order).table, withdrawn)
        /\ announced' = Told(Forward(better, order).new, withdrawn)
        /\ task' = [task EXCEPT ![t] = [NoTask EXCEPT !.pc = "write", !.table = tb,
                                                      !.prefixes = task[t].prefixes]]
  BY <1>3, <1>5, <1>6, Zenon DEF Apply
<1>9. order \in [1..n -> found] /\ \A p \in found : \E i \in 1..n : order[i] = p
  BY DEF Bijection, Injection, Surjection
<1>10. Len(order) = n
  BY <1>7, <1>9
<1>11. PICK f : f = Forward(better, order)
  OBVIOUS
<1>12. Entered(f, better, found) /\ \A p \in found : Agrees(f, p, better[p])
  <2>1. Entered(f, better, found) /\ \A i \in 1..n : Agrees(f, order[i], better[order[i]])
    BY <1>1, <1>5, <1>7, <1>9, <1>10, <1>11, ForwardEnters
  <2> QED BY <1>9, <2>1
<1>13. f.table \in Table /\ f.new \in [Destinations -> Nat \cup {None}]
  BY <1>12 DEF Entered, Updated
<1>14. local_table' \in Table /\ \A p \in Destinations : local_table'[p] = After(t, p)
  <2>1. tb \in Table /\ \A p \in Destinations : tb[p] = After(t, p)
    BY <1>1, <1>3, <1>4, <1>5 DEF Forgets, Table, After
  <2> QED BY <1>8, <2>1
<1>15. /\ forwarding_table' \in Table
       /\ \A p \in Destinations :
            forwarding_table'[p] = IF p \in withdrawn THEN None ELSE f.table[p]
  BY <1>8, <1>11, <1>13 DEF Forgets, Table
<1>16. /\ announced' \in [Destinations -> Nat \cup {None}]
       /\ \A p \in Destinations : announced'[p] # None =>
            \/ f.new[p] # None
            \/ f.new[p] = None /\ p \notin withdrawn /\ announced[p] # None
  BY <1>1, <1>8, <1>11, <1>13 DEF Told
<1>17. Applies(t, f)
  BY <1>3, <1>12, <1>14, <1>15, <1>16, Zenon DEF Applies
<1>18. PICK new : new = [NoTask EXCEPT !.pc = "write", !.table = tb, !.prefixes = task[t].prefixes]
  OBVIOUS
<1>19. PICK tc, ps : tc = tb /\ ps = task[t].prefixes
  OBVIOUS
<1>20. tc \in Table /\ tc = local_table' /\ ps \in SUBSET Destinations
  BY <1>2, <1>8, <1>14, <1>19 DEF TaskState
<1>21. new = [NoTask EXCEPT !.pc = "write", !.table = tc, !.prefixes = ps]
  BY <1>18, <1>19
<1> HIDE DEF tb
<1>22. new \in TaskState /\ new.pc = "write" /\ new.table = tc /\ new.configured = NoRoutes
  BY <1>20, <1>21, NoTaskType DEF TaskState
<1>23. Moves(t, new)
  BY <1>8, <1>18 DEF Moves
<1>24. new.table = local_table'
  BY <1>20, <1>22
<1> QED BY <1>17, <1>22, <1>23, <1>24, Zenon

-----------------------------------------------------------------------------
(* The invariant *)

\* Without static routes no task works with one.
StaticOK ==
  "static" \notin excuse =>
    \A p \in Destinations : /\ configured[p] = None
                            /\ \A t \in Tasks : task[t].configured[p] = None

\* Without overlap there is one task at a time.
AloneOK ==
  "overlap" \notin excuse =>
    \A t, u \in Tasks : task[t].pc # "idle" /\ task[u].pc # "idle" => t = u

\* A task withdraws no prefix it has found a better route for.
DisjointOK ==
  \A t \in Tasks : task[t].pc = "apply" =>
    \A p \in task[t].withdrawn : task[t].better[p] = None

\* The copy that is about to be written is the local table; when none is, the
\* store has it.
RouterOK ==
  "overlap" \notin excuse /\ "failed" \notin excuse =>
    /\ \A t \in Tasks : task[t].pc = "write" => task[t].table = local_table
    /\ (\A t \in Tasks : task[t].pc # "write") =>
         \A p \in Destinations :
           stored[p] = IF local_table[p] = None THEN None ELSE local_table[p].account

\* A task that has not looked at the tables yet will check p.
Pending(p) ==
  \E t \in Tasks : task[t].pc \in {"load", "compute"} /\ p \in task[t].prefixes

\* An offer for a prefix that no other contains has a route, or a task is about
\* to add one.
RoutedOK ==
  \A p \in Destinations : Above[p] = {p} /\ IsOffered(p) =>
    \/ Pending(p) \/ local_table[p] # None
    \/ \E t \in Tasks : task[t].pc = "apply" /\ task[t].better[p] # None

\* What is about to be withdrawn is not offered.
WithdrawnOK ==
  \A t \in Tasks : task[t].pc = "apply" => \A p \in task[t].withdrawn : ~IsOffered(p)

\* What is about to be announced is the prefix itself, or an offered one above.
FoundOK ==
  \A t \in Tasks : task[t].pc = "apply" =>
    \A p \in Destinations : task[t].better[p] # None =>
      /\ task[t].better[p].route.prefix \in Above[p]
      /\ \/ task[t].better[p].route.prefix = p
         \/ IsOffered(task[t].better[p].route.prefix)

\* What was announced is routed.
AnnouncedOK ==
  \A p \in Destinations : announced[p] # None /\ ~Between(p) => local_table[p] # None

SoundOK ==
  excuse \subseteq {"modified"} => RoutedOK /\ WithdrawnOK /\ FoundOK /\ AnnouncedOK

\* The best account is in use, or a task is about to see to it.
BestFor(p) ==
  \/ Pending(p)
  \/ \E t \in Tasks : task[t].pc = "apply" /\ Chosen(After(t, p), p)
  \/ (\A t \in Tasks : task[t].pc # "apply") /\ Chosen(local_table[p], p)

BestOK ==
  excuse = {} =>
    \A p \in Destinations : Above[p] = {p} /\ local_routes[p] = None => BestFor(p)

Inv == /\ RouteTypes /\ OffersOK /\ StaticOK /\ AloneOK /\ DisjointOK /\ ForwardsAsRouted
       /\ RouterOK /\ SoundOK /\ BestOK

\* What a move of a task keeps, if the task was at work and works without a
\* static route when there is none.
LEMMA MoveKeeps ==
  ASSUME Inv, NEW t \in Tasks, NEW new \in TaskState, Moves(t, new),
         task[t].pc # "idle", excuse \subseteq excuse',
         new.pc = "apply" => \A p \in new.withdrawn : new.better[p] = None,
         "static" \notin excuse' =>
           \A p \in Destinations : configured'[p] = None /\ new.configured[p] = None
  PROVE  StaticOK' /\ AloneOK' /\ DisjointOK'
<1>1. RouteTypes /\ StaticOK /\ AloneOK /\ DisjointOK
  BY DEF Inv
<1>2. task'[t] = new /\ \A u \in Tasks : u # t => task'[u] = task[u]
  BY <1>1, MovesTask
<1>3. StaticOK'
  <2>1. ASSUME "static" \notin excuse', NEW p \in Destinations, NEW u \in Tasks
        PROVE  configured'[p] = None /\ task'[u].configured[p] = None
    BY <1>1, <1>2, <2>1 DEF StaticOK
  <2>2. ASSUME "static" \notin excuse', NEW p \in Destinations
        PROVE  configured'[p] = None
    BY <2>2
  <2> QED BY <2>1, <2>2 DEF StaticOK
<1>4. AloneOK'
  BY <1>1, <1>2 DEF AloneOK
<1>5. DisjointOK'
  BY <1>1, <1>2 DEF DisjointOK
<1> QED BY <1>3, <1>4, <1>5

\* The router is not affected by a move that has nothing to do with writing.
LEMMA RouterKeeps ==
  ASSUME Inv, NEW t \in Tasks, NEW new \in TaskState, Moves(t, new),
         task[t].pc # "write", new.pc # "write", excuse \subseteq excuse',
         UNCHANGED <<local_table, stored>>
  PROVE  RouterOK'
<1>1. RouteTypes /\ RouterOK
  BY DEF Inv
<1>2. task'[t] = new /\ \A u \in Tasks : u # t => task'[u] = task[u]
  BY <1>1, MovesTask
<1>3. \A u \in Tasks : (task'[u].pc = "write") <=> (task[u].pc = "write")
  BY <1>2
<1>4. \A u \in Tasks : task'[u].pc = "write" => task'[u].table = task[u].table
  BY <1>2
<1> QED BY <1>1, <1>3, <1>4 DEF RouterOK

\* The forwarding table is compared with the local table only.
LEMMA TablesKeep ==
  ASSUME Inv, UNCHANGED tables
  PROVE  ForwardsAsRouted'
BY DEF Inv, tables, ForwardsAsRouted

\* A choice stays right while the offers for the prefix stay.
LEMMA ChosenSame ==
  ASSUME NEW p \in Destinations, NEW e \in Entry \cup {None}, Chosen(e, p),
         \A a \in Accounts : incoming'[a][p] = incoming[a][p]
  PROVE  Chosen(e, p)'
<1>1. CASE \A a \in Accounts : incoming[a][p] = None
  BY <1>1 DEF Chosen
<1>2. CASE ~ \A a \in Accounts : incoming[a][p] = None
  <2>1. e # None /\ Best(e.account, p)
    BY <1>2 DEF Chosen
  <2>2. PICK a \in Accounts : a = e.account
    BY <2>1, EntryType
  <2>3. Best(a, p)'
    BY <2>1, <2>2 DEF Best
  <2> QED BY <1>2, <2>1, <2>2, <2>3 DEF Chosen
<1> QED BY <1>1, <1>2

\* A task that starts.
LEMMA SpawnIs ==
  ASSUME RouteTypes, NEW t \in Tasks, NEW ps \in SUBSET Destinations, Spawn(t, ps)
  PROVE  \E new \in TaskState :
           /\ Moves(t, new) /\ new.pc = "load" /\ new.prefixes = ps
           /\ new.configured = NoRoutes /\ task[t].pc = "idle"
<1>1. PICK new : new = [NoTask EXCEPT !.pc = "load", !.prefixes = ps]
  OBVIOUS
<1>2. new \in TaskState /\ new.pc = "load" /\ new.prefixes = ps /\ new.configured = NoRoutes
  BY <1>1, NoTaskType DEF TaskState
<1>3. Moves(t, new) /\ task[t].pc = "idle"
  BY <1>1 DEF Moves, Spawn
<1> QED BY <1>2, <1>3

\* A task starts, alone unless there is an excuse, for the prefixes whose
\* offers change.
LEMMA SpawnStep ==
  ASSUME Inv, NEW t \in Tasks, NEW ps \in SUBSET Destinations, Spawn(t, ps),
         excuse' = excuse \cup Overlap, UNCHANGED <<configured, tables, stored, disturbances>>,
         updates' \in 0..MaxUpdates, incoming' \in [Accounts -> Table], OffersOK',
         \A a \in Accounts, p \in Destinations \ ps : incoming'[a][p] = incoming[a][p]
  PROVE  Inv'
<1>1. /\ RouteTypes /\ OffersOK /\ StaticOK /\ AloneOK /\ DisjointOK /\ ForwardsAsRouted
      /\ RouterOK /\ SoundOK /\ BestOK
  BY DEF Inv
<1>2. PICK new \in TaskState :
        /\ Moves(t, new) /\ new.pc = "load" /\ new.prefixes = ps
        /\ new.configured = NoRoutes /\ task[t].pc = "idle"
  BY <1>1, SpawnIs
<1>3. /\ task' \in [Tasks -> TaskState] /\ task'[t] = new
      /\ \A u \in Tasks : u # t => task'[u] = task[u]
  BY <1>1, <1>2, MovesTask
<1>4. UNCHANGED <<local_table, forwarding_table, announced>>
  BY DEF tables
<1>5. /\ excuse \subseteq excuse' /\ excuse' \subseteq excuse \cup {"overlap"}
      /\ "overlap" \notin excuse' => \A u \in Tasks : task[u].pc = "idle"
  BY DEF Overlap, Live
<1>6. RouteTypes'
  BY <1>1, <1>3, <1>4, <1>5, Types, TypesNext DEF Excuses
<1>7. StaticOK'
  BY <1>1, <1>2, <1>3, <1>5, NoRoutesType DEF StaticOK
<1>8. AloneOK'
  BY <1>3, <1>5 DEF AloneOK
<1>9. DisjointOK'
  BY <1>1, <1>2, <1>3 DEF DisjointOK
<1>10. ForwardsAsRouted'
  BY TablesKeep
<1>11. RouterOK'
  BY <1>2, <1>4, <1>5, RouterKeeps
<1>12. SoundOK'
  <2> SUFFICES ASSUME excuse' \subseteq {"modified"}
               PROVE  (RoutedOK /\ WithdrawnOK /\ FoundOK /\ AnnouncedOK)'
    BY DEF SoundOK
  <2>1. RoutedOK /\ AnnouncedOK /\ \A u \in Tasks : task[u].pc = "idle"
    BY <1>1, <1>5 DEF SoundOK
  <2>2. \A u \in Tasks : task'[u].pc # "apply"
    BY <1>2, <1>3, <2>1
  <2>3. ASSUME NEW p \in Destinations, Above[p] = {p}, IsOffered(p)'
        PROVE  Pending(p)' \/ local_table'[p] # None
    <3>1. CASE p \in ps
      <4>1. task'[t].pc = "load" /\ p \in task'[t].prefixes
        BY <1>2, <1>3, <3>1
      <4> QED BY <4>1 DEF Pending
    <3>2. CASE p \notin ps
      <4>1. IsOffered(p)
        BY <2>3, <3>2 DEF IsOffered, OfferedBy
      <4>2. ~Pending(p)
        BY <2>1 DEF Pending
      <4> QED BY <1>4, <2>1, <2>3, <4>1, <4>2 DEF RoutedOK
    <3> QED BY <3>1, <3>2
  <2>4. RoutedOK'
    BY <2>3 DEF RoutedOK
  <2>5. WithdrawnOK' /\ FoundOK'
    BY <2>2 DEF WithdrawnOK, FoundOK
  <2>6. AnnouncedOK'
    BY <1>4, <2>1 DEF AnnouncedOK
  <2> QED BY <2>4, <2>5, <2>6
<1>13. BestOK'
  <2> SUFFICES ASSUME excuse' = {}, NEW p \in Destinations, Above[p] = {p}, local_routes[p] = None
               PROVE  BestFor(p)'
    BY DEF BestOK
  <2>1. BestFor(p) /\ \A u \in Tasks : task[u].pc = "idle"
    BY <1>1, <1>5 DEF BestOK
  <2>2. \A u \in Tasks : task'[u].pc # "apply"
    BY <1>2, <1>3, <2>1
  <2>3. CASE p \in ps
    <3>1. task'[t].pc = "load" /\ p \in task'[t].prefixes
      BY <1>2, <1>3, <2>3
    <3> QED BY <3>1 DEF BestFor, Pending
  <2>4. CASE p \notin ps
    <3>1. Chosen(local_table[p], p)
      BY <2>1 DEF BestFor, Pending
    <3>2. \A a \in Accounts : incoming'[a][p] = incoming[a][p]
      BY <2>4
    <3>3. PICK e \in Entry \cup {None} : e = local_table[p]
      BY <1>1, Types DEF Table
    <3>4. Chosen(e, p)'
      BY <3>1, <3>2, <3>3, ChosenSame
    <3>5. e = local_table'[p]
      BY <1>4, <3>3
    <3> QED BY <2>2, <3>4, <3>5 DEF BestFor
  <2> QED BY <2>3, <2>4
<1> QED BY <1>6, <1>7, <1>8, <1>9, <1>10, <1>11, <1>12, <1>13 DEF Inv

\* Only what account a offers for the prefixes of an update differs.
Offers(inc, a, gone, new) ==
  /\ inc \in [Accounts -> Table]
  /\ \A b \in Accounts, q \in Destinations :
       b # a \/ q \notin gone \cup new => inc[b][q] = incoming[b][q]
  /\ \A q \in new : inc[a][q] \in Entry /\ inc[a][q].account = a
                    /\ inc[a][q].route.prefix = q
  /\ \A q \in gone \ new : inc[a][q] = None

\* The table of an account after an update.
LEMMA OfferIs ==
  ASSUME incoming \in [Accounts -> Table], NEW a \in Accounts,
         NEW gone, NEW new, gone \subseteq Destinations, new \subseteq Destinations,
         NEW path \in Nat
  PROVE  Offers(Offer(a, gone, new, path), a, gone, new)
<1> DEFINE entry(p) == [account |-> a, route |-> [prefix |-> p, path |-> path]]
           tb == [p \in Destinations |-> CASE p \in new -> entry(p)
                                           [] p \in gone \ new -> None
                                           [] OTHER -> incoming[a][p]]
<1>1. ASSUME NEW p \in Destinations
      PROVE  entry(p) \in Entry /\ entry(p).account = a /\ entry(p).route.prefix = p
  <2>1. PICK r : r = [prefix |-> p, path |-> path]
    OBVIOUS
  <2>2. r \in Route /\ r.prefix = p
    BY <2>1 DEF Route
  <2>3. entry(p) = [account |-> a, route |-> r]
    BY <2>1
  <2> HIDE DEF entry
  <2> QED BY <2>2, <2>3 DEF Entry
<1>2. PICK inc : inc = Offer(a, gone, new, path) /\ inc = [incoming EXCEPT ![a] = tb]
  BY Zenon DEF Offer
<1> HIDE DEF entry
<1>3. ASSUME NEW p \in Destinations
      PROVE  /\ tb[p] \in Entry \cup {None}
             /\ p \in new => tb[p] = entry(p)
             /\ p \in gone \ new => tb[p] = None
             /\ p \notin gone \cup new => tb[p] = incoming[a][p]
  BY <1>1 DEF Table
<1>4. tb \in Table
  <2>1. tb = [p \in Destinations |-> tb[p]]
    OBVIOUS
  <2> HIDE DEF tb
  <2> QED BY <1>3, <2>1 DEF Table
<1> HIDE DEF tb
<1>5. /\ inc \in [Accounts -> Table] /\ inc[a] = tb
      /\ \A b \in Accounts : b # a => inc[b] = incoming[b]
  BY <1>2, <1>4
<1>6. Offers(inc, a, gone, new)
  BY <1>1, <1>3, <1>5 DEF Offers
<1> QED BY <1>2, <1>6

\* A peer withdraws and announces routes.
LEMMA HandleUpdateStep ==
  ASSUME Inv, NEW t \in Tasks, NEW a \in Accounts, NEW gone \in SUBSET Destinations,
         NEW new \in SUBSET Destinations, NEW path \in Nat,
         HandleUpdate(t, a, gone, new, path)
  PROVE  Inv'
<1>1. /\ incoming \in [Accounts -> Table] /\ updates \in 0..MaxUpdates /\ OffersOK
  BY Types DEF Inv
<1>2. PICK ps \in SUBSET Destinations : ps = gone \cup new
  OBVIOUS
<1>3. /\ incoming' = Offer(a, gone, new, path) /\ updates' = updates + 1
      /\ updates < MaxUpdates /\ excuse' = excuse \cup Overlap /\ Spawn(t, ps)
      /\ UNCHANGED <<configured, tables, stored, disturbances>>
  BY <1>2 DEF HandleUpdate
<1>4. updates' \in 0..MaxUpdates
  BY <1>1, <1>3, BestRoutesAssumption
<1>5. PICK inc : inc = incoming'
  OBVIOUS
<1>6. /\ inc \in [Accounts -> Table]
      /\ \A b \in Accounts, q \in Destinations : b # a \/ q \notin ps => inc[b][q] = incoming[b][q]
      /\ \A q \in new : inc[a][q].account = a /\ inc[a][q].route.prefix = q
      /\ \A q \in gone \ new : inc[a][q] = None
  <2>1. Offers(inc, a, gone, new)
    BY <1>1, <1>3, <1>5, OfferIs
  <2> QED BY <1>2, <2>1 DEF Offers
<1>7. OffersOK'
  <2>1. ASSUME NEW b \in Accounts, NEW q \in Destinations, inc[b][q] # None
        PROVE  inc[b][q].account = b /\ inc[b][q].route.prefix = q
    <3>1. CASE b = a /\ q \in ps
      BY <1>2, <1>6, <2>1, <3>1
    <3>2. CASE ~(b = a /\ q \in ps)
      BY <1>1, <1>6, <2>1, <3>2 DEF OffersOK
    <3> QED BY <3>1, <3>2
  <2> QED BY <1>5, <2>1 DEF OffersOK
<1>8. \A b \in Accounts, q \in Destinations \ ps : incoming'[b][q] = incoming[b][q]
  BY <1>5, <1>6
<1> QED BY <1>3, <1>4, <1>5, <1>6, <1>7, <1>8, SpawnStep

\* The broadcast checks the configured and local prefixes.
LEMMA BroadcastStep == ASSUME Inv, NEW t \in Tasks, BroadcastRoutes(t) PROVE Inv'
<1>1. /\ incoming \in [Accounts -> Table] /\ updates \in 0..MaxUpdates /\ OffersOK
  BY Types DEF Inv
<1>2. /\ excuse' = excuse \cup Overlap /\ Spawn(t, {})
      /\ UNCHANGED <<configured, incoming, tables, stored, updates, disturbances>>
  BY DEF BroadcastRoutes, counters
<1>3. OffersOK' /\ incoming' \in [Accounts -> Table] /\ updates' \in 0..MaxUpdates
  BY <1>1, <1>2 DEF OffersOK
<1>4. PICK ps \in SUBSET Destinations : ps = {}
  OBVIOUS
<1>5. \A b \in Accounts, q \in Destinations \ ps : incoming'[b][q] = incoming[b][q]
  BY <1>2
<1> QED BY <1>2, <1>3, <1>4, <1>5, SpawnStep

\* Tasks and tables stay: what is said of them alone does too.
LEMMA TasksKeep ==
  ASSUME Inv, UNCHANGED <<tables, stored, task>>, excuse \subseteq excuse'
  PROVE  AloneOK' /\ DisjointOK' /\ ForwardsAsRouted' /\ RouterOK'
<1>1. AloneOK /\ DisjointOK /\ RouterOK /\ UNCHANGED <<local_table, stored, task>>
  BY DEF Inv, tables
<1>2. AloneOK' /\ DisjointOK'
  BY <1>1 DEF AloneOK, DisjointOK
<1>3. RouterOK'
  BY <1>1 DEF RouterOK
<1> QED BY <1>2, <1>3, TablesKeep

\* A peer changes the path of a route.
LEMMA ReannounceStep ==
  ASSUME Inv, NEW a \in Accounts, NEW p \in Destinations, NEW path \in Nat,
         Reannounce(a, p, path)
  PROVE  Inv'
<1>1. /\ RouteTypes /\ OffersOK /\ StaticOK /\ SoundOK
      /\ incoming \in [Accounts -> Table] /\ updates \in 0..MaxUpdates
  BY Types DEF Inv
<1>2. /\ incoming' = Offer(a, {}, {p}, path) /\ updates' = updates + 1 /\ updates < MaxUpdates
      /\ excuse' = excuse \cup {"modified"} /\ incoming[a][p] # None
      /\ UNCHANGED <<configured, tables, stored, task, disturbances>>
      /\ UNCHANGED <<local_table, forwarding_table, announced>>
  BY DEF Reannounce, tables
<1>3. updates' \in 0..MaxUpdates
  BY <1>1, <1>2, BestRoutesAssumption
<1>4. PICK inc : inc = incoming'
  OBVIOUS
<1>5. /\ inc \in [Accounts -> Table] /\ inc[a][p] \in Entry
      /\ inc[a][p].account = a /\ inc[a][p].route.prefix = p
      /\ \A b \in Accounts, q \in Destinations : b # a \/ q # p => inc[b][q] = incoming[b][q]
  <2>1. Offers(inc, a, {}, {p})
    BY <1>1, <1>2, <1>4, OfferIs
  <2> QED BY <2>1 DEF Offers
<1>6. OffersOK'
  BY <1>1, <1>4, <1>5 DEF OffersOK
<1>7. RouteTypes'
  BY <1>1, <1>2, <1>3, <1>4, <1>5, Types, TypesNext DEF Excuses
<1>8. StaticOK'
  BY <1>1, <1>2 DEF StaticOK
<1>9. AloneOK' /\ DisjointOK' /\ ForwardsAsRouted' /\ RouterOK'
  BY <1>2, TasksKeep
<1>10. SoundOK'
  <2> SUFFICES ASSUME excuse' \subseteq {"modified"}
               PROVE  (RoutedOK /\ WithdrawnOK /\ FoundOK /\ AnnouncedOK)'
    BY DEF SoundOK
  <2>1. RoutedOK /\ WithdrawnOK /\ FoundOK /\ AnnouncedOK
    BY <1>1, <1>2 DEF SoundOK
  <2>2. ASSUME NEW q \in Destinations PROVE IsOffered(q)' <=> IsOffered(q)
    <3>1. \A b \in Accounts : (inc[b][q] # None) <=> (incoming[b][q] # None)
      <4>1. inc[a][p] # None
        BY <1>5, NoneIsNone
      <4> QED BY <1>2, <1>5, <4>1
    <3> QED BY <1>4, <3>1 DEF IsOffered, OfferedBy
  <2>3. \A q \in Destinations : Pending(q)' <=> Pending(q)
    BY <1>2 DEF Pending
  <2>4. RoutedOK'
    BY <1>2, <2>1, <2>2, <2>3 DEF RoutedOK
  <2>5. WithdrawnOK'
    <3>1. ASSUME NEW t \in Tasks, task[t].pc = "apply", NEW q \in task[t].withdrawn
          PROVE  ~IsOffered(q)'
      <4>1. q \in Destinations
        BY <1>1, Types DEF TaskState
      <4> QED BY <2>1, <2>2, <3>1, <4>1 DEF WithdrawnOK
    <3> QED BY <1>2, <3>1 DEF WithdrawnOK
  <2>6. FoundOK'
    <3>1. ASSUME NEW t \in Tasks, task[t].pc = "apply", NEW q \in Destinations,
                 task[t].better[q] # None,
                 NEW r, r = task[t].better[q].route.prefix
          PROVE  r \in Above[q] /\ (r = q \/ IsOffered(r)')
      <4>1. r \in Above[q] /\ (r = q \/ IsOffered(r))
        BY <2>1, <3>1 DEF FoundOK
      <4>2. r \in Destinations
        BY <4>1, AboveType
      <4> QED BY <2>2, <4>1, <4>2
    <3> QED BY <1>2, <3>1 DEF FoundOK
  <2>7. AnnouncedOK'
    BY <1>2, <2>1 DEF AnnouncedOK
  <2> QED BY <2>4, <2>5, <2>6, <2>7
<1>11. BestOK'
  BY <1>2 DEF BestOK
<1> QED BY <1>6, <1>7, <1>8, <1>9, <1>10, <1>11 DEF Inv

\* The static routes are changed.
LEMMA SetStaticStep ==
  ASSUME Inv, NEW routes \in [Destinations -> Accounts \cup {None}], SetStatic(routes)
  PROVE  Inv'
<1>1. RouteTypes /\ OffersOK /\ configured \in [Destinations -> Accounts \cup {None}]
      /\ disturbances \in 0..MaxDisturbances
  BY Types DEF Inv
<1>2. /\ configured' = routes /\ disturbances < MaxDisturbances
      /\ disturbances' = disturbances + 1 /\ excuse' = excuse \cup {"static"}
      /\ UNCHANGED <<incoming, tables, stored, task, updates>>
      /\ UNCHANGED <<local_table, forwarding_table, announced>>
  BY DEF SetStatic, WriteStatic, tables
<1>3. configured' \in [Destinations -> Accounts \cup {None}]
  BY <1>1, <1>2
<1>4. disturbances' \in 0..MaxDisturbances
  BY <1>1, <1>2, BestRoutesAssumption
<1>5. RouteTypes'
  BY <1>1, <1>2, <1>3, <1>4, Types, TypesNext DEF Excuses
<1>6. OffersOK'
  BY <1>1, <1>2 DEF OffersOK
<1>7. StaticOK' /\ SoundOK' /\ BestOK'
  BY <1>2 DEF StaticOK, SoundOK, BestOK
<1>8. AloneOK' /\ DisjointOK' /\ ForwardsAsRouted' /\ RouterOK'
  BY <1>2, TasksKeep
<1> QED BY <1>5, <1>6, <1>7, <1>8 DEF Inv

\* A move that neither adds nor ends a check and applies nothing.
LEMMA QuietKeeps ==
  ASSUME Inv, NEW t \in Tasks, NEW new \in TaskState, Moves(t, new),
         UNCHANGED <<incoming, tables, excuse>>,
         task[t].pc # "apply", new.pc # "apply",
         task[t].pc \in {"load", "compute"} =>
           new.pc \in {"load", "compute"} /\ new.prefixes = task[t].prefixes
  PROVE  SoundOK' /\ BestOK'
<1>1. RouteTypes /\ SoundOK /\ BestOK /\ UNCHANGED <<incoming, local_table, announced, excuse>>
  BY DEF Inv, tables
<1>2. task'[t] = new /\ \A u \in Tasks : u # t => task'[u] = task[u]
  BY <1>1, MovesTask
<1>3. ASSUME NEW p \in Destinations PROVE Pending(p) => Pending(p)'
  BY <1>2 DEF Pending
<1>4. /\ \A u \in Tasks : (task'[u].pc = "apply") <=> (task[u].pc = "apply")
      /\ \A u \in Tasks : task[u].pc = "apply" => task'[u] = task[u]
  BY <1>2
<1>5. \A p : IsOffered(p)' <=> IsOffered(p)
  BY <1>1 DEF IsOffered, OfferedBy
<1>6. SoundOK'
  <2> SUFFICES ASSUME excuse' \subseteq {"modified"}
               PROVE  (RoutedOK /\ WithdrawnOK /\ FoundOK /\ AnnouncedOK)'
    BY DEF SoundOK
  <2>1. RoutedOK /\ WithdrawnOK /\ FoundOK /\ AnnouncedOK
    BY <1>1 DEF SoundOK
  <2>2. RoutedOK'
    <3>1. ASSUME NEW p \in Destinations, Above[p] = {p}, IsOffered(p)'
          PROVE  \/ Pending(p)' \/ local_table'[p] # None
                 \/ \E u \in Tasks : task'[u].pc = "apply" /\ task'[u].better[p] # None
      <4>1. \/ Pending(p) \/ local_table[p] # None
            \/ \E u \in Tasks : task[u].pc = "apply" /\ task[u].better[p] # None
        BY <1>5, <2>1, <3>1 DEF RoutedOK
      <4> QED BY <1>1, <1>3, <1>4, <4>1
    <3> QED BY <3>1 DEF RoutedOK
  <2>3. WithdrawnOK'
    BY <1>4, <1>5, <2>1 DEF WithdrawnOK
  <2>4. FoundOK'
    BY <1>4, <1>5, <2>1 DEF FoundOK
  <2>5. AnnouncedOK'
    BY <1>1, <2>1 DEF AnnouncedOK
  <2> QED BY <2>2, <2>3, <2>4, <2>5
<1>7. BestOK'
  <2> SUFFICES ASSUME excuse' = {}, NEW p \in Destinations, Above[p] = {p}, local_routes[p] = None
               PROVE  BestFor(p)'
    BY DEF BestOK
  <2>1. BestFor(p)
    BY <1>1 DEF BestOK
  <2>2. CASE Pending(p)
    BY <1>3, <2>2 DEF BestFor
  <2>3. CASE \E u \in Tasks : task[u].pc = "apply" /\ Chosen(After(u, p), p)
    <3>1. PICK u \in Tasks : task[u].pc = "apply" /\ Chosen(After(u, p), p)
      BY <2>3
    <3>2. task'[u] = task[u]
      BY <1>4, <3>1
    <3>3. After(u, p)' = After(u, p)
      BY <1>1, <3>2 DEF After
    <3>4. PICK e : e = After(u, p)
      OBVIOUS
    <3>5. Chosen(e, p)'
      BY <1>1, <3>1, <3>4 DEF Chosen, Best
    <3> QED BY <3>1, <3>2, <3>3, <3>4, <3>5 DEF BestFor
  <2>4. CASE (\A u \in Tasks : task[u].pc # "apply") /\ Chosen(local_table[p], p)
    <3>1. Chosen(local_table[p], p)'
      BY <1>1, <2>4 DEF Chosen, Best
    <3> QED BY <1>4, <2>4, <3>1 DEF BestFor
  <2> QED BY <2>1, <2>2, <2>3, <2>4 DEF BestFor
<1> QED BY <1>6, <1>7

\* A task reads the store's routes.
LEMMA LoadStep == ASSUME Inv, NEW t \in Tasks, Load(t) PROVE Inv'
<1>1. RouteTypes /\ OffersOK /\ StaticOK
  BY DEF Inv
<1>2. /\ task \in [Tasks -> TaskState] /\ configured \in [Destinations -> Accounts \cup {None}]
  BY <1>1, Types
<1>3. PICK new : new = [task[t] EXCEPT !.pc = "compute", !.configured = configured]
  OBVIOUS
<1>4. /\ task[t].pc = "load"
      /\ UNCHANGED <<configured, incoming, tables, stored, excuse, updates, disturbances>>
      /\ UNCHANGED <<local_table, forwarding_table, announced>>
      /\ task' = [task EXCEPT ![t].pc = "compute", ![t].configured = configured]
  BY DEF Load, tables, counters
<1>5. /\ new \in TaskState /\ new.pc = "compute" /\ new.configured = configured
      /\ new.prefixes = task[t].prefixes
  BY <1>2, <1>3 DEF TaskState
<1>6. Moves(t, new)
  BY <1>2, <1>3, <1>4 DEF Moves, TaskState
<1>7. StaticOK' /\ AloneOK' /\ DisjointOK'
  <2>1. "static" \notin excuse' =>
          \A p \in Destinations : configured'[p] = None /\ new.configured[p] = None
    BY <1>1, <1>4, <1>5 DEF StaticOK
  <2> QED BY <1>4, <1>5, <1>6, <2>1, MoveKeeps
<1>8. RouterOK'
  BY <1>4, <1>5, <1>6, RouterKeeps
<1>9. SoundOK' /\ BestOK'
  BY <1>4, <1>5, <1>6, QuietKeeps
<1>10. task' \in [Tasks -> TaskState]
  BY <1>1, <1>5, <1>6, MovesTask
<1>11. RouteTypes'
  BY <1>1, <1>4, <1>10, Types, TypesNext
<1>12. OffersOK'
  BY <1>1, <1>4 DEF OffersOK
<1>13. ForwardsAsRouted'
  BY <1>4, TablesKeep
<1> QED BY <1>7, <1>8, <1>9, <1>11, <1>12, <1>13 DEF Inv

\* A task ends with an excuse, before it has changed anything or before it has
\* written the table.
LEMMA FailStep == ASSUME Inv, NEW t \in Tasks, Fail(t) \/ SetNoRoutes(t) PROVE Inv'
<1>1. RouteTypes /\ OffersOK /\ StaticOK /\ disturbances \in 0..MaxDisturbances
  BY Types DEF Inv
<1>2. /\ task[t].pc # "idle" /\ Moves(t, NoTask) /\ excuse' = excuse \cup {"failed"}
      /\ UNCHANGED <<configured, incoming, tables, stored, updates>>
      /\ UNCHANGED <<local_table, forwarding_table, announced>>
  BY DEF Fail, SetNoRoutes, Moves, tables, counters
<1>3. disturbances' \in 0..MaxDisturbances
  BY <1>1, BestRoutesAssumption DEF Fail, SetNoRoutes, counters
<1>4. PICK new \in TaskState : new = NoTask
  BY NoTaskType
<1>5. StaticOK' /\ AloneOK' /\ DisjointOK'
  <2>1. new.pc = "idle" /\ \A p \in Destinations : new.configured[p] = None
    BY <1>4, NoTaskType, NoRoutesType, Zenon
  <2>2. "static" \notin excuse' =>
          \A p \in Destinations : configured'[p] = None /\ new.configured[p] = None
    BY <1>1, <1>2, <2>1 DEF StaticOK
  <2> QED BY <1>2, <1>4, <2>1, <2>2, MoveKeeps
<1>6. RouterOK' /\ SoundOK' /\ BestOK'
  BY <1>2 DEF RouterOK, SoundOK, BestOK
<1>7. task' \in [Tasks -> TaskState]
  BY <1>1, <1>2, <1>4, MovesTask
<1>8. RouteTypes'
  BY <1>1, <1>2, <1>3, <1>7, Types, TypesNext DEF Excuses
<1>9. OffersOK'
  BY <1>1, <1>2 DEF OffersOK
<1>10. ForwardsAsRouted'
  BY <1>2, TablesKeep
<1> QED BY <1>5, <1>6, <1>8, <1>9, <1>10 DEF Inv

\* The copy is written.
LEMMA SetRoutesStep == ASSUME Inv, NEW t \in Tasks, SetRoutes(t) PROVE Inv'
<1>1. RouteTypes /\ OffersOK /\ StaticOK /\ RouterOK /\ AloneOK
  BY DEF Inv
<1>2. /\ task[t].pc = "write" /\ Moves(t, NoTask)
      /\ stored' = [p \in Destinations |-> IF task[t].table[p] = None THEN None
                                           ELSE task[t].table[p].account]
      /\ UNCHANGED <<configured, incoming, tables, excuse, updates, disturbances>>
      /\ UNCHANGED <<local_table, forwarding_table, announced>>
  BY DEF SetRoutes, WriteRoutes, AccountsOf, Moves, tables, counters
<1>3. PICK new \in TaskState : new = NoTask
  BY NoTaskType
<1>4. new.pc = "idle" /\ \A p \in Destinations : new.configured[p] = None
  BY <1>3, NoTaskType, NoRoutesType, Zenon
<1>5. Moves(t, new)
  BY <1>2, <1>3
<1>6. /\ task' \in [Tasks -> TaskState] /\ task'[t] = new
      /\ \A u \in Tasks : u # t => task'[u] = task[u]
  BY <1>1, <1>5, MovesTask
<1>7. StaticOK' /\ AloneOK' /\ DisjointOK'
  <2>1. "static" \notin excuse' =>
          \A p \in Destinations : configured'[p] = None /\ new.configured[p] = None
    BY <1>1, <1>2, <1>4 DEF StaticOK
  <2> QED BY <1>2, <1>4, <1>5, <2>1, MoveKeeps
<1>8. RouterOK'
  <2> SUFFICES ASSUME "overlap" \notin excuse, "failed" \notin excuse
               PROVE  /\ \A u \in Tasks : task'[u].pc = "write" => task'[u].table = local_table
                      /\ \A p \in Destinations :
                           stored'[p] = IF local_table[p] = None THEN None
                                        ELSE local_table[p].account
    BY <1>2 DEF RouterOK
  <2>1. task[t].table = local_table /\ \A u \in Tasks : u # t => task[u].pc = "idle"
    BY <1>1, <1>2 DEF RouterOK, AloneOK
  <2>2. \A u \in Tasks : task'[u].pc # "write"
    BY <1>4, <1>6, <2>1
  <2> QED BY <1>2, <2>1, <2>2
<1>9. SoundOK' /\ BestOK'
  BY <1>2, <1>4, <1>5, QuietKeeps
<1>10. stored' \in [Destinations -> Accounts \cup {None}]
  <2>1. task[t].table \in Table
    BY <1>1, Types DEF TaskState
  <2>2. \A p \in Destinations : task[t].table[p] # None => task[t].table[p].account \in Accounts
    BY <2>1, EntryType DEF Table
  <2> QED BY <1>2, <2>2
<1>11. RouteTypes'
  BY <1>1, <1>2, <1>6, <1>10, Types, TypesNext
<1>12. OffersOK'
  BY <1>1, <1>2 DEF OffersOK
<1>13. ForwardsAsRouted'
  BY <1>2, TablesKeep
<1> QED BY <1>7, <1>8, <1>9, <1>11, <1>12, <1>13 DEF Inv

\* The choice is about the account.
LEMMA ChosenAccount ==
  ASSUME NEW p, NEW d, NEW e, Chosen(d, p), d # None, e # None, e.account = d.account
  PROVE  Chosen(e, p)
BY DEF Chosen

\* A task looks at the tables.
LEMMA ComputeStep == ASSUME Inv, NEW t \in Tasks, Compute(t) PROVE Inv'
<1>1. RouteTypes /\ OffersOK /\ StaticOK /\ AloneOK /\ SoundOK /\ BestOK
  BY DEF Inv
<1>2. /\ task[t].pc = "compute"
      /\ UNCHANGED <<configured, incoming, tables, stored, excuse, updates, disturbances>>
      /\ UNCHANGED <<local_table, forwarding_table, announced>>
  BY DEF Compute, tables, counters
<1>3. PICK better \in Table, withdrawn \in SUBSET Destinations, new \in TaskState :
        /\ Finds(t, better, withdrawn) /\ Moves(t, new)
        /\ \/ new = NoTask /\ withdrawn = {} /\ \A p \in Destinations : better[p] = None
           \/ /\ new.pc = "apply" /\ new.better = better /\ new.withdrawn = withdrawn
              /\ new.prefixes = task[t].prefixes /\ new.configured = task[t].configured
  BY <1>1, ComputeIs
<1>4. /\ task' \in [Tasks -> TaskState] /\ task'[t] = new
      /\ \A u \in Tasks : u # t => task'[u] = task[u]
  BY <1>1, <1>3, MovesTask
<1>5. /\ incoming \in [Accounts -> Table] /\ local_table \in Table
      /\ task[t] \in TaskState /\ task[t].configured \in [Destinations -> Accounts \cup {None}]
  BY <1>1, Types DEF TaskState
<1>6. PICK static \in [Destinations -> Accounts \cup {None}] : static = task[t].configured
  BY <1>5
<1>7. ASSUME NEW p \in Destinations, NEW best, best = BestRoute(p, static)
      PROVE  /\ better[p] # None => p \in ToCheck(t) /\ better[p] = best
             /\ p \in withdrawn <=> p \in ToCheck(t) /\ best = None
             /\ p \in ToCheck(t) /\ best # None /\ better[p] = None =>
                  Resolve(local_table, p) # None /\ Resolve(local_table, p).account = best.account
  BY <1>3, <1>6, <1>7 DEF Finds
<1>8. new.pc = "idle" \/ new.pc = "apply"
  BY <1>3, NoTaskType
<1>9. StaticOK' /\ AloneOK' /\ DisjointOK'
  <2>1. new.pc = "apply" => \A p \in new.withdrawn : new.better[p] = None
    <3>1. ASSUME NEW p \in withdrawn PROVE better[p] = None
      <4>1. PICK best : best = BestRoute(p, static)
        OBVIOUS
      <4> QED BY <1>7, <4>1
    <3> QED BY <1>3, <3>1, NoTaskType
  <2>2. "static" \notin excuse' =>
          \A p \in Destinations : configured'[p] = None /\ new.configured[p] = None
    <3>1. new = NoTask => \A p \in Destinations : new.configured[p] = None
      BY NoTaskType, NoRoutesType, Zenon
    <3>2. new = NoTask \/ new.configured = task[t].configured
      BY <1>3
    <3> QED BY <1>1, <1>2, <3>1, <3>2 DEF StaticOK
  <2> QED BY <1>2, <1>3, <2>1, <2>2, MoveKeeps
<1>10. RouterOK'
  BY <1>2, <1>3, <1>8, RouterKeeps
<1>11. ASSUME "static" \notin excuse, "overlap" \notin excuse
       PROVE  /\ \A p \in Destinations : static[p] = None
              /\ \A u \in Tasks : u # t => task[u].pc = "idle"
              /\ \A p \in Destinations : Pending(p) => p \in ToCheck(t)
  <2>1. \A p \in Destinations : static[p] = None
    BY <1>1, <1>6, <1>11 DEF StaticOK
  <2>2. \A u \in Tasks : u # t => task[u].pc = "idle"
    BY <1>1, <1>2, <1>11 DEF AloneOK
  <2>3. ASSUME NEW p \in Destinations, Pending(p) PROVE p \in ToCheck(t)
    <3>1. p \in task[t].prefixes
      BY <2>2, <2>3 DEF Pending
    <3> QED BY <3>1 DEF ToCheck
  <2> QED BY <2>1, <2>2, <2>3
<1>12. \A p : IsOffered(p)' <=> IsOffered(p)
  BY <1>2 DEF IsOffered, OfferedBy
<1>13. SoundOK'
  <2> SUFFICES ASSUME excuse' \subseteq {"modified"}
               PROVE  (RoutedOK /\ WithdrawnOK /\ FoundOK /\ AnnouncedOK)'
    BY DEF SoundOK
  <2>1. RoutedOK /\ AnnouncedOK /\ "static" \notin excuse /\ "overlap" \notin excuse
    BY <1>1, <1>2 DEF SoundOK
  <2>2. /\ \A p \in Destinations : static[p] = None
        /\ \A u \in Tasks : u # t => task[u].pc = "idle"
        /\ \A p \in Destinations : Pending(p) => p \in ToCheck(t)
    BY <1>11, <2>1
  <2>3. \A u \in Tasks : task'[u].pc = "apply" => u = t
    BY <1>4, <2>2
  <2>4. RoutedOK'
    <3>1. ASSUME NEW p \in Destinations, Above[p] = {p}, IsOffered(p)'
          PROVE  \/ local_table'[p] # None
                 \/ \E u \in Tasks : task'[u].pc = "apply" /\ task'[u].better[p] # None
      <4>1. Pending(p) \/ local_table[p] # None
        BY <1>2, <1>12, <2>1, <2>2, <3>1 DEF RoutedOK
      <4>2. CASE local_table[p] # None
        BY <1>2, <4>2
      <4>3. CASE Pending(p)
        <5>1. PICK best : best = BestRoute(p, static)
          OBVIOUS
        <5>2. best # None
          BY <1>1, <1>5, <1>12, <3>1, <5>1, BestType
        <5>3. Resolve(local_table, p) = local_table[p]
          BY <3>1, ResolveOutermost
        <5>4. better[p] = None => local_table[p] # None
          BY <1>7, <2>2, <4>3, <5>1, <5>2, <5>3
        <5>5. better[p] # None => task'[t].pc = "apply" /\ task'[t].better[p] # None
          BY <1>3, <1>4
        <5> QED BY <1>2, <5>4, <5>5
      <4> QED BY <4>1, <4>2, <4>3
    <3> QED BY <3>1 DEF RoutedOK
  <2>5. WithdrawnOK'
    <3>1. ASSUME NEW p \in withdrawn PROVE ~IsOffered(p)'
      <4>1. PICK best : best = BestRoute(p, static)
        OBVIOUS
      <4>2. best = None
        BY <1>7, <4>1
      <4> QED BY <1>1, <1>5, <1>12, <4>1, <4>2, BestType
    <3>2. task'[t].pc = "apply" => task'[t].withdrawn = withdrawn
      BY <1>3, <1>4, NoTaskType
    <3> QED BY <2>3, <3>1, <3>2 DEF WithdrawnOK
  <2>6. FoundOK'
    <3>1. ASSUME NEW p \in Destinations, better[p] # None
          PROVE  /\ better[p].route.prefix \in Above[p]
                 /\ better[p].route.prefix = p \/ IsOffered(better[p].route.prefix)
      <4>1. PICK best : best = BestRoute(p, static)
        OBVIOUS
      <4>2. better[p] = best /\ best # None
        BY <1>7, <3>1, <4>1
      <4>3. best.route.prefix \in Above[p] /\ (best.route.prefix = p \/ IsOffered(best.route.prefix))
        BY <1>1, <1>5, <2>2, <4>1, <4>2, BestFound
      <4> QED BY <4>2, <4>3
    <3>2. task'[t].pc = "apply" => task'[t].better = better
      BY <1>3, <1>4, NoTaskType
    <3>3. ASSUME NEW u \in Tasks, task'[u].pc = "apply", NEW p \in Destinations,
                 task'[u].better[p] # None, NEW r, r = task'[u].better[p].route.prefix
          PROVE  r \in Above[p] /\ (r = p \/ IsOffered(r)')
      <4>1. u = t /\ task'[u].better = better
        BY <2>3, <3>2, <3>3
      <4>2. better[p] # None /\ r = better[p].route.prefix
        BY <3>3, <4>1
      <4>3. r \in Above[p] /\ (r = p \/ IsOffered(r))
        BY <3>1, <4>2
      <4> QED BY <1>12, <4>3
    <3> QED BY <3>3 DEF FoundOK
  <2>7. AnnouncedOK'
    BY <1>2, <2>1 DEF AnnouncedOK
  <2> QED BY <2>4, <2>5, <2>6, <2>7
<1>14. BestOK'
  <2> SUFFICES ASSUME excuse' = {}, NEW p \in Destinations, Above[p] = {p}, local_routes[p] = None
               PROVE  BestFor(p)'
    BY DEF BestOK
  <2>1. BestFor(p) /\ "static" \notin excuse /\ "overlap" \notin excuse
    BY <1>1, <1>2 DEF BestOK
  <2>2. /\ \A q \in Destinations : static[q] = None
        /\ \A u \in Tasks : u # t => task[u].pc = "idle"
        /\ Pending(p) => p \in ToCheck(t)
    BY <1>11, <2>1
  <2>3. PICK e : e = IF p \in withdrawn THEN None
                     ELSE IF better[p] # None THEN better[p] ELSE local_table[p]
    OBVIOUS
  <2>4. PICK best : best = BestRoute(p, static)
    OBVIOUS
  <2>5. /\ better[p] # None => p \in ToCheck(t) /\ better[p] = best
        /\ p \in withdrawn <=> p \in ToCheck(t) /\ best = None
        /\ p \in ToCheck(t) /\ best # None /\ better[p] = None =>
             local_table[p] # None /\ local_table[p].account = best.account
    BY <1>7, <2>4, ResolveOutermost
  <2>6. Chosen(e, p)
    <3>1. CASE p \in ToCheck(t)
      <4>1. Chosen(best, p)
        BY <1>1, <1>5, <2>2, <2>4, BestChosen
      <4>2. CASE best = None
        <5>1. e = best
          BY <2>3, <2>5, <3>1, <4>2
        <5> QED BY <4>1, <5>1
      <4>3. CASE best # None /\ better[p] # None
        <5>1. e = best
          BY <2>3, <2>5, <3>1, <4>3
        <5> QED BY <4>1, <5>1
      <4>4. CASE best # None /\ better[p] = None
        <5>1. e # None /\ e.account = best.account
          BY <2>3, <2>5, <3>1, <4>4
        <5> QED BY <4>1, <4>4, <5>1, ChosenAccount
      <4> QED BY <4>2, <4>3, <4>4
    <3>2. CASE p \notin ToCheck(t)
      <4>1. e = local_table[p]
        BY <2>3, <2>5, <3>2
      <4>2. Chosen(local_table[p], p)
        BY <1>2, <2>1, <2>2, <3>2 DEF BestFor
      <4> QED BY <4>1, <4>2
    <3> QED BY <3>1, <3>2
  <2>7. Chosen(e, p)'
    BY <1>2, <2>6 DEF Chosen, Best
  <2>8. CASE new.pc = "apply"
    <3>1. task'[t].pc = "apply" /\ task'[t].better = better /\ task'[t].withdrawn = withdrawn
      BY <1>3, <1>4, <2>8, NoTaskType
    <3>2. After(t, p)' = e
      BY <1>2, <2>3, <3>1 DEF After
    <3> QED BY <2>7, <3>1, <3>2 DEF BestFor
  <2>9. CASE new.pc # "apply"
    <3>1. withdrawn = {} /\ better[p] = None
      BY <1>3, <2>9
    <3>2. e = local_table'[p]
      BY <1>2, <2>3, <3>1
    <3>3. \A u \in Tasks : task'[u].pc # "apply"
      BY <1>4, <2>2, <2>9
    <3> QED BY <2>7, <3>2, <3>3 DEF BestFor
  <2> QED BY <2>8, <2>9
<1>15. RouteTypes'
  BY <1>1, <1>2, <1>4, Types, TypesNext
<1>16. OffersOK'
  BY <1>1, <1>2 DEF OffersOK
<1>17. ForwardsAsRouted'
  BY <1>2, TablesKeep
<1> QED BY <1>9, <1>10, <1>13, <1>14, <1>15, <1>16, <1>17 DEF Inv

\* A task changes the tables.
LEMMA ApplyStep == ASSUME Inv, NEW t \in Tasks, Apply(t) PROVE Inv'
<1>1. /\ RouteTypes /\ OffersOK /\ StaticOK /\ AloneOK /\ DisjointOK /\ ForwardsAsRouted
      /\ SoundOK /\ BestOK
  BY DEF Inv
<1>2. /\ task[t].pc = "apply"
      /\ UNCHANGED <<configured, incoming, stored, excuse, updates, disturbances>>
  BY DEF Apply, counters
<1>3. PICK f : \E new \in TaskState :
        /\ Applies(t, f) /\ Moves(t, new) /\ new.pc = "write" /\ new.table = local_table'
        /\ new.configured = NoRoutes
  BY <1>1, ApplyIs
<1>4. PICK new \in TaskState :
        /\ Applies(t, f) /\ Moves(t, new) /\ new.pc = "write" /\ new.table = local_table'
        /\ new.configured = NoRoutes
  BY <1>3
<1>5. /\ task' \in [Tasks -> TaskState] /\ task'[t] = new
      /\ \A u \in Tasks : u # t => task'[u] = task[u]
  BY <1>1, <1>4, MovesTask
<1>6. PICK better, withdrawn : better = task[t].better /\ withdrawn = task[t].withdrawn
  OBVIOUS
<1>7. /\ \A p \in Destinations :
           /\ local_table'[p] = IF p \in withdrawn THEN None
                                ELSE IF better[p] # None THEN better[p] ELSE local_table[p]
           /\ forwarding_table'[p] = IF p \in withdrawn THEN None ELSE f.table[p]
           /\ announced'[p] # None =>
                \/ f.new[p] # None
                \/ f.new[p] = None /\ p \notin withdrawn /\ announced[p] # None
           /\ better[p] = None => f.table[p] = forwarding_table[p]
           /\ better[p] # None => Agrees(f, p, better[p])
           /\ f.new[p] # None =>
                \E q \in Destinations : better[q] # None /\ better[q].route.prefix = p
  BY <1>4, <1>6 DEF Applies, After, Entered, FoundBy
<1>8. RouteTypes'
  BY <1>1, <1>2, <1>4, <1>5, Types, TypesNext DEF Applies
<1>9. OffersOK'
  BY <1>1, <1>2 DEF OffersOK
<1>10. StaticOK' /\ AloneOK' /\ DisjointOK'
  <2>1. \A p \in Destinations : new.configured[p] = None
    BY <1>4, NoRoutesType, Zenon
  <2>2. "static" \notin excuse' =>
          \A p \in Destinations : configured'[p] = None /\ new.configured[p] = None
    BY <1>1, <1>2, <2>1 DEF StaticOK
  <2> QED BY <1>2, <1>4, <2>2, MoveKeeps
<1>11. ForwardsAsRouted'
  <2>1. ASSUME NEW p \in Destinations, forwarding_table'[p] # None
        PROVE  /\ local_table'[p] # None
               /\ local_table'[p].route.prefix \in Advertisable =>
                    forwarding_table'[p].account = local_table'[p].account
    <3>1. p \notin withdrawn /\ forwarding_table'[p] = f.table[p] /\ f.table[p] # None
      BY <1>7, <2>1
    <3>2. CASE better[p] # None
      <4>1. local_table'[p] = better[p] /\ Agrees(f, p, better[p])
        BY <1>7, <3>1, <3>2
      <4> QED BY <3>1, <3>2, <4>1 DEF Agrees
    <3>3. CASE better[p] = None
      <4>1. local_table'[p] = local_table[p] /\ f.table[p] = forwarding_table[p]
        BY <1>7, <3>1, <3>3
      <4> QED BY <1>1, <3>1, <4>1 DEF ForwardsAsRouted
    <3> QED BY <3>2, <3>3
  <2> QED BY <2>1 DEF ForwardsAsRouted
<1>12. RouterOK'
  <2>1. ASSUME "overlap" \notin excuse', NEW u \in Tasks, task'[u].pc = "write"
        PROVE  task'[u].table = local_table'
    <3>1. u = t
      BY <1>1, <1>2, <1>5, <2>1 DEF AloneOK
    <3> QED BY <1>4, <1>5, <3>1
  <2>2. ~ \A u \in Tasks : task'[u].pc # "write"
    BY <1>4, <1>5
  <2> QED BY <2>1, <2>2 DEF RouterOK
<1>13. ASSUME "overlap" \notin excuse
       PROVE  /\ \A u \in Tasks : u # t => task[u].pc = "idle"
              /\ \A u \in Tasks : task'[u].pc # "apply"
              /\ \A p \in Destinations : ~Pending(p)
  <2>1. \A u \in Tasks : u # t => task[u].pc = "idle"
    BY <1>1, <1>2, <1>13 DEF AloneOK
  <2>2. \A u \in Tasks : task'[u].pc # "apply"
    BY <1>4, <1>5, <2>1
  <2>3. \A p \in Destinations : ~Pending(p)
    BY <1>2, <2>1 DEF Pending
  <2> QED BY <2>1, <2>2, <2>3
<1>14. \A p : IsOffered(p)' <=> IsOffered(p)
  BY <1>2 DEF IsOffered, OfferedBy
<1>15. SoundOK'
  <2> SUFFICES ASSUME excuse' \subseteq {"modified"}
               PROVE  (RoutedOK /\ WithdrawnOK /\ FoundOK /\ AnnouncedOK)'
    BY DEF SoundOK
  <2>1. RoutedOK /\ WithdrawnOK /\ FoundOK /\ AnnouncedOK /\ "overlap" \notin excuse
    BY <1>1, <1>2 DEF SoundOK
  <2>2. /\ \A u \in Tasks : u # t => task[u].pc = "idle"
        /\ \A u \in Tasks : task'[u].pc # "apply"
        /\ \A p \in Destinations : ~Pending(p)
    BY <1>13, <2>1
  <2>3. \A p \in withdrawn : ~IsOffered(p)
    BY <1>2, <1>6, <2>1 DEF WithdrawnOK
  <2>4. ASSUME NEW p \in Destinations, Above[p] = {p}, IsOffered(p)
        PROVE  local_table'[p] # None
    <3>1. local_table[p] # None \/ better[p] # None
      BY <1>6, <2>1, <2>2, <2>4 DEF RoutedOK
    <3>2. p \notin withdrawn
      BY <2>3, <2>4
    <3> QED BY <1>7, <3>1, <3>2
  <2>5. RoutedOK'
    BY <1>14, <2>4 DEF RoutedOK
  <2>6. WithdrawnOK' /\ FoundOK'
    BY <2>2 DEF WithdrawnOK, FoundOK
  <2>7. AnnouncedOK'
    <3>1. ASSUME NEW p \in Destinations, announced'[p] # None, ~Between(p)
          PROVE  local_table'[p] # None
      <4>1. CASE f.new[p] # None
        <5>1. PICK q \in Destinations : better[q] # None /\ better[q].route.prefix = p
          BY <1>7, <4>1
        <5>2. p \in Above[q] /\ (p = q \/ IsOffered(p))
          BY <1>2, <1>6, <2>1, <5>1 DEF FoundOK
        <5>3. CASE p = q
          <6>1. p \notin withdrawn
            BY <1>1, <1>2, <1>6, <5>1, <5>3 DEF DisjointOK
          <6> QED BY <1>7, <5>1, <5>3, <6>1
        <5>4. CASE p # q
          <6>1. Above[p] = {p}
            BY <3>1, <5>2, <5>4 DEF Between
          <6> QED BY <2>4, <5>2, <5>4, <6>1
        <5> QED BY <5>3, <5>4
      <4>2. CASE f.new[p] = None
        <5>1. p \notin withdrawn /\ announced[p] # None
          BY <1>7, <3>1, <4>2
        <5>2. local_table[p] # None
          BY <2>1, <3>1, <5>1 DEF AnnouncedOK
        <5> QED BY <1>7, <5>1, <5>2
      <4> QED BY <4>1, <4>2
    <3> QED BY <3>1 DEF AnnouncedOK, Between
  <2> QED BY <2>5, <2>6, <2>7
<1>16. BestOK'
  <2> SUFFICES ASSUME excuse' = {}, NEW p \in Destinations, Above[p] = {p}, local_routes[p] = None
               PROVE  BestFor(p)'
    BY DEF BestOK
  <2>1. BestFor(p) /\ "overlap" \notin excuse
    BY <1>1, <1>2 DEF BestOK
  <2>2. /\ \A u \in Tasks : u # t => task[u].pc = "idle"
        /\ \A u \in Tasks : task'[u].pc # "apply"
        /\ ~Pending(p)
    BY <1>13, <2>1
  <2>3. Chosen(After(t, p), p)
    BY <1>2, <2>1, <2>2 DEF BestFor
  <2>4. PICK e : e = After(t, p)
    OBVIOUS
  <2>5. local_table'[p] = e
    BY <1>4, <2>4 DEF Applies
  <2>6. Chosen(e, p)'
    BY <1>2, <2>3, <2>4 DEF Chosen, Best
  <2> QED BY <2>2, <2>5, <2>6 DEF BestFor
<1> QED BY <1>8, <1>9, <1>10, <1>11, <1>12, <1>15, <1>16 DEF Inv

-----------------------------------------------------------------------------
(* The tasks *)

\* The invariant holds at the start.
LEMMA InvInit == ASSUME Init PROVE Inv
<1>1. /\ configured = NoRoutes /\ incoming = [a \in Accounts |-> NoRoutes]
      /\ local_table = NoRoutes /\ forwarding_table = NoRoutes /\ announced = NoRoutes
      /\ stored = NoRoutes /\ task = [t \in Tasks |-> NoTask] /\ excuse = {}
      /\ updates = 0 /\ disturbances = 0
  BY DEF Init, StoreInit
<1>2. PICK none : none = NoRoutes
  OBVIOUS
<1>3. /\ none \in Table /\ none \in [Destinations -> Accounts \cup {None}]
      /\ none \in [Destinations -> Nat \cup {None}] /\ \A p \in Destinations : none[p] = None
  BY <1>2, NoRoutesType, Zenon
<1>4. PICK idle \in TaskState : idle = NoTask /\ idle.pc = "idle" /\ idle.configured = none
  BY <1>2, NoTaskType
<1>5. \A t \in Tasks : task[t] = idle
  BY <1>1, <1>4
<1>6. \A a \in Accounts : incoming[a] = none
  BY <1>1, <1>2
<1>7. RouteTypes
  <2>1. task \in [Tasks -> TaskState] /\ incoming \in [Accounts -> Table]
    BY <1>1, <1>2, <1>3, <1>4
  <2>2. updates \in 0..MaxUpdates /\ disturbances \in 0..MaxDisturbances
    BY <1>1, BestRoutesAssumption
  <2> QED BY <1>1, <1>2, <1>3, <2>1, <2>2 DEF RouteTypes
<1>8. OffersOK
  BY <1>3, <1>6 DEF OffersOK
<1>9. StaticOK
  BY <1>1, <1>2, <1>3, <1>4, <1>5 DEF StaticOK
<1>10. AloneOK /\ DisjointOK
  BY <1>4, <1>5 DEF AloneOK, DisjointOK
<1>11. ForwardsAsRouted /\ RouterOK
  BY <1>1, <1>2, <1>3, <1>4, <1>5 DEF ForwardsAsRouted, RouterOK
<1>12. \A p \in Destinations : ~IsOffered(p)
  BY <1>3, <1>6 DEF IsOffered, OfferedBy
<1>13. SoundOK
  <2>1. RoutedOK
    BY <1>12 DEF RoutedOK
  <2>2. WithdrawnOK /\ FoundOK
    BY <1>4, <1>5 DEF WithdrawnOK, FoundOK
  <2>3. AnnouncedOK
    BY <1>1, <1>2, <1>3 DEF AnnouncedOK
  <2> QED BY <2>1, <2>2, <2>3 DEF SoundOK
<1>14. BestOK
  <2>1. ASSUME NEW p \in Destinations PROVE Chosen(local_table[p], p)
    <3>1. local_table[p] = None /\ \A a \in Accounts : incoming[a][p] = None
      BY <1>1, <1>2, <1>3, <1>6
    <3> QED BY <3>1 DEF Chosen
  <2>2. \A t \in Tasks : task[t].pc # "apply"
    BY <1>4, <1>5
  <2> QED BY <2>1, <2>2 DEF BestOK, BestFor
<1> QED BY <1>7, <1>8, <1>9, <1>10, <1>11, <1>13, <1>14 DEF Inv

\* Nothing that the tasks work with changes.
LEMMA QuietStep ==
  ASSUME Inv, UNCHANGED <<configured, incoming, tables, stored, task, excuse, updates>>,
         disturbances' \in 0..MaxDisturbances
  PROVE  Inv'
<1>1. UNCHANGED <<configured, incoming, local_table, forwarding_table, announced, stored, task,
                  excuse, updates>>
  BY DEF tables
<1>2. /\ RouteTypes /\ OffersOK /\ StaticOK /\ AloneOK /\ DisjointOK /\ ForwardsAsRouted
      /\ RouterOK /\ SoundOK /\ BestOK
  BY DEF Inv
<1>3. RouteTypes'
  BY <1>1, <1>2, Types, TypesNext
<1>4. OffersOK' /\ StaticOK'
  BY <1>1, <1>2 DEF OffersOK, StaticOK
<1>5. AloneOK' /\ DisjointOK' /\ ForwardsAsRouted' /\ RouterOK'
  BY <1>1, TasksKeep DEF tables
<1>6. SoundOK'
  BY <1>1, <1>2 DEF SoundOK, RoutedOK, WithdrawnOK, FoundOK, AnnouncedOK, Pending, IsOffered,
                    OfferedBy, Between
<1>7. BestOK'
  BY <1>1, <1>2 DEF BestOK, BestFor, Pending, Chosen, Best, After
<1> QED BY <1>3, <1>4, <1>5, <1>6, <1>7 DEF Inv

\* Every step keeps the invariant.
LEMMA InvStep == ASSUME Inv, [Next]_vars PROVE Inv'
<1>1. Offered \subseteq Destinations /\ Lengths \in [Accounts -> SUBSET Nat]
  BY BestRoutesAssumption
<1>2. CASE \E t \in Tasks, a \in Accounts, gone, new \in SUBSET Offered : \E path \in Lengths[a] :
             HandleUpdate(t, a, gone, new, path)
  <2>1. PICK t \in Tasks, a \in Accounts, gone \in SUBSET Offered, new \in SUBSET Offered :
          \E path \in Lengths[a] : HandleUpdate(t, a, gone, new, path)
    BY <1>2
  <2>2. PICK path \in Lengths[a] : HandleUpdate(t, a, gone, new, path)
    BY <2>1
  <2>3. path \in Nat /\ gone \in SUBSET Destinations /\ new \in SUBSET Destinations
    BY <1>1
  <2> QED BY <2>2, <2>3, HandleUpdateStep
<1>3. CASE \E c \in Callers : RefreshRoutes(c) \/ FailRefresh(c)
  <2>1. disturbances \in 0..MaxDisturbances
    BY Types DEF Inv
  <2>2. disturbances' \in 0..MaxDisturbances
    BY <1>3, <2>1, BestRoutesAssumption DEF RefreshRoutes, FailRefresh, counters
  <2>3. UNCHANGED <<configured, incoming, tables, stored, task, excuse, updates>>
    BY <1>3 DEF RefreshRoutes, FailRefresh, LoadRoutes, InstallRoutes,
                RefreshFails, counters
  <2> QED BY <2>2, <2>3, QuietStep
<1>4. CASE \E t \in Tasks : BroadcastRoutes(t)
  BY <1>4, BroadcastStep
<1>5. CASE \E t \in Tasks : Fail(t) \/ SetNoRoutes(t)
  BY <1>5, FailStep
<1>6. CASE \E t \in Tasks : Load(t)
  BY <1>6, LoadStep
<1>7. CASE \E t \in Tasks : Compute(t)
  BY <1>7, ComputeStep
<1>8. CASE \E t \in Tasks : Apply(t)
  BY <1>8, ApplyStep
<1>9. CASE \E t \in Tasks : SetRoutes(t)
  BY <1>9, SetRoutesStep
<1>10. CASE \E a \in Accounts, p \in Offered : \E path \in Lengths[a] : Reannounce(a, p, path)
  <2>1. PICK a \in Accounts, p \in Offered : \E path \in Lengths[a] : Reannounce(a, p, path)
    BY <1>10
  <2>2. PICK path \in Lengths[a] : Reannounce(a, p, path)
    BY <2>1
  <2>3. path \in Nat /\ p \in Destinations
    BY <1>1
  <2> QED BY <2>2, <2>3, ReannounceStep
<1>11. CASE \E routes \in StaticRoutes : SetStatic(routes)
  <2>1. PICK routes \in StaticRoutes : SetStatic(routes)
    BY <1>11
  <2>2. routes \in [Destinations -> Accounts \cup {None}]
    BY BestRoutesAssumption
  <2> QED BY <2>1, <2>2, SetStaticStep
<1>12. CASE UNCHANGED vars
  <2>1. UNCHANGED <<configured, incoming, tables, stored, task, excuse, updates, disturbances>>
    BY <1>12 DEF vars, tables
  <2>2. disturbances \in 0..MaxDisturbances
    BY Types DEF Inv
  <2> QED BY <2>1, <2>2, QuietStep
<1>13. CASE PollRoutes
  <2>1. disturbances \in 0..MaxDisturbances
    BY Types DEF Inv
  <2>2. disturbances' \in 0..MaxDisturbances
    BY <1>13, <2>1, BestRoutesAssumption DEF PollRoutes
  <2>3. UNCHANGED <<configured, incoming, tables, stored, task, excuse, updates>>
    BY <1>13 DEF PollRoutes, Poll
  <2> QED BY <2>2, <2>3, QuietStep
<1> QED BY <1>2, <1>3, <1>4, <1>5, <1>6, <1>7, <1>8, <1>9, <1>10, <1>11, <1>12, <1>13 DEF Next, Step

\* The invariant of the route selection.
LEMMA InvAlways == Spec => []Inv
<1>1. Init => Inv
  BY InvInit
<1>2. Inv /\ [Next]_vars => Inv'
  BY InvStep
<1> QED BY <1>1, <1>2, PTL DEF Spec

-----------------------------------------------------------------------------
(* The router *)

RefreshState == [pc : {"idle", "load", "install"},
                 routes : [Destinations -> Accounts \cup {None}]]

StoreTypes ==
  /\ configured \in [Destinations -> Accounts \cup {None}]
  /\ stored \in [Destinations -> Accounts \cup {None}]
  /\ router \in [Destinations -> Accounts \cup {None}]
  /\ refresh \in [Callers -> RefreshState] /\ behind \in BOOLEAN

\* A call of update_routes has yet to read the store.
Loading == \E c \in Callers : refresh[c].pc = "load"

\* Unless the router is behind, one call at a time has read what it has yet to
\* install, and it has read what the store has; when there is none the router
\* has it.  A call that has yet to read makes up for what was written since.
FreshOK ==
  ~behind =>
    /\ \A c, d \in Callers : refresh[c].pc = "install" /\ refresh[d].pc = "install" => c = d
    /\ Loading \/ \A c \in Callers : refresh[c].pc = "install" => refresh[c].routes = RoutesInStore
    /\ Loading \/ (\E c \in Callers : refresh[c].pc = "install") \/ router = RoutesInStore

RefreshInv == StoreTypes /\ FreshOK

\* A call that does nothing.
LEMMA NoRefreshType == NoRefresh \in RefreshState /\ NoRefresh.pc = "idle"
BY NoRoutesType DEF NoRefresh, RefreshState

\* What the store has.
LEMMA RoutesInStoreType ==
  ASSUME StoreTypes PROVE RoutesInStore \in [Destinations -> Accounts \cup {None}]
BY DEF StoreTypes, RoutesInStore

\* Caller c goes on with new.
LEMMA RefreshMoves ==
  ASSUME StoreTypes, NEW c \in Callers, NEW new \in RefreshState,
         refresh' = [refresh EXCEPT ![c] = new]
  PROVE  /\ refresh' \in [Callers -> RefreshState] /\ refresh'[c] = new
         /\ \A d \in Callers : d # c => refresh'[d] = refresh[d]
BY DEF StoreTypes

\* Routes are written, or not, and update_routes is called.
LEMMA WriteStep ==
  ASSUME RefreshInv, NEW c \in Callers, UpdateRoutes(c),
         configured' \in [Destinations -> Accounts \cup {None}],
         stored' \in [Destinations -> Accounts \cup {None}]
  PROVE  RefreshInv'
<1>1. StoreTypes /\ FreshOK
  BY DEF RefreshInv
<1>2. PICK new : new = [NoRefresh EXCEPT !.pc = "load"]
  OBVIOUS
<1>3. new \in RefreshState /\ new.pc = "load"
  BY <1>2, NoRefreshType DEF RefreshState
<1>4. /\ refresh[c].pc = "idle" /\ refresh' = [refresh EXCEPT ![c] = new]
      /\ UNCHANGED <<router, behind>>
  BY <1>2 DEF UpdateRoutes
<1>5. /\ refresh' \in [Callers -> RefreshState] /\ refresh'[c] = new
      /\ \A d \in Callers : d # c => refresh'[d] = refresh[d]
  BY <1>1, <1>3, <1>4, RefreshMoves
<1>6. Loading'
  BY <1>3, <1>5 DEF Loading
<1>7. ASSUME ~behind
      PROVE  \A d, e \in Callers : refresh'[d].pc = "install" /\ refresh'[e].pc = "install" => d = e
  BY <1>1, <1>3, <1>5, <1>7 DEF FreshOK
<1>8. FreshOK'
  BY <1>4, <1>6, <1>7 DEF FreshOK
<1>9. StoreTypes'
  BY <1>1, <1>4, <1>5 DEF StoreTypes
<1> QED BY <1>8, <1>9 DEF RefreshInv

\* A call reads the store: alone, or the router may fall behind.
LEMMA LoadRoutesStep ==
  ASSUME RefreshInv, NEW c \in Callers, LoadRoutes(c) PROVE RefreshInv'
<1>1. StoreTypes
  BY DEF RefreshInv
<1>2. PICK routes : routes = RoutesInStore
  OBVIOUS
<1>3. PICK new : new = [pc |-> "install", routes |-> routes]
  OBVIOUS
<1>4. new \in RefreshState /\ new.pc = "install" /\ new.routes = routes
  BY <1>1, <1>2, <1>3, RoutesInStoreType DEF RefreshState
<1>5. /\ refresh' = [refresh EXCEPT ![c] = new]
      /\ behind' = \E o \in Callers \ {c} : refresh[o].pc = "install"
      /\ UNCHANGED <<configured, stored, router>>
  BY <1>2, <1>3 DEF LoadRoutes
<1>6. /\ refresh' \in [Callers -> RefreshState] /\ refresh'[c] = new
      /\ \A d \in Callers : d # c => refresh'[d] = refresh[d]
  BY <1>1, <1>4, <1>5, RefreshMoves
<1>7. RoutesInStore' = routes
  BY <1>2, <1>5 DEF RoutesInStore
<1>8. ASSUME ~behind' PROVE \A d \in Callers : refresh'[d].pc = "install" => d = c
  BY <1>5, <1>6, <1>8
<1>9. FreshOK'
  <2>1. refresh'[c].pc = "install" /\ refresh'[c].routes = RoutesInStore'
    BY <1>4, <1>6, <1>7
  <2> QED BY <1>8, <2>1 DEF FreshOK
<1>10. StoreTypes'
  BY <1>1, <1>5, <1>6 DEF StoreTypes
<1> QED BY <1>9, <1>10 DEF RefreshInv

\* It installs what it has read.
LEMMA InstallRoutesStep ==
  ASSUME RefreshInv, NEW c \in Callers, InstallRoutes(c) PROVE RefreshInv'
<1>1. StoreTypes /\ FreshOK
  BY DEF RefreshInv
<1>2. PICK new \in RefreshState : new = NoRefresh /\ new.pc = "idle"
  BY NoRefreshType
<1>3. /\ refresh[c].pc = "install" /\ router' = refresh[c].routes
      /\ refresh' = [refresh EXCEPT ![c] = new] /\ UNCHANGED <<configured, stored, behind>>
  BY <1>2 DEF InstallRoutes
<1>4. /\ refresh' \in [Callers -> RefreshState] /\ refresh'[c] = new
      /\ \A d \in Callers : d # c => refresh'[d] = refresh[d]
  BY <1>1, <1>2, <1>3, RefreshMoves
<1>5. RoutesInStore' = RoutesInStore
  BY <1>3 DEF RoutesInStore
<1>6. Loading => Loading'
  BY <1>3, <1>4 DEF Loading
<1>7. ASSUME ~behind
      PROVE  /\ \A d \in Callers : refresh'[d].pc # "install"
             /\ Loading \/ router' = RoutesInStore
  <2>1. \A d \in Callers : refresh[d].pc = "install" => d = c
    BY <1>1, <1>3, <1>7 DEF FreshOK
  <2>2. Loading \/ refresh[c].routes = RoutesInStore
    BY <1>1, <1>3, <1>7 DEF FreshOK
  <2> QED BY <1>2, <1>3, <1>4, <2>1, <2>2
<1>8. FreshOK'
  BY <1>3, <1>5, <1>6, <1>7 DEF FreshOK
<1>9. StoreTypes'
  <2>1. refresh[c].routes \in [Destinations -> Accounts \cup {None}]
    BY <1>1 DEF StoreTypes, RefreshState
  <2> QED BY <1>1, <1>3, <1>4, <2>1 DEF StoreTypes
<1> QED BY <1>8, <1>9 DEF RefreshInv

\* The store cannot be read.
LEMMA RefreshFailsStep ==
  ASSUME RefreshInv, NEW c \in Callers, RefreshFails(c) PROVE RefreshInv'
<1>1. StoreTypes
  BY DEF RefreshInv
<1>2. PICK new \in RefreshState : new = NoRefresh
  BY NoRefreshType
<1>3. /\ behind' = TRUE /\ refresh' = [refresh EXCEPT ![c] = new]
      /\ UNCHANGED <<configured, stored, router>>
  BY <1>2 DEF RefreshFails
<1>4. StoreTypes'
  BY <1>1, <1>3, RefreshMoves DEF StoreTypes
<1> QED BY <1>3, <1>4 DEF RefreshInv, FreshOK

\* The tasks leave the store and the router alone, except when one writes.
LEMMA RefreshStep == ASSUME Inv, RefreshInv, [Next]_vars PROVE RefreshInv'
<1>1. StoreTypes /\ FreshOK /\ RouteTypes
  BY DEF Inv, RefreshInv
<1>2. Tasks \subseteq Callers /\ operator \in Callers /\ poller \in Callers
  BY BestRoutesAssumption
<1>3. CASE UNCHANGED <<configured, stored, refreshing>>
  <2>1. UNCHANGED <<configured, stored, router, refresh, behind>>
    BY <1>3 DEF refreshing
  <2> QED BY <1>1, <2>1 DEF RefreshInv, StoreTypes, FreshOK, Loading, RoutesInStore
<1>4. CASE \E t \in Tasks : SetRoutes(t)
  <2>1. PICK t \in Tasks : SetRoutes(t)
    BY <1>4
  <2>2. t \in Callers /\ UpdateRoutes(t) /\ stored' = AccountsOf(task[t].table) /\ UNCHANGED configured
    BY <1>2, <2>1 DEF SetRoutes, WriteRoutes
  <2>3. task[t].table \in Table
    BY <1>1, Types DEF TaskState
  <2>4. \A p \in Destinations : task[t].table[p] # None => task[t].table[p].account \in Accounts
    BY <2>3, EntryType DEF Table
  <2>5. stored' \in [Destinations -> Accounts \cup {None}]
    BY <2>2, <2>4 DEF AccountsOf
  <2>6. configured' \in [Destinations -> Accounts \cup {None}]
    BY <1>1, <2>2 DEF StoreTypes
  <2> QED BY <2>2, <2>5, <2>6, WriteStep
<1>5. CASE \E routes \in StaticRoutes : SetStatic(routes)
  <2>1. PICK routes \in StaticRoutes : SetStatic(routes)
    BY <1>5
  <2>2. UpdateRoutes(operator) /\ configured' = routes /\ UNCHANGED stored
    BY <2>1 DEF SetStatic, WriteStatic
  <2>3. routes \in [Destinations -> Accounts \cup {None}]
    BY BestRoutesAssumption
  <2>4. stored' \in [Destinations -> Accounts \cup {None}]
    BY <1>1, <2>2 DEF StoreTypes
  <2> QED BY <1>2, <2>2, <2>3, <2>4, WriteStep
<1>6. CASE PollRoutes
  <2>1. UpdateRoutes(poller) /\ UNCHANGED <<configured, stored>>
    BY <1>6 DEF PollRoutes, Poll
  <2>2. /\ configured' \in [Destinations -> Accounts \cup {None}]
        /\ stored' \in [Destinations -> Accounts \cup {None}]
    BY <1>1, <2>1 DEF StoreTypes
  <2> QED BY <1>2, <2>1, <2>2, WriteStep
<1>7. CASE \E c \in Callers : RefreshRoutes(c) \/ FailRefresh(c)
  BY <1>7, LoadRoutesStep, InstallRoutesStep, RefreshFailsStep DEF RefreshRoutes, FailRefresh
<1>8. CASE \E t \in Tasks, a \in Accounts, gone, new \in SUBSET Offered : \E path \in Lengths[a] :
             HandleUpdate(t, a, gone, new, path)
  BY <1>3, <1>8 DEF HandleUpdate
<1>9. CASE \E a \in Accounts, p \in Offered : \E path \in Lengths[a] : Reannounce(a, p, path)
  BY <1>3, <1>9 DEF Reannounce
<1>10. CASE \E t \in Tasks : BroadcastRoutes(t) \/ Fail(t) \/ Load(t) \/ SetNoRoutes(t)
  BY <1>3, <1>10 DEF BroadcastRoutes, Fail, Load, SetNoRoutes
<1>11. CASE \E t \in Tasks : Compute(t)
  <2>1. UNCHANGED <<configured, stored, refreshing>>
    BY <1>11, Zenon DEF Compute
  <2> QED BY <1>3, <2>1
<1>12. CASE \E t \in Tasks : Apply(t)
  <2>1. UNCHANGED <<configured, stored, refreshing>>
    BY <1>12, Zenon DEF Apply
  <2> QED BY <1>3, <2>1
<1>13. CASE UNCHANGED vars
  BY <1>3, <1>13 DEF vars, refreshing
<1> QED BY <1>4, <1>5, <1>6, <1>7, <1>8, <1>9, <1>10, <1>11, <1>12, <1>13 DEF Next, Step

\* At the start the store is empty and so is the router's table.
LEMMA RefreshInit == ASSUME Init PROVE RefreshInv
<1>1. PICK none, idle : none = NoRoutes /\ idle = NoRefresh
  OBVIOUS
<1>2. /\ none \in [Destinations -> Accounts \cup {None}] /\ none = [p \in Destinations |-> None]
      /\ idle \in RefreshState /\ idle.pc = "idle"
  BY <1>1, NoRoutesType, NoRefreshType DEF NoRoutes
<1>3. /\ configured = none /\ stored = none /\ router = none /\ behind = FALSE
      /\ refresh = [c \in Callers |-> idle]
  BY <1>1 DEF Init, StoreInit
<1>4. RoutesInStore = none
  BY <1>2, <1>3 DEF RoutesInStore
<1>5. \A c \in Callers : refresh[c].pc = "idle"
  BY <1>2, <1>3
<1>6. StoreTypes
  BY <1>2, <1>3 DEF StoreTypes
<1> QED BY <1>3, <1>4, <1>5, <1>6 DEF RefreshInv, FreshOK

\* The invariant of the router.
LEMMA RefreshAlways == Spec => []RefreshInv
<1>1. Init => RefreshInv
  BY RefreshInit
<1>2. Inv /\ RefreshInv /\ [Next]_vars => RefreshInv'
  BY RefreshStep
<1> QED BY <1>1, <1>2, InvAlways, PTL DEF Spec

-----------------------------------------------------------------------------
(* The theorems *)

\* Every variable keeps its type.
THEOREM TypeCorrect == Spec => []TypeOK
<1>1. Inv /\ RefreshInv => TypeOK
  BY Types DEF Inv, RefreshInv, TypeOK, StoreTypeOK, StoreTypes, RefreshState, TaskState, Excuses
<1> QED BY <1>1, InvAlways, RefreshAlways, PTL

\* Whatever the order in which tasks apply their findings and their better
\* routes, the forwarding table follows the local table.
THEOREM ForwardingFollows == Spec => []ForwardsAsRouted
<1>1. Inv => ForwardsAsRouted
  BY DEF Inv
<1> QED BY <1>1, InvAlways, PTL

\* What was announced and not withdrawn is routed, for every prefix that does
\* not lie between others.
THEOREM AnnouncedRoutesExist == Spec => []AnnouncedIsRouted
<1>1. Inv => AnnouncedIsRouted
  <2> SUFFICES ASSUME Inv, excuse \subseteq {"modified"}, NEW p \in Destinations,
                      announced[p] # None, ~Between(p)
               PROVE  Resolve(local_table, p) # None
    BY DEF AnnouncedIsRouted
  <2>1. local_table[p] # None
    BY DEF Inv, SoundOK, AnnouncedOK
  <2> QED BY <2>1, ResolveFinds
<1> QED BY <1>1, InvAlways, PTL

\* Between updates the best account is in use.
THEOREM BestAccountInUse == Spec => []BestInUse
<1>1. Inv => BestInUse
  <2> SUFFICES ASSUME Inv, Live = {}, excuse = {}, NEW p \in Destinations, Above[p] = {p},
                      local_routes[p] = None
               PROVE  Chosen(local_table[p], p)
    BY DEF BestInUse
  <2>1. BestFor(p)
    BY DEF Inv, BestOK
  <2>2. \A t \in Tasks : task[t].pc = "idle"
    BY DEF Live
  <2> QED BY <2>1, <2>2 DEF BestFor, Pending
<1> QED BY <1>1, InvAlways, PTL

\* Between updates the router has what the store has, and so uses the static
\* routes and the accounts of the local table.
THEOREM RouterIsCurrent == Spec => []RouterHasTable
<1>1. Inv /\ RefreshInv => RouterHasTable
  <2> SUFFICES ASSUME Inv, RefreshInv, AtRest, ~behind
               PROVE  /\ router = RoutesInStore
                      /\ excuse \cap {"overlap", "failed"} = {} =>
                           \A p \in Destinations :
                             router[p] = IF configured[p] # None THEN configured[p]
                                         ELSE IF local_table[p] # None THEN local_table[p].account
                                         ELSE None
    BY DEF RouterHasTable
  <2>1. /\ \A c \in Callers : refresh[c].pc = "idle"
        /\ \A t \in Tasks : task[t].pc = "idle"
    BY DEF AtRest, Live
  <2>2. router = RoutesInStore
    BY <2>1 DEF RefreshInv, FreshOK, Loading
  <2>3. ASSUME excuse \cap {"overlap", "failed"} = {}, NEW p \in Destinations
        PROVE  router[p] = IF configured[p] # None THEN configured[p]
                           ELSE IF local_table[p] # None THEN local_table[p].account ELSE None
    <3>1. stored[p] = IF local_table[p] = None THEN None ELSE local_table[p].account
      BY <2>1, <2>3 DEF Inv, RouterOK
    <3>2. router[p] = IF configured[p] # None THEN configured[p] ELSE stored[p]
      BY <2>2 DEF RoutesInStore
    <3> QED BY <3>1, <3>2
  <2> QED BY <2>2, <2>3
<1> QED BY <1>1, InvAlways, RefreshAlways, PTL
=============================================================================
