---------------------------- MODULE CcpSyncProofs ---------------------------
(***************************************************************************)
(* Proofs about the route synchronisation: for any number of listeners,    *)
(* prefixes, epochs and restarts, and any loss, delay and reordering of    *)
(* route updates, an epoch number never hides a route that was missed.     *)
(***************************************************************************)
EXTENDS CcpSync, SumTheorems

-----------------------------------------------------------------------------
(* Merging transitions *)

\* What a route update says: the routes announced and the prefixes withdrawn.
Content == [new : [AllPrefixes -> Seq(Paths)], withdrawn : SUBSET Learned]

\* A list of forwarding tables is the result of transitions.
Follows(h, ts) ==
  /\ ts \in Seq(Transition) /\ h \in Seq(Routes) /\ Len(h) = Len(ts) + 1
  /\ h[1] = NoRoutes
  /\ \A e \in 1..Len(ts) : /\ h[e + 1] = Apply(h[e], ts[e])
                           /\ Announced(ts[e]) \cap ts[e].withdrawn = {}

\* What the update from one epoch to another says of a prefix: the last route
\* announced for it is the one at the later epoch, it has none then if it is
\* only withdrawn, and it did not change if nothing is said of it.
Says(r, from, to, h, p) ==
  /\ r.new[p] # << >> => h[to + 1][p] = r.new[p][Len(r.new[p])]
  /\ r.new[p] = << >> /\ p \in r.withdrawn => h[to + 1][p] = NoRoute
  /\ r.new[p] = << >> /\ p \notin r.withdrawn =>
       \A e \in from..to : h[e + 1][p] = h[to + 1][p]

\* The first update brings the speaker's own prefix.
Describes(r, from, to, h) ==
  /\ r \in Content
  /\ from = 0 => r.new[OwnPrefix] = <<{}>>
  /\ \A p \in Learned : Says(r, from, to, h, p)

\* The prefixes.
LEMMA Prefixes ==
  /\ OwnPrefix \notin Learned /\ OwnPrefix \in AllPrefixes
  /\ \A p \in Learned : p \in AllPrefixes
  /\ \A p \in AllPrefixes : p \in Learned \/ p = OwnPrefix
  /\ NoRoute \notin Paths /\ {} \in Paths
BY PrefixAssumption, RouteAssumption DEF AllPrefixes

\* The transition to an epoch and the tables before and after it.
LEMMA FollowsTypes ==
  ASSUME NEW ts, NEW h, Follows(h, ts), NEW e \in 1..Len(ts)
  PROVE  /\ Len(ts) \in Nat /\ e \in Nat /\ ts[e] \in Transition
         /\ h[e] \in Routes /\ h[e + 1] \in Routes
<1>1. ts \in Seq(Transition) /\ h \in Seq(Routes) /\ Len(h) = Len(ts) + 1 /\ Len(ts) \in Nat
  BY DEF Follows
<1>2. e \in 1..Len(h) /\ e + 1 \in 1..Len(h)
  BY <1>1
<1> QED BY <1>1, <1>2

\* An update before any epoch is merged into it.
LEMMA EmptyDescribes ==
  ASSUME NEW ts, NEW h, Follows(h, ts), NEW from \in 0..Len(ts)
  PROVE  Describes(EmptyUpdate(from), from, from, h)
<1> DEFINE r == EmptyUpdate(from)
           new == [p \in AllPrefixes |-> IF from = 0 /\ p = OwnPrefix THEN <<{}>> ELSE <<>>]
<1>1. r = [new |-> new, withdrawn |-> {}]
  BY DEF EmptyUpdate
<1>2. <<{}>> \in Seq(Paths) /\ << >> \in Seq(Paths)
  BY Prefixes
<1>3. new \in [AllPrefixes -> Seq(Paths)]
  BY <1>2
<1>4. r \in Content /\ r.new = new /\ r.withdrawn = {}
  BY <1>1, <1>3 DEF Content
<1>5. from = 0 => r.new[OwnPrefix] = <<{}>>
  BY <1>4, Prefixes
<1>6. ASSUME NEW p \in Learned PROVE Says(r, from, from, h, p)
  <2>1. r.new[p] = << >>
    BY <1>4, Prefixes
  <2>2. \A e \in from..from : e = from
    OBVIOUS
  <2> QED BY <1>4, <2>1, <2>2 DEF Says
<1> QED BY <1>4, <1>5, <1>6 DEF Describes

\* Merging a transition into an update says what was and what it changes.
LEMMA MergeDescribes ==
  ASSUME NEW ts, NEW h, Follows(h, ts), NEW from \in Nat, NEW e \in 1..Len(ts), from < e,
         NEW m, Describes(m, from, e - 1, h)
  PROVE  Describes(Merge(m, ts[e]), from, e, h)
<1>1. /\ e \in Nat /\ ts[e] \in Transition /\ h[e] \in Routes /\ h[e + 1] \in Routes
      /\ h[e + 1] = Apply(h[e], ts[e]) /\ Announced(ts[e]) \cap ts[e].withdrawn = {}
  BY FollowsTypes DEF Follows
<1>2. PICK t \in Transition : t = ts[e]
  BY <1>1
<1> DEFINE r == Merge(m, t)
           new == [p \in AllPrefixes |->
                     CASE p \in t.withdrawn -> <<>>
                       [] p \in Announced(t) -> Append(m.new[p], t.new[p])
                       [] OTHER -> m.new[p]]
           gone == (m.withdrawn \ Announced(t)) \cup t.withdrawn
<1>3. r = [new |-> new, withdrawn |-> gone]
  BY DEF Merge
<1>4. /\ t.withdrawn \subseteq Learned
      /\ \A p \in Announced(t) : p \in Learned /\ t.new[p] \in Paths
      /\ t.withdrawn \cap Announced(t) = {}
  BY <1>1, <1>2 DEF Transition, Announced
<1>5. m.new \in [AllPrefixes -> Seq(Paths)] /\ m.withdrawn \subseteq Learned
  BY DEF Describes, Content
<1>6. ASSUME NEW p \in AllPrefixes
      PROVE  /\ new[p] \in Seq(Paths)
             /\ p \in t.withdrawn => new[p] = << >>
             /\ p \in Announced(t) => new[p] = Append(m.new[p], t.new[p])
             /\ p \notin t.withdrawn /\ p \notin Announced(t) => new[p] = m.new[p]
  <2>1. m.new[p] \in Seq(Paths)
    BY <1>5
  <2>2. CASE p \in t.withdrawn
    BY <1>4, <2>2
  <2>3. CASE p \in Announced(t)
    <3>1. Append(m.new[p], t.new[p]) \in Seq(Paths) /\ p \notin t.withdrawn
      BY <1>4, <2>1, <2>3
    <3> QED BY <2>3, <3>1
  <2>4. CASE p \notin t.withdrawn /\ p \notin Announced(t)
    BY <2>1, <2>4
  <2> QED BY <2>2, <2>3, <2>4
<1>7. new \in [AllPrefixes -> Seq(Paths)]
  BY <1>6
<1> HIDE DEF new
<1>8. r \in Content /\ r.new = new /\ r.withdrawn = gone
  BY <1>3, <1>4, <1>5, <1>7 DEF Content
<1>9. from = 0 => r.new[OwnPrefix] = <<{}>>
  <2>1. OwnPrefix \notin t.withdrawn /\ OwnPrefix \notin Announced(t) /\ OwnPrefix \in AllPrefixes
    BY <1>4, Prefixes
  <2> QED BY <1>6, <1>8, <2>1 DEF Describes
<1>10. ASSUME NEW p \in Learned PROVE Says(r, from, e, h, p)
  <2>1. p \in AllPrefixes /\ Says(m, from, e - 1, h, p) /\ (e - 1) + 1 = e
    BY <1>1, Prefixes DEF Describes
  <2>2. h[e + 1][p] = CASE p \in t.withdrawn -> NoRoute
                        [] p \in Announced(t) -> t.new[p]
                        [] OTHER -> h[e][p]
    BY <1>1, <1>2, <2>1 DEF Apply
  <2>3. CASE p \in t.withdrawn
    <3>1. r.new[p] = << >> /\ p \in r.withdrawn /\ h[e + 1][p] = NoRoute
      BY <1>4, <1>6, <1>8, <2>1, <2>2, <2>3
    <3> QED BY <3>1 DEF Says
  <2>4. CASE p \in Announced(t)
    <3>1. h[e + 1][p] = t.new[p] /\ m.new[p] \in Seq(Paths) /\ t.new[p] \in Paths
      BY <1>4, <1>5, <2>1, <2>2, <2>4
    <3>2. r.new[p] = Append(m.new[p], t.new[p])
      BY <1>6, <1>8, <2>1, <2>4
    <3>3. PICK s \in Seq(Paths), q \in Paths : s = m.new[p] /\ q = t.new[p]
      BY <3>1
    <3>4. Append(s, q) # << >> /\ Append(s, q)[Len(Append(s, q))] = q
      OBVIOUS
    <3>5. r.new[p] # << >> /\ r.new[p][Len(r.new[p])] = t.new[p]
      BY <3>2, <3>3, <3>4
    <3> QED BY <3>1, <3>5 DEF Says
  <2>5. CASE p \notin t.withdrawn /\ p \notin Announced(t)
    <3>1. /\ h[e + 1][p] = h[e][p] /\ r.new[p] = m.new[p]
          /\ p \in r.withdrawn <=> p \in m.withdrawn
      BY <1>6, <1>8, <2>1, <2>2, <2>5
    <3>2. /\ m.new[p] # << >> => h[e][p] = m.new[p][Len(m.new[p])]
          /\ m.new[p] = << >> /\ p \in m.withdrawn => h[e][p] = NoRoute
          /\ m.new[p] = << >> /\ p \notin m.withdrawn =>
               \A d \in from..(e - 1) : h[d + 1][p] = h[e][p]
      BY <2>1 DEF Says
    <3>3. \A d \in from..e : d \in from..(e - 1) \/ d = e
      BY <1>1
    <3> QED BY <3>1, <3>2, <3>3 DEF Says
  <2> QED BY <2>3, <2>4, <2>5
<1> QED BY <1>2, <1>8, <1>9, <1>10 DEF Describes

\* The updates up to an epoch, each merged into the one before.
Steps(g, ts, from, to) ==
  g = [e \in from..to |-> IF e = from THEN EmptyUpdate(from) ELSE Merge(g[e - 1], ts[e])]

\* There are such updates up to every epoch.
LEMMA StepsExist ==
  ASSUME NEW ts, NEW from \in Nat, NEW to \in Nat, from <= to
  PROVE  \E g : Steps(g, ts, from, to)
<1> DEFINE C == {n \in from..to : ~ \E g : Steps(g, ts, from, n)}
<1>1. SUFFICES ASSUME C # {} PROVE FALSE
  <2>1. to \in from..to
    OBVIOUS
  <2> QED BY <2>1
<1>2. PICK n \in C : \A k \in C : n <= k
  <2>1. C \subseteq Nat
    OBVIOUS
  <2> HIDE DEF C
  <2> QED BY <1>1, <2>1, Least
<1>3. n \in Nat /\ from <= n /\ n <= to /\ ~ \E g : Steps(g, ts, from, n)
  OBVIOUS
<1>4. CASE n = from
  <2> DEFINE g == [e \in from..n |-> EmptyUpdate(from)]
  <2>1. \A e \in from..n : e = from
    BY <1>4
  <2>2. g = [e \in from..n |-> IF e = from THEN EmptyUpdate(from) ELSE Merge(g[e - 1], ts[e])]
    BY <2>1
  <2> HIDE DEF g
  <2>3. Steps(g, ts, from, n)
    BY <2>2 DEF Steps
  <2> QED BY <1>3, <2>3
<1>5. CASE n # from
  <2>1. n - 1 \in from..to /\ n - 1 \notin C
    BY <1>2, <1>3, <1>5
  <2>2. PICK g : Steps(g, ts, from, n - 1)
    BY <2>1
  <2>3. \A e \in from..(n - 1) :
          g[e] = IF e = from THEN EmptyUpdate(from) ELSE Merge(g[e - 1], ts[e])
    BY <2>2 DEF Steps
  <2> DEFINE h == [e \in from..n |-> IF e = n THEN Merge(g[n - 1], ts[n]) ELSE g[e]]
  <2>4. ASSUME NEW e \in from..n
        PROVE  h[e] = IF e = from THEN EmptyUpdate(from) ELSE Merge(h[e - 1], ts[e])
    <3>1. CASE e = n
      <4>1. n - 1 \in from..n /\ n - 1 # n
        BY <1>3, <1>5
      <4>2. h[n - 1] = g[n - 1]
        BY <4>1
      <4> QED BY <1>5, <3>1, <4>2
    <3>2. CASE e # n
      <4>1. e \in from..(n - 1) /\ h[e] = g[e]
        BY <1>3, <3>2
      <4>2. e # from => h[e - 1] = g[e - 1]
        <5>1. e # from => e - 1 \in from..n /\ e - 1 # n
          BY <1>3
        <5> QED BY <5>1
      <4>3. g[e] = IF e = from THEN EmptyUpdate(from) ELSE Merge(g[e - 1], ts[e])
        BY <2>3, <4>1
      <4> HIDE DEF h
      <4> QED BY <4>1, <4>2, <4>3
    <3> QED BY <3>1, <3>2
  <2>5. h = [e \in from..n |-> h[e]]
    OBVIOUS
  <2> HIDE DEF h
  <2>6. Steps(h, ts, from, n)
    BY <2>4, <2>5 DEF Steps
  <2> QED BY <1>3, <2>6
<1> QED BY <1>4, <1>5

\* The recursive definition of the updates holds.
LEMMA MergedEquation ==
  ASSUME NEW ts, NEW from \in Nat, NEW to \in Nat, from <= to
  PROVE  Steps(MergedUpdates(ts, from, to), ts, from, to)
<1>1. PICK g : Steps(g, ts, from, to)
  BY StepsExist
<1> DEFINE S(f) ==
      f = [e \in from..to |-> IF e = from THEN EmptyUpdate(from) ELSE Merge(f[e - 1], ts[e])]
<1>2. S(g)
  BY <1>1 DEF Steps
<1>3. MergedUpdates(ts, from, to) = CHOOSE f : S(f)
  BY DEF MergedUpdates
<1> HIDE DEF S
<1>4. S(MergedUpdates(ts, from, to))
  BY <1>2, <1>3
<1> QED BY <1>4 DEF S, Steps

\* A route update says what happened between its epochs.
LEMMA UpdateDescribes ==
  ASSUME NEW ts, NEW h, Follows(h, ts), NEW from \in Nat, NEW to \in Nat,
         from <= to, to <= Len(ts)
  PROVE  Describes(MergedUpdates(ts, from, to)[to], from, to, h)
<1>1. PICK g : g = MergedUpdates(ts, from, to)
  OBVIOUS
<1>2. Steps(g, ts, from, to)
  BY <1>1, MergedEquation
<1>3. \A e \in from..to :
        g[e] = IF e = from THEN EmptyUpdate(from) ELSE Merge(g[e - 1], ts[e])
  BY <1>2 DEF Steps
<1>4. Len(ts) \in Nat
  BY DEF Follows
<1> DEFINE C == {e \in from..to : ~Describes(g[e], from, e, h)}
<1>5. SUFFICES ASSUME C # {} PROVE FALSE
  <2>1. to \in from..to
    OBVIOUS
  <2> QED BY <1>1, <2>1
<1>6. PICK e \in C : \A k \in C : e <= k
  <2>1. C \subseteq Nat
    OBVIOUS
  <2> HIDE DEF C
  <2> QED BY <1>5, <2>1, Least
<1>7. e \in from..to /\ ~Describes(g[e], from, e, h)
  OBVIOUS
<1>8. CASE e = from
  <2>1. g[e] = EmptyUpdate(from) /\ from \in 0..Len(ts)
    BY <1>3, <1>4, <1>7, <1>8
  <2> QED BY <1>7, <1>8, <2>1, EmptyDescribes
<1>9. CASE e # from
  <2>1. e - 1 \in from..to /\ e - 1 \notin C
    BY <1>6, <1>7, <1>9
  <2>2. Describes(g[e - 1], from, e - 1, h)
    BY <2>1
  <2>3. g[e] = Merge(g[e - 1], ts[e]) /\ e \in 1..Len(ts) /\ from < e
    BY <1>3, <1>4, <1>7, <1>9
  <2> HIDE DEF C
  <2>4. Describes(Merge(g[e - 1], ts[e]), from, e, h)
    BY <2>2, <2>3, MergeDescribes
  <2> QED BY <1>7, <2>3, <2>4
<1> QED BY <1>8, <1>9

-----------------------------------------------------------------------------
(* A listener's table *)

\* What a listener that adds the routes of an update has for a prefix.
LEMMA AddedRoutes ==
  ASSUME NEW l, NEW routes \in Routes, NEW r \in Content, NEW p \in AllPrefixes,
         NEW n, n = r.new[p], NEW x, x = AddRoutes(l, routes, r)[p]
  PROVE  /\ n = << >> /\ p \in r.withdrawn => x = NoRoute
         /\ n = << >> /\ p \notin r.withdrawn => x = routes[p]
         /\ n # << >> /\ l \notin n[Len(n)] => x = n[Len(n)]
         /\ x \in Paths \cup {NoRoute}
         /\ x = NoRoute => p \in r.withdrawn \/ routes[p] = NoRoute
<1>1. n \in Seq(Paths) /\ Len(n) \in Nat /\ DOMAIN n = 1..Len(n)
  BY DEF Content
<1> DEFINE A == {i \in DOMAIN n : l \notin n[i]}
           last == CHOOSE i \in A : \A j \in A : j <= i
<1>2. x = CASE A # {} -> n[last]
            [] A = {} /\ p \in r.withdrawn -> NoRoute
            [] OTHER -> routes[p]
  BY DEF AddRoutes, FilterRoutes
<1>3. A \subseteq 0..Len(n) /\ A \subseteq 1..Len(n)
  BY <1>1
<1>4. n = << >> => A = {}
  BY <1>1
<1>5. n # << >> /\ l \notin n[Len(n)] => Len(n) \in A
  BY <1>1
<1> HIDE DEF A
<1>6. ASSUME A # {} PROVE last \in A /\ \A j \in A : j <= last
  <2>1. \E m \in A : \A k \in A : k <= m
    BY <1>1, <1>3, <1>6, Greatest
  <2> QED BY <2>1
<1>7. ASSUME A # {} PROVE x = n[last] /\ x \in Paths /\ n # << >>
  BY <1>1, <1>2, <1>3, <1>4, <1>6, <1>7
<1>8. ASSUME n # << >>, l \notin n[Len(n)] PROVE x = n[Len(n)]
  <2>1. Len(n) \in A
    BY <1>5, <1>8
  <2>2. last \in 1..Len(n) /\ Len(n) <= last
    BY <1>3, <1>6, <2>1
  <2>3. last = Len(n)
    BY <1>1, <2>2
  <2> QED BY <1>7, <2>1, <2>3
<1> HIDE DEF last
<1>9. ASSUME A = {} PROVE x = IF p \in r.withdrawn THEN NoRoute ELSE routes[p]
  BY <1>2, <1>9
<1>10. routes[p] \in Paths \cup {NoRoute}
  BY DEF Routes
<1>11. n = << >> => x = IF p \in r.withdrawn THEN NoRoute ELSE routes[p]
  BY <1>4, <1>9
<1>12. x \in Paths \/ x = IF p \in r.withdrawn THEN NoRoute ELSE routes[p]
  BY <1>7, <1>9
<1> QED BY <1>8, <1>10, <1>11, <1>12, Prefixes

\* The table has its type.
LEMMA AddedType ==
  ASSUME NEW l, NEW routes \in Routes, NEW r \in Content
  PROVE  AddRoutes(l, routes, r) \in Routes
<1>1. PICK f : f = AddRoutes(l, routes, r)
  OBVIOUS
<1>2. ASSUME NEW p \in AllPrefixes PROVE f[p] \in Paths \cup {NoRoute}
  <2>1. PICK n : n = r.new[p]
    OBVIOUS
  <2> QED BY <1>1, <2>1, AddedRoutes
<1>3. f = [p \in AllPrefixes |-> f[p]]
  BY <1>1 DEF AddRoutes
<1>4. f \in Routes
  BY <1>2, <1>3 DEF Routes
<1> QED BY <1>1, <1>4

\* What a table at an epoch has to hold: the speaker's own prefix, and every
\* route of that epoch that the listener accepts.
Complete(l, routes, e, h) ==
  /\ e # 0 => routes[OwnPrefix] # NoRoute
  /\ \A p \in Learned : h[e + 1][p] # NoRoute /\ l \notin h[e + 1][p] =>
       routes[p] = h[e + 1][p]

\* And it holds no route that was withdrawn by then.
Exact(routes, e, h) ==
  \A p \in Learned : h[e + 1][p] = NoRoute => routes[p] = NoRoute

\* Adding the routes of an update that starts no later than the table's epoch
\* and ends no earlier completes the table.
LEMMA AddedComplete ==
  ASSUME NEW l, NEW routes \in Routes, NEW h, NEW r, NEW from \in Nat, NEW to \in Nat,
         Describes(r, from, to, h), NEW e \in from..to, Complete(l, routes, e, h)
  PROVE  Complete(l, AddRoutes(l, routes, r), to, h)
<1>1. r \in Content
  BY DEF Describes
<1>2. PICK f : f = AddRoutes(l, routes, r)
  OBVIOUS
<1>3. ASSUME to # 0 PROVE f[OwnPrefix] # NoRoute
  <2>1. PICK n : n = r.new[OwnPrefix]
    OBVIOUS
  <2>2. OwnPrefix \notin r.withdrawn /\ OwnPrefix \in AllPrefixes
    BY <1>1, Prefixes DEF Content
  <2>3. CASE from = 0
    <3>1. n = <<{}>>
      BY <2>1, <2>3 DEF Describes
    <3>2. n # << >> /\ n[Len(n)] = {} /\ l \notin n[Len(n)]
      BY <3>1
    <3>3. f[OwnPrefix] = n[Len(n)]
      BY <1>1, <1>2, <2>1, <2>2, <3>2, AddedRoutes
    <3> QED BY <3>2, <3>3, Prefixes
  <2>4. CASE from # 0
    <3>1. e # 0
      BY <2>4
    <3>2. routes[OwnPrefix] # NoRoute
      BY <3>1 DEF Complete
    <3> QED BY <1>1, <1>2, <2>1, <2>2, <3>2, AddedRoutes
  <2> QED BY <2>3, <2>4
<1>4. ASSUME NEW p \in Learned, h[to + 1][p] # NoRoute, l \notin h[to + 1][p]
      PROVE  f[p] = h[to + 1][p]
  <2>1. PICK n : n = r.new[p]
    OBVIOUS
  <2>2. p \in AllPrefixes /\ Says(r, from, to, h, p)
    BY Prefixes DEF Describes
  <2>5. n = << >> /\ p \notin r.withdrawn => f[p] = routes[p]
    <3>1. PICK x : x = f[p]
      OBVIOUS
    <3>2. x = AddRoutes(l, routes, r)[p] /\ p \in AllPrefixes
      BY <1>2, <2>2, <3>1
    <3>3. /\ n = << >> /\ p \in r.withdrawn => x = NoRoute
          /\ n = << >> /\ p \notin r.withdrawn => x = routes[p]
      BY <1>1, <2>1, <3>2, AddedRoutes
    <3> QED BY <3>1, <3>3
  <2>3. CASE n # << >>
    <3>1. h[to + 1][p] = n[Len(n)]
      BY <2>1, <2>2, <2>3 DEF Says
    <3>2. f[p] = n[Len(n)]
      BY <1>1, <1>2, <1>4, <2>1, <2>2, <2>3, <3>1, AddedRoutes
    <3> QED BY <3>1, <3>2
  <2>4. CASE n = << >>
    <3>1. p \notin r.withdrawn /\ h[e + 1][p] = h[to + 1][p]
      BY <1>4, <2>1, <2>2, <2>4 DEF Says
    <3>2. routes[p] = h[e + 1][p]
      BY <1>4, <3>1 DEF Complete
    <3> QED BY <2>4, <2>5, <3>1, <3>2
  <2> QED BY <2>3, <2>4
<1>5. Complete(l, f, to, h)
  BY <1>3, <1>4 DEF Complete
<1> QED BY <1>2, <1>5

\* And it keeps it exact.
LEMMA AddedExact ==
  ASSUME NEW l, NEW routes \in Routes, NEW h, NEW r, NEW from \in Nat, NEW to \in Nat,
         Describes(r, from, to, h), NEW e \in from..to, Exact(routes, e, h)
  PROVE  Exact(AddRoutes(l, routes, r), to, h)
<1>1. r \in Content
  BY DEF Describes
<1>2. PICK f : f = AddRoutes(l, routes, r)
  OBVIOUS
<1>3. ASSUME NEW p \in Learned, h[to + 1][p] = NoRoute PROVE f[p] = NoRoute
  <2>1. PICK n : n = r.new[p]
    OBVIOUS
  <2>2. p \in AllPrefixes /\ Says(r, from, to, h, p) /\ n \in Seq(Paths)
    BY <1>1, <2>1, Prefixes DEF Describes, Content
  <2>3. n = << >>
    <3>1. ASSUME n # << >> PROVE FALSE
      <4>1. n[Len(n)] \in Paths
        BY <2>2, <3>1
      <4> QED BY <1>3, <2>1, <2>2, <3>1, <4>1, Prefixes DEF Says
    <3> QED BY <3>1
  <2>6. /\ n = << >> /\ p \in r.withdrawn => f[p] = NoRoute
        /\ n = << >> /\ p \notin r.withdrawn => f[p] = routes[p]
    BY <1>1, <1>2, <2>1, <2>2, AddedRoutes
  <2>4. CASE p \in r.withdrawn
    BY <2>3, <2>4, <2>6
  <2>5. CASE p \notin r.withdrawn
    <3>1. h[e + 1][p] = NoRoute
      BY <1>3, <2>1, <2>2, <2>3, <2>5 DEF Says
    <3>2. routes[p] = NoRoute
      BY <3>1 DEF Exact
    <3> QED BY <2>3, <2>5, <2>6, <3>2
  <2> QED BY <2>4, <2>5
<1>4. Exact(f, to, h)
  BY <1>3 DEF Exact
<1> QED BY <1>2, <1>4

-----------------------------------------------------------------------------
(* The invariant *)

Update == [id : Nat, from : Nat, to : Nat, routes : Content]
Unavailability == [max : 0..MaxBackoff, skip_intervals : 0..MaxBackoff]
BroadcastState == [pc : {"idle", "update", "send"}, todo : SUBSET Listeners,
                   update : Update \cup {NoRoute}, waiting : SUBSET Listeners,
                   failed : SUBSET Listeners, ok : SUBSET Listeners]
TableState == [id : Nat, epoch : Nat, routes : Routes, seen : SUBSET Nat]
Sent == [to : Listeners, update : Update, awaited : BOOLEAN]
Asked == [account : Listeners, id : Nat, epoch : Nat]

\* An update is of this or an earlier table of the speaker; one of this table
\* says what happened between its epochs.
UpdateOK(u) ==
  /\ u \in Update /\ u.from <= u.to /\ u.id \in 1..id
  /\ u.id = id => u.to <= Epoch /\ Describes(u.routes, u.from, u.to, history)

\* A listener's table is one the listener has seen, if it has seen any; it has
\* the routes of its epoch, and no others unless it has seen another table.
TableOK(l) ==
  /\ table[l].id \in 0..id /\ table[l].seen \subseteq 1..id
  /\ table[l].seen = {} => table[l].id = 0 /\ table[l].routes = NoRoutes
  /\ table[l].seen # {} => table[l].id \in table[l].seen
  /\ table[l].id = id =>
       /\ table[l].epoch <= Epoch
       /\ Complete(l, table[l].routes, table[l].epoch, history)
       /\ table[l].seen = {id} => Exact(table[l].routes, table[l].epoch, history)

TablesFollow == id \in Nat \ {0} /\ Follows(history, updates)

BroadcastOK ==
  /\ last_epoch_updates_sent_for \in 0..Epoch
  /\ unavailable \in [Listeners -> Unavailability]
  /\ broadcast \in BroadcastState
  /\ broadcast.pc = "send" => UpdateOK(broadcast.update)

MessagesOK ==
  /\ \A m \in sent : m \in Sent /\ UpdateOK(m.update)
  /\ asked \subseteq Asked

ListenersOK ==
  /\ table \in [Listeners -> TableState] /\ asking \subseteq Listeners
  /\ \A l \in Listeners : TableOK(l)

Inv == TablesFollow /\ BroadcastOK /\ MessagesOK /\ ListenersOK

\* The number of the last epoch.
LEMMA EpochType == ASSUME TablesFollow PROVE Epoch \in Nat /\ id \in Nat /\ id # 0 /\ 1 \in 1..id
<1>1. updates \in Seq(Transition)
  BY DEF TablesFollow, Follows
<1> QED BY <1>1 DEF TablesFollow, Epoch

\* An update says the same of two lists that agree up to its last epoch.
LEMMA DescribesLater ==
  ASSUME NEW r, NEW from \in Nat, NEW to \in Nat, from <= to, NEW h, NEW g,
         \A e \in 0..to : g[e + 1] = h[e + 1], Describes(r, from, to, h)
  PROVE  Describes(r, from, to, g)
<1>1. to \in 0..to /\ \A e \in from..to : e \in 0..to
  OBVIOUS
<1>2. ASSUME NEW p \in Learned PROVE Says(r, from, to, g, p)
  BY <1>1 DEF Describes, Says
<1> QED BY <1>2 DEF Describes

\* While the speaker's table stays, so does what an update has to say.
LEMMA UpdateSame ==
  ASSUME NEW u, UpdateOK(u), UNCHANGED <<id, updates, history>>
  PROVE  UpdateOK(u)'
BY DEF UpdateOK, Epoch

\* So does what a table has to hold.
LEMMA TableSame ==
  ASSUME NEW l, TableOK(l), UNCHANGED <<id, updates, history>>, table'[l] = table[l]
  PROVE  TableOK(l)'
BY DEF TableOK, Epoch

\* Nothing about the listeners changes with their tables and the speaker's.
LEMMA ListenersSame ==
  ASSUME ListenersOK, UNCHANGED <<id, updates, history, table>>, asking' \subseteq Listeners
  PROVE  ListenersOK'
BY TableSame DEF ListenersOK

\* A message that stays remains true.
LEMMA MessagesSame ==
  ASSUME MessagesOK, UNCHANGED <<id, updates, history>>,
         \A m \in sent' : m \in sent \/ (m \in Sent /\ UpdateOK(m.update)'),
         asked' \subseteq Asked
  PROVE  MessagesOK'
<1>1. ASSUME NEW m \in sent' PROVE m \in Sent /\ UpdateOK(m.update)'
  BY <1>1, UpdateSame DEF MessagesOK
<1> QED BY <1>1 DEF MessagesOK

\* The broadcast goes on, or there is none.
LEMMA BroadcastSame ==
  ASSUME BroadcastOK, UNCHANGED <<id, updates, history, last_epoch_updates_sent_for>>,
         unavailable' \in [Listeners -> Unavailability],
         broadcast' \in BroadcastState,
         broadcast'.pc = "send" => broadcast.pc = "send" /\ broadcast'.update = broadcast.update
  PROVE  BroadcastOK'
<1>1. last_epoch_updates_sent_for' \in 0..Epoch'
  BY DEF BroadcastOK, Epoch
<1>2. ASSUME broadcast'.pc = "send" PROVE UpdateOK(broadcast.update)'
  <2>1. PICK u : u = broadcast.update
    OBVIOUS
  <2>2. broadcast'.update = u /\ UpdateOK(u)
    BY <1>2, <2>1 DEF BroadcastOK
  <2>3. UpdateOK(u)'
    BY <2>2, UpdateSame
  <2> QED BY <2>2, <2>3
<1> QED BY <1>1, <1>2 DEF BroadcastOK

\* No broadcast.
LEMMA IdleType == IdleBroadcast \in BroadcastState /\ IdleBroadcast.pc = "idle"
BY DEF IdleBroadcast, BroadcastState

\* The speaker's table stays consistent if it stays.
LEMMA FollowSame ==
  ASSUME TablesFollow, UNCHANGED <<id, updates, history>>
  PROVE  TablesFollow'
BY DEF TablesFollow

-----------------------------------------------------------------------------
(* The speaker *)

\* A transition leads to a table.
LEMMA ApplyType ==
  ASSUME NEW routes \in Routes, NEW t \in Transition
  PROVE  Apply(routes, t) \in Routes
<1>1. ASSUME NEW p \in AllPrefixes
      PROVE  (CASE p \in t.withdrawn -> NoRoute
                [] p \in Announced(t) -> t.new[p]
                [] OTHER -> routes[p]) \in Paths \cup {NoRoute}
  <2>1. p \in Announced(t) => t.new[p] \in Paths
    BY DEF Announced, Transition
  <2>2. routes[p] \in Paths \cup {NoRoute}
    BY DEF Routes
  <2>3. CASE p \in t.withdrawn /\ p \notin Announced(t)
    BY <2>3
  <2>4. CASE p \notin t.withdrawn /\ p \in Announced(t)
    BY <2>1, <2>4
  <2>5. CASE p \notin t.withdrawn /\ p \notin Announced(t)
    BY <2>2, <2>5
  <2>6. CASE p \in t.withdrawn /\ p \in Announced(t)
    BY <2>1, <2>6
  <2> QED BY <2>3, <2>4, <2>5, <2>6
<1> QED BY <1>1 DEF Apply, Routes

\* A change of the forwarding table starts an epoch and leaves the others.
LEMMA PublishFollows ==
  ASSUME TablesFollow, NEW t \in Transition, Publish(t)
  PROVE  /\ TablesFollow' /\ id' = id /\ Epoch' = Epoch + 1
         /\ \A e \in 0..Epoch : history'[e + 1] = history[e + 1]
<1>1. /\ updates \in Seq(Transition) /\ history \in Seq(Routes)
      /\ Len(history) = Len(updates) + 1 /\ history[1] = NoRoutes
      /\ Len(updates) \in Nat /\ id \in Nat \ {0}
      /\ \A e \in 1..Len(updates) : /\ history[e + 1] = Apply(history[e], updates[e])
                                    /\ Announced(updates[e]) \cap updates[e].withdrawn = {}
  BY DEF TablesFollow, Follows
<1>2. PICK n \in Nat : n = Len(updates)
  BY <1>1
<1>3. /\ updates' = Append(updates, t) /\ Announced(t) \cap t.withdrawn = {} /\ id' = id
      /\ history' = Append(history, Apply(history[n + 1], t))
  BY <1>2 DEF Publish, ForwardingTable, Epoch
<1>4. history[n + 1] \in Routes
  BY <1>1, <1>2
<1>5. PICK new \in Routes : new = Apply(history[n + 1], t)
  BY <1>4, ApplyType
<1>6. history' = Append(history, new)
  BY <1>3, <1>5
<1>7. /\ updates' \in Seq(Transition) /\ history' \in Seq(Routes)
      /\ Len(updates') = n + 1 /\ Len(history') = n + 2
      /\ updates'[n + 1] = t /\ history'[n + 2] = new
      /\ \A e \in 1..n : updates'[e] = updates[e]
      /\ \A e \in 1..(n + 1) : history'[e] = history[e]
  BY <1>1, <1>2, <1>3, <1>6
<1>8. history'[1] = NoRoutes
  BY <1>1, <1>2, <1>7
<1>9. ASSUME NEW e \in 1..(n + 1)
      PROVE  /\ history'[e + 1] = Apply(history'[e], updates'[e])
             /\ Announced(updates'[e]) \cap updates'[e].withdrawn = {}
  <2>1. CASE e = n + 1
    <3>1. updates'[e] = t /\ history'[e] = history[n + 1] /\ history'[e + 1] = new
      BY <1>7, <2>1
    <3> QED BY <1>3, <1>5, <3>1
  <2>2. CASE e # n + 1
    <3>1. e \in 1..n /\ e + 1 \in 1..(n + 1)
      BY <2>2
    <3>2. updates'[e] = updates[e] /\ history'[e] = history[e] /\ history'[e + 1] = history[e + 1]
      BY <1>7, <3>1
    <3> QED BY <1>1, <1>2, <3>1, <3>2
  <2> QED BY <2>1, <2>2
<1>10. Follows(history', updates')
  BY <1>7, <1>8, <1>9 DEF Follows
<1>11. Epoch = n /\ Epoch' = n + 1
  BY <1>2, <1>7 DEF Epoch
<1>12. \A e \in 0..Epoch : history'[e + 1] = history[e + 1]
  BY <1>7, <1>11
<1> QED BY <1>1, <1>3, <1>10, <1>11, <1>12 DEF TablesFollow

\* What was said of earlier epochs remains true.
LEMMA UpdateLater ==
  ASSUME NEW u, UpdateOK(u), TablesFollow, id' = id, Epoch' = Epoch + 1,
         \A e \in 0..Epoch : history'[e + 1] = history[e + 1]
  PROVE  UpdateOK(u)'
<1>1. u \in Update /\ u.from <= u.to /\ u.id \in 1..id /\ u.from \in Nat /\ u.to \in Nat
  BY DEF UpdateOK, Update
<1>2. ASSUME u.id = id PROVE u.to <= Epoch' /\ Describes(u.routes, u.from, u.to, history')
  <2>1. u.to <= Epoch /\ Describes(u.routes, u.from, u.to, history) /\ Epoch \in Nat
    BY <1>2, EpochType DEF UpdateOK
  <2>2. \A e \in 0..u.to : history'[e + 1] = history[e + 1]
    BY <1>1, <2>1
  <2>3. Describes(u.routes, u.from, u.to, history')
    BY <1>1, <2>1, <2>2, DescribesLater
  <2> QED BY <1>1, <2>1, <2>3
<1> QED BY <1>1, <1>2 DEF UpdateOK

\* So does what the tables hold.
LEMMA TableLater ==
  ASSUME NEW l \in Listeners, ListenersOK, TablesFollow, id' = id, Epoch' = Epoch + 1,
         \A e \in 0..Epoch : history'[e + 1] = history[e + 1], table' = table
  PROVE  TableOK(l)'
<1>1. TableOK(l) /\ table[l].epoch \in Nat /\ Epoch \in Nat
  BY EpochType DEF ListenersOK, TableState
<1>2. ASSUME table[l].id = id
      PROVE  /\ table[l].epoch <= Epoch'
             /\ Complete(l, table[l].routes, table[l].epoch, history')
             /\ table[l].seen = {id} => Exact(table[l].routes, table[l].epoch, history')
  <2>1. table[l].epoch \in 0..Epoch
    BY <1>1, <1>2 DEF TableOK
  <2>2. history'[table[l].epoch + 1] = history[table[l].epoch + 1]
    BY <2>1
  <2>3. /\ Complete(l, table[l].routes, table[l].epoch, history)
        /\ table[l].seen = {id} => Exact(table[l].routes, table[l].epoch, history)
    BY <1>1, <1>2 DEF TableOK
  <2>4. Complete(l, table[l].routes, table[l].epoch, history')
    BY <2>2, <2>3 DEF Complete
  <2>5. table[l].seen = {id} => Exact(table[l].routes, table[l].epoch, history')
    BY <2>2, <2>3 DEF Exact
  <2> QED BY <1>1, <2>1, <2>4, <2>5
<1> QED BY <1>1, <1>2 DEF TableOK

\* A change of the forwarding table.
LEMMA PublishStep == ASSUME Inv, NEW t \in Transition, Publish(t) PROVE Inv'
<1>1. TablesFollow /\ BroadcastOK /\ MessagesOK /\ ListenersOK
  BY DEF Inv
<1>2. /\ TablesFollow' /\ id' = id /\ Epoch' = Epoch + 1
      /\ \A e \in 0..Epoch : history'[e + 1] = history[e + 1]
  BY <1>1, PublishFollows
<1>3. UNCHANGED <<last_epoch_updates_sent_for, unavailable, broadcast, table, asking, sent, asked>>
  BY DEF Publish, listenerVars
<1>4. \A l \in Listeners : TableOK(l)'
  BY <1>1, <1>2, <1>3, TableLater
<1>5. ListenersOK'
  BY <1>1, <1>3, <1>4 DEF ListenersOK
<1>6. MessagesOK'
  <2>1. \A m \in sent : m \in Sent /\ UpdateOK(m.update)'
    BY <1>1, <1>2, UpdateLater DEF MessagesOK
  <2> QED BY <1>1, <1>3, <2>1 DEF MessagesOK
<1>7. BroadcastOK'
  <2>1. last_epoch_updates_sent_for' \in 0..Epoch'
    BY <1>1, <1>2, <1>3, EpochType DEF BroadcastOK
  <2>2. PICK u : u = broadcast.update
    OBVIOUS
  <2>3. broadcast.pc = "send" => UpdateOK(u)'
    BY <1>1, <1>2, <2>2, UpdateLater DEF BroadcastOK
  <2>4. broadcast'.pc = broadcast.pc /\ broadcast'.update = u
    BY <1>3, <2>2
  <2>5. broadcast'.pc = "send" => UpdateOK(broadcast.update)'
    BY <2>3, <2>4
  <2> QED BY <1>1, <1>3, <2>1, <2>5 DEF BroadcastOK
<1> QED BY <1>2, <1>5, <1>6, <1>7 DEF Inv

\* A route update that the speaker creates is true.
LEMMA CreatedOK ==
  ASSUME TablesFollow, NEW from \in 0..Epoch,
         NEW u, u = CreateRouteUpdate(id, updates, from, Epoch)
  PROVE  UpdateOK(u) /\ u \in Update
<1>1. Epoch \in Nat /\ id \in Nat /\ id \in 1..id /\ Follows(history, updates) /\ Epoch = Len(updates)
  BY EpochType DEF TablesFollow, Epoch
<1>2. PICK to \in Nat : to = Epoch
  BY <1>1
<1>3. from \in Nat /\ from <= to /\ to <= Len(updates)
  BY <1>1, <1>2
<1>4. PICK r : r = MergedUpdates(updates, from, to)[to]
  OBVIOUS
<1>5. Describes(r, from, to, history)
  BY <1>1, <1>3, <1>4, UpdateDescribes
<1>6. r \in Content
  BY <1>5 DEF Describes
<1>7. u = [id |-> id, from |-> from, to |-> to, routes |-> r]
  BY <1>2, <1>4 DEF CreateRouteUpdate
<1>8. u \in Update /\ u.id = id /\ u.from = from /\ u.to = to /\ u.routes = r
  BY <1>1, <1>3, <1>6, <1>7 DEF Update
<1> QED BY <1>1, <1>2, <1>3, <1>5, <1>8 DEF UpdateOK

\* The counters of the backoff stay within a byte.
LEMMA CountDownType ==
  ASSUME NEW b \in Unavailability
  PROVE  CountDown(b) \in Unavailability
<1>1. MaxBackoff \in Nat
  BY BackoffAssumption
<1>2. b.max \in 0..MaxBackoff /\ b.skip_intervals \in 0..MaxBackoff
  BY DEF Unavailability
<1>3. PICK n \in 0..MaxBackoff :
        n = IF b.skip_intervals > 0 THEN b.skip_intervals - 1 ELSE 0
  BY <1>1, <1>2
<1>4. CountDown(b) = [b EXCEPT !.skip_intervals = n]
  BY <1>3 DEF CountDown
<1> QED BY <1>3, <1>4 DEF Unavailability

\* An account that is not backed off.
LEMMA AvailableType == Available \in Unavailability
<1>1. MaxBackoff \in Nat /\ 0 \in 0..MaxBackoff
  BY BackoffAssumption
<1> QED BY <1>1 DEF Available, Unavailability

\* A failed broadcast adds at most one interval.
LEMMA BackoffType ==
  ASSUME BroadcastOK, NEW l \in Listeners
  PROVE  Backoff(l) \in Unavailability
<1>1. MaxBackoff \in Nat
  BY BackoffAssumption
<1>2. unavailable[l] \in Unavailability
  BY DEF BroadcastOK
<1>3. unavailable[l].max \in 0..MaxBackoff
  BY <1>2 DEF Unavailability
<1>4. PICK n \in 0..MaxBackoff :
        n = IF unavailable[l].max < MaxBackoff THEN unavailable[l].max + 1 ELSE MaxBackoff
  BY <1>1, <1>3
<1>5. PICK b : b = [max |-> n, skip_intervals |-> n]
  OBVIOUS
<1>6. b \in Unavailability
  BY <1>5 DEF Unavailability
<1>7. Backoff(l) = CASE l \in broadcast.ok -> Available
                     [] l \in broadcast.failed \cap Children -> b
                     [] OTHER -> unavailable[l]
  BY <1>4, <1>5, Zenon DEF Backoff
<1>8. CASE l \in broadcast.ok /\ l \in broadcast.failed \cap Children
  BY <1>6, <1>7, <1>8, AvailableType
<1>9. CASE l \in broadcast.ok /\ l \notin broadcast.failed \cap Children
  BY <1>7, <1>9, AvailableType
<1>10. CASE l \notin broadcast.ok /\ l \in broadcast.failed \cap Children
  BY <1>6, <1>7, <1>10
<1>11. CASE l \notin broadcast.ok /\ l \notin broadcast.failed \cap Children
  BY <1>2, <1>7, <1>11
<1> QED BY <1>8, <1>9, <1>10, <1>11

\* A step of the speaker's broadcast alone.
LEMMA BroadcastMove ==
  ASSUME Inv, UNCHANGED <<id, updates, history, table, asking>>, BroadcastOK',
         \A m \in sent' : m \in sent \/ (m \in Sent /\ UpdateOK(m.update)'),
         asked' \subseteq Asked
  PROVE  Inv'
<1>1. TablesFollow /\ BroadcastOK /\ MessagesOK /\ ListenersOK
  BY DEF Inv
<1>2. TablesFollow'
  BY <1>1, FollowSame
<1>3. MessagesOK'
  BY <1>1, MessagesSame
<1>4. ListenersOK'
  BY <1>1, ListenersSame DEF ListenersOK
<1> QED BY <1>2, <1>3, <1>4 DEF Inv

\* The steps of a broadcast.
LEMMA PickAccountsStep == ASSUME Inv, PickAccounts \/ PickAccountsFails PROVE Inv'
<1>1. /\ BroadcastOK /\ MessagesOK
      /\ UNCHANGED <<id, updates, history, last_epoch_updates_sent_for, table, asking, sent, asked>>
  BY DEF Inv, PickAccounts, PickAccountsFails, listenerVars
<1>2. BroadcastOK'
  <2>1. CASE PickAccounts
    <3>1. unavailable' \in [Listeners -> Unavailability]
      <4>1. \A l \in Listeners : CountDown(unavailable[l]) \in Unavailability
        BY <1>1, CountDownType DEF BroadcastOK
      <4> QED BY <2>1, <4>1 DEF PickAccounts
    <3>2. broadcast' \in BroadcastState /\ broadcast'.pc = "update"
      <4>1. broadcast \in BroadcastState
        BY <1>1 DEF BroadcastOK
      <4>2. broadcast' = [broadcast EXCEPT !.pc = "update", !.todo = Listeners \ Skipped]
        BY <2>1 DEF PickAccounts
      <4> QED BY <4>1, <4>2 DEF BroadcastState
    <3> QED BY <1>1, <3>1, <3>2, BroadcastSame
  <2>2. CASE PickAccountsFails
    <3>1. unavailable' \in [Listeners -> Unavailability]
      BY <1>1, <2>2 DEF PickAccountsFails, BroadcastOK
    <3>2. broadcast' \in BroadcastState /\ broadcast'.pc = "idle"
      BY <2>2, IdleType DEF PickAccountsFails
    <3> QED BY <1>1, <3>1, <3>2, BroadcastSame
  <2> QED BY <2>1, <2>2
<1> QED BY <1>1, <1>2, BroadcastMove DEF MessagesOK

\* The update is made for the epochs since the last one.
LEMMA CreateBroadcastStep == ASSUME Inv, CreateBroadcast PROVE Inv'
<1>1. /\ BroadcastOK /\ MessagesOK /\ TablesFollow
      /\ UNCHANGED <<id, updates, history, unavailable, table, asking, sent, asked>>
  BY DEF Inv, CreateBroadcast, listenerVars
<1>2. PICK from \in 0..Epoch : from = last_epoch_updates_sent_for
  BY <1>1 DEF BroadcastOK
<1>3. PICK u : u = CreateRouteUpdate(id, updates, from, Epoch)
  OBVIOUS
<1>4. UpdateOK(u) /\ u \in Update
  BY <1>1, <1>3, CreatedOK
<1>5. UpdateOK(u)'
  BY <1>1, <1>4, UpdateSame
<1>6. broadcast' = [broadcast EXCEPT !.pc = "send", !.update = u]
  BY <1>2, <1>3 DEF CreateBroadcast
<1>7. broadcast \in BroadcastState
  BY <1>1 DEF BroadcastOK
<1>8. broadcast' \in BroadcastState /\ broadcast'.update = u
  BY <1>4, <1>6, <1>7 DEF BroadcastState
<1>9. last_epoch_updates_sent_for' \in 0..Epoch'
  BY <1>1, EpochType DEF CreateBroadcast, Epoch
<1>10. UpdateOK(broadcast.update)'
  BY <1>5, <1>8
<1>11. BroadcastOK'
  BY <1>1, <1>8, <1>9, <1>10 DEF BroadcastOK
<1> QED BY <1>1, <1>11, BroadcastMove DEF MessagesOK

\* It goes to one account after the other.
LEMMA SendUpdateStep == ASSUME Inv, NEW l \in Listeners, SendUpdate(l) PROVE Inv'
<1>1. /\ BroadcastOK /\ MessagesOK
      /\ UNCHANGED <<id, updates, history, last_epoch_updates_sent_for, unavailable,
                     table, asking, asked>>
  BY DEF Inv, SendUpdate, listenerVars
<1>2. PICK u : u = broadcast.update
  OBVIOUS
<1>3. UpdateOK(u) /\ u \in Update
  BY <1>1, <1>2 DEF SendUpdate, BroadcastOK, UpdateOK
<1>4. PICK s : s = [to |-> l, update |-> u, awaited |-> TRUE]
  OBVIOUS
<1>5. s \in Sent /\ s.update = u
  BY <1>3, <1>4 DEF Sent
<1>6. sent' = sent \cup {s}
  BY <1>2, <1>4 DEF SendUpdate
<1>7. UpdateOK(s.update)'
  BY <1>1, <1>3, <1>5, UpdateSame
<1>8. broadcast \in BroadcastState
  BY <1>1 DEF BroadcastOK
<1>9. broadcast' \in BroadcastState /\ broadcast'.update = broadcast.update /\ broadcast.pc = "send"
  BY <1>8 DEF SendUpdate, BroadcastState
<1>10. BroadcastOK'
  <2>1. unavailable' \in [Listeners -> Unavailability]
    BY <1>1 DEF BroadcastOK
  <2> QED BY <1>1, <1>9, <2>1, BroadcastSame
<1> QED BY <1>1, <1>5, <1>6, <1>7, <1>10, BroadcastMove DEF MessagesOK

\* The backoffs are set.
LEMMA FinishBroadcastStep == ASSUME Inv, FinishBroadcast PROVE Inv'
<1>1. /\ BroadcastOK /\ MessagesOK
      /\ UNCHANGED <<id, updates, history, last_epoch_updates_sent_for, table, asking, sent, asked>>
  BY DEF Inv, FinishBroadcast, listenerVars
<1>2. unavailable' \in [Listeners -> Unavailability]
  <2>1. \A l \in Listeners : Backoff(l) \in Unavailability
    BY <1>1, BackoffType
  <2> QED BY <2>1 DEF FinishBroadcast
<1>3. broadcast' \in BroadcastState /\ broadcast'.pc = "idle"
  BY IdleType DEF FinishBroadcast
<1>4. BroadcastOK'
  BY <1>1, <1>2, <1>3, BroadcastSame
<1> QED BY <1>1, <1>4, BroadcastMove DEF MessagesOK

\* The answer to a route control request.
LEMMA ControlStep ==
  ASSUME Inv, NEW c \in asked, HandleRouteControlRequest(c)
  PROVE  Inv'
<1>1. /\ BroadcastOK /\ MessagesOK /\ TablesFollow /\ Epoch \in Nat
      /\ UNCHANGED <<id, updates, history, last_epoch_updates_sent_for, broadcast, table, asking>>
  BY EpochType DEF Inv, HandleRouteControlRequest, listenerVars
<1>2. c \in Asked /\ c.account \in Listeners /\ c.epoch \in Nat
  BY <1>1 DEF MessagesOK, Asked
<1>3. PICK from \in 0..Epoch : from = FirstEpoch(c)
  <2>1. FirstEpoch(c) \in 0..Epoch
    BY <1>1, <1>2 DEF FirstEpoch
  <2> QED BY <2>1
<1>4. PICK u : u = CreateRouteUpdate(id, updates, from, Epoch)
  OBVIOUS
<1>5. UpdateOK(u) /\ u \in Update
  BY <1>1, <1>4, CreatedOK
<1>6. PICK s : s = [to |-> c.account, awaited |-> FALSE, update |-> u]
  OBVIOUS
<1>7. s \in Sent /\ s.update = u
  BY <1>2, <1>5, <1>6 DEF Sent
<1>8. sent' = sent \cup {s} /\ asked' = asked \ {c}
  BY <1>3, <1>4, <1>6 DEF HandleRouteControlRequest
<1>9. UpdateOK(s.update)'
  BY <1>1, <1>5, <1>7, UpdateSame
<1>10. unavailable' \in [Listeners -> Unavailability]
  BY <1>1, <1>2, AvailableType DEF HandleRouteControlRequest, BroadcastOK
<1>11. BroadcastOK'
  <2>1. broadcast' \in BroadcastState
    BY <1>1 DEF BroadcastOK
  <2> QED BY <1>1, <1>10, <2>1, BroadcastSame
<1> QED BY <1>1, <1>7, <1>8, <1>9, <1>11, BroadcastMove DEF MessagesOK

\* A list with an empty table.
LEMMA FollowsInit == Follows(<<NoRoutes>>, <<>>)
<1>1. NoRoutes \in Routes
  BY DEF NoRoutes, Routes
<1> QED BY <1>1 DEF Follows

\* A new speaker: what is underway or kept is of earlier tables.
LEMMA RestartSpeakerStep == ASSUME Inv, RestartSpeaker PROVE Inv'
<1>1. /\ TablesFollow /\ MessagesOK /\ ListenersOK /\ id \in Nat /\ id # 0
      /\ id' = id + 1 /\ updates' = <<>> /\ history' = <<NoRoutes>>
      /\ last_epoch_updates_sent_for' = 0 /\ broadcast' = IdleBroadcast
      /\ unavailable' = [l \in Listeners |-> Available]
      /\ sent' = {[m EXCEPT !.awaited = FALSE] : m \in sent}
      /\ UNCHANGED <<table, asking, asked>>
  BY EpochType DEF Inv, RestartSpeaker, listenerVars
<1>2. TablesFollow' /\ Epoch' = 0
  BY <1>1, FollowsInit DEF TablesFollow, Epoch
<1>3. BroadcastOK'
  <2>1. unavailable' \in [Listeners -> Unavailability]
    BY <1>1, AvailableType
  <2>2. broadcast' \in BroadcastState /\ broadcast'.pc = "idle"
    BY <1>1, IdleType
  <2> QED BY <1>1, <1>2, <2>1, <2>2 DEF BroadcastOK
<1>4. ASSUME NEW u, UpdateOK(u) PROVE UpdateOK(u)'
  <2>1. u \in Update /\ u.from <= u.to /\ u.id \in 1..id
    BY <1>4 DEF UpdateOK
  <2>2. u.id \in 1..(id + 1) /\ u.id # id + 1
    BY <1>1, <2>1
  <2> QED BY <1>1, <2>1, <2>2 DEF UpdateOK
<1>5. MessagesOK'
  <2>1. ASSUME NEW s \in sent' PROVE s \in Sent /\ UpdateOK(s.update)'
    <3>1. PICK m \in sent : s = [m EXCEPT !.awaited = FALSE]
      BY <1>1, <2>1
    <3>2. m \in Sent /\ UpdateOK(m.update)
      BY <1>1 DEF MessagesOK
    <3>3. s \in Sent /\ s.update = m.update
      BY <3>1, <3>2 DEF Sent
    <3> QED BY <1>4, <3>2, <3>3
  <2> QED BY <1>1, <2>1 DEF MessagesOK
<1>6. ListenersOK'
  <2>1. ASSUME NEW l \in Listeners PROVE TableOK(l)'
    <3>1. TableOK(l) /\ table'[l] = table[l]
      BY <1>1 DEF ListenersOK
    <3>2. table[l].id \in 0..id /\ table[l].seen \subseteq 1..id
      BY <3>1 DEF TableOK
    <3>3. table[l].id \in 0..(id + 1) /\ table[l].id # id + 1 /\ table[l].seen \subseteq 1..(id + 1)
      BY <1>1, <3>2
    <3> QED BY <1>1, <3>1, <3>3 DEF TableOK
  <2> QED BY <1>1, <2>1 DEF ListenersOK
<1> QED BY <1>2, <1>3, <1>5, <1>6 DEF Inv

-----------------------------------------------------------------------------
(* The listeners and the network *)

\* The empty table has no route.
LEMMA NoRoutesAt == \A p \in Learned : NoRoutes[p] = NoRoute
BY Zenon DEF NoRoutes, AllPrefixes

\* A listener that has not heard of a table has what its epoch 0 asks for.
LEMMA StartComplete ==
  ASSUME TablesFollow, NEW l, NEW routes
  PROVE  Complete(l, routes, 0, history)
<1>1. history[0 + 1] = NoRoutes
  BY DEF TablesFollow, Follows
<1>2. \A p \in Learned : history[0 + 1][p] = NoRoute
  BY <1>1, NoRoutesAt, Zenon
<1> QED BY <1>2 DEF Complete

\* What a listener has before it adds the routes of an update of this table.
LEMMA BeforeUpdate ==
  ASSUME TablesFollow, NEW l \in Listeners, ListenersOK, NEW t, t = table[l],
         NEW e, e = IF t.id = id THEN t.epoch ELSE 0
  PROVE  /\ e \in 0..Epoch /\ Complete(l, t.routes, e, history)
         /\ t.seen \cup {id} = {id} => Exact(t.routes, e, history)
<1>1. t \in TableState /\ TableOK(l) /\ Epoch \in Nat /\ id # 0
  BY EpochType DEF ListenersOK
<1>2. t.epoch \in Nat
  BY <1>1 DEF TableState
<1>3. CASE t.id = id
  <2>1. /\ t.epoch <= Epoch /\ Complete(l, t.routes, t.epoch, history)
        /\ t.seen = {id} => Exact(t.routes, t.epoch, history)
        /\ t.seen # {}
    BY <1>1, <1>3 DEF TableOK
  <2>2. t.seen \cup {id} = {id} => t.seen = {id}
    BY <2>1
  <2> QED BY <1>1, <1>2, <1>3, <2>1, <2>2
<1>4. CASE t.id # id
  <2>1. e = 0 /\ Complete(l, t.routes, 0, history)
    BY <1>4, StartComplete
  <2>2. ASSUME t.seen \cup {id} = {id} PROVE Exact(t.routes, 0, history)
    <3>1. t.seen = {}
      BY <1>1, <1>4, <2>2 DEF TableOK
    <3>2. t.routes = NoRoutes
      BY <1>1, <3>1 DEF TableOK
    <3>3. \A p \in Learned : t.routes[p] = NoRoute
      BY <3>2, NoRoutesAt, Zenon
    <3> QED BY <3>3 DEF Exact
  <2> QED BY <1>1, <2>1, <2>2
<1> QED BY <1>3, <1>4

\* What handling an update makes of a table.
Handled(l, t, u) == [HandleUpdateRequest(l, t, u) EXCEPT !.seen = @ \cup {u.id}]

\* The table of a listener after it has handled an update.
LEMMA HandledTable ==
  ASSUME TablesFollow, NEW l \in Listeners, ListenersOK, NEW t, t = table[l],
         NEW u, UpdateOK(u),
         NEW new, new = Handled(l, t, u)
  PROVE  /\ new \in TableState /\ new.id = u.id /\ new.seen = t.seen \cup {u.id}
         /\ u.id = id => /\ new.epoch <= Epoch
                         /\ Complete(l, new.routes, new.epoch, history)
                         /\ new.seen = {id} => Exact(new.routes, new.epoch, history)
<1>1. t \in TableState /\ Epoch \in Nat /\ id \in Nat
  BY EpochType DEF ListenersOK
<1>2. /\ t.id \in Nat /\ t.epoch \in Nat /\ t.routes \in Routes /\ t.seen \subseteq Nat
  BY <1>1 DEF TableState
<1>3. u.id \in Nat /\ u.from \in Nat /\ u.to \in Nat /\ u.routes \in Content /\ u.from <= u.to
  BY DEF UpdateOK, Update
<1>4. PICK e \in Nat : e = IF t.id = u.id THEN t.epoch ELSE 0
  BY <1>2
<1>5. u.id = id => /\ e \in 0..Epoch /\ Complete(l, t.routes, e, history)
                   /\ t.seen \cup {id} = {id} => Exact(t.routes, e, history)
  BY <1>4, BeforeUpdate
<1>6. CASE u.from > e \/ u.to < e
  <2>1. HandleUpdateRequest(l, t, u) = [t EXCEPT !.id = u.id, !.epoch = e]
    BY <1>4, <1>6, Zenon DEF HandleUpdateRequest, Gap
  <2>2. /\ new \in TableState /\ new.id = u.id /\ new.seen = t.seen \cup {u.id}
        /\ new.epoch = e /\ new.routes = t.routes
    BY <1>1, <1>2, <1>3, <2>1 DEF TableState, Handled
  <2> QED BY <1>1, <1>4, <1>5, <2>2
<1>7. CASE ~(u.from > e \/ u.to < e)
  <2>1. PICK routes : routes = AddRoutes(l, t.routes, u.routes)
    OBVIOUS
  <2>2. routes \in Routes
    BY <1>2, <1>3, <2>1, AddedType
  <2>3. HandleUpdateRequest(l, t, u) = [t EXCEPT !.id = u.id, !.epoch = u.to, !.routes = routes]
    <3>1. t.routes = t.routes
      OBVIOUS
    <3> QED BY <1>1, <1>4, <1>7, <2>1 DEF HandleUpdateRequest, Gap, TableState
  <2>4. /\ new \in TableState /\ new.id = u.id /\ new.seen = t.seen \cup {u.id}
        /\ new.epoch = u.to /\ new.routes = routes
    BY <1>1, <1>2, <1>3, <2>2, <2>3 DEF TableState, Handled
  <2>5. ASSUME u.id = id
        PROVE  /\ u.to <= Epoch /\ Complete(l, routes, u.to, history)
               /\ new.seen = {id} => Exact(routes, u.to, history)
    <3>1. u.to <= Epoch /\ Describes(u.routes, u.from, u.to, history)
      BY <2>5 DEF UpdateOK
    <3>2. e \in u.from..u.to
      BY <1>3, <1>4, <1>7
    <3>3. Complete(l, routes, u.to, history)
      BY <1>2, <1>3, <1>5, <2>1, <2>5, <3>1, <3>2, AddedComplete
    <3>4. new.seen = {id} => Exact(routes, u.to, history)
      BY <1>2, <1>3, <1>5, <2>1, <2>4, <2>5, <3>1, <3>2, AddedExact
    <3> QED BY <3>1, <3>3, <3>4
  <2> QED BY <2>4, <2>5
<1> QED BY <1>6, <1>7

\* The answer to an update leaves the broadcast's step and its update.
LEMMA AnswerType ==
  ASSUME BroadcastOK, NEW m \in Sent, NEW success, Answer(m, success)
  PROVE  /\ broadcast' \in BroadcastState
         /\ broadcast'.pc = broadcast.pc /\ broadcast'.update = broadcast.update
<1>1. broadcast \in BroadcastState /\ m.to \in Listeners /\ m.awaited \in BOOLEAN
  BY DEF BroadcastOK, Sent
<1>2. \/ broadcast' = broadcast
      \/ broadcast' = [broadcast EXCEPT !.waiting = {}, !.ok = @ \cup {m.to}]
      \/ broadcast' = [broadcast EXCEPT !.waiting = {}, !.failed = @ \cup {m.to}]
  <2>1. CASE ~m.awaited
    BY <2>1 DEF Answer
  <2>2. CASE m.awaited /\ success
    BY <2>2 DEF Answer
  <2>3. CASE m.awaited /\ ~success
    BY <2>3 DEF Answer
  <2> QED BY <2>1, <2>2, <2>3
<1>3. CASE broadcast' = broadcast
  BY <1>1, <1>3
<1>4. CASE broadcast' = [broadcast EXCEPT !.waiting = {}, !.ok = @ \cup {m.to}]
  BY <1>1, <1>4 DEF BroadcastState
<1>5. CASE broadcast' = [broadcast EXCEPT !.waiting = {}, !.failed = @ \cup {m.to}]
  BY <1>1, <1>5 DEF BroadcastState
<1> QED BY <1>2, <1>3, <1>4, <1>5

\* A listener handles an update, in whatever order they arrive.
LEMMA HandleUpdateStep ==
  ASSUME Inv, NEW m \in sent, HandleRouteUpdateRequest(m)
  PROVE  Inv'
<1>1. /\ TablesFollow /\ BroadcastOK /\ MessagesOK /\ ListenersOK /\ sent' = sent \ {m}
      /\ UNCHANGED <<id, updates, history, last_epoch_updates_sent_for, unavailable, asked>>
  BY DEF Inv, HandleRouteUpdateRequest
<1>2. m \in Sent /\ UpdateOK(m.update) /\ m.to \in Listeners
  BY <1>1 DEF MessagesOK, Sent
<1>3. PICK l \in Listeners : l = m.to
  BY <1>2
<1>4. PICK u : u = m.update
  OBVIOUS
<1>5. UpdateOK(u) /\ u.id \in 1..id
  BY <1>2, <1>4 DEF UpdateOK
<1>6. PICK gap, success : gap = IsGap(table[l], u) /\ success = ~gap
  OBVIOUS
<1>7. PICK t : t = table[l]
  OBVIOUS
<1>8. PICK new : new = Handled(l, t, u)
  OBVIOUS
<1>9. /\ table' = [table EXCEPT ![l] = new]
      /\ RequestMissing(l, gap) /\ Answer(m, success)
  <2>1. table' = [table EXCEPT ![m.to] = Handled(m.to, table[m.to], m.update)]
    BY DEF HandleRouteUpdateRequest, Handled
  <2>2. RequestMissing(l, gap) /\ Answer(m, success)
    BY <1>3, <1>4, <1>6, Zenon DEF HandleRouteUpdateRequest
  <2> QED BY <1>3, <1>4, <1>7, <1>8, <2>1, <2>2, Zenon
<1>10. /\ new \in TableState /\ new.id = u.id /\ new.seen = t.seen \cup {u.id}
       /\ u.id = id => /\ new.epoch <= Epoch
                       /\ Complete(l, new.routes, new.epoch, history)
                       /\ new.seen = {id} => Exact(new.routes, new.epoch, history)
  BY <1>1, <1>5, <1>7, <1>8, HandledTable
<1>11. ListenersOK'
  <2>1. table' \in [Listeners -> TableState] /\ asking' \subseteq Listeners
    BY <1>1, <1>9, <1>10 DEF ListenersOK, RequestMissing
  <2>2. ASSUME NEW k \in Listeners PROVE TableOK(k)'
    <3>1. CASE k = l
      <4>1. table'[k] = new
        BY <1>1, <1>9, <3>1 DEF ListenersOK
      <4>2. t.seen \subseteq 1..id /\ id \in Nat
        BY <1>1, <1>7, EpochType DEF ListenersOK, TableOK
      <4>3. new.id \in 0..id /\ new.seen \subseteq 1..id /\ new.seen # {} /\ new.id \in new.seen
        BY <1>5, <1>10, <4>2
      <4>4. id' = id /\ Epoch' = Epoch /\ history' = history
        BY <1>1 DEF Epoch
      <4> QED BY <1>10, <3>1, <4>1, <4>3, <4>4 DEF TableOK
    <3>2. CASE k # l
      <4>1. table'[k] = table[k] /\ TableOK(k)
        BY <1>1, <1>9, <3>2 DEF ListenersOK
      <4> QED BY <1>1, <4>1, TableSame
    <3> QED BY <3>1, <3>2
  <2> QED BY <2>1, <2>2 DEF ListenersOK
<1>12. BroadcastOK'
  <2>2. /\ broadcast' \in BroadcastState
        /\ broadcast'.pc = broadcast.pc /\ broadcast'.update = broadcast.update
    BY <1>1, <1>2, <1>9, AnswerType
  <2>3. unavailable' \in [Listeners -> Unavailability]
    BY <1>1 DEF BroadcastOK
  <2> QED BY <1>1, <2>2, <2>3, BroadcastSame
<1>13. MessagesOK'
  <2>1. asked' \subseteq Asked /\ \A s \in sent' : s \in sent
    BY <1>1 DEF MessagesOK
  <2> QED BY <1>1, <2>1, MessagesSame
<1>14. TablesFollow'
  BY <1>1, FollowSame
<1> QED BY <1>11, <1>12, <1>13, <1>14 DEF Inv

\* An update is lost or left without an answer.
LEMMA LoseUpdateStep ==
  ASSUME Inv, NEW m \in sent, NEW late \in BOOLEAN, LoseUpdate(m, late)
  PROVE  Inv'
<1>1. /\ BroadcastOK /\ MessagesOK /\ Answer(m, FALSE)
      /\ sent' = (sent \ {m}) \cup (IF late THEN {[m EXCEPT !.awaited = FALSE]} ELSE {})
      /\ UNCHANGED <<id, updates, history, last_epoch_updates_sent_for, unavailable,
                     table, asking, asked>>
  BY DEF Inv, LoseUpdate, listenerVars
<1>2. m \in Sent /\ UpdateOK(m.update)
  BY <1>1 DEF MessagesOK
<1>3. PICK s : s = [m EXCEPT !.awaited = FALSE]
  OBVIOUS
<1>4. s \in Sent /\ s.update = m.update
  BY <1>2, <1>3 DEF Sent
<1>5. UpdateOK(s.update)'
  BY <1>1, <1>2, <1>4, UpdateSame
<1>6. \A k \in sent' : k \in sent \/ k = s
  BY <1>1, <1>3
<1>7. BroadcastOK'
  <2>1. PICK success \in BOOLEAN : success = FALSE
    OBVIOUS
  <2>2. /\ broadcast' \in BroadcastState
        /\ broadcast'.pc = broadcast.pc /\ broadcast'.update = broadcast.update
    BY <1>1, <1>2, <2>1, AnswerType
  <2>3. unavailable' \in [Listeners -> Unavailability]
    BY <1>1 DEF BroadcastOK
  <2> QED BY <1>1, <2>2, <2>3, BroadcastSame
<1> QED BY <1>1, <1>4, <1>5, <1>6, <1>7, BroadcastMove DEF MessagesOK

\* A route control request, with the id and epoch of the table as it is.
LEMMA SendControlStep ==
  ASSUME Inv, NEW l \in Listeners, SendRouteControlRequest(l)
  PROVE  Inv'
<1>1. /\ TablesFollow /\ BroadcastOK /\ MessagesOK /\ ListenersOK
      /\ asking' = asking \ {l}
      /\ UNCHANGED <<id, updates, history, last_epoch_updates_sent_for, unavailable, broadcast,
                     table, sent>>
  BY DEF Inv, SendRouteControlRequest, speakerVars
<1>2. PICK c : c = [account |-> l, id |-> table[l].id, epoch |-> table[l].epoch]
  OBVIOUS
<1>3. table[l].id \in Nat /\ table[l].epoch \in Nat
  BY <1>1 DEF ListenersOK, TableState
<1>4. c \in Asked /\ asked' = asked \cup {c}
  BY <1>2, <1>3 DEF Asked, SendRouteControlRequest
<1>5. asked' \subseteq Asked
  BY <1>1, <1>4 DEF MessagesOK
<1>6. MessagesOK'
  BY <1>1, <1>5, MessagesSame
<1>7. ListenersOK'
  BY <1>1, ListenersSame DEF ListenersOK
<1>8. BroadcastOK'
  BY <1>1, BroadcastSame DEF BroadcastOK
<1> QED BY <1>1, <1>6, <1>7, <1>8, FollowSame DEF Inv

\* An empty table, of a listener that has just started.
LEMMA NewTableType ==
  /\ NewTable \in TableState /\ NewTable.id = 0 /\ NewTable.epoch = 0
  /\ NewTable.routes = NoRoutes /\ NewTable.seen = {}
<1>1. NoRoutes \in Routes
  BY DEF NoRoutes, Routes
<1> QED BY <1>1 DEF NewTable, TableState, DUMMY_ROUTING_TABLE_ID

\* The request such a listener sends.
LEMMA AskForAllType == ASSUME NEW l \in Listeners PROVE AskForAll(l) \in Asked
BY DEF AskForAll, Asked, DUMMY_ROUTING_TABLE_ID

\* A listener is started again.
LEMMA RestartListenerStep ==
  ASSUME Inv, NEW l \in Listeners, RestartListener(l)
  PROVE  Inv'
<1>1. /\ TablesFollow /\ BroadcastOK /\ MessagesOK /\ ListenersOK /\ id \in Nat /\ id # 0
      /\ table' = [table EXCEPT ![l] = NewTable] /\ asking' = asking \ {l}
      /\ asked' = asked \cup {AskForAll(l)}
      /\ UNCHANGED <<id, updates, history, last_epoch_updates_sent_for, unavailable, broadcast,
                     sent>>
  BY EpochType DEF Inv, RestartListener, speakerVars
<1>2. asked' \subseteq Asked
  BY <1>1, AskForAllType DEF MessagesOK
<1>3. MessagesOK'
  BY <1>1, <1>2, MessagesSame
<1>4. BroadcastOK'
  BY <1>1, BroadcastSame DEF BroadcastOK
<1>5. ListenersOK'
  <2>1. table' \in [Listeners -> TableState] /\ asking' \subseteq Listeners
    BY <1>1, NewTableType DEF ListenersOK
  <2>2. ASSUME NEW k \in Listeners PROVE TableOK(k)'
    <3>1. CASE k = l
      <4>1. table'[k] = NewTable
        BY <1>1, <3>1 DEF ListenersOK
      <4> QED BY <1>1, <4>1, NewTableType DEF TableOK
    <3>2. CASE k # l
      <4>1. table'[k] = table[k] /\ TableOK(k)
        BY <1>1, <3>2 DEF ListenersOK
      <4> QED BY <1>1, <4>1, TableSame
    <3> QED BY <3>1, <3>2
  <2> QED BY <2>1, <2>2 DEF ListenersOK
<1> QED BY <1>1, <1>3, <1>4, <1>5, FollowSame DEF Inv

\* A step that touches nothing but the route control requests and the count
\* of faults.
LEMMA QuietStep ==
  ASSUME Inv, UNCHANGED <<speakerVars, listenerVars, sent>>, asked' \subseteq asked
  PROVE  Inv'
<1>1. /\ BroadcastOK /\ MessagesOK
      /\ UNCHANGED <<id, updates, history, last_epoch_updates_sent_for, unavailable, broadcast,
                     table, asking, sent>>
  BY DEF Inv, speakerVars, listenerVars
<1>2. BroadcastOK'
  BY <1>1, BroadcastSame DEF BroadcastOK
<1>3. asked' \subseteq Asked
  BY <1>1 DEF MessagesOK
<1> QED BY <1>1, <1>2, <1>3, BroadcastMove

\* The invariant holds at the start.
LEMMA InvInit == ASSUME Init PROVE Inv
<1>1. /\ id = 1 /\ updates = <<>> /\ history = <<NoRoutes>>
      /\ last_epoch_updates_sent_for = 0 /\ broadcast = IdleBroadcast
      /\ unavailable = [l \in Listeners |-> Available]
      /\ table = [l \in Listeners |-> NewTable] /\ asking = {} /\ sent = {}
      /\ asked = {AskForAll(l) : l \in Listeners}
  BY DEF Init
<1>2. TablesFollow /\ Epoch = 0
  BY <1>1, FollowsInit DEF TablesFollow, Epoch
<1>3. BroadcastOK
  <2>1. unavailable \in [Listeners -> Unavailability]
    BY <1>1, AvailableType
  <2>2. broadcast \in BroadcastState /\ broadcast.pc = "idle"
    BY <1>1, IdleType
  <2> QED BY <1>1, <1>2, <2>1, <2>2 DEF BroadcastOK
<1>4. MessagesOK
  BY <1>1, AskForAllType DEF MessagesOK
<1>5. ListenersOK
  <2>1. table \in [Listeners -> TableState]
    BY <1>1, NewTableType
  <2>2. ASSUME NEW l \in Listeners PROVE TableOK(l)
    <3>1. table[l] = NewTable
      BY <1>1
    <3> QED BY <1>1, <3>1, NewTableType DEF TableOK
  <2> QED BY <1>1, <2>1, <2>2 DEF ListenersOK
<1> QED BY <1>2, <1>3, <1>4, <1>5 DEF Inv

\* Every step keeps it.
LEMMA InvStep == ASSUME Inv, [Next]_vars PROVE Inv'
<1>1. CASE \E t \in Transition : Publish(t)
  BY <1>1, PublishStep
<1>2. CASE BroadcastStep
  BY <1>2, PickAccountsStep, CreateBroadcastStep, FinishBroadcastStep, SendUpdateStep
    DEF BroadcastStep
<1>3. CASE PickAccountsFails
  BY <1>3, PickAccountsStep
<1>4. CASE \E c \in asked : HandleRouteControlRequest(c)
  BY <1>4, ControlStep
<1>5. CASE \E c \in asked : LoseControl(c)
  <2>1. UNCHANGED <<speakerVars, listenerVars, sent>> /\ asked' \subseteq asked
    BY <1>5 DEF LoseControl
  <2> QED BY <2>1, QuietStep
<1>6. CASE \E l \in Listeners, awaited \in BOOLEAN : Deliver(l, awaited)
  BY <1>6, HandleUpdateStep DEF Deliver
<1>7. CASE \E m \in sent, late \in BOOLEAN : LoseUpdate(m, late)
  BY <1>7, LoseUpdateStep
<1>8. CASE \E l \in Listeners : SendRouteControlRequest(l)
  BY <1>8, SendControlStep
<1>9. CASE \E l \in Listeners : RestartListener(l)
  BY <1>9, RestartListenerStep
<1>10. CASE RestartSpeaker
  BY <1>10, RestartSpeakerStep
<1>11. CASE UNCHANGED vars
  <2>1. UNCHANGED <<speakerVars, listenerVars, sent>> /\ asked' \subseteq asked
    BY <1>11 DEF vars
  <2> QED BY <2>1, QuietStep
<1> QED BY <1>1, <1>2, <1>3, <1>4, <1>5, <1>6, <1>7, <1>8, <1>9, <1>10, <1>11 DEF Next

\* The invariant of the protocol.
LEMMA InvAlways == Spec => []Inv
<1>1. Init => Inv
  BY InvInit
<1>2. Inv /\ [Next]_vars => Inv'
  BY InvStep
<1> QED BY <1>1, <1>2, PTL DEF Spec

-----------------------------------------------------------------------------
(* The theorems *)

\* Every variable keeps its type; the backoff counters neither wrap nor exceed
\* MaxBackoff.
THEOREM TypeCorrect == Spec => []TypeOK
<1>1. Inv => TypeOK
  <2> SUFFICES ASSUME Inv PROVE TypeOK
    OBVIOUS
  <2>1. TablesFollow /\ BroadcastOK /\ ListenersOK /\ Epoch \in Nat /\ id \in Nat
    BY EpochType DEF Inv
  <2>2. /\ updates \in Seq(Transition) /\ history \in Seq(Routes)
        /\ Len(history) = Epoch + 1
    BY <2>1 DEF TablesFollow, Follows, Epoch
  <2>3. \A i \in DOMAIN updates : updates[i] \in Transition
    BY <2>2
  <2>4. history \in [1..Epoch + 1 -> Routes]
    BY <2>1, <2>2
  <2>5. last_epoch_updates_sent_for \in 0..Epoch
    BY <2>1 DEF BroadcastOK
  <2>6. unavailable \in [Listeners -> [max : 0..MaxBackoff, skip_intervals : 0..MaxBackoff]]
    BY <2>1 DEF BroadcastOK, Unavailability
  <2>7. \A l \in Listeners : /\ table[l].id \in Nat /\ table[l].epoch \in Nat
                             /\ table[l].routes \in Routes
    BY <2>1 DEF ListenersOK, TableState
  <2>8. asking \subseteq Listeners
    BY <2>1 DEF ListenersOK
  <2> QED BY <2>1, <2>3, <2>4, <2>5, <2>6, <2>7, <2>8 DEF TypeOK
<1> QED BY <1>1, InvAlways, PTL

\* A listener that is at an epoch has every route of that epoch it accepts,
\* whatever was lost, late, repeated, reordered or merged on the way, and
\* whoever was started again.
THEOREM EpochsHideNoHole == Spec => []NoMissingRoutes
<1>1. Inv => NoMissingRoutes
  <2> SUFFICES ASSUME Inv PROVE NoMissingRoutes
    OBVIOUS
  <2>1. TablesFollow /\ ListenersOK /\ Epoch \in Nat
    BY EpochType DEF Inv
  <2>2. ASSUME NEW l \in Listeners, NEW e \in 1..Epoch, At(l, e)
        PROVE  /\ table[l].routes[OwnPrefix] # NoRoute
               /\ \A p \in Learned :
                    history[e + 1][p] # NoRoute /\ ~Refused(l, history[e + 1][p])
                      => table[l].routes[p] = history[e + 1][p]
    <3>1. table[l].id = id /\ table[l].epoch = e /\ e # 0
      BY <2>1, <2>2 DEF At
    <3>2. Complete(l, table[l].routes, e, history)
      BY <2>1, <3>1 DEF ListenersOK, TableOK
    <3> QED BY <3>1, <3>2 DEF Complete, Refused
  <2> QED BY <2>2 DEF NoMissingRoutes
<1> QED BY <1>1, InvAlways, PTL

\* A listener that has known no other table of the speaker has no route that
\* was withdrawn by its epoch.
THEOREM WithdrawnRoutesGo == Spec => []NoWithdrawnRoutesInOneTable
<1>1. Inv => NoWithdrawnRoutesInOneTable
  <2> SUFFICES ASSUME Inv PROVE NoWithdrawnRoutesInOneTable
    OBVIOUS
  <2>1. ListenersOK
    BY DEF Inv
  <2>2. ASSUME NEW l \in Listeners, table[l].seen = {id}, NEW e \in 0..Epoch, At(l, e)
        PROVE  \A p \in Learned : history[e + 1][p] = NoRoute
                                    => table[l].routes[p] = NoRoute
    <3>1. table[l].id = id /\ table[l].epoch = e
      BY <2>2 DEF At
    <3>2. Exact(table[l].routes, e, history)
      BY <2>1, <2>2, <3>1 DEF ListenersOK, TableOK
    <3> QED BY <3>2 DEF Exact
  <2> QED BY <2>2 DEF NoWithdrawnRoutesInOneTable
<1> QED BY <1>1, InvAlways, PTL
=============================================================================
