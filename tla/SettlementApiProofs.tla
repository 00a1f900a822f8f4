------------------------- MODULE SettlementApiProofs ------------------------
(***************************************************************************)
(* Proofs about the settlement endpoint: for any number of requests and    *)
(* keys, any amounts and scales, and any store failures and lost           *)
(* connections, a settlement is credited at most once, an acknowledged one *)
(* is credited, and scaling loses nothing.                                 *)
(***************************************************************************)
EXTENDS SettlementApi, SumTheorems

-----------------------------------------------------------------------------
(* Powers *)

\* The powers up to the n-th.
PowersTo(g, n) ==
  /\ g \in [0..n -> Nat]
  /\ \A i \in 0..n : g[i] = IF i = 0 THEN 1 ELSE Base * g[i - 1]

\* There are powers up to any number.
LEMMA PowersExist == \A n \in Nat : \E g : PowersTo(g, n)
<1> DEFINE C == {n \in Nat : ~ \E g : PowersTo(g, n)}
<1>1. SUFFICES ASSUME C # {} PROVE FALSE
  OBVIOUS
<1>2. PICK m \in C : \A k \in C : m <= k
  <2>1. C \subseteq Nat
    OBVIOUS
  <2> HIDE DEF C
  <2> QED BY <1>1, <2>1, Least
<1>3. CASE m = 0
  <2>1. PowersTo([i \in 0..0 |-> 1], 0)
    BY DEF PowersTo
  <2> QED BY <1>2, <1>3, <2>1
<1>4. CASE m # 0
  <2>1. m - 1 \in Nat /\ m - 1 \notin C
    BY <1>2, <1>4
  <2>2. PICK g : PowersTo(g, m - 1)
    BY <2>1
  <2> DEFINE h == [i \in 0..m |-> IF i = m THEN Base * g[m - 1] ELSE g[i]]
  <2>3. g \in [0..(m - 1) -> Nat] /\ Base \in Nat
    BY <2>2, ScaleAssumption DEF PowersTo
  <2>4. g[m - 1] \in Nat /\ Base * g[m - 1] \in Nat
    BY <2>1, <2>3
  <2>5. h \in [0..m -> Nat]
    BY <2>3, <2>4
  <2>6. ASSUME NEW i \in 0..m PROVE h[i] = IF i = 0 THEN 1 ELSE Base * h[i - 1]
    <3>1. CASE i = m
      BY <2>1, <3>1, <1>4
    <3>2. CASE i # m
      <4>1. i \in 0..(m - 1) /\ h[i] = g[i]
        BY <2>1, <3>2
      <4>2. g[i] = IF i = 0 THEN 1 ELSE Base * g[i - 1]
        BY <2>2, <4>1 DEF PowersTo
      <4>3. i # 0 => h[i - 1] = g[i - 1]
        BY <3>2
      <4> QED BY <4>1, <4>2, <4>3
    <3> QED BY <3>1, <3>2
  <2>7. PowersTo(h, m)
    <3> HIDE DEF h
    <3> QED BY <2>5, <2>6 DEF PowersTo
  <2> QED BY <1>2, <2>7
<1> QED BY <1>3, <1>4

\* They do not depend on how far they go.
LEMMA PowersUnique ==
  ASSUME NEW n \in Nat, NEW m \in Nat, NEW g, NEW h, PowersTo(g, n), PowersTo(h, m),
         NEW i \in Nat, i <= n, i <= m
  PROVE  g[i] = h[i]
<1> DEFINE C == {j \in 0..i : g[j] # h[j]}
<1>1. SUFFICES ASSUME C # {} PROVE FALSE
  OBVIOUS
<1>2. PICK j \in C : \A k \in C : j <= k
  <2>1. C \subseteq Nat
    OBVIOUS
  <2> HIDE DEF C
  <2> QED BY <1>1, <2>1, Least
<1>3. j \in 0..n /\ j \in 0..m /\ g[j] # h[j]
  OBVIOUS
<1>4. CASE j = 0
  BY <1>3, <1>4 DEF PowersTo
<1>5. CASE j # 0
  <2>1. j - 1 \in 0..i /\ j - 1 \notin C
    BY <1>2, <1>5
  <2>2. g[j - 1] = h[j - 1]
    BY <2>1
  <2> QED BY <1>3, <1>5, <2>2 DEF PowersTo
<1> QED BY <1>4, <1>5

\* Power satisfies its recursive definition.
LEMMA PowerEquation ==
  \A n \in Nat : Power[n] \in Nat /\ Power[n] = IF n = 0 THEN 1 ELSE Base * Power[n - 1]
<1> DEFINE G(n) == CHOOSE g : PowersTo(g, n)
           P == [n \in Nat |-> G(n)[n]]
<1>1. \A n \in Nat : PowersTo(G(n), n)
  BY PowersExist
<1>2. ASSUME NEW n \in Nat
      PROVE  P[n] \in Nat /\ P[n] = IF n = 0 THEN 1 ELSE Base * P[n - 1]
  <2>1. P[n] = G(n)[n] /\ PowersTo(G(n), n)
    BY <1>1
  <2>3. n # 0 => n - 1 \in Nat /\ P[n - 1] = G(n - 1)[n - 1] /\ PowersTo(G(n - 1), n - 1)
    BY <1>1
  <2> HIDE DEF G, P
  <2>2. G(n) \in [0..n -> Nat] /\ n \in 0..n
    BY <2>1 DEF PowersTo
  <2>4. P[n] \in Nat
    BY <2>1, <2>2
  <2>5. CASE n = 0
    BY <2>1, <2>2, <2>5 DEF PowersTo
  <2>6. CASE n # 0
    <3>1. G(n)[n] = Base * G(n)[n - 1]
      BY <2>1, <2>2, <2>6 DEF PowersTo
    <3>2. G(n)[n - 1] = G(n - 1)[n - 1]
      BY <2>1, <2>3, <2>6, PowersUnique
    <3> QED BY <2>1, <2>3, <2>4, <2>6, <3>1, <3>2
  <2> QED BY <2>4, <2>5, <2>6
<1>3. P = [n \in Nat |-> IF n = 0 THEN 1 ELSE Base * P[n - 1]]
  <2>1. P = [n \in Nat |-> P[n]]
    OBVIOUS
  <2> HIDE DEF P
  <2> QED BY <1>2, <2>1
<1> HIDE DEF P
<1>4. Power = [n \in Nat |-> IF n = 0 THEN 1 ELSE Base * Power[n - 1]]
  BY <1>3 DEF Power
<1>5. \A n \in Nat : Power[n] = P[n]
  <2> DEFINE C == {n \in Nat : Power[n] # P[n]}
  <2>1. SUFFICES ASSUME C # {} PROVE FALSE
    OBVIOUS
  <2>2. PICK n \in C : \A k \in C : n <= k
    <3>1. C \subseteq Nat
      OBVIOUS
    <3> HIDE DEF C
    <3> QED BY <2>1, <3>1, Least
  <2>3. CASE n = 0
    BY <1>2, <1>4, <2>2, <2>3
  <2>4. CASE n # 0
    <3>1. n - 1 \in Nat /\ n - 1 \notin C
      BY <2>2, <2>4
    <3>2. Power[n - 1] = P[n - 1]
      BY <3>1
    <3> QED BY <1>2, <1>4, <2>2, <2>4, <3>2
  <2> QED BY <2>3, <2>4
<1> QED BY <1>2, <1>5

\* A power is not 0.
LEMMA PowerType == \A n \in Nat : Power[n] \in Nat \ {0}
<1> DEFINE C == {n \in Nat : Power[n] = 0}
<1>1. SUFFICES ASSUME C # {} PROVE FALSE
  BY PowerEquation
<1>2. PICK n \in C : \A k \in C : n <= k
  <2>1. C \subseteq Nat
    OBVIOUS
  <2> HIDE DEF C
  <2> QED BY <1>1, <2>1, Least
<1>3. n # 0
  BY PowerEquation
<1>4. n - 1 \in Nat /\ n - 1 \notin C
  BY <1>2, <1>3
<1>5. Power[n - 1] \in Nat /\ Power[n - 1] # 0
  BY <1>4, PowerEquation
<1>6. 0 = Base * Power[n - 1]
  BY <1>2, <1>3, PowerEquation
<1>7. Base \in Nat /\ Base # 0
  BY ScaleAssumption
<1> QED BY <1>5, <1>6, <1>7

\* The power of a sum is the product of the powers.
LEMMA PowerSum == \A a, b \in Nat : Power[a + b] = Power[a] * Power[b]
<1> SUFFICES ASSUME NEW a \in Nat PROVE \A b \in Nat : Power[a + b] = Power[a] * Power[b]
  OBVIOUS
<1> DEFINE C == {b \in Nat : Power[a + b] # Power[a] * Power[b]}
<1>1. SUFFICES ASSUME C # {} PROVE FALSE
  OBVIOUS
<1>2. PICK b \in C : \A k \in C : b <= k
  <2>1. C \subseteq Nat
    OBVIOUS
  <2> HIDE DEF C
  <2> QED BY <1>1, <2>1, Least
<1>3. CASE b = 0
  <2>1. Power[a] \in Nat /\ Power[0] = 1 /\ a + b = a
    BY <1>3, PowerEquation
  <2>2. Power[a] * 1 = Power[a]
    BY <2>1
  <2> QED BY <1>2, <1>3, <2>1, <2>2
<1>4. CASE b # 0
  <2>1. b - 1 \in Nat /\ b - 1 \notin C
    BY <1>2, <1>4
  <2>2. Power[a + (b - 1)] = Power[a] * Power[b - 1]
    BY <2>1
  <2>3. Power[b] = Base * Power[b - 1]
    BY <1>4, PowerEquation
  <2>4. a + b \in Nat /\ a + b # 0 /\ (a + b) - 1 = a + (b - 1)
    BY <1>4
  <2>5. Power[a + b] = Base * Power[a + (b - 1)]
    BY <2>4, PowerEquation
  <2>6. Power[a] \in Nat /\ Power[b - 1] \in Nat /\ Base \in Nat
    BY <2>1, PowerEquation, ScaleAssumption
  <2>7. Base * (Power[a] * Power[b - 1]) = Power[a] * (Base * Power[b - 1])
    BY <2>6
  <2> QED BY <1>2, <2>2, <2>3, <2>5, <2>7
<1> QED BY <1>3, <1>4

-----------------------------------------------------------------------------
(* Scaling *)

\* The constants.
LEMMA Constants ==
  /\ asset_scale \in 0..FinestScale /\ FinestScale \in Nat
  /\ \A s \in Scales : s \in 0..FinestScale
  /\ \A n \in Amounts : n \in Nat
  /\ NoKey \notin Keys /\ IsFiniteSet(Requests) /\ None \notin Requests /\ None \notin Saved
  /\ MaxFaults \in Nat /\ MaxDrops \in Nat
BY ScaleAssumption, NoneAssumption

\* Division rounds down.
LEMMA Division ==
  ASSUME NEW a \in Nat, NEW b \in Nat \ {0}
  PROVE  a \div b \in Nat /\ (a \div b) * b \in Nat /\ (a \div b) * b <= a
<1>1. a \div b \in Nat
  OBVIOUS
<1>2. a = b * (a \div b) + (a % b) /\ a % b \in Nat
  OBVIOUS
<1> DEFINE q == a \div b
<1> HIDE DEF q
<1>3. b * q = q * b /\ q * b \in Nat
  BY <1>1 DEF q
<1> QED BY <1>1, <1>2, <1>3 DEF q

\* The value of a natural number is one.
LEMMA ValueType ==
  ASSUME NEW n \in Nat, NEW s \in 0..FinestScale
  PROVE  Value(n, s) \in Nat
<1>1. FinestScale - s \in Nat
  BY Constants
<1>2. Power[FinestScale - s] \in Nat
  BY <1>1, PowerType
<1> QED BY <1>2 DEF Value

\* Values add up.
LEMMA ValueSum ==
  ASSUME NEW n \in Nat, NEW m \in Nat, NEW s \in 0..FinestScale
  PROVE  Value(n + m, s) = Value(n, s) + Value(m, s)
<1>1. FinestScale - s \in Nat
  BY Constants
<1>2. PICK p \in Nat : p = Power[FinestScale - s]
  BY <1>1, PowerType
<1>3. (n + m) * p = n * p + m * p
  OBVIOUS
<1> QED BY <1>2, <1>3 DEF Value

\* Nothing is worth nothing.
LEMMA ValueZero == ASSUME NEW s \in 0..FinestScale PROVE Value(0, s) = 0
<1>1. FinestScale - s \in Nat
  BY Constants
<1>2. PICK p \in Nat : p = Power[FinestScale - s]
  BY <1>1, PowerType
<1>3. 0 * p = 0
  OBVIOUS
<1> QED BY <1>2, <1>3 DEF Value

\* Scaling up keeps the value.
LEMMA ScaleUp ==
  ASSUME NEW n \in Nat, NEW from \in 0..FinestScale, NEW to \in 0..FinestScale, from <= to
  PROVE  /\ NormalizeScale(n, from, to) \in Nat
         /\ Value(NormalizeScale(n, from, to), to) = Value(n, from)
<1>1. /\ to - from \in Nat /\ FinestScale - to \in Nat
      /\ FinestScale - from = (to - from) + (FinestScale - to)
  BY Constants
<1>2. PICK p \in Nat : p = Power[to - from]
  BY <1>1, PowerType
<1>3. PICK q \in Nat : q = Power[FinestScale - to]
  BY <1>1, PowerType
<1>4. Power[FinestScale - from] = p * q
  BY <1>1, <1>2, <1>3, PowerSum
<1>5. NormalizeScale(n, from, to) = n * p
  BY <1>2 DEF NormalizeScale
<1>6. (n * p) * q = n * (p * q) /\ n * p \in Nat
  OBVIOUS
<1> QED BY <1>3, <1>4, <1>5, <1>6 DEF Value

\* What scaling down cannot express is the loss, and nothing else is lost.
LEMMA ScaleSplit ==
  ASSUME NEW n \in Nat, NEW local \in 0..FinestScale, NEW remote \in 0..FinestScale,
         NEW s, s = ScaleWithPrecisionLoss(n, local, remote)
  PROVE  /\ s.scaled \in Nat /\ s.loss \in Nat
         /\ Value(n, remote) = Value(s.scaled, local) + Value(s.loss, remote)
<1>1. CASE remote <= local
  <2>1. s.scaled = NormalizeScale(n, remote, local) /\ s.loss = 0
    BY <1>1 DEF ScaleWithPrecisionLoss
  <2>2. s.scaled \in Nat /\ Value(s.scaled, local) = Value(n, remote)
    BY <1>1, <2>1, ScaleUp
  <2>3. Value(s.loss, remote) = 0 /\ Value(n, remote) \in Nat
    BY <2>1, ValueZero, ValueType
  <2> QED BY <2>1, <2>2, <2>3
<1>2. CASE local < remote
  <2>1. /\ remote - local \in Nat /\ FinestScale - remote \in Nat
        /\ FinestScale - local = (remote - local) + (FinestScale - remote)
    BY <1>2, Constants
  <2>2. PICK p \in Nat \ {0} : p = Power[remote - local]
    BY <2>1, PowerType
  <2>3. PICK q \in Nat : q = Power[FinestScale - remote]
    BY <2>1, PowerType
  <2>4. Power[FinestScale - local] = p * q
    BY <2>1, <2>2, <2>3, PowerSum
  <2>5. PICK d \in Nat : d = n \div p
    BY Division
  <2>6. d * p \in Nat /\ d * p <= n
    BY <2>5, Division
  <2>7. NormalizeScale(n, remote, local) = d /\ NormalizeScale(d, local, remote) = d * p
    BY <1>2, <2>2, <2>5 DEF NormalizeScale
  <2>8. s.scaled = d /\ s.loss = n - d * p
    BY <1>2, <2>7 DEF ScaleWithPrecisionLoss
  <2>9. n * q = d * (p * q) + (n - d * p) * q
    <3>1. PICK e \in Nat : e = d * p
      BY <2>6
    <3>2. n * q = e * q + (n - e) * q
      OBVIOUS
    <3>3. e * q = d * (p * q)
      BY <3>1
    <3> QED BY <3>1, <3>2, <3>3
  <2> QED BY <2>3, <2>4, <2>6, <2>8, <2>9 DEF Value
<1> QED BY <1>1, <1>2

\* A list of quantities has finitely many places, each with a quantity.
LEMMA ListPlaces ==
  ASSUME NEW list \in Seq(Quantity)
  PROVE  /\ IsFiniteSet(DOMAIN list) /\ DOMAIN list = 1..Len(list) /\ Len(list) \in Nat
         /\ \A i \in DOMAIN list : list[i].num \in Nat /\ list[i].scale \in 0..FinestScale
<1>1. DOMAIN list = 1..Len(list) /\ Len(list) \in Nat
  OBVIOUS
<1>2. IsFiniteSet(1..Len(list))
  BY <1>1, FS_Interval
<1>3. \A i \in DOMAIN list : list[i] \in Quantity
  OBVIOUS
<1> QED BY <1>1, <1>2, <1>3 DEF Quantity

\* An empty list keeps nothing.
LEMMA KeptNone == Kept(<< >>) = 0
<1>1. DOMAIN << >> = {}
  OBVIOUS
<1> QED BY <1>1, SumEmpty DEF Kept

\* The values kept in a list, place by place.
LEMMA KeptPlaces ==
  ASSUME NEW list \in Seq(Quantity), NEW f,
         f = [i \in DOMAIN list |-> Value(list[i].num, list[i].scale)]
  PROVE  /\ Kept(list) = SumFunctionOnSet(f, DOMAIN list)
         /\ \A i \in DOMAIN list : f[i] \in Nat
<1>1. Kept(list) = SumFunctionOnSet(f, DOMAIN list)
  BY DEF Kept
<1>2. \A i \in DOMAIN list : f[i] \in Nat
  BY ListPlaces, ValueType
<1> QED BY <1>1, <1>2

\* What a list keeps is a natural number.
LEMMA KeptType == ASSUME NEW list \in Seq(Quantity) PROVE Kept(list) \in Nat
<1>1. PICK f : f = [i \in DOMAIN list |-> Value(list[i].num, list[i].scale)]
  OBVIOUS
<1>2. /\ Kept(list) = SumFunctionOnSet(f, DOMAIN list) /\ IsFiniteSet(DOMAIN list)
      /\ \A i \in DOMAIN list : f[i] \in Nat
  BY <1>1, KeptPlaces, ListPlaces
<1> QED BY <1>2, SumNat

\* A quantity that is appended to a list is kept in it.
LEMMA KeptAppend ==
  ASSUME NEW list \in Seq(Quantity), NEW q \in Quantity
  PROVE  Kept(Append(list, q)) = Kept(list) + Value(q.num, q.scale)
<1> DEFINE new == Append(list, q)
           n == Len(list) + 1
           D == DOMAIN list
<1>1. /\ new \in Seq(Quantity) /\ D = 1..Len(list) /\ n \notin D
      /\ DOMAIN new = D \cup {n} /\ new[n] = q /\ \A i \in D : new[i] = list[i]
  OBVIOUS
<1>2. PICK f : f = [i \in D |-> Value(list[i].num, list[i].scale)]
  OBVIOUS
<1>3. PICK g : g = [i \in DOMAIN new |-> Value(new[i].num, new[i].scale)]
  OBVIOUS
<1>4. /\ Kept(list) = SumFunctionOnSet(f, D) /\ IsFiniteSet(D)
      /\ \A i \in D : f[i] \in Nat
  BY <1>2, KeptPlaces, ListPlaces
<1> HIDE DEF new, n, D
<1>5. Kept(new) = SumFunctionOnSet(g, D \cup {n}) /\ \A i \in D \cup {n} : g[i] \in Nat
  BY <1>1, <1>3, KeptPlaces
<1>6. SumFunctionOnSet(g, D \cup {n}) = g[n] + SumFunctionOnSet(g, D)
  <2>1. n \notin D /\ IsFiniteSet(D) /\ \A i \in D \cup {n} : g[i] \in Int
    BY <1>1, <1>4, <1>5
  <2> QED BY ONLY <2>1, SumAdd
<1>7. g[n] = Value(q.num, q.scale) /\ \A i \in D : g[i] = f[i]
  BY <1>1, <1>2, <1>3
<1>8. SumFunctionOnSet(g, D) = SumFunctionOnSet(f, D)
  BY <1>4, <1>7, SumSame
<1>9. SumFunctionOnSet(f, D) \in Nat /\ g[n] \in Nat
  BY <1>4, <1>5, SumNat
<1> QED BY <1>4, <1>5, <1>6, <1>7, <1>8, <1>9 DEF new

\* Summing a list up in its largest scale keeps its value.
LEMMA ParseKeeps ==
  ASSUME NEW list \in Seq(Quantity), NEW total, total = ParseMultiValues(list)
  PROVE  /\ total.num \in Nat /\ total.scale \in 0..FinestScale
         /\ Value(total.num, total.scale) = Kept(list)
<1> DEFINE D == DOMAIN list
           scales == {list[i].scale : i \in D} \cup {0}
           scale == CHOOSE s \in scales : \A o \in scales : o <= s
           nums == [i \in D |-> NormalizeScale(list[i].num, list[i].scale, scale)]
<1>1. total.num = SumFunctionOnSet(nums, D) /\ total.scale = scale
  BY DEF ParseMultiValues
<1>2. IsFiniteSet(D) /\ \A i \in D : list[i].num \in Nat /\ list[i].scale \in 0..FinestScale
  BY ListPlaces
<1>3. scales \subseteq 0..FinestScale /\ scales # {} /\ \A i \in D : list[i].scale \in scales
  BY <1>2, Constants
<1> HIDE DEF D, scales
<1>4. \E m \in scales : \A k \in scales : k <= m
  BY <1>3, Constants, Greatest
<1>5. scale \in scales /\ \A o \in scales : o <= scale
  BY <1>4
<1>6. PICK m \in 0..FinestScale : m = scale
  BY <1>3, <1>5
<1>7. \A i \in D : list[i].scale <= m
  BY <1>3, <1>5, <1>6
<1>8. nums = [i \in D |-> NormalizeScale(list[i].num, list[i].scale, m)]
  BY <1>6
<1> HIDE DEF scale, nums
<1>9. \A i \in D : nums[i] \in Nat /\ Value(nums[i], m) = Value(list[i].num, list[i].scale)
  BY <1>2, <1>7, <1>8, ScaleUp
<1>10. PICK f : f = [i \in D |-> Value(list[i].num, list[i].scale)]
  OBVIOUS
<1>11. Kept(list) = SumFunctionOnSet(f, D)
  BY <1>10, KeptPlaces DEF D
<1>12. PICK p \in Nat : p = Power[FinestScale - m]
  <2>1. FinestScale - m \in Nat
    BY Constants
  <2> QED BY <2>1, PowerType
<1>13. \A i \in D : nums[i] \in Int /\ f[i] = nums[i] * p
  BY <1>9, <1>10, <1>12 DEF Value
<1>14. SumFunctionOnSet(f, D) = SumFunctionOnSet(nums, D) * p
  <2>1. p \in Int
    OBVIOUS
  <2> QED BY <2>1, <1>2, <1>13, SumTimes
<1>15. SumFunctionOnSet(nums, D) \in Nat
  BY <1>2, <1>9, SumNat
<1> QED BY <1>1, <1>6, <1>11, <1>12, <1>14, <1>15 DEF Value

-----------------------------------------------------------------------------
(* Types *)

\* r's call gets these values and keeps the others; no other call changes.
Moves(r, pc, credit, loss_saved, failed) ==
  /\ req' \in [Requests -> Req]
  /\ \A q \in Requests \ {r} : req'[q] = req[q]
  /\ req'[r].pc = pc /\ req'[r].credit = credit
  /\ req'[r].loss_saved = loss_saved /\ req'[r].failed = failed
  /\ req'[r].key = req[r].key /\ req'[r].input = req[r].input
  /\ req'[r].scaled = req[r].scaled /\ req'[r].loss = req[r].loss
  /\ req'[r].loaded = req[r].loaded /\ req'[r].remainder = req[r].remainder

\* The fields of a call.
LEMMA Fields ==
  ASSUME TypeOK, NEW r \in Requests
  PROVE  /\ req[r].pc \in Live \cup Ended \cup {"idle"}
         /\ req[r].key \in Keys \cup {NoKey} /\ req[r].input \in Quantity
         /\ req[r].input.num \in Nat /\ req[r].input.scale \in 0..FinestScale
         /\ req[r].scaled \in Nat /\ req[r].loss \in Nat /\ req[r].loaded \in Nat
         /\ req[r].remainder \in Quantity
         /\ req[r].remainder.num \in Nat /\ req[r].remainder.scale \in 0..FinestScale
         /\ req[r].credit \in {"todo", "done", "failed"}
         /\ req[r].loss_saved \in {"todo", "done", "failed"}
         /\ req[r].failed \in BOOLEAN
<1>1. req[r] \in Req
  BY DEF TypeOK
<1>2. req[r].input \in Quantity /\ req[r].remainder \in Quantity
  BY <1>1 DEF Req
<1>3. \A x \in Quantity : x.num \in Nat /\ x.scale \in 0..FinestScale
  BY DEF Quantity
<1> QED BY <1>1, <1>2, <1>3 DEF Req

\* A call goes on elsewhere.
LEMMA GotoMoves ==
  ASSUME TypeOK, NEW r \in Requests, NEW pc \in Live \cup Ended \cup {"idle"}, Goto(r, pc)
  PROVE  Moves(r, pc, req[r].credit, req[r].loss_saved, req[r].failed)
<1>1. PICK rec : rec = [req[r] EXCEPT !.pc = pc]
  OBVIOUS
<1>2. req[r] \in Req
  BY DEF TypeOK
<1>3. rec \in Req
  BY <1>1, <1>2 DEF Req
<1>4. req' = [req EXCEPT ![r] = rec]
  BY <1>1 DEF Goto, TypeOK
<1>5. req' \in [Requests -> Req] /\ req'[r] = rec /\ \A q \in Requests \ {r} : req'[q] = req[q]
  BY <1>3, <1>4 DEF TypeOK
<1> QED BY <1>1, <1>2, <1>5 DEF Moves, Req

\* A call is about to save its error.
LEMMA FailMoves ==
  ASSUME TypeOK, NEW r \in Requests, FailWith(r)
  PROVE  Moves(r, "save", req[r].credit, req[r].loss_saved, TRUE)
<1>1. PICK rec : rec = [req[r] EXCEPT !.pc = "save", !.failed = TRUE]
  OBVIOUS
<1>2. req[r] \in Req
  BY DEF TypeOK
<1>3. rec \in Req
  BY <1>1, <1>2 DEF Req, Live
<1>4. req' = [req EXCEPT ![r] = rec]
  BY <1>1 DEF FailWith, TypeOK
<1>5. req' \in [Requests -> Req] /\ req'[r] = rec /\ \A q \in Requests \ {r} : req'[q] = req[q]
  BY <1>3, <1>4 DEF TypeOK
<1> QED BY <1>1, <1>2, <1>5 DEF Moves, Req

\* The update of the balance has ended.
LEMMA CreditMoves ==
  ASSUME TypeOK, NEW r \in Requests, NEW c \in {"done", "failed"},
         req' = [req EXCEPT ![r].credit = c]
  PROVE  Moves(r, req[r].pc, c, req[r].loss_saved, req[r].failed)
<1>1. PICK rec : rec = [req[r] EXCEPT !.credit = c]
  OBVIOUS
<1>2. req[r] \in Req
  BY DEF TypeOK
<1>3. rec \in Req
  BY <1>1, <1>2 DEF Req
<1>4. req' = [req EXCEPT ![r] = rec]
  BY <1>1 DEF TypeOK
<1>5. req' \in [Requests -> Req] /\ req'[r] = rec /\ \A q \in Requests \ {r} : req'[q] = req[q]
  BY <1>3, <1>4 DEF TypeOK
<1> QED BY <1>1, <1>2, <1>5 DEF Moves, Req

\* Saving the loss has ended.
LEMMA LossMoves ==
  ASSUME TypeOK, NEW r \in Requests, NEW c \in {"done", "failed"},
         req' = [req EXCEPT ![r].loss_saved = c]
  PROVE  Moves(r, req[r].pc, req[r].credit, c, req[r].failed)
<1>1. PICK rec : rec = [req[r] EXCEPT !.loss_saved = c]
  OBVIOUS
<1>2. req[r] \in Req
  BY DEF TypeOK
<1>3. rec \in Req
  BY <1>1, <1>2 DEF Req
<1>4. req' = [req EXCEPT ![r] = rec]
  BY <1>1 DEF TypeOK
<1>5. req' \in [Requests -> Req] /\ req'[r] = rec /\ \A q \in Requests \ {r} : req'[q] = req[q]
  BY <1>3, <1>4 DEF TypeOK
<1> QED BY <1>1, <1>2, <1>5 DEF Moves, Req

\* Both have ended.
LEMMA JoinMoves ==
  ASSUME TypeOK, NEW r \in Requests, Join(r)
  PROVE  Moves(r, "save", req[r].credit, req[r].loss_saved,
               req[r].credit = "failed" \/ req[r].loss_saved = "failed")
<1>1. PICK f \in BOOLEAN : f = (req[r].credit = "failed" \/ req[r].loss_saved = "failed")
  OBVIOUS
<1>2. PICK rec : rec = [req[r] EXCEPT !.pc = "save", !.failed = f]
  OBVIOUS
<1>3. req[r] \in Req
  BY DEF TypeOK
<1>4. rec \in Req
  BY <1>2, <1>3 DEF Req, Live
<1>5. req' = [req EXCEPT ![r] = rec]
  BY <1>1, <1>2 DEF Join, TypeOK
<1>6. req' \in [Requests -> Req] /\ req'[r] = rec /\ \A q \in Requests \ {r} : req'[q] = req[q]
  BY <1>4, <1>5 DEF TypeOK
<1>7. Moves(r, "save", req[r].credit, req[r].loss_saved, f)
  BY <1>2, <1>3, <1>6 DEF Moves, Req
<1> QED BY <1>1, <1>7

\* The call of a request that arrives.
LEMMA ArriveMoves ==
  ASSUME TypeOK, NEW r \in Requests, NEW key \in Keys \cup {NoKey}, NEW n \in Amounts,
         NEW s \in Scales, NEW input, input = [num |-> n, scale |-> s],
         Arrive(r, key, input)
  PROVE  /\ req' \in [Requests -> Req]
         /\ \A q \in Requests \ {r} : req'[q] = req[q]
         /\ req'[r].pc = "check" /\ req'[r].key = key /\ req'[r].input = input
         /\ req'[r].input.num \in Nat /\ req'[r].input.scale \in 0..FinestScale
         /\ Value(req'[r].input.num, req'[r].input.scale) =
              Value(req'[r].scaled, asset_scale) + Value(req'[r].loss, req'[r].input.scale)
         /\ req'[r].credit = req[r].credit /\ req'[r].loss_saved = req[r].loss_saved
<1>1. PICK w : w = ScaleWithPrecisionLoss(input.num, asset_scale, input.scale)
  OBVIOUS
<1>2. input \in Quantity /\ input.num = n /\ input.scale = s /\ n \in Nat /\ s \in 0..FinestScale
  BY Constants DEF Quantity
<1>3. /\ w.scaled \in Nat /\ w.loss \in Nat
      /\ Value(n, s) = Value(w.scaled, asset_scale) + Value(w.loss, s)
  BY <1>1, <1>2, Constants, ScaleSplit
<1>4. PICK rec : rec = [req[r] EXCEPT !.pc = "check", !.key = key, !.input = input,
                                      !.scaled = w.scaled, !.loss = w.loss]
  OBVIOUS
<1>5. req[r] \in Req
  BY DEF TypeOK
<1>6. rec \in Req
  BY <1>2, <1>3, <1>4, <1>5 DEF Req, Live
<1>7. req' = [req EXCEPT ![r] = rec]
  BY <1>1, <1>4 DEF Arrive, TypeOK
<1>8. req' \in [Requests -> Req] /\ req'[r] = rec /\ \A q \in Requests \ {r} : req'[q] = req[q]
  BY <1>6, <1>7 DEF TypeOK
<1>9. /\ rec.pc = "check" /\ rec.key = key /\ rec.input = input /\ rec.scaled = w.scaled
      /\ rec.loss = w.loss /\ rec.credit = req[r].credit /\ rec.loss_saved = req[r].loss_saved
  BY <1>4, <1>5 DEF Req
<1> QED BY <1>2, <1>3, <1>8, <1>9

\* The call of a request that takes the leftovers.
LEMMA LoadMoves ==
  ASSUME TypeOK, NEW r \in Requests, LoadLeftovers(r)
  PROVE  /\ req' \in [Requests -> Req]
         /\ \A q \in Requests \ {r} : req'[q] = req[q]
         /\ req'[r].key = req[r].key /\ req'[r].input = req[r].input
         /\ req'[r].scaled = req[r].scaled /\ req'[r].loss = req[r].loss
         /\ req'[r].credit = req[r].credit /\ req'[r].loss_saved = req[r].loss_saved
         /\ req'[r].remainder \in Quantity
         /\ req'[r].pc = IF req'[r].remainder.num > 0 THEN "remainder" ELSE "settle"
         /\ Kept(leftovers) = Value(req'[r].loaded, asset_scale)
                + Value(req'[r].remainder.num, req'[r].remainder.scale)
<1>1. PICK total : total = ParseMultiValues(leftovers)
  OBVIOUS
<1>2. PICK w : w = ScaleWithPrecisionLoss(total.num, asset_scale, total.scale)
  OBVIOUS
<1>3. leftovers \in Seq(Quantity)
  BY DEF TypeOK
<1>4. /\ total.num \in Nat /\ total.scale \in 0..FinestScale
      /\ Value(total.num, total.scale) = Kept(leftovers)
  BY <1>1, <1>3, ParseKeeps
<1>5. /\ w.scaled \in Nat /\ w.loss \in Nat
      /\ Kept(leftovers) = Value(w.scaled, asset_scale) + Value(w.loss, total.scale)
  BY <1>2, <1>4, Constants, ScaleSplit
<1>6. PICK rem : rem = [num |-> w.loss, scale |-> total.scale]
  OBVIOUS
<1>7. rem \in Quantity /\ rem.num = w.loss /\ rem.scale = total.scale
  BY <1>4, <1>5, <1>6 DEF Quantity
<1>8. PICK pc \in {"remainder", "settle"} : pc = IF w.loss > 0 THEN "remainder" ELSE "settle"
  OBVIOUS
<1>9. PICK rec : rec = [req[r] EXCEPT !.loaded = w.scaled, !.remainder = rem, !.pc = pc]
  OBVIOUS
<1>10. req[r] \in Req
  BY DEF TypeOK
<1>11. rec \in Req
  BY <1>5, <1>7, <1>9, <1>10 DEF Req, Live
<1>12. req' = [req EXCEPT ![r] = rec]
  BY <1>1, <1>2, <1>6, <1>8, <1>9 DEF LoadLeftovers, TakeLeftovers
<1>13. req' \in [Requests -> Req] /\ req'[r] = rec /\ \A q \in Requests \ {r} : req'[q] = req[q]
  BY <1>11, <1>12 DEF TypeOK
<1>14. /\ rec.pc = pc /\ rec.loaded = w.scaled /\ rec.remainder = rem /\ rec.key = req[r].key
       /\ rec.input = req[r].input /\ rec.scaled = req[r].scaled /\ rec.loss = req[r].loss
       /\ rec.credit = req[r].credit /\ rec.loss_saved = req[r].loss_saved
  BY <1>9, <1>10 DEF Req
<1> QED BY <1>5, <1>7, <1>8, <1>13, <1>14

\* A remainder or a loss that is appended to the list of leftovers.
LEMMA LeftoverType ==
  ASSUME TypeOK, NEW r \in Requests
  PROVE  /\ [num |-> req[r].loss, scale |-> req[r].input.scale] \in Quantity
         /\ Append(leftovers, [num |-> req[r].loss, scale |-> req[r].input.scale])
              \in Seq(Quantity)
         /\ Append(leftovers, req[r].remainder) \in Seq(Quantity)
<1>1. leftovers \in Seq(Quantity)
  BY DEF TypeOK
<1>2. [num |-> req[r].loss, scale |-> req[r].input.scale] \in Quantity
  BY Fields DEF Quantity
<1>3. req[r].remainder \in Quantity
  BY Fields
<1> QED BY <1>1, <1>2, <1>3

\* The saved response of a request.
LEMMA SavedType ==
  ASSUME TypeOK, NEW r \in Requests
  PROVE  /\ Response(r) \in {"ok", "error"}
         /\ [response |-> Response(r), input |-> req[r].input] \in Saved
<1>1. Response(r) \in {"ok", "error"}
  BY DEF Response
<1>2. req[r].input \in Quantity
  BY Fields
<1> QED BY <1>1, <1>2 DEF Saved

\* What a failed store call counts.
LEMMA FaultType ==
  ASSUME TypeOK, Fault
  PROVE  disturbed' = TRUE /\ faults' \in 0..MaxFaults
BY Constants DEF TypeOK, Fault

\* A lookup of the idempotency key answers from the cache or goes on.
LEMMA CheckMoves ==
  ASSUME TypeOK, NEW r \in Requests, CheckIdempotency(r)
  PROVE  \E pc \in {"account", "ok", "error", "conflict"} :
           /\ Moves(r, pc, req[r].credit, req[r].loss_saved, req[r].failed)
           /\ pc = "account" => req[r].key = NoKey \/ cache[req[r].key] = None
           /\ pc = "ok" => /\ req[r].key \in Keys /\ cache[req[r].key] # None
                           /\ cache[req[r].key].response = "ok"
                           /\ cache[req[r].key].input = req[r].input
<1>1. CASE req[r].key = NoKey \/ cache[req[r].key] = None
  <2>1. Goto(r, "account")
    BY <1>1 DEF CheckIdempotency
  <2>2. "account" \in Live \cup Ended \cup {"idle"}
    BY DEF Live
  <2> QED BY <1>1, <2>1, <2>2, GotoMoves
<1>2. CASE ~(req[r].key = NoKey \/ cache[req[r].key] = None)
  <2>1. PICK saved : saved = cache[req[r].key]
    OBVIOUS
  <2>2. req[r].key \in Keys /\ saved \in Saved
    BY <1>2, <2>1, Fields DEF TypeOK
  <2>3. saved.response \in {"ok", "error"}
    BY <2>2 DEF Saved
  <2>4. PICK pc : Goto(r, pc) /\ pc = CASE ~Readable(saved) -> "error"
                         [] Readable(saved) /\ saved.input = req[r].input -> saved.response
                         [] OTHER -> "conflict"
    BY <1>2, <2>1 DEF CheckIdempotency
  <2>5. CASE ~Readable(saved)
    <3>1. pc = "error" /\ pc \in Ended
      BY <2>4, <2>5 DEF Ended
    <3> QED BY <2>4, <3>1, GotoMoves
  <2>6. CASE Readable(saved) /\ saved.input = req[r].input
    <3>1. pc = saved.response /\ pc \in Ended
      BY <2>3, <2>4, <2>6 DEF Ended
    <3>2. Moves(r, pc, req[r].credit, req[r].loss_saved, req[r].failed)
      BY <2>4, <3>1, GotoMoves
    <3> QED BY <1>2, <2>1, <2>2, <2>3, <2>6, <3>1, <3>2
  <2>7. CASE Readable(saved) /\ saved.input # req[r].input
    <3>1. pc = "conflict" /\ pc \in Ended
      BY <2>4, <2>7 DEF Ended
    <3> QED BY <2>4, <3>1, GotoMoves
  <2> QED BY <2>5, <2>6, <2>7
<1> QED BY <1>1, <1>2

\* The effect of a balance update, and of one that fails.
LEMMA CreditEffect ==
  ASSUME TypeOK, NEW r \in Requests,
         CreditBalance(r) \/ \E applied \in BOOLEAN : CreditBalanceFails(r, applied)
  PROVE  /\ req[r].pc = "settle" /\ req[r].key \in Keys /\ req[r].credit = "todo"
         /\ \/ UNCHANGED <<credited, processed>>
            \/ /\ processed[req[r].key] = None
               /\ credited' = credited + req[r].scaled + req[r].loaded
               /\ processed' = [processed EXCEPT ![req[r].key] = r]
         /\ UNCHANGED <<leftovers, cache, drops>>
         /\ credited' \in Nat /\ processed' \in [Keys -> Requests \cup {None}]
<1>1. req[r].pc = "settle" /\ req[r].key \in Keys /\ req[r].credit = "todo"
  BY Fields DEF CreditBalance, CreditBalanceFails
<1>2. /\ \/ UNCHANGED <<credited, processed>>
         \/ /\ processed[req[r].key] = None
            /\ credited' = credited + req[r].scaled + req[r].loaded
            /\ processed' = [processed EXCEPT ![req[r].key] = r]
      /\ UNCHANGED <<leftovers, cache, drops>>
  BY DEF CreditBalance, CreditBalanceFails
<1>3. credited \in Nat /\ processed \in [Keys -> Requests \cup {None}]
  BY DEF TypeOK
<1>4. req[r].scaled \in Nat /\ req[r].loaded \in Nat
  BY Fields
<1>5. credited' \in Nat
  BY <1>2, <1>3, <1>4
<1>6. processed' \in [Keys -> Requests \cup {None}]
  BY <1>1, <1>2, <1>3
<1> QED BY <1>1, <1>2, <1>5, <1>6

\* Only a failed balance update is recorded as failed.
LEMMA CreditEnd ==
  ASSUME TypeOK, NEW r \in Requests,
         CreditBalance(r) \/ \E applied \in BOOLEAN : CreditBalanceFails(r, applied)
  PROVE  \E c \in {"done", "failed"} :
           /\ Moves(r, req[r].pc, c, req[r].loss_saved, req[r].failed)
           /\ c = "done" => /\ processed'[req[r].key] # None
                            /\ processed[req[r].key] = None => processed'[req[r].key] = r
                            /\ UNCHANGED <<disturbed, faults>>
           /\ c = "failed" => disturbed' = TRUE /\ faults' \in 0..MaxFaults
<1>1. CASE CreditBalance(r)
  <2>1. Moves(r, req[r].pc, "done", req[r].loss_saved, req[r].failed)
    BY <1>1, CreditMoves DEF CreditBalance
  <2>2. req[r].key \in Keys /\ UNCHANGED <<disturbed, faults>>
    BY <1>1, Fields DEF CreditBalance
  <2>3. CASE processed[req[r].key] # None
    BY <1>1, <2>1, <2>2, <2>3 DEF CreditBalance
  <2>4. CASE processed[req[r].key] = None
    <3>1. processed'[req[r].key] = r
      BY <1>1, <2>2, <2>4 DEF CreditBalance, TypeOK
    <3> QED BY <2>1, <2>2, <2>4, <3>1, Constants
  <2> QED BY <2>3, <2>4
<1>2. ASSUME NEW applied \in BOOLEAN, CreditBalanceFails(r, applied)
      PROVE  /\ Moves(r, req[r].pc, "failed", req[r].loss_saved, req[r].failed)
             /\ disturbed' = TRUE /\ faults' \in 0..MaxFaults
  <2>1. Moves(r, req[r].pc, "failed", req[r].loss_saved, req[r].failed)
    BY <1>2, CreditMoves DEF CreditBalanceFails
  <2>2. Fault
    BY <1>2 DEF CreditBalanceFails
  <2> QED BY <2>1, <2>2, FaultType
<1> QED BY <1>1, <1>2

\* The effect of saving the loss, and of failing to.
LEMMA LossEffect ==
  ASSUME TypeOK, NEW r \in Requests,
         SaveLoss(r) \/ \E applied \in BOOLEAN : SaveLossFails(r, applied)
  PROVE  /\ req[r].pc = "settle" /\ req[r].key \in Keys /\ req[r].loss_saved = "todo"
         /\ UNCHANGED <<credited, processed, cache, drops>>
         /\ leftovers' \in Seq(Quantity)
         /\ \E c \in {"done", "failed"} :
              /\ Moves(r, req[r].pc, req[r].credit, c, req[r].failed)
              /\ c = "done" => /\ UNCHANGED <<disturbed, faults>>
                               /\ leftovers' = Append(leftovers,
                                    [num |-> req[r].loss, scale |-> req[r].input.scale])
              /\ c = "failed" => /\ disturbed' = TRUE /\ faults' \in 0..MaxFaults
                                 /\ \/ leftovers' = leftovers
                                    \/ leftovers' = Append(leftovers,
                                         [num |-> req[r].loss, scale |-> req[r].input.scale])
<1>1. /\ req[r].pc = "settle" /\ req[r].key \in Keys /\ req[r].loss_saved = "todo"
      /\ UNCHANGED <<credited, processed, cache, drops>>
  BY Fields DEF SaveLoss, SaveLossFails
<1>2. PICK new : new = Append(leftovers, [num |-> req[r].loss, scale |-> req[r].input.scale])
  OBVIOUS
<1>3. new \in Seq(Quantity) /\ leftovers \in Seq(Quantity)
  BY <1>2, LeftoverType DEF TypeOK
<1>4. CASE SaveLoss(r)
  <2>1. Moves(r, req[r].pc, req[r].credit, "done", req[r].failed)
    BY <1>4, LossMoves DEF SaveLoss
  <2>2. leftovers' = new /\ UNCHANGED <<disturbed, faults>>
    BY <1>2, <1>4 DEF SaveLoss
  <2> QED BY <1>1, <1>2, <1>3, <2>1, <2>2
<1>5. ASSUME NEW applied \in BOOLEAN, SaveLossFails(r, applied)
      PROVE  /\ Moves(r, req[r].pc, req[r].credit, "failed", req[r].failed)
             /\ disturbed' = TRUE /\ faults' \in 0..MaxFaults
             /\ leftovers' = leftovers \/ leftovers' = new
  <2>1. Moves(r, req[r].pc, req[r].credit, "failed", req[r].failed)
    BY <1>5, LossMoves DEF SaveLossFails
  <2>2. Fault
    BY <1>5 DEF SaveLossFails
  <2>3. leftovers' = leftovers \/ leftovers' = new
    BY <1>2, <1>5 DEF SaveLossFails
  <2> QED BY <2>1, <2>2, <2>3, FaultType
<1> QED BY <1>1, <1>2, <1>3, <1>4, <1>5

\* The effect of putting the remainder back, and of failing to.
LEMMA RemainderEffect ==
  ASSUME TypeOK, NEW r \in Requests,
         SaveRemainder(r) \/ \E applied \in BOOLEAN : SaveRemainderFails(r, applied)
  PROVE  /\ req[r].pc = "remainder" /\ UNCHANGED <<credited, processed, cache, drops>>
         /\ leftovers' \in Seq(Quantity)
         /\ \/ /\ Moves(r, "settle", req[r].credit, req[r].loss_saved, req[r].failed)
               /\ leftovers' = Append(leftovers, req[r].remainder)
               /\ UNCHANGED <<disturbed, faults>>
            \/ /\ Moves(r, "save", req[r].credit, req[r].loss_saved, TRUE)
               /\ leftovers' = leftovers \/ leftovers' = Append(leftovers, req[r].remainder)
               /\ disturbed' = TRUE /\ faults' \in 0..MaxFaults
<1>1. req[r].pc = "remainder" /\ UNCHANGED <<credited, processed, cache, drops>>
  BY DEF SaveRemainder, SaveRemainderFails
<1>2. PICK new : new = Append(leftovers, req[r].remainder)
  OBVIOUS
<1>3. new \in Seq(Quantity) /\ leftovers \in Seq(Quantity)
  BY <1>2, LeftoverType DEF TypeOK
<1>4. CASE SaveRemainder(r)
  <2>1. Moves(r, "settle", req[r].credit, req[r].loss_saved, req[r].failed)
    BY <1>4, GotoMoves DEF SaveRemainder, Live
  <2>2. leftovers' = new /\ UNCHANGED <<disturbed, faults>>
    BY <1>2, <1>4 DEF SaveRemainder
  <2> QED BY <1>1, <1>2, <1>3, <2>1, <2>2
<1>5. ASSUME NEW applied \in BOOLEAN, SaveRemainderFails(r, applied)
      PROVE  /\ Moves(r, "save", req[r].credit, req[r].loss_saved, TRUE)
             /\ disturbed' = TRUE /\ faults' \in 0..MaxFaults
             /\ leftovers' = leftovers \/ leftovers' = new
  <2>1. Moves(r, "save", req[r].credit, req[r].loss_saved, TRUE)
    BY <1>5, FailMoves DEF SaveRemainderFails
  <2>2. Fault
    BY <1>5 DEF SaveRemainderFails
  <2>3. leftovers' = leftovers \/ leftovers' = new
    BY <1>2, <1>5 DEF SaveRemainderFails
  <2> QED BY <2>1, <2>2, <2>3, FaultType
<1> QED BY <1>1, <1>2, <1>3, <1>4, <1>5

\* The effect of failing to take the leftovers.
LEMMA LoadFailsEffect ==
  ASSUME TypeOK, NEW r \in Requests, NEW applied \in BOOLEAN, LoadLeftoversFails(r, applied)
  PROVE  /\ req[r].pc = "load" /\ UNCHANGED <<credited, processed, cache, drops>>
         /\ leftovers' = leftovers \/ leftovers' = << >>
         /\ Moves(r, "save", req[r].credit, req[r].loss_saved, TRUE)
         /\ disturbed' = TRUE /\ faults' \in 0..MaxFaults
<1>1. Fault
  BY DEF LoadLeftoversFails
<1>2. Moves(r, "save", req[r].credit, req[r].loss_saved, TRUE)
  BY FailMoves DEF LoadLeftoversFails
<1> QED BY <1>1, <1>2, FaultType DEF LoadLeftoversFails

\* The effect of saving the response, and of failing to.
LEMMA SaveEffect ==
  ASSUME TypeOK, NEW r \in Requests,
         SaveIdempotentData(r) \/ \E applied \in BOOLEAN : SaveIdempotentDataFails(r, applied)
  PROVE  /\ req[r].pc = "save" /\ UNCHANGED <<credited, processed, leftovers, drops>>
         /\ cache' \in [Keys -> Saved \cup {None}]
         /\ \/ cache' = cache
            \/ /\ req[r].key \in Keys
               /\ cache' = [cache EXCEPT ![req[r].key] =
                              [response |-> Response(r), input |-> req[r].input]]
         /\ \/ /\ Moves(r, Response(r), req[r].credit, req[r].loss_saved, req[r].failed)
               /\ req[r].key \in Keys =>
                    cache' = [cache EXCEPT ![req[r].key] =
                                [response |-> Response(r), input |-> req[r].input]]
               /\ UNCHANGED <<disturbed, faults>>
            \/ /\ Moves(r, "error", req[r].credit, req[r].loss_saved, req[r].failed)
               /\ disturbed' = TRUE /\ faults' \in 0..MaxFaults
<1>1. req[r].pc = "save" /\ UNCHANGED <<credited, processed, leftovers, drops>>
  BY DEF SaveIdempotentData, SaveIdempotentDataFails
<1>2. PICK saved : saved = [response |-> Response(r), input |-> req[r].input]
  OBVIOUS
<1>3. saved \in Saved /\ Response(r) \in {"ok", "error"}
  BY <1>2, SavedType
<1>4. req[r].key \in Keys \/ req[r].key = NoKey
  BY Fields
<1>5. \/ cache' = cache
      \/ req[r].key \in Keys /\ cache' = [cache EXCEPT ![req[r].key] = saved]
  BY <1>2, <1>4 DEF SaveIdempotentData, SaveIdempotentDataFails
<1>6. cache' \in [Keys -> Saved \cup {None}]
  BY <1>3, <1>5 DEF TypeOK
<1>7. CASE SaveIdempotentData(r)
  <2>1. Response(r) \in Live \cup Ended \cup {"idle"}
    BY <1>3 DEF Ended
  <2>2. Moves(r, Response(r), req[r].credit, req[r].loss_saved, req[r].failed)
    BY <1>7, <2>1, GotoMoves DEF SaveIdempotentData
  <2>3. req[r].key \in Keys => cache' = [cache EXCEPT ![req[r].key] = saved]
    BY <1>2, <1>7, Constants DEF SaveIdempotentData
  <2>4. UNCHANGED <<disturbed, faults>>
    BY <1>7 DEF SaveIdempotentData
  <2> QED BY <1>1, <1>2, <1>5, <1>6, <2>2, <2>3, <2>4
<1>8. ASSUME NEW applied \in BOOLEAN, SaveIdempotentDataFails(r, applied)
      PROVE  /\ Moves(r, "error", req[r].credit, req[r].loss_saved, req[r].failed)
             /\ disturbed' = TRUE /\ faults' \in 0..MaxFaults
  <2>1. Fault
    BY <1>8 DEF SaveIdempotentDataFails
  <2>2. "error" \in Ended
    BY DEF Ended
  <2> QED BY <1>8, <2>1, <2>2, FaultType, GotoMoves DEF SaveIdempotentDataFails
<1> QED BY <1>1, <1>2, <1>5, <1>6, <1>7, <1>8

\* The steps of a call that touch nothing in the store.
Turns(r) ==
  \/ CheckIdempotency(r) \/ GetAccount(r) \/ SettleWithoutKey(r) \/ Join(r)
  \/ CheckFails(r) \/ GetAccountFails(r) \/ Drop(r)

\* Their effect: where the call goes on, and why.
LEMMA TurnsEffect ==
  ASSUME TypeOK, NEW r \in Requests, Turns(r)
  PROVE  /\ UNCHANGED <<credited, processed, leftovers, cache>>
         /\ faults' \in 0..MaxFaults /\ drops' \in 0..MaxDrops
         /\ disturbed' = disturbed \/ disturbed' = TRUE
         /\ req[r].pc \in Live
         /\ \E pc \in Live \cup Ended, f \in BOOLEAN :
              /\ Moves(r, pc, req[r].credit, req[r].loss_saved, f)
              /\ pc = "account" => /\ req[r].pc = "check"
                                   /\ req[r].key = NoKey \/ cache[req[r].key] = None
              /\ pc = "ok" => /\ req[r].pc = "check"
                              /\ req[r].key \in Keys /\ cache[req[r].key] # None
                              /\ cache[req[r].key].response = "ok"
                              /\ cache[req[r].key].input = req[r].input
              /\ pc = "load" => req[r].pc = "account"
              /\ pc = "save" /\ f => \/ req[r].pc = "account"
                                     \/ req[r].pc = "settle" /\ req[r].credit # "todo"
                                          /\ req[r].loss_saved # "todo"
              /\ pc = "save" /\ ~f => /\ req[r].pc = "settle" /\ req[r].credit = "done"
                                      /\ req[r].loss_saved = "done"
              /\ pc \notin {"check", "remainder", "settle"}
              /\ pc \in Ended /\ ~disturbed' => req[r].pc = "check" \/ req[r].key = NoKey
<1>1. faults \in 0..MaxFaults /\ drops \in 0..MaxDrops /\ disturbed \in BOOLEAN
  BY DEF TypeOK
<1>3. req[r].failed \in BOOLEAN
  BY Fields
<1>4. CASE CheckIdempotency(r)
  <2>1. PICK pc \in {"account", "ok", "error", "conflict"} :
           /\ Moves(r, pc, req[r].credit, req[r].loss_saved, req[r].failed)
           /\ pc = "account" => req[r].key = NoKey \/ cache[req[r].key] = None
           /\ pc = "ok" => /\ req[r].key \in Keys /\ cache[req[r].key] # None
                           /\ cache[req[r].key].response = "ok"
                           /\ cache[req[r].key].input = req[r].input
    BY <1>4, CheckMoves
  <2>2. /\ req[r].pc = "check" /\ UNCHANGED <<credited, processed, leftovers, cache>>
        /\ UNCHANGED <<disturbed, faults, drops>>
    BY <1>4 DEF CheckIdempotency
  <2>3. pc \in Live \cup Ended /\ pc \notin {"check", "remainder", "settle", "save", "load"}
    BY DEF Live, Ended
  <2> QED BY <1>1, <1>3, <2>1, <2>2, <2>3 DEF Live
<1>5. CASE GetAccount(r)
  <2>1. /\ req[r].pc = "account" /\ UNCHANGED <<credited, processed, leftovers, cache>>
        /\ UNCHANGED <<disturbed, faults, drops>>
    BY <1>5 DEF GetAccount
  <2>2. Moves(r, "load", req[r].credit, req[r].loss_saved, req[r].failed)
    BY <1>5, GotoMoves DEF GetAccount, Live
  <2> QED BY <1>1, <1>3, <2>1, <2>2 DEF Live, Ended
<1>6. CASE SettleWithoutKey(r)
  <2>1. /\ req[r].pc = "settle" /\ req[r].key = NoKey
        /\ UNCHANGED <<credited, processed, leftovers, cache>>
        /\ UNCHANGED <<disturbed, faults, drops>>
    BY <1>6 DEF SettleWithoutKey
  <2>2. Moves(r, "panicked", req[r].credit, req[r].loss_saved, req[r].failed)
    BY <1>6, GotoMoves DEF SettleWithoutKey, Ended
  <2> QED BY <1>1, <1>3, <2>1, <2>2 DEF Live, Ended
<1>7. CASE Join(r)
  <2>1. /\ req[r].pc = "settle" /\ req[r].credit # "todo" /\ req[r].loss_saved # "todo"
        /\ UNCHANGED <<credited, processed, leftovers, cache>>
        /\ UNCHANGED <<disturbed, faults, drops>>
    BY <1>7 DEF Join
  <2>2. PICK f \in BOOLEAN : f = (req[r].credit = "failed" \/ req[r].loss_saved = "failed")
    OBVIOUS
  <2>3. Moves(r, "save", req[r].credit, req[r].loss_saved, f)
    BY <1>7, <2>2, JoinMoves
  <2>4. ~f => req[r].credit = "done" /\ req[r].loss_saved = "done"
    BY <2>1, <2>2, Fields
  <2> QED BY <1>1, <2>1, <2>3, <2>4 DEF Live, Ended
<1>8. CASE CheckFails(r)
  <2>1. req[r].pc = "check" /\ UNCHANGED <<credited, processed, leftovers, cache, drops>> /\ Fault
    BY <1>8 DEF CheckFails
  <2>2. Moves(r, "error", req[r].credit, req[r].loss_saved, req[r].failed)
    BY <1>8, GotoMoves DEF CheckFails, Ended
  <2>3. disturbed' = TRUE /\ faults' \in 0..MaxFaults
    BY <2>1, FaultType
  <2> QED BY <1>1, <1>3, <2>1, <2>2, <2>3 DEF Live, Ended
<1>9. CASE GetAccountFails(r)
  <2>1. /\ req[r].pc = "account" /\ UNCHANGED <<credited, processed, leftovers, cache>>
        /\ UNCHANGED <<disturbed, faults, drops>>
    BY <1>9 DEF GetAccountFails
  <2>2. Moves(r, "save", req[r].credit, req[r].loss_saved, TRUE)
    BY <1>9, FailMoves DEF GetAccountFails
  <2>3. PICK f \in BOOLEAN : f = TRUE
    OBVIOUS
  <2>4. Moves(r, "save", req[r].credit, req[r].loss_saved, f)
    BY <2>2, <2>3
  <2>5. "save" \in Live /\ "save" \notin Ended /\ req[r].pc \in Live
    BY <2>1 DEF Live, Ended
  <2>6. f
    BY <2>3
  <2>7. \/ req[r].pc = "account"
        \/ req[r].pc = "settle" /\ req[r].credit # "todo" /\ req[r].loss_saved # "todo"
    BY <2>1
  <2> QED BY <1>1, <2>1, <2>4, <2>5, <2>6, <2>7
<1>10. CASE Drop(r)
  <2>1. /\ req[r].pc \in Live /\ UNCHANGED <<credited, processed, leftovers, cache, faults>>
        /\ disturbed' = TRUE /\ drops < MaxDrops /\ drops' = drops + 1
    BY <1>10 DEF Drop
  <2>2. drops' \in 0..MaxDrops
    BY <1>1, <2>1, Constants
  <2>3. Moves(r, "lost", req[r].credit, req[r].loss_saved, req[r].failed)
    BY <1>10, GotoMoves DEF Drop, Ended
  <2>4. "lost" \in Live \cup Ended /\ "lost" \notin {"account", "ok", "load", "save", "check", "remainder", "settle"}
    BY DEF Ended
  <2>5. faults' \in 0..MaxFaults /\ (disturbed' = disturbed \/ disturbed' = TRUE) /\ disturbed'
    BY <1>1, <2>1
  <2> QED BY <1>3, <2>1, <2>2, <2>3, <2>4, <2>5
<1> QED BY <1>4, <1>5, <1>6, <1>7, <1>8, <1>9, <1>10 DEF Turns

\* The other steps of a call, with the ways in which they fail.
PutsBack(r) == SaveRemainder(r) \/ \E applied \in BOOLEAN : SaveRemainderFails(r, applied)
Credits(r) == CreditBalance(r) \/ \E applied \in BOOLEAN : CreditBalanceFails(r, applied)
KeepsLoss(r) == SaveLoss(r) \/ \E applied \in BOOLEAN : SaveLossFails(r, applied)
Saves(r) ==
  SaveIdempotentData(r) \/ \E applied \in BOOLEAN : SaveIdempotentDataFails(r, applied)

\* The steps there are.
LEMMA StepCases ==
  ASSUME [Next]_vars
  PROVE  \/ UNCHANGED vars
         \/ \E r \in Requests :
              \/ \E key \in Keys \cup {NoKey}, n \in Amounts, s \in Scales :
                   Arrive(r, key, [num |-> n, scale |-> s])
              \/ Turns(r) \/ LoadLeftovers(r) \/ PutsBack(r) \/ Credits(r)
              \/ KeepsLoss(r) \/ Saves(r)
              \/ \E applied \in BOOLEAN : LoadLeftoversFails(r, applied)
<1> SUFFICES ASSUME NEW r \in Requests, Step(r) \/ StepFails(r) \/ Drop(r)
             PROVE  \/ Turns(r) \/ LoadLeftovers(r) \/ PutsBack(r) \/ Credits(r)
                    \/ KeepsLoss(r) \/ Saves(r)
                    \/ \E applied \in BOOLEAN : LoadLeftoversFails(r, applied)
  BY Zenon DEF Next
<1>1. CASE Step(r)
  BY <1>1 DEF Step, Turns, PutsBack, Credits, KeepsLoss, Saves
<1>2. CASE StepFails(r)
  BY <1>2, Zenon DEF StepFails, Turns, PutsBack, Credits, KeepsLoss, Saves
<1>3. CASE Drop(r)
  BY <1>3 DEF Turns
<1> QED BY <1>1, <1>2, <1>3

\* The initial state is typed.
LEMMA TypeInit == Init => TypeOK
<1> SUFFICES ASSUME Init PROVE TypeOK
  OBVIOUS
<1>1. PICK rec : rec = [pc |-> "idle", key |-> NoKey, input |-> Zero, scaled |-> 0,
                        loss |-> 0, loaded |-> 0, remainder |-> Zero,
                        credit |-> "todo", loss_saved |-> "todo", failed |-> FALSE]
  OBVIOUS
<1>2. Zero \in Quantity
  BY Constants DEF Zero, Quantity
<1>3. rec \in Req
  BY <1>1, <1>2 DEF Req
<1>4. req = [r \in Requests |-> rec]
  BY <1>1 DEF Init
<1>5. req \in [Requests -> Req]
  BY <1>3, <1>4
<1>6. << >> \in Seq(Quantity)
  OBVIOUS
<1>7. faults \in 0..MaxFaults /\ drops \in 0..MaxDrops
  BY Constants DEF Init
<1> QED BY <1>5, <1>6, <1>7 DEF Init, TypeOK

\* Every step keeps the types.
LEMMA TypeStep == ASSUME TypeOK, [Next]_vars PROVE TypeOK'
<1>1. /\ credited \in Nat /\ processed \in [Keys -> Requests \cup {None}]
      /\ leftovers \in Seq(Quantity) /\ cache \in [Keys -> Saved \cup {None}]
      /\ req \in [Requests -> Req] /\ disturbed \in BOOLEAN
      /\ faults \in 0..MaxFaults /\ drops \in 0..MaxDrops
  BY DEF TypeOK
<1>2. CASE UNCHANGED vars
  BY <1>1, <1>2 DEF vars, TypeOK
<1>3. ASSUME NEW r \in Requests, NEW key \in Keys \cup {NoKey}, NEW n \in Amounts,
             NEW s \in Scales, Arrive(r, key, [num |-> n, scale |-> s])
      PROVE  TypeOK'
  <2>1. req' \in [Requests -> Req]
    BY <1>3, ArriveMoves
  <2>2. UNCHANGED <<credited, processed, leftovers, cache, faults, drops>> /\ disturbed' \in BOOLEAN
    BY <1>3 DEF Arrive
  <2> QED BY <1>1, <2>1, <2>2 DEF TypeOK
<1>4. ASSUME NEW r \in Requests, Turns(r) PROVE TypeOK'
  <2>1. /\ UNCHANGED <<credited, processed, leftovers, cache>>
        /\ faults' \in 0..MaxFaults /\ drops' \in 0..MaxDrops
        /\ disturbed' = disturbed \/ disturbed' = TRUE
        /\ req' \in [Requests -> Req]
    BY <1>4, TurnsEffect DEF Moves
  <2> QED BY <1>1, <2>1 DEF TypeOK
<1>5. ASSUME NEW r \in Requests, LoadLeftovers(r) PROVE TypeOK'
  <2>1. req' \in [Requests -> Req]
    BY <1>5, LoadMoves
  <2>2. << >> \in Seq(Quantity)
    OBVIOUS
  <2> QED BY <1>1, <1>5, <2>1, <2>2 DEF LoadLeftovers, TypeOK
<1>6. ASSUME NEW r \in Requests, PutsBack(r) PROVE TypeOK'
  <2>1. /\ UNCHANGED <<credited, processed, cache, drops>> /\ leftovers' \in Seq(Quantity)
        /\ req' \in [Requests -> Req] /\ faults' \in 0..MaxFaults /\ disturbed' \in BOOLEAN
    BY <1>1, <1>6, RemainderEffect DEF Moves, PutsBack
  <2> QED BY <1>1, <2>1 DEF TypeOK
<1>7. ASSUME NEW r \in Requests, Credits(r) PROVE TypeOK'
  <2>1. /\ UNCHANGED <<leftovers, cache, drops>> /\ credited' \in Nat
        /\ processed' \in [Keys -> Requests \cup {None}]
    BY <1>7, CreditEffect DEF Credits
  <2>2. req' \in [Requests -> Req] /\ faults' \in 0..MaxFaults /\ disturbed' \in BOOLEAN
    BY <1>1, <1>7, CreditEnd DEF Moves, Credits
  <2> QED BY <1>1, <2>1, <2>2 DEF TypeOK
<1>8. ASSUME NEW r \in Requests, KeepsLoss(r) PROVE TypeOK'
  <2>1. /\ UNCHANGED <<credited, processed, cache, drops>> /\ leftovers' \in Seq(Quantity)
        /\ req' \in [Requests -> Req] /\ faults' \in 0..MaxFaults /\ disturbed' \in BOOLEAN
    BY <1>1, <1>8, LossEffect DEF Moves, KeepsLoss
  <2> QED BY <1>1, <2>1 DEF TypeOK
<1>9. ASSUME NEW r \in Requests, Saves(r) PROVE TypeOK'
  <2>1. /\ UNCHANGED <<credited, processed, leftovers, drops>>
        /\ cache' \in [Keys -> Saved \cup {None}]
        /\ req' \in [Requests -> Req] /\ faults' \in 0..MaxFaults /\ disturbed' \in BOOLEAN
    BY <1>1, <1>9, SaveEffect DEF Moves, Saves
  <2> QED BY <1>1, <2>1 DEF TypeOK
<1>10. ASSUME NEW r \in Requests, NEW applied \in BOOLEAN, LoadLeftoversFails(r, applied)
       PROVE  TypeOK'
  <2>1. /\ UNCHANGED <<credited, processed, cache, drops>>
        /\ leftovers' = leftovers \/ leftovers' = << >>
        /\ req' \in [Requests -> Req] /\ faults' \in 0..MaxFaults /\ disturbed' \in BOOLEAN
    BY <1>10, LoadFailsEffect DEF Moves
  <2>2. << >> \in Seq(Quantity)
    OBVIOUS
  <2> QED BY <1>1, <2>1, <2>2 DEF TypeOK
<1> QED BY <1>2, <1>3, <1>4, <1>5, <1>6, <1>7, <1>8, <1>9, <1>10, StepCases

\* Every amount, list and saved response has its type, whatever is scaled.
THEOREM TypeCorrect == Spec => []TypeOK
<1>1. TypeOK /\ [Next]_vars => TypeOK'
  BY TypeStep
<1> QED BY <1>1, TypeInit, PTL DEF Spec

-----------------------------------------------------------------------------
(* Keys, credits and saved responses *)

\* Where a call has not yet reached the balance.
Unstarted == {"idle", "check", "account", "load", "remainder"}

\* A call whose balance update has ended finds its key processed, and so does
\* one that is answered with success.
CallOK(r) ==
  /\ req[r].pc = "idle" => req[r].key = NoKey
  /\ req[r].credit # "todo" \/ req[r].loss_saved # "todo" =>
       req[r].key # NoKey /\ req[r].pc \notin Unstarted
  /\ req[r].credit = "done" => processed[req[r].key] # None
  /\ req[r].pc = "save" /\ ~req[r].failed => req[r].credit = "done"
  /\ req[r].pc = "ok" /\ req[r].key # NoKey => processed[req[r].key] # None

\* A processed key is that of a request with this key whose balance update has
\* ended, and success is saved for processed keys only.
KeyOK(k) ==
  /\ processed[k] # None => /\ processed[k] \in Requests
                            /\ req[processed[k]].key = k /\ req[processed[k]].credit # "todo"
  /\ cache[k] # None /\ cache[k].response = "ok" => processed[k] # None

StoreOK == (\A r \in Requests : CallOK(r)) /\ (\A k \in Keys : KeyOK(k))

\* What no step takes back.
Lasting ==
  /\ \A k \in Keys : processed[k] # None => processed'[k] = processed[k]
  /\ \A q \in Requests : req[q].pc # "idle" =>
       req'[q].key = req[q].key /\ req'[q].input = req[q].input /\ req'[q].pc # "idle"
  /\ \A q \in Requests : req[q].credit # "todo" => req'[q].credit = req[q].credit
  /\ disturbed => disturbed'

\* A step of one call, which leaves the others and its own key alone.
LEMMA LastingMove ==
  ASSUME TypeOK, NEW r \in Requests, NEW pc, NEW c, NEW l, NEW f, Moves(r, pc, c, l, f),
         pc # "idle", c = req[r].credit \/ req[r].credit = "todo",
         \/ UNCHANGED processed
         \/ /\ req[r].key \in Keys /\ processed[req[r].key] = None
            /\ processed' = [processed EXCEPT ![req[r].key] = r],
         disturbed => disturbed'
  PROVE  Lasting
<1>1. \A k \in Keys : processed[k] # None => processed'[k] = processed[k]
  BY DEF TypeOK
<1>2. ASSUME NEW q \in Requests, req[q].pc # "idle"
      PROVE  req'[q].key = req[q].key /\ req'[q].input = req[q].input /\ req'[q].pc # "idle"
  <2>1. CASE q = r
    BY <2>1 DEF Moves
  <2>2. CASE q # r
    BY <1>2, <2>2 DEF Moves
  <2> QED BY <2>1, <2>2
<1>3. ASSUME NEW q \in Requests, req[q].credit # "todo"
      PROVE  req'[q].credit = req[q].credit
  <2>1. CASE q = r
    BY <1>3, <2>1 DEF Moves
  <2>2. CASE q # r
    BY <2>2 DEF Moves
  <2> QED BY <2>1, <2>2
<1> QED BY <1>1, <1>2, <1>3 DEF Lasting

\* Every step is such a step, the arrival of a request aside.
LEMMA LastingStep ==
  ASSUME TypeOK, StoreOK, [Next]_vars
  PROVE  Lasting
<1>1. CASE UNCHANGED vars
  BY <1>1 DEF vars, Lasting
<1>2. ASSUME NEW r \in Requests, NEW key \in Keys \cup {NoKey}, NEW n \in Amounts,
             NEW s \in Scales, Arrive(r, key, [num |-> n, scale |-> s])
      PROVE  Lasting
  <2>1. req[r].pc = "idle" /\ UNCHANGED processed /\ (disturbed => disturbed')
    BY <1>2 DEF Arrive
  <2>2. (\A q \in Requests \ {r} : req'[q] = req[q]) /\ req'[r].credit = req[r].credit
    BY <1>2, ArriveMoves
  <2>3. \A q \in Requests : req[q].pc # "idle" => q \in Requests \ {r}
    BY <2>1
  <2>4. \A q \in Requests : req'[q].credit = req[q].credit
    BY <2>2
  <2> QED BY <2>1, <2>2, <2>3, <2>4 DEF Lasting
<1>3. ASSUME NEW r \in Requests, Turns(r) PROVE Lasting
  <2>1. PICK pc \in Live \cup Ended, f \in BOOLEAN :
          Moves(r, pc, req[r].credit, req[r].loss_saved, f)
    BY <1>3, TurnsEffect
  <2>2. UNCHANGED processed /\ (disturbed => disturbed')
    BY <1>3, TurnsEffect
  <2>3. pc # "idle"
    BY DEF Live, Ended
  <2> QED BY <2>1, <2>2, <2>3, LastingMove
<1>4. ASSUME NEW r \in Requests, LoadLeftovers(r) PROVE Lasting
  <2>1. UNCHANGED <<processed, disturbed>>
    BY <1>4 DEF LoadLeftovers
  <2>2. /\ \A q \in Requests \ {r} : req'[q] = req[q]
        /\ req'[r].key = req[r].key /\ req'[r].input = req[r].input
        /\ req'[r].credit = req[r].credit /\ req'[r].pc # "idle"
    BY <1>4, LoadMoves
  <2>3. ASSUME NEW q \in Requests, req[q].pc # "idle"
        PROVE  req'[q].key = req[q].key /\ req'[q].input = req[q].input /\ req'[q].pc # "idle"
    BY <2>2, <2>3
  <2>4. ASSUME NEW q \in Requests PROVE req'[q].credit = req[q].credit
    BY <2>2
  <2> QED BY <2>1, <2>3, <2>4 DEF Lasting
<1>5. ASSUME NEW r \in Requests, PutsBack(r) PROVE Lasting
  <2>1. PICK pc \in {"settle", "save"}, f \in BOOLEAN :
          Moves(r, pc, req[r].credit, req[r].loss_saved, f)
    BY <1>5, RemainderEffect, Fields DEF PutsBack
  <2>2. UNCHANGED processed /\ (disturbed => disturbed')
    BY <1>5, RemainderEffect DEF PutsBack
  <2> QED BY <2>1, <2>2, LastingMove
<1>6. ASSUME NEW r \in Requests, Credits(r) PROVE Lasting
  <2>1. PICK c \in {"done", "failed"} : Moves(r, req[r].pc, c, req[r].loss_saved, req[r].failed)
    BY <1>6, CreditEnd DEF Credits
  <2>2. /\ req[r].pc = "settle" /\ req[r].credit = "todo"
        /\ \/ UNCHANGED processed
           \/ /\ req[r].key \in Keys /\ processed[req[r].key] = None
              /\ processed' = [processed EXCEPT ![req[r].key] = r]
    BY <1>6, CreditEffect DEF Credits
  <2>3. disturbed => disturbed'
    BY <1>6, CreditEnd DEF Credits
  <2> QED BY <2>1, <2>2, <2>3, LastingMove
<1>7. ASSUME NEW r \in Requests, KeepsLoss(r) PROVE Lasting
  <2>1. PICK c \in {"done", "failed"} : Moves(r, req[r].pc, req[r].credit, c, req[r].failed)
    BY <1>7, LossEffect DEF KeepsLoss
  <2>2. req[r].pc = "settle" /\ UNCHANGED processed /\ (disturbed => disturbed')
    BY <1>7, LossEffect DEF KeepsLoss
  <2> QED BY <2>1, <2>2, LastingMove
<1>8. ASSUME NEW r \in Requests, Saves(r) PROVE Lasting
  <2>1. PICK pc \in {"ok", "error"} :
          Moves(r, pc, req[r].credit, req[r].loss_saved, req[r].failed)
    BY <1>8, SaveEffect, SavedType DEF Saves
  <2>2. UNCHANGED processed /\ (disturbed => disturbed')
    BY <1>8, SaveEffect DEF Saves
  <2> QED BY <2>1, <2>2, LastingMove
<1>9. ASSUME NEW r \in Requests, NEW applied \in BOOLEAN, LoadLeftoversFails(r, applied)
      PROVE  Lasting
  <2>1. Moves(r, "save", req[r].credit, req[r].loss_saved, TRUE)
    BY <1>9, LoadFailsEffect
  <2>2. UNCHANGED processed /\ (disturbed => disturbed')
    BY <1>9, LoadFailsEffect
  <2> QED BY <2>1, <2>2, LastingMove
<1> QED BY <1>1, <1>2, <1>3, <1>4, <1>5, <1>6, <1>7, <1>8, <1>9, StepCases

\* A processed key stays so.
LEMMA StaysProcessed ==
  ASSUME TypeOK, Lasting, NEW r \in Requests, req[r].key # NoKey, req[r].key \in Keys => processed[req[r].key] # None
  PROVE  processed'[req[r].key] # None
<1>1. req[r].key \in Keys
  BY Fields
<1> QED BY <1>1 DEF Lasting

\* A call that does not change stays as it should be.
LEMMA SameCall ==
  ASSUME TypeOK, StoreOK, Lasting, NEW q \in Requests, req'[q] = req[q]
  PROVE  CallOK(q)'
<1>1. CallOK(q)
  BY DEF StoreOK
<1>2. req[q].key # NoKey /\ processed[req[q].key] # None => processed'[req[q].key] # None
  BY StaysProcessed
<1> QED BY <1>1, <1>2 DEF CallOK

\* A call that goes on.
LEMMA MovedCall ==
  ASSUME TypeOK, StoreOK, Lasting, NEW r \in Requests, NEW pc, NEW c, NEW l, NEW f,
         Moves(r, pc, c, l, f), pc # "idle",
         c # "todo" \/ l # "todo" => req[r].key # NoKey /\ pc \notin Unstarted,
         c = "done" => processed'[req[r].key] # None,
         pc = "save" /\ ~f => c = "done",
         pc = "ok" /\ req[r].key # NoKey => processed'[req[r].key] # None,
         NEW q \in Requests
  PROVE  CallOK(q)'
<1>1. CASE q = r
  <2>1. /\ req'[r].pc = pc /\ req'[r].credit = c /\ req'[r].loss_saved = l
        /\ req'[r].failed = f /\ req'[r].key = req[r].key
    BY DEF Moves
  <2> QED BY <1>1, <2>1 DEF CallOK
<1>2. CASE q # r
  <2>1. req'[q] = req[q]
    BY <1>2 DEF Moves
  <2> QED BY <2>1, SameCall
<1> QED BY <1>1, <1>2

\* Every step keeps the calls as they should be.
LEMMA CallStep ==
  ASSUME TypeOK, StoreOK, Lasting, [Next]_vars, NEW q \in Requests
  PROVE  CallOK(q)'
<1>0. \A r \in Requests : CallOK(r)
  BY DEF StoreOK
<1>1. CASE UNCHANGED vars
  BY <1>1, SameCall DEF vars
<1>2. ASSUME NEW r \in Requests, NEW key \in Keys \cup {NoKey}, NEW n \in Amounts,
             NEW s \in Scales, Arrive(r, key, [num |-> n, scale |-> s])
      PROVE  CallOK(q)'
  <2>1. CASE q = r
    <3>1. req[r].pc = "idle"
      BY <1>2 DEF Arrive
    <3>2. req[r].credit = "todo" /\ req[r].loss_saved = "todo"
      BY <1>0, <3>1 DEF CallOK, Unstarted
    <3>3. req'[r].pc = "check" /\ req'[r].credit = "todo" /\ req'[r].loss_saved = "todo"
      BY <1>2, <3>2, ArriveMoves
    <3> QED BY <2>1, <3>3 DEF CallOK
  <2>2. CASE q # r
    <3>1. req'[q] = req[q]
      BY <1>2, <2>2, ArriveMoves
    <3> QED BY <3>1, SameCall
  <2> QED BY <2>1, <2>2
<1>3. ASSUME NEW r \in Requests, Turns(r) PROVE CallOK(q)'
  <2>1. PICK pc \in Live \cup Ended, f \in BOOLEAN :
              /\ Moves(r, pc, req[r].credit, req[r].loss_saved, f)
              /\ pc = "account" => req[r].pc = "check"
              /\ pc = "ok" => /\ req[r].pc = "check"
                              /\ req[r].key \in Keys /\ cache[req[r].key] # None
                              /\ cache[req[r].key].response = "ok"
              /\ pc = "load" => req[r].pc = "account"
              /\ pc = "save" /\ ~f => req[r].credit = "done"
              /\ pc \notin {"check", "remainder", "settle"}
    BY <1>3, TurnsEffect
  <2>2. pc # "idle" /\ CallOK(r)
    BY <1>0 DEF Live, Ended
  <2>3. req[r].credit # "todo" \/ req[r].loss_saved # "todo" =>
          req[r].key # NoKey /\ pc \notin Unstarted
    BY <2>1, <2>2 DEF CallOK, Unstarted
  <2>4. req[r].credit = "done" => processed'[req[r].key] # None
    BY <2>2, <2>3, StaysProcessed DEF CallOK
  <2>5. pc = "ok" /\ req[r].key # NoKey => processed'[req[r].key] # None
    <3>1. pc = "ok" => req[r].key \in Keys /\ processed[req[r].key] # None
      BY <2>1 DEF StoreOK, KeyOK
    <3> QED BY <3>1, StaysProcessed
  <2> QED BY <2>1, <2>2, <2>3, <2>4, <2>5, MovedCall
<1>4. ASSUME NEW r \in Requests, LoadLeftovers(r) PROVE CallOK(q)'
  <2>1. CASE q = r
    <3>1. req[r].pc = "load"
      BY <1>4 DEF LoadLeftovers
    <3>2. req[r].credit = "todo" /\ req[r].loss_saved = "todo"
      BY <1>0, <3>1 DEF CallOK, Unstarted
    <3>3. /\ req'[r].pc \in {"remainder", "settle"} /\ req'[r].credit = "todo"
          /\ req'[r].loss_saved = "todo"
      BY <1>4, <3>2, LoadMoves
    <3> QED BY <2>1, <3>3 DEF CallOK
  <2>2. CASE q # r
    <3>1. req'[q] = req[q]
      BY <1>4, <2>2, LoadMoves
    <3> QED BY <3>1, SameCall
  <2> QED BY <2>1, <2>2
<1>5. ASSUME NEW r \in Requests, PutsBack(r) PROVE CallOK(q)'
  <2>1. PICK pc \in {"settle", "save"}, f \in BOOLEAN :
          Moves(r, pc, req[r].credit, req[r].loss_saved, f) /\ (pc = "save" => f)
    BY <1>5, RemainderEffect, Fields DEF PutsBack
  <2>2. req[r].pc = "remainder"
    BY <1>5, RemainderEffect DEF PutsBack
  <2>3. req[r].credit = "todo" /\ req[r].loss_saved = "todo"
    BY <1>0, <2>2 DEF CallOK, Unstarted
  <2> QED BY <2>1, <2>3, MovedCall
<1>6. ASSUME NEW r \in Requests, Credits(r) PROVE CallOK(q)'
  <2>1. PICK c \in {"done", "failed"} :
          /\ Moves(r, req[r].pc, c, req[r].loss_saved, req[r].failed)
          /\ c = "done" => processed'[req[r].key] # None
    BY <1>6, CreditEnd DEF Credits
  <2>2. req[r].pc = "settle" /\ req[r].key \in Keys
    BY <1>6, CreditEffect DEF Credits
  <2>3. req[r].key # NoKey /\ req[r].pc \notin Unstarted
    BY <2>2, Constants DEF Unstarted
  <2> QED BY <2>1, <2>2, <2>3, MovedCall
<1>7. ASSUME NEW r \in Requests, KeepsLoss(r) PROVE CallOK(q)'
  <2>1. PICK c \in {"done", "failed"} : Moves(r, req[r].pc, req[r].credit, c, req[r].failed)
    BY <1>7, LossEffect DEF KeepsLoss
  <2>2. req[r].pc = "settle" /\ req[r].key \in Keys
    BY <1>7, LossEffect DEF KeepsLoss
  <2>3. req[r].key # NoKey /\ req[r].pc \notin Unstarted
    BY <2>2, Constants DEF Unstarted
  <2>4. req[r].credit = "done" => processed'[req[r].key] # None
    BY <1>0, <2>3, StaysProcessed DEF CallOK
  <2> QED BY <2>1, <2>2, <2>3, <2>4, MovedCall
<1>8. ASSUME NEW r \in Requests, Saves(r) PROVE CallOK(q)'
  <2>1. PICK pc \in {"ok", "error"} :
          /\ Moves(r, pc, req[r].credit, req[r].loss_saved, req[r].failed)
          /\ pc = Response(r) \/ pc = "error"
    BY <1>8, SaveEffect, SavedType DEF Saves
  <2>2. req[r].pc = "save" /\ CallOK(r)
    BY <1>0, <1>8, SaveEffect DEF Saves
  <2>3. pc = "ok" => req[r].credit = "done"
    BY <2>1, <2>2 DEF Response, CallOK
  <2>4. req[r].credit # "todo" \/ req[r].loss_saved # "todo" =>
          req[r].key # NoKey /\ pc \notin Unstarted
    BY <2>2 DEF CallOK, Unstarted
  <2>5. req[r].credit = "done" => processed'[req[r].key] # None
    BY <2>2, <2>4, StaysProcessed DEF CallOK
  <2> QED BY <2>1, <2>3, <2>4, <2>5, MovedCall
<1>9. ASSUME NEW r \in Requests, NEW applied \in BOOLEAN, LoadLeftoversFails(r, applied)
      PROVE  CallOK(q)'
  <2>1. Moves(r, "save", req[r].credit, req[r].loss_saved, TRUE) /\ req[r].pc = "load"
    BY <1>9, LoadFailsEffect
  <2>2. req[r].credit = "todo" /\ req[r].loss_saved = "todo"
    BY <1>0, <2>1 DEF CallOK, Unstarted
  <2> QED BY <2>1, <2>2, MovedCall
<1> QED BY <1>1, <1>2, <1>3, <1>4, <1>5, <1>6, <1>7, <1>8, <1>9, StepCases

\* Only balance updates process keys, and only saving changes the cache.
LEMMA StoreChanges ==
  ASSUME TypeOK, [Next]_vars
  PROVE  /\ \/ processed' = processed
            \/ \E r \in Requests :
                 /\ Credits(r) /\ req[r].key \in Keys /\ processed[req[r].key] = None
                 /\ processed' = [processed EXCEPT ![req[r].key] = r]
         /\ \/ cache' = cache
            \/ \E r \in Requests :
                 /\ Saves(r) /\ req[r].key \in Keys
                 /\ cache' = [cache EXCEPT ![req[r].key] =
                                [response |-> Response(r), input |-> req[r].input]]
<1>1. CASE UNCHANGED <<processed, cache>>
  BY <1>1
<1>2. CASE UNCHANGED vars
  BY <1>1, <1>2 DEF vars
<1>3. ASSUME NEW r \in Requests, NEW key \in Keys \cup {NoKey}, NEW n \in Amounts,
             NEW s \in Scales, Arrive(r, key, [num |-> n, scale |-> s])
      PROVE  UNCHANGED <<processed, cache>>
  BY <1>3 DEF Arrive
<1>4. ASSUME NEW r \in Requests, Turns(r) PROVE UNCHANGED <<processed, cache>>
  BY <1>4, TurnsEffect
<1>5. ASSUME NEW r \in Requests, LoadLeftovers(r) PROVE UNCHANGED <<processed, cache>>
  BY <1>5 DEF LoadLeftovers
<1>6. ASSUME NEW r \in Requests, PutsBack(r) PROVE UNCHANGED <<processed, cache>>
  BY <1>6, RemainderEffect DEF PutsBack
<1>7. ASSUME NEW r \in Requests, KeepsLoss(r) PROVE UNCHANGED <<processed, cache>>
  BY <1>7, LossEffect DEF KeepsLoss
<1>8. ASSUME NEW r \in Requests, NEW applied \in BOOLEAN, LoadLeftoversFails(r, applied)
      PROVE  UNCHANGED <<processed, cache>>
  BY <1>8, LoadFailsEffect
<1>9. ASSUME NEW r \in Requests, Credits(r)
      PROVE  /\ cache' = cache
             /\ \/ processed' = processed
                \/ /\ req[r].key \in Keys /\ processed[req[r].key] = None
                   /\ processed' = [processed EXCEPT ![req[r].key] = r]
  BY <1>9, CreditEffect DEF Credits
<1>10. ASSUME NEW r \in Requests, Saves(r)
       PROVE  /\ processed' = processed
              /\ \/ cache' = cache
                 \/ /\ req[r].key \in Keys
                    /\ cache' = [cache EXCEPT ![req[r].key] =
                                   [response |-> Response(r), input |-> req[r].input]]
  BY <1>10, SaveEffect DEF Saves
<1> QED BY <1>1, <1>2, <1>3, <1>4, <1>5, <1>6, <1>7, <1>8, <1>9, <1>10, StepCases

\* A call that has ended its balance update keeps its key.
LEMMA CreditedKeeps ==
  ASSUME TypeOK, StoreOK, Lasting, NEW q \in Requests, req[q].credit # "todo"
  PROVE  /\ req[q].pc # "idle" /\ req'[q].key = req[q].key /\ req'[q].input = req[q].input
         /\ req'[q].credit = req[q].credit
<1>1. req[q].pc # "idle"
  BY DEF StoreOK, CallOK, Unstarted
<1> QED BY <1>1 DEF Lasting

\* What a balance update and a saved response leave in the store.
LEMMA KeyStep ==
  ASSUME TypeOK, StoreOK, Lasting, [Next]_vars, NEW k \in Keys
  PROVE  KeyOK(k)'
<1>1. KeyOK(k)
  BY DEF StoreOK
<1>2. ASSUME processed[k] # None
      PROVE  /\ processed'[k] = processed[k] /\ processed'[k] \in Requests
             /\ req'[processed'[k]].key = k /\ req'[processed'[k]].credit # "todo"
  <2>1. PICK q \in Requests : q = processed[k] /\ req[q].key = k /\ req[q].credit # "todo"
    BY <1>1, <1>2 DEF KeyOK
  <2>2. processed'[k] = q
    BY <1>2, <2>1 DEF Lasting
  <2> QED BY <2>1, <2>2, CreditedKeeps
<1>3. ASSUME processed[k] = None, processed'[k] # None
      PROVE  /\ processed'[k] \in Requests
             /\ req'[processed'[k]].key = k /\ req'[processed'[k]].credit # "todo"
  <2>1. PICK r \in Requests :
          /\ Credits(r) /\ req[r].key \in Keys /\ processed[req[r].key] = None
          /\ processed' = [processed EXCEPT ![req[r].key] = r]
    BY <1>3, StoreChanges
  <2>2. k = req[r].key /\ processed'[k] = r
    BY <1>3, <2>1 DEF TypeOK
  <2>3. PICK c \in {"done", "failed"} : Moves(r, req[r].pc, c, req[r].loss_saved, req[r].failed)
    BY <2>1, CreditEnd DEF Credits
  <2> QED BY <2>2, <2>3 DEF Moves
<1>4. ASSUME cache'[k] # None, cache'[k].response = "ok" PROVE processed'[k] # None
  <2>1. CASE cache'[k] = cache[k]
    BY <1>1, <1>2, <1>4, <2>1 DEF KeyOK
  <2>2. CASE cache'[k] # cache[k]
    <3>1. PICK r \in Requests :
            /\ Saves(r) /\ req[r].key \in Keys
            /\ cache' = [cache EXCEPT ![req[r].key] =
                           [response |-> Response(r), input |-> req[r].input]]
      BY <2>2, StoreChanges
    <3>2. k = req[r].key
      BY <2>2, <3>1 DEF TypeOK
    <3>3. cache'[k] = [response |-> Response(r), input |-> req[r].input]
      BY <3>1, <3>2 DEF TypeOK
    <3>4. Response(r) = "ok" /\ req[r].pc = "save"
      <4>1. Response(r) = "ok"
        BY <1>4, <3>3
      <4>2. req[r].pc = "save"
        BY <3>1, SaveEffect DEF Saves
      <4> QED BY <4>1, <4>2
    <3>5. ~req[r].failed
      BY <3>4 DEF Response
    <3>6. processed[k] # None
      BY <3>2, <3>4, <3>5 DEF StoreOK, CallOK
    <3> QED BY <3>6, <1>2
  <2> QED BY <2>1, <2>2
<1> QED BY <1>2, <1>3, <1>4, Constants DEF KeyOK

\* Every step keeps calls, keys and saved responses consistent.
LEMMA StoreStep ==
  ASSUME TypeOK, StoreOK, [Next]_vars
  PROVE  StoreOK' /\ Lasting
<1>1. Lasting
  BY LastingStep
<1>2. \A r \in Requests : CallOK(r)'
  BY <1>1, CallStep
<1>3. \A k \in Keys : KeyOK(k)'
  BY <1>1, KeyStep
<1> QED BY <1>1, <1>2, <1>3 DEF StoreOK

\* So they are initially.
LEMMA StoreInit == Init => StoreOK
<1> SUFFICES ASSUME Init PROVE StoreOK
  OBVIOUS
<1>1. \A r \in Requests : /\ req[r].pc = "idle" /\ req[r].key = NoKey
                          /\ req[r].credit = "todo" /\ req[r].loss_saved = "todo"
  BY DEF Init
<1>2. \A k \in Keys : processed[k] = None /\ cache[k] = None
  BY DEF Init
<1> QED BY <1>1, <1>2 DEF StoreOK, CallOK, KeyOK

-----------------------------------------------------------------------------
(* Without disturbances *)

\* Where a call works on its settlement.
Working == {"account", "load", "remainder", "settle", "save"}

\* Undisturbed, at most one live call has a key, its response is not saved
\* before it has ended, and a call credits and keeps its loss, or does neither.
CalmCall(r) ==
  /\ req[r].pc # "idle" => req[r].key # NoKey
  /\ \A o \in Requests : req[r].pc \in Live /\ req[o].pc \in Live
                           /\ req[r].key = req[o].key => r = o
  /\ req[r].pc \in Working => cache[req[r].key] = None
  /\ req[r].credit = "done" => processed[req[r].key] = r
  /\ req[r].credit # "failed" /\ req[r].loss_saved # "failed"
  /\ req[r].pc # "settle" => req[r].credit = req[r].loss_saved
  /\ req[r].pc = "ok" => req[processed[req[r].key]].input = req[r].input

\* A processed key has a saved response, or its call will save one; success
\* is saved with the quantity that was credited.
CalmKey(k) ==
  /\ processed[k] # None => cache[k] # None \/ req[processed[k]].pc \in {"settle", "save"}
  /\ cache[k] # None /\ cache[k].response = "ok" => req[processed[k]].input = cache[k].input

CalmOK == ~disturbed => (\A r \in Requests : CalmCall(r)) /\ (\A k \in Keys : CalmKey(k))

\* Only r's call changes, and keeps its key and its quantity.
Goes(r, pc, c, l) ==
  /\ \A q \in Requests \ {r} : req'[q] = req[q]
  /\ req'[r].pc = pc /\ req'[r].credit = c /\ req'[r].loss_saved = l
  /\ req'[r].key = req[r].key /\ req'[r].input = req[r].input

\* The undisturbed steps of a call: without an effect on keys and responses,
\* crediting, keeping the loss and saving the response.
CalmTurn(r) ==
  /\ UNCHANGED <<processed, cache>>
  /\ \E pc \in Live \cup Ended :
       /\ Goes(r, pc, req[r].credit, req[r].loss_saved)
       /\ \/ req[r].pc = "check" /\ pc = "account" /\ cache[req[r].key] = None
          \/ /\ req[r].pc = "check" /\ pc \in Ended
             /\ pc = "ok" => /\ cache[req[r].key] # None /\ cache[req[r].key].response = "ok"
                             /\ cache[req[r].key].input = req[r].input
          \/ req[r].pc \in {"account", "load", "remainder"} /\ pc \in Working
          \/ /\ req[r].pc = "settle" /\ pc = "save"
             /\ req[r].credit = "done" /\ req[r].loss_saved = "done"

CalmCredit(r) ==
  /\ req[r].pc = "settle" /\ req[r].credit = "todo" /\ processed[req[r].key] = None
  /\ Goes(r, "settle", "done", req[r].loss_saved)
  /\ processed' = [processed EXCEPT ![req[r].key] = r] /\ UNCHANGED cache

CalmLoss(r) ==
  /\ req[r].pc = "settle" /\ Goes(r, "settle", req[r].credit, "done")
  /\ UNCHANGED <<processed, cache>>

CalmSave(r) ==
  /\ req[r].pc = "save" /\ UNCHANGED processed
  /\ Goes(r, Response(r), req[r].credit, req[r].loss_saved)
  /\ cache' = [cache EXCEPT ![req[r].key] = [response |-> Response(r), input |-> req[r].input]]

\* The key of a call that is about to credit it has not been processed.
LEMMA NotYetProcessed ==
  ASSUME TypeOK, StoreOK, CalmOK, ~disturbed, NEW r \in Requests,
         req[r].pc = "settle", req[r].credit = "todo"
  PROVE  req[r].key \in Keys /\ processed[req[r].key] = None
<1>1. CalmCall(r) /\ req[r].pc # "idle" /\ req[r].pc \in Live /\ req[r].pc \in Working
  BY DEF CalmOK, Live, Working
<1>2. req[r].key \in Keys
  BY <1>1, Fields DEF CalmCall
<1>3. PICK k \in Keys : k = req[r].key
  BY <1>2
<1>4. cache[k] = None
  BY <1>1, <1>3 DEF CalmCall
<1>5. ASSUME processed[k] # None PROVE FALSE
  <2>1. PICK o \in Requests : o = processed[k] /\ req[o].key = k /\ req[o].credit # "todo"
    BY <1>5 DEF StoreOK, KeyOK
  <2>2. req[o].pc \in {"settle", "save"}
    BY <1>4, <1>5, <2>1 DEF CalmOK, CalmKey
  <2>3. req[o].pc \in Live
    BY <2>2 DEF Live
  <2>4. o = r
    BY <1>1, <1>3, <2>1, <2>3 DEF CalmCall
  <2> QED BY <2>1, <2>4
<1> QED BY <1>3, <1>5

\* A step of Moves is one of Goes.
LEMMA MovesGoes ==
  ASSUME NEW r \in Requests, NEW pc, NEW c, NEW l, NEW f, Moves(r, pc, c, l, f)
  PROVE  Goes(r, pc, c, l)
BY DEF Moves, Goes

\* The arrival of a request that disturbs nothing.
CalmArrive(r) ==
  /\ req[r].pc = "idle" /\ UNCHANGED <<processed, cache>>
  /\ \A q \in Requests \ {r} : req'[q] = req[q]
  /\ req'[r].pc = "check" /\ req'[r].key \in Keys
  /\ req'[r].credit = req[r].credit /\ req'[r].loss_saved = req[r].loss_saved
  /\ \A o \in Requests : req[o].key = req'[r].key => req[o].pc \notin Live

\* The undisturbed steps.
LEMMA CalmCases ==
  ASSUME TypeOK, StoreOK, CalmOK, [Next]_vars, ~disturbed', ~disturbed
  PROVE  \/ UNCHANGED <<processed, cache, req>>
         \/ \E r \in Requests : \/ CalmArrive(r) \/ CalmTurn(r) \/ CalmCredit(r)
                                \/ CalmLoss(r) \/ CalmSave(r)
<1>0. \A r \in Requests : CallOK(r) /\ CalmCall(r)
  BY DEF StoreOK, CalmOK
<1>1. CASE UNCHANGED vars
  BY <1>1 DEF vars
<1>2. ASSUME NEW r \in Requests, NEW key \in Keys \cup {NoKey}, NEW n \in Amounts,
             NEW s \in Scales, Arrive(r, key, [num |-> n, scale |-> s])
      PROVE  CalmArrive(r)
  <2>1. /\ req[r].pc = "idle" /\ UNCHANGED <<processed, cache>> /\ key # NoKey
        /\ \A o \in Requests : req[o].key = key => req[o].pc \notin Live
    BY <1>2 DEF Arrive
  <2>2. /\ \A q \in Requests \ {r} : req'[q] = req[q]
        /\ req'[r].pc = "check" /\ req'[r].key = key
        /\ req'[r].credit = req[r].credit /\ req'[r].loss_saved = req[r].loss_saved
    BY <1>2, ArriveMoves
  <2> QED BY <2>1, <2>2 DEF CalmArrive
<1>3. ASSUME NEW r \in Requests, Turns(r) PROVE CalmTurn(r)
  <2>1. PICK pc \in Live \cup Ended, f \in BOOLEAN :
              /\ Moves(r, pc, req[r].credit, req[r].loss_saved, f)
              /\ pc = "account" => /\ req[r].pc = "check"
                                   /\ req[r].key = NoKey \/ cache[req[r].key] = None
              /\ pc = "ok" => /\ req[r].pc = "check"
                              /\ req[r].key \in Keys /\ cache[req[r].key] # None
                              /\ cache[req[r].key].response = "ok"
                              /\ cache[req[r].key].input = req[r].input
              /\ pc = "load" => req[r].pc = "account"
              /\ pc = "save" /\ f => \/ req[r].pc = "account"
                                     \/ req[r].pc = "settle" /\ req[r].credit # "todo"
                                          /\ req[r].loss_saved # "todo"
              /\ pc = "save" /\ ~f => /\ req[r].pc = "settle" /\ req[r].credit = "done"
                                      /\ req[r].loss_saved = "done"
              /\ pc \notin {"check", "remainder", "settle"}
              /\ pc \in Ended /\ ~disturbed' => req[r].pc = "check" \/ req[r].key = NoKey
    BY <1>3, TurnsEffect
  <2>2. UNCHANGED <<processed, cache>> /\ req[r].pc \in Live
    BY <1>3, TurnsEffect
  <2>3. req[r].key # NoKey
    BY <1>0, <2>2 DEF CalmCall, Live
  <2>4. Goes(r, pc, req[r].credit, req[r].loss_saved)
    BY <2>1, MovesGoes
  <2>5. CASE pc = "account"
    BY <2>1, <2>2, <2>3, <2>4, <2>5 DEF CalmTurn
  <2>6. CASE pc \in Ended
    BY <2>1, <2>2, <2>3, <2>4, <2>6 DEF CalmTurn
  <2>7. CASE pc = "load"
    BY <2>1, <2>2, <2>4, <2>7 DEF CalmTurn, Working
  <2>8. CASE pc = "save"
    <3>1. CASE req[r].pc = "account"
      BY <2>2, <2>4, <2>8, <3>1 DEF CalmTurn, Working, Live
    <3>2. CASE req[r].pc # "account"
      <4>1. req[r].pc = "settle" /\ req[r].credit # "todo" /\ req[r].loss_saved # "todo"
        BY <2>1, <2>8, <3>2
      <4>2. req[r].credit = "done" /\ req[r].loss_saved = "done"
        BY <1>0, <4>1, Fields DEF CalmCall
      <4> QED BY <2>2, <2>4, <2>8, <4>1, <4>2 DEF CalmTurn, Live
    <3> QED BY <3>1, <3>2
  <2> QED BY <2>1, <2>5, <2>6, <2>7, <2>8 DEF Live
<1>4. ASSUME NEW r \in Requests, LoadLeftovers(r) PROVE CalmTurn(r)
  <2>1. req[r].pc = "load" /\ UNCHANGED <<processed, cache>>
    BY <1>4 DEF LoadLeftovers
  <2>2. PICK pc \in {"remainder", "settle"} : Goes(r, pc, req[r].credit, req[r].loss_saved)
    BY <1>4, LoadMoves DEF Goes
  <2> QED BY <2>1, <2>2 DEF CalmTurn, Working, Live
<1>5. ASSUME NEW r \in Requests, PutsBack(r) PROVE CalmTurn(r)
  <2>1. /\ req[r].pc = "remainder" /\ UNCHANGED <<processed, cache>>
        /\ Moves(r, "settle", req[r].credit, req[r].loss_saved, req[r].failed)
    BY <1>5, RemainderEffect DEF PutsBack
  <2>2. Goes(r, "settle", req[r].credit, req[r].loss_saved)
    BY <2>1, MovesGoes
  <2> QED BY <2>1, <2>2 DEF CalmTurn, Working, Live
<1>6. ASSUME NEW r \in Requests, Credits(r) PROVE CalmCredit(r)
  <2>1. req[r].pc = "settle" /\ req[r].credit = "todo" /\ req[r].key \in Keys /\ UNCHANGED cache
    BY <1>6, CreditEffect DEF Credits
  <2>2. processed[req[r].key] = None
    BY <2>1, NotYetProcessed
  <2>3. /\ Moves(r, req[r].pc, "done", req[r].loss_saved, req[r].failed)
        /\ processed'[req[r].key] = r
    BY <1>6, <2>2, CreditEnd DEF Credits
  <2>4. processed' = [processed EXCEPT ![req[r].key] = r]
    <3>1. processed' # processed
      BY <2>2, <2>3, Constants
    <3> QED BY <1>6, <3>1, CreditEffect DEF Credits
  <2>5. Goes(r, "settle", "done", req[r].loss_saved)
    BY <2>1, <2>3, MovesGoes
  <2> QED BY <2>1, <2>2, <2>4, <2>5 DEF CalmCredit
<1>7. ASSUME NEW r \in Requests, KeepsLoss(r) PROVE CalmLoss(r)
  <2>1. /\ req[r].pc = "settle" /\ UNCHANGED <<processed, cache>>
        /\ Moves(r, req[r].pc, req[r].credit, "done", req[r].failed)
    BY <1>7, LossEffect DEF KeepsLoss
  <2>2. Goes(r, "settle", req[r].credit, "done")
    BY <2>1, MovesGoes
  <2> QED BY <2>1, <2>2 DEF CalmLoss
<1>8. ASSUME NEW r \in Requests, Saves(r) PROVE CalmSave(r)
  <2>1. /\ req[r].pc = "save" /\ UNCHANGED processed
        /\ Moves(r, Response(r), req[r].credit, req[r].loss_saved, req[r].failed)
        /\ req[r].key \in Keys =>
             cache' = [cache EXCEPT ![req[r].key] =
                         [response |-> Response(r), input |-> req[r].input]]
    BY <1>8, SaveEffect DEF Saves
  <2>2. req[r].key \in Keys
    BY <1>0, <2>1, Fields DEF CalmCall
  <2>3. Goes(r, Response(r), req[r].credit, req[r].loss_saved)
    BY <2>1, MovesGoes
  <2> QED BY <2>1, <2>2, <2>3 DEF CalmSave
<1>9. ASSUME NEW r \in Requests, NEW applied \in BOOLEAN, LoadLeftoversFails(r, applied)
      PROVE  FALSE
  BY <1>9, LoadFailsEffect
<1> QED BY <1>1, <1>2, <1>3, <1>4, <1>5, <1>6, <1>7, <1>8, <1>9, StepCases

\* A step that is not an arrival keeps keys and quantities, and no call comes
\* to life.
Steady ==
  \A q \in Requests :
    /\ req'[q].key = req[q].key /\ req'[q].input = req[q].input
    /\ req'[q].pc \in Live => req[q].pc \in Live
    /\ req'[q].pc # "idle" => req[q].pc # "idle"

\* A live call's step is steady.
LEMMA GoesSteady ==
  ASSUME NEW r \in Requests, NEW pc, NEW c, NEW l, Goes(r, pc, c, l), req[r].pc \in Live
  PROVE  Steady
<1> SUFFICES ASSUME NEW q \in Requests
             PROVE  /\ req'[q].key = req[q].key /\ req'[q].input = req[q].input
                    /\ req'[q].pc \in Live => req[q].pc \in Live
                    /\ req'[q].pc # "idle" => req[q].pc # "idle"
  BY DEF Steady
<1>1. CASE q = r
  BY <1>1 DEF Goes, Live
<1>2. CASE q # r
  BY <1>2 DEF Goes
<1> QED BY <1>1, <1>2

\* It keeps the calls' keys apart.
LEMMA SteadyKeys ==
  ASSUME NEW q \in Requests, \A r \in Requests : CalmCall(r), Steady
  PROVE  /\ req'[q].pc # "idle" => req'[q].key # NoKey
         /\ \A o \in Requests : req'[q].pc \in Live /\ req'[o].pc \in Live
                                  /\ req'[q].key = req'[o].key => q = o
BY DEF Steady, CalmCall

\* A credited request's quantity lasts.
LEMMA InputLasts ==
  ASSUME TypeOK, StoreOK, Lasting, NEW k \in Keys, processed[k] # None
  PROVE  /\ processed'[k] = processed[k] /\ processed[k] \in Requests
         /\ req[processed[k]].key = k
         /\ req'[processed[k]].input = req[processed[k]].input
         /\ req'[processed[k]].key = k
<1>1. PICK o \in Requests : o = processed[k] /\ req[o].key = k /\ req[o].credit # "todo"
  BY DEF StoreOK, KeyOK
<1>2. req'[o].input = req[o].input /\ req'[o].key = k
  BY <1>1, CreditedKeeps
<1> QED BY <1>1, <1>2 DEF Lasting

\* A call that does not change stays calm, unless a response is saved for its
\* key.
LEMMA CalmSame ==
  ASSUME TypeOK, StoreOK, Lasting, ~disturbed, CalmOK, NEW q \in Requests, req'[q] = req[q],
         req[q].pc \in Working => cache'[req[q].key] = cache[req[q].key]
  PROVE  /\ req'[q].pc \in Working => cache'[req'[q].key] = None
         /\ req'[q].credit = "done" => processed'[req'[q].key] = q
         /\ req'[q].credit # "failed" /\ req'[q].loss_saved # "failed"
         /\ req'[q].pc # "settle" => req'[q].credit = req'[q].loss_saved
         /\ req'[q].pc = "ok" => req'[processed'[req'[q].key]].input = req'[q].input
<1>1. CalmCall(q) /\ CallOK(q)
  BY DEF CalmOK, StoreOK
<1>2. req[q].credit = "done" => processed'[req[q].key] = q
  <2>1. req[q].credit = "done" => req[q].key \in Keys /\ processed[req[q].key] # None
    BY <1>1, Fields DEF CallOK
  <2> QED BY <1>1, <2>1 DEF CalmCall, Lasting
<1>3. req[q].pc = "ok" => req'[processed'[req[q].key]].input = req[q].input
  <2>1. req[q].pc = "ok" => req[q].key \in Keys /\ processed[req[q].key] # None
    BY <1>1, Fields DEF CallOK, CalmCall
  <2> QED BY <1>1, <2>1, InputLasts DEF CalmCall
<1> QED BY <1>1, <1>2, <1>3 DEF CalmCall

\* A call without a saved response.
LEMMA CalmOthers ==
  ASSUME TypeOK, StoreOK, CalmOK, ~disturbed, NEW r \in Requests, NEW q \in Requests,
         CalmSave(r), q # r, req[q].pc \in Working
  PROVE  cache'[req[q].key] = cache[req[q].key]
<1>1. req[r].pc \in Live /\ req[q].pc \in Live
  BY DEF CalmSave, Live, Working
<1>2. req[q].key # req[r].key
  BY <1>1 DEF CalmOK, CalmCall
<1> QED BY <1>2 DEF CalmSave, TypeOK

\* Every undisturbed step keeps the calls calm.
LEMMA CalmCallStep ==
  ASSUME TypeOK, StoreOK, CalmOK, Lasting, [Next]_vars, ~disturbed', ~disturbed,
         NEW q \in Requests
  PROVE  CalmCall(q)'
<1>0. /\ \A r \in Requests : CallOK(r) /\ CalmCall(r)
      /\ \A k \in Keys : KeyOK(k) /\ CalmKey(k)
  BY DEF StoreOK, CalmOK
<1> DEFINE Rest ==
         /\ req'[q].pc \in Working => cache'[req'[q].key] = None
         /\ req'[q].credit = "done" => processed'[req'[q].key] = q
         /\ req'[q].credit # "failed" /\ req'[q].loss_saved # "failed"
         /\ req'[q].pc # "settle" => req'[q].credit = req'[q].loss_saved
         /\ req'[q].pc = "ok" => req'[processed'[req'[q].key]].input = req'[q].input
<1>a. ASSUME req'[q] = req[q], UNCHANGED cache PROVE Rest
  BY <1>a, CalmSame
<1>b. ASSUME Rest, Steady PROVE CalmCall(q)'
  <2>1. /\ req'[q].pc # "idle" => req'[q].key # NoKey
        /\ \A o \in Requests : req'[q].pc \in Live /\ req'[o].pc \in Live
                                 /\ req'[q].key = req'[o].key => q = o
    BY <1>0, <1>b, SteadyKeys
  <2> QED BY <1>b, <2>1 DEF CalmCall
<1>1. CASE UNCHANGED <<processed, cache, req>>
  <2>1. Steady
    BY <1>1 DEF Steady
  <2> QED BY <1>1, <1>a, <1>b, <2>1
<1>2. ASSUME NEW r \in Requests, CalmArrive(r) PROVE CalmCall(q)'
  <2>1. Rest
    <3>1. CASE q = r
      <4>1. req[r].credit = "todo" /\ req[r].loss_saved = "todo"
        BY <1>0, <1>2 DEF CallOK, Unstarted, CalmArrive
      <4>2. req'[r].pc = "check" /\ req'[r].credit = "todo" /\ req'[r].loss_saved = "todo"
        BY <1>2, <4>1 DEF CalmArrive
      <4> QED BY <3>1, <4>2 DEF Working
    <3>2. CASE q # r
      BY <1>2, <1>a, <3>2 DEF CalmArrive
    <3> QED BY <3>1, <3>2
  <2>2. req'[q].pc # "idle" => req'[q].key # NoKey
    <3>1. CASE q = r
      BY <1>2, <3>1, Constants DEF CalmArrive
    <3>2. CASE q # r
      BY <1>0, <1>2, <3>2 DEF CalmArrive, CalmCall
    <3> QED BY <3>1, <3>2
  <2>3. ASSUME NEW o \in Requests, req'[q].pc \in Live, req'[o].pc \in Live,
               req'[q].key = req'[o].key, q # o
        PROVE  FALSE
    <3>1. CASE q = r
      BY <1>2, <2>3, <3>1 DEF CalmArrive
    <3>2. CASE o = r
      BY <1>2, <2>3, <3>2 DEF CalmArrive
    <3>3. CASE q # r /\ o # r
      BY <1>0, <1>2, <2>3, <3>3 DEF CalmArrive, CalmCall
    <3> QED BY <3>1, <3>2, <3>3
  <2> QED BY <2>1, <2>2, <2>3 DEF CalmCall
<1>3. ASSUME NEW r \in Requests, CalmTurn(r) PROVE CalmCall(q)'
  <2>1. PICK pc \in Live \cup Ended :
       /\ Goes(r, pc, req[r].credit, req[r].loss_saved)
       /\ \/ req[r].pc = "check" /\ pc = "account" /\ cache[req[r].key] = None
          \/ /\ req[r].pc = "check" /\ pc \in Ended
             /\ pc = "ok" => /\ cache[req[r].key] # None /\ cache[req[r].key].response = "ok"
                             /\ cache[req[r].key].input = req[r].input
          \/ req[r].pc \in {"account", "load", "remainder"} /\ pc \in Working
          \/ /\ req[r].pc = "settle" /\ pc = "save"
             /\ req[r].credit = "done" /\ req[r].loss_saved = "done"
    BY <1>3 DEF CalmTurn
  <2>2. Steady
    <3>1. req[r].pc \in Live
      BY <2>1 DEF Live
    <3> QED BY <2>1, <3>1, GoesSteady
  <2>3. Rest
    <3>1. CASE q # r
      BY <1>3, <1>a, <2>1, <3>1 DEF CalmTurn, Goes
    <3>2. CASE q = r
      <4>1. /\ req'[q].pc = pc /\ req'[q].credit = req[q].credit /\ req'[q].key = req[q].key
            /\ req'[q].loss_saved = req[q].loss_saved /\ req'[q].input = req[q].input
            /\ UNCHANGED <<processed, cache>>
        BY <1>3, <2>1, <3>2 DEF CalmTurn, Goes
      <4>2. CalmCall(q) /\ CallOK(q) /\ req[q].pc # "idle"
        BY <1>0, <2>1, <3>2
      <4>3. pc \in Working => cache[req[q].key] = None
        BY <2>1, <3>2, <4>2 DEF CalmCall, Working, Ended
      <4>4. pc # "settle" => req[q].credit = req[q].loss_saved
        BY <2>1, <3>2, <4>2 DEF CalmCall
      <4>5. ASSUME pc = "ok" PROVE req'[processed[req[q].key]].input = req[q].input
        <5>1. PICK k \in Keys : k = req[q].key
          BY <4>2, Fields DEF CalmCall
        <5>2. cache[k] # None /\ cache[k].response = "ok" /\ cache[k].input = req[q].input
          BY <2>1, <3>2, <4>5, <5>1 DEF Working
        <5>3. processed[k] # None /\ req[processed[k]].input = req[q].input
          BY <1>0, <5>2 DEF KeyOK, CalmKey
        <5> QED BY <5>1, <5>3, InputLasts
      <4> QED BY <4>1, <4>2, <4>3, <4>4, <4>5 DEF CalmCall
    <3> QED BY <3>1, <3>2
  <2> QED BY <1>b, <2>2, <2>3
<1>4. ASSUME NEW r \in Requests, CalmCredit(r) PROVE CalmCall(q)'
  <2>1. Steady
    <3>1. req[r].pc \in Live /\ Goes(r, "settle", "done", req[r].loss_saved)
      BY <1>4 DEF Live, CalmCredit
    <3> QED BY <3>1, GoesSteady
  <2>2. Rest
    <3>1. CASE q # r
      BY <1>4, <1>a, <3>1 DEF CalmCredit, Goes
    <3>2. CASE q = r
      <4>1. /\ req'[q].pc = "settle" /\ req'[q].credit = "done" /\ req'[q].key = req[q].key
            /\ req'[q].loss_saved = req[q].loss_saved /\ UNCHANGED cache
        BY <1>4, <3>2 DEF CalmCredit, Goes
      <4>2. CalmCall(q) /\ req[q].pc = "settle" /\ req[q].key \in Keys
        BY <1>0, <1>4, <3>2, NotYetProcessed DEF CalmCredit
      <4>3. processed'[req[q].key] = q
        BY <1>4, <3>2, <4>2 DEF CalmCredit, TypeOK
      <4>4. cache[req[q].key] = None
        BY <4>2 DEF CalmCall, Working
      <4> QED BY <4>1, <4>2, <4>3, <4>4 DEF CalmCall
    <3> QED BY <3>1, <3>2
  <2> QED BY <1>b, <2>1, <2>2
<1>5. ASSUME NEW r \in Requests, CalmLoss(r) PROVE CalmCall(q)'
  <2>1. Steady
    <3>1. req[r].pc \in Live /\ Goes(r, "settle", req[r].credit, "done")
      BY <1>5 DEF Live, CalmLoss
    <3> QED BY <3>1, GoesSteady
  <2>2. Rest
    <3>1. CASE q # r
      BY <1>5, <1>a, <3>1 DEF CalmLoss, Goes
    <3>2. CASE q = r
      <4>1. /\ req'[q].pc = "settle" /\ req'[q].credit = req[q].credit /\ req'[q].key = req[q].key
            /\ req'[q].loss_saved = "done" /\ UNCHANGED <<processed, cache>> /\ req[q].pc = "settle"
        BY <1>5, <3>2 DEF CalmLoss, Goes
      <4>2. CalmCall(q)
        BY <1>0
      <4> QED BY <4>1, <4>2 DEF CalmCall
    <3> QED BY <3>1, <3>2
  <2> QED BY <1>b, <2>1, <2>2
<1>6. ASSUME NEW r \in Requests, CalmSave(r) PROVE CalmCall(q)'
  <2>1. Steady
    <3>1. req[r].pc \in Live /\ Goes(r, Response(r), req[r].credit, req[r].loss_saved)
      BY <1>6 DEF Live, CalmSave
    <3> QED BY <3>1, GoesSteady
  <2>2. Rest
    <3>1. CASE q # r
      <4>1. req'[q] = req[q]
        BY <1>6, <3>1 DEF CalmSave, Goes
      <4>2. req[q].pc \in Working => cache'[req[q].key] = cache[req[q].key]
        BY <1>6, <3>1, CalmOthers
      <4> QED BY <4>1, <4>2, CalmSame
    <3>2. CASE q = r
      <4>1. /\ req'[q].pc = Response(q) /\ req'[q].credit = req[q].credit /\ req'[q].key = req[q].key
            /\ req'[q].loss_saved = req[q].loss_saved /\ req'[q].input = req[q].input
            /\ UNCHANGED processed /\ req[q].pc = "save"
        BY <1>6, <3>2 DEF CalmSave, Goes
      <4>2. CalmCall(q) /\ CallOK(q)
        BY <1>0
      <4>3. Response(q) \in {"ok", "error"} /\ (Response(q) = "ok" => ~req[q].failed)
        BY DEF Response
      <4>4. Response(q) = "ok" => req[q].credit = "done"
        BY <4>1, <4>2, <4>3 DEF CallOK
      <4>5. Response(q) = "ok" => req'[processed[req[q].key]].input = req[q].input
        BY <4>1, <4>2, <4>4 DEF CalmCall
      <4> QED BY <4>1, <4>2, <4>3, <4>5 DEF CalmCall, Working
    <3> QED BY <3>1, <3>2
  <2> QED BY <1>b, <2>1, <2>2
<1> QED BY <1>1, <1>2, <1>3, <1>4, <1>5, <1>6, CalmCases

\* Every undisturbed step keeps the keys calm.
LEMMA CalmKeyStep ==
  ASSUME TypeOK, StoreOK, CalmOK, Lasting, [Next]_vars, ~disturbed', ~disturbed,
         NEW k \in Keys
  PROVE  CalmKey(k)'
<1>0. /\ \A r \in Requests : CallOK(r) /\ CalmCall(r)
      /\ KeyOK(k) /\ CalmKey(k)
  BY DEF StoreOK, CalmOK
<1>1. ASSUME cache'[k] = cache[k]
      PROVE  cache'[k] # None /\ cache'[k].response = "ok" =>
               req'[processed'[k]].input = cache'[k].input
  <2> SUFFICES ASSUME cache[k] # None, cache[k].response = "ok"
               PROVE  req'[processed'[k]].input = cache[k].input
    BY <1>1
  <2>1. processed[k] # None /\ req[processed[k]].input = cache[k].input
    BY <1>0 DEF KeyOK, CalmKey
  <2> QED BY <2>1, InputLasts
<1>2. ASSUME UNCHANGED <<processed, cache>>,
             processed[k] # None /\ req[processed[k]].pc \in {"settle", "save"} =>
               req'[processed[k]].pc \in {"settle", "save"}
      PROVE  CalmKey(k)'
  BY <1>0, <1>1, <1>2 DEF CalmKey
<1>3. CASE UNCHANGED <<processed, cache, req>>
  BY <1>2, <1>3
<1>4. ASSUME NEW r \in Requests, CalmArrive(r) PROVE CalmKey(k)'
  <2>1. processed[k] # None => processed[k] # r \/ req[processed[k]].pc = "idle"
    BY <1>4 DEF CalmArrive
  <2>2. processed[k] # None => processed[k] \in Requests
    BY <1>0 DEF KeyOK
  <2> QED BY <1>2, <1>4, <2>1, <2>2 DEF CalmArrive
<1>5. ASSUME NEW r \in Requests, CalmTurn(r) PROVE CalmKey(k)'
  <2>1. /\ \A q \in Requests \ {r} : req'[q] = req[q]
        /\ req[r].pc \in {"settle", "save"} => req'[r].pc \in {"settle", "save"}
    BY <1>5 DEF CalmTurn, Goes
  <2>2. processed[k] # None => processed[k] \in Requests
    BY <1>0 DEF KeyOK
  <2> QED BY <1>2, <1>5, <2>1, <2>2 DEF CalmTurn
<1>6. ASSUME NEW r \in Requests, CalmLoss(r) PROVE CalmKey(k)'
  <2>1. /\ \A q \in Requests \ {r} : req'[q] = req[q] /\ req'[r].pc = "settle"
        /\ req'[r].pc = "settle"
    BY <1>6 DEF CalmLoss, Goes
  <2>2. processed[k] # None => processed[k] \in Requests
    BY <1>0 DEF KeyOK
  <2> QED BY <1>2, <1>6, <2>1, <2>2 DEF CalmLoss
<1>7. ASSUME NEW r \in Requests, CalmCredit(r) PROVE CalmKey(k)'
  <2>1. /\ \A q \in Requests \ {r} : req'[q] = req[q]
        /\ req'[r].pc = "settle" /\ UNCHANGED cache
        /\ processed' = [processed EXCEPT ![req[r].key] = r]
    BY <1>7 DEF CalmCredit, Goes
  <2>2. ASSUME processed'[k] # None
        PROVE  cache'[k] # None \/ req'[processed'[k]].pc \in {"settle", "save"}
    <3>1. CASE k = req[r].key
      <4>1. processed'[k] = r
        BY <2>1, <3>1 DEF TypeOK
      <4> QED BY <2>1, <4>1
    <3>2. CASE k # req[r].key
      <4>1. processed'[k] = processed[k] /\ processed[k] \in Requests
        BY <1>0, <2>1, <2>2, <3>2 DEF TypeOK, KeyOK
      <4>2. cache[k] # None \/ req[processed[k]].pc \in {"settle", "save"}
        BY <1>0, <2>2, <4>1 DEF CalmKey
      <4> QED BY <2>1, <4>1, <4>2
    <3> QED BY <3>1, <3>2
  <2> QED BY <1>1, <2>1, <2>2 DEF CalmKey
<1>8. ASSUME NEW r \in Requests, CalmSave(r) PROVE CalmKey(k)'
  <2>1. /\ \A q \in Requests \ {r} : req'[q] = req[q]
        /\ req[r].pc = "save" /\ UNCHANGED processed /\ req'[r].input = req[r].input
        /\ cache' = [cache EXCEPT ![req[r].key] =
                       [response |-> Response(r), input |-> req[r].input]]
    BY <1>8 DEF CalmSave, Goes
  <2>2. CASE k = req[r].key
    <3>1. PICK saved : saved = [response |-> Response(r), input |-> req[r].input]
      OBVIOUS
    <3>2. cache'[k] = saved /\ saved # None
      BY <2>1, <2>2, <3>1, SavedType, Constants DEF TypeOK
    <3>3. saved.response = Response(r) /\ saved.input = req[r].input
      BY <3>1
    <3>4. Response(r) = "ok" => ~req[r].failed
      BY DEF Response
    <3>5. Response(r) = "ok" => processed[k] = r
      BY <1>0, <2>1, <2>2, <3>4 DEF CallOK, CalmCall
    <3> QED BY <2>1, <3>2, <3>3, <3>5 DEF CalmKey
  <2>3. CASE k # req[r].key
    <3>1. cache'[k] = cache[k]
      BY <2>1, <2>3 DEF TypeOK
    <3>2. ASSUME processed[k] # None
          PROVE  cache[k] # None \/ req'[processed[k]].pc \in {"settle", "save"}
      <4>1. processed[k] \in Requests /\ req[processed[k]].key = k
        BY <1>0, <3>2 DEF KeyOK
      <4>2. processed[k] # r
        BY <2>3, <4>1
      <4> QED BY <1>0, <2>1, <3>2, <4>1, <4>2 DEF CalmKey
    <3> QED BY <1>1, <2>1, <3>1, <3>2 DEF CalmKey
  <2> QED BY <2>2, <2>3
<1> QED BY <1>3, <1>4, <1>5, <1>6, <1>7, <1>8, CalmCases

\* Every step keeps undisturbed calls and keys calm.
LEMMA CalmStep ==
  ASSUME TypeOK, StoreOK, CalmOK, Lasting, [Next]_vars
  PROVE  CalmOK'
<1> SUFFICES ASSUME ~disturbed'
             PROVE  (\A r \in Requests : CalmCall(r)') /\ (\A k \in Keys : CalmKey(k)')
  BY DEF CalmOK
<1>1. ~disturbed
  BY DEF Lasting
<1> QED BY <1>1, CalmCallStep, CalmKeyStep

\* They are calm initially.
LEMMA CalmInit == Init => CalmOK
<1> SUFFICES ASSUME Init PROVE CalmOK
  OBVIOUS
<1>1. \A r \in Requests : /\ req[r].pc = "idle" /\ req[r].key = NoKey
                          /\ req[r].credit = "todo" /\ req[r].loss_saved = "todo"
  BY DEF Init
<1>2. \A k \in Keys : processed[k] = None /\ cache[k] = None
  BY DEF Init
<1>3. \A r \in Requests : CalmCall(r)
  BY <1>1 DEF CalmCall, Live, Working
<1>4. \A k \in Keys : CalmKey(k)
  BY <1>2 DEF CalmKey
<1> QED BY <1>3, <1>4 DEF CalmOK

\* The invariants together.
Consistent == TypeOK /\ StoreOK /\ CalmOK

\* They hold at all times.
LEMMA ConsistentAlways == Spec => []Consistent
<1>1. Init => Consistent
  BY TypeInit, StoreInit, CalmInit DEF Consistent
<1>2. Consistent /\ [Next]_vars => Consistent'
  BY TypeStep, StoreStep, CalmStep DEF Consistent
<1> QED BY <1>1, <1>2, PTL DEF Spec

\* A request is answered with success only if its own quantity was credited,
\* for any number of requests, keys, retries, failed store calls and lost
\* connections, unless the engine uses a key for two quantities and something
\* goes wrong.
THEOREM SuccessMeansCredited == Spec => []AcknowledgedIsCredited
<1>1. ASSUME Consistent PROVE AcknowledgedIsCredited
  <2> SUFFICES ASSUME ~(disturbed /\ Conflicting), NEW r \in Requests,
                      req[r].pc = "ok", req[r].key # NoKey
               PROVE  /\ processed[req[r].key] # None
                      /\ req[processed[req[r].key]].input = req[r].input
    BY DEF AcknowledgedIsCredited
  <2> USE <1>1
  <2>1. req[r].key \in Keys /\ processed[req[r].key] # None
    BY Fields DEF Consistent, StoreOK, CallOK
  <2>2. PICK o \in Requests : o = processed[req[r].key] /\ req[o].key = req[r].key
    BY <2>1 DEF Consistent, StoreOK, KeyOK
  <2>3. CASE disturbed
    <3>1. req[o].input = req[r].input
      BY <2>2, <2>3 DEF Conflicting
    <3> QED BY <2>1, <2>2, <3>1
  <2>4. CASE ~disturbed
    BY <2>1, <2>4 DEF Consistent, CalmOK, CalmCall
  <2> QED BY <2>3, <2>4
<1>2. Consistent => AcknowledgedIsCredited
  BY <1>1
<1> QED BY <1>2, ConsistentAlways, PTL

-----------------------------------------------------------------------------
(* The balance *)

\* What a request reported, what of it the account's scale cannot express, and
\* what the call has taken from the leftovers, in whole units and beyond.
Worth(r) == Value(req[r].input.num, req[r].input.scale)
Lost(r) == Value(req[r].loss, req[r].input.scale)
Loaded(r) == Value(req[r].loaded, asset_scale)
Left(r) == Value(req[r].remainder.num, req[r].remainder.scale)

\* What a call has taken from the leftovers and is still to return or credit.
Carried(r) ==
  IF req[r].pc = "remainder" THEN Loaded(r) + Left(r)
  ELSE IF req[r].pc = "settle" /\ req[r].credit = "todo" THEN Loaded(r) ELSE 0

\* The loss it is still to keep.
Unsaved(r) == IF req[r].loss_saved = "todo" THEN Lost(r) ELSE 0

\* What it may have added to the store so far.
Net(r) == (IF r \in Taken THEN Worth(r) ELSE Lost(r)) - Carried(r) - Unsaved(r)
Total == SumFunctionOnSet([r \in Requests |-> Net(r)], Requests)

\* Scaling the reported quantity has lost nothing.
SplitOK == \A r \in Requests : Worth(r) = Value(req[r].scaled, asset_scale) + Lost(r)

\* The store never holds more than the calls have added to it, and holds all
\* of it unless one has failed or was lost.
BalanceOK == Held <= Total /\ (~disturbed => Held = Total)

\* These amounts are natural numbers.
LEMMA WorthType ==
  ASSUME TypeOK, NEW r \in Requests
  PROVE  /\ Worth(r) \in Nat /\ Lost(r) \in Nat /\ Loaded(r) \in Nat /\ Left(r) \in Nat
         /\ Value(req[r].scaled, asset_scale) \in Nat
BY Fields, Constants, ValueType DEF Worth, Lost, Loaded, Left

\* What a call has carried, kept and added.
LEMMA NetType ==
  ASSUME TypeOK, NEW r \in Requests
  PROVE  /\ Carried(r) \in Nat /\ Unsaved(r) \in Nat /\ Net(r) \in Int
         /\ Net(r) <= Worth(r) \/ r \notin Taken
         /\ Net(r) <= Lost(r) \/ r \in Taken
<1>1. /\ Worth(r) \in Nat /\ Lost(r) \in Nat /\ Loaded(r) \in Nat /\ Left(r) \in Nat
  BY WorthType
<1>2. Carried(r) \in Nat /\ Unsaved(r) \in Nat
  BY <1>1 DEF Carried, Unsaved
<1> QED BY <1>1, <1>2 DEF Net

\* So they are in the next state.
LEMMA NetTypePrime ==
  TypeOK' => \A r \in Requests :
    /\ Carried(r)' \in Nat /\ Unsaved(r)' \in Nat /\ Net(r)' \in Int
    /\ Worth(r)' \in Nat /\ Lost(r)' \in Nat /\ Loaded(r)' \in Nat /\ Left(r)' \in Nat
<1> DEFINE Typed == \A r \in Requests :
             /\ Carried(r) \in Nat /\ Unsaved(r) \in Nat /\ Net(r) \in Int
             /\ Worth(r) \in Nat /\ Lost(r) \in Nat /\ Loaded(r) \in Nat /\ Left(r) \in Nat
<1>1. TypeOK => Typed
  BY NetType, WorthType
<1>2. TypeOK' => Typed'
  <2> HIDE DEF Typed
  <2> QED BY <1>1, PTL
<1> QED BY <1>2

\* The store holds a natural number.
LEMMA HeldType ==
  ASSUME TypeOK
  PROVE  Held \in Nat /\ Value(credited, asset_scale) \in Nat /\ Kept(leftovers) \in Nat
<1>1. credited \in Nat /\ leftovers \in Seq(Quantity)
  BY DEF TypeOK
<1>2. Value(credited, asset_scale) \in Nat /\ Kept(leftovers) \in Nat
  BY <1>1, Constants, ValueType, KeptType
<1> QED BY <1>2 DEF Held

\* So it does in the next state.
LEMMA HeldTypePrime == TypeOK' => Held' \in Nat /\ Kept(leftovers)' \in Nat
<1> DEFINE Typed == Held \in Nat /\ Kept(leftovers) \in Nat
<1>1. TypeOK => Typed
  BY HeldType
<1>2. TypeOK' => Typed'
  <2> HIDE DEF Typed
  <2> QED BY <1>1, PTL
<1> QED BY <1>2

\* No call has been credited before its balance update.
LEMMA TakenCredit ==
  ASSUME StoreOK, NEW r \in Taken
  PROVE  r \in Requests /\ req[r].credit # "todo"
<1>1. PICK k \in Keys : processed[k] = r /\ r \in Requests
  BY DEF Taken
<1> QED BY <1>1, Constants DEF StoreOK, KeyOK

\* A balance update adds its call to the credited ones.
LEMMA TakenMore ==
  ASSUME TypeOK, NEW r \in Requests, NEW k \in Keys, processed[k] = None,
         processed' = [processed EXCEPT ![k] = r]
  PROVE  Taken' = Taken \cup {r}
<1>1. processed \in [Keys -> Requests \cup {None}] /\ None \notin Requests
  BY Constants DEF TypeOK
<1>2. processed'[k] = r /\ \A j \in Keys : j # k => processed'[j] = processed[j]
  BY <1>1
<1>3. Taken' = {q \in Requests : \E j \in Keys : processed'[j] = q}
  BY DEF Taken
<1>4. ASSUME NEW q \in Requests
      PROVE  (\E j \in Keys : processed'[j] = q) <=> (\E j \in Keys : processed[j] = q) \/ q = r
  BY <1>1, <1>2
<1> QED BY <1>3, <1>4 DEF Taken

\* When one call moves, the total changes by what this call adds.
LEMMA TotalStep ==
  ASSUME TypeOK, TypeOK', NEW r \in Requests,
         \A q \in Requests \ {r} : req'[q] = req[q] /\ (q \in Taken' <=> q \in Taken)
  PROVE  Total' = Total + Net(r)' - Net(r)
<1>1. PICK f : f = [q \in Requests |-> Net(q)]
  OBVIOUS
<1>2. PICK g : g = [q \in Requests |-> Net(q)']
  OBVIOUS
<1>3. \A q \in Requests : f[q] \in Int /\ g[q] \in Int
  BY <1>1, <1>2, NetType, NetTypePrime
<1>4. ASSUME NEW q \in Requests, q # r PROVE g[q] = f[q]
  <2>1. req'[q] = req[q] /\ (q \in Taken' <=> q \in Taken)
    BY <1>4
  <2>2. Worth(q)' = Worth(q) /\ Lost(q)' = Lost(q) /\ Loaded(q)' = Loaded(q) /\ Left(q)' = Left(q)
    BY <2>1 DEF Worth, Lost, Loaded, Left
  <2>3. Carried(q)' = Carried(q) /\ Unsaved(q)' = Unsaved(q)
    BY <2>1, <2>2 DEF Carried, Unsaved
  <2> QED BY <1>1, <1>2, <2>1, <2>2, <2>3 DEF Net
<1>5. IsFiniteSet(Requests)
  BY Constants
<1>6. SumFunctionOnSet(g, Requests) = SumFunctionOnSet(f, Requests) + g[r] - f[r]
  BY <1>3, <1>4, <1>5, SumUpdate
<1>7. Total = SumFunctionOnSet(f, Requests) /\ Total' = SumFunctionOnSet(g, Requests)
  BY <1>1, <1>2 DEF Total
<1> QED BY <1>1, <1>2, <1>6, <1>7

\* A step of r's call after which the balance still holds.
Adds(r) ==
  /\ \A q \in Requests \ {r} : req'[q] = req[q] /\ (q \in Taken' <=> q \in Taken)
  /\ Held' - Held <= Net(r)' - Net(r)
  /\ ~disturbed' => Held' - Held = Net(r)' - Net(r)

\* The balance holds after such a step.
LEMMA AddsBalance ==
  ASSUME TypeOK, TypeOK', BalanceOK, Lasting, NEW r \in Requests, Adds(r)
  PROVE  BalanceOK'
<1>1. Total' = Total + Net(r)' - Net(r)
  BY TotalStep DEF Adds
<1>2. Held \in Nat /\ Net(r) \in Int /\ Net(r)' \in Int
  BY HeldType, NetType, NetTypePrime
<1>3. Held' \in Nat
  BY HeldTypePrime
<1>4. Total \in Int
  <2>1. PICK f : f = [q \in Requests |-> Net(q)]
    OBVIOUS
  <2>2. \A q \in Requests : f[q] \in Int
    BY <2>1, NetType
  <2> QED BY <2>1, <2>2, Constants, SumType DEF Total
<1>5. Held <= Total /\ (~disturbed => Held = Total) /\ (disturbed => disturbed')
  BY DEF BalanceOK, Lasting
<1>6. /\ Held' - Held <= Net(r)' - Net(r)
      /\ ~disturbed' => Held' - Held = Net(r)' - Net(r)
  BY DEF Adds
<1>7. Held' <= Total'
  BY <1>1, <1>2, <1>3, <1>4, <1>5, <1>6
<1>8. ~disturbed' => Held' = Total'
  BY <1>1, <1>2, <1>3, <1>4, <1>5, <1>6
<1> QED BY <1>7, <1>8 DEF BalanceOK

\* A call that moves keeps its amounts.
LEMMA MovesAmounts ==
  ASSUME NEW r \in Requests, NEW pc, NEW c, NEW l, NEW f, Moves(r, pc, c, l, f)
  PROVE  /\ Worth(r)' = Worth(r) /\ Lost(r)' = Lost(r)
         /\ Loaded(r)' = Loaded(r) /\ Left(r)' = Left(r)
         /\ Carried(r)' = IF pc = "remainder" THEN Loaded(r) + Left(r)
                          ELSE IF pc = "settle" /\ c = "todo" THEN Loaded(r) ELSE 0
         /\ Unsaved(r)' = IF l = "todo" THEN Lost(r) ELSE 0
         /\ \A q \in Requests \ {r} : req'[q] = req[q]
<1>1. /\ Worth(r)' = Worth(r) /\ Lost(r)' = Lost(r)
      /\ Loaded(r)' = Loaded(r) /\ Left(r)' = Left(r)
  BY DEF Moves, Worth, Lost, Loaded, Left
<1> QED BY <1>1 DEF Moves, Carried, Unsaved

\* A call that moves without being credited adds what it no longer carries and
\* no longer has to keep.
LEMMA PlainMove ==
  ASSUME TypeOK, TypeOK', NEW r \in Requests, NEW pc, NEW c, NEW l, NEW f,
         Moves(r, pc, c, l, f), UNCHANGED <<credited, processed>>
  PROVE  /\ \A q \in Requests \ {r} : req'[q] = req[q] /\ (q \in Taken' <=> q \in Taken)
         /\ Net(r)' - Net(r) = Carried(r) - Carried(r)' + Unsaved(r) - Unsaved(r)'
         /\ Held' - Held = Kept(leftovers)' - Kept(leftovers)
<1>1. Taken' = Taken
  BY DEF Taken
<1>2. Worth(r)' = Worth(r) /\ Lost(r)' = Lost(r) /\ \A q \in Requests \ {r} : req'[q] = req[q]
  BY MovesAmounts
<1>3. PICK o \in Nat : o = IF r \in Taken THEN Worth(r) ELSE Lost(r)
  BY WorthType
<1>4. Net(r) = o - Carried(r) - Unsaved(r) /\ Net(r)' = o - Carried(r)' - Unsaved(r)'
  BY <1>1, <1>2, <1>3 DEF Net
<1>5. Carried(r) \in Nat /\ Unsaved(r) \in Nat /\ Carried(r)' \in Nat /\ Unsaved(r)' \in Nat
  BY NetType, NetTypePrime
<1>6. Value(credited, asset_scale)' = Value(credited, asset_scale)
  BY DEF Value
<1>7. Kept(leftovers) \in Nat /\ Value(credited, asset_scale) \in Nat /\ Kept(leftovers)' \in Nat
  BY HeldType, HeldTypePrime
<1>8. Net(r)' - Net(r) = Carried(r) - Carried(r)' + Unsaved(r) - Unsaved(r)'
  BY <1>3, <1>4, <1>5
<1>9. Held' - Held = Kept(leftovers)' - Kept(leftovers)
  BY <1>6, <1>7 DEF Held
<1> QED BY <1>1, <1>2, <1>8, <1>9

\* A request that arrives has added nothing.
LEMMA ArriveAdds ==
  ASSUME TypeOK, TypeOK', StoreOK, NEW r \in Requests, NEW key \in Keys \cup {NoKey},
         NEW n \in Amounts, NEW s \in Scales, Arrive(r, key, [num |-> n, scale |-> s])
  PROVE  Adds(r)
<1>1. /\ req[r].pc = "idle" /\ UNCHANGED <<credited, processed, leftovers>>
  BY DEF Arrive
<1>2. /\ \A q \in Requests \ {r} : req'[q] = req[q]
      /\ req'[r].pc = "check" /\ req'[r].loss_saved = req[r].loss_saved
  BY ArriveMoves
<1>3. req[r].loss_saved = "todo" /\ r \notin Taken
  <2>1. req[r].loss_saved = "todo" /\ req[r].credit = "todo"
    BY <1>1 DEF StoreOK, CallOK, Unstarted
  <2> QED BY <2>1, TakenCredit
<1>4. Taken' = Taken
  BY <1>1 DEF Taken
<1>5. Lost(r) \in Nat /\ Lost(r)' \in Nat /\ Held \in Nat
  BY WorthType, NetTypePrime, HeldType
<1>6. Net(r) = Lost(r) - 0 - Lost(r)
  BY <1>1, <1>3 DEF Net, Carried, Unsaved
<1>7. Net(r)' = Lost(r)' - 0 - Lost(r)'
  BY <1>2, <1>3, <1>4 DEF Net, Carried, Unsaved
<1>8. Held' = Held
  BY <1>1 DEF Held, Value, Kept
<1> QED BY <1>2, <1>4, <1>5, <1>6, <1>7, <1>8 DEF Adds

\* A call that ends without having returned what it carries was disturbed.
LEMMA TurnsAdds ==
  ASSUME TypeOK, TypeOK', CalmOK, Lasting, NEW r \in Requests, Turns(r)
  PROVE  Adds(r)
<1>1. PICK pc \in Live \cup Ended, f \in BOOLEAN :
              /\ Moves(r, pc, req[r].credit, req[r].loss_saved, f)
              /\ pc = "account" => req[r].pc = "check"
              /\ pc = "load" => req[r].pc = "account"
              /\ pc = "save" => \/ req[r].pc = "account"
                                \/ req[r].pc = "settle" /\ req[r].credit # "todo"
              /\ pc \notin {"check", "remainder", "settle"}
              /\ pc \in Ended /\ ~disturbed' => req[r].pc = "check" \/ req[r].key = NoKey
  BY TurnsEffect
<1>2. UNCHANGED <<credited, processed, leftovers>> /\ req[r].pc \in Live
  BY TurnsEffect
<1>3. /\ \A q \in Requests \ {r} : req'[q] = req[q] /\ (q \in Taken' <=> q \in Taken)
      /\ Net(r)' - Net(r) = Carried(r) - Carried(r)' + Unsaved(r) - Unsaved(r)'
      /\ Held' - Held = Kept(leftovers)' - Kept(leftovers)
  BY <1>1, <1>2, PlainMove
<1>4. Carried(r)' = 0 /\ Unsaved(r)' = Unsaved(r)
  BY <1>1, MovesAmounts DEF Unsaved
<1>5. Kept(leftovers)' = Kept(leftovers)
  BY <1>2 DEF Kept
<1>6. Carried(r) \in Nat /\ Unsaved(r) \in Nat /\ Kept(leftovers) \in Nat
  BY NetType, HeldType
<1>7. ASSUME ~disturbed' PROVE Carried(r) = 0
  <2>1. ~disturbed
    BY <1>7 DEF Lasting
  <2>2. req[r].key # NoKey
    BY <1>2, <2>1 DEF CalmOK, CalmCall, Live
  <2>3. pc \in Ended => req[r].pc = "check"
    BY <1>1, <1>7, <2>2
  <2>4. req[r].pc # "remainder" /\ ~(req[r].pc = "settle" /\ req[r].credit = "todo")
    BY <1>1, <2>3 DEF Live
  <2> QED BY <2>4 DEF Carried
<1>8. Net(r)' - Net(r) = Carried(r) /\ Held' - Held = 0
  BY <1>3, <1>4, <1>5, <1>6
<1> QED BY <1>3, <1>6, <1>7, <1>8 DEF Adds

\* Taking the leftovers moves them from the store to the call.
LEMMA LoadAdds ==
  ASSUME TypeOK, TypeOK', StoreOK, NEW r \in Requests, LoadLeftovers(r)
  PROVE  Adds(r)
<1>1. /\ \A q \in Requests \ {r} : req'[q] = req[q]
      /\ req'[r].input = req[r].input /\ req'[r].loss = req[r].loss
      /\ req'[r].credit = req[r].credit /\ req'[r].loss_saved = req[r].loss_saved
      /\ req'[r].remainder \in Quantity
      /\ req'[r].pc = IF req'[r].remainder.num > 0 THEN "remainder" ELSE "settle"
      /\ Kept(leftovers) = Value(req'[r].loaded, asset_scale)
             + Value(req'[r].remainder.num, req'[r].remainder.scale)
  BY LoadMoves
<1>2. req[r].pc = "load" /\ UNCHANGED <<credited, processed>> /\ leftovers' = << >>
  BY DEF LoadLeftovers
<1>3. req[r].credit = "todo"
  BY <1>2 DEF StoreOK, CallOK, Unstarted
<1>4. Worth(r)' = Worth(r) /\ Lost(r)' = Lost(r)
  BY <1>1 DEF Worth, Lost
<1>5. Unsaved(r)' = Unsaved(r) /\ Taken' = Taken /\ Carried(r) = 0
  BY <1>1, <1>2, <1>4 DEF Unsaved, Taken, Carried
<1>6. Loaded(r)' \in Nat /\ Left(r)' \in Nat
  BY NetTypePrime
<1>7. Kept(leftovers) = Loaded(r)' + Left(r)'
  BY <1>1 DEF Loaded, Left
<1>8. Carried(r)' = Kept(leftovers)
  <2>1. CASE req'[r].remainder.num > 0
    BY <1>1, <1>7, <2>1 DEF Carried
  <2>2. CASE ~(req'[r].remainder.num > 0)
    <3>1. req'[r].remainder.num = 0 /\ req'[r].remainder.scale \in 0..FinestScale
      BY <1>1, <2>2 DEF Quantity
    <3>2. Left(r)' = 0
      BY <3>1, ValueZero DEF Left
    <3>3. Carried(r)' = Loaded(r)'
      BY <1>1, <1>3, <2>2 DEF Carried
    <3> QED BY <1>6, <1>7, <3>2, <3>3
  <2> QED BY <2>1, <2>2
<1>9. Kept(leftovers)' = 0 /\ Value(credited, asset_scale)' = Value(credited, asset_scale)
  BY <1>2, KeptNone DEF Value
<1>10. Kept(leftovers) \in Nat /\ Value(credited, asset_scale) \in Nat
  BY HeldType
<1>11. Held' - Held = 0 - Kept(leftovers)
  BY <1>9, <1>10 DEF Held
<1>12. PICK o \in Nat : o = IF r \in Taken THEN Worth(r) ELSE Lost(r)
  BY WorthType
<1>13. Net(r) = o - 0 - Unsaved(r) /\ Net(r)' = o - Kept(leftovers) - Unsaved(r)
  BY <1>4, <1>5, <1>8, <1>12 DEF Net
<1>14. Unsaved(r) \in Nat
  BY NetType
<1>15. Net(r)' - Net(r) = 0 - Kept(leftovers)
  BY <1>10, <1>12, <1>13, <1>14
<1> QED BY <1>1, <1>5, <1>10, <1>11, <1>15 DEF Adds

\* Taking the leftovers and failing loses them.
LEMMA LoadFailsAdds ==
  ASSUME TypeOK, TypeOK', NEW r \in Requests, NEW applied \in BOOLEAN,
         LoadLeftoversFails(r, applied)
  PROVE  Adds(r)
<1>1. /\ req[r].pc = "load" /\ UNCHANGED <<credited, processed>>
      /\ leftovers' = leftovers \/ leftovers' = << >>
      /\ Moves(r, "save", req[r].credit, req[r].loss_saved, TRUE)
      /\ disturbed'
  BY LoadFailsEffect
<1>2. PICK f \in BOOLEAN : f = TRUE
  OBVIOUS
<1>3. Moves(r, "save", req[r].credit, req[r].loss_saved, f)
  BY <1>1, <1>2
<1>4. /\ \A q \in Requests \ {r} : req'[q] = req[q] /\ (q \in Taken' <=> q \in Taken)
      /\ Net(r)' - Net(r) = Carried(r) - Carried(r)' + Unsaved(r) - Unsaved(r)'
      /\ Held' - Held = Kept(leftovers)' - Kept(leftovers)
  BY <1>1, <1>3, PlainMove
<1>5. Carried(r)' = 0 /\ Unsaved(r)' = Unsaved(r) /\ Carried(r) = 0
  BY <1>1, <1>3, MovesAmounts DEF Unsaved, Carried
<1>6. Kept(leftovers)' = Kept(leftovers) \/ Kept(leftovers)' = 0
  BY <1>1, KeptNone DEF Kept
<1>7. Unsaved(r) \in Nat /\ Kept(leftovers) \in Nat
  BY NetType, HeldType
<1>8. Held' - Held <= Net(r)' - Net(r)
  BY <1>4, <1>5, <1>6, <1>7
<1> QED BY <1>1, <1>4, <1>8 DEF Adds

\* Putting the remainder back returns it; failing to loses it at most.
LEMMA PutsBackAdds ==
  ASSUME TypeOK, TypeOK', StoreOK, NEW r \in Requests, PutsBack(r)
  PROVE  Adds(r)
<1>1. /\ req[r].pc = "remainder" /\ UNCHANGED <<credited, processed>>
      /\ \/ /\ Moves(r, "settle", req[r].credit, req[r].loss_saved, req[r].failed)
            /\ leftovers' = Append(leftovers, req[r].remainder)
         \/ /\ Moves(r, "save", req[r].credit, req[r].loss_saved, TRUE)
            /\ leftovers' = leftovers \/ leftovers' = Append(leftovers, req[r].remainder)
            /\ disturbed'
  BY RemainderEffect DEF PutsBack
<1>2. req[r].credit = "todo"
  BY <1>1 DEF StoreOK, CallOK, Unstarted
<1>3. Kept(Append(leftovers, req[r].remainder)) = Kept(leftovers) + Left(r)
  <2>1. leftovers \in Seq(Quantity) /\ req[r].remainder \in Quantity
    BY Fields DEF TypeOK
  <2> QED BY <2>1, KeptAppend DEF Left
<1>4. Kept(leftovers) \in Nat /\ Unsaved(r) \in Nat /\ Loaded(r) \in Nat /\ Left(r) \in Nat
  BY NetType, HeldType, WorthType
<1>5. Carried(r) = Loaded(r) + Left(r)
  BY <1>1 DEF Carried
<1>6. CASE /\ Moves(r, "settle", req[r].credit, req[r].loss_saved, req[r].failed)
           /\ leftovers' = Append(leftovers, req[r].remainder)
  <2>1. /\ \A q \in Requests \ {r} : req'[q] = req[q] /\ (q \in Taken' <=> q \in Taken)
        /\ Net(r)' - Net(r) = Carried(r) - Carried(r)' + Unsaved(r) - Unsaved(r)'
        /\ Held' - Held = Kept(leftovers)' - Kept(leftovers)
    BY <1>1, <1>6, PlainMove
  <2>2. Carried(r)' = Loaded(r) /\ Unsaved(r)' = Unsaved(r)
    BY <1>2, <1>6, MovesAmounts DEF Unsaved
  <2>3. Kept(leftovers)' = Kept(leftovers) + Left(r)
    BY <1>3, <1>6
  <2>4. Held' - Held = Left(r) /\ Net(r)' - Net(r) = Left(r)
    BY <1>4, <1>5, <2>1, <2>2, <2>3
  <2> QED BY <1>4, <2>1, <2>4 DEF Adds
<1>7. CASE /\ Moves(r, "save", req[r].credit, req[r].loss_saved, TRUE)
           /\ leftovers' = leftovers \/ leftovers' = Append(leftovers, req[r].remainder)
           /\ disturbed'
  <2>1. PICK f \in BOOLEAN : f = TRUE
    OBVIOUS
  <2>2. Moves(r, "save", req[r].credit, req[r].loss_saved, f)
    BY <1>7, <2>1
  <2>3. /\ \A q \in Requests \ {r} : req'[q] = req[q] /\ (q \in Taken' <=> q \in Taken)
        /\ Net(r)' - Net(r) = Carried(r) - Carried(r)' + Unsaved(r) - Unsaved(r)'
        /\ Held' - Held = Kept(leftovers)' - Kept(leftovers)
    BY <1>1, <2>2, PlainMove
  <2>4. Carried(r)' = 0 /\ Unsaved(r)' = Unsaved(r)
    BY <2>2, MovesAmounts DEF Unsaved
  <2>5. Kept(leftovers)' = Kept(leftovers) \/ Kept(leftovers)' = Kept(leftovers) + Left(r)
    BY <1>3, <1>7
  <2>6. Held' - Held <= Net(r)' - Net(r)
    BY <1>4, <1>5, <2>3, <2>4, <2>5
  <2> QED BY <1>7, <2>3, <2>6 DEF Adds
<1> QED BY <1>1, <1>6, <1>7

\* Keeping the loss adds it; failing to adds it at most.
LEMMA KeepsLossAdds ==
  ASSUME TypeOK, TypeOK', NEW r \in Requests, KeepsLoss(r)
  PROVE  Adds(r)
<1>1. PICK lost : lost = [num |-> req[r].loss, scale |-> req[r].input.scale]
  OBVIOUS
<1>2. /\ req[r].pc = "settle" /\ req[r].loss_saved = "todo"
      /\ UNCHANGED <<credited, processed>>
  BY LossEffect DEF KeepsLoss
<1>3. PICK c \in {"done", "failed"} :
        /\ Moves(r, req[r].pc, req[r].credit, c, req[r].failed)
        /\ leftovers' = Append(leftovers, lost) \/ (disturbed' /\ leftovers' = leftovers)
  BY <1>1, LossEffect DEF KeepsLoss
<1>4. Kept(Append(leftovers, lost)) = Kept(leftovers) + Lost(r)
  <2>1. leftovers \in Seq(Quantity) /\ lost \in Quantity
    BY <1>1, LeftoverType DEF TypeOK
  <2>2. lost.num = req[r].loss /\ lost.scale = req[r].input.scale
    BY <1>1
  <2> QED BY <2>1, <2>2, KeptAppend DEF Lost
<1>5. Kept(leftovers) \in Nat /\ Carried(r) \in Nat /\ Lost(r) \in Nat
  BY NetType, HeldType, WorthType
<1>6. /\ \A q \in Requests \ {r} : req'[q] = req[q] /\ (q \in Taken' <=> q \in Taken)
      /\ Net(r)' - Net(r) = Carried(r) - Carried(r)' + Unsaved(r) - Unsaved(r)'
      /\ Held' - Held = Kept(leftovers)' - Kept(leftovers)
  BY <1>2, <1>3, PlainMove
<1>7. Carried(r)' = Carried(r) /\ Unsaved(r)' = 0 /\ Unsaved(r) = Lost(r)
  BY <1>2, <1>3, MovesAmounts DEF Unsaved, Carried
<1>8. Net(r)' - Net(r) = Lost(r)
  BY <1>5, <1>6, <1>7
<1>9. CASE leftovers' = Append(leftovers, lost)
  <2>1. Kept(leftovers)' = Kept(leftovers) + Lost(r)
    BY <1>4, <1>9
  <2>2. Held' - Held = Lost(r)
    BY <1>5, <1>6, <2>1
  <2> QED BY <1>5, <1>6, <1>8, <2>2 DEF Adds
<1>10. CASE disturbed' /\ leftovers' = leftovers
  <2>1. Kept(leftovers)' = Kept(leftovers)
    BY <1>10
  <2>2. Held' - Held = 0
    BY <1>5, <1>6, <2>1
  <2> QED BY <1>5, <1>6, <1>8, <1>10, <2>2 DEF Adds
<1> QED BY <1>3, <1>9, <1>10

\* Saving the response adds nothing.
LEMMA SavesAdds ==
  ASSUME TypeOK, TypeOK', NEW r \in Requests, Saves(r)
  PROVE  Adds(r)
<1>1. req[r].pc = "save" /\ UNCHANGED <<credited, processed, leftovers>>
  BY SaveEffect DEF Saves
<1>2. PICK pc \in {"ok", "error"} :
        Moves(r, pc, req[r].credit, req[r].loss_saved, req[r].failed)
  <2>1. Response(r) \in {"ok", "error"}
    BY DEF Response
  <2> QED BY <2>1, SaveEffect DEF Saves
<1>3. /\ \A q \in Requests \ {r} : req'[q] = req[q] /\ (q \in Taken' <=> q \in Taken)
      /\ Net(r)' - Net(r) = Carried(r) - Carried(r)' + Unsaved(r) - Unsaved(r)'
      /\ Held' - Held = Kept(leftovers)' - Kept(leftovers)
  BY <1>1, <1>2, PlainMove
<1>4. Carried(r)' = 0 /\ Unsaved(r)' = Unsaved(r) /\ Carried(r) = 0
  BY <1>1, <1>2, MovesAmounts DEF Unsaved, Carried
<1>5. Kept(leftovers)' = Kept(leftovers)
  BY <1>1 DEF Kept
<1>6. Unsaved(r) \in Nat /\ Kept(leftovers) \in Nat
  BY NetType, HeldType
<1>7. Held' - Held = 0 /\ Net(r)' - Net(r) = 0
  BY <1>3, <1>4, <1>5, <1>6
<1> QED BY <1>3, <1>7 DEF Adds

\* A balance update adds the whole units of what was reported and what the
\* call carries; one that finds its key processed loses what the call carries.
LEMMA CreditsAdds ==
  ASSUME TypeOK, TypeOK', StoreOK, CalmOK, SplitOK, Lasting, NEW r \in Requests, Credits(r)
  PROVE  Adds(r)
<1>1. /\ req[r].pc = "settle" /\ req[r].key \in Keys /\ req[r].credit = "todo"
      /\ \/ UNCHANGED <<credited, processed>>
         \/ /\ processed[req[r].key] = None
            /\ credited' = credited + req[r].scaled + req[r].loaded
            /\ processed' = [processed EXCEPT ![req[r].key] = r]
      /\ UNCHANGED leftovers
  BY CreditEffect DEF Credits
<1>2. PICK c \in {"done", "failed"} :
        /\ Moves(r, req[r].pc, c, req[r].loss_saved, req[r].failed)
        /\ c = "done" => processed'[req[r].key] # None
        /\ c = "failed" => disturbed'
  BY CreditEnd DEF Credits
<1>3. Kept(leftovers)' = Kept(leftovers)
  BY <1>1 DEF Kept
<1>4. Kept(leftovers) \in Nat /\ Unsaved(r) \in Nat /\ Loaded(r) \in Nat /\ Lost(r) \in Nat
  BY NetType, HeldType, WorthType
<1>5. Carried(r) = Loaded(r) /\ Carried(r)' = 0 /\ Unsaved(r)' = Unsaved(r)
  BY <1>1, <1>2, MovesAmounts DEF Carried, Unsaved
<1>6. CASE UNCHANGED <<credited, processed>>
  <2>1. /\ \A q \in Requests \ {r} : req'[q] = req[q] /\ (q \in Taken' <=> q \in Taken)
        /\ Net(r)' - Net(r) = Carried(r) - Carried(r)' + Unsaved(r) - Unsaved(r)'
        /\ Held' - Held = Kept(leftovers)' - Kept(leftovers)
    BY <1>2, <1>6, PlainMove
  <2>2. Held' - Held = 0 /\ Net(r)' - Net(r) = Loaded(r)
    BY <1>3, <1>4, <1>5, <2>1
  <2>3. ASSUME ~disturbed' PROVE FALSE
    <3>1. ~disturbed
      BY <2>3 DEF Lasting
    <3>2. processed[req[r].key] = None
      BY <1>1, <3>1, NotYetProcessed
    <3> QED BY <1>2, <1>6, <2>3, <3>2
  <2> QED BY <1>4, <2>1, <2>2, <2>3 DEF Adds
<1>7. CASE /\ processed[req[r].key] = None
           /\ credited' = credited + req[r].scaled + req[r].loaded
           /\ processed' = [processed EXCEPT ![req[r].key] = r]
  <2>1. Taken' = Taken \cup {r} /\ r \notin Taken
    BY <1>1, <1>7, TakenMore, TakenCredit
  <2>2. /\ Worth(r)' = Worth(r) /\ Lost(r)' = Lost(r)
        /\ \A q \in Requests \ {r} : req'[q] = req[q]
    BY <1>2, MovesAmounts
  <2>3. PICK u \in Nat : u = Value(req[r].scaled, asset_scale)
    BY WorthType
  <2>4. Worth(r) = u + Lost(r)
    BY <2>3 DEF SplitOK
  <2>5. Net(r) = Lost(r) - Loaded(r) - Unsaved(r) /\ Net(r)' = Worth(r) - 0 - Unsaved(r)
    BY <1>5, <2>1, <2>2 DEF Net
  <2>6. Net(r)' - Net(r) = u + Loaded(r)
    BY <1>4, <2>3, <2>4, <2>5
  <2>7. Value(credited', asset_scale) = Value(credited, asset_scale) + u + Loaded(r)
    <3>1. credited \in Nat /\ req[r].scaled \in Nat /\ req[r].loaded \in Nat
      BY Fields DEF TypeOK
    <3>2. credited + req[r].scaled \in Nat
      BY <3>1
    <3>3. Value(credited + req[r].scaled, asset_scale) = Value(credited, asset_scale) + u
      BY <2>3, <3>1, Constants, ValueSum
    <3>4. Value((credited + req[r].scaled) + req[r].loaded, asset_scale) =
            Value(credited + req[r].scaled, asset_scale) + Loaded(r)
      BY <3>1, <3>2, Constants, ValueSum DEF Loaded
    <3> QED BY <1>7, <3>3, <3>4
  <2>8. Held' = Value(credited', asset_scale) + Kept(leftovers)
    BY <1>3 DEF Held, Value
  <2>9. Value(credited, asset_scale) \in Nat
    BY HeldType
  <2>10. Held' - Held = u + Loaded(r)
    BY <1>4, <2>3, <2>7, <2>8, <2>9 DEF Held
  <2> QED BY <1>4, <2>1, <2>2, <2>3, <2>6, <2>10 DEF Adds
<1> QED BY <1>1, <1>6, <1>7

\* Every step keeps the balance.
LEMMA BalanceStep ==
  ASSUME TypeOK, TypeOK', StoreOK, CalmOK, SplitOK, BalanceOK, Lasting, [Next]_vars
  PROVE  BalanceOK'
<1>1. CASE UNCHANGED vars
  BY <1>1 DEF vars, BalanceOK, Held, Total, Net, Taken, Worth, Lost, Carried, Unsaved,
              Loaded, Left, Value, Kept
<1>2. ASSUME NEW r \in Requests, NEW key \in Keys \cup {NoKey}, NEW n \in Amounts,
             NEW s \in Scales, Arrive(r, key, [num |-> n, scale |-> s])
      PROVE  BalanceOK'
  <2>1. Adds(r)
    BY <1>2, ArriveAdds
  <2> QED BY <2>1, AddsBalance
<1>3. ASSUME NEW r \in Requests, Turns(r) PROVE BalanceOK'
  BY <1>3, TurnsAdds, AddsBalance
<1>4. ASSUME NEW r \in Requests, LoadLeftovers(r) PROVE BalanceOK'
  BY <1>4, LoadAdds, AddsBalance
<1>5. ASSUME NEW r \in Requests, PutsBack(r) PROVE BalanceOK'
  BY <1>5, PutsBackAdds, AddsBalance
<1>6. ASSUME NEW r \in Requests, Credits(r) PROVE BalanceOK'
  BY <1>6, CreditsAdds, AddsBalance
<1>7. ASSUME NEW r \in Requests, KeepsLoss(r) PROVE BalanceOK'
  BY <1>7, KeepsLossAdds, AddsBalance
<1>8. ASSUME NEW r \in Requests, Saves(r) PROVE BalanceOK'
  BY <1>8, SavesAdds, AddsBalance
<1>9. ASSUME NEW r \in Requests, NEW applied \in BOOLEAN, LoadLeftoversFails(r, applied)
      PROVE  BalanceOK'
  BY <1>9, LoadFailsAdds, AddsBalance
<1> QED BY <1>1, <1>2, <1>3, <1>4, <1>5, <1>6, <1>7, <1>8, <1>9, StepCases

\* A call that moves keeps its split.
LEMMA MovesSplit ==
  ASSUME SplitOK, NEW r \in Requests, NEW pc, NEW c, NEW l, NEW f, Moves(r, pc, c, l, f)
  PROVE  SplitOK'
<1>1. /\ \A q \in Requests \ {r} : req'[q] = req[q]
      /\ req'[r].input = req[r].input /\ req'[r].scaled = req[r].scaled
      /\ req'[r].loss = req[r].loss
  BY DEF Moves
<1> QED BY <1>1 DEF SplitOK, Worth, Lost, Value

\* Every step keeps what was reported split in whole units and a loss.
LEMMA SplitStep ==
  ASSUME TypeOK, SplitOK, [Next]_vars
  PROVE  SplitOK'
<1>1. CASE UNCHANGED vars
  BY <1>1 DEF vars, SplitOK, Worth, Lost, Value
<1>2. ASSUME NEW r \in Requests, NEW key \in Keys \cup {NoKey}, NEW n \in Amounts,
             NEW s \in Scales, Arrive(r, key, [num |-> n, scale |-> s])
      PROVE  SplitOK'
  <2>1. /\ \A q \in Requests \ {r} : req'[q] = req[q]
        /\ Value(req'[r].input.num, req'[r].input.scale) =
             Value(req'[r].scaled, asset_scale) + Value(req'[r].loss, req'[r].input.scale)
    BY <1>2, ArriveMoves
  <2> QED BY <2>1 DEF SplitOK, Worth, Lost, Value
<1>3. ASSUME NEW r \in Requests, LoadLeftovers(r) PROVE SplitOK'
  <2>1. /\ \A q \in Requests \ {r} : req'[q] = req[q]
        /\ req'[r].input = req[r].input /\ req'[r].scaled = req[r].scaled
        /\ req'[r].loss = req[r].loss
    BY <1>3, LoadMoves
  <2> QED BY <2>1 DEF SplitOK, Worth, Lost, Value
<1>4. ASSUME NEW r \in Requests, Turns(r) PROVE SplitOK'
  BY <1>4, TurnsEffect, MovesSplit
<1>5. ASSUME NEW r \in Requests, PutsBack(r) PROVE SplitOK'
  BY <1>5, RemainderEffect, MovesSplit DEF PutsBack
<1>6. ASSUME NEW r \in Requests, Credits(r) PROVE SplitOK'
  BY <1>6, CreditEnd, MovesSplit DEF Credits
<1>7. ASSUME NEW r \in Requests, KeepsLoss(r) PROVE SplitOK'
  BY <1>7, LossEffect, MovesSplit DEF KeepsLoss
<1>8. ASSUME NEW r \in Requests, Saves(r) PROVE SplitOK'
  BY <1>8, SaveEffect, MovesSplit DEF Saves
<1>9. ASSUME NEW r \in Requests, NEW applied \in BOOLEAN, LoadLeftoversFails(r, applied)
      PROVE  SplitOK'
  BY <1>9, LoadFailsEffect, MovesSplit
<1> QED BY <1>1, <1>2, <1>3, <1>4, <1>5, <1>6, <1>7, <1>8, <1>9, StepCases

\* Initially nothing has been reported and the store is empty.
LEMMA BalanceInit == Init => SplitOK /\ BalanceOK
<1> SUFFICES ASSUME Init PROVE SplitOK /\ BalanceOK
  OBVIOUS
<1>1. ASSUME NEW r \in Requests
      PROVE  /\ req[r].input = Zero /\ req[r].scaled = 0 /\ req[r].loss = 0
             /\ req[r].pc = "idle"
  BY DEF Init
<1>2. 0 \in 0..FinestScale
  BY Constants
<1>3. Value(0, 0) = 0 /\ Value(0, asset_scale) = 0
  BY <1>2, Constants, ValueZero
<1>4. ASSUME NEW r \in Requests
      PROVE  /\ Worth(r) = 0 /\ Lost(r) = 0 /\ Carried(r) = 0
             /\ Value(req[r].scaled, asset_scale) = 0
  BY <1>1, <1>3 DEF Worth, Lost, Carried, Zero
<1>5. ASSUME NEW r \in Requests PROVE Net(r) = 0
  BY <1>4 DEF Net, Unsaved
<1> DEFINE f == [r \in Requests |-> Net(r)]
<1>6. Total = SumFunctionOnSet(f, Requests)
  BY DEF Total
<1>7. \A r \in Requests : f[r] = 0
  BY <1>5
<1> HIDE DEF f
<1>8. Total = 0
  BY <1>6, <1>7, Constants, SumZero
<1>9. Held = 0
  BY <1>3, KeptNone DEF Init, Held
<1> QED BY <1>4, <1>8, <1>9 DEF SplitOK, BalanceOK

\* The invariants with the balance.
Balanced == Consistent /\ SplitOK /\ BalanceOK

\* They hold at all times.
LEMMA BalancedAlways == Spec => []Balanced
<1>1. Init => Balanced
  BY TypeInit, StoreInit, CalmInit, BalanceInit DEF Consistent, Balanced
<1>2. ASSUME Balanced, [Next]_vars PROVE Balanced'
  <2>1. TypeOK /\ StoreOK /\ CalmOK /\ SplitOK /\ BalanceOK
    BY <1>2 DEF Balanced, Consistent
  <2>2. TypeOK'
    BY <1>2, <2>1, TypeStep
  <2>3. StoreOK' /\ Lasting
    BY <1>2, <2>1, StoreStep
  <2>4. CalmOK' /\ SplitOK'
    BY <1>2, <2>1, <2>3, CalmStep, SplitStep
  <2>5. BalanceOK'
    BY <1>2, <2>1, <2>2, <2>3, BalanceStep
  <2> QED BY <2>2, <2>3, <2>4, <2>5 DEF Balanced, Consistent
<1>3. Balanced /\ [Next]_vars => Balanced'
  BY <1>2
<1> QED BY <1>1, <1>3, PTL DEF Spec

\* What is reported by some of the calls, and lost by them, call by call.
LEMMA ReportedPlaces ==
  ASSUME TypeOK, NEW rs \in SUBSET Requests
  PROVE  /\ IsFiniteSet(rs)
         /\ Reported(rs) = SumFunctionOnSet([r \in rs |-> Worth(r)], rs)
         /\ Losses(rs) = SumFunctionOnSet([r \in rs |-> Lost(r)], rs)
<1>1. IsFiniteSet(rs)
  BY Constants, FS_Subset
<1> QED BY <1>1 DEF Reported, Losses, Worth, Lost

\* An idle call has added nothing.
LEMMA IdleNet ==
  ASSUME TypeOK, StoreOK, NEW r \in Requests, req[r].pc = "idle"
  PROVE  Net(r) = 0 /\ r \notin Taken
<1>1. req[r].loss_saved = "todo" /\ req[r].credit = "todo"
  BY DEF StoreOK, CallOK, Unstarted
<1>2. r \notin Taken
  BY <1>1, TakenCredit
<1>3. Net(r) = Lost(r) - 0 - Lost(r) /\ Lost(r) \in Nat
  BY <1>1, <1>2, WorthType DEF Net, Carried, Unsaved
<1> QED BY <1>2, <1>3

\* Whatever is repeated, fails or is lost, for any number of requests, keys,
\* amounts and scales, the store holds at most what the credited requests
\* reported and the losses of the others.
THEOREM RetriesNeverDoubleCredit == Spec => []RetryCostsAtMostTheLoss
<1>1. ASSUME Balanced PROVE RetryCostsAtMostTheLoss
  <2> USE <1>1
  <2>1. TypeOK /\ StoreOK /\ Held <= Total
    BY DEF Balanced, Consistent, BalanceOK
  <2> DEFINE A == Taken
             B == {r \in Requests : req[r].pc # "idle"} \ Taken
             wa == [r \in A |-> Worth(r)]
             lb == [r \in B |-> Lost(r)]
             w == [r \in Requests |-> IF r \in A THEN Worth(r) ELSE 0]
             l == [r \in Requests |-> IF r \in B THEN Lost(r) ELSE 0]
             h == [r \in Requests |-> w[r] + l[r]]
             n == [r \in Requests |-> Net(r)]
  <2>2. A \in SUBSET Requests /\ B \in SUBSET Requests /\ A \cap B = {}
    BY DEF Taken
  <2>3. /\ Reported(A) = SumFunctionOnSet(wa, A) /\ Losses(B) = SumFunctionOnSet(lb, B)
    BY <2>1, <2>2, ReportedPlaces
  <2>4. \A r \in Requests : Worth(r) \in Nat /\ Lost(r) \in Nat
    BY <2>1, WorthType
  <2>5. \A r \in Requests : w[r] \in Int /\ l[r] \in Int /\ h[r] = w[r] + l[r] /\ h[r] \in Int
    BY <2>4
  <2>6. (\A r \in A : wa[r] \in Int /\ w[r] = wa[r]) /\ (\A r \in Requests \ A : w[r] = 0)
    BY <2>2, <2>4
  <2>7. (\A r \in B : lb[r] \in Int /\ l[r] = lb[r]) /\ (\A r \in Requests \ B : l[r] = 0)
    BY <2>2, <2>4
  <2>8. ASSUME NEW r \in Requests PROVE n[r] \in Int /\ n[r] <= h[r]
    <3>1. /\ Net(r) \in Int
          /\ Net(r) <= Worth(r) \/ r \notin Taken
          /\ Net(r) <= Lost(r) \/ r \in Taken
      BY <2>1, NetType
    <3>2. CASE r \in Taken
      BY <2>2, <2>4, <3>1, <3>2
    <3>3. CASE r \notin Taken /\ req[r].pc # "idle"
      BY <2>2, <2>4, <3>1, <3>3
    <3>4. CASE req[r].pc = "idle"
      <4>1. Net(r) = 0
        BY <2>1, <3>4, IdleNet
      <4> QED BY <2>4, <4>1
    <3> QED BY <3>2, <3>3, <3>4
  <2>9. Total = SumFunctionOnSet(n, Requests)
    BY DEF Total
  <2>10. IsFiniteSet(Requests) /\ A \subseteq Requests /\ B \subseteq Requests
    BY <2>2, Constants
  <2> HIDE DEF A, B, wa, lb, w, l, h, n
  <2>11. SumFunctionOnSet(n, Requests) <= SumFunctionOnSet(h, Requests)
    BY ONLY <2>5, <2>8, <2>10, SumMonotone
  <2>12. SumFunctionOnSet(h, Requests) =
           SumFunctionOnSet(w, Requests) + SumFunctionOnSet(l, Requests)
    BY ONLY <2>5, <2>10, SumPlus
  <2>13. SumFunctionOnSet(w, Requests) = SumFunctionOnSet(wa, A)
    BY ONLY <2>6, <2>10, SumPart
  <2>14. SumFunctionOnSet(l, Requests) = SumFunctionOnSet(lb, B)
    BY ONLY <2>7, <2>10, SumPart
  <2>15. Held \in Int /\ Total \in Int /\ SumFunctionOnSet(h, Requests) \in Int
    BY <2>1, <2>5, <2>8, <2>9, <2>10, HeldType, SumType
  <2>16. Held <= Reported(A) + Losses(B)
    BY <2>1, <2>3, <2>9, <2>11, <2>12, <2>13, <2>14, <2>15
  <2> QED BY <2>16 DEF RetryCostsAtMostTheLoss, A, B
<1>2. Balanced => RetryCostsAtMostTheLoss
  BY <1>1
<1> QED BY <1>2, BalancedAlways, PTL

\* Undisturbed, once all requests have been answered, the store holds exactly
\* what the credited requests reported, for any number of requests and keys and
\* any amounts and scales.
THEOREM NothingIsLost == Spec => []SettledInFull
<1>1. ASSUME Balanced PROVE SettledInFull
  <2> SUFFICES ASSUME Quiescent, ~disturbed PROVE Held = Reported(Taken)
    BY DEF SettledInFull
  <2> USE <1>1
  <2>1. TypeOK /\ StoreOK /\ Held = Total /\ \A r \in Requests : CalmCall(r)
    BY DEF Balanced, Consistent, BalanceOK, CalmOK
  <2> DEFINE wa == [r \in Taken |-> Worth(r)]
             n == [r \in Requests |-> Net(r)]
  <2>2. Taken \subseteq Requests /\ IsFiniteSet(Requests)
    BY Constants DEF Taken
  <2>3. Reported(Taken) = SumFunctionOnSet(wa, Taken)
    BY <2>1, <2>2, ReportedPlaces
  <2>4. Total = SumFunctionOnSet(n, Requests)
    BY DEF Total
  <2>5. ASSUME NEW r \in Requests
        PROVE  Worth(r) \in Nat /\ Net(r) = IF r \in Taken THEN Worth(r) ELSE 0
    <3>1. Worth(r) \in Nat /\ Lost(r) \in Nat
      BY <2>1, WorthType
    <3>2. req[r].pc \notin Live
      BY DEF Quiescent
    <3>3. Carried(r) = 0 /\ req[r].credit = req[r].loss_saved /\ req[r].credit # "failed"
      BY <2>1, <3>2 DEF Carried, Live, CalmCall
    <3>4. CASE r \in Taken
      <4>1. req[r].credit # "todo"
        BY <2>1, <3>4, TakenCredit
      <4>2. Unsaved(r) = 0
        BY <3>3, <4>1 DEF Unsaved
      <4> QED BY <3>1, <3>3, <3>4, <4>2 DEF Net
    <3>5. CASE r \notin Taken
      <4>1. req[r].credit # "done"
        <5>1. ASSUME req[r].credit = "done" PROVE FALSE
          <6>1. processed[req[r].key] = r
            BY <2>1, <5>1 DEF CalmCall
          <6>2. req[r].key \in Keys
            BY <2>1, <5>1, Fields DEF StoreOK, CallOK
          <6> QED BY <3>5, <6>1, <6>2 DEF Taken
        <5> QED BY <5>1
      <4>2. req[r].loss_saved = "todo"
        BY <2>1, <3>3, <4>1, Fields
      <4> QED BY <3>1, <3>3, <3>5, <4>2 DEF Net, Unsaved
    <3> QED BY <3>1, <3>4, <3>5
  <2>6. /\ \A r \in Taken : wa[r] \in Int /\ n[r] = wa[r]
        /\ \A r \in Requests \ Taken : n[r] = 0
    BY <2>2, <2>5
  <2> HIDE DEF wa, n
  <2>7. SumFunctionOnSet(n, Requests) = SumFunctionOnSet(wa, Taken)
    BY ONLY <2>2, <2>6, SumPart
  <2> QED BY <2>1, <2>3, <2>4, <2>7
<1>2. Balanced => SettledInFull
  BY <1>1
<1> QED BY <1>2, BalancedAlways, PTL
=============================================================================
