------------------------- MODULE StreamPaymentProofs -------------------------
(***************************************************************************)
(* Proofs about a STREAM payment: the sender's books agree with what its   *)
(* packet tasks have in flight, for every source amount, rate, path and    *)
(* number of packets, and what follows from it for the receipt.            *)
(***************************************************************************)
EXTENDS StreamPayment, SumTheorems

-----------------------------------------------------------------------------
(* Bags and the sums over them *)

\* A finite bag: its elements and how often they are in it.
IsBag(B) == IsFiniteSet(DOMAIN B) /\ B \in [DOMAIN B -> Nat \ {0}]

\* The sum of the weights of a bag's elements.
Weighted(w, B) == [t \in DOMAIN B |-> B[t] * w[t]]
SumOf(w, B) == SumFunctionOnSet(Weighted(w, B), DOMAIN B)

\* What BagAdd returns.
LEMMA AddBag ==
  ASSUME NEW B, IsBag(B), NEW x
  PROVE  /\ IsBag(BagAdd(B, x)) /\ DOMAIN BagAdd(B, x) = DOMAIN B \cup {x}
         /\ BagAdd(B, x)[x] = IF x \in DOMAIN B THEN B[x] + 1 ELSE 1
         /\ \A t \in DOMAIN B : t # x => BagAdd(B, x)[t] = B[t]
<1>1. IsFiniteSet(DOMAIN B \cup {x})
  BY FiniteOneMore DEF IsBag
<1>2. CASE x \in DOMAIN B
  <2>1. BagAdd(B, x) = [e \in DOMAIN B |-> IF e = x THEN B[e] + 1 ELSE B[e]]
    BY <1>2 DEF BagAdd
  <2>2. DOMAIN B \cup {x} = DOMAIN B
    BY <1>2
  <2>3. \A t \in DOMAIN B : B[t] \in Nat \ {0} /\ B[t] + 1 \in Nat \ {0}
    BY DEF IsBag
  <2>4. DOMAIN BagAdd(B, x) = DOMAIN B
    BY <2>1
  <2>5. \A t \in DOMAIN B : BagAdd(B, x)[t] = IF t = x THEN B[t] + 1 ELSE B[t]
    BY <2>1
  <2>6. BagAdd(B, x) \in [DOMAIN B -> Nat \ {0}]
    BY <2>1, <2>3
  <2> QED BY <1>2, <2>2, <2>4, <2>5, <2>6 DEF IsBag
<1>3. CASE x \notin DOMAIN B
  <2>1. BagAdd(B, x) = [e \in DOMAIN B \cup {x} |-> IF e = x THEN 1 ELSE B[e]]
    BY <1>3 DEF BagAdd
  <2> QED BY <1>1, <1>3, <2>1 DEF IsBag
<1> QED BY <1>2, <1>3

\* What BagRemove returns.
LEMMA RemoveBag ==
  ASSUME NEW B, IsBag(B), NEW x \in DOMAIN B
  PROVE  /\ IsBag(BagRemove(B, x)) /\ DOMAIN BagRemove(B, x) \subseteq DOMAIN B
         /\ IF B[x] = 1 THEN DOMAIN BagRemove(B, x) = DOMAIN B \ {x}
                        ELSE /\ DOMAIN BagRemove(B, x) = DOMAIN B
                             /\ BagRemove(B, x)[x] = B[x] - 1
         /\ \A t \in DOMAIN B : t # x => BagRemove(B, x)[t] = B[t]
<1>1. IsFiniteSet(DOMAIN B \ {x})
  BY FiniteOneMore DEF IsBag
<1>2. CASE B[x] = 1
  <2>1. BagRemove(B, x) = [e \in DOMAIN B \ {x} |-> B[e]]
    BY <1>2 DEF BagRemove
  <2> QED BY <1>1, <1>2, <2>1 DEF IsBag
<1>3. CASE B[x] # 1
  <2>1. BagRemove(B, x) = [e \in DOMAIN B |-> IF e = x THEN B[e] - 1 ELSE B[e]]
    BY <1>3 DEF BagRemove
  <2> QED BY <1>3, <2>1 DEF IsBag
<1> QED BY <1>2, <1>3

\* The sum over a bag is a number.
LEMMA SumOfType ==
  ASSUME NEW B, IsBag(B), NEW w, \A t \in DOMAIN B : w[t] \in Nat
  PROVE  /\ SumOf(w, B) \in Nat
         /\ \A t \in DOMAIN B : Weighted(w, B)[t] \in Nat
<1>1. \A t \in DOMAIN B : B[t] \in Nat
  BY DEF IsBag
<1>2. \A t \in DOMAIN B : B[t] * w[t] \in Nat
  <2> TAKE t \in DOMAIN B
  <2>1. B[t] \in Nat /\ w[t] \in Nat
    BY <1>1
  <2> QED BY <2>1
<1>3. \A t \in DOMAIN B : Weighted(w, B)[t] \in Nat
  BY <1>2 DEF Weighted
<1> QED BY <1>3, SumNat DEF SumOf, IsBag

\* Adding an element adds its weight.
LEMMA AddSum ==
  ASSUME NEW B, IsBag(B), NEW x, NEW w, \A t \in DOMAIN B : w[t] \in Nat, w[x] \in Nat
  PROVE  SumOf(w, BagAdd(B, x)) = SumOf(w, B) + w[x]
<1> DEFINE C == BagAdd(B, x)
           f == Weighted(w, B)
           g == Weighted(w, C)
<1>1. /\ IsBag(C) /\ DOMAIN C = DOMAIN B \cup {x}
      /\ C[x] = IF x \in DOMAIN B THEN B[x] + 1 ELSE 1
      /\ \A t \in DOMAIN B : t # x => C[t] = B[t]
  BY AddBag
<1> HIDE DEF C
<1>2. /\ \A t \in DOMAIN B : f[t] \in Nat
      /\ \A t \in DOMAIN C : g[t] \in Nat
      /\ SumOf(w, B) \in Nat
  BY <1>1, SumOfType
<1>3. \A t \in DOMAIN B : t # x => g[t] = f[t]
  BY <1>1 DEF Weighted
<1>4. SumOf(w, B) = SumFunctionOnSet(f, DOMAIN B) /\ SumOf(w, C) = SumFunctionOnSet(g, DOMAIN C)
  BY DEF SumOf
<1>5. g[x] = C[x] * w[x] /\ (x \in DOMAIN B => f[x] = B[x] * w[x])
  BY <1>1 DEF Weighted
<1> HIDE DEF f, g
<1>6. CASE x \in DOMAIN B
  <2>1. SumFunctionOnSet(g, DOMAIN B) = SumFunctionOnSet(f, DOMAIN B) + g[x] - f[x]
    <3>1. \A t \in DOMAIN B : f[t] \in Int /\ g[t] \in Int /\ (t # x => g[t] = f[t])
      BY <1>1, <1>2, <1>3
    <3> QED BY <1>6, <3>1, SumUpdate DEF IsBag
  <2>2. B[x] \in Nat
    BY <1>6 DEF IsBag
  <2>3. (B[x] + 1) * w[x] = B[x] * w[x] + w[x]
    BY <2>2
  <2>4. g[x] = f[x] + w[x] /\ f[x] \in Nat
    BY <1>1, <1>2, <1>5, <1>6, <2>3
  <2>5. DOMAIN C = DOMAIN B
    BY <1>1, <1>6
  <2> QED BY <1>2, <1>4, <2>1, <2>4, <2>5 DEF C
<1>7. CASE x \notin DOMAIN B
  <2>1. SumFunctionOnSet(g, DOMAIN B \cup {x}) = g[x] + SumFunctionOnSet(g, DOMAIN B)
    <3>1. \A t \in DOMAIN B \cup {x} : g[t] \in Int
      BY <1>1, <1>2
    <3>2. IsFiniteSet(DOMAIN B)
      BY DEF IsBag
    <3> QED BY <1>7, <3>1, <3>2, SumAdd
  <2>2. SumFunctionOnSet(g, DOMAIN B) = SumFunctionOnSet(f, DOMAIN B)
    <3>1. \A t \in DOMAIN B : f[t] \in Int /\ g[t] = f[t]
      BY <1>2, <1>3, <1>7
    <3> QED BY <3>1, SumSame DEF IsBag
  <2>3. g[x] = w[x]
    BY <1>1, <1>5, <1>7
  <2> QED BY <1>1, <1>2, <1>4, <2>1, <2>2, <2>3 DEF C
<1> QED BY <1>6, <1>7

\* Removing an element takes its weight away.
LEMMA RemoveSum ==
  ASSUME NEW B, IsBag(B), NEW x \in DOMAIN B, NEW w, \A t \in DOMAIN B : w[t] \in Nat
  PROVE  SumOf(w, BagRemove(B, x)) = SumOf(w, B) - w[x] /\ w[x] <= SumOf(w, B)
<1> DEFINE C == BagRemove(B, x)
           f == Weighted(w, B)
           g == Weighted(w, C)
<1>1. /\ IsBag(C) /\ DOMAIN C \subseteq DOMAIN B
      /\ IF B[x] = 1 THEN DOMAIN C = DOMAIN B \ {x}
                     ELSE DOMAIN C = DOMAIN B /\ C[x] = B[x] - 1
      /\ \A t \in DOMAIN B : t # x => C[t] = B[t]
  BY RemoveBag
<1> HIDE DEF C
<1>2. /\ \A t \in DOMAIN B : f[t] \in Nat
      /\ \A t \in DOMAIN C : g[t] \in Nat
      /\ SumOf(w, B) \in Nat /\ SumOf(w, C) \in Nat
  BY <1>1, SumOfType
<1>3. \A t \in DOMAIN C : t # x => g[t] = f[t]
  BY <1>1 DEF Weighted
<1>4. SumOf(w, B) = SumFunctionOnSet(f, DOMAIN B) /\ SumOf(w, C) = SumFunctionOnSet(g, DOMAIN C)
  BY DEF SumOf
<1>5. f[x] = B[x] * w[x] /\ (x \in DOMAIN C => g[x] = C[x] * w[x])
  BY <1>1 DEF Weighted
<1> HIDE DEF f, g
<1>6. CASE B[x] = 1
  <2>1. SumFunctionOnSet(f, DOMAIN B) = f[x] + SumFunctionOnSet(f, DOMAIN B \ {x})
    BY <1>2, SumRemove DEF IsBag
  <2>2. SumFunctionOnSet(g, DOMAIN C) = SumFunctionOnSet(f, DOMAIN C)
    <3>1. \A t \in DOMAIN C : f[t] \in Int /\ g[t] = f[t]
      BY <1>1, <1>2, <1>3, <1>6
    <3> QED BY <1>1, <3>1, SumSame DEF IsBag
  <2>3. f[x] = w[x]
    BY <1>5, <1>6
  <2>4. DOMAIN C = DOMAIN B \ {x}
    BY <1>1, <1>6
  <2> QED BY <1>2, <1>4, <2>1, <2>2, <2>3, <2>4 DEF C
<1>7. CASE B[x] # 1
  <2>1. DOMAIN C = DOMAIN B /\ C[x] = B[x] - 1
    BY <1>1, <1>7
  <2>2. SumFunctionOnSet(g, DOMAIN B) = SumFunctionOnSet(f, DOMAIN B) + g[x] - f[x]
    <3>1. \A t \in DOMAIN B : f[t] \in Int /\ g[t] \in Int /\ (t # x => g[t] = f[t])
      BY <1>2, <1>3, <2>1
    <3> QED BY <3>1, SumUpdate DEF IsBag
  <2>3. B[x] \in Nat
    BY DEF IsBag
  <2>4. (B[x] - 1) * w[x] = B[x] * w[x] - w[x]
    BY <2>3
  <2>5. g[x] = f[x] - w[x] /\ f[x] \in Nat
    BY <1>2, <1>5, <2>1, <2>4
  <2> QED BY <1>2, <1>4, <2>1, <2>2, <2>5 DEF C
<1> QED BY <1>6, <1>7

-----------------------------------------------------------------------------
(* What the tasks have in flight *)

\* What a task has sent and not heard of, and what the recipient has collected
\* from a task that does not know it yet.
AmountOf == [t \in Task \cup Result |-> IF t.stage = "done" THEN 0 ELSE t.amount]
ClaimOf == [t \in Task \cup Result |-> IF t.stage = "fulfilled" THEN t.claimed ELSE 0]
Claims == SumOf(ClaimOf, tasks)

\* The pending requests are a bag of tasks and results.
BagOK == IsBag(tasks) /\ DOMAIN tasks \subseteq Task \cup Result

\* The sums over them are numbers.
SumsOK == /\ InFlight = SumOf(AmountOf, tasks)
          /\ InFlight \in Nat /\ Claims \in Nat

\* The weights are numbers.
LEMMA WeightType ==
  ASSUME NEW t \in Task \cup Result PROVE AmountOf[t] \in Nat /\ ClaimOf[t] \in Nat
BY DEF AmountOf, ClaimOf, Task, Result

\* InFlight is the weighted sum of the bag.
LEMMA SumsType == BagOK => SumsOK
<1> SUFFICES ASSUME BagOK PROVE SumsOK
  OBVIOUS
<1>1. \A t \in DOMAIN tasks : AmountOf[t] \in Nat /\ ClaimOf[t] \in Nat
  BY WeightType DEF BagOK
<1>2. SumOf(AmountOf, tasks) \in Nat /\ Claims \in Nat
  BY <1>1, SumOfType DEF BagOK, Claims
<1>3. ASSUME NEW t \in DOMAIN tasks PROVE Outstanding[t] = Weighted(AmountOf, tasks)[t]
  <2>1. tasks[t] \in Nat /\ t \in Task \cup Result
    BY DEF BagOK, IsBag
  <2>2. AmountOf[t] = IF t.stage = "done" THEN 0 ELSE t.amount
    BY <2>1 DEF AmountOf
  <2>3. tasks[t] * AmountOf[t] = IF t.stage = "done" THEN 0 ELSE tasks[t] * t.amount
    BY <2>1, <2>2
  <2> QED BY <2>3 DEF Outstanding, Weighted, BagToSet
<1>4. Outstanding = Weighted(AmountOf, tasks)
  BY <1>3 DEF Outstanding, Weighted, BagToSet
<1>5. InFlight = SumOf(AmountOf, tasks)
  BY <1>4 DEF InFlight, SumOf, BagToSet
<1> QED BY <1>2, <1>5 DEF SumsOK

\* The same after a step.
LEMMA SumsTypePrime == BagOK' => SumsOK'
BY SumsType, PTL

\* A task moves on: its weights are exchanged.
LEMMA BecomesSums ==
  ASSUME BagOK, NEW t \in DOMAIN tasks, NEW u \in Task \cup Result, Becomes(t, u)
  PROVE  /\ BagOK' /\ u \in DOMAIN tasks' /\ DOMAIN tasks' \subseteq DOMAIN tasks \cup {u}
         /\ AmountOf[t] <= InFlight /\ InFlight' = InFlight - AmountOf[t] + AmountOf[u]
         /\ ClaimOf[t] <= Claims /\ Claims' = Claims - ClaimOf[t] + ClaimOf[u]
<1> DEFINE R == BagRemove(tasks, t)
<1>1. tasks' = BagAdd(R, u)
  BY DEF Becomes
<1>2. IsBag(tasks) /\ DOMAIN tasks \subseteq Task \cup Result
  BY DEF BagOK
<1>3. IsBag(R) /\ DOMAIN R \subseteq DOMAIN tasks
  BY <1>2, RemoveBag
<1>4. /\ \A x \in DOMAIN tasks : AmountOf[x] \in Nat /\ ClaimOf[x] \in Nat
      /\ AmountOf[u] \in Nat /\ ClaimOf[u] \in Nat
  BY <1>2, WeightType
<1>5. /\ SumOf(AmountOf, R) = SumOf(AmountOf, tasks) - AmountOf[t]
      /\ AmountOf[t] <= SumOf(AmountOf, tasks)
      /\ SumOf(ClaimOf, R) = SumOf(ClaimOf, tasks) - ClaimOf[t]
      /\ ClaimOf[t] <= SumOf(ClaimOf, tasks)
  BY <1>2, <1>4, RemoveSum
<1> HIDE DEF R
<1>6. /\ IsBag(tasks') /\ DOMAIN tasks' = DOMAIN R \cup {u}
      /\ SumOf(AmountOf, tasks') = SumOf(AmountOf, R) + AmountOf[u]
      /\ SumOf(ClaimOf, tasks') = SumOf(ClaimOf, R) + ClaimOf[u]
  <2>1. \A x \in DOMAIN R : AmountOf[x] \in Nat /\ ClaimOf[x] \in Nat
    BY <1>3, <1>4
  <2>2. IsBag(BagAdd(R, u)) /\ DOMAIN BagAdd(R, u) = DOMAIN R \cup {u}
    BY <1>3, AddBag
  <2>3. /\ SumOf(AmountOf, BagAdd(R, u)) = SumOf(AmountOf, R) + AmountOf[u]
        /\ SumOf(ClaimOf, BagAdd(R, u)) = SumOf(ClaimOf, R) + ClaimOf[u]
    BY <1>3, <1>4, <2>1, AddSum
  <2> QED BY <1>1, <2>2, <2>3
<1>7. BagOK'
  BY <1>2, <1>3, <1>6 DEF BagOK
<1>8. /\ InFlight' = SumOf(AmountOf, tasks') /\ InFlight = SumOf(AmountOf, tasks)
      /\ Claims' = SumOf(ClaimOf, tasks') /\ Claims = SumOf(ClaimOf, tasks)
  BY <1>7, SumsType, SumsTypePrime DEF SumsOK, Claims
<1> QED BY <1>3, <1>5, <1>6, <1>7, <1>8

\* A result is taken out: it has no weight.
LEMMA ResultSums ==
  ASSUME BagOK, NEW t \in DOMAIN tasks, t.stage = "done", tasks' = BagRemove(tasks, t)
  PROVE  /\ BagOK' /\ DOMAIN tasks' \subseteq DOMAIN tasks
         /\ InFlight' = InFlight /\ Claims' = Claims
<1>1. IsBag(tasks) /\ DOMAIN tasks \subseteq Task \cup Result
  BY DEF BagOK
<1>2. IsBag(tasks') /\ DOMAIN tasks' \subseteq DOMAIN tasks
  BY <1>1, RemoveBag
<1>3. BagOK'
  BY <1>1, <1>2 DEF BagOK
<1>4. \A x \in DOMAIN tasks : AmountOf[x] \in Nat /\ ClaimOf[x] \in Nat
  BY <1>1, WeightType
<1>5. AmountOf[t] = 0 /\ ClaimOf[t] = 0
  BY <1>1 DEF AmountOf, ClaimOf
<1>6. /\ SumOf(AmountOf, tasks') = SumOf(AmountOf, tasks) - AmountOf[t]
      /\ SumOf(ClaimOf, tasks') = SumOf(ClaimOf, tasks) - ClaimOf[t]
  BY <1>1, <1>4, RemoveSum
<1>7. /\ InFlight' = SumOf(AmountOf, tasks') /\ InFlight = SumOf(AmountOf, tasks)
      /\ Claims' = SumOf(ClaimOf, tasks') /\ Claims = SumOf(ClaimOf, tasks)
      /\ InFlight \in Nat /\ Claims \in Nat
  BY <1>3, SumsType, SumsTypePrime DEF SumsOK, Claims
<1> QED BY <1>2, <1>3, <1>5, <1>6, <1>7

\* A packet's task is spawned: its amount is in flight.
LEMMA SpawnSums ==
  ASSUME BagOK, NEW u \in Task, u.stage = "spawned", tasks' = BagAdd(tasks, u)
  PROVE  /\ BagOK' /\ DOMAIN tasks' = DOMAIN tasks \cup {u}
         /\ InFlight' = InFlight + u.amount /\ Claims' = Claims
<1>1. IsBag(tasks) /\ DOMAIN tasks \subseteq Task \cup Result
  BY DEF BagOK
<1>2. IsBag(tasks') /\ DOMAIN tasks' = DOMAIN tasks \cup {u}
  BY <1>1, AddBag
<1>3. BagOK'
  BY <1>1, <1>2 DEF BagOK
<1>4. \A x \in DOMAIN tasks : AmountOf[x] \in Nat /\ ClaimOf[x] \in Nat
  BY <1>1, WeightType
<1>5. AmountOf[u] = u.amount /\ ClaimOf[u] = 0 /\ u.amount \in Nat
  BY DEF AmountOf, ClaimOf, Task
<1>6. /\ SumOf(AmountOf, tasks') = SumOf(AmountOf, tasks) + AmountOf[u]
      /\ SumOf(ClaimOf, tasks') = SumOf(ClaimOf, tasks) + ClaimOf[u]
  BY <1>1, <1>4, <1>5, AddSum
<1>7. /\ InFlight' = SumOf(AmountOf, tasks') /\ InFlight = SumOf(AmountOf, tasks)
      /\ Claims' = SumOf(ClaimOf, tasks') /\ Claims = SumOf(ClaimOf, tasks)
      /\ InFlight \in Nat /\ Claims \in Nat
  BY <1>3, SumsType, SumsTypePrime DEF SumsOK, Claims
<1> QED BY <1>2, <1>3, <1>5, <1>6, <1>7

\* Tasks that have all ended have nothing in flight, and neither have none.
NothingLeft ==
  BagOK /\ (\A t \in DOMAIN tasks : t.stage = "done") => InFlight = 0 /\ Claims = 0

\* The sums of weights 0 are 0.
LEMMA NothingLeftLemma == NothingLeft
<1> SUFFICES ASSUME BagOK, \A t \in DOMAIN tasks : t.stage = "done"
             PROVE  InFlight = 0 /\ Claims = 0
  BY DEF NothingLeft
<1>1. \A t \in DOMAIN tasks : AmountOf[t] = 0 /\ ClaimOf[t] = 0
  BY DEF BagOK, AmountOf, ClaimOf
<1>2. \A t \in DOMAIN tasks : tasks[t] * AmountOf[t] = 0 /\ tasks[t] * ClaimOf[t] = 0
  BY <1>1 DEF BagOK, IsBag
<1>3. \A t \in DOMAIN tasks : /\ Weighted(AmountOf, tasks)[t] = 0
                              /\ Weighted(ClaimOf, tasks)[t] = 0
  BY <1>2 DEF Weighted
<1>4. IsFiniteSet(DOMAIN tasks)
  BY DEF BagOK, IsBag
<1>5. SumOf(AmountOf, tasks) = 0 /\ SumOf(ClaimOf, tasks) = 0
  BY <1>3, <1>4, SumZero DEF SumOf
<1> QED BY <1>5, SumsType DEF SumsOK, Claims

\* The same after a step.
LEMMA NothingLeftPrime == NothingLeft'
BY NothingLeftLemma, PTL

-----------------------------------------------------------------------------
(* Amounts *)

\* Division of natural numbers.
LEMMA DivNat ==
  ASSUME NEW a \in Nat, NEW b \in Nat \ {0}
  PROVE  /\ a \div b \in Nat /\ a % b \in 0..(b - 1)
         /\ a = b * (a \div b) + (a % b)
         /\ a \div b <= a
<1>1. a \div b \in Int /\ a % b \in 0..(b - 1) /\ a = b * (a \div b) + (a % b)
  OBVIOUS
<1>2. PICK q \in Int, r \in 0..(b - 1) : a = b * q + r /\ q = a \div b
  BY <1>1
<1>3. q >= 0
  BY <1>2
<1>4. b * q >= q
  BY <1>3
<1> QED BY <1>1, <1>2, <1>3, <1>4

\* What does not exceed b * q is divided by b into at most q.
LEMMA DivAtMost ==
  ASSUME NEW a \in Nat, NEW b \in Nat \ {0}, NEW q \in Nat, a < b * (q + 1)
  PROVE  a \div b <= q
<1>1. PICK d \in Nat, r \in 0..(b - 1) : a = b * d + r /\ d = a \div b
  BY DivNat
<1>2. ASSUME d >= q + 1 PROVE FALSE
  <2>1. b * d >= b * (q + 1)
    BY <1>1, <1>2
  <2> QED BY <1>1, <2>1
<1> QED BY <1>1, <1>2

\* CeilDiv and the dust limit are natural numbers.
LEMMA CeilType ==
  ASSUME NEW a \in Nat, NEW b \in Nat \ {0} PROVE CeilDiv(a, b) \in Nat
<1>1. a + b - 1 \in Nat
  OBVIOUS
<1> QED BY <1>1, DivNat DEF CeilDiv

\* MinSourceAmount and Convert are natural numbers, and there is dust when there
\* is a least amount worth sending.
LEMMA PriceType ==
  ASSUME NEW priced \in BOOLEAN, NEW a \in Nat
  PROVE  /\ MinSourceAmount(priced) \in Nat /\ Convert(a, priced) \in Nat
         /\ DustLimit(MinSourceAmount(priced)) \in Nat
         /\ MinSourceAmount(priced) > 0 => DustLimit(MinSourceAmount(priced)) >= 1
         /\ MinSourceAmount(priced) = 0 => DustLimit(MinSourceAmount(priced)) = 0
         /\ ~priced => MinSourceAmount(priced) = 0
<1>1. /\ RateNum \in Nat \ {0} /\ RateDen \in Nat \ {0} /\ MarginDen \in Nat \ {0}
  BY StreamAssumption
<1>2. RateDen * MarginDen \in Nat /\ a * RateNum \in Nat
  BY <1>1
<1>3. MinSourceAmount(priced) \in Nat /\ Convert(a, priced) \in Nat
  BY <1>1, <1>2, CeilType DEF MinSourceAmount, Convert, ToU64
<1>4. ASSUME NEW x \in Nat, NEW b \in Nat \ {0}, x >= 1 PROVE CeilDiv(x, b) >= 1
  <2>1. PICK q \in Nat, r \in 0..(b - 1) : x + b - 1 = b * q + r /\ q = (x + b - 1) \div b
    <3>1. x + b - 1 \in Nat
      OBVIOUS
    <3> QED BY <3>1, DivNat
  <2>2. q # 0
    <3> SUFFICES ASSUME q = 0 PROVE FALSE
      OBVIOUS
    <3>1. b * q = 0
      OBVIOUS
    <3> QED BY <1>4, <2>1, <3>1
  <2> QED BY <2>1, <2>2 DEF CeilDiv
<1>5. DustLimit(MinSourceAmount(priced)) \in Nat
  BY <1>3, CeilType DEF DustLimit
<1>6. ASSUME NEW m \in Nat, m >= 1 PROVE DustLimit(m) >= 1
  BY <1>4, <1>6 DEF DustLimit
<1>7. DustLimit(0) = 0
  BY DEF DustLimit, CeilDiv
<1>8. ~priced => MinSourceAmount(priced) = 0
  BY DEF MinSourceAmount
<1> QED BY <1>3, <1>5, <1>6, <1>7, <1>8

\* A packet's amount is at most what is left to send, and at most what the
\* window allows or the least amount is, with the dust added.
LEMMA PacketAmountLemma ==
  ASSUME NEW window \in Nat \ {0}, NEW available \in Nat, NEW m \in Nat,
         NEW max_packet \in Nat \cup {Unlimited}, DustLimit(m) \in Nat
  PROVE  /\ PacketAmount(window, available, m, max_packet) \in Nat
         /\ PacketAmount(window, available, m, max_packet) <= available
         /\ DustLimit(m) = 0 =>
              PacketAmount(window, available, m, max_packet) <= Greater(window, m)
         /\ DustLimit(m) # 0 =>
              PacketAmount(window, available, m, max_packet)
                <= Greater(window, m) + DustLimit(m) - 1
<1> DEFINE floored == Greater(window, m)
           n == available \div floored
           rest == available % floored
           spread == IF n > 0 /\ rest < DustLimit(m) THEN CeilDiv(available, n) ELSE floored
           limited == IF max_packet = Unlimited THEN spread ELSE Lesser(spread, max_packet)
<1>1. PacketAmount(window, available, m, max_packet) = Lesser(limited, available)
  BY DEF PacketAmount
<1>2. floored \in Nat \ {0}
  BY DEF Greater
<1> HIDE DEF floored
<1>3. n \in Nat /\ rest \in Nat /\ available = floored * n + rest
  BY <1>2, DivNat
<1> HIDE DEF n, rest
<1>4. ASSUME n > 0, rest < DustLimit(m)
      PROVE  /\ CeilDiv(available, n) \in Nat
             /\ CeilDiv(available, n) <= floored + DustLimit(m) - 1
  <2>1. CeilDiv(available, n) \in Nat
    BY <1>3, <1>4, CeilType
  <2>2. available + n - 1 \in Nat /\ floored + rest \in Nat
    BY <1>2, <1>3, <1>4
  <2>3. available + n - 1 < n * (floored + rest + 1)
    <3>1. n * (floored + rest + 1) = floored * n + n * rest + n
      BY <1>2, <1>3
    <3>2. n * rest >= rest
      BY <1>3, <1>4
    <3>3. floored * n \in Int /\ n * rest \in Int
      BY <1>2, <1>3
    <3> QED BY <1>3, <3>1, <3>2, <3>3
  <2>4. CeilDiv(available, n) <= floored + rest
    BY <1>3, <1>4, <2>2, <2>3, DivAtMost DEF CeilDiv
  <2> QED BY <1>2, <1>3, <1>4, <2>1, <2>4
<1>5. /\ spread \in Nat
      /\ DustLimit(m) = 0 => spread <= floored
      /\ DustLimit(m) # 0 => spread <= floored + DustLimit(m) - 1
  BY <1>2, <1>3, <1>4
<1> HIDE DEF spread
<1>6. limited \in Nat /\ limited <= spread
  <2>1. CASE max_packet = Unlimited
    BY <1>5, <2>1
  <2>2. CASE max_packet # Unlimited
    <3>1. max_packet \in Nat /\ limited = Lesser(spread, max_packet)
      BY <2>2
    <3> QED BY <1>5, <3>1 DEF Lesser
  <2> QED BY <2>1, <2>2
<1> HIDE DEF limited
<1>7. Lesser(limited, available) \in Nat /\ Lesser(limited, available) <= available
      /\ Lesser(limited, available) <= spread
  BY <1>5, <1>6 DEF Lesser
<1> QED BY <1>1, <1>2, <1>5, <1>7 DEF floored

-----------------------------------------------------------------------------
(* The books *)

\* The invariant that keeps the books: the sums need the bag, and the types of
\* the receipt's 64-bit fields need the books.
Core == TypeOK /\ BagOK /\ BooksAgree

\* The numbers the books are about.
LEMMA CoreNumbers ==
  ASSUME Core
  PROVE  /\ InFlight \in Nat /\ Claims \in Nat
         /\ receipt.in_flight_amount = InFlight
         /\ congestion.amount_in_flight = InFlight
         /\ receipt.sent_amount = spent + InFlight
         /\ receipt.sent_amount \in Nat /\ receipt.sent_amount <= source_amount
         /\ receipt.delivered_amount \in 0..U64Max
         /\ spent \in Nat /\ received \in Nat
         /\ source_amount \in Nat /\ U64Max \in Nat /\ source_amount <= U64Max
         /\ congestion.max_in_flight \in Nat /\ congestion.max_in_flight <= U64Max
         /\ congestion.max_packet_amount \in Nat \cup {Unlimited}
<1>1. InFlight \in Nat /\ Claims \in Nat
  BY SumsType DEF Core, SumsOK
<1>2. source_amount \in Nat /\ U64Max \in Nat /\ source_amount <= U64Max
  BY StreamAssumption
<1> QED BY <1>1, <1>2 DEF Core, BooksAgree, TypeOK

\* A task of the bag that has not ended.
LEMMA TaskOfBag ==
  ASSUME Core, NEW t \in DOMAIN tasks, t.stage # "done"
  PROVE  t \in Task /\ t.amount \in Nat /\ t.min \in Nat /\ t.claimed \in Nat
         /\ t.asks \in BOOLEAN /\ AmountOf[t] = t.amount
BY DEF Core, BagOK, Task, Result, AmountOf

\* A new packet is booked in both places.
LEMMA SendCore ==
  ASSUME Core, SendMoney
  PROVE  /\ Core'
         /\ \E u \in Task : u.stage = "spawned" /\ DOMAIN tasks' = DOMAIN tasks \cup {u}
         /\ Claims' = Claims
         /\ receipt'.delivered_amount = receipt.delivered_amount
         /\ congestion'.max_in_flight = congestion.max_in_flight
         /\ congestion'.amount_in_flight <= congestion.max_in_flight + Overshoot
         /\ status = "running"
         /\ UNCHANGED <<should_send_source_account, rate_known, status, spent, received>>
<1>1. PICK priced \in {rate_known} \cup (IF RatesMayFail THEN {FALSE} ELSE {}) :
        LET amount == PacketAmount(AmountLeftInWindow, AmountAvailable,
                        MinSourceAmount(priced), congestion.max_packet_amount)
        IN /\ MayContinue /\ ~IsComplete /\ ~IsMaxInFlight
           /\ spawned < MaxPackets
           /\ congestion' = [congestion EXCEPT !.amount_in_flight = @ + amount]
           /\ receipt' = [receipt EXCEPT !.sent_amount = @ + amount,
                                         !.in_flight_amount = @ + amount]
           /\ tasks' = BagAdd(tasks, [stage |-> "spawned", amount |-> amount,
                                      min |-> Convert(amount, priced),
                                      asks |-> FALSE, claimed |-> 0])
           /\ spawned' = spawned + 1
           /\ UNCHANGED <<counts, should_send_source_account, rate_known, expired,
                          status, spent, received>>
  BY Zenon DEF SendMoney
<1> DEFINE n == PacketAmount(AmountLeftInWindow, AmountAvailable,
                  MinSourceAmount(priced), congestion.max_packet_amount)
           u == [stage |-> "spawned", amount |-> n, min |-> Convert(n, priced),
                 asks |-> FALSE, claimed |-> 0]
<1>2. priced \in BOOLEAN
  BY DEF Core, TypeOK
<1>3. /\ AmountLeftInWindow \in Nat \ {0}
      /\ AmountAvailable \in Nat
      /\ AmountAvailable = source_amount - receipt.sent_amount
  BY <1>1, CoreNumbers
     DEF IsMaxInFlight, AmountLeftInWindow, AmountAvailable, MonusSat, Greater
<1>4. n \in Nat /\ n <= AmountAvailable
  <2>1. MinSourceAmount(priced) \in Nat /\ DustLimit(MinSourceAmount(priced)) \in Nat
    BY <1>2, PriceType
  <2> QED BY <1>3, <2>1, CoreNumbers, PacketAmountLemma
<1>5. /\ congestion' = [congestion EXCEPT !.amount_in_flight = @ + n]
      /\ receipt' = [receipt EXCEPT !.sent_amount = @ + n, !.in_flight_amount = @ + n]
      /\ tasks' = BagAdd(tasks, u) /\ spawned' = spawned + 1 /\ spawned < MaxPackets
      /\ UNCHANGED <<counts, should_send_source_account, rate_known, expired,
                     status, spent, received>>
  BY <1>1
<1>6. congestion.amount_in_flight + n <= congestion.max_in_flight + Overshoot
  <2> DEFINE m == MinSourceAmount(priced)
             d == DustLimit(m)
             c == congestion.amount_in_flight
             max == congestion.max_in_flight
  <2>1. m \in Nat /\ d \in Nat /\ (m > 0 => d >= 1) /\ (m = 0 => d = 0)
    BY <1>2, PriceType
  <2>2. m > 0 => rate_known = priced
    <3>1. rate_known \in BOOLEAN /\ (~priced => m = 0) /\ (priced => rate_known)
      BY <1>1, <1>2, PriceType DEF Core, TypeOK
    <3> QED BY <1>2, <2>1, <3>1
  <2>3. Overshoot \in Nat
    <3> DEFINE least == MinSourceAmount(rate_known)
    <3>1. /\ least \in Nat /\ DustLimit(least) \in Nat
          /\ least > 0 => DustLimit(least) >= 1
      BY PriceType DEF Core, TypeOK
    <3>2. Overshoot = IF least > 0 THEN least + DustLimit(least) - 2 ELSE 0
      BY DEF Overshoot
    <3> HIDE DEF least
    <3> QED BY <3>1, <3>2
  <2>4. /\ n \in Nat
        /\ d = 0 => n <= Greater(AmountLeftInWindow, m)
        /\ d # 0 => n <= Greater(AmountLeftInWindow, m) + d - 1
    BY <1>3, <2>1, CoreNumbers, PacketAmountLemma
  <2>5. m > 0 => Overshoot = m + d - 2
    BY <2>2 DEF Overshoot
  <2>6. c \in Nat /\ max \in Nat /\ AmountLeftInWindow = max - c /\ max - c >= 1
    BY <1>3, CoreNumbers DEF AmountLeftInWindow, MonusSat, Greater
  <2> HIDE DEF n, c, max
  <2>7. CASE m > 0
    <3> HIDE DEF m, d
    <3>1. n <= Greater(max - c, m) + d - 1 /\ m >= 1 /\ d >= 1 /\ Overshoot = m + d - 2
      BY <2>1, <2>4, <2>5, <2>6, <2>7
    <3>2. c + n <= max + Overshoot
      BY <2>1, <2>4, <2>6, <3>1 DEF Greater
    <3> QED BY <3>2 DEF c, max
  <2>8. CASE m = 0
    <3> HIDE DEF m, d
    <3>1. n <= Greater(max - c, 0) /\ Overshoot \in Nat
      BY <2>1, <2>3, <2>4, <2>6, <2>8
    <3>2. c + n <= max + Overshoot
      BY <2>4, <2>6, <3>1 DEF Greater
    <3> QED BY <3>2 DEF c, max
  <2>9. m > 0 \/ m = 0
    BY <2>1
  <2> QED BY <2>7, <2>8, <2>9
<1>7. status = "running"
  BY <1>1 DEF MayContinue
<1> HIDE DEF n
<1>8. u \in Task /\ u.stage = "spawned" /\ u.amount = n
  BY <1>2, <1>4, PriceType DEF Task
<1> HIDE DEF u
<1>9. /\ BagOK' /\ DOMAIN tasks' = DOMAIN tasks \cup {u}
      /\ InFlight' = InFlight + n /\ Claims' = Claims
  BY <1>5, <1>8, SpawnSums DEF Core
<1>10. /\ receipt'.sent_amount = receipt.sent_amount + n
      /\ receipt'.in_flight_amount = receipt.in_flight_amount + n
      /\ receipt'.delivered_amount = receipt.delivered_amount
      /\ congestion'.amount_in_flight = congestion.amount_in_flight + n
      /\ congestion'.max_in_flight = congestion.max_in_flight
  BY <1>5 DEF Core, TypeOK
<1>11. BooksAgree'
  <2>1. spent' = spent
    BY <1>5
  <2> QED BY <1>3, <1>4, <1>9, <1>10, <2>1, CoreNumbers DEF BooksAgree
<1>12. TypeOK'
  <2>1. /\ receipt' \in [sent_amount : 0..U64Max, in_flight_amount : 0..U64Max,
                         delivered_amount : 0..U64Max]
    <3>1. /\ receipt'.sent_amount \in 0..U64Max /\ receipt'.in_flight_amount \in 0..U64Max
          /\ receipt'.delivered_amount \in 0..U64Max
      BY <1>3, <1>4, <1>10, CoreNumbers
    <3>2. /\ DOMAIN receipt' = DOMAIN receipt /\ receipt' = [f \in DOMAIN receipt |-> receipt'[f]]
          /\ DOMAIN receipt = {"sent_amount", "in_flight_amount", "delivered_amount"}
      BY <1>5 DEF Core, TypeOK
    <3> QED BY <1>4, <1>5, <3>1, CoreNumbers DEF Core, TypeOK
  <2>2. congestion' \in [state : {"SlowStart", "AvoidCongestion"},
                         max_packet_amount : Nat \cup {Unlimited},
                         amount_in_flight : Nat, max_in_flight : 0..U64Max]
    BY <1>4, <1>5 DEF Core, TypeOK
  <2>3. spawned' \in 0..MaxPackets
    BY <1>5, StreamAssumption DEF Core, TypeOK
  <2>4. BagToSet(tasks') \subseteq Task \cup Result
    BY <1>9 DEF BagOK, BagToSet
  <2> QED BY <1>5, <2>1, <2>2, <2>3, <2>4 DEF Core, TypeOK
<1> QED BY <1>5, <1>8, <1>9, <1>10, <1>11, <1>12, <1>6, <1>7 DEF Core

\* What a task that ended with a refusal leaves behind.
Refused(t) ==
  /\ \E u \in Result : u \in DOMAIN tasks' /\ DOMAIN tasks' \subseteq DOMAIN tasks \cup {u}
  /\ InFlight' = InFlight - t.amount /\ Claims' = Claims
  /\ receipt'.delivered_amount = receipt.delivered_amount
  /\ congestion'.max_in_flight = congestion.max_in_flight \/ congestion'.max_in_flight >= 1
  /\ UNCHANGED <<status, spent, received>>

\* The controller after a refusal: the packet is not in flight any more, and
\* the window stays open.
LEMMA RejectWindow ==
  ASSUME Core, NEW n \in Nat, n <= congestion.amount_in_flight, NEW code,
         NEW max_packet \in Nat \cup {Unlimited}
  PROVE  LET c == Reject(congestion, n, code, max_packet) IN
         /\ c \in [state : {"SlowStart", "AvoidCongestion"},
                   max_packet_amount : Nat \cup {Unlimited},
                   amount_in_flight : Nat, max_in_flight : 0..U64Max]
         /\ c.amount_in_flight = congestion.amount_in_flight - n
         /\ c.max_in_flight = congestion.max_in_flight \/ c.max_in_flight >= 1
<1> DEFINE S == {"SlowStart", "AvoidCongestion"}
           C == [state : S, max_packet_amount : Nat \cup {Unlimited},
                 amount_in_flight : Nat, max_in_flight : 0..U64Max]
           left == [congestion EXCEPT !.amount_in_flight = @ - n]
           old == congestion.max_packet_amount
           c == Reject(congestion, n, code, max_packet)
<1>1. congestion \in C
  BY DEF Core, TypeOK
<1>2. congestion.amount_in_flight - n \in Nat
  BY <1>1
<1>3. /\ left \in C /\ left.amount_in_flight = congestion.amount_in_flight - n
      /\ left.max_in_flight = congestion.max_in_flight
      /\ left.max_packet_amount = old
  BY <1>1, <1>2
<1>4. c = CASE code = "T04" ->
                 [left EXCEPT !.state = "AvoidCongestion",
                              !.max_in_flight = Greater(@ \div 2, 1)]
            [] code = "F08" /\ max_packet # Unlimited ->
                 [left EXCEPT !.max_packet_amount =
                    IF old = Unlimited THEN max_packet ELSE Lesser(old, max_packet)]
            [] code = "F08" /\ max_packet = Unlimited /\ old # Unlimited ->
                 [left EXCEPT !.max_packet_amount = @ \div 2]
            [] OTHER -> left
  BY DEF Reject
<1> HIDE DEF left, c
<1>5. CASE code = "T04"
  <2> DEFINE w == Greater(left.max_in_flight \div 2, 1)
  <2>1. c = [left EXCEPT !.state = "AvoidCongestion", !.max_in_flight = w]
    BY <1>4, <1>5
  <2>2. left.max_in_flight \in Nat /\ left.max_in_flight <= U64Max /\ U64Max \in Nat \ {0}
    BY <1>3, StreamAssumption
  <2>3. left.max_in_flight \div 2 \in Nat /\ left.max_in_flight \div 2 <= left.max_in_flight
    <3>1. 2 \in Nat \ {0}
      OBVIOUS
    <3> HIDE DEF C
    <3> QED BY ONLY <2>2, <3>1, DivNat
  <2>4. w \in 0..U64Max /\ w >= 1
    BY <2>2, <2>3 DEF Greater
  <2> HIDE DEF w
  <2> QED BY <1>3, <2>1, <2>4 DEF c
<1>6. CASE code = "F08" /\ max_packet # Unlimited
  <2> DEFINE m == IF old = Unlimited THEN max_packet ELSE Lesser(old, max_packet)
  <2>1. c = [left EXCEPT !.max_packet_amount = m]
    BY <1>4, <1>6
  <2>2. m \in Nat \cup {Unlimited}
    BY <1>1, <1>6 DEF Lesser
  <2> HIDE DEF m
  <2> QED BY <1>3, <2>1, <2>2 DEF c
<1>7. CASE code = "F08" /\ max_packet = Unlimited /\ old # Unlimited
  <2> DEFINE m == left.max_packet_amount \div 2
  <2>1. c = [left EXCEPT !.max_packet_amount = m]
    BY <1>4, <1>7
  <2>2. left.max_packet_amount \in Nat
    BY <1>3, <1>7
  <2>3. m \in Nat
    BY <2>2, DivNat
  <2> HIDE DEF m
  <2> QED BY <1>3, <2>1, <2>3 DEF c
<1>8. CASE ~(code = "T04") /\ ~(code = "F08" /\ max_packet # Unlimited)
           /\ ~(code = "F08" /\ max_packet = Unlimited /\ old # Unlimited)
  <2>1. c = left
    BY <1>4, <1>8
  <2> QED BY <1>3, <2>1 DEF c
<1> QED BY <1>5, <1>6, <1>7, <1>8

\* A refused packet is taken out of both books.
LEMMA RejectCore ==
  ASSUME Core, NEW t \in DOMAIN tasks, t.stage = "sent", NEW code,
         NEW max_packet \in Nat \cup {Unlimited}, NEW readable \in BOOLEAN,
         ApplyReject(t, code, max_packet, readable)
  PROVE  Core' /\ Refused(t)
<1> DEFINE u == [stage |-> "done", error |-> code = "F02"]
<1>1. /\ t.amount \in Nat /\ t.asks \in BOOLEAN
      /\ AmountOf[t] = t.amount /\ ClaimOf[t] = 0
  BY TaskOfBag DEF Core, BagOK, ClaimOf
<1>2. u \in Result /\ AmountOf[u] = 0 /\ ClaimOf[u] = 0
  BY DEF Result, AmountOf, ClaimOf
<1>3. /\ congestion' = Reject(congestion, t.amount, code, max_packet)
      /\ receipt' = [receipt EXCEPT !.sent_amount = MonusSat(@, t.amount),
                                    !.in_flight_amount = MonusSat(@, t.amount)]
      /\ counts' = [counts EXCEPT !.rejected = @ + 1,
                          !.fail_fast = IF code \in {"T00", "F99"} THEN @ + 1 ELSE @]
      /\ ReadReply(t, readable) /\ Becomes(t, u)
      /\ UNCHANGED <<expired, status, spawned, spent, received>>
  BY DEF ApplyReject
<1> HIDE DEF u
<1>4. /\ BagOK' /\ u \in DOMAIN tasks' /\ DOMAIN tasks' \subseteq DOMAIN tasks \cup {u}
      /\ t.amount <= InFlight /\ InFlight' = InFlight - t.amount /\ Claims' = Claims
  <2>1. /\ BagOK' /\ u \in DOMAIN tasks' /\ DOMAIN tasks' \subseteq DOMAIN tasks \cup {u}
        /\ AmountOf[t] <= InFlight /\ InFlight' = InFlight - AmountOf[t] + AmountOf[u]
        /\ ClaimOf[t] <= Claims /\ Claims' = Claims - ClaimOf[t] + ClaimOf[u]
    BY <1>2, <1>3, BecomesSums DEF Core
  <2> QED BY <1>1, <1>2, <2>1, CoreNumbers
<1>5. /\ congestion' \in [state : {"SlowStart", "AvoidCongestion"},
                          max_packet_amount : Nat \cup {Unlimited},
                          amount_in_flight : Nat, max_in_flight : 0..U64Max]
      /\ congestion'.amount_in_flight = congestion.amount_in_flight - t.amount
      /\ congestion'.max_in_flight = congestion.max_in_flight
         \/ congestion'.max_in_flight >= 1
  BY <1>1, <1>3, <1>4, CoreNumbers, RejectWindow
<1>6. /\ MonusSat(receipt.sent_amount, t.amount) = receipt.sent_amount - t.amount
      /\ MonusSat(receipt.in_flight_amount, t.amount) = receipt.in_flight_amount - t.amount
      /\ receipt.sent_amount - t.amount \in 0..U64Max
      /\ receipt.in_flight_amount - t.amount \in 0..U64Max
  BY <1>1, <1>4, CoreNumbers DEF MonusSat, Greater
<1>7. /\ receipt' \in [sent_amount : 0..U64Max, in_flight_amount : 0..U64Max,
                       delivered_amount : 0..U64Max]
      /\ receipt'.sent_amount = receipt.sent_amount - t.amount
      /\ receipt'.in_flight_amount = receipt.in_flight_amount - t.amount
      /\ receipt'.delivered_amount = receipt.delivered_amount
  <2>1. receipt' = [receipt EXCEPT !.sent_amount = receipt.sent_amount - t.amount,
                                   !.in_flight_amount = receipt.in_flight_amount - t.amount]
    BY <1>3, <1>6
  <2> QED BY <1>6, <2>1 DEF Core, TypeOK
<1>8. BooksAgree'
  <2>1. spent' = spent
    BY <1>3
  <2> QED BY <1>1, <1>4, <1>5, <1>7, <2>1, CoreNumbers DEF BooksAgree
<1>9. counts' \in [fulfilled : Nat, rejected : Nat, fail_fast : Nat]
  <2> DEFINE f == IF code \in {"T00", "F99"} THEN counts.fail_fast + 1 ELSE counts.fail_fast
  <2>1. counts' = [counts EXCEPT !.rejected = counts.rejected + 1, !.fail_fast = f]
    BY <1>3 DEF Core, TypeOK
  <2>2. f \in Nat
    BY DEF Core, TypeOK
  <2>3. /\ counts \in [fulfilled : Nat, rejected : Nat, fail_fast : Nat]
        /\ counts.rejected + 1 \in Nat
    BY DEF Core, TypeOK
  <2> HIDE DEF f
  <2> QED BY ONLY <2>1, <2>2, <2>3
<1>10. should_send_source_account' \in BOOLEAN /\ rate_known' \in BOOLEAN
  BY <1>1, <1>3 DEF ReadReply, Core, TypeOK
<1>11. BagToSet(tasks') \subseteq Task \cup Result
  BY <1>4 DEF BagOK, BagToSet
<1>12. TypeOK'
  BY <1>3, <1>5, <1>7, <1>9, <1>10, <1>11 DEF Core, TypeOK
<1>13. Refused(t)
  BY <1>2, <1>3, <1>4, <1>5, <1>7 DEF Refused
<1> QED BY <1>4, <1>8, <1>12, <1>13 DEF Core

\* A task sends its packet: nothing changes but the task.
LEMMA SentCore ==
  ASSUME Core, NEW t \in DOMAIN tasks, SendPacket(t)
  PROVE  /\ Core' /\ Claims' = Claims
         /\ \E u \in Task : /\ u.stage = "sent" /\ u.asks = should_send_source_account
                            /\ u \in DOMAIN tasks' /\ DOMAIN tasks' \subseteq DOMAIN tasks \cup {u}
<1> DEFINE u == [t EXCEPT !.stage = "sent", !.asks = should_send_source_account]
<1>1. /\ t \in Task /\ t.stage = "spawned" /\ t.amount \in Nat
      /\ AmountOf[t] = t.amount /\ ClaimOf[t] = 0
  BY TaskOfBag DEF SendPacket, Core, BagOK, ClaimOf
<1>2. /\ u \in Task /\ u.stage = "sent" /\ u.amount = t.amount
      /\ u.asks = should_send_source_account
  BY <1>1 DEF Task, Core, TypeOK
<1>3. /\ Becomes(t, u)
      /\ UNCHANGED <<receipt, congestion, counts, should_send_source_account,
                     rate_known, expired, status, spawned, spent, received>>
  BY DEF SendPacket
<1> HIDE DEF u
<1>4. AmountOf[u] = t.amount /\ ClaimOf[u] = 0
  BY <1>2 DEF AmountOf, ClaimOf
<1>5. /\ BagOK' /\ u \in DOMAIN tasks' /\ DOMAIN tasks' \subseteq DOMAIN tasks \cup {u}
      /\ InFlight' = InFlight /\ Claims' = Claims
  <2>1. /\ BagOK' /\ u \in DOMAIN tasks' /\ DOMAIN tasks' \subseteq DOMAIN tasks \cup {u}
        /\ InFlight' = InFlight - AmountOf[t] + AmountOf[u]
        /\ Claims' = Claims - ClaimOf[t] + ClaimOf[u]
    BY <1>2, <1>3, BecomesSums DEF Core
  <2> QED BY <1>1, <1>4, <2>1, CoreNumbers
<1>6. BooksAgree'
  BY <1>3, <1>5 DEF Core, BooksAgree
<1>7. BagToSet(tasks') \subseteq Task \cup Result
  BY <1>5 DEF BagOK, BagToSet
<1>8. TypeOK'
  BY <1>3, <1>7 DEF Core, TypeOK
<1> QED BY <1>2, <1>5, <1>6, <1>8 DEF Core

\* The recipient collects a packet: it is claimed, and the sender's books do
\* not know it yet.
LEMMA ReceiveCore ==
  ASSUME Core, NEW t \in DOMAIN tasks, NEW rate \in PathRates, Receive(t, rate)
  PROVE  /\ Core'
         /\ \E u \in Task : /\ u.stage = "fulfilled" /\ u.asks = t.asks /\ u.min <= u.claimed
                            /\ u \in DOMAIN tasks' /\ DOMAIN tasks' \subseteq DOMAIN tasks \cup {u}
                            /\ Claims' = Claims + u.claimed
                            /\ received' = received + u.claimed
<1> DEFINE n == (t.amount * rate[1]) \div rate[2]
           u == [t EXCEPT !.stage = "fulfilled", !.claimed = n]
<1>1. /\ t \in Task /\ t.stage = "sent" /\ t.amount \in Nat /\ t.min \in Nat
      /\ AmountOf[t] = t.amount /\ ClaimOf[t] = 0
  BY TaskOfBag DEF Receive, Core, BagOK, ClaimOf
<1>2. n \in Nat
  <2>1. rate[1] \in Nat /\ rate[2] \in Nat \ {0}
    BY StreamAssumption
  <2>2. t.amount * rate[1] \in Nat
    BY <1>1, <2>1
  <2> QED BY <2>1, <2>2, DivNat
<1>3. /\ Acceptable(t, n) /\ Becomes(t, u) /\ received' = received + n
      /\ UNCHANGED <<receipt, congestion, counts, should_send_source_account,
                     rate_known, expired, status, spawned, spent>>
  BY DEF Receive
<1> HIDE DEF n
<1>4. /\ u \in Task /\ u.stage = "fulfilled" /\ u.amount = t.amount
      /\ u.asks = t.asks /\ u.claimed = n /\ u.min = t.min
  BY <1>1, <1>2 DEF Task
<1> HIDE DEF u
<1>5. u.min <= u.claimed
  BY <1>1, <1>2, <1>3, <1>4 DEF Acceptable
<1>6. AmountOf[u] = t.amount /\ ClaimOf[u] = n
  BY <1>4 DEF AmountOf, ClaimOf
<1>7. /\ BagOK' /\ u \in DOMAIN tasks' /\ DOMAIN tasks' \subseteq DOMAIN tasks \cup {u}
      /\ InFlight' = InFlight /\ Claims' = Claims + n
  <2>1. /\ BagOK' /\ u \in DOMAIN tasks' /\ DOMAIN tasks' \subseteq DOMAIN tasks \cup {u}
        /\ InFlight' = InFlight - AmountOf[t] + AmountOf[u]
        /\ Claims' = Claims - ClaimOf[t] + ClaimOf[u]
    BY <1>3, <1>4, BecomesSums DEF Core
  <2> QED BY <1>1, <1>2, <1>6, <2>1, CoreNumbers
<1>8. BooksAgree'
  BY <1>3, <1>7 DEF Core, BooksAgree
<1>9. BagToSet(tasks') \subseteq Task \cup Result
  BY <1>7 DEF BagOK, BagToSet
<1>10. received' \in Nat
  BY <1>2, <1>3, CoreNumbers
<1>11. TypeOK'
  BY <1>3, <1>9, <1>10 DEF Core, TypeOK
<1> QED BY <1>3, <1>4, <1>5, <1>7, <1>8, <1>11 DEF Core

\* A fulfilled packet has been spent, and its claim has reached the receipt.
LEMMA FulfillCore ==
  ASSUME Core, NEW t \in DOMAIN tasks, NEW readable \in BOOLEAN, ApplyFulfill(t, readable)
  PROVE  /\ Core'
         /\ \E u \in Result : u \in DOMAIN tasks' /\ DOMAIN tasks' \subseteq DOMAIN tasks \cup {u}
         /\ InFlight' = InFlight - t.amount /\ t.amount <= InFlight
         /\ Claims' = Claims - t.claimed /\ t.claimed <= Claims
         /\ receipt'.delivered_amount <= receipt.delivered_amount + t.min
            \/ receipt'.delivered_amount <= receipt.delivered_amount + t.claimed
         /\ congestion'.max_in_flight >= congestion.max_in_flight
         /\ spent' = spent + t.amount /\ UNCHANGED <<status, received>>
<1> DEFINE u == [stage |-> "done", error |-> FALSE]
           grown == IF congestion.state = "SlowStart" THEN 2 * congestion.max_in_flight
                    ELSE congestion.max_in_flight + source_amount \div IncreaseDivisor
           window == Lesser(grown, U64Max)
           claim == Greater(t.min, IF readable THEN t.claimed ELSE 0)
           delivered == Lesser(receipt.delivered_amount + claim, U64Max)
           left == congestion.amount_in_flight - t.amount
           pending == MonusSat(receipt.in_flight_amount, t.amount)
<1>1. /\ t \in Task /\ t.stage = "fulfilled" /\ t.amount \in Nat /\ t.min \in Nat
      /\ t.claimed \in Nat /\ t.asks \in BOOLEAN
      /\ AmountOf[t] = t.amount /\ ClaimOf[t] = t.claimed
  BY TaskOfBag DEF ApplyFulfill, Core, BagOK, ClaimOf
<1>2. u \in Result /\ AmountOf[u] = 0 /\ ClaimOf[u] = 0
  BY DEF Result, AmountOf, ClaimOf
<1>3. /\ congestion' = [congestion EXCEPT !.amount_in_flight = left, !.max_in_flight = window]
      /\ receipt' = [receipt EXCEPT !.in_flight_amount = pending,
                                    !.delivered_amount = delivered]
      /\ counts' = [counts EXCEPT !.fulfilled = @ + 1]
      /\ ReadReply(t, readable) /\ expired' = FALSE
      /\ spent' = spent + t.amount /\ Becomes(t, u)
      /\ UNCHANGED <<status, spawned, received>>
  BY DEF ApplyFulfill, Fulfill
<1>4. /\ BagOK' /\ u \in DOMAIN tasks' /\ DOMAIN tasks' \subseteq DOMAIN tasks \cup {u}
      /\ t.amount <= InFlight /\ InFlight' = InFlight - t.amount
      /\ t.claimed <= Claims /\ Claims' = Claims - t.claimed
  <2> HIDE DEF u, grown, window, claim, delivered, left, pending
  <2>1. /\ BagOK' /\ u \in DOMAIN tasks' /\ DOMAIN tasks' \subseteq DOMAIN tasks \cup {u}
        /\ AmountOf[t] <= InFlight /\ InFlight' = InFlight - AmountOf[t] + AmountOf[u]
        /\ ClaimOf[t] <= Claims /\ Claims' = Claims - ClaimOf[t] + ClaimOf[u]
    BY <1>2, <1>3, BecomesSums DEF Core
  <2> QED BY <1>1, <1>2, <2>1, CoreNumbers
<1>5. left = InFlight' /\ pending = InFlight' /\ InFlight' \in Nat /\ InFlight' <= U64Max
  <2> HIDE DEF u, grown, window, claim, delivered
  <2> QED BY <1>1, <1>4, CoreNumbers DEF MonusSat, Greater
<1>6. window \in 0..U64Max /\ window >= congestion.max_in_flight
  <2>1. /\ congestion.max_in_flight \in Nat /\ congestion.max_in_flight <= U64Max
        /\ U64Max \in Nat
    BY CoreNumbers
  <2>2. source_amount \div IncreaseDivisor \in Nat
    <3>1. source_amount \in Nat /\ IncreaseDivisor \in Nat \ {0}
      BY StreamAssumption
    <3> QED BY ONLY <3>1, DivNat
  <2>3. grown \in Nat /\ grown >= congestion.max_in_flight
    BY <2>1, <2>2
  <2> HIDE DEF u, grown, claim, delivered, left, pending
  <2> QED BY <2>1, <2>3 DEF Lesser
<1>7. claim \in Nat /\ (claim = t.min \/ claim = t.claimed)
  <2> HIDE DEF u, grown, window, delivered, left, pending
  <2> QED BY <1>1 DEF Greater
<1> HIDE DEF u, grown, window, claim, left, pending
<1>8. delivered \in 0..U64Max /\ delivered <= receipt.delivered_amount + claim
  BY <1>7, CoreNumbers DEF Lesser
<1> HIDE DEF delivered
<1>9. /\ receipt' \in [sent_amount : 0..U64Max, in_flight_amount : 0..U64Max,
                       delivered_amount : 0..U64Max]
      /\ receipt'.sent_amount = receipt.sent_amount
      /\ receipt'.in_flight_amount = InFlight'
      /\ receipt'.delivered_amount = delivered
  <2>1. receipt' = [receipt EXCEPT !.in_flight_amount = pending,
                                   !.delivered_amount = delivered]
    BY <1>3
  <2>2. /\ receipt \in [sent_amount : 0..U64Max, in_flight_amount : 0..U64Max,
                        delivered_amount : 0..U64Max]
        /\ pending \in 0..U64Max /\ U64Max \in Nat
    BY <1>5, StreamAssumption DEF Core, TypeOK
  <2> QED BY ONLY <1>5, <1>8, <2>1, <2>2
<1>10. /\ congestion' \in [state : {"SlowStart", "AvoidCongestion"},
                           max_packet_amount : Nat \cup {Unlimited},
                           amount_in_flight : Nat, max_in_flight : 0..U64Max]
       /\ congestion'.amount_in_flight = InFlight'
       /\ congestion'.max_in_flight = window
  BY <1>3, <1>5, <1>6 DEF Core, TypeOK
<1>11. BooksAgree'
  <2>1. spent' = spent + t.amount
    BY <1>3
  <2> QED BY <1>1, <1>4, <1>9, <1>10, <2>1, CoreNumbers DEF BooksAgree
<1>12. counts' \in [fulfilled : Nat, rejected : Nat, fail_fast : Nat]
  BY <1>3 DEF Core, TypeOK
<1>13. should_send_source_account' \in BOOLEAN /\ rate_known' \in BOOLEAN
  BY <1>1, <1>3 DEF ReadReply, Core, TypeOK
<1>14. BagToSet(tasks') \subseteq Task \cup Result
  BY <1>4 DEF BagOK, BagToSet
<1>15. spent' \in Nat /\ expired' \in BOOLEAN
  <2>1. spent' \in Nat
    BY <1>1, <1>3, CoreNumbers
  <2>2. expired' \in BOOLEAN
    BY <1>3
  <2> QED BY <2>1, <2>2
<1>16. TypeOK'
  BY <1>3, <1>9, <1>10, <1>12, <1>13, <1>14, <1>15 DEF Core, TypeOK
<1>17. Core'
  BY <1>4, <1>11, <1>16 DEF Core
<1>18. receipt'.delivered_amount <= receipt.delivered_amount + t.min
       \/ receipt'.delivered_amount <= receipt.delivered_amount + t.claimed
  BY <1>7, <1>8, <1>9
<1> QED BY <1>2, <1>3, <1>4, <1>6, <1>10, <1>17, <1>18

\* The loop reads a result.
LEMMA ResultCore ==
  ASSUME Core, NEW t \in DOMAIN tasks, NextResult(t)
  PROVE  Core' /\ DOMAIN tasks' \subseteq DOMAIN tasks /\ Claims' = Claims
         /\ status' \in {"error", "running"}
<1>1. /\ t.stage = "done" /\ tasks' = BagRemove(tasks, t)
      /\ status' \in {"error", "running"}
      /\ UNCHANGED <<receipt, congestion, counts, should_send_source_account,
                     rate_known, expired, spawned, spent, received>>
  BY DEF NextResult
<1>2. /\ BagOK' /\ DOMAIN tasks' \subseteq DOMAIN tasks
      /\ InFlight' = InFlight /\ Claims' = Claims
  BY <1>1, ResultSums DEF Core
<1>3. BooksAgree'
  BY <1>1, <1>2 DEF Core, BooksAgree
<1>4. BagToSet(tasks') \subseteq Task \cup Result
  BY <1>2 DEF BagOK, BagToSet
<1>5. status' \in {"running", "waiting", "closing"} \cup Returned
  BY <1>1 DEF Returned
<1>6. TypeOK'
  BY <1>1, <1>4, <1>5 DEF Core, TypeOK
<1> QED BY <1>1, <1>2, <1>3, <1>6 DEF Core

\* No task is left in a bag without elements.
LEMMA EmptyIsBag == IsBag(EmptyBag) /\ DOMAIN EmptyBag = {}
<1>1. EmptyBag = [e \in {} |-> 1]
  BY DEF EmptyBag, SetToBag
<1>2. DOMAIN EmptyBag = {}
  BY <1>1
<1>3. IsFiniteSet(DOMAIN EmptyBag)
  BY <1>2, FiniteNone
<1> QED BY <1>1, <1>2, <1>3 DEF IsBag

\* All tasks have ended when the connection is closed.
LEMMA CloseCore ==
  ASSUME Core, Close
  PROVE  Core' /\ DOMAIN tasks' = {} /\ Claims' = Claims
<1>1. /\ \A t \in DOMAIN tasks : t.stage = "done"
      /\ tasks' = EmptyBag /\ status' = "ok"
      /\ UNCHANGED <<receipt, congestion, counts, should_send_source_account,
                     rate_known, expired, spawned, spent, received>>
  BY DEF Close, BagToSet
<1>2. BagOK' /\ DOMAIN tasks' = {}
  BY <1>1, EmptyIsBag DEF BagOK
<1>3. InFlight = 0 /\ Claims = 0
  BY <1>1, NothingLeftLemma DEF NothingLeft, Core
<1>4. InFlight' = 0 /\ Claims' = 0
  BY <1>2, NothingLeftPrime DEF NothingLeft
<1>5. BooksAgree'
  BY <1>1, <1>3, <1>4 DEF Core, BooksAgree
<1>6. TypeOK'
  BY <1>1, <1>2 DEF Core, TypeOK, BagToSet, Returned
<1> QED BY <1>2, <1>3, <1>4, <1>5, <1>6 DEF Core

\* Every other step of the loop changes only where the loop is.
Quiet ==
  /\ UNCHANGED <<receipt, congestion, counts, should_send_source_account,
                 rate_known, tasks, spawned, spent, received>>
  /\ expired' \in BOOLEAN
  /\ status' \in {"running", "waiting", "closing"} \cup Returned

\* Such a step keeps the books.
LEMMA QuietCore ==
  ASSUME Core, Quiet
  PROVE  Core' /\ InFlight' = InFlight /\ Claims' = Claims
<1>1. InFlight' = InFlight /\ Claims' = Claims
  BY DEF Quiet, InFlight, Outstanding, BagToSet, Claims, SumOf, Weighted
<1>2. BooksAgree'
  BY <1>1 DEF Core, Quiet, BooksAgree
<1>3. BagOK'
  BY DEF Core, Quiet, BagOK
<1>4. TypeOK'
  BY DEF Core, Quiet, TypeOK, BagToSet
<1> QED BY <1>1, <1>2, <1>3, <1>4 DEF Core

-----------------------------------------------------------------------------
(* The steps of a payment *)

\* The steps of the loop that spawn nothing and read no result.
LoopStep == Elapse \/ Timeout \/ FailFast \/ CloseConnection \/ MaxInFlight \/ UNCHANGED vars

\* A task's packet is refused, by the network or by the receiver.
Codes == {"T00", "T04", "R01", "F02", "F08", "F99"}
RejectStep(t) ==
  /\ t.stage = "sent"
  /\ \E code \in Codes, max_packet \in Nat \cup {Unlimited}, readable \in BOOLEAN :
       ApplyReject(t, code, max_packet, readable)

\* The loop's steps are quiet.
LEMMA LoopIsQuiet == ASSUME Core, LoopStep PROVE Quiet
<1>1. expired \in BOOLEAN /\ status \in {"running", "waiting", "closing"} \cup Returned
  BY DEF Core, TypeOK
<1>2. CASE Elapse
  BY <1>2 DEF Elapse, Quiet, Returned
<1>3. ASSUME NEW s \in {"waiting", "closing"} \cup Returned, Return(s) PROVE Quiet
  BY <1>1, <1>3 DEF Return, Quiet
<1>4. CASE Timeout
  BY <1>3, <1>4 DEF Timeout, Returned
<1>5. CASE FailFast
  BY <1>3, <1>5 DEF FailFast, Returned
<1>6. CASE CloseConnection
  BY <1>3, <1>6 DEF CloseConnection
<1>7. CASE MaxInFlight
  BY <1>3, <1>7 DEF MaxInFlight
<1>8. CASE UNCHANGED vars
  BY <1>1, <1>8 DEF vars, Quiet
<1> QED BY <1>2, <1>4, <1>5, <1>6, <1>7, <1>8 DEF LoopStep

\* The answers of the network and the receiver are refusals but for Receive.
LEMMA AnswerCases ==
  ASSUME Core, NEW t \in DOMAIN tasks, Answer(t)
  PROVE  RejectStep(t) \/ \E rate \in PathRates : Receive(t, rate)
<1>1. Unlimited \in Nat \cup {Unlimited} /\ FALSE \in BOOLEAN
  OBVIOUS
<1>2. ASSUME NEW code \in {"T00", "T04", "R01", "F02"}, NetworkReject(t, code)
      PROVE  RejectStep(t)
  <2>1. t.stage = "sent" /\ ApplyReject(t, code, Unlimited, FALSE) /\ code \in Codes
    BY <1>2 DEF NetworkReject, Codes
  <2> QED BY <1>1, <2>1 DEF RejectStep
<1>3. ASSUME NEW limit \in Limits, NEW readable \in BOOLEAN, AmountTooLarge(t, limit, readable)
      PROVE  RejectStep(t)
  <2> DEFINE a == t.amount * limit[2]
             m == IF readable THEN (t.amount * limit[1]) \div a ELSE Unlimited
  <2>1. t.stage = "sent" /\ a > limit[1] /\ ApplyReject(t, "F08", m, FALSE)
    BY <1>3 DEF AmountTooLarge
  <2>2. t.amount \in Nat /\ limit[1] \in Nat /\ limit[2] \in Nat
    BY <2>1, TaskOfBag, StreamAssumption
  <2>3. a \in Nat \ {0} /\ t.amount * limit[1] \in Nat
    BY <2>1, <2>2
  <2> HIDE DEF a
  <2>4. (t.amount * limit[1]) \div a \in Nat
    BY ONLY <2>3, DivNat
  <2>5. m \in Nat \cup {Unlimited}
    BY <2>4
  <2>6. "F08" \in Codes
    BY DEF Codes
  <2> HIDE DEF m
  <2> QED BY <1>1, <2>1, <2>5, <2>6 DEF RejectStep
<1>4. ASSUME NEW rate \in PathRates, NEW readable \in BOOLEAN, Refuse(t, rate, readable)
      PROVE  RejectStep(t)
  <2>1. t.stage = "sent" /\ ApplyReject(t, "F99", Unlimited, readable) /\ "F99" \in Codes
    BY <1>4 DEF Refuse, Codes
  <2> QED BY <1>1, <2>1 DEF RejectStep
<1> QED BY <1>2, <1>3, <1>4 DEF Answer

\* A task of the payment takes a step, or its result is read.
TaskStep(t) ==
  \/ NextResult(t) \/ SendPacket(t) \/ RejectStep(t)
  \/ \E rate \in PathRates : Receive(t, rate)
  \/ \E readable \in BOOLEAN : ApplyFulfill(t, readable)

\* Every step is one of these.
LEMMA StepCases ==
  ASSUME Core, [Next]_vars
  PROVE  LoopStep \/ SendMoney \/ Close \/ \E t \in DOMAIN tasks : TaskStep(t)
<1>1. ASSUME NEW t \in DOMAIN tasks,
             \/ NextResult(t) \/ SendPacket(t) \/ Answer(t)
             \/ \E readable \in BOOLEAN : ApplyFulfill(t, readable)
      PROVE  TaskStep(t)
  BY <1>1, AnswerCases DEF TaskStep
<1>2. CASE UNCHANGED vars
  BY <1>2 DEF LoopStep
<1>3. CASE Elapse \/ Loop \/ Close
  BY <1>3 DEF Loop, LoopStep
<1>4. CASE \E t \in BagToSet(tasks) :
             \/ NextResult(t) \/ SendPacket(t) \/ Answer(t)
             \/ \E readable \in BOOLEAN : ApplyFulfill(t, readable)
  <2>1. BagToSet(tasks) = DOMAIN tasks
    BY DEF BagToSet
  <2> QED BY <1>1, <1>4, <2>1
<1> QED BY <1>2, <1>3, <1>4 DEF Next

\* A refusal, with what it leaves behind.
LEMMA RejectStepCore ==
  ASSUME Core, NEW t \in DOMAIN tasks, RejectStep(t)
  PROVE  Core' /\ Refused(t) /\ t.stage = "sent"
BY RejectCore DEF RejectStep

\* The first state keeps the books.
LEMMA CoreInit == Init => Core /\ Claims = 0
<1> SUFFICES ASSUME Init PROVE Core /\ Claims = 0
  OBVIOUS
<1>1. BagOK /\ DOMAIN tasks = {}
  BY EmptyIsBag DEF Init, BagOK
<1>2. InFlight = 0 /\ Claims = 0
  BY <1>1, NothingLeftLemma DEF NothingLeft
<1>3. /\ source_amount \in Nat /\ U64Max \in Nat \ {0} /\ source_amount <= U64Max
      /\ MaxPackets \in Nat
  BY StreamAssumption
<1>4. BooksAgree
  BY <1>2, <1>3 DEF Init, BooksAgree
<1>5. TypeOK
  <2>1. receipt \in [sent_amount : 0..U64Max, in_flight_amount : 0..U64Max,
                     delivered_amount : 0..U64Max]
    BY <1>3 DEF Init
  <2>2. congestion \in [state : {"SlowStart", "AvoidCongestion"},
                        max_packet_amount : Nat \cup {Unlimited},
                        amount_in_flight : Nat, max_in_flight : 0..U64Max]
    BY <1>3 DEF Init
  <2>3. counts \in [fulfilled : Nat, rejected : Nat, fail_fast : Nat]
    BY DEF Init
  <2>4. /\ should_send_source_account \in BOOLEAN /\ rate_known \in BOOLEAN
        /\ expired \in BOOLEAN
    BY DEF Init
  <2>5. BagToSet(tasks) \subseteq Task \cup Result
    BY <1>1 DEF BagToSet
  <2>6. /\ spawned \in 0..MaxPackets /\ spent \in Nat /\ received \in Nat
        /\ status \in {"running", "waiting", "closing"} \cup Returned
    BY <1>3 DEF Init
  <2> QED BY <2>1, <2>2, <2>3, <2>4, <2>5, <2>6 DEF TypeOK
<1> QED BY <1>1, <1>2, <1>4, <1>5 DEF Core

\* Every step keeps the books.
LEMMA CoreStep == ASSUME Core, [Next]_vars PROVE Core'
<1>1. CASE LoopStep
  BY <1>1, LoopIsQuiet, QuietCore
<1>2. CASE SendMoney
  BY <1>2, SendCore
<1>3. CASE Close
  BY <1>3, CloseCore
<1>4. ASSUME NEW t \in DOMAIN tasks, TaskStep(t) PROVE Core'
  BY <1>4, ResultCore, SentCore, RejectStepCore, ReceiveCore, FulfillCore DEF TaskStep
<1> QED BY <1>1, <1>2, <1>3, <1>4, StepCases

\* The core holds in every state.
LEMMA CoreHolds == Spec => []Core
<1>1. Init => Core
  BY CoreInit
<1>2. Core /\ [Next]_vars => Core'
  BY CoreStep
<1> QED BY <1>1, <1>2, PTL DEF Spec

\* The fields of the receipt and the window stay within 64 bits, and the
\* controller's amount in flight never goes below zero (the code subtracts
\* without a check), for every rate, path and order of replies.
THEOREM TypeCorrect == Spec => []TypeOK
<1>1. Core => TypeOK
  BY DEF Core
<1> QED BY <1>1, CoreHolds, PTL

\* send_money's two counts of what is in flight, kept by the receipt and by the
\* congestion controller, are always the sum over the packets not yet answered,
\* and with what was fulfilled they never exceed the amount to send.
THEOREM PaymentBooksAgree == Spec => []BooksAgree
<1>1. Core => BooksAgree
  BY DEF Core
<1> QED BY <1>1, CoreHolds, PTL

-----------------------------------------------------------------------------
(* The receipt *)

\* What the recipient has collected is in the receipt or claimed by a task
\* that has not applied its reply yet, and no task claims less than its minimum.
Collected ==
  /\ \A t \in DOMAIN tasks : t.stage = "fulfilled" => t.min <= t.claimed
  /\ receipt.delivered_amount + Claims <= received

\* Every step keeps the claims.
LEMMA CollectedStep == ASSUME Core, Collected, [Next]_vars PROVE Collected'
<1>1. /\ receipt.delivered_amount \in Nat /\ Claims \in Nat /\ received \in Nat
      /\ receipt.delivered_amount + Claims <= received
      /\ \A t \in DOMAIN tasks : t.stage = "fulfilled" => t.min <= t.claimed
  BY CoreNumbers DEF Collected
<1>2. Core'
  BY CoreStep
<1>3. CASE LoopStep
  <2>1. Claims' = Claims /\ tasks' = tasks /\ receipt' = receipt /\ received' = received
    BY <1>3, LoopIsQuiet, QuietCore DEF Quiet
  <2> QED BY <1>1, <2>1 DEF Collected
<1>4. CASE SendMoney
  <2>1. /\ \E u \in Task : u.stage = "spawned" /\ DOMAIN tasks' = DOMAIN tasks \cup {u}
        /\ Claims' = Claims /\ receipt'.delivered_amount = receipt.delivered_amount
        /\ received' = received
    BY <1>4, SendCore
  <2> QED BY <1>1, <2>1 DEF Collected
<1>5. CASE Close
  <2>1. /\ DOMAIN tasks' = {} /\ Claims' = Claims
        /\ receipt' = receipt /\ received' = received
    BY <1>5, CloseCore DEF Close
  <2> QED BY <1>1, <2>1 DEF Collected
<1>6. ASSUME NEW t \in DOMAIN tasks, TaskStep(t) PROVE Collected'
  <2>1. CASE NextResult(t)
    <3>1. /\ DOMAIN tasks' \subseteq DOMAIN tasks /\ Claims' = Claims
          /\ receipt' = receipt /\ received' = received
      BY <2>1, ResultCore DEF NextResult
    <3>2. \A x \in DOMAIN tasks' : x.stage = "fulfilled" => x.min <= x.claimed
      BY <1>1, <3>1
    <3> QED BY <1>1, <3>1, <3>2 DEF Collected
  <2>2. CASE SendPacket(t)
    <3>1. /\ \E u \in Task : u.stage = "sent" /\ DOMAIN tasks' \subseteq DOMAIN tasks \cup {u}
          /\ Claims' = Claims /\ receipt' = receipt /\ received' = received
      BY <2>2, SentCore DEF SendPacket
    <3>2. \A x \in DOMAIN tasks' : x.stage = "fulfilled" => x.min <= x.claimed
      BY <1>1, <3>1
    <3> QED BY <1>1, <3>1, <3>2 DEF Collected
  <2>3. CASE RejectStep(t)
    <3>1. /\ \E u \in Result : DOMAIN tasks' \subseteq DOMAIN tasks \cup {u}
          /\ Claims' = Claims /\ receipt'.delivered_amount = receipt.delivered_amount
          /\ received' = received
      BY <2>3, RejectStepCore DEF Refused
    <3>2. \A x \in DOMAIN tasks' : x.stage = "fulfilled" => x.min <= x.claimed
      BY <1>1, <3>1 DEF Result
    <3> QED BY <1>1, <3>1, <3>2 DEF Collected
  <2>4. CASE \E rate \in PathRates : Receive(t, rate)
    <3>1. PICK u \in Task : /\ u.min <= u.claimed /\ DOMAIN tasks' \subseteq DOMAIN tasks \cup {u}
                            /\ Claims' = Claims + u.claimed
                            /\ received' = received + u.claimed
      BY <2>4, ReceiveCore
    <3>2. receipt' = receipt
      BY <2>4 DEF Receive
    <3>3. u.claimed \in Nat
      BY DEF Task
    <3>4. \A x \in DOMAIN tasks' : x.stage = "fulfilled" => x.min <= x.claimed
      BY <1>1, <3>1
    <3> QED BY <1>1, <3>1, <3>2, <3>3, <3>4 DEF Collected
  <2>5. CASE \E readable \in BOOLEAN : ApplyFulfill(t, readable)
    <3>1. /\ \E u \in Result : DOMAIN tasks' \subseteq DOMAIN tasks \cup {u}
          /\ Claims' = Claims - t.claimed
          /\ receipt'.delivered_amount <= receipt.delivered_amount + t.min
             \/ receipt'.delivered_amount <= receipt.delivered_amount + t.claimed
          /\ received' = received
      BY <2>5, FulfillCore
    <3>2. t.stage = "fulfilled" /\ t.min \in Nat /\ t.claimed \in Nat /\ t.min <= t.claimed
      <4>1. t.stage = "fulfilled"
        BY <2>5 DEF ApplyFulfill
      <4> QED BY <1>1, <4>1, TaskOfBag
    <3>3. \A x \in DOMAIN tasks' : x.stage = "fulfilled" => x.min <= x.claimed
      BY <1>1, <3>1 DEF Result
    <3>4. receipt'.delivered_amount \in Nat
      <4>1. receipt' \in [sent_amount : 0..U64Max, in_flight_amount : 0..U64Max,
                          delivered_amount : 0..U64Max]
        BY <1>2 DEF Core, TypeOK
      <4> QED BY <4>1, StreamAssumption
    <3> QED BY <1>1, <3>1, <3>2, <3>3, <3>4 DEF Collected
  <2> QED BY <1>6, <2>1, <2>2, <2>3, <2>4, <2>5 DEF TaskStep
<1> QED BY <1>3, <1>4, <1>5, <1>6, StepCases

\* The delivered amount of the receipt, which adds the larger of the packet's
\* minimum and the recipient's claim for every fulfill, never exceeds what the
\* recipient has collected, whatever the replies' order and readability.
THEOREM ReceiptIsHonest == Spec => []ReceiptNeverOverstates
<1>1. Init => Core /\ Collected
  <2> SUFFICES ASSUME Init PROVE Core /\ Collected
    OBVIOUS
  <2>1. Core /\ Claims = 0
    BY CoreInit
  <2>2. DOMAIN tasks = {}
    BY EmptyIsBag DEF Init
  <2> QED BY <2>1, <2>2 DEF Init, Collected
<1>2. Core /\ Collected /\ [Next]_vars => (Core /\ Collected)'
  BY CoreStep, CollectedStep
<1>3. Core /\ Collected => ReceiptNeverOverstates
  BY CoreNumbers DEF Collected, ReceiptNeverOverstates
<1> QED BY <1>1, <1>2, <1>3, PTL DEF Spec

-----------------------------------------------------------------------------
(* The end of a payment, and its waiting *)

\* A payment that closes has spent its amount, and one that has closed has no
\* task left.
Finished ==
  /\ status \in {"closing", "ok"} => spent = source_amount
  /\ status = "ok" => tasks = EmptyBag

\* The window is open, and a loop that waits has something to wait for.
WindowOpen ==
  /\ source_amount > 0 => congestion.max_in_flight > 0
  /\ status = "waiting" => DOMAIN tasks # {}

\* What a complete payment has spent, and what one that is not complete and
\* may not send has in flight.
LEMMA CompleteMeans ==
  ASSUME Core
  PROVE  /\ IsComplete <=> spent = source_amount
         /\ WindowOpen /\ ~IsComplete /\ IsMaxInFlight => DOMAIN tasks # {}
<1>1. FulfilledAmount = spent
  BY CoreNumbers DEF FulfilledAmount, MonusSat, Greater
<1>2. spent <= source_amount
  BY CoreNumbers
<1>3. IsComplete <=> spent = source_amount
  BY <1>1, <1>2, CoreNumbers DEF IsComplete, MonusSat, Greater
<1>4. ASSUME WindowOpen, ~IsComplete, IsMaxInFlight PROVE InFlight > 0
  <2>1. CASE AmountAvailable = 0
    <3>1. receipt.sent_amount >= source_amount
      BY <2>1, CoreNumbers DEF AmountAvailable, MonusSat, Greater
    <3> QED BY <1>2, <1>3, <1>4, <3>1, CoreNumbers
  <2>2. CASE AmountLeftInWindow = 0
    <3>1. congestion.max_in_flight <= InFlight
      BY <2>2, CoreNumbers DEF AmountLeftInWindow, MonusSat, Greater
    <3>2. source_amount > 0
      BY <1>2, <1>3, <1>4, CoreNumbers
    <3>3. congestion.max_in_flight > 0
      BY <1>4, <3>2 DEF WindowOpen
    <3> QED BY <3>1, <3>3, CoreNumbers
  <2> QED BY <1>4, <2>1, <2>2 DEF IsMaxInFlight
<1>5. InFlight > 0 => DOMAIN tasks # {}
  BY NothingLeftLemma, CoreNumbers DEF NothingLeft, Core
<1> QED BY <1>3, <1>4, <1>5

\* A task's step keeps a payment complete: nothing of it is in flight.
LEMMA StaysSpent ==
  ASSUME Core, NEW t \in DOMAIN tasks, TaskStep(t)
  PROVE  spent = source_amount => spent' = source_amount
<1>1. CASE NextResult(t)
  BY <1>1 DEF NextResult
<1>2. CASE SendPacket(t)
  BY <1>2 DEF SendPacket
<1>3. CASE RejectStep(t)
  BY <1>3, RejectStepCore DEF Refused
<1>4. CASE \E rate \in PathRates : Receive(t, rate)
  BY <1>4 DEF Receive
<1>5. CASE \E readable \in BOOLEAN : ApplyFulfill(t, readable)
  <2>1. spent' = spent + t.amount /\ t.amount <= InFlight
    BY <1>5, FulfillCore
  <2>2. t.amount \in Nat
    <3>1. t.stage = "fulfilled"
      BY <1>5 DEF ApplyFulfill
    <3> QED BY <3>1, TaskOfBag
  <2> QED BY <2>1, <2>2, CoreNumbers
<1> QED BY <1>1, <1>2, <1>3, <1>4, <1>5 DEF TaskStep

\* Where the loop is after a task's step.
LEMMA TaskStatus ==
  ASSUME Core, NEW t \in DOMAIN tasks, TaskStep(t)
  PROVE  \/ status' \in {"error", "running"}
         \/ status' = status /\ DOMAIN tasks' # {}
<1>1. CASE NextResult(t)
  BY <1>1, ResultCore
<1>2. CASE SendPacket(t)
  BY <1>2, SentCore DEF SendPacket
<1>3. CASE RejectStep(t)
  BY <1>3, RejectStepCore DEF Refused
<1>4. CASE \E rate \in PathRates : Receive(t, rate)
  <2>1. DOMAIN tasks' # {}
    BY <1>4, ReceiveCore
  <2> QED BY <1>4, <2>1 DEF Receive
<1>5. CASE \E readable \in BOOLEAN : ApplyFulfill(t, readable)
  BY <1>5, FulfillCore
<1> QED BY <1>1, <1>2, <1>3, <1>4, <1>5 DEF TaskStep

\* Every step keeps what a finished payment means.
LEMMA FinishedStep == ASSUME Core, Finished, [Next]_vars PROVE Finished'
<1>1. CASE LoopStep
  <2>1. spent' = spent /\ tasks' = tasks
    BY <1>1, LoopIsQuiet DEF Quiet
  <2>2. status' = status \/ (IsComplete /\ status' = "closing")
        \/ status' \in {"running", "waiting", "timeout", "failfast"}
    BY <1>1 DEF LoopStep, Elapse, Timeout, FailFast, CloseConnection, MaxInFlight,
                Return, vars
  <2> QED BY <2>1, <2>2, CompleteMeans DEF Finished
<1>2. CASE SendMoney
  <2>1. status = "running" /\ status' = status
    BY <1>2, SendCore
  <2> QED BY <2>1 DEF Finished
<1>3. CASE Close
  BY <1>3 DEF Close, Finished
<1>4. ASSUME NEW t \in DOMAIN tasks, TaskStep(t) PROVE Finished'
  <2>1. status # "ok"
    BY EmptyIsBag DEF Finished
  <2> QED BY <1>4, <2>1, StaysSpent, TaskStatus DEF Finished
<1> QED BY <1>1, <1>2, <1>3, <1>4, StepCases

\* A payment that returns its receipt was fulfilled in full, and left no task
\* behind.
THEOREM OkIsFulfilled == Spec => []OkMeansFulfilled
<1>1. Init => Core /\ Finished
  BY CoreInit DEF Init, Finished
<1>2. Core /\ Finished /\ [Next]_vars => (Core /\ Finished)'
  BY CoreStep, FinishedStep
<1>3. Finished => OkMeansFulfilled
  BY DEF Finished, OkMeansFulfilled
<1> QED BY <1>1, <1>2, <1>3, PTL DEF Spec

\* The window of a task's step.
LEMMA TaskWindow ==
  ASSUME Core, NEW t \in DOMAIN tasks, TaskStep(t), congestion.max_in_flight > 0
  PROVE  congestion'.max_in_flight > 0
<1>1. CASE NextResult(t)
  BY <1>1 DEF NextResult
<1>2. CASE SendPacket(t)
  BY <1>2 DEF SendPacket
<1>3. CASE \E rate \in PathRates : Receive(t, rate)
  BY <1>3 DEF Receive
<1>4. ASSUME Core', \/ congestion'.max_in_flight >= congestion.max_in_flight
                    \/ congestion'.max_in_flight = congestion.max_in_flight
                    \/ congestion'.max_in_flight >= 1
      PROVE  congestion'.max_in_flight > 0
  <2>1. congestion'.max_in_flight \in 0..U64Max
    BY <1>4 DEF Core, TypeOK
  <2> QED BY <1>4, <2>1, CoreNumbers
<1>5. CASE RejectStep(t)
  BY <1>4, <1>5, RejectStepCore DEF Refused
<1>6. CASE \E readable \in BOOLEAN : ApplyFulfill(t, readable)
  BY <1>4, <1>6, FulfillCore
<1> QED BY <1>1, <1>2, <1>3, <1>5, <1>6 DEF TaskStep

\* Every step keeps the window open and waits only for a task.
LEMMA WindowStep == ASSUME Core, WindowOpen, [Next]_vars PROVE WindowOpen'
<1>1. CASE LoopStep
  <2>1. congestion' = congestion /\ tasks' = tasks
    BY <1>1, LoopIsQuiet DEF Quiet
  <2>2. status' = status \/ (~IsComplete /\ IsMaxInFlight) \/ status' # "waiting"
    BY <1>1 DEF LoopStep, Elapse, Timeout, FailFast, CloseConnection, MaxInFlight,
                Return, vars
  <2> QED BY <2>1, <2>2, CompleteMeans DEF WindowOpen
<1>2. CASE SendMoney
  <2>1. /\ status = "running" /\ status' = status
        /\ congestion'.max_in_flight = congestion.max_in_flight
    BY <1>2, SendCore
  <2> QED BY <2>1 DEF WindowOpen
<1>3. CASE Close
  BY <1>3 DEF Close, WindowOpen
<1>4. ASSUME NEW t \in DOMAIN tasks, TaskStep(t) PROVE WindowOpen'
  BY <1>4, TaskWindow, TaskStatus DEF WindowOpen
<1> QED BY <1>1, <1>2, <1>3, <1>4, StepCases

\* The loop never waits on an empty stream of pending requests, where
\* select_next_some would panic.
THEOREM WaitsOnlyForTasks == Spec => []NeverWaitsOnNothing
<1>1. Init => Core /\ WindowOpen
  <2> SUFFICES ASSUME Init PROVE Core /\ WindowOpen
    OBVIOUS
  <2>1. source_amount \in Nat
    BY StreamAssumption
  <2> QED BY <2>1, CoreInit DEF Init, WindowOpen
<1>2. Core /\ WindowOpen /\ [Next]_vars => (Core /\ WindowOpen)'
  BY CoreStep, WindowStep
<1>3. WindowOpen => NeverWaitsOnNothing
  BY EmptyIsBag DEF WindowOpen, NeverWaitsOnNothing
<1> QED BY <1>1, <1>2, <1>3, PTL DEF Spec

-----------------------------------------------------------------------------
(* The recipient's asset details, and the window *)

\* While the sender announces its address, every packet on its way carries it.
Asking ==
  /\ should_send_source_account \/ rate_known
  /\ should_send_source_account =>
       \A t \in DOMAIN tasks : t.stage \in {"sent", "fulfilled"} => t.asks

\* A reply that can be read has the details, or they were known.
LEMMA ReplyAsks ==
  ASSUME Core, Asking, NEW t \in DOMAIN tasks, t.stage \in {"sent", "fulfilled"},
         NEW readable \in BOOLEAN, ReadReply(t, readable),
         \E u \in Result : DOMAIN tasks' \subseteq DOMAIN tasks \cup {u}
  PROVE  Asking'
<1>1. /\ should_send_source_account' = (should_send_source_account /\ ~readable)
      /\ rate_known' = (rate_known \/ (readable /\ t.asks))
      /\ should_send_source_account \in BOOLEAN /\ rate_known \in BOOLEAN
      /\ t.asks \in BOOLEAN
  BY TaskOfBag DEF ReadReply, Core, TypeOK
<1>2. should_send_source_account => t.asks
  BY DEF Asking
<1>3. should_send_source_account' \/ rate_known'
  BY <1>1, <1>2 DEF Asking
<1>4. ASSUME should_send_source_account', NEW x \in DOMAIN tasks',
             x.stage \in {"sent", "fulfilled"}
      PROVE  x.asks
  <2>1. should_send_source_account
    BY <1>1, <1>4
  <2>2. x \in DOMAIN tasks
    BY <1>4 DEF Result
  <2> QED BY <1>4, <2>1, <2>2 DEF Asking
<1> QED BY <1>3, <1>4 DEF Asking

\* Every step keeps the packets asking.
LEMMA AskingStep == ASSUME Core, Asking, [Next]_vars PROVE Asking'
<1>1. CASE LoopStep
  <2>1. /\ tasks' = tasks
        /\ UNCHANGED <<should_send_source_account, rate_known>>
    BY <1>1, LoopIsQuiet DEF Quiet
  <2> QED BY <2>1 DEF Asking
<1>2. CASE SendMoney
  <2>1. PICK u \in Task : u.stage = "spawned" /\ DOMAIN tasks' = DOMAIN tasks \cup {u}
    BY <1>2, SendCore
  <2>2. UNCHANGED <<should_send_source_account, rate_known>>
    BY <1>2, SendCore
  <2> QED BY <2>1, <2>2 DEF Asking
<1>3. CASE Close
  <2>1. DOMAIN tasks' = {} /\ UNCHANGED <<should_send_source_account, rate_known>>
    BY <1>3, CloseCore DEF Close
  <2> QED BY <2>1 DEF Asking
<1>4. ASSUME NEW t \in DOMAIN tasks, TaskStep(t) PROVE Asking'
  <2>1. CASE NextResult(t)
    <3>1. /\ DOMAIN tasks' \subseteq DOMAIN tasks
          /\ UNCHANGED <<should_send_source_account, rate_known>>
      BY <2>1, ResultCore DEF NextResult
    <3> QED BY <3>1 DEF Asking
  <2>2. CASE SendPacket(t)
    <3>1. PICK u \in Task : /\ u.asks = should_send_source_account
                            /\ DOMAIN tasks' \subseteq DOMAIN tasks \cup {u}
      BY <2>2, SentCore
    <3>2. UNCHANGED <<should_send_source_account, rate_known>>
      BY <2>2 DEF SendPacket
    <3> QED BY <3>1, <3>2 DEF Asking
  <2>3. CASE RejectStep(t)
    <3>1. /\ t.stage = "sent"
          /\ \E u \in Result : DOMAIN tasks' \subseteq DOMAIN tasks \cup {u}
      BY <2>3, RejectStepCore DEF Refused
    <3>2. PICK readable \in BOOLEAN : ReadReply(t, readable)
      BY <2>3 DEF RejectStep, ApplyReject
    <3> QED BY <3>1, <3>2, ReplyAsks
  <2>4. CASE \E rate \in PathRates : Receive(t, rate)
    <3>1. PICK u \in Task : u.asks = t.asks /\ DOMAIN tasks' \subseteq DOMAIN tasks \cup {u}
      BY <2>4, ReceiveCore
    <3>2. t.stage = "sent" /\ UNCHANGED <<should_send_source_account, rate_known>>
      BY <2>4 DEF Receive
    <3>3. should_send_source_account => t.asks
      BY <3>2 DEF Asking
    <3> QED BY <3>1, <3>2, <3>3 DEF Asking
  <2>5. CASE \E readable \in BOOLEAN : ApplyFulfill(t, readable)
    <3>1. \E u \in Result : DOMAIN tasks' \subseteq DOMAIN tasks \cup {u}
      BY <2>5, FulfillCore
    <3>2. PICK readable \in BOOLEAN : t.stage = "fulfilled" /\ ReadReply(t, readable)
      BY <2>5 DEF ApplyFulfill
    <3> QED BY <3>1, <3>2, ReplyAsks
  <2> QED BY <1>4, <2>1, <2>2, <2>3, <2>4, <2>5 DEF TaskStep
<1> QED BY <1>1, <1>2, <1>3, <1>4, StepCases

\* The sender stops announcing its address only once it has the recipient's
\* asset details: the reply it read was to a packet that carried the address,
\* also when it was sent long before.
THEOREM RateIsLearnable == Spec => []RateStaysLearnable
<1>1. Init => Core /\ Asking
  <2> SUFFICES ASSUME Init PROVE Core /\ Asking
    OBVIOUS
  <2>1. DOMAIN tasks = {}
    BY EmptyIsBag DEF Init
  <2> QED BY <2>1, CoreInit DEF Init, Asking
<1>2. Core /\ Asking /\ [Next]_vars => (Core /\ Asking)'
  BY CoreStep, AskingStep
<1>3. Asking => RateStaysLearnable
  BY DEF Asking, RateStaysLearnable
<1> QED BY <1>1, <1>2, <1>3, PTL DEF Spec

\* A task's step puts nothing in flight.
LEMMA TaskFlight ==
  ASSUME Core, NEW t \in DOMAIN tasks, TaskStep(t)
  PROVE  congestion'.amount_in_flight <= congestion.amount_in_flight
<1>1. congestion.amount_in_flight = InFlight /\ InFlight \in Nat
  BY CoreNumbers
<1>2. CASE NextResult(t) \/ SendPacket(t) \/ \E rate \in PathRates : Receive(t, rate)
  <2>1. congestion' = congestion
    BY <1>2 DEF NextResult, SendPacket, Receive
  <2> QED BY <1>1, <2>1
<1>3. ASSUME Core', t.stage # "done", InFlight' = InFlight - t.amount
      PROVE  congestion'.amount_in_flight <= congestion.amount_in_flight
  <2>1. congestion'.amount_in_flight = InFlight'
    BY <1>3 DEF Core, BooksAgree
  <2>2. t.amount \in Nat
    BY <1>3, TaskOfBag
  <2> QED BY <1>1, <1>3, <2>1, <2>2
<1>4. CASE RejectStep(t)
  BY <1>3, <1>4, RejectStepCore DEF Refused
<1>5. CASE \E readable \in BOOLEAN : ApplyFulfill(t, readable)
  <2>1. t.stage = "fulfilled"
    BY <1>5 DEF ApplyFulfill
  <2> QED BY <1>3, <1>5, <2>1, FulfillCore
<1> QED BY <1>2, <1>4, <1>5 DEF TaskStep

\* One step of StaysInWindow.
InWindow ==
  congestion'.amount_in_flight > congestion.amount_in_flight =>
    congestion'.amount_in_flight <= congestion.max_in_flight + Overshoot

\* Only a new packet adds to what is in flight.
LEMMA WindowKept == ASSUME Core, [Next]_vars PROVE InWindow
<1>1. congestion.amount_in_flight \in Nat
  BY CoreNumbers
<1>2. CASE LoopStep
  <2>1. congestion' = congestion
    BY <1>2, LoopIsQuiet DEF Quiet
  <2> QED BY <1>1, <2>1 DEF InWindow
<1>3. CASE SendMoney
  BY <1>3, SendCore DEF InWindow
<1>4. CASE Close
  <2>1. congestion' = congestion
    BY <1>4 DEF Close
  <2> QED BY <1>1, <2>1 DEF InWindow
<1>5. ASSUME NEW t \in DOMAIN tasks, TaskStep(t) PROVE InWindow
  <2>1. congestion'.amount_in_flight <= congestion.amount_in_flight
    BY <1>5, TaskFlight
  <2>2. congestion'.amount_in_flight \in Nat
    <3>1. Core'
      BY CoreStep
    <3> QED BY <3>1 DEF Core, TypeOK
  <2> QED BY <1>1, <2>1, <2>2 DEF InWindow
<1> QED BY <1>2, <1>3, <1>4, <1>5, StepCases

\* A packet exceeds the congestion window by less than the least amount worth
\* sending and the dust spread over the packets, for every window, rate and
\* packet limit, and not at all while no rate is known.
THEOREM PacketsStayInWindow == Spec => StaysInWindow
<1>1. Core /\ [Next]_vars => [InWindow]_vars
  BY WindowKept
<1>2. [][InWindow]_vars <=> StaysInWindow
  BY DEF InWindow, StaysInWindow
<1> QED BY <1>1, <1>2, CoreHolds, PTL DEF Spec
=============================================================================
