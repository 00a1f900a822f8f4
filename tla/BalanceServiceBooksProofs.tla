---------------------- MODULE BalanceServiceBooksProofs ----------------------
(***************************************************************************)
(* Proofs about the books of the balance service: what a step does to the  *)
(* position of an account and to what is due, and from it that the books   *)
(* are exact until the first failure, that no account is ever credited     *)
(* twice, and that the service implements the ledger.                      *)
(***************************************************************************)
EXTENDS BalanceServiceBooks, BalanceServiceProofs, SumTheorems

-----------------------------------------------------------------------------
(* Types of the sums *)

\* Only settlements that the engine received are in the set of used keys.
Received == \A k \in used : incoming[k] # None

\* What a task holds is a natural number; so is what the tasks hold for an
\* account, and the position they will bring it to is an integer.
BookedTyped ==
  /\ \A t \in Threads : Held(t) \in Nat
  /\ \A a \in Accounts :
       /\ \A t \in Threads : HeldFor(a)[t] \in Nat
       /\ InMemory(a) \in Nat
       /\ Position(money[a]) \in Int
       /\ Booked(a) \in Int /\ Position(money[a]) <= Booked(a)

\* The sums of Booked are numbers.
LEMMA BookedType == TypeOK => BookedTyped
<1> SUFFICES ASSUME TypeOK PROVE BookedTyped
  OBVIOUS
<1>1. \A t \in Threads : Held(t) \in Nat
  BY DEF TypeOK, Held, Task
<1>2. ASSUME NEW a \in Accounts
      PROVE  /\ \A t \in Threads : HeldFor(a)[t] \in Nat
             /\ InMemory(a) \in Nat
             /\ Position(money[a]) \in Int
             /\ Booked(a) \in Int /\ Position(money[a]) <= Booked(a)
  <2>1. \A t \in Threads : HeldFor(a)[t] \in Nat
    BY <1>1 DEF HeldFor
  <2>2. InMemory(a) \in Nat
    BY <2>1, SumNat, FiniteAssumption DEF InMemory
  <2>3. Position(money[a]) \in Int
    BY DEF TypeOK, Position, Money
  <2> QED BY <2>1, <2>2, <2>3 DEF Booked
<1> QED BY <1>1, <1>2 DEF BookedTyped

\* The same after a step.
LEMMA BookedTypePrime == TypeOK' => BookedTyped'
BY BookedType, PTL

\* What is due to an account is an integer.
DueTyped ==
  \A a \in Accounts :
    /\ \A p \in Packets : Effects(a)[p] \in Int
    /\ \A k \in IncomingKeys : Deposits(a)[k] \in Nat
    /\ SumFunctionOnSet(Effects(a), Packets) \in Int
    /\ SumFunctionOnSet(Deposits(a), IncomingKeys) \in Int
    /\ paid[a] \in Nat
    /\ Due(a) \in Int

\* The sums of Due are numbers.
LEMMA DueType == TypeOK /\ Received => DueTyped
<1> SUFFICES ASSUME TypeOK, Received, NEW a \in Accounts
             PROVE  /\ \A p \in Packets : Effects(a)[p] \in Int
                    /\ \A k \in IncomingKeys : Deposits(a)[k] \in Nat
                    /\ SumFunctionOnSet(Effects(a), Packets) \in Int
                    /\ SumFunctionOnSet(Deposits(a), IncomingKeys) \in Int
                    /\ paid[a] \in Nat
                    /\ Due(a) \in Int
  BY DEF DueTyped
<1>1. \A p \in Packets : Effects(a)[p] \in Int
  BY DEF TypeOK, Packet, Effects, Effect
<1>2. \A k \in IncomingKeys : Deposits(a)[k] \in Nat
  <2>1. \A k \in used : incoming[k] \in [account : Accounts, amount : Amounts]
    BY DEF TypeOK, Received
  <2> QED BY <2>1, SettingAssumption DEF Deposits
<1>3. IsFiniteSet(Packets)
  BY FiniteAssumption, FS_Subset DEF Threads
<1>4. /\ SumFunctionOnSet(Effects(a), Packets) \in Int
      /\ SumFunctionOnSet(Deposits(a), IncomingKeys) \in Int
  BY <1>1, <1>2, <1>3, SumType, FiniteAssumption
<1>5. paid[a] \in Nat
  BY DEF TypeOK
<1> QED BY <1>1, <1>2, <1>4, <1>5 DEF Due

\* The same after a step.
LEMMA DueTypePrime == TypeOK' /\ Received' => DueTyped'
BY DueType, PTL

-----------------------------------------------------------------------------
(* How a step moves the sums *)

\* The position that account a is booked at moves by n, nobody else's does.
Moves(a, n) ==
  \A c \in Accounts : Booked(c)' = IF c = a THEN Booked(c) + n ELSE Booked(c)

\* Nothing is booked.
Stays == \A c \in Accounts : Booked(c)' = Booked(c)

\* The same for what is due.
DueMoves(a, n) ==
  \A c \in Accounts : Due(c)' = IF c = a THEN Due(c) + n ELSE Due(c)
DueStays == \A c \in Accounts : Due(c)' = Due(c)

\* No task but t starts or stops to hold anything.
OthersHold(t) ==
  \A u \in Threads \ {t} : task'[u].account = task[u].account /\ Held(u)' = Held(u)

\* The money of account a moves by n.
MoneyMoves(a, n) ==
  \A c \in Accounts : Position(money[c])' =
    IF c = a THEN Position(money[c]) + n ELSE Position(money[c])

\* A step of one task moves its account by what it posts and by the change of
\* what it holds.
LEMMA TaskMoves ==
  ASSUME TypeOK, TypeOK', NEW t \in Threads, OthersHold(t),
         NEW a \in Accounts, NEW n \in Int, MoneyMoves(a, n),
         task[t].account = a \/ Held(t) = 0,
         task'[t].account = a \/ Held(t)' = 0
  PROVE  Moves(a, n + Held(t)' - Held(t))
<1> SUFFICES ASSUME NEW c \in Accounts
             PROVE  Booked(c)' = IF c = a THEN Booked(c) + (n + Held(t)' - Held(t))
                                          ELSE Booked(c)
  BY DEF Moves
<1>1. /\ \A u \in Threads : HeldFor(c)[u] \in Nat
      /\ InMemory(c) \in Nat /\ Position(money[c]) \in Int
  BY BookedType DEF BookedTyped
<1>2. \A u \in Threads : HeldFor(c)'[u] \in Nat
  BY BookedTypePrime DEF BookedTyped
<1>3. \A u \in Threads : u # t => HeldFor(c)'[u] = HeldFor(c)[u]
  BY DEF HeldFor, OthersHold
<1>4. InMemory(c)' = InMemory(c) + HeldFor(c)'[t] - HeldFor(c)[t]
  BY <1>1, <1>2, <1>3, SumUpdate, FiniteAssumption DEF InMemory
<1>5. Held(t) \in Nat /\ Held(t)' \in Nat
  BY BookedType, BookedTypePrime DEF BookedTyped
<1>6. CASE c = a
  <2>1. HeldFor(c)'[t] = Held(t)' /\ HeldFor(c)[t] = Held(t)
    BY <1>6 DEF HeldFor
  <2> QED BY <1>1, <1>4, <1>5, <1>6, <2>1 DEF Booked, MoneyMoves
<1>7. CASE c # a
  <2>1. HeldFor(c)'[t] = 0 /\ HeldFor(c)[t] = 0
    BY <1>7 DEF HeldFor
  <2> QED BY <1>1, <1>4, <1>7, <2>1 DEF Booked, MoneyMoves
<1> QED BY <1>6, <1>7

-----------------------------------------------------------------------------
(* The invariant the books rest on *)

\* What is left of the bounds on the environment; no client stops waiting.
BudgetOK ==
  /\ budget.timeouts = 0 /\ budget.faults <= MaxStoreFaults
  /\ budget.drops <= MaxDrops /\ budget.crashes <= MaxCrashes

\* Every attempt has a key of its own, and a request that is under way has not
\* been accepted.
FreshKeys ==
  /\ \A k \in engineKeys : k < nextKey
  /\ \A r \in requests : /\ r.key < nextKey /\ r.key \notin engineKeys
                         /\ \A q \in requests : q.key = r.key => q = r
  /\ \A t \in Threads : task[t].pc = "wait" =>
       /\ task[t].key < nextKey
       /\ \A u \in Threads :
            task[u].pc = "wait" /\ task[u].key = task[t].key => u = t

\* The request that the settlement client of t waits for.
RequestOf(t) ==
  [key |-> task[t].key, account |-> task[t].account, amount |-> task[t].amount]

\* A client without an answer has its request under way, for its own account
\* and amount; the answer it has is the one the engine gave.
WaitsForRequest ==
  \A t \in Threads : task[t].pc = "wait" =>
    /\ task[t].reply = "none" => RequestOf(t) \in requests
    /\ task[t].reply = "ok" => task[t].key \in engineKeys
    /\ task[t].reply \in {"4xx", "5xx"} => /\ task[t].key \notin engineKeys
                                           /\ \A r \in requests : r.key # task[t].key

\* A packet has no task before it is answered, and the tasks that settle
\* without a fulfill have nothing to post.
TasksOwnAmounts ==
  /\ \A p \in Packets : pkt[p].st \in {"new", "forwarded"} => task[p].pc = "idle"
  /\ \A t \in Threads :
       task[t].pc \in {"load", "delayed", "prefund"} => task[t].amount = 0

Books ==
  /\ TypeOK /\ Received /\ IsFiniteSet(requests)
  /\ BudgetOK /\ FreshKeys /\ WaitsForRequest /\ TasksOwnAmounts

\* Before the first failure every request under way has its client.
NoOrphans ==
  Undisturbed => \A r \in requests : \E t \in Threads :
    task[t].pc = "wait" /\ task[t].reply = "none" /\ RequestOf(t) = r

\* Task t is about to pay out an amount that its account could spare.
Settles(t) ==
  \/ task[t].pc \in {"send", "wait"}
  \/ task[t].pc = "notify" /\ task[t].amount > 0

\* An account with a settlement under way has settlement settings, and has
\* stayed at or above its floor.
SettlesAboveFloor ==
  \A t \in Threads : Settles(t) =>
    LET a == task[t].account
    IN /\ SettlementConfigured(settle_threshold[a], settle_to[a])
       /\ min_balance[a] # None => Position(money[a]) >= Floor(a)

\* A step that leaves the engine and its requests alone, and after which no
\* task waits or is idle that was not before.
KeysIdle ==
  /\ UNCHANGED <<requests, engineKeys, nextKey>>
  /\ \A t \in Threads : task'[t] = task[t] \/ task'[t].pc \notin {"idle", "wait"}

\* Who waits for an answer goes on waiting.
ClientsWait ==
  \A t \in Threads : task[t].pc = "wait" /\ task[t].reply = "none" => task'[t] = task[t]

\* Only the settlement client and the engine do anything else, and only a
\* restart makes clients stop waiting.
LEMMA KeysFrame ==
  ASSUME Books, [Next]_vars
  PROVE  \/ KeysIdle /\ ClientsWait
         \/ KeysIdle /\ Crash
         \/ \E t \in Threads : SendSettlement(t)
         \/ \E r \in requests : \/ EngineAccepts(r)
                                \/ \E e \in {"4xx", "5xx"} : EngineRefuses(r, e)
<1> USE DEF KeysIdle, ClientsWait
<1>0. /\ \A t \in Threads : task[t] \in Task
      /\ task \in [Threads -> Task]
      /\ Packets \subseteq Threads /\ Slots \subseteq Threads
      /\ Accounts \subseteq Threads /\ Edited \subseteq Accounts
      /\ \A p \in Packets :
           pkt[p].st \in {"new", "forwarded"} => task[p].pc = "idle"
      /\ BudgetOK
  BY SettingAssumption DEF Books, TypeOK, Threads, TasksOwnAmounts
<1>1. ASSUME NEW p \in Packets, Arrival(p) \/ DropRequest(p) PROVE KeysIdle /\ ClientsWait
  BY <1>1 DEF Arrival, Prepare, PrepareRefused, PrepareFails, DropRequest
<1>2. ASSUME NEW p \in Packets, Fulfilled(p) \/ Rejected(p) PROVE KeysIdle /\ ClientsWait
  BY <1>0, <1>2 DEF Fulfilled, Rejected, NewTask
<1>3. ASSUME NEW t \in Threads, \/ PostFulfill(t) \/ PostReject(t)
                                \/ PostRefund(t) \/ LoadAccount(t)
      PROVE  KeysIdle /\ ClientsWait
  BY <1>0, <1>3 DEF PostFulfill, PostReject, PostRefund, LoadAccount, Task
<1>4. ASSUME NEW t \in Threads, Notify(t) \/ PostDelayed(t) \/ PostPrefund(t)
      PROVE  KeysIdle /\ ClientsWait
  <2>1. \A a, n : SettleTask(task[t], a, n).pc \in {"done", "send"}
    BY <1>0 DEF SettleTask, Task
  <2>2. [task[t] EXCEPT !.pc = "done"].pc = "done"
    BY <1>0 DEF Task
  <2>3. /\ \/ \E a, n : task' = [task EXCEPT ![t] = SettleTask(task[t], a, n)]
           \/ task' = [task EXCEPT ![t] = [task[t] EXCEPT !.pc = "done"]]
        /\ UNCHANGED <<requests, engineKeys, nextKey>>
    BY <1>4 DEF Notify, PostDelayed, PostPrefund
  <2>4. task[t].pc # "wait"
    BY <1>4 DEF Notify, PostDelayed, PostPrefund
  <2>5. /\ task'[t].pc \in {"done", "send"}
        /\ \A u \in Threads : u # t => task'[u] = task[u]
    <3>1. CASE \E a, n : task' = [task EXCEPT ![t] = SettleTask(task[t], a, n)]
      <4>1. PICK a, n : task' = [task EXCEPT ![t] = SettleTask(task[t], a, n)]
        BY <3>1
      <4>2. task'[t] = SettleTask(task[t], a, n)
        BY <1>0, <4>1
      <4>3. \A u \in Threads : u # t => task'[u] = task[u]
        BY <1>0, <4>1
      <4> QED BY <2>1, <4>2, <4>3
    <3>2. CASE task' = [task EXCEPT ![t] = [task[t] EXCEPT !.pc = "done"]]
      <4>1. task'[t] = [task[t] EXCEPT !.pc = "done"]
        BY <1>0, <3>2
      <4>2. \A u \in Threads : u # t => task'[u] = task[u]
        BY <1>0, <3>2
      <4> QED BY <2>2, <4>1, <4>2
    <3> QED BY <2>3, <3>1, <3>2
  <2> QED BY <2>3, <2>4, <2>5
<1>5. ASSUME NEW k \in QueueKeys, NEW s \in Slots, SpawnDelayed(k, s)
      PROVE  KeysIdle /\ ClientsWait
  BY <1>0, <1>5 DEF SpawnDelayed, NewTask
<1>6. ASSUME NEW a \in Edited, StartPrefund(a) PROVE KeysIdle /\ ClientsWait
  BY <1>0, <1>6 DEF StartPrefund, NewTask
<1>7. ASSUME NEW t \in Threads, NEW applied \in BOOLEAN,
             TaskStoreFails(t, applied)
      PROVE  KeysIdle /\ ClientsWait
  BY <1>0, <1>7 DEF TaskStoreFails, Task
<1>8. ASSUME NEW t \in Threads, HandleReply(t) PROVE KeysIdle /\ ClientsWait
  BY <1>0, <1>8 DEF HandleReply, AfterError, Task
<1>9. ASSUME NEW t \in Threads, ClientTimeout(t) PROVE FALSE
  BY <1>0, <1>9 DEF ClientTimeout, BudgetOK
<1>10. ASSUME NEW k \in IncomingKeys,
              \/ UpdateBalanceForIncomingSettlement(k)
              \/ \E a \in Accounts, n \in Amounts : PaymentReceived(k, a, n)
       PROVE  KeysIdle /\ ClientsWait
  BY <1>10 DEF UpdateBalanceForIncomingSettlement, PaymentReceived
<1>11. ASSUME Crash PROVE KeysIdle
  BY <1>0, <1>11 DEF Crash, Task
<1>12. ASSUME TimerStep \/ UNCHANGED vars PROVE KeysIdle /\ ClientsWait
  BY <1>12 DEF TimerStep, vars, serviceVars
<1> HIDE DEF KeysIdle, ClientsWait
<1> QED BY <1>1, <1>2, <1>3, <1>4, <1>5, <1>6, <1>7, <1>8, <1>9, <1>10, <1>11,
           <1>12
        DEF Next, TaskStep, EngineStep

\* A settlement request goes out under a key that nobody has used.
LEMMA SendKeys ==
  ASSUME Books, NEW t \in Threads, SendSettlement(t)
  PROVE  FreshKeys' /\ WaitsForRequest' /\ IsFiniteSet(requests)'
<1>1. /\ task \in [Threads -> Task] /\ nextKey \in Nat
      /\ requests \subseteq Request /\ engineKeys \subseteq Nat
  BY DEF Books, TypeOK
<1>2. /\ task[t] \in Task /\ task[t].pc = "send"
      /\ nextKey' = nextKey + 1 /\ engineKeys' = engineKeys
  BY <1>1 DEF SendSettlement
<1> DEFINE w == [task[t] EXCEPT !.pc = "wait", !.key = nextKey,
                                !.attempt = @ + 1, !.reply = "none"]
           r == [key |-> nextKey, account |-> task[t].account,
                 amount |-> task[t].amount]
<1>3. task' = [task EXCEPT ![t] = w] /\ requests' = requests \cup {r}
  BY DEF SendSettlement
<1>4. /\ w.pc = "wait" /\ w.key = nextKey /\ w.reply = "none"
      /\ w.account = task[t].account /\ w.amount = task[t].amount
      /\ r.key = nextKey
  BY <1>2 DEF Task
<1>5. r = [key |-> w.key, account |-> w.account, amount |-> w.amount]
  BY <1>4
<1> HIDE DEF w, r
<1>6. /\ task'[t] = w /\ \A u \in Threads : u # t => task'[u] = task[u]
      /\ RequestOf(t)' = r
      /\ \A u \in Threads : u # t => RequestOf(u)' = RequestOf(u)
  BY <1>1, <1>3, <1>5 DEF RequestOf
<1>7. /\ \A q \in requests : q.key \in Nat
      /\ \A u \in Threads : task[u].key \in Nat
  BY <1>1 DEF Request, Task
<1>8. FreshKeys'
  BY <1>1, <1>2, <1>3, <1>4, <1>6, <1>7 DEF FreshKeys, Books
<1>9. WaitsForRequest'
  BY <1>1, <1>2, <1>3, <1>4, <1>6, <1>7 DEF WaitsForRequest, FreshKeys, Books
<1>10. IsFiniteSet(requests)'
  BY <1>3, FS_AddElement DEF Books
<1> QED BY <1>8, <1>9, <1>10

\* The engine takes a request: whoever waits for it has its answer.
LEMMA EngineKeys ==
  ASSUME Books, NEW r \in requests,
         EngineAccepts(r) \/ \E e \in {"4xx", "5xx"} : EngineRefuses(r, e)
  PROVE  FreshKeys' /\ WaitsForRequest' /\ IsFiniteSet(requests)'
<1>1. /\ task \in [Threads -> Task] /\ nextKey \in Nat
      /\ requests \subseteq Request /\ engineKeys \subseteq Nat
      /\ r \in Request
  BY DEF Books, TypeOK
<1>2. PICK reply \in {"ok", "4xx", "5xx"} :
        /\ EngineAnswers(r, reply)
        /\ reply = "ok" => engineKeys' = engineKeys \cup {r.key}
        /\ reply # "ok" => engineKeys' = engineKeys
  BY DEF EngineAccepts, EngineRefuses
<1>3. /\ requests' = requests \ {r} /\ nextKey' = nextKey
      /\ \A t \in Threads :
           /\ task'[t].pc = task[t].pc /\ task'[t].key = task[t].key
           /\ RequestOf(t)' = RequestOf(t)
           /\ task'[t].reply = IF task[t].pc = "wait" /\ task[t].key = r.key
                                 THEN reply ELSE task[t].reply
  BY <1>1, <1>2 DEF EngineAnswers, Task, RequestOf
<1>4. /\ r.key < nextKey /\ r.key \notin engineKeys
      /\ \A q \in requests' : q.key # r.key
      /\ \A k \in engineKeys' : k \in engineKeys \/ k = r.key
      /\ r.key \in engineKeys' <=> reply = "ok"
  BY <1>2, <1>3 DEF FreshKeys, Books
<1>5. FreshKeys'
  BY <1>3, <1>4 DEF FreshKeys, Books
<1>6. ASSUME NEW t \in Threads, task[t].pc = "wait"
      PROVE  /\ task'[t].reply = "none" => RequestOf(t)' \in requests'
             /\ task'[t].reply = "ok" => task'[t].key \in engineKeys'
             /\ task'[t].reply \in {"4xx", "5xx"} =>
                  /\ task'[t].key \notin engineKeys'
                  /\ \A q \in requests' : q.key # task'[t].key
  <2>1. CASE task[t].key = r.key
    BY <1>2, <1>3, <1>4, <1>6, <2>1
  <2>2. CASE task[t].key # r.key
    <3>1. RequestOf(t) # r
      BY <2>2 DEF RequestOf
    <3>2. task[t].key \in engineKeys' <=> task[t].key \in engineKeys
      BY <1>2, <2>2
    <3> QED BY <1>3, <1>6, <2>2, <3>1, <3>2 DEF WaitsForRequest, Books
  <2> QED BY <2>1, <2>2
<1>7. WaitsForRequest'
  BY <1>3, <1>6 DEF WaitsForRequest
<1>8. IsFiniteSet(requests)'
  BY <1>3, FS_RemoveElement DEF Books
<1> QED BY <1>5, <1>7, <1>8

\* One step keeps the keys in order.
LEMMA KeysStep ==
  ASSUME Books, [Next]_vars
  PROVE  FreshKeys' /\ WaitsForRequest' /\ IsFiniteSet(requests)'
<1>1. ASSUME KeysIdle
      PROVE  FreshKeys' /\ WaitsForRequest' /\ IsFiniteSet(requests)'
  BY <1>1 DEF KeysIdle, Books, FreshKeys, WaitsForRequest, RequestOf
<1> QED BY <1>1, KeysFrame, SendKeys, EngineKeys DEF Books

\* Nothing gives back what the environment has used up.
Shrinks ==
  /\ budget'.faults <= budget.faults /\ budget'.drops <= budget.drops
  /\ budget'.crashes <= budget.crashes

\* One step uses up the bounds and the incoming settlements as it should.
LEMMA EnvironmentStep ==
  ASSUME TypeOK, BudgetOK, Received, [Next]_vars
  PROVE  BudgetOK' /\ Received' /\ Shrinks
<1> DEFINE Same == UNCHANGED <<used, incoming>>
           B == [faults : Nat, timeouts : Nat, drops : Nat, crashes : Nat]
           Less == \/ UNCHANGED budget
                   \/ budget.faults > 0 /\ budget' = [budget EXCEPT !.faults = @ - 1]
                   \/ budget.drops > 0 /\ budget' = [budget EXCEPT !.drops = @ - 1]
                   \/ budget.crashes > 0 /\ budget' = [budget EXCEPT !.crashes = @ - 1]
<1>0. budget \in B
  BY DEF TypeOK
<1>1. ASSUME NEW p \in Packets, \/ Arrival(p) \/ Fulfilled(p) \/ Rejected(p)
                                \/ DropRequest(p)
      PROVE  Same /\ Less
  BY <1>1 DEF Arrival, Prepare, PrepareRefused, PrepareFails, Fulfilled,
              Rejected, DropRequest
<1>2. ASSUME NEW t \in Threads, TaskStep(t) PROVE Same /\ Less
  BY <1>2 DEF TaskStep, PostFulfill, Notify, PostReject, PostRefund, LoadAccount,
              PostDelayed, PostPrefund, SendSettlement, HandleReply
<1>3. ASSUME NEW t \in Threads, ClientTimeout(t) PROVE FALSE
  BY <1>3 DEF ClientTimeout, BudgetOK
<1>4. ASSUME NEW t \in Threads, NEW applied \in BOOLEAN,
             TaskStoreFails(t, applied)
      PROVE  Same /\ Less
  BY <1>4 DEF TaskStoreFails
<1>5. ASSUME NEW a \in Edited, StartPrefund(a) PROVE Same /\ Less
  BY <1>5 DEF StartPrefund
<1>6. ASSUME NEW k \in QueueKeys, NEW s \in Slots, SpawnDelayed(k, s)
      PROVE  Same /\ Less
  BY <1>6 DEF SpawnDelayed
<1>7. ASSUME EngineStep PROVE Same /\ Less
  BY <1>7 DEF EngineStep, EngineAccepts, EngineRefuses, EngineAnswers
<1>8. ASSUME TimerStep \/ UNCHANGED vars PROVE Same /\ Less
  BY <1>8 DEF TimerStep, vars, serviceVars
<1>9. ASSUME NEW k \in IncomingKeys, UpdateBalanceForIncomingSettlement(k)
      PROVE  BudgetOK' /\ Received' /\ Shrinks
  BY <1>0, <1>9 DEF UpdateBalanceForIncomingSettlement, BudgetOK, Received, Shrinks
<1>10. ASSUME NEW k \in IncomingKeys, NEW a \in Accounts, NEW n \in Amounts,
              PaymentReceived(k, a, n)
       PROVE  BudgetOK' /\ Received' /\ Shrinks
  <2>1. k \notin used /\ used' = used /\ budget' = budget
    BY <1>10 DEF PaymentReceived, Received
  <2>2. \A j \in IncomingKeys : j # k => incoming'[j] = incoming[j]
    BY <1>10 DEF PaymentReceived, TypeOK
  <2> QED BY <1>0, <2>1, <2>2 DEF Received, BudgetOK, TypeOK, Shrinks
<1>11. ASSUME Crash PROVE Same /\ Less
  BY <1>11 DEF Crash
<1>12. ASSUME Same, Less PROVE BudgetOK' /\ Received' /\ Shrinks
  <2>1. BudgetOK' /\ Shrinks
    BY <1>0, <1>12, SettingAssumption DEF BudgetOK, Shrinks
  <2> QED BY <1>12, <2>1 DEF Received
<1> HIDE DEF Same, Less
<1> QED BY <1>1, <1>2, <1>3, <1>4, <1>5, <1>6, <1>7, <1>8, <1>9, <1>10, <1>11,
           <1>12
        DEF Next

\* One step leaves amounts only with the tasks that post them.
LEMMA TasksStep ==
  ASSUME TypeOK, BudgetOK, TasksOwnAmounts, [Next]_vars
  PROVE  TasksOwnAmounts'
<1> DEFINE Pending(p) == pkt[p].st \in {"new", "forwarded"}
           Bare(t) == task[t].pc \in {"load", "delayed", "prefund"}
           Packet1 == \A p \in Packets : Pending(p)' => task'[p].pc = "idle"
           Task1 == \A t \in Threads : Bare(t)' => task'[t].amount = 0
<1> SUFFICES Packet1 /\ Task1
  BY DEF TasksOwnAmounts
<1>0. /\ task \in [Threads -> Task] /\ pkt \in [Packets -> Packet]
      /\ \A t \in Threads : task[t] \in Task
      /\ \A p \in Packets : pkt[p] \in Packet
      /\ Packets \subseteq Threads /\ Slots \subseteq Threads
      /\ Accounts \subseteq Threads /\ Edited \subseteq Accounts
      /\ \A p \in Packets : Pending(p) => task[p].pc = "idle"
      /\ \A t \in Threads : Bare(t) => task[t].amount = 0
  BY SettingAssumption DEF TypeOK, Threads, TasksOwnAmounts
<1>1. ASSUME NEW p \in Packets, Arrival(p) \/ DropRequest(p)
      PROVE  Packet1 /\ Task1
  <2>1. task' = task /\ \E v : pkt' = [pkt EXCEPT ![p] = v]
    BY <1>1 DEF Arrival, Prepare, PrepareRefused, PrepareFails, DropRequest
  <2>2. Pending(p)
    BY <1>1 DEF Arrival, Prepare, PrepareRefused, PrepareFails, DropRequest
  <2> QED BY <1>0, <2>1, <2>2
<1>2. ASSUME NEW p \in Packets, Fulfilled(p) \/ Rejected(p)
      PROVE  Packet1 /\ Task1
  <2>1. /\ pkt'[p].st \in {"fulfilled", "rejected"}
        /\ \A q \in Packets : q # p => pkt'[q] = pkt[q]
    BY <1>0, <1>2 DEF Fulfilled, Rejected, Packet
  <2>2. /\ \A t \in Threads : t # p => task'[t] = task[t]
        /\ task'[p] = task[p] \/ task'[p].pc \in {"fulfill", "reject"}
    BY <1>0, <1>2 DEF Fulfilled, Rejected, NewTask
  <2> QED BY <1>0, <2>1, <2>2
<1>3. ASSUME NEW t \in Threads, UNCHANGED pkt, task[t].pc # "idle", NEW v,
             task' = [task EXCEPT ![t] = v],
             v.pc \in {"load", "delayed", "prefund"} => v.amount = 0
      PROVE  Packet1 /\ Task1
  BY <1>0, <1>3
<1>4. ASSUME NEW t \in Threads, TaskStep(t) PROVE Packet1 /\ Task1
  <2>1. ASSUME NEW x, x \notin {"load", "delayed", "prefund"}
        PROVE  [task[t] EXCEPT !.pc = x].pc = x
    BY <1>0 DEF Task
  <2>2. \A a, n : SettleTask(task[t], a, n).pc \in {"done", "send"}
    BY <1>0 DEF SettleTask, Task
  <2>3. ASSUME \/ PostReject(t) \/ PostRefund(t) \/ PostFulfill(t) \/ LoadAccount(t)
        PROVE  /\ UNCHANGED pkt /\ task[t].pc # "idle"
               /\ \E v : /\ task' = [task EXCEPT ![t] = v]
                         /\ v.pc \in {"load", "delayed", "prefund"} => v.amount = 0
    BY <1>0, <2>3 DEF PostReject, PostRefund, PostFulfill, LoadAccount, Task
  <2>4. ASSUME Notify(t) \/ PostDelayed(t) \/ PostPrefund(t)
        PROVE  /\ UNCHANGED pkt /\ task[t].pc # "idle"
               /\ \E v : /\ task' = [task EXCEPT ![t] = v]
                         /\ v.pc \notin {"load", "delayed", "prefund"}
    <3>1. [task[t] EXCEPT !.pc = "done"].pc = "done"
      BY <2>1
    <3> QED BY <2>2, <2>4, <3>1 DEF Notify, PostDelayed, PostPrefund
  <2>5. ASSUME SendSettlement(t) \/ HandleReply(t)
        PROVE  /\ UNCHANGED pkt /\ task[t].pc # "idle"
               /\ \E v : /\ task' = [task EXCEPT ![t] = v]
                         /\ v.pc \notin {"load", "delayed", "prefund"}
    BY <1>0, <2>5 DEF SendSettlement, HandleReply, AfterError, Task
  <2> QED BY <1>3, <1>4, <2>3, <2>4, <2>5 DEF TaskStep
<1>5. ASSUME NEW t \in Threads, ClientTimeout(t) PROVE FALSE
  BY <1>5 DEF ClientTimeout, BudgetOK
<1>6. ASSUME NEW t \in Threads, NEW applied \in BOOLEAN,
             TaskStoreFails(t, applied)
      PROVE  Packet1 /\ Task1
  <2>1. [task[t] EXCEPT !.pc = "done"].pc = "done"
    BY <1>0 DEF Task
  <2> QED BY <1>3, <1>6, <2>1 DEF TaskStoreFails
<1>7. ASSUME NEW t \in Slots \cup Accounts, UNCHANGED pkt, NEW pc, NEW a,
             task' = [task EXCEPT ![t] = NewTask(pc, a, 0)]
      PROVE  Packet1 /\ Task1
  <2>1. t \in Threads /\ t \notin Packets /\ NewTask(pc, a, 0).amount = 0
    BY ThreadAssumption DEF Threads, NewTask
  <2> QED BY <1>0, <1>7, <2>1
<1>8. ASSUME NEW a \in Edited, StartPrefund(a) PROVE Packet1 /\ Task1
  BY <1>0, <1>7, <1>8 DEF StartPrefund
<1>9. ASSUME NEW k \in QueueKeys, NEW s \in Slots, SpawnDelayed(k, s)
      PROVE  Packet1 /\ Task1
  BY <1>0, <1>7, <1>9 DEF SpawnDelayed
<1>10. ASSUME EngineStep PROVE Packet1 /\ Task1
  <2>1. /\ UNCHANGED pkt
        /\ \A t \in Threads : /\ task'[t].pc = task[t].pc
                              /\ task'[t].amount = task[t].amount
    BY <1>0, <1>10 DEF EngineStep, EngineAccepts, EngineRefuses, EngineAnswers,
                       Task
  <2> QED BY <1>0, <2>1
<1>11. ASSUME UNCHANGED <<pkt, task>> PROVE Packet1 /\ Task1
  BY <1>0, <1>11
<1>12. ASSUME NEW k \in IncomingKeys,
              \/ UpdateBalanceForIncomingSettlement(k)
              \/ \E a \in Accounts, n \in Amounts : PaymentReceived(k, a, n)
       PROVE  UNCHANGED <<pkt, task>>
  BY <1>12 DEF UpdateBalanceForIncomingSettlement, PaymentReceived
<1>13. ASSUME TimerStep \/ UNCHANGED vars PROVE UNCHANGED <<pkt, task>>
  BY <1>13 DEF TimerStep, vars, serviceVars
<1>14. ASSUME Crash PROVE Packet1 /\ Task1
  BY <1>0, <1>14 DEF Crash, Task, Packet
<1> HIDE DEF Packet1, Task1
<1> QED BY <1>1, <1>2, <1>4, <1>5, <1>6, <1>8, <1>9, <1>10, <1>11, <1>12,
           <1>13, <1>14
        DEF Next

\* The invariant holds at the start, if no client ever stops waiting.
LEMMA BooksInit == ASSUME MaxTimeouts = 0 PROVE Init => Books
<1> SUFFICES ASSUME Init PROVE Books
  OBVIOUS
<1>1. TypeOK
  BY InitType
<1>2. Received /\ IsFiniteSet(requests)
  BY FS_EmptySet DEF Init, Received
<1>3. BudgetOK
  BY SettingAssumption DEF Init, BudgetOK
<1>4. \A t \in Threads : task[t].pc = "idle"
  BY DEF Init, NewTask
<1>5. FreshKeys /\ WaitsForRequest /\ TasksOwnAmounts
  BY <1>4 DEF Init, FreshKeys, WaitsForRequest, TasksOwnAmounts, Threads
<1> QED BY <1>1, <1>2, <1>3, <1>5 DEF Books

\* And every step keeps it.
LEMMA BooksStep == Books /\ [Next]_vars => Books'
<1> SUFFICES ASSUME Books, [Next]_vars PROVE Books'
  OBVIOUS
<1>1. TypeOK'
  BY NextType DEF Books
<1>2. BudgetOK' /\ Received'
  BY EnvironmentStep DEF Books
<1>3. FreshKeys' /\ WaitsForRequest' /\ IsFiniteSet(requests)'
  BY KeysStep
<1>4. TasksOwnAmounts'
  BY TasksStep DEF Books
<1> QED BY <1>1, <1>2, <1>3, <1>4 DEF Books

-----------------------------------------------------------------------------
(* What each operation does to the books *)

\* Money that nobody writes does not move.
LEMMA MoneyRests ==
  ASSUME TypeOK, UNCHANGED money, NEW a PROVE MoneyMoves(a, 0)
BY BookedType DEF MoneyMoves, BookedTyped

\* To move by 0 is to stay.
LEMMA MovesNothing ==
  ASSUME TypeOK, NEW a \in Accounts, Moves(a, 0) PROVE Stays
BY BookedType DEF Moves, Stays, BookedTyped

\* When neither the money nor what a task holds changes, nothing is booked.
LEMMA AllHold ==
  ASSUME TypeOK, UNCHANGED money,
         \A t \in Threads : task'[t].account = task[t].account /\ Held(t)' = Held(t)
  PROVE  Stays
<1>1. ASSUME NEW a \in Accounts PROVE HeldFor(a)' = HeldFor(a)
  BY DEF HeldFor
<1> QED BY <1>1 DEF Stays, Booked, InMemory

\* What a packet's new state does to what is due.
LEMMA PacketDue ==
  ASSUME TypeOK, Received, TypeOK', Received', UNCHANGED <<used, incoming, paid>>,
         NEW p \in Packets, \A q \in Packets : q # p => pkt'[q] = pkt[q],
         NEW a \in Accounts, NEW n \in Int,
         \A c \in Accounts :
           Effect(p, c)' = IF c = a THEN Effect(p, c) + n ELSE Effect(p, c)
  PROVE  DueMoves(a, n)
<1> SUFFICES ASSUME NEW c \in Accounts
             PROVE  Due(c)' = IF c = a THEN Due(c) + n ELSE Due(c)
  BY DEF DueMoves
<1>1. /\ \A q \in Packets : Effects(c)[q] \in Int
      /\ SumFunctionOnSet(Effects(c), Packets) \in Int
      /\ SumFunctionOnSet(Deposits(c), IncomingKeys) \in Int
      /\ paid[c] \in Nat
  BY DueType DEF DueTyped
<1>2. \A q \in Packets : Effects(c)'[q] \in Int
  BY DueTypePrime DEF DueTyped
<1>3. \A q \in Packets : q # p => Effects(c)'[q] = Effects(c)[q]
  BY DEF Effects, Effect
<1>4. Effects(c)'[p] = IF c = a THEN Effects(c)[p] + n ELSE Effects(c)[p]
  BY DEF Effects
<1>5. IsFiniteSet(Packets)
  BY FiniteAssumption, FS_Subset DEF Threads
<1>6. SumFunctionOnSet(Effects(c)', Packets) =
        SumFunctionOnSet(Effects(c), Packets) + Effects(c)'[p] - Effects(c)[p]
  <2> DEFINE f == Effects(c)
             g == Effects(c)'
  <2>1. \A q \in Packets : f[q] \in Int /\ g[q] \in Int /\ (q # p => g[q] = f[q])
    BY <1>1, <1>2, <1>3
  <2> HIDE DEF f, g
  <2>2. SumFunctionOnSet(g, Packets) = SumFunctionOnSet(f, Packets) + g[p] - f[p]
    BY <1>5, <2>1, SumUpdate
  <2> QED BY <2>2 DEF f, g
<1>7. Deposits(c)' = Deposits(c)
  BY DEF Deposits
<1> QED BY <1>1, <1>4, <1>6, <1>7 DEF Due

\* When packets, incoming settlements and payments rest, nothing is due.
LEMMA DueRests ==
  ASSUME UNCHANGED <<pkt, used, incoming, paid>> PROVE DueStays
BY DEF DueStays, Due, Effects, Effect, Deposits

\* process_prepare.lua takes the incoming amount when the packet is forwarded.
LEMMA PrepareMoves ==
  ASSUME Books, Books', NEW p \in Packets, NEW from \in Accounts,
         NEW to \in Accounts, NEW inc \in Amounts, NEW out \in Amounts,
         Prepare(p, from, to, inc, out)
  PROVE  Moves(from, -inc) /\ DueMoves(from, -inc)
<1>1. TypeOK /\ TypeOK' /\ Received /\ Received' /\ inc \in Nat
  BY SettingAssumption DEF Books
<1>2. MoneyMoves(from, -inc)
  <2>1. money \in [Accounts -> Money] /\ money[from] \in Money
    BY <1>1 DEF TypeOK
  <2>2. money' = [money EXCEPT ![from] = Deduct(money[from], inc)]
    BY DEF Prepare
  <2>3. Position(Deduct(money[from], inc)) = Position(money[from]) - inc
    BY <1>1, <2>1, DeductLemma
  <2>4. \A c \in Accounts : Position(money[c]) \in Int
    BY <1>1, BookedType DEF BookedTyped
  <2> QED BY <1>1, <2>1, <2>2, <2>3, <2>4 DEF MoneyMoves
<1>3. task' = task /\ engineKeys' = engineKeys
  BY DEF Prepare
<1>4. \A t \in Threads : task'[t].account = task[t].account /\ Held(t)' = Held(t)
  BY <1>3 DEF Held
<1>5. task[p].pc = "idle" /\ p \in Threads
  BY DEF Books, TasksOwnAmounts, Prepare, Threads
<1>6. Held(p) = 0 /\ Held(p)' = 0
  BY <1>3, <1>5 DEF Held
<1>7. Moves(from, -inc + 0 - 0)
  BY <1>1, <1>2, <1>4, <1>5, <1>6, TaskMoves DEF OthersHold
<1>8. DueMoves(from, -inc)
  <2>1. /\ pkt[p].st = "new"
        /\ pkt' = [pkt EXCEPT ![p] = [st |-> "forwarded", from |-> from,
                                      to |-> to, inc |-> inc, out |-> out]]
        /\ pkt \in [Packets -> Packet]
        /\ UNCHANGED <<used, incoming, paid>>
    BY <1>1 DEF Prepare, TypeOK
  <2>2. \A c \in Accounts :
          Effect(p, c)' = IF c = from THEN Effect(p, c) + (-inc) ELSE Effect(p, c)
    BY <1>1, <2>1 DEF Effect
  <2>3. \A q \in Packets : q # p => pkt'[q] = pkt[q]
    BY <2>1
  <2> QED BY <1>1, <2>1, <2>2, <2>3, PacketDue
<1> QED BY <1>1, <1>7, <1>8

\* An answer is due, and booked by its task, in the step that passes it back.
LEMMA AnswerMoves ==
  ASSUME Books, Books', NEW p \in Packets
  PROVE  /\ Fulfilled(p) => /\ Moves(pkt[p].to, pkt[p].out)
                            /\ DueMoves(pkt[p].to, pkt[p].out)
         /\ Rejected(p) => /\ Moves(pkt[p].from, pkt[p].inc)
                           /\ DueMoves(pkt[p].from, pkt[p].inc)
<1>1. /\ TypeOK /\ TypeOK' /\ Received /\ Received'
      /\ task \in [Threads -> Task] /\ pkt \in [Packets -> Packet]
      /\ p \in Threads
  BY DEF Books, TypeOK, Threads
<1>2. /\ pkt[p] \in Packet /\ pkt[p].to \in Accounts /\ pkt[p].from \in Accounts
      /\ pkt[p].inc \in Nat /\ pkt[p].out \in Nat
  BY <1>1 DEF Packet
<1>3. ASSUME pkt[p].st = "forwarded", UNCHANGED <<money, engineKeys>>,
             NEW pc \in {"fulfill", "reject"}, NEW a \in Accounts, NEW n \in Nat,
             \/ task' = [task EXCEPT ![p] = NewTask(pc, a, n)]
             \/ task' = task /\ n = 0
      PROVE  Moves(a, n)
  <2>1. task[p].pc = "idle"
    BY <1>3 DEF Books, TasksOwnAmounts
  <2>2. Held(p) = 0
    BY <2>1 DEF Held
  <2>3. \A u \in Threads : u # p => task'[u] = task[u]
    BY <1>1, <1>3
  <2>4. OthersHold(p)
    BY <1>3, <2>3 DEF OthersHold, Held
  <2>5. Held(p)' = n /\ (task'[p].account = a \/ Held(p)' = 0)
    BY <1>1, <1>3, <2>1 DEF Held, NewTask
  <2>6. Moves(a, 0 + n - 0)
    BY <1>1, <1>3, <2>2, <2>4, <2>5, MoneyRests, TaskMoves
  <2> QED BY <2>6
<1>4. ASSUME Fulfilled(p)
      PROVE  Moves(pkt[p].to, pkt[p].out) /\ DueMoves(pkt[p].to, pkt[p].out)
  <2>0. /\ pkt[p].st = "forwarded" /\ UNCHANGED <<money, engineKeys>>
        /\ \/ task' = [task EXCEPT ![p] = NewTask("fulfill", pkt[p].to, pkt[p].out)]
           \/ task' = task /\ pkt[p].out = 0
    BY <1>2, <1>4 DEF Fulfilled
  <2>1. Moves(pkt[p].to, pkt[p].out)
    BY <1>2, <1>3, <2>0
  <2>2. /\ pkt[p].st = "forwarded" /\ UNCHANGED <<used, incoming, paid>>
        /\ pkt' = [pkt EXCEPT ![p] = [pkt[p] EXCEPT !.st = "fulfilled"]]
    BY <1>4 DEF Fulfilled
  <2>3. /\ pkt'[p].st = "fulfilled" /\ pkt'[p].from = pkt[p].from
        /\ pkt'[p].to = pkt[p].to /\ pkt'[p].inc = pkt[p].inc
        /\ pkt'[p].out = pkt[p].out
        /\ \A q \in Packets : q # p => pkt'[q] = pkt[q]
    BY <1>1, <1>2, <2>2 DEF Packet
  <2>4. \A c \in Accounts : Effect(p, c)' =
          IF c = pkt[p].to THEN Effect(p, c) + pkt[p].out ELSE Effect(p, c)
    BY <1>2, <2>2, <2>3 DEF Effect
  <2>5. DueMoves(pkt[p].to, pkt[p].out)
    BY <1>1, <1>2, <2>2, <2>3, <2>4, PacketDue
  <2> QED BY <2>1, <2>5
<1>5. ASSUME Rejected(p)
      PROVE  Moves(pkt[p].from, pkt[p].inc) /\ DueMoves(pkt[p].from, pkt[p].inc)
  <2>1. Moves(pkt[p].from, pkt[p].inc)
    BY <1>2, <1>3, <1>5 DEF Rejected, ZeroAmount
  <2>2. /\ pkt[p].st = "forwarded" /\ UNCHANGED <<used, incoming, paid>>
        /\ pkt' = [pkt EXCEPT ![p] = [pkt[p] EXCEPT !.st = "rejected"]]
    BY <1>5 DEF Rejected
  <2>3. /\ pkt'[p].st = "rejected" /\ pkt'[p].from = pkt[p].from
        /\ pkt'[p].to = pkt[p].to /\ pkt'[p].inc = pkt[p].inc
        /\ pkt'[p].out = pkt[p].out
        /\ \A q \in Packets : q # p => pkt'[q] = pkt[q]
    BY <1>1, <1>2, <2>2 DEF Packet
  <2>4. \A c \in Accounts : Effect(p, c)' =
          IF c = pkt[p].from THEN Effect(p, c) + pkt[p].inc ELSE Effect(p, c)
    BY <1>2, <2>2, <2>3 DEF Effect
  <2>5. DueMoves(pkt[p].from, pkt[p].inc)
    BY <1>1, <1>2, <2>2, <2>3, <2>4, PacketDue
  <2> QED BY <2>1, <2>5
<1> QED BY <1>4, <1>5

\* A script moves the money by the amount it posts less what it settles.
LEMMA ScriptMoves ==
  ASSUME TypeOK, NEW t \in Threads, RunScript(t)
  PROVE  /\ task[t].account \in Accounts /\ task[t].amount \in Nat
         /\ ToSettle(t) \in Nat
         /\ MoneyMoves(task[t].account, task[t].amount - ToSettle(t))
<1> DEFINE a == task[t].account
           n == task[t].amount
           s == ToSettle(t)
<1>1. a \in Accounts /\ n \in Nat /\ s \in Nat
  BY ScriptLemma DEF TypeOK, Task
<1>2. money' = [money EXCEPT ![a].balance = @ + n - s]
  BY DEF RunScript
<1>3. money \in [Accounts -> Money]
  BY DEF TypeOK
<1> HIDE DEF a, n, s
<1>4. MoneyMoves(a, n - s)
  <2> SUFFICES ASSUME NEW c \in Accounts
               PROVE  Position(money'[c]) = IF c = a THEN Position(money[c]) + (n - s)
                                                     ELSE Position(money[c])
    BY DEF MoneyMoves
  <2>1. money[c] \in Money /\ money[c].balance \in Int
        /\ money[c].prepaid_amount \in Nat
    BY <1>3 DEF Money
  <2> QED BY <1>1, <1>2, <1>3, <2>1 DEF Position, Money
<1> QED BY <1>1, <1>4 DEF a, n, s

\* What a task holds after settle_or_rollback: the amount, or nothing when the
\* account has no engine.
Kept(a, n) == IF has_engine[a] THEN n ELSE 0

\* A step of one task: it writes only its own locals, and the keys rest.
OwnStep(t) == 
  /\ UNCHANGED engineKeys
  /\ \A u \in Threads : u # t => task'[u] = task[u]

\* What the other tasks hold is not affected by a task's own step.
LEMMA OwnStepHolds ==
  ASSUME NEW t \in Threads, OwnStep(t) PROVE OthersHold(t)
BY DEF OwnStep, OthersHold, Held

\* The store calls of the tasks: what leaves the task's memory reaches the
\* money, and what leaves the money reaches the task's memory, unless the
\* account has no engine.
LEMMA PostMoves ==
  ASSUME Books, Books', NEW t \in Threads
  PROVE  /\ PostFulfill(t) \/ PostReject(t) \/ PostRefund(t) => Stays
         /\ PostDelayed(t) \/ PostPrefund(t) =>
              Moves(task[t].account,
                    Kept(task[t].account, ToSettle(t)) - ToSettle(t))
<1> DEFINE a == task[t].account
           n == task[t].amount
           s == ToSettle(t)
<1>1. /\ TypeOK /\ TypeOK' /\ task \in [Threads -> Task] /\ task[t] \in Task
      /\ a \in Accounts /\ n \in Nat
  BY DEF Books, TypeOK, Task
<1>2. ASSUME PostReject(t) \/ PostRefund(t) PROVE Stays
  <2>1. s = 0
    BY <1>2 DEF PostReject, PostRefund, ToSettle
  <2>2. RunScript(t) /\ OwnStep(t)
    BY <1>1, <1>2 DEF PostReject, PostRefund, OwnStep
  <2>3. MoneyMoves(a, n)
    BY <1>1, <2>1, <2>2, ScriptMoves
  <2>4. Held(t) = n /\ Held(t)' = 0
    BY <1>1, <1>2 DEF PostReject, PostRefund, Held, Task
  <2>5. Moves(a, n + 0 - n)
    BY <1>1, <2>2, <2>3, <2>4, OwnStepHolds, TaskMoves
  <2> QED BY <1>1, <2>5, MovesNothing
<1>3. ASSUME PostFulfill(t) PROVE Stays
  <2>1. RunScript(t) /\ OwnStep(t)
    BY <1>1, <1>3 DEF PostFulfill, OwnStep
  <2>2. s \in Nat /\ MoneyMoves(a, n - s)
    BY <1>1, <2>1, ScriptMoves
  <2>3. Held(t) = n
    BY <1>3 DEF PostFulfill, Held
  <2>4. task'[t].pc = "notify" /\ task'[t].amount = s /\ task'[t].account = a
    BY <1>1, <1>3 DEF PostFulfill, Task
  <2>5. Held(t)' = s
    BY <2>4 DEF Held
  <2> HIDE DEF s, a, n
  <2>6. Moves(a, (n - s) + s - n)
    BY <1>1, <2>1, <2>2, <2>3, <2>4, <2>5, OwnStepHolds, TaskMoves DEF a
  <2> QED BY <1>1, <2>2, <2>6, MovesNothing
<1>4. ASSUME PostDelayed(t) \/ PostPrefund(t)
      PROVE  Moves(a, Kept(a, s) - s)
  <2>1. RunScript(t) /\ n = 0
    BY <1>4 DEF PostDelayed, PostPrefund, Books, TasksOwnAmounts
  <2>2. OwnStep(t) /\ task'[t] = SettleTask(task[t], a, s)
    BY <1>1, <1>4 DEF PostDelayed, PostPrefund, OwnStep
  <2>3. s \in Nat /\ MoneyMoves(a, -s)
    <3>1. s \in Nat /\ MoneyMoves(a, n - s)
      BY <1>1, <2>1, ScriptMoves
    <3> QED BY <2>1, <3>1
  <2>4. Held(t) = 0
    BY <1>4 DEF PostDelayed, PostPrefund, Held
  <2>5. Held(t)' = Kept(a, s) /\ task'[t].account = a
    <3> HIDE DEF s
    <3> QED BY <1>1, <2>2, <2>3, SettingAssumption DEF SettleTask, Held, Kept, Task
  <2> HIDE DEF s, a, n
  <2>6. Moves(a, (-s) + Kept(a, s) - 0)
    BY <1>1, <2>2, <2>3, <2>4, <2>5, OwnStepHolds, TaskMoves
  <2>7. Kept(a, s) \in Nat
    BY <1>1, <2>3, SettingAssumption DEF Kept
  <2> QED BY <2>3, <2>6, <2>7
<1> QED BY <1>2, <1>3, <1>4

\* The rest of settle_or_rollback_now keeps the amount, unless the account has
\* no engine.
LEMMA NotifyMoves ==
  ASSUME Books, Books', NEW t \in Threads, Notify(t)
  PROVE  Moves(task[t].account,
               Kept(task[t].account, task[t].amount) - task[t].amount)
<1> DEFINE a == task[t].account
           n == task[t].amount
<1>1. /\ TypeOK /\ TypeOK' /\ task \in [Threads -> Task] /\ task[t] \in Task
      /\ a \in Accounts /\ n \in Nat
  BY DEF Books, TypeOK, Task
<1>2. OwnStep(t) /\ UNCHANGED money
  BY <1>1 DEF Notify, OwnStep
<1>3. \/ n = 0 /\ task'[t] = [task[t] EXCEPT !.pc = "done"]
      \/ n # 0 /\ task'[t] = SettleTask(task[t], a, n)
  BY <1>1 DEF Notify
<1>4. Held(t) = n
  BY DEF Notify, Held
<1>5. Held(t)' = Kept(a, n) /\ task'[t].account = a
  BY <1>1, <1>3, SettingAssumption DEF SettleTask, Held, Kept, Task
<1>6. MoneyMoves(a, 0)
  BY <1>1, <1>2, MoneyRests
<1> HIDE DEF a, n
<1>7. Moves(a, 0 + Kept(a, n) - n)
  BY <1>1, <1>2, <1>4, <1>5, <1>6, OwnStepHolds, TaskMoves DEF a
<1>8. Kept(a, n) \in Nat
  BY <1>1, SettingAssumption DEF Kept
<1> QED BY <1>1, <1>7, <1>8 DEF a, n

\* Starting a task, loading the account and sending a request book nothing.
LEMMA ClientMoves ==
  ASSUME Books, Books', NEW t \in Threads
  PROVE  /\ LoadAccount(t) => Stays
         /\ SendSettlement(t) => Stays
         /\ t \in Edited /\ StartPrefund(t) => Stays
         /\ \A k \in QueueKeys : SpawnDelayed(k, t) => Stays
<1>1. /\ TypeOK /\ TypeOK' /\ task \in [Threads -> Task] /\ task[t] \in Task
      /\ task[t].account \in Accounts
  BY DEF Books, TypeOK, Task
<1>2. ASSUME OwnStep(t), UNCHANGED money, NEW a \in Accounts,
             task[t].account = a \/ Held(t) = 0,
             task'[t].account = a \/ Held(t)' = 0, Held(t)' = Held(t)
      PROVE  Stays
  <2>1. Held(t) \in Nat
    BY <1>1, BookedType DEF BookedTyped
  <2>2. Moves(a, 0 + Held(t)' - Held(t))
    BY <1>1, <1>2, MoneyRests, OwnStepHolds, TaskMoves
  <2>3. Moves(a, 0)
    BY <1>2, <2>1, <2>2
  <2> QED BY <1>1, <1>2, <2>3, MovesNothing
<1>3. ASSUME LoadAccount(t) PROVE Stays
  <2>1. Held(t) = 0 /\ Held(t)' = 0
    BY <1>1, <1>3 DEF LoadAccount, Held, Task
  <2>2. OwnStep(t) /\ UNCHANGED money
    BY <1>1, <1>3 DEF LoadAccount, OwnStep
  <2> QED BY <1>1, <1>2, <2>1, <2>2
<1>4. ASSUME SendSettlement(t) PROVE Stays
  <2>1. OwnStep(t) /\ UNCHANGED money
    BY <1>1, <1>4 DEF SendSettlement, OwnStep
  <2>2. /\ task'[t].pc = "wait" /\ task'[t].key = nextKey
        /\ task'[t].account = task[t].account
        /\ task'[t].amount = task[t].amount
        /\ engineKeys' = engineKeys /\ task[t].pc = "send"
    BY <1>1, <1>4 DEF SendSettlement, Task
  <2>3. nextKey \notin engineKeys
    <3>1. nextKey \in Nat /\ \A k \in engineKeys : k \in Nat /\ k < nextKey
      BY DEF Books, FreshKeys, TypeOK
    <3> QED BY <3>1
  <2>4. Held(t) = task[t].amount /\ Held(t)' = task[t].amount
    BY <2>2, <2>3 DEF Held
  <2> QED BY <1>1, <1>2, <2>1, <2>2, <2>4
<1>5. ASSUME OwnStep(t), UNCHANGED money, task[t].pc \in {"idle", "done"},
             task'[t].pc \in {"load", "prefund"}
      PROVE  Stays
  <2>1. Held(t) = 0 /\ Held(t)' = 0
    BY <1>5 DEF Held
  <2> QED BY <1>1, <1>2, <1>5, <2>1
<1>6. ASSUME StartPrefund(t) PROVE Stays
  BY <1>1, <1>5, <1>6 DEF StartPrefund, OwnStep, NewTask
<1>7. ASSUME NEW k \in QueueKeys, SpawnDelayed(k, t) PROVE Stays
  BY <1>1, <1>5, <1>7 DEF SpawnDelayed, OwnStep, NewTask
<1> QED BY <1>3, <1>4, <1>6, <1>7

\* The client's answer books nothing; a prefunding that is given up loses its
\* amount.
LEMMA ReplyMoves ==
  ASSUME Books, Books', NEW t \in Threads, HandleReply(t)
  PROVE  \/ Stays
         \/ t \in Accounts /\ Moves(task[t].account, -task[t].amount)
<1> DEFINE a == task[t].account
           n == task[t].amount
<1>1. /\ TypeOK /\ TypeOK' /\ task \in [Threads -> Task] /\ task[t] \in Task
      /\ a \in Accounts /\ n \in Nat
  BY DEF Books, TypeOK, Task
<1>2. OwnStep(t) /\ UNCHANGED money
  BY <1>1 DEF HandleReply, OwnStep
<1>3. /\ task[t].pc = "wait"
      /\ \/ task[t].reply = "ok" /\ task[t].key \in engineKeys
         \/ task[t].reply \in {"4xx", "5xx"} /\ task[t].key \notin engineKeys
  BY <1>1 DEF HandleReply, Books, WaitsForRequest, Task
<1>4. /\ task'[t].account = a /\ task'[t].amount = n /\ engineKeys' = engineKeys
      /\ \/ task[t].reply = "ok" /\ task'[t].pc = "done"
         \/ task[t].reply # "ok" /\ task'[t].pc \in {"refund", "send"}
         \/ task[t].reply # "ok" /\ t \in Accounts /\ task'[t].pc = "done"
  BY <1>1 DEF HandleReply, AfterError, Task
<1>5. \/ Held(t)' = Held(t)
      \/ t \in Accounts /\ Held(t)' = 0 /\ Held(t) = n
  BY <1>3, <1>4 DEF Held
<1>6. Held(t) \in Nat /\ Held(t)' \in Nat
  BY <1>1, BookedType, BookedTypePrime DEF BookedTyped
<1>7. MoneyMoves(a, 0)
  BY <1>1, <1>2, MoneyRests
<1> HIDE DEF a, n
<1>8. Moves(a, 0 + Held(t)' - Held(t))
  BY <1>1, <1>2, <1>4, <1>7, OwnStepHolds, TaskMoves DEF a
<1>9. CASE Held(t)' = Held(t)
  <2>1. Moves(a, 0)
    BY <1>6, <1>8, <1>9
  <2> QED BY <1>1, <2>1, MovesNothing
<1>10. CASE t \in Accounts /\ Held(t)' = 0 /\ Held(t) = n
  <2>1. Moves(a, -n)
    BY <1>1, <1>8, <1>10
  <2> QED BY <1>10, <2>1 DEF a, n
<1> QED BY <1>5, <1>9, <1>10

\* A failed store call of a task can only cost its account.
LEMMA FaultMoves ==
  ASSUME Books, Books', NEW t \in Threads, NEW applied \in BOOLEAN,
         TaskStoreFails(t, applied)
  PROVE  \E n \in Nat : Moves(task[t].account, -n)
<1> DEFINE a == task[t].account
           n == task[t].amount
           s == ToSettle(t)
<1>1. /\ TypeOK /\ TypeOK' /\ task \in [Threads -> Task] /\ task[t] \in Task
      /\ a \in Accounts /\ n \in Nat
  BY DEF Books, TypeOK, Task
<1>2. OwnStep(t)
  BY <1>1 DEF TaskStoreFails, OwnStep
<1>3. task'[t].pc = "done" /\ task'[t].account = a
  BY <1>1 DEF TaskStoreFails, Task
<1>4. Held(t)' = 0
  BY <1>3 DEF Held
<1>5. Held(t) = n
  BY DEF TaskStoreFails, Held, Books, TasksOwnAmounts
<1>6. \/ s \in Nat /\ MoneyMoves(a, n - s)
      \/ MoneyMoves(a, 0)
  BY <1>1, ScriptMoves, MoneyRests DEF TaskStoreFails
<1> HIDE DEF a, n, s
<1>7. CASE s \in Nat /\ MoneyMoves(a, n - s)
  <2>1. Moves(a, (n - s) + 0 - n)
    BY <1>1, <1>2, <1>4, <1>5, <1>7, OwnStepHolds, TaskMoves DEF a
  <2>2. (n - s) + 0 - n = -s
    BY <1>1, <1>7
  <2> QED BY <1>7, <2>1, <2>2 DEF a
<1>8. CASE MoneyMoves(a, 0)
  <2>1. Moves(a, 0 + 0 - n)
    BY <1>1, <1>2, <1>4, <1>5, <1>8, OwnStepHolds, TaskMoves DEF a
  <2>2. 0 + 0 - n = -n
    BY <1>1
  <2> QED BY <1>1, <2>1, <2>2 DEF a
<1> QED BY <1>6, <1>7, <1>8

\* A restart empties the memory: positions only fall.
LEMMA CrashMoves ==
  ASSUME Books, Books', Crash
  PROVE  \A c \in Accounts : InMemory(c)' = 0 /\ Booked(c)' = Position(money[c])
<1>1. TypeOK /\ TypeOK' /\ task \in [Threads -> Task] /\ money' = money
  BY DEF Books, TypeOK, Crash
<1>2. \A t \in Threads : task'[t].pc \in {"idle", "done"}
  BY <1>1 DEF Crash, Task
<1>3. ASSUME NEW c \in Accounts PROVE InMemory(c)' = 0
  <2>1. \A t \in Threads : HeldFor(c)'[t] = 0
    BY <1>2 DEF HeldFor, Held
  <2> QED BY <2>1, SumZero, FiniteAssumption DEF InMemory
<1> QED BY <1>1, <1>3, BookedType DEF Booked, BookedTyped

\* A restart does not change what is due: a packet without an answer keeps its
\* incoming amount.
LEMMA CrashDue ==
  ASSUME Books, Crash PROVE DueStays
<1>1. pkt \in [Packets -> Packet]
  BY DEF Books, TypeOK
<1>2. \A p \in Packets, c \in Accounts : Effect(p, c)' = Effect(p, c)
  BY <1>1 DEF Crash, Effect, Packet
<1>3. \A c \in Accounts : Effects(c)' = Effects(c)
  BY <1>2 DEF Effects
<1>4. UNCHANGED <<used, incoming, paid>>
  BY DEF Crash
<1> QED BY <1>3, <1>4 DEF DueStays, Due, Deposits

\* The engine's payment is due; it is booked when the client of the request
\* still waits.
LEMMA AcceptMoves ==
  ASSUME Books, Books', NEW r \in requests, EngineAccepts(r)
  PROVE  /\ DueMoves(r.account, -r.amount)
         /\ \/ /\ \E t \in Threads : task[t].pc = "wait" /\ RequestOf(t) = r
               /\ Moves(r.account, -r.amount)
            \/ /\ \A t \in Threads : task[t].pc = "wait" => task[t].key # r.key
               /\ Stays
<1>1. /\ TypeOK /\ TypeOK' /\ Received /\ Received' /\ task \in [Threads -> Task]
      /\ \A t \in Threads : task[t] \in Task
      /\ r \in Request /\ r.account \in Accounts /\ r.amount \in Nat
      /\ r.key \notin engineKeys /\ paid \in [Accounts -> Nat]
  BY DEF Books, TypeOK, Request, FreshKeys
<1>2. /\ engineKeys' = engineKeys \cup {r.key}
      /\ paid' = [paid EXCEPT ![r.account] = @ + r.amount]
      /\ UNCHANGED <<money, used, incoming, pkt>>
      /\ \A t \in Threads : /\ task'[t].pc = task[t].pc
                            /\ task'[t].key = task[t].key
                            /\ task'[t].account = task[t].account
                            /\ task'[t].amount = task[t].amount
  BY <1>1 DEF EngineAccepts, EngineAnswers, Task
<1>3. DueMoves(r.account, -r.amount)
  <2> SUFFICES ASSUME NEW c \in Accounts
               PROVE  Due(c)' = IF c = r.account THEN Due(c) + (-r.amount) ELSE Due(c)
    BY DEF DueMoves
  <2>1. /\ SumFunctionOnSet(Effects(c), Packets) \in Int
        /\ SumFunctionOnSet(Deposits(c), IncomingKeys) \in Int
        /\ paid[c] \in Nat
    BY <1>1, DueType DEF DueTyped
  <2>2. Effects(c)' = Effects(c) /\ Deposits(c)' = Deposits(c)
    BY <1>2 DEF Effects, Effect, Deposits
  <2>3. paid'[c] = IF c = r.account THEN paid[c] + r.amount ELSE paid[c]
    BY <1>1, <1>2
  <2> QED BY <1>1, <2>1, <2>2, <2>3 DEF Due
<1>4. \A t \in Threads : ~(task[t].pc = "wait" /\ task[t].key = r.key)
        => Held(t)' = Held(t)
  BY <1>2 DEF Held
<1>5. ASSUME NEW t \in Threads, task[t].pc = "wait", task[t].key = r.key
      PROVE  RequestOf(t) = r /\ Moves(r.account, -r.amount)
  <2>1. task[t].reply = "none"
    BY <1>1, <1>5 DEF Books, WaitsForRequest, Task
  <2>2. RequestOf(t) \in requests /\ RequestOf(t).key = r.key
    BY <1>5, <2>1 DEF Books, WaitsForRequest, RequestOf
  <2>3. RequestOf(t) = r
    BY <2>2 DEF Books, FreshKeys
  <2>4. task[t].account = r.account /\ task[t].amount = r.amount
    BY <2>3 DEF RequestOf
  <2>5. OthersHold(t)
    BY <1>2, <1>4, <1>5 DEF OthersHold, Books, FreshKeys
  <2>6. Held(t) = r.amount /\ Held(t)' = 0
    BY <1>1, <1>2, <1>5, <2>4 DEF Held
  <2>7. MoneyMoves(r.account, 0)
    BY <1>1, <1>2, MoneyRests
  <2>8. Moves(r.account, 0 + 0 - r.amount)
    BY <1>1, <1>2, <2>4, <2>5, <2>6, <2>7, TaskMoves
  <2> QED BY <1>1, <2>3, <2>8
<1>6. ASSUME \A t \in Threads : task[t].pc = "wait" => task[t].key # r.key
      PROVE  Stays
  BY <1>1, <1>2, <1>4, <1>6, AllHold
<1> QED BY <1>3, <1>5, <1>6

\* A refusal books nothing.
LEMMA RefuseMoves ==
  ASSUME Books, NEW r \in requests, NEW e \in {"4xx", "5xx"}, EngineRefuses(r, e)
  PROVE  Stays /\ DueStays
<1>1. TypeOK /\ task \in [Threads -> Task] /\ \A t \in Threads : task[t] \in Task
  BY DEF Books, TypeOK
<1>2. /\ UNCHANGED <<engineKeys, paid, money, used, incoming, pkt>>
      /\ \A t \in Threads : /\ task'[t].pc = task[t].pc
                            /\ task'[t].key = task[t].key
                            /\ task'[t].account = task[t].account
                            /\ task'[t].amount = task[t].amount
  BY <1>1 DEF EngineRefuses, EngineAnswers, Task
<1>3. \A t \in Threads : Held(t)' = Held(t)
  BY <1>2 DEF Held
<1> QED BY <1>1, <1>2, <1>3, AllHold, DueRests

\* An incoming settlement is booked and due when it is first reported.
LEMMA IncomingMoves ==
  ASSUME Books, Books', NEW k \in IncomingKeys,
         UpdateBalanceForIncomingSettlement(k)
  PROVE  \/ k \in used /\ Stays /\ DueStays
         \/ /\ k \notin used
            /\ incoming[k].account \in Accounts /\ incoming[k].amount \in Nat
            /\ Moves(incoming[k].account, incoming[k].amount)
            /\ DueMoves(incoming[k].account, incoming[k].amount)
<1>1. TypeOK /\ TypeOK' /\ Received /\ Received'
  BY DEF Books
<1>2. /\ UNCHANGED <<incoming, pkt, task, engineKeys, paid>>
      /\ used' = used \cup {k}
  BY DEF UpdateBalanceForIncomingSettlement
<1>3. \A t \in Threads : task'[t].account = task[t].account /\ Held(t)' = Held(t)
  BY <1>2 DEF Held
<1>4. CASE k \in used
  <2>1. UNCHANGED <<used, money>>
    BY <1>2, <1>4 DEF UpdateBalanceForIncomingSettlement
  <2> QED BY <1>1, <1>2, <1>3, <1>4, <2>1, AllHold, DueRests
<1>5. CASE k \notin used
  <2> DEFINE a == incoming[k].account
             n == incoming[k].amount
  <2>1. a \in Accounts /\ n \in Nat
    <3>1. incoming[k] \in [account : Accounts, amount : Amounts]
      BY <1>1 DEF UpdateBalanceForIncomingSettlement, TypeOK
    <3> QED BY <3>1, SettingAssumption
  <2>2. money' = [money EXCEPT ![a] = CreditIncoming(money[a], n)]
    BY <1>5 DEF UpdateBalanceForIncomingSettlement
  <2>3. MoneyMoves(a, n)
    <3>1. money \in [Accounts -> Money] /\ money[a] \in Money
      BY <1>1, <2>1 DEF TypeOK
    <3> HIDE DEF a, n
    <3>2. Position(CreditIncoming(money[a], n)) = Position(money[a]) + n
      BY <2>1, <3>1, CreditIncomingLemma
    <3> QED BY <2>1, <2>2, <3>1, <3>2 DEF MoneyMoves
  <2>4. Moves(a, n)
    <3> HIDE DEF a, n
    <3> SUFFICES ASSUME NEW c \in Accounts
                 PROVE  Booked(c)' = IF c = a THEN Booked(c) + n ELSE Booked(c)
      BY DEF Moves
    <3>1. InMemory(c)' = InMemory(c)
      BY <1>3 DEF InMemory, HeldFor
    <3>2. InMemory(c) \in Nat /\ Position(money[c]) \in Int
      BY <1>1, BookedType DEF BookedTyped
    <3> QED BY <2>1, <2>3, <3>1, <3>2 DEF Booked, MoneyMoves
  <2>5. DueMoves(a, n)
    <3> SUFFICES ASSUME NEW c \in Accounts
                 PROVE  Due(c)' = IF c = a THEN Due(c) + n ELSE Due(c)
      BY DEF DueMoves
    <3> DEFINE f == Deposits(c)
               g == Deposits(c)'
    <3>1. /\ SumFunctionOnSet(Effects(c), Packets) \in Int
          /\ SumFunctionOnSet(f, IncomingKeys) \in Int
          /\ paid[c] \in Nat
      BY <1>1, DueType DEF DueTyped
    <3>2. Effects(c)' = Effects(c) /\ paid' = paid
      BY <1>2 DEF Effects, Effect
    <3>3. \A j \in IncomingKeys : f[j] \in Int /\ g[j] \in Int
      BY <1>1, DueType, DueTypePrime DEF DueTyped
    <3>4. \A j \in IncomingKeys : j # k => g[j] = f[j]
      BY <1>2 DEF Deposits
    <3>5. f[k] = 0 /\ g[k] = IF c = a THEN n ELSE 0
      BY <1>2, <1>5 DEF Deposits
    <3>6. Due(c) = SumFunctionOnSet(Effects(c), Packets)
                     + SumFunctionOnSet(f, IncomingKeys) - paid[c]
      BY DEF Due
    <3>7. Due(c)' = SumFunctionOnSet(Effects(c), Packets)
                     + SumFunctionOnSet(g, IncomingKeys) - paid[c]
      BY <3>2 DEF Due
    <3> HIDE DEF f, g, a, n
    <3>8. SumFunctionOnSet(g, IncomingKeys) =
            SumFunctionOnSet(f, IncomingKeys) + g[k] - f[k]
      BY <3>3, <3>4, SumUpdate, FiniteAssumption
    <3> QED BY <2>1, <3>1, <3>3, <3>5, <3>6, <3>7, <3>8
  <2> QED BY <1>5, <2>1, <2>4, <2>5
<1> QED BY <1>4, <1>5

-----------------------------------------------------------------------------
(* Settlements stay above the limit *)

\* A script that settles leaves the account at settle_to or above.
LEMMA SettlingScript ==
  ASSUME TypeOK, NEW t \in Threads, RunScript(t), ToSettle(t) # 0
  PROVE  LET a == task[t].account
         IN /\ SettlementConfigured(settle_threshold[a], settle_to[a])
            /\ Position(money'[a]) >= settle_to[a]
<1> DEFINE a == task[t].account
           m == money[a]
           n == task[t].amount
           s == ToSettle(t)
           b == m.balance + n
<1>1. /\ a \in Accounts /\ m \in Money /\ n \in Nat
      /\ m.balance \in Int /\ m.prepaid_amount \in Nat /\ b \in Int
      /\ settle_threshold[a] \in Setting /\ settle_to[a] \in Setting
  BY SettingAssumption DEF TypeOK, Task, Money
<1>2. s \in Nat /\ Position(money'[a]) = Position(money[a]) + (n - s)
  BY <1>1, ScriptMoves DEF MoneyMoves
<1>3. Position(money[a]) = m.balance + m.prepaid_amount
  BY DEF Position
<1>4. \/ s = AmountOverThreshold(b, settle_threshold[a], settle_to[a])
      \/ s = AmountOverSettleTo(m.balance, settle_threshold[a], settle_to[a])
  BY DEF ToSettle
<1>5. s # 0
  OBVIOUS
<1> HIDE DEF s
<1>6. /\ SettlementConfigured(settle_threshold[a], settle_to[a])
      /\ b - s = settle_to[a] \/ m.balance - s = settle_to[a]
  BY <1>1, <1>4, <1>5, SettleLemma
<1>7. settle_to[a] \in Int
  BY <1>1, <1>6, NoneAssumption DEF SettlementConfigured, Setting
<1>8. Position(money'[a]) >= settle_to[a]
  <2>1. Position(money'[a]) = m.balance + m.prepaid_amount + n - s
    BY <1>1, <1>2, <1>3
  <2> HIDE DEF m, n, a
  <2> QED BY <1>1, <1>2, <1>6, <1>7, <2>1
<1> QED BY <1>6, <1>8

\* A settlement under way was under way before the step, or is what the script
\* of the step took out.
LEMMA SettlesFrame ==
  ASSUME TypeOK, BudgetOK, [Next]_vars, NEW t \in Threads, Settles(t)'
  PROVE  /\ task'[t].account = task[t].account
         /\ Settles(t) \/ (RunScript(t) /\ ToSettle(t) # 0)
<1> DEFINE Ok == /\ task'[t].account = task[t].account
                 /\ Settles(t) \/ (RunScript(t) /\ ToSettle(t) # 0)
<1>0. /\ \A u \in Threads : task[u] \in Task
      /\ task \in [Threads -> Task]
      /\ Packets \subseteq Threads /\ Slots \subseteq Threads
      /\ Accounts \subseteq Threads /\ Edited \subseteq Accounts
  BY SettingAssumption DEF TypeOK, Threads
<1>1. ASSUME task'[t] = task[t] PROVE Ok
  BY <1>1 DEF Settles
<1>2. ASSUME task'[t].pc \notin {"notify", "send", "wait"} PROVE FALSE
  BY <1>2 DEF Settles
<1>3. ASSUME NEW p \in Packets, Arrival(p) \/ DropRequest(p) PROVE Ok
  BY <1>1, <1>3 DEF Arrival, Prepare, PrepareRefused, PrepareFails, DropRequest
<1>4. ASSUME NEW p \in Packets, Fulfilled(p) \/ Rejected(p) PROVE Ok
  <2>1. task'[t] = task[t] \/ task'[t].pc \in {"fulfill", "reject"}
    BY <1>0, <1>4 DEF Fulfilled, Rejected, NewTask
  <2> QED BY <1>1, <1>2, <2>1
<1>5. ASSUME NEW u \in Threads, \/ PostReject(u) \/ PostRefund(u) \/ LoadAccount(u)
                                \/ \E applied \in BOOLEAN : TaskStoreFails(u, applied)
      PROVE  Ok
  <2>1. task'[t] = task[t] \/ task'[t].pc \in {"done", "delayed"}
    BY <1>0, <1>5 DEF PostReject, PostRefund, LoadAccount, TaskStoreFails, Task
  <2> QED BY <1>1, <1>2, <2>1
<1>6. ASSUME NEW u \in Threads, PostFulfill(u) PROVE Ok
  <2>1. CASE u # t
    BY <1>0, <1>1, <1>6, <2>1 DEF PostFulfill
  <2>2. CASE u = t
    <3>1. /\ RunScript(t) /\ task'[t].pc = "notify" /\ task'[t].amount = ToSettle(t)
          /\ task'[t].account = task[t].account
      BY <1>0, <1>6, <2>2 DEF PostFulfill, Task
    <3> QED BY <3>1 DEF Settles
  <2> QED BY <2>1, <2>2
<1>7. ASSUME NEW u \in Threads, PostDelayed(u) \/ PostPrefund(u) PROVE Ok
  <2>1. CASE u # t
    BY <1>0, <1>1, <1>7, <2>1 DEF PostDelayed, PostPrefund
  <2>2. CASE u = t
    <3>1. /\ RunScript(t)
          /\ task'[t] = SettleTask(task[t], task[t].account, ToSettle(t))
      BY <1>0, <1>7, <2>2 DEF PostDelayed, PostPrefund
    <3>2. /\ task'[t].account = task[t].account
          /\ ToSettle(t) = 0 => task'[t].pc = "done"
      BY <1>0, <3>1 DEF SettleTask, Task
    <3> QED BY <1>2, <3>1, <3>2
  <2> QED BY <2>1, <2>2
<1>8. ASSUME NEW u \in Threads, Notify(u) PROVE Ok
  <2>1. CASE u # t
    BY <1>0, <1>1, <1>8, <2>1 DEF Notify
  <2>2. CASE u = t
    <3>1. task[t].pc = "notify" /\ task[t].amount \in Nat
      BY <1>0, <1>8, <2>2 DEF Notify, Task
    <3>2. \/ task'[t] = [task[t] EXCEPT !.pc = "done"]
          \/ /\ task[t].amount # 0
             /\ task'[t] = SettleTask(task[t], task[t].account, task[t].amount)
      BY <1>0, <1>8, <2>2 DEF Notify
    <3>3. /\ task'[t].account = task[t].account
          /\ task'[t].pc = "done" \/ task[t].amount # 0
      BY <1>0, <3>2 DEF SettleTask, Task
    <3> QED BY <1>2, <3>1, <3>3 DEF Settles
  <2> QED BY <2>1, <2>2
<1>9. ASSUME NEW u \in Threads, SendSettlement(u) \/ HandleReply(u) PROVE Ok
  <2>1. CASE u # t
    BY <1>0, <1>1, <1>9, <2>1 DEF SendSettlement, HandleReply
  <2>2. CASE u = t
    <3>1. task'[t].account = task[t].account /\ task[t].pc \in {"send", "wait"}
      BY <1>0, <1>9, <2>2 DEF SendSettlement, HandleReply, AfterError, Task
    <3> QED BY <3>1 DEF Settles
  <2> QED BY <2>1, <2>2
<1>10. ASSUME NEW u \in Threads, ClientTimeout(u) PROVE FALSE
  BY <1>10 DEF ClientTimeout, BudgetOK
<1>11. ASSUME \/ \E a \in Edited : StartPrefund(a)
              \/ \E k \in QueueKeys, s \in Slots : SpawnDelayed(k, s)
       PROVE  Ok
  <2>1. task'[t] = task[t] \/ task'[t].pc \in {"load", "prefund"}
    BY <1>0, <1>11 DEF StartPrefund, SpawnDelayed, NewTask
  <2> QED BY <1>1, <1>2, <2>1
<1>12. ASSUME EngineStep PROVE Ok
  <2>1. /\ task'[t].pc = task[t].pc /\ task'[t].account = task[t].account
        /\ task'[t].amount = task[t].amount
    BY <1>0, <1>12 DEF EngineStep, EngineAccepts, EngineRefuses, EngineAnswers,
                       Task
  <2> QED BY <2>1 DEF Settles
<1>13. ASSUME NEW k \in IncomingKeys,
              \/ UpdateBalanceForIncomingSettlement(k)
              \/ \E a \in Accounts, n \in Amounts : PaymentReceived(k, a, n)
       PROVE  Ok
  BY <1>1, <1>13 DEF UpdateBalanceForIncomingSettlement, PaymentReceived
<1>14. ASSUME TimerStep \/ UNCHANGED vars PROVE Ok
  BY <1>1, <1>14 DEF TimerStep, vars, serviceVars
<1>15. ASSUME Crash PROVE Ok
  <2>1. task'[t].pc \in {"idle", "done"}
    BY <1>0, <1>15 DEF Crash, Task
  <2> QED BY <1>2, <2>1
<1> HIDE DEF Ok
<1>16. Ok
  BY <1>3, <1>4, <1>5, <1>6, <1>7, <1>8, <1>9, <1>10, <1>11, <1>12, <1>13,
     <1>14, <1>15 DEF Next, TaskStep
<1> QED BY <1>16 DEF Ok

\* A settlement leaves the balance only of an account that can spare it.
LEMMA SpareFloor ==
  ASSUME Books, SettlesAboveFloor, [Next]_vars, NEW t \in Threads,
         NEW a \in Accounts, a = task[t].account,
         Settles(t) \/ (RunScript(t) /\ ToSettle(t) # 0)
  PROVE  /\ SettlementConfigured(settle_threshold[a], settle_to[a])
         /\ min_balance[a] # None => Position(money[a])' >= Floor(a)
<1>1. TypeOK /\ TypeOK'
  BY NextType DEF Books
<1>2. CASE Settles(t)
  <2>1. /\ SettlementConfigured(settle_threshold[a], settle_to[a])
        /\ min_balance[a] # None => Position(money[a]) >= Floor(a)
    BY <1>2 DEF SettlesAboveFloor
  <2> QED BY <1>1, <2>1, LimitStep
<1>3. CASE RunScript(t) /\ ToSettle(t) # 0
  <2>1. /\ SettlementConfigured(settle_threshold[a], settle_to[a])
        /\ Position(money[a])' >= settle_to[a]
    BY <1>1, <1>3, SettlingScript
  <2>2. min_balance[a] # None => /\ settle_to[a] >= Floor(a)
                                 /\ settle_to[a] \in Int /\ Floor(a) \in Int
    BY <2>1, FloorLemma
  <2>3. Position(money[a])' \in Int
    BY <1>1, BookedTypePrime DEF BookedTyped
  <2> QED BY <2>1, <2>2, <2>3
<1> QED BY <1>2, <1>3

\* One step keeps settlements above the floor.
LEMMA SettlesStep ==
  ASSUME Books, SettlesAboveFloor, [Next]_vars PROVE SettlesAboveFloor'
<1> SUFFICES ASSUME NEW t \in Threads, Settles(t)'
             PROVE  LET a == task'[t].account
                    IN /\ SettlementConfigured(settle_threshold[a], settle_to[a])
                       /\ min_balance[a] # None
                            => Position(money'[a]) >= Floor(a)
  BY DEF SettlesAboveFloor
<1>1. PICK a \in Accounts : a = task[t].account
  BY DEF Books, TypeOK, Task
<1>2. task'[t].account = a /\ (Settles(t) \/ (RunScript(t) /\ ToSettle(t) # 0))
  BY <1>1, SettlesFrame DEF Books
<1> QED BY <1>1, <1>2, SpareFloor

-----------------------------------------------------------------------------
(* The remaining steps *)

\* When no packet's effect changes, and incoming settlements and payments
\* rest, nothing is due.
LEMMA EffectRests ==
  ASSUME UNCHANGED <<used, incoming, paid>>,
         \A p \in Packets, c \in Accounts : Effect(p, c)' = Effect(p, c)
  PROVE  DueStays
<1>1. \A c \in Accounts : Effects(c)' = Effects(c)
  BY DEF Effects
<1> QED BY <1>1 DEF DueStays, Due, Deposits

\* A refused packet and a dropped request change nothing, and neither does a
\* payment that the engine has not reported.
LEMMA QuietMoves ==
  ASSUME Books
  PROVE  /\ \A p \in Packets, from, to \in Accounts, inc, out \in Amounts :
              PrepareRefused(p, from, to, inc, out) => Stays /\ DueStays
         /\ \A p \in Packets : DropRequest(p) => Stays /\ DueStays
         /\ \A k \in IncomingKeys, a \in Accounts, n \in Amounts :
              PaymentReceived(k, a, n) => Stays /\ DueStays
         /\ TimerStep \/ UNCHANGED vars => Stays /\ DueStays
<1>1. TypeOK /\ Received /\ pkt \in [Packets -> Packet]
  BY DEF Books, TypeOK
<1>2. ASSUME UNCHANGED <<money, task, engineKeys>> PROVE Stays
  <2>1. \A t \in Threads : task'[t].account = task[t].account /\ Held(t)' = Held(t)
    BY <1>2 DEF Held
  <2> QED BY <1>1, <1>2, <2>1, AllHold
<1>3. ASSUME NEW p \in Packets, NEW from \in Accounts, NEW to \in Accounts,
             NEW inc \in Amounts, NEW out \in Amounts,
             PrepareRefused(p, from, to, inc, out)
      PROVE  Stays /\ DueStays
  <2>1. \A q \in Packets, c \in Accounts : Effect(q, c)' = Effect(q, c)
    BY <1>1, <1>3 DEF PrepareRefused, Effect
  <2> QED BY <1>2, <1>3, <2>1, EffectRests DEF PrepareRefused
<1>4. ASSUME NEW p \in Packets, DropRequest(p) PROVE Stays /\ DueStays
  <2>1. /\ pkt[p].st = "forwarded" /\ pkt[p] \in Packet
        /\ pkt' = [pkt EXCEPT ![p] = [pkt[p] EXCEPT !.st = "lost"]]
    BY <1>1, <1>4 DEF DropRequest
  <2>2. \A q \in Packets, c \in Accounts : Effect(q, c)' = Effect(q, c)
    BY <1>1, <2>1 DEF Effect, Packet
  <2> QED BY <1>2, <1>4, <2>2, EffectRests DEF DropRequest
<1>5. ASSUME NEW k \in IncomingKeys, NEW a \in Accounts, NEW n \in Amounts,
             PaymentReceived(k, a, n)
      PROVE  Stays /\ DueStays
  <2>1. /\ k \notin used /\ used' = used
        /\ \A j \in IncomingKeys : j # k => incoming'[j] = incoming[j]
    BY <1>1, <1>5 DEF PaymentReceived, Received, TypeOK
  <2>2. \A c \in Accounts : Deposits(c)' = Deposits(c)
    BY <2>1 DEF Deposits
  <2>3. UNCHANGED <<money, task, engineKeys, pkt, paid>>
    BY <1>5 DEF PaymentReceived
  <2> QED BY <1>2, <2>2, <2>3 DEF DueStays, Due, Effects, Effect
<1>6. ASSUME TimerStep \/ UNCHANGED vars PROVE Stays /\ DueStays
  <2>1. UNCHANGED <<money, task, engineKeys, pkt, used, incoming, paid>>
    BY <1>6 DEF TimerStep, vars, serviceVars
  <2> QED BY <1>2, <2>1, DueRests
<1> QED BY <1>3, <1>4, <1>5, <1>6

\* A prepare whose store call fails can only cost the sender.
LEMMA PrepareFailsMoves ==
  ASSUME Books, Books', NEW p \in Packets, NEW from \in Accounts,
         NEW to \in Accounts, NEW inc \in Amounts, NEW out \in Amounts,
         NEW applied \in BOOLEAN, PrepareFails(p, from, to, inc, out, applied)
  PROVE  DueStays /\ \E n \in Nat : Moves(from, -n)
<1>1. TypeOK /\ TypeOK' /\ inc \in Nat /\ pkt \in [Packets -> Packet]
  BY SettingAssumption DEF Books, TypeOK
<1>2. \E n \in Nat : MoneyMoves(from, -n)
  <2>1. money \in [Accounts -> Money] /\ money[from] \in Money
    BY <1>1 DEF TypeOK
  <2>2. Position(Deduct(money[from], inc)) = Position(money[from]) - inc
    BY <1>1, <2>1, DeductLemma
  <2>3. \A c \in Accounts : Position(money[c]) \in Int
    BY <1>1, BookedType DEF BookedTyped
  <2>4. CASE applied
    <3>1. money' = [money EXCEPT ![from] = Deduct(money[from], inc)]
      BY <2>4 DEF PrepareFails
    <3>2. MoneyMoves(from, -inc)
      BY <1>1, <2>1, <2>2, <2>3, <3>1 DEF MoneyMoves
    <3> QED BY <1>1, <3>2
  <2>5. CASE ~applied
    <3>1. money' = money
      BY <2>5 DEF PrepareFails
    <3>2. MoneyMoves(from, -0)
      BY <2>3, <3>1 DEF MoneyMoves
    <3> QED BY <3>2
  <2> QED BY <2>4, <2>5
<1>3. PICK n \in Nat : MoneyMoves(from, -n)
  BY <1>2
<1>4. p \in Threads /\ task' = task /\ engineKeys' = engineKeys
  BY DEF PrepareFails, Threads
<1>5. OthersHold(p) /\ Held(p)' = Held(p) /\ Held(p) = 0
  BY <1>4 DEF OthersHold, Held, Books, TasksOwnAmounts, PrepareFails
<1>6. Moves(from, (-n) + 0 - 0)
  BY <1>1, <1>3, <1>4, <1>5, TaskMoves
<1>7. DueStays
  <2>1. \A q \in Packets, c \in Accounts : Effect(q, c)' = Effect(q, c)
    BY <1>1 DEF PrepareFails, Effect
  <2> QED BY <2>1, EffectRests DEF PrepareFails
<1> QED BY <1>3, <1>6, <1>7

\* What a step does to the difference between books and dues, if its action is
\* not one that loses money.
Even == \A c \in Accounts : Booked(c)' - Due(c)' = Booked(c) - Due(c)

\* A step that only takes away.
Costs == DueStays /\ \A c \in Accounts : Booked(c)' <= Booked(c)

\* Accounts that settle and have nobody to settle with.
Unengined == {a \in Accounts :
                /\ SettlementConfigured(settle_threshold[a], settle_to[a])
                /\ ~has_engine[a]}

\* Steps that move books and dues alike are even.
LEMMA EvenMoves ==
  ASSUME Books
  PROVE  /\ Stays /\ DueStays => Even
         /\ \A a \in Accounts, n \in Int : Moves(a, n) /\ DueMoves(a, n) => Even
         /\ \A a \in Accounts, n \in Nat : Moves(a, -n) /\ DueStays => Costs
<1>1. \A c \in Accounts : Booked(c) \in Int /\ Due(c) \in Int
  BY BookedType, DueType DEF Books, BookedTyped, DueTyped
<1>2. Stays /\ DueStays => Even
  BY DEF Stays, DueStays, Even
<1>3. ASSUME NEW a \in Accounts, NEW n \in Int, Moves(a, n), DueMoves(a, n) PROVE Even
  BY <1>1, <1>3 DEF Moves, DueMoves, Even
<1>4. ASSUME NEW a \in Accounts, NEW n \in Nat, Moves(a, -n), DueStays PROVE Costs
  BY <1>1, <1>4 DEF Moves, Costs
<1> QED BY <1>2, <1>3, <1>4

\* A settlement that has left the balance is even, unless the account has no
\* engine.
LEMMA KeptMoves ==
  ASSUME Books, NEW a \in Accounts, NEW n \in Nat, Moves(a, Kept(a, n) - n), DueStays
  PROVE  \/ Stays /\ (has_engine[a] \/ n = 0)
         \/ n # 0 /\ ~has_engine[a] /\ Moves(a, -n)
<1>1. CASE has_engine[a] \/ n = 0
  <2>1. Kept(a, n) - n = 0
    BY <1>1 DEF Kept
  <2> QED BY <1>1, <2>1, MovesNothing DEF Books
<1>2. CASE ~has_engine[a] /\ n # 0
  BY <1>2 DEF Kept
<1> QED BY <1>1, <1>2, SettingAssumption

\* The books follow what is due, except where money is lost: by a failure, by
\* a prefunding, or by a settlement of an account that has no engine.  When the
\* engine accepts a request nobody waits for, the payment is due and the books
\* stay, having lost the amount before.
LEMMA StepBooks ==
  ASSUME Books, Books', SettlesAboveFloor, [Next]_vars
  PROVE  \/ Even
         \/ Costs /\ (~Undisturbed' \/ Unengined # {})
         \/ \E r \in requests :
              /\ EngineAccepts(r) /\ Stays /\ DueMoves(r.account, -r.amount)
              /\ \A t \in Threads : task[t].pc = "wait" => task[t].key # r.key
<1> DEFINE Lost == Costs /\ (~Undisturbed' \/ Unengined # {})
<1>0. /\ \A t \in Threads : task[t] \in Task /\ task[t].account \in Accounts
                            /\ task[t].amount \in Nat
      /\ task \in [Threads -> Task] /\ TypeOK /\ pkt \in [Packets -> Packet]
      /\ Packets \subseteq Threads /\ Slots \subseteq Threads
      /\ Accounts \subseteq Threads /\ Edited \subseteq Accounts
      /\ budget \in [faults : Nat, timeouts : Nat, drops : Nat, crashes : Nat]
      /\ BudgetOK /\ MaxStoreFaults \in Nat /\ MaxCrashes \in Nat
  BY SettingAssumption DEF Books, TypeOK, Threads, Task
<1>1. ASSUME NEW p \in Packets, NEW from \in Accounts, NEW to \in Accounts,
             NEW inc \in Amounts, NEW out \in Amounts,
             Prepare(p, from, to, inc, out)
      PROVE  Even
  <2>1. inc \in Nat
    BY SettingAssumption
  <2>2. Moves(from, -inc) /\ DueMoves(from, -inc) /\ -inc \in Int
    BY <1>1, <2>1, PrepareMoves
  <2> QED BY <2>2, EvenMoves
<1>2. ASSUME NEW p \in Packets, NEW from \in Accounts, NEW to \in Accounts,
             NEW inc \in Amounts, NEW out \in Amounts, NEW applied \in BOOLEAN,
             PrepareFails(p, from, to, inc, out, applied)
      PROVE  Lost
  <2>1. Costs
    BY <1>2, PrepareFailsMoves, EvenMoves
  <2>2. budget'.faults = budget.faults - 1
    BY <1>0, <1>2 DEF PrepareFails
  <2> QED BY <1>0, <2>1, <2>2 DEF BudgetOK, Undisturbed
<1>3. ASSUME NEW p \in Packets, Fulfilled(p) \/ Rejected(p) PROVE Even
  <2>1. /\ pkt[p].to \in Accounts /\ pkt[p].from \in Accounts
        /\ pkt[p].inc \in Int /\ pkt[p].out \in Int
    BY <1>0 DEF Packet
  <2> QED BY <1>3, <2>1, AnswerMoves, EvenMoves
<1>4. ASSUME \/ \E p \in Packets : \/ DropRequest(p)
                \/ \E from, to \in Accounts, inc, out \in Amounts :
                     PrepareRefused(p, from, to, inc, out)
             \/ \E k \in IncomingKeys, a \in Accounts, n \in Amounts :
                  PaymentReceived(k, a, n)
             \/ TimerStep \/ UNCHANGED vars
      PROVE  Even
  BY <1>4, QuietMoves, EvenMoves
<1>5. ASSUME NEW t \in Threads, \/ PostFulfill(t) \/ PostReject(t) \/ PostRefund(t)
                                \/ LoadAccount(t) \/ SendSettlement(t)
      PROVE  Even
  <2>1. Stays
    BY <1>5, PostMoves, ClientMoves
  <2>2. DueStays
    BY <1>5, DueRests DEF PostFulfill, PostReject, PostRefund, LoadAccount,
                          SendSettlement
  <2> QED BY <2>1, <2>2, EvenMoves
<1>6. ASSUME NEW t \in Threads, PostDelayed(t) \/ PostPrefund(t) \/ Notify(t)
      PROVE  Even \/ Lost
  <2>1. PICK a \in Accounts : a = task[t].account
    BY <1>0
  <2>2. DueStays
    BY <1>6, DueRests DEF PostDelayed, PostPrefund, Notify
  <2>3. \E n \in Nat : /\ Moves(a, Kept(a, n) - n)
                       /\ n # 0 => SettlementConfigured(settle_threshold[a], settle_to[a])
    <3>1. CASE Notify(t)
      <4>1. Moves(a, Kept(a, task[t].amount) - task[t].amount)
        BY <2>1, <3>1, NotifyMoves
      <4>2. task[t].amount # 0 => Settles(t)
        BY <1>0, <3>1 DEF Settles, Notify
      <4> QED BY <1>0, <2>1, <4>1, <4>2 DEF SettlesAboveFloor
    <3>2. CASE PostDelayed(t) \/ PostPrefund(t)
      <4>1. Moves(a, Kept(a, ToSettle(t)) - ToSettle(t)) /\ RunScript(t)
        BY <2>1, <3>2, PostMoves DEF PostDelayed, PostPrefund
      <4>2. ToSettle(t) \in Nat
        BY <1>0, <4>1, ScriptMoves
      <4>3. ToSettle(t) # 0 => SettlementConfigured(settle_threshold[a], settle_to[a])
        BY <1>0, <2>1, <4>1, SettlingScript
      <4> QED BY <4>1, <4>2, <4>3
    <3> QED BY <1>6, <3>1, <3>2
  <2>4. PICK n \in Nat : /\ Moves(a, Kept(a, n) - n)
                         /\ n # 0 => SettlementConfigured(settle_threshold[a], settle_to[a])
    BY <2>3
  <2>5. \/ Stays
        \/ n # 0 /\ ~has_engine[a] /\ Moves(a, -n)
    BY <2>2, <2>4, KeptMoves
  <2>6. CASE Stays
    BY <2>2, <2>6, EvenMoves
  <2>7. CASE n # 0 /\ ~has_engine[a] /\ Moves(a, -n)
    <3>1. Costs
      BY <2>2, <2>7, EvenMoves
    <3>2. a \in Unengined
      BY <2>4, <2>7 DEF Unengined
    <3> QED BY <3>1, <3>2
  <2> QED BY <2>5, <2>6, <2>7
<1>7. ASSUME NEW t \in Threads, HandleReply(t) PROVE Even \/ Lost
  <2>1. DueStays
    BY <1>7, DueRests DEF HandleReply
  <2>2. CASE Stays
    BY <2>1, <2>2, EvenMoves
  <2>3. CASE t \in Accounts /\ Moves(task[t].account, -task[t].amount)
    <3>1. Costs
      BY <1>0, <2>1, <2>3, EvenMoves
    <3>2. task'[t].pc # "idle"
      BY <1>0, <1>7 DEF HandleReply, AfterError, Task
    <3> QED BY <2>3, <3>1, <3>2 DEF Undisturbed
  <2> QED BY <1>7, <2>2, <2>3, ReplyMoves
<1>8. ASSUME NEW t \in Threads, NEW applied \in BOOLEAN, TaskStoreFails(t, applied)
      PROVE  Lost
  <2>1. DueStays
    BY <1>8, DueRests DEF TaskStoreFails
  <2>2. Costs
    BY <1>0, <1>8, <2>1, FaultMoves, EvenMoves
  <2>3. budget'.faults = budget.faults - 1
    BY <1>0, <1>8 DEF TaskStoreFails
  <2> QED BY <1>0, <2>2, <2>3 DEF BudgetOK, Undisturbed
<1>9. ASSUME NEW a \in Edited, StartPrefund(a) PROVE Even
  <2>1. Stays
    BY <1>0, <1>9, ClientMoves
  <2>2. DueStays
    BY <1>9, DueRests DEF StartPrefund
  <2> QED BY <2>1, <2>2, EvenMoves
<1>10. ASSUME NEW k \in QueueKeys, NEW s \in Slots, SpawnDelayed(k, s) PROVE Even
  <2>1. Stays
    BY <1>0, <1>10, ClientMoves
  <2>2. DueStays
    BY <1>10, DueRests DEF SpawnDelayed
  <2> QED BY <2>1, <2>2, EvenMoves
<1>11. ASSUME NEW r \in requests, NEW e \in {"4xx", "5xx"}, EngineRefuses(r, e)
       PROVE  Even
  BY <1>11, RefuseMoves, EvenMoves
<1>12. ASSUME NEW r \in requests, EngineAccepts(r)
       PROVE  \/ Even
              \/ /\ Stays /\ DueMoves(r.account, -r.amount)
                 /\ \A t \in Threads : task[t].pc = "wait" => task[t].key # r.key
  <2>1. r.account \in Accounts /\ -r.amount \in Int
    BY <1>0 DEF TypeOK, Request
  <2> QED BY <1>12, <2>1, AcceptMoves, EvenMoves
<1>13. ASSUME NEW k \in IncomingKeys, UpdateBalanceForIncomingSettlement(k)
       PROVE  Even
  BY <1>13, IncomingMoves, EvenMoves
<1>14. ASSUME Crash PROVE Lost
  <2>1. Costs
    BY <1>0, <1>14, CrashMoves, CrashDue, BookedType DEF Costs, BookedTyped
  <2>2. budget'.crashes = budget.crashes - 1
    BY <1>0, <1>14 DEF Crash
  <2> QED BY <1>0, <2>1, <2>2 DEF BudgetOK, Undisturbed
<1>15. ASSUME NEW t \in Threads, ClientTimeout(t) PROVE FALSE
  BY <1>15 DEF ClientTimeout, Books, BudgetOK
<1> HIDE DEF Lost
<1>16. \/ Even \/ Lost
       \/ \E r \in requests :
            /\ EngineAccepts(r) /\ Stays /\ DueMoves(r.account, -r.amount)
            /\ \A t \in Threads : task[t].pc = "wait" => task[t].key # r.key
  BY <1>1, <1>2, <1>3, <1>4, <1>5, <1>6, <1>7, <1>8, <1>9, <1>10, <1>11, <1>12,
     <1>13, <1>14, <1>15 DEF Next, Arrival, TaskStep, EngineStep
<1> QED BY <1>16 DEF Lost

-----------------------------------------------------------------------------
(* The books are exact until the first failure *)

\* What is undisturbed after a step was undisturbed before it.
LEMMA UndisturbedBefore ==
  ASSUME Books, Books', [Next]_vars, Undisturbed' PROVE Undisturbed /\ ~Crash
<1>1. /\ task \in [Threads -> Task] /\ \A t \in Threads : task[t] \in Task
      /\ budget \in [faults : Nat, timeouts : Nat, drops : Nat, crashes : Nat]
      /\ MaxStoreFaults \in Nat /\ MaxDrops \in Nat /\ MaxCrashes \in Nat
      /\ Accounts \subseteq Threads
  BY SettingAssumption DEF Books, TypeOK, Threads
<1>2. Shrinks
  BY EnvironmentStep DEF Books
<1>3. \A t \in Threads : task'[t].pc = "idle" => task[t].pc = "idle"
  <2>1. ASSUME KeysIdle PROVE \A t \in Threads : task'[t].pc = "idle" => task[t].pc = "idle"
    BY <2>1 DEF KeysIdle
  <2>2. ASSUME NEW t \in Threads, SendSettlement(t)
        PROVE  \A u \in Threads : task'[u].pc = "idle" => task[u].pc = "idle"
    BY <1>1, <2>2 DEF SendSettlement, Task
  <2>3. ASSUME NEW r \in requests,
               EngineAccepts(r) \/ \E e \in {"4xx", "5xx"} : EngineRefuses(r, e)
        PROVE  \A u \in Threads : task'[u].pc = "idle" => task[u].pc = "idle"
    BY <1>1, <2>3 DEF EngineAccepts, EngineRefuses, EngineAnswers, Task
  <2> QED BY <2>1, <2>2, <2>3, KeysFrame
<1>4. Undisturbed
  BY <1>1, <1>2, <1>3 DEF Undisturbed, Shrinks, Books, BudgetOK
<1>5. ASSUME Crash PROVE FALSE
  <2>1. budget'.crashes = budget.crashes - 1
    BY <1>1, <1>5 DEF Crash
  <2> QED BY <1>1, <2>1 DEF Undisturbed, Books, BudgetOK
<1> QED BY <1>4, <1>5

\* One step keeps every request with its client until the first failure.
LEMMA NoOrphansStep ==
  ASSUME Books, Books', NoOrphans, [Next]_vars PROVE NoOrphans'
<1> DEFINE Waits(t, r) == task[t].pc = "wait" /\ task[t].reply = "none" /\ RequestOf(t) = r
<1>1. SUFFICES ASSUME Undisturbed', NEW r \in requests'
               PROVE  \E t \in Threads : /\ task'[t].pc = "wait" /\ task'[t].reply = "none"
                                         /\ RequestOf(t)' = r
  BY DEF NoOrphans
<1>2. \A q \in requests : \E t \in Threads : Waits(t, q)
  BY <1>1, UndisturbedBefore DEF NoOrphans
<1>3. task \in [Threads -> Task] /\ \A t \in Threads : task[t] \in Task
  BY DEF Books, TypeOK
<1>4. CASE KeysIdle /\ ClientsWait
  <2>1. r \in requests
    BY <1>4 DEF KeysIdle
  <2>2. PICK t \in Threads : Waits(t, r)
    BY <1>2, <2>1
  <2>3. task'[t] = task[t]
    BY <1>4, <2>2 DEF ClientsWait
  <2> QED BY <2>2, <2>3 DEF RequestOf
<1>5. ASSUME NEW t \in Threads, SendSettlement(t)
      PROVE  \E u \in Threads : /\ task'[u].pc = "wait" /\ task'[u].reply = "none"
                                /\ RequestOf(u)' = r
  <2>1. /\ task'[t].pc = "wait" /\ task'[t].reply = "none"
        /\ task'[t].key = nextKey /\ task'[t].account = task[t].account
        /\ task'[t].amount = task[t].amount /\ task[t].pc = "send"
        /\ \A u \in Threads : u # t => task'[u] = task[u]
    BY <1>3, <1>5 DEF SendSettlement, Task
  <2>2. CASE r \in requests
    <3>1. PICK u \in Threads : Waits(u, r)
      BY <1>2, <2>2
    <3>2. task'[u] = task[u]
      BY <2>1, <3>1
    <3> QED BY <3>1, <3>2 DEF RequestOf
  <2>3. CASE r \notin requests
    <3>1. r = [key |-> nextKey, account |-> task[t].account, amount |-> task[t].amount]
      BY <1>1, <1>5, <2>3 DEF SendSettlement
    <3> QED BY <2>1, <3>1 DEF RequestOf
  <2> QED BY <2>2, <2>3
<1>6. ASSUME NEW q \in requests,
             EngineAccepts(q) \/ \E e \in {"4xx", "5xx"} : EngineRefuses(q, e)
      PROVE  \E u \in Threads : /\ task'[u].pc = "wait" /\ task'[u].reply = "none"
                                /\ RequestOf(u)' = r
  <2>1. r \in requests /\ r # q
    BY <1>1, <1>6 DEF EngineAccepts, EngineRefuses, EngineAnswers
  <2>2. PICK u \in Threads : Waits(u, r)
    BY <1>2, <2>1
  <2>3. r.key # q.key /\ task[u].key = r.key
    BY <2>1, <2>2 DEF Books, FreshKeys, RequestOf
  <2>4. task'[u] = task[u]
    BY <1>3, <1>6, <2>3 DEF EngineAccepts, EngineRefuses, EngineAnswers
  <2> QED BY <2>2, <2>4 DEF RequestOf
<1> QED BY <1>1, <1>4, <1>5, <1>6, UndisturbedBefore, KeysFrame

\* Until the first failure books and dues agree after a step when they did
\* before it.
LEMMA ConservationStep ==
  ASSUME Unengined = {}, Books, Books', NoOrphans, SettlesAboveFloor, Conservation,
         [Next]_vars
  PROVE  Conservation'
<1>1. SUFFICES ASSUME Undisturbed', NEW c \in Accounts PROVE Booked(c)' = Due(c)'
  BY DEF Conservation
<1>2. Undisturbed
  BY <1>1, UndisturbedBefore
<1>3. Booked(c) = Due(c)
  BY <1>2 DEF Conservation
<1>4. /\ Booked(c) \in Int /\ Due(c) \in Int /\ Booked(c)' \in Int /\ Due(c)' \in Int
  BY BookedType, DueType, BookedTypePrime, DueTypePrime
     DEF Books, BookedTyped, DueTyped
<1>5. CASE Even
  BY <1>3, <1>4, <1>5 DEF Even
<1>6. ASSUME NEW r \in requests,
             \A t \in Threads : task[t].pc = "wait" => task[t].key # r.key
      PROVE  FALSE
  <2>1. PICK t \in Threads : task[t].pc = "wait" /\ RequestOf(t) = r
    BY <1>2 DEF NoOrphans
  <2> QED BY <1>6, <2>1 DEF RequestOf
<1> QED BY <1>1, <1>5, <1>6, StepBooks

\* The sums are 0 at the start.
LEMMA BooksStartEven ==
  ASSUME MaxTimeouts = 0, Init
  PROVE  \A a \in Accounts : Booked(a) = 0 /\ Due(a) = 0
<1>1. Books /\ TypeOK
  BY BooksInit DEF Books
<1> SUFFICES ASSUME NEW a \in Accounts PROVE Booked(a) = 0 /\ Due(a) = 0
  OBVIOUS
<1>2. InMemory(a) = 0
  <2>1. \A t \in Threads : HeldFor(a)[t] = 0
    BY DEF HeldFor, Held, Init, NewTask
  <2> QED BY <2>1, SumZero, FiniteAssumption DEF InMemory
<1>3. Position(money[a]) = 0
  BY DEF Init, Position
<1>4. SumFunctionOnSet(Effects(a), Packets) = 0
  <2>1. \A p \in Packets : Effects(a)[p] = 0
    BY DEF Effects, Effect, Init
  <2>2. IsFiniteSet(Packets)
    BY FiniteAssumption, FS_Subset DEF Threads
  <2> QED BY <2>1, <2>2, SumZero
<1>5. SumFunctionOnSet(Deposits(a), IncomingKeys) = 0
  <2>1. \A k \in IncomingKeys : Deposits(a)[k] = 0
    BY DEF Deposits, Init
  <2> QED BY <2>1, SumZero, FiniteAssumption
<1>6. paid[a] = 0
  BY DEF Init
<1> QED BY <1>2, <1>3, <1>4, <1>5, <1>6 DEF Booked, Due

\* The invariants that come with Books hold at the start.
LEMMA BooksStart ==
  ASSUME MaxTimeouts = 0, Init PROVE Books /\ NoOrphans /\ SettlesAboveFloor /\ Conservation
<1>1. Books
  BY BooksInit
<1>2. NoOrphans
  BY DEF NoOrphans, Init
<1>3. SettlesAboveFloor
  BY DEF SettlesAboveFloor, Settles, Init, NewTask
<1>4. Conservation
  BY BooksStartEven DEF Conservation
<1> QED BY <1>1, <1>2, <1>3, <1>4

\* As long as the settlement client gets an answer to every request and every
\* account that settles has an engine, the books are exact until the first
\* failure or prefunding: however the posting of answers by balance_service.rs,
\* the settlement client's retries and the engine's answers interleave, each
\* counts once.
THEOREM BooksAreExact ==
  ASSUME MaxTimeouts = 0,
         \A a \in Accounts : SettlementConfigured(settle_threshold[a], settle_to[a])
                               => has_engine[a]
  PROVE  Spec => []Conservation
<1> DEFINE IInv == Books /\ NoOrphans /\ SettlesAboveFloor /\ Conservation
<1>1. Unengined = {}
  BY DEF Unengined
<1>2. Init => IInv
  BY BooksStart
<1>3. IInv /\ [Next]_vars => IInv'
  <2>1. SUFFICES ASSUME IInv, [Next]_vars PROVE IInv'
    OBVIOUS
  <2>2. Books'
    BY <2>1, BooksStep
  <2> QED BY <1>1, <2>1, <2>2, NoOrphansStep, SettlesStep, ConservationStep
<1>4. IInv => Conservation
  OBVIOUS
<1> QED BY <1>2, <1>3, <1>4, PTL DEF Spec

-----------------------------------------------------------------------------
(* No account is credited twice, failures or not *)

\* A settlement client waits for the answer to request r.
HasClient(r) == \E t \in Threads : task[t].pc = "wait" /\ task[t].key = r.key

\* Amounts of requests that are under way without a client: the process that
\* sent them was restarted, and the engine may still pay them.
Orphaned(a) ==
  [r \in requests |-> IF r.account = a /\ ~HasClient(r) THEN r.amount ELSE 0]
InTransit(a) == SumFunctionOnSet(Orphaned(a), requests)

\* Even with what the engine may still pay, no account is credited too much.
\* NeverOverCredits alone is not inductive: nothing else says that the amount
\* of a forgotten request has already left the books.
Covered == \A a \in Accounts : Booked(a) + InTransit(a) <= Due(a)

\* The sums over the requests are numbers.
TransitTyped ==
  \A a \in Accounts : /\ \A r \in requests : Orphaned(a)[r] \in Nat
                      /\ InTransit(a) \in Nat

\* They are, while the amounts of the requests are.
LEMMA TransitType == Books => TransitTyped
<1> SUFFICES ASSUME Books, NEW a \in Accounts
             PROVE  /\ \A r \in requests : Orphaned(a)[r] \in Nat
                    /\ InTransit(a) \in Nat
  BY DEF TransitTyped
<1>1. \A r \in requests : Orphaned(a)[r] \in Nat
  BY DEF Orphaned, Books, TypeOK, Request
<1> QED BY <1>1, SumNat DEF InTransit, Books

\* The same after a step.
LEMMA TransitTypePrime == Books' => TransitTyped'
BY TransitType, PTL

\* The client of a request under way has no answer yet and waits for this very
\* request.
LEMMA ClientOf ==
  ASSUME Books, NEW r \in requests, NEW t \in Threads,
         task[t].pc = "wait", task[t].key = r.key
  PROVE  task[t].reply = "none" /\ RequestOf(t) = r
<1>1. task[t].reply = "none"
  BY DEF Books, WaitsForRequest, FreshKeys, TypeOK, Task
<1>2. RequestOf(t) \in requests /\ RequestOf(t).key = r.key
  BY <1>1 DEF Books, WaitsForRequest, RequestOf
<1> QED BY <1>1, <1>2 DEF Books, FreshKeys

\* While clients wait, no request loses or finds a client.
LEMMA TransitRests ==
  ASSUME Books, KeysIdle, ClientsWait
  PROVE  \A a \in Accounts : InTransit(a)' = InTransit(a)
<1>1. requests' = requests
  BY DEF KeysIdle
<1>2. \A r \in requests : HasClient(r)' => HasClient(r)
  BY DEF HasClient, KeysIdle
<1>3. ASSUME NEW r \in requests, HasClient(r) PROVE HasClient(r)'
  <2>1. PICK t \in Threads : task[t].pc = "wait" /\ task[t].key = r.key
    BY <1>3 DEF HasClient
  <2>2. task'[t] = task[t]
    BY <2>1, ClientOf DEF ClientsWait
  <2> QED BY <2>1, <2>2 DEF HasClient
<1>4. \A r \in requests : HasClient(r)' <=> HasClient(r)
  BY <1>2, <1>3
<1>5. \A a \in Accounts : Orphaned(a)' = Orphaned(a)
  BY <1>1, <1>4 DEF Orphaned
<1> QED BY <1>1, <1>5 DEF InTransit

\* A request goes out with its client.
LEMMA TransitSend ==
  ASSUME Books, Books', NEW t \in Threads, SendSettlement(t), NEW a \in Accounts
  PROVE  InTransit(a)' = InTransit(a)
<1> DEFINE f == Orphaned(a)
           g == Orphaned(a)'
<1>0. PICK q : q = [key |-> nextKey, account |-> task[t].account,
                    amount |-> task[t].amount]
  OBVIOUS
<1>1. /\ task \in [Threads -> Task] /\ task[t] \in Task /\ nextKey \in Nat
      /\ task[t].pc = "send" /\ requests' = requests \cup {q}
      /\ \A r \in requests : r.key \in Nat /\ r.key < nextKey
  BY <1>0 DEF SendSettlement, Books, TypeOK, Request, FreshKeys
<1>2. /\ task'[t].pc = "wait" /\ task'[t].key = nextKey
      /\ \A u \in Threads : u # t => task'[u] = task[u]
  BY <1>1 DEF SendSettlement, Task
<1>3. q.key = nextKey /\ q \notin requests
  BY <1>0, <1>1
<1>4. HasClient(q)'
  BY <1>2, <1>3 DEF HasClient
<1>5. \A r \in requests : HasClient(r)' <=> HasClient(r)
  BY <1>1, <1>2 DEF HasClient
<1>6. g[q] = 0 /\ \A r \in requests : g[r] = f[r]
  BY <1>1, <1>4, <1>5 DEF Orphaned
<1>7. /\ \A r \in requests : f[r] \in Int
      /\ InTransit(a) \in Int /\ IsFiniteSet(requests)
  BY TransitType DEF TransitTyped, Books
<1> HIDE DEF f, g
<1>8. \A r \in requests \cup {q} : g[r] \in Int
  BY <1>6, <1>7
<1>9. SumFunctionOnSet(g, requests \cup {q}) = g[q] + SumFunctionOnSet(g, requests)
  BY <1>3, <1>7, <1>8, SumAdd
<1>10. SumFunctionOnSet(g, requests) = SumFunctionOnSet(f, requests)
  BY <1>6, <1>7, SumSame
<1>11. InTransit(a)' = SumFunctionOnSet(g, requests \cup {q})
  BY <1>1 DEF InTransit, g
<1>12. InTransit(a) = SumFunctionOnSet(f, requests)
  BY DEF InTransit, f
<1> QED BY <1>6, <1>7, <1>9, <1>10, <1>11, <1>12

\* The engine takes a request: what was in transit for it no longer is.
LEMMA TransitEngine ==
  ASSUME Books, Books', NEW r \in requests,
         EngineAccepts(r) \/ \E e \in {"4xx", "5xx"} : EngineRefuses(r, e),
         NEW a \in Accounts
  PROVE  InTransit(a)' = InTransit(a) - Orphaned(a)[r]
<1> DEFINE f == Orphaned(a)
           g == Orphaned(a)'
           R == requests \ {r}
<1>1. task \in [Threads -> Task] /\ \A u \in Threads : task[u] \in Task
  BY DEF Books, TypeOK
<1>2. /\ requests' = R
      /\ \A u \in Threads : task'[u].pc = task[u].pc /\ task'[u].key = task[u].key
  BY <1>1 DEF EngineAccepts, EngineRefuses, EngineAnswers, Task
<1>3. \A q \in R : g[q] = f[q]
  BY <1>2 DEF Orphaned, HasClient
<1>4. /\ \A q \in requests : f[q] \in Int
      /\ InTransit(a) \in Int /\ IsFiniteSet(requests) /\ IsFiniteSet(R)
  BY TransitType, FS_RemoveElement DEF TransitTyped, Books
<1>5. InTransit(a)' = SumFunctionOnSet(g, R) /\ InTransit(a) = SumFunctionOnSet(f, requests)
  BY <1>2 DEF InTransit
<1> HIDE DEF f, g
<1>6. SumFunctionOnSet(f, requests) = f[r] + SumFunctionOnSet(f, R)
  BY <1>4, SumRemove
<1>7. SumFunctionOnSet(f, R) \in Int
  BY <1>4, SumType
<1>8. SumFunctionOnSet(g, R) = SumFunctionOnSet(f, R)
  <2>1. \A q \in R : f[q] \in Int /\ g[q] = f[q]
    BY <1>3, <1>4
  <2> HIDE DEF R
  <2> QED BY <1>4, <2>1, SumSame
<1> QED BY <1>4, <1>5, <1>6, <1>7, <1>8 DEF f

\* After a restart every request is an orphan; its amount was held by the task
\* that waited for it.
LEMMA TransitCrash ==
  ASSUME Books, Books', Crash, NEW a \in Accounts
  PROVE  InTransit(a)' <= InTransit(a) + InMemory(a)
<1> DEFINE f == Orphaned(a)
           h == Orphaned(a)'
           g == [r \in requests |->
                   IF r.account = a /\ HasClient(r) THEN r.amount ELSE 0]
           m == [r \in requests |-> CHOOSE t \in Threads :
                   task[t].pc = "wait" /\ task[t].key = r.key]
           k == HeldFor(a)
<1>1. /\ task \in [Threads -> Task] /\ \A u \in Threads : task[u] \in Task
      /\ \A r \in requests : r.amount \in Nat
      /\ requests' = requests /\ IsFiniteSet(requests)
  BY DEF Books, TypeOK, Request, Crash
<1>2. \A u \in Threads : task'[u].pc # "wait"
  BY <1>1 DEF Crash, Task
<1>3. \A r \in requests : ~HasClient(r)'
  BY <1>2 DEF HasClient
<1>4. \A r \in requests : f[r] \in Int /\ g[r] \in Int /\ h[r] = f[r] + g[r]
  BY <1>1, <1>3 DEF Orphaned
<1>5. \A r \in requests : g[r] \in Nat
  BY <1>1
<1>6. ASSUME NEW r \in requests, g[r] # 0
      PROVE  m[r] \in Threads /\ g[r] = k[m[r]] /\ task[m[r]].key = r.key
  <2>1. HasClient(r) /\ r.account = a /\ g[r] = r.amount
    BY <1>6
  <2>2. m[r] \in Threads /\ task[m[r]].pc = "wait" /\ task[m[r]].key = r.key
    BY <2>1 DEF HasClient
  <2> HIDE DEF m, g
  <2>3. RequestOf(m[r]) = r
    BY <2>2, ClientOf
  <2>4. task[m[r]].account = a /\ task[m[r]].amount = r.amount
    BY <2>1, <2>3 DEF RequestOf
  <2>5. r.key \notin engineKeys
    BY DEF Books, FreshKeys
  <2> QED BY <2>1, <2>2, <2>4, <2>5 DEF HeldFor, Held
<1>7. \A r, q \in requests : g[r] # 0 /\ g[q] # 0 /\ m[r] = m[q] => r = q
  <2> HIDE DEF m, g
  <2> QED BY <1>6 DEF Books, FreshKeys
<1>8. \A t \in Threads : k[t] \in Nat
  BY BookedType DEF BookedTyped, Books
<1>9. \A r \in requests : g[r] # 0 => m[r] \in Threads /\ g[r] <= k[m[r]]
  <2> HIDE DEF m, g, k
  <2> QED BY <1>5, <1>6, <1>8
<1>10. InTransit(a)' = SumFunctionOnSet(h, requests)
  BY <1>1 DEF InTransit
<1>11. InTransit(a) = SumFunctionOnSet(f, requests) /\ InMemory(a) = SumFunctionOnSet(k, Threads)
  BY DEF InTransit, InMemory
<1>12. InTransit(a) \in Nat /\ InMemory(a) \in Nat
  BY TransitType, BookedType DEF TransitTyped, BookedTyped, Books
<1> HIDE DEF f, g, h, m, k
<1>13. SumFunctionOnSet(h, requests) =
         SumFunctionOnSet(f, requests) + SumFunctionOnSet(g, requests)
  BY <1>1, <1>4, SumPlus
<1>14. SumFunctionOnSet(g, requests) <= SumFunctionOnSet(k, Threads)
  BY <1>1, <1>5, <1>7, <1>8, <1>9, SumInjection, FiniteAssumption
<1>15. SumFunctionOnSet(g, requests) \in Int
  BY <1>1, <1>4, SumType
<1> QED BY <1>10, <1>11, <1>12, <1>13, <1>14, <1>15

\* One step keeps every account covered.
LEMMA CoveredStep ==
  ASSUME Books, Books', SettlesAboveFloor, Covered, [Next]_vars PROVE Covered'
<1> SUFFICES ASSUME NEW c \in Accounts PROVE Booked(c)' + InTransit(c)' <= Due(c)'
  BY DEF Covered
<1>1. /\ Booked(c) \in Int /\ Due(c) \in Int /\ Booked(c)' \in Int /\ Due(c)' \in Int
      /\ InTransit(c) \in Nat /\ InTransit(c)' \in Nat /\ InMemory(c) \in Nat
      /\ Position(money[c]) \in Int
      /\ \A r \in requests : Orphaned(c)[r] \in Nat
  BY BookedType, DueType, BookedTypePrime, DueTypePrime, TransitType,
     TransitTypePrime
     DEF Books, BookedTyped, DueTyped, TransitTyped
<1>2. Booked(c) + InTransit(c) <= Due(c)
  BY DEF Covered
<1>3. CASE Crash
  <2>1. Booked(c)' = Position(money[c]) /\ Due(c)' = Due(c)
    BY <1>3, CrashMoves, CrashDue DEF DueStays
  <2>2. InTransit(c)' <= InTransit(c) + InMemory(c)
    BY <1>3, TransitCrash
  <2> QED BY <1>1, <1>2, <2>1, <2>2 DEF Booked
<1>4. ASSUME NEW r \in requests, EngineAccepts(r), Stays,
             DueMoves(r.account, -r.amount),
             \A t \in Threads : task[t].pc = "wait" => task[t].key # r.key
      PROVE  Booked(c)' + InTransit(c)' <= Due(c)'
  <2>1. InTransit(c)' = InTransit(c) - Orphaned(c)[r]
    BY <1>4, TransitEngine
  <2>2. Orphaned(c)[r] = IF r.account = c THEN r.amount ELSE 0
    BY <1>4 DEF Orphaned, HasClient
  <2>3. r.amount \in Nat
    BY DEF Books, TypeOK, Request
  <2>4. Booked(c)' = Booked(c)
    BY <1>4 DEF Stays
  <2>5. Due(c)' = IF c = r.account THEN Due(c) + (-r.amount) ELSE Due(c)
    BY <1>4 DEF DueMoves
  <2> QED BY <1>1, <1>2, <2>1, <2>2, <2>3, <2>4, <2>5
<1>5. CASE ~Crash /\ (Even \/ Costs)
  <2>1. InTransit(c)' <= InTransit(c)
    <3>1. ASSUME NEW r \in requests,
                 EngineAccepts(r) \/ \E e \in {"4xx", "5xx"} : EngineRefuses(r, e)
          PROVE  InTransit(c)' <= InTransit(c)
      BY <1>1, <3>1, TransitEngine
    <3> QED BY <1>1, <1>5, <3>1, KeysFrame, TransitRests, TransitSend
  <2> QED BY <1>1, <1>2, <1>5, <2>1 DEF Even, Costs, DueStays
<1> QED BY <1>3, <1>4, <1>5, StepBooks

\* The inductive invariant of the books when anything may fail.
CoveredBooks == Books /\ SettlesAboveFloor /\ Covered

\* A fresh node is covered.
LEMMA CoveredStart == ASSUME MaxTimeouts = 0 PROVE Init => CoveredBooks
<1> SUFFICES ASSUME Init PROVE CoveredBooks
  OBVIOUS
<1>1. Books /\ SettlesAboveFloor
  BY BooksStart
<1>2. ASSUME NEW a \in Accounts PROVE InTransit(a) = 0
  <2>1. requests = {}
    BY DEF Init
  <2> QED BY <2>1, SumEmpty DEF InTransit
<1> QED BY <1>1, <1>2, BooksStartEven DEF Covered, CoveredBooks

\* Every step keeps the books covered.
LEMMA CoveredBooksStep == CoveredBooks /\ [Next]_vars => CoveredBooks'
<1> SUFFICES ASSUME CoveredBooks, [Next]_vars PROVE CoveredBooks'
  OBVIOUS
<1>1. Books'
  BY BooksStep DEF CoveredBooks
<1> QED BY <1>1, SettlesStep, CoveredStep DEF CoveredBooks

\* As long as the settlement client gets an answer to every request, nothing
\* credits an account twice: neither failed store calls, nor dropped requests,
\* nor a restart while the engine still has requests to answer.
THEOREM NothingIsCreditedTwice ==
  ASSUME MaxTimeouts = 0 PROVE Spec => []NeverOverCredits
<1>1. CoveredBooks => NeverOverCredits
  <2> SUFFICES ASSUME CoveredBooks, NEW a \in Accounts PROVE Booked(a) <= Due(a)
    BY DEF NeverOverCredits
  <2>1. Booked(a) \in Int /\ Due(a) \in Int /\ InTransit(a) \in Nat
    BY BookedType, DueType, TransitType
       DEF CoveredBooks, Books, BookedTyped, DueTyped, TransitTyped
  <2> QED BY <2>1 DEF CoveredBooks, Covered
<1> QED BY <1>1, CoveredStart, CoveredBooksStep, PTL DEF Spec

\* No account's position is below its floor.
AboveFloor ==
  \A a \in Accounts : min_balance[a] # None => Position(money[a]) >= Floor(a)

\* As long as the settlement client gets an answer to every request, no peer
\* owes the node more than the peer's settings allow, whatever fails: what is
\* due to an account is at least what is booked for it, and that is at least
\* its position, which only a prepare within min_balance and a settlement down
\* to settle_to lower.
THEOREM CreditStaysLimited ==
  ASSUME MaxTimeouts = 0 PROVE Spec => []CreditIsLimited
<1>1. Init => AboveFloor
  <2> SUFFICES ASSUME Init, NEW a \in Accounts, min_balance[a] # None
               PROVE  Position(money[a]) >= Floor(a)
    BY DEF AboveFloor
  <2>1. Position(money[a]) = 0
    BY DEF Init, Position
  <2> QED BY <2>1, FloorLemma
<1>2. CoveredBooks /\ AboveFloor /\ [Next]_vars => AboveFloor'
  <2> SUFFICES ASSUME CoveredBooks, AboveFloor, [Next]_vars,
                      NEW a \in Accounts, min_balance[a] # None
               PROVE  Position(money[a])' >= Floor(a)
    BY DEF AboveFloor
  <2> QED BY LimitStep DEF CoveredBooks, Books, AboveFloor
<1>3. CoveredBooks /\ AboveFloor => CreditIsLimited
  <2> SUFFICES ASSUME CoveredBooks, AboveFloor,
                      NEW a \in Accounts, min_balance[a] # None
               PROVE  Due(a) >= Floor(a)
    BY DEF CreditIsLimited
  <2>1. /\ Booked(a) \in Int /\ Due(a) \in Int /\ InTransit(a) \in Nat
        /\ Position(money[a]) \in Int /\ Position(money[a]) <= Booked(a)
    BY BookedType, DueType, TransitType
       DEF CoveredBooks, Books, BookedTyped, DueTyped, TransitTyped
  <2>2. Booked(a) + InTransit(a) <= Due(a) /\ Position(money[a]) >= Floor(a)
    BY DEF CoveredBooks, Covered, AboveFloor
  <2> QED BY <2>1, <2>2, FloorLemma
<1> QED BY <1>1, <1>2, <1>3, CoveredStart, CoveredBooksStep, PTL DEF Spec

-----------------------------------------------------------------------------
(* The service implements the ledger *)

\* What moves in the books moves in the ledger.
LEMMA LedgerMoves ==
  ASSUME NEW a \in Accounts, NEW n
  PROVE  /\ Moves(a, n) => IdealLedger!Move(a, n)
         /\ Stays => UNCHANGED [c \in Accounts |-> Booked(c)]
<1>1. ASSUME Moves(a, n) PROVE IdealLedger!Move(a, n)
  <2>1. \A c \in Accounts : Booked(c)' = IF c = a THEN Booked(c) + n ELSE Booked(c)
    BY <1>1 DEF Moves
  <2> QED BY <2>1 DEF IdealLedger!Move
<1>2. ASSUME Stays PROVE UNCHANGED [c \in Accounts |-> Booked(c)]
  BY <1>2 DEF Stays
<1> QED BY <1>1, <1>2

\* What an account pays out without going below its floor is a PayOut of the
\* ledger.
LEMMA PaysOut ==
  ASSUME Books, Books', NEW a \in Accounts, NEW n \in Nat, Moves(a, -n),
         UNCHANGED <<pkt, incoming, used>>,
         min_balance[a] # None => Position(money[a])' >= Floor(a)
  PROVE  IdealLedger!LedgerNext \/ UNCHANGED IdealLedger!ledgerVars
<1>1. /\ Booked(a) \in Int /\ Booked(a)' \in Int /\ Position(money[a])' \in Int
      /\ Position(money[a])' <= Booked(a)'
  BY BookedType, BookedTypePrime DEF Books, BookedTyped
<1>2. CASE n = 0
  <2>1. Stays
    BY <1>2, MovesNothing DEF Books
  <2> QED BY <2>1, LedgerMoves DEF IdealLedger!ledgerVars
<1>3. CASE n # 0
  <2>1. Booked(a)' = Booked(a) + (-n)
    BY DEF Moves
  <2>2. \A c \in Accounts : c # a => Booked(c)' = Booked(c)
    BY DEF Moves
  <2>3. min_balance[a] # None => Booked(a)' >= [c \in Accounts |-> Floor(c)][a]
    BY <1>1, FloorLemma
  <2>4. IdealLedger!PayOut(a)
    <3>1. /\ [c \in Accounts |-> Booked(c)][a] = Booked(a)
          /\ [c \in Accounts |-> Booked(c)]'[a] = Booked(a)'
      OBVIOUS
    <3>2. [c \in Accounts |-> Booked(c)]' =
            [[c \in Accounts |-> Booked(c)] EXCEPT
               ![a] = [c \in Accounts |-> Booked(c)]'[a]]
      BY <2>2
    <3>3. Booked(a)' < Booked(a)
      BY <1>1, <1>3, <2>1
    <3> QED BY <2>3, <3>1, <3>2, <3>3
            DEF IdealLedger!PayOut
  <2> QED BY <2>4 DEF IdealLedger!LedgerNext
<1> QED BY <1>2, <1>3

\* Steps that move a packet.
LEMMA PacketLedgerStep ==
  ASSUME Books, Books', NEW p \in Packets,
         Arrival(p) \/ Fulfilled(p) \/ Rejected(p) \/ DropRequest(p)
  PROVE  IdealLedger!LedgerNext
<1>0. /\ pkt \in [Packets -> Packet] /\ pkt[p] \in Packet
      /\ pkt[p].to \in Accounts /\ pkt[p].from \in Accounts
      /\ pkt[p].inc \in Nat /\ pkt[p].out \in Nat /\ Amounts \subseteq Nat
      /\ MaxStoreFaults \in Nat /\ MaxDrops \in Nat /\ MaxCrashes \in Nat
      /\ budget \in [faults : Nat, timeouts : Nat, drops : Nat, crashes : Nat]
      /\ BudgetOK
  BY SettingAssumption DEF Books, TypeOK, Packet
<1>1. ASSUME NEW from \in Accounts, NEW to \in Accounts,
             NEW inc \in Amounts, NEW out \in Amounts,
             Prepare(p, from, to, inc, out)
      PROVE  IdealLedger!Reserve(p)
  <2>1. IdealLedger!Move(from, -inc)
    BY <1>1, PrepareMoves, LedgerMoves
  <2>2. /\ pkt[p].st = "new"
        /\ pkt' = [pkt EXCEPT ![p] = [st |-> "forwarded", from |-> from, to |-> to,
                                      inc |-> inc, out |-> out]]
        /\ UNCHANGED <<incoming, used>>
    BY <1>1 DEF Prepare
  <2>3. /\ pkt'[p].st = "forwarded" /\ pkt'[p].from = from /\ pkt'[p].inc = inc
        /\ pkt' = [pkt EXCEPT ![p] = pkt'[p]]
    BY <1>0, <2>2
  <2>4. inc > 0 => (min_balance[from] # None => Booked(from) - inc >= min_balance[from])
    <3>1. /\ Position(money[from]) \in Int /\ Booked(from) \in Int
          /\ Position(money[from]) <= Booked(from)
      BY BookedType DEF Books, BookedTyped
    <3>2. inc # 0 => (min_balance[from] # None =>
                        Position(money[from]) - inc >= min_balance[from])
      BY <1>1 DEF Prepare, WithinMinBalance
    <3> QED BY <1>0, <3>1, <3>2, SettingAssumption DEF Setting
  <2>5. [a \in Accounts |-> Booked(a)][from] = Booked(from)
    OBVIOUS
  <2> QED BY <2>1, <2>2, <2>3, <2>4, <2>5
          DEF IdealLedger!Reserve, IdealLedger!WithinLimit
<1>2. ASSUME NEW from \in Accounts, NEW to \in Accounts,
             NEW inc \in Amounts, NEW out \in Amounts,
             PrepareRefused(p, from, to, inc, out)
      PROVE  IdealLedger!Refuse(p)
  <2>1. UNCHANGED [a \in Accounts |-> Booked(a)]
    BY <1>2, QuietMoves, LedgerMoves
  <2>2. /\ pkt[p].st = "new" /\ pkt'[p].st = "refused"
        /\ pkt' = [pkt EXCEPT ![p] = pkt'[p]] /\ UNCHANGED <<incoming, used>>
    BY <1>0, <1>2 DEF PrepareRefused
  <2> QED BY <2>1, <2>2 DEF IdealLedger!Refuse
<1>3. ASSUME Fulfilled(p) PROVE IdealLedger!Fulfill(p)
  <2>1. IdealLedger!Move(pkt[p].to, pkt[p].out)
    BY <1>0, <1>3, AnswerMoves, LedgerMoves
  <2> QED BY <1>3, <2>1 DEF IdealLedger!Fulfill, Fulfilled
<1>4. ASSUME Rejected(p) PROVE IdealLedger!Reject(p)
  <2>1. IdealLedger!Move(pkt[p].from, pkt[p].inc)
    BY <1>0, <1>4, AnswerMoves, LedgerMoves
  <2> QED BY <1>4, <2>1 DEF IdealLedger!Reject, Rejected
<1>5. ASSUME DropRequest(p) PROVE IdealLedger!Lose
  <2>1. \A a \in Accounts : Booked(a)' <= Booked(a)
    BY <1>5, QuietMoves, BookedType DEF Books, BookedTyped, Stays
  <2>2. /\ \A q \in Packets : pkt'[q] = pkt[q] \/ pkt'[q].st = "lost"
        /\ UNCHANGED <<incoming, used>>
    BY <1>0, <1>5 DEF DropRequest, Packet
  <2>3. MaxCrashes + MaxStoreFaults + MaxDrops > 0
    BY <1>0, <1>5 DEF DropRequest, BudgetOK
  <2> QED BY <2>1, <2>2, <2>3 DEF IdealLedger!Lose
<1>6. ASSUME NEW from \in Accounts, NEW to \in Accounts,
             NEW inc \in Amounts, NEW out \in Amounts, NEW applied \in BOOLEAN,
             PrepareFails(p, from, to, inc, out, applied)
      PROVE  IdealLedger!Lose
  <2>1. \A a \in Accounts : Booked(a)' <= Booked(a)
    BY <1>6, PrepareFailsMoves, EvenMoves DEF Costs
  <2>2. /\ \A q \in Packets : pkt'[q] = pkt[q] \/ pkt'[q].st = "refused"
        /\ UNCHANGED <<incoming, used>>
    BY <1>0, <1>6 DEF PrepareFails
  <2>3. MaxCrashes + MaxStoreFaults + MaxDrops > 0
    BY <1>0, <1>6 DEF PrepareFails, BudgetOK
  <2> QED BY <2>1, <2>2, <2>3 DEF IdealLedger!Lose
<1> QED BY <1>1, <1>2, <1>3, <1>4, <1>5, <1>6 DEF Arrival, IdealLedger!LedgerNext

\* Steps of a task: most do nothing the ledger sees; a settlement that nobody
\* will answer for is paid out, a failed store call is a loss.
LEMMA TaskLedgerStep ==
  ASSUME Books, Books', SettlesAboveFloor, [Next]_vars, NEW t \in Threads,
         TaskStep(t) \/ \E applied \in BOOLEAN : TaskStoreFails(t, applied)
  PROVE  IdealLedger!LedgerNext \/ UNCHANGED IdealLedger!ledgerVars
<1> DEFINE Ok == IdealLedger!LedgerNext \/ UNCHANGED IdealLedger!ledgerVars
<1>0. /\ task[t] \in Task /\ task[t].account \in Accounts
      /\ task[t].amount \in Nat /\ TypeOK
      /\ MaxStoreFaults \in Nat /\ MaxDrops \in Nat /\ MaxCrashes \in Nat
      /\ budget \in [faults : Nat, timeouts : Nat, drops : Nat, crashes : Nat]
      /\ BudgetOK
  BY SettingAssumption DEF Books, TypeOK, Task
<1>1. UNCHANGED <<pkt, incoming, used>>
  BY DEF TaskStep, TaskStoreFails, PostFulfill, PostReject, PostRefund, Notify,
         LoadAccount, PostDelayed, PostPrefund, SendSettlement, HandleReply
<1>2. PICK a \in Accounts : a = task[t].account
  BY <1>0
<1>3. ASSUME Stays PROVE Ok
  BY <1>1, <1>2, <1>3, LedgerMoves DEF IdealLedger!ledgerVars
<1>4. ASSUME NEW n \in Nat, Moves(a, Kept(a, n) - n), DueStays,
             n # 0 => Settles(t) \/ (RunScript(t) /\ ToSettle(t) # 0)
      PROVE  Ok
  <2>1. CASE Stays
    BY <1>3, <2>1
  <2>2. CASE n # 0 /\ Moves(a, -n)
    <3>1. min_balance[a] # None => Position(money[a])' >= Floor(a)
      BY <1>2, <1>4, <2>2, SpareFloor
    <3> QED BY <1>1, <2>2, <3>1, PaysOut
  <2> QED BY <1>4, <2>1, <2>2, KeptMoves
<1>5. ASSUME \/ PostFulfill(t) \/ PostReject(t) \/ PostRefund(t)
             \/ LoadAccount(t) \/ SendSettlement(t)
      PROVE  Ok
  BY <1>3, <1>5, PostMoves, ClientMoves
<1>6. ASSUME PostDelayed(t) \/ PostPrefund(t) PROVE Ok
  <2>1. RunScript(t) /\ Moves(a, Kept(a, ToSettle(t)) - ToSettle(t))
    BY <1>2, <1>6, PostMoves DEF PostDelayed, PostPrefund
  <2>2. ToSettle(t) \in Nat
    BY <1>0, <2>1, ScriptMoves
  <2>3. DueStays
    BY <1>6, DueRests DEF PostDelayed, PostPrefund
  <2> QED BY <1>4, <2>1, <2>2, <2>3
<1>7. ASSUME Notify(t) PROVE Ok
  <2>1. Moves(a, Kept(a, task[t].amount) - task[t].amount)
    BY <1>2, <1>7, NotifyMoves
  <2>2. task[t].amount # 0 => Settles(t)
    BY <1>0, <1>7 DEF Notify, Settles
  <2>3. DueStays
    BY <1>7, DueRests DEF Notify
  <2> QED BY <1>0, <1>4, <2>1, <2>2, <2>3
<1>8. ASSUME HandleReply(t) PROVE Ok
  <2>1. CASE Moves(a, -task[t].amount)
    <3>1. Settles(t)
      BY <1>8 DEF HandleReply, Settles
    <3>2. min_balance[a] # None => Position(money[a])' >= Floor(a)
      BY <1>2, <3>1, SpareFloor
    <3> QED BY <1>0, <1>1, <2>1, <3>2, PaysOut
  <2> QED BY <1>2, <1>3, <1>8, <2>1, ReplyMoves
<1>9. ASSUME NEW applied \in BOOLEAN, TaskStoreFails(t, applied) PROVE Ok
  <2>1. \A c \in Accounts : Booked(c)' <= Booked(c)
    <3>1. DueStays
      BY <1>9, DueRests DEF TaskStoreFails
    <3> QED BY <1>0, <1>9, <3>1, FaultMoves, EvenMoves DEF Costs
  <2>2. MaxCrashes + MaxStoreFaults + MaxDrops > 0
    BY <1>0, <1>9 DEF TaskStoreFails, BudgetOK
  <2>3. IdealLedger!Lose
    BY <1>1, <2>1, <2>2 DEF IdealLedger!Lose
  <2> QED BY <2>3 DEF IdealLedger!LedgerNext
<1> HIDE DEF Ok
<1>10. Ok
  BY <1>5, <1>6, <1>7, <1>8, <1>9 DEF TaskStep
<1> QED BY <1>10 DEF Ok

\* Every step of the service is a step of the ledger, or changes nothing in it.
LEMMA LedgerStep ==
  ASSUME Books, Books', SettlesAboveFloor, [Next]_vars
  PROVE  IdealLedger!LedgerNext \/ UNCHANGED IdealLedger!ledgerVars
<1> DEFINE Ok == IdealLedger!LedgerNext \/ UNCHANGED IdealLedger!ledgerVars
<1>0. /\ TypeOK /\ pkt \in [Packets -> Packet]
      /\ MaxStoreFaults \in Nat /\ MaxDrops \in Nat /\ MaxCrashes \in Nat
      /\ budget \in [faults : Nat, timeouts : Nat, drops : Nat, crashes : Nat]
      /\ BudgetOK /\ Edited \subseteq Accounts
      /\ Accounts \subseteq Threads /\ Slots \subseteq Threads
  BY SettingAssumption DEF Books, TypeOK, Threads
<1>1. ASSUME Stays, UNCHANGED <<pkt, incoming, used>> PROVE Ok
  <2>1. UNCHANGED [c \in Accounts |-> Booked(c)]
    BY <1>1 DEF Stays
  <2> QED BY <1>1, <2>1 DEF IdealLedger!ledgerVars
<1>2. ASSUME NEW p \in Packets, Arrival(p) \/ Fulfilled(p) \/ Rejected(p) \/ DropRequest(p)
      PROVE  Ok
  BY <1>2, PacketLedgerStep
<1>3. ASSUME NEW t \in Threads,
             TaskStep(t) \/ \E applied \in BOOLEAN : TaskStoreFails(t, applied)
      PROVE  Ok
  BY <1>3, TaskLedgerStep
<1>4. ASSUME NEW t \in Threads, ClientTimeout(t) PROVE Ok
  BY <1>0, <1>4 DEF ClientTimeout, BudgetOK
<1>5. ASSUME NEW a \in Edited, StartPrefund(a) PROVE Ok
  BY <1>0, <1>1, <1>5, ClientMoves DEF StartPrefund
<1>6. ASSUME NEW k \in QueueKeys, NEW s \in Slots, SpawnDelayed(k, s) PROVE Ok
  BY <1>0, <1>1, <1>6, ClientMoves DEF SpawnDelayed
<1>7. ASSUME NEW r \in requests, NEW e \in {"4xx", "5xx"}, EngineRefuses(r, e)
      PROVE  Ok
  <2>1. UNCHANGED <<pkt, incoming, used>>
    BY <1>7 DEF EngineRefuses, EngineAnswers
  <2> QED BY <1>1, <1>7, <2>1, RefuseMoves
<1>8. ASSUME NEW r \in requests, EngineAccepts(r) PROVE Ok
  <2>1. UNCHANGED <<pkt, incoming, used>>
    BY <1>8 DEF EngineAccepts, EngineAnswers
  <2>2. r.account \in Accounts /\ r.amount \in Nat
    BY <1>0 DEF TypeOK, Request
  <2>3. ASSUME NEW t \in Threads, task[t].pc = "wait", RequestOf(t) = r,
               Moves(r.account, -r.amount)
        PROVE  Ok
    <3>1. task[t].account = r.account /\ Settles(t)
      BY <2>3 DEF RequestOf, Settles
    <3>2. min_balance[r.account] # None =>
            Position(money'[r.account]) >= Floor(r.account)
      <4>1. PICK a \in Accounts : a = r.account
        BY <2>2
      <4>2. min_balance[a] # None => Position(money[a])' >= Floor(a)
        BY <3>1, <4>1, SpareFloor
      <4> QED BY <4>1, <4>2
    <3>3. PICK a \in Accounts : a = r.account
      BY <2>2
    <3>4. Moves(a, -r.amount)
      BY <2>3, <3>3
    <3> QED BY <2>1, <2>2, <3>2, <3>3, <3>4, PaysOut
  <2> QED BY <1>1, <1>8, <2>1, <2>3, AcceptMoves
<1>9. ASSUME TimerStep \/ UNCHANGED vars PROVE Ok
  <2>1. UNCHANGED <<pkt, incoming, used>>
    BY <1>9 DEF TimerStep, vars, serviceVars
  <2> QED BY <1>1, <1>9, <2>1, QuietMoves
<1>10. ASSUME NEW k \in IncomingKeys, NEW a \in Accounts, NEW n \in Amounts,
              PaymentReceived(k, a, n)
       PROVE  Ok
  <2>1. UNCHANGED [c \in Accounts |-> Booked(c)]
    BY <1>10, QuietMoves DEF Stays
  <2>2. /\ incoming[k] = None /\ UNCHANGED <<pkt, used>>
        /\ incoming' = [incoming EXCEPT ![k] = incoming'[k]]
    BY <1>0, <1>10 DEF PaymentReceived, TypeOK
  <2>3. IdealLedger!Deposit(k)
    BY <2>1, <2>2 DEF IdealLedger!Deposit
  <2> QED BY <2>3 DEF IdealLedger!LedgerNext
<1>11. ASSUME NEW k \in IncomingKeys, UpdateBalanceForIncomingSettlement(k)
       PROVE  Ok
  <2>1. /\ incoming[k] # None /\ used' = used \cup {k} /\ UNCHANGED <<pkt, incoming>>
    BY <1>11 DEF UpdateBalanceForIncomingSettlement
  <2>2. CASE k \in used /\ Stays
    BY <1>1, <2>1, <2>2
  <2>3. CASE /\ k \notin used /\ incoming[k].account \in Accounts
             /\ Moves(incoming[k].account, incoming[k].amount)
    <3>1. IdealLedger!Move(incoming[k].account, incoming[k].amount)
      BY <2>3, LedgerMoves
    <3>2. IdealLedger!CreditDeposit(k)
      BY <2>1, <2>3, <3>1 DEF IdealLedger!CreditDeposit
    <3> QED BY <3>2 DEF IdealLedger!LedgerNext
  <2> QED BY <1>11, <2>2, <2>3, IncomingMoves
<1>12. ASSUME Crash PROVE Ok
  <2>1. \A c \in Accounts : Booked(c)' <= Booked(c)
    BY <1>0, <1>12, CrashMoves, BookedType DEF BookedTyped
  <2>2. /\ \A p \in Packets : pkt'[p] = pkt[p] \/ pkt'[p].st = "lost"
        /\ UNCHANGED <<incoming, used>>
    BY <1>0, <1>12 DEF Crash, Packet
  <2>3. MaxCrashes + MaxStoreFaults + MaxDrops > 0
    BY <1>0, <1>12 DEF Crash, BudgetOK
  <2>4. IdealLedger!Lose
    BY <2>1, <2>2, <2>3 DEF IdealLedger!Lose
  <2> QED BY <2>4 DEF IdealLedger!LedgerNext
<1> HIDE DEF Ok
<1>13. Ok
  BY <1>2, <1>3, <1>4, <1>5, <1>6, <1>7, <1>8, <1>9, <1>10, <1>11, <1>12
     DEF Next, EngineStep
<1> QED BY <1>13 DEF Ok

\* As long as the settlement client gets an answer to every request, the
\* balance service implements the ledger that posts each answer at once and
\* never takes what it owes an account in total below min_balance by a packet,
\* or below the account's floor by a settlement: only a failure the code admits
\* costs a peer more than its own packets and settlements.
THEOREM ServiceImplementsLedger ==
  ASSUME MaxTimeouts = 0 PROVE Spec => ImplementsLedger
<1> DEFINE IInv == Books /\ SettlesAboveFloor
<1>1. Init => IInv /\ IdealLedger!LedgerInit
  <2> SUFFICES ASSUME Init PROVE IInv /\ IdealLedger!LedgerInit
    OBVIOUS
  <2>1. IInv
    BY BooksStart
  <2>2. \A a \in Accounts : [c \in Accounts |-> Booked(c)][a] = 0
    BY BooksStartEven
  <2> QED BY <2>1, <2>2 DEF IdealLedger!LedgerInit, Init
<1>2. IInv /\ [Next]_vars => IInv' /\ [IdealLedger!LedgerNext]_(IdealLedger!ledgerVars)
  <2> SUFFICES ASSUME IInv, [Next]_vars
               PROVE  IInv' /\ [IdealLedger!LedgerNext]_(IdealLedger!ledgerVars)
    OBVIOUS
  <2>1. Books'
    BY BooksStep
  <2> QED BY <2>1, SettlesStep, LedgerStep
<1> QED BY <1>1, <1>2, PTL DEF Spec, ImplementsLedger, IdealLedger!LedgerSpec
=============================================================================
