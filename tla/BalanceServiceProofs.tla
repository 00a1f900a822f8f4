------------------------ MODULE BalanceServiceProofs ------------------------
(***************************************************************************)
(* Proofs about the balance service: types, the timer map and queue, and   *)
(* the credit limit.                                                       *)
(***************************************************************************)
EXTENDS BalanceService, TLAPS

-----------------------------------------------------------------------------
(* The scripts *)

\* process_prepare.lua takes exactly the amount out of the position and leaves
\* prepaid_amount non-negative.
LEMMA DeductLemma ==
  ASSUME NEW m \in Money, NEW n \in Nat
  PROVE  Deduct(m, n) \in Money /\ Position(Deduct(m, n)) = Position(m) - n
BY DEF Money, Deduct, Position

\* process_reject.lua and refund_settlement.lua add exactly the amount.
LEMMA CreditLemma ==
  ASSUME NEW m \in Money, NEW n \in Nat
  PROVE  Credit(m, n) \in Money /\ Position(Credit(m, n)) = Position(m) + n
BY DEF Money, Credit, Position

\* process_incoming_settlement.lua adds exactly the amount.
LEMMA CreditIncomingLemma ==
  ASSUME NEW m \in Money, NEW n \in Nat
  PROVE  /\ CreditIncoming(m, n) \in Money
         /\ Position(CreditIncoming(m, n)) = Position(m) + n
<1>1. CASE m.balance >= 0
  BY <1>1 DEF Money, CreditIncoming, Position
<1>2. CASE m.balance < 0 /\ -m.balance >= n
  BY <1>2, CreditLemma DEF Money, CreditIncoming
<1>3. CASE m.balance < 0 /\ ~(-m.balance >= n)
  BY <1>3 DEF Money, CreditIncoming, Position
<1> QED BY <1>1, <1>2, <1>3 DEF Money

\* The two settlement scripts take out an amount that is never negative,
\* and leave settle_to when they take anything.
LEMMA SettleLemma ==
  ASSUME NEW b \in Int, NEW threshold \in Setting, NEW to \in Setting,
         NEW n \in {AmountOverThreshold(b, threshold, to),
                    AmountOverSettleTo(b, threshold, to)}
  PROVE  /\ n \in Nat
         /\ n # 0 => SettlementConfigured(threshold, to) /\ b - n = to
BY NoneAssumption
   DEF AmountOverThreshold, AmountOverSettleTo, SettlementConfigured, Setting

-----------------------------------------------------------------------------
(* Types *)

\* A freshly spawned task (tokio::spawn in send_request and on a timeout) is
\* well typed.
LEMMA NewTaskType ==
  ASSUME NEW pc \in {"idle", "fulfill", "reject", "load", "prefund"},
         NEW a \in Accounts, NEW n \in Nat
  PROVE  NewTask(pc, a, n) \in Task
BY DEF NewTask, Task

\* settle_or_rollback leaves a well-typed task.
LEMMA SettleTaskType ==
  ASSUME NEW t \in Task, NEW a \in Accounts, NEW n \in Nat
  PROVE  SettleTask(t, a, n) \in Task
BY DEF SettleTask, Task

\* Moving a task to a later await keeps it well typed.
LEMMA TaskPcType ==
  ASSUME NEW t \in Task,
         NEW pc \in {"done", "notify", "delayed", "send", "wait", "refund"}
  PROVE  [t EXCEPT !.pc = pc] \in Task
BY DEF Task

\* What the settlement client does after an error keeps a task well typed.
LEMMA AfterErrorType ==
  ASSUME NEW t, task[t] \in Task, NEW e
  PROVE  AfterError(t, e) \in Task
BY TaskPcType DEF AfterError

\* Moving a thread to another program point keeps the tasks' types.
LEMMA PcStepType ==
  ASSUME task \in [Threads -> Task], NEW t \in Threads,
         NEW pc \in {"done", "notify", "delayed", "send", "wait", "refund"},
         task' = [task EXCEPT ![t].pc = pc]
  PROVE  task' \in [Threads -> Task]
<1>1. task[t] \in Task
  OBVIOUS
<1> DEFINE u == [task[t] EXCEPT !.pc = pc]
<1>2. u \in Task
  BY <1>1, TaskPcType
<1>3. task' = [task EXCEPT ![t] = u]
  OBVIOUS
<1> HIDE DEF u
<1> QED BY <1>2, <1>3

\* The store's answer to a fulfill, kept in the task until it is acted on.
LEMMA NotifyTaskType ==
  ASSUME NEW t \in Task, NEW n \in Nat, NEW b \in Int
  PROVE  [t EXCEPT !.pc = "notify", !.amount = n, !.balance = b] \in Task
BY DEF Task

\* The bounds on the environment stay natural numbers.
LEMMA BudgetType ==
  ASSUME NEW b \in [faults : Nat, timeouts : Nat, drops : Nat, crashes : Nat]
  PROVE  LET B == [faults : Nat, timeouts : Nat, drops : Nat, crashes : Nat]
         IN /\ b.faults > 0 => [b EXCEPT !.faults = @ - 1] \in B
            /\ b.timeouts > 0 => [b EXCEPT !.timeouts = @ - 1] \in B
            /\ b.drops > 0 => [b EXCEPT !.drops = @ - 1] \in B
            /\ b.crashes > 0 => [b EXCEPT !.crashes = @ - 1] \in B
OBVIOUS

\* try_send never puts more than ChannelCapacity commands into the channel.
LEMMA TrySendType ==
  ASSUME TimerTypeOK, NEW a \in Accounts, NEW op \in {"Set", "Clear"},
         TrySend(op, a)
  PROVE  channel' \in Seq(Command) /\ Len(channel') <= ChannelCapacity
<1>1. [op |-> op, id |-> a] \in Command
  BY DEF Command
<1> DEFINE c == [op |-> op, id |-> a]
<1> HIDE DEF c
<1>2. channel' = IF Len(channel) < ChannelCapacity
                   THEN Append(channel, c) ELSE channel
  BY DEF TrySend, c
<1>3. c \in Command
  BY <1>1 DEF c
<1> QED BY <1>2, <1>3, ChannelAssumption DEF TimerTypeOK

\* What the background task receives.
LEMMA HeadType ==
  ASSUME TimerTypeOK, channel # << >>
  PROVE  /\ Head(channel) \in Command /\ Head(channel).id \in Accounts
         /\ Tail(channel) \in Seq(Command)
         /\ Len(Tail(channel)) <= ChannelCapacity
<1>1. /\ Head(channel) \in Command /\ Tail(channel) \in Seq(Command)
      /\ Len(Tail(channel)) <= ChannelCapacity
  BY ChannelAssumption DEF TimerTypeOK
<1> QED BY <1>1 DEF Command

\* Every step of the background task, a restart included, keeps the types of
\* its channel, map and queue.
LEMMA TimerStepType ==
  ASSUME TimerTypeOK,
         \/ HandleSet \/ HandleClear \/ TimerCrash
         \/ \E k \in QueueKeys : Expire(k)
  PROVE  TimerTypeOK'
<1>1. ASSUME HandleSet PROVE TimerTypeOK'
  BY <1>1, HeadType DEF HandleSet, TimerTypeOK
<1>2. ASSUME HandleClear PROVE TimerTypeOK'
  BY <1>2, HeadType DEF HandleClear, TimerTypeOK
<1>3. ASSUME TimerCrash PROVE TimerTypeOK'
  BY <1>3, ChannelAssumption DEF TimerCrash, TimerTypeOK
<1>4. ASSUME NEW k \in QueueKeys, Expire(k) PROVE TimerTypeOK'
  BY <1>4 DEF Expire, TimerTypeOK
<1> QED BY <1>1, <1>2, <1>3, <1>4

\* A node that has just been started.
LEMMA InitType == Init => TypeOK
<1> SUFFICES ASSUME Init PROVE TypeOK
  OBVIOUS
<1> USE DEF Init
<1>1. AnyAccount \in Accounts
  BY ThreadAssumption DEF AnyAccount
<1>2. money \in [Accounts -> Money] /\ paid \in [Accounts -> Nat]
  BY DEF Money
<1>3. pkt \in [Packets -> Packet]
  BY <1>1 DEF Packet
<1>4. task \in [Threads -> Task]
  BY <1>1, NewTaskType
<1>5. budget \in [faults : Nat, timeouts : Nat, drops : Nat, crashes : Nat]
  BY SettingAssumption
<1>6. TimerTypeOK
  BY ChannelAssumption DEF TimerInit, TimerTypeOK
<1> QED BY <1>1, <1>2, <1>3, <1>4, <1>5, <1>6 DEF TypeOK


\* A script keeps the money fields well typed, settles a natural amount, and
\* takes an account below the position it had only by bringing its balance
\* down to settle_to.
LEMMA ScriptLemma ==
  ASSUME TypeOK, NEW t \in Threads, RunScript(t)
  PROVE  /\ money' \in [Accounts -> Money]
         /\ ToSettle(t) \in Nat
         /\ \A a \in Accounts :
              \/ Position(money[a])' >= Position(money[a])
              \/ /\ SettlementConfigured(settle_threshold[a], settle_to[a])
                 /\ Position(money[a])' >= settle_to[a]
<1> DEFINE a == task[t].account
           m == money[a]
           n == task[t].amount
           s == ToSettle(t)
           b == m.balance + n
<1>1. a \in Accounts /\ m \in Money /\ n \in Nat
  BY DEF TypeOK, Task
<1>2. m.balance \in Int /\ m.prepaid_amount \in Nat /\ b \in Int
  BY <1>1 DEF Money
<1>3. settle_threshold[a] \in Setting /\ settle_to[a] \in Setting
  BY <1>1, SettingAssumption
<1>4. \/ s = 0
      \/ s = AmountOverThreshold(b, settle_threshold[a], settle_to[a])
      \/ s = AmountOverSettleTo(m.balance, settle_threshold[a], settle_to[a])
  BY DEF ToSettle
<1>5. s \in Nat
  BY <1>2, <1>3, <1>4, SettleLemma
<1>6. money' = [money EXCEPT ![a].balance = m.balance + n - s]
  BY DEF RunScript
<1>7. money[a] = m /\ b = m.balance + n
  OBVIOUS
<1> HIDE DEF a, m, n, s, b
<1>8. \/ s = 0
      \/ /\ SettlementConfigured(settle_threshold[a], settle_to[a])
         /\ b - s >= settle_to[a]
  <2>1. CASE s = AmountOverThreshold(b, settle_threshold[a], settle_to[a])
    <3>1. s = 0 \/ (/\ SettlementConfigured(settle_threshold[a], settle_to[a])
                    /\ b - s = settle_to[a])
      BY <1>2, <1>3, <2>1, SettleLemma
    <3> QED BY <3>1, <1>1, <1>2, <1>5, <1>7
  <2>2. CASE s = AmountOverSettleTo(m.balance, settle_threshold[a],
                                    settle_to[a])
    <3>1. s = 0 \/ (/\ SettlementConfigured(settle_threshold[a], settle_to[a])
                    /\ m.balance - s = settle_to[a])
      BY <1>2, <1>3, <2>2, SettleLemma
    <3> QED BY <3>1, <1>1, <1>2, <1>5, <1>7
  <2> QED BY <2>1, <2>2, <1>4
<1>9. money' \in [Accounts -> Money]
  BY <1>1, <1>2, <1>5, <1>6, <1>7 DEF TypeOK, Money
<1>10. ASSUME NEW c \in Accounts
       PROVE  \/ Position(money[c])' >= Position(money[c])
              \/ /\ SettlementConfigured(settle_threshold[c], settle_to[c])
                 /\ Position(money[c])' >= settle_to[c]
  <2>1. CASE c # a
    BY <2>1, <1>1, <1>6 DEF TypeOK, Position, Money
  <2>2. CASE c = a
    <3>1. /\ Position(money[c]) = m.balance + m.prepaid_amount
          /\ Position(money[c])' = b - s + m.prepaid_amount
      BY <2>2, <1>1, <1>2, <1>5, <1>6, <1>7 DEF TypeOK, Position, Money
    <3>2. CASE s = 0
      BY <3>1, <3>2, <1>1, <1>2, <1>7
    <3>3. CASE s # 0
      BY <3>1, <3>3, <2>2, <1>1, <1>2, <1>3, <1>5, <1>8, NoneAssumption
         DEF SettlementConfigured, Setting
    <3> QED BY <3>2, <3>3
  <2> QED BY <2>1, <2>2
<1> QED BY <1>5, <1>9, <1>10 DEF s

\* One step of the service keeps the types.
LEMMA NextType == TypeOK /\ [Next]_vars => TypeOK'
<1> SUFFICES ASSUME TypeOK, [Next]_vars PROVE TypeOK'
  OBVIOUS
<1> USE DEF TypeOK
<1>0. /\ \A t \in Threads : /\ task[t] \in Task /\ task[t].account \in Accounts
                            /\ task[t].amount \in Nat
      /\ \A a \in Accounts : money[a] \in Money
      /\ Packets \subseteq Threads /\ Slots \subseteq Threads
      /\ Accounts \subseteq Threads
  BY DEF Task, Threads
<1>p. ASSUME NEW p \in Packets, NEW from \in Accounts, NEW to \in Accounts,
             NEW inc \in Amounts, NEW out \in Amounts,
             NEW st \in {"forwarded", "refused"}
      PROVE  /\ inc \in Nat
             /\ [pkt EXCEPT ![p] = [st |-> st, from |-> from, to |-> to,
                                    inc |-> inc, out |-> out]]
                  \in [Packets -> Packet]
  BY SettingAssumption DEF Packet
<1>1. ASSUME NEW p \in Packets, NEW from \in Accounts, NEW to \in Accounts,
             NEW inc \in Amounts, NEW out \in Amounts,
             Prepare(p, from, to, inc, out)
      PROVE  TypeOK'
  BY <1>1, <1>0, <1>p, DeductLemma DEF Prepare, timerVars, TimerTypeOK
<1>2. ASSUME NEW p \in Packets, NEW from \in Accounts, NEW to \in Accounts,
             NEW inc \in Amounts, NEW out \in Amounts,
             PrepareRefused(p, from, to, inc, out)
      PROVE  TypeOK'
  BY <1>2, <1>0, <1>p DEF PrepareRefused, timerVars, TimerTypeOK
<1>3. ASSUME NEW p \in Packets, NEW from \in Accounts, NEW to \in Accounts,
             NEW inc \in Amounts, NEW out \in Amounts, NEW applied \in BOOLEAN,
             PrepareFails(p, from, to, inc, out, applied)
      PROVE  TypeOK'
  <2>1. pkt' \in [Packets -> Packet]
    BY <1>3, <1>p DEF PrepareFails
  <2>2. money' \in [Accounts -> Money]
    BY <1>3, <1>p, <1>0, DeductLemma DEF PrepareFails
  <2> QED BY <1>3, <2>1, <2>2, BudgetType
          DEF PrepareFails, timerVars, TimerTypeOK
<1>4. ASSUME NEW p \in Packets, Fulfilled(p) PROVE TypeOK'
  <2>1. NewTask("fulfill", pkt[p].to, pkt[p].out) \in Task
    BY NewTaskType DEF Packet
  <2> QED BY <2>1, <1>4, <1>0 DEF Fulfilled, Packet, timerVars, TimerTypeOK
<1>5. ASSUME NEW p \in Packets, Rejected(p) PROVE TypeOK'
  <2>1. NewTask("reject", pkt[p].from, pkt[p].inc) \in Task
    BY NewTaskType DEF Packet
  <2> QED BY <2>1, <1>5, <1>0 DEF Rejected, Packet, timerVars, TimerTypeOK
<1>6. ASSUME NEW p \in Packets, DropRequest(p) PROVE TypeOK'
  <2>1. pkt' \in [Packets -> Packet]
    BY <1>6 DEF DropRequest, Packet
  <2> QED BY <1>6, <2>1, BudgetType DEF DropRequest, timerVars, TimerTypeOK
<1>7. ASSUME NEW t \in Threads, PostFulfill(t) PROVE TypeOK'
  <2>1. money' \in [Accounts -> Money] /\ ToSettle(t) \in Nat
    BY <1>7, ScriptLemma DEF PostFulfill
  <2>2. Position(money'[task[t].account]) \in Int
    BY <2>1, <1>0 DEF Position, Money
  <2> DEFINE u == [task[t] EXCEPT !.pc = "notify", !.amount = ToSettle(t),
                     !.balance = Position(money'[task[t].account])]
  <2>3. task' \in [Threads -> Task]
    <3>1. u \in Task
      BY <1>0, <2>1, <2>2, NotifyTaskType
    <3>2. task' = [task EXCEPT ![t] = u]
      BY <1>7 DEF PostFulfill
    <3> HIDE DEF u
    <3> QED BY <3>1, <3>2
  <2> QED BY <1>7, <2>1, <2>3 DEF PostFulfill, timerVars, TimerTypeOK
<1>8. ASSUME NEW t \in Threads, Notify(t) PROVE TypeOK'
  <2>1. task' \in [Threads -> Task]
    <3>1. SettleTask(task[t], task[t].account, task[t].amount) \in Task
      BY <1>0, SettleTaskType
    <3>2. \/ task' = [task EXCEPT ![t].pc = "done"]
          \/ task' = [task EXCEPT ![t] = SettleTask(task[t], task[t].account,
                                                    task[t].amount)]
      BY <1>8 DEF Notify
    <3> QED BY <3>1, <3>2, PcStepType
  <2>2. channel' \in Seq(Command) /\ Len(channel') <= ChannelCapacity
    BY <1>8, <1>0, TrySendType DEF Notify, TimerTypeOK
  <2> QED BY <1>8, <2>1, <2>2 DEF Notify, TimerTypeOK
<1>9. ASSUME NEW t \in Threads, PostReject(t) \/ PostRefund(t) PROVE TypeOK'
  <2>1. task' \in [Threads -> Task]
    BY <1>9, PcStepType DEF PostReject, PostRefund
  <2>2. money' \in [Accounts -> Money]
    BY <1>9, ScriptLemma DEF PostReject, PostRefund
  <2> QED BY <2>1, <2>2, <1>9 DEF PostReject, PostRefund, timerVars, TimerTypeOK
<1>10. ASSUME NEW k \in QueueKeys, NEW s \in Slots, SpawnDelayed(k, s)
       PROVE  TypeOK'
  <2>1. timeouts[k] \in Accounts
    BY <1>10 DEF SpawnDelayed, Expire, TimerTypeOK
  <2>2. NewTask("load", timeouts[k], 0) \in Task
    BY <2>1, NewTaskType
  <2>3. TimerTypeOK'
    BY <1>10, TimerStepType DEF SpawnDelayed
  <2> QED BY <2>2, <2>3, <1>10, <1>0 DEF SpawnDelayed
<1>11. ASSUME NEW t \in Threads, LoadAccount(t) PROVE TypeOK'
  <2>1. task' \in [Threads -> Task]
    BY <1>11, PcStepType DEF LoadAccount
  <2> QED BY <1>11, <2>1 DEF LoadAccount, timerVars, TimerTypeOK
<1>12. ASSUME NEW t \in Threads, PostDelayed(t) \/ PostPrefund(t) PROVE TypeOK'
  <2>1. money' \in [Accounts -> Money] /\ ToSettle(t) \in Nat
    BY <1>12, ScriptLemma DEF PostDelayed, PostPrefund
  <2>2. SettleTask(task[t], task[t].account, ToSettle(t)) \in Task
    BY <2>1, <1>0, SettleTaskType
  <2> QED BY <1>12, <2>1, <2>2
          DEF PostDelayed, PostPrefund, timerVars, TimerTypeOK
<1>13. ASSUME NEW a \in Edited, StartPrefund(a) PROVE TypeOK'
  <2>1. a \in Accounts /\ NewTask("prefund", a, 0) \in Task
    BY NewTaskType, SettingAssumption
  <2> QED BY <2>1, <1>13, <1>0 DEF StartPrefund, timerVars, TimerTypeOK
<1>14. ASSUME NEW t \in Threads, NEW applied \in BOOLEAN,
              TaskStoreFails(t, applied)
       PROVE  TypeOK'
  <2>1. task' \in [Threads -> Task]
    BY <1>14, PcStepType DEF TaskStoreFails
  <2>2. money' \in [Accounts -> Money]
    BY <1>14, ScriptLemma DEF TaskStoreFails
  <2> QED BY <2>1, <2>2, <1>14, BudgetType
          DEF TaskStoreFails, timerVars, TimerTypeOK
<1>15. ASSUME NEW t \in Threads, SendSettlement(t) PROVE TypeOK'
  <2>1. task' \in [Threads -> Task]
    BY <1>15 DEF SendSettlement, Task
  <2>2. requests' \subseteq Request
    BY <1>15, <1>0 DEF SendSettlement, Request
  <2> QED BY <1>15, <2>1, <2>2 DEF SendSettlement, timerVars, TimerTypeOK
<1>16. ASSUME NEW t \in Threads, HandleReply(t) PROVE TypeOK'
  <2>1. AfterError(t, task[t].reply) \in Task
    BY <1>0, AfterErrorType
  <2>2. [task[t] EXCEPT !.pc = "done"] \in Task
    BY <1>0, TaskPcType
  <2> QED BY <1>16, <2>1, <2>2 DEF HandleReply, timerVars, TimerTypeOK
<1>17. ASSUME NEW t \in Threads, ClientTimeout(t) PROVE TypeOK'
  <2>1. AfterError(t, "timeout") \in Task
    BY <1>0, AfterErrorType
  <2> QED BY <1>17, <2>1, BudgetType DEF ClientTimeout, timerVars, TimerTypeOK
<1>18. ASSUME NEW r \in requests,
              \/ EngineAccepts(r)
              \/ EngineRefuses(r, "4xx") \/ EngineRefuses(r, "5xx")
       PROVE  TypeOK'
  <2>1. PICK reply \in {"ok", "4xx", "5xx"} : EngineAnswers(r, reply)
    BY <1>18 DEF EngineAccepts, EngineRefuses
  <2>2. task' \in [Threads -> Task]
    BY <2>1 DEF EngineAnswers, Task
  <2>3. r \in Request /\ r.key \in Nat /\ r.account \in Accounts
        /\ r.amount \in Nat
    BY DEF Request
  <2>4. engineKeys' \subseteq Nat /\ paid' \in [Accounts -> Nat]
    <3>1. CASE EngineAccepts(r)
      <4>1. engineKeys' = engineKeys \cup {r.key}
        BY <3>1 DEF EngineAccepts
      <4>2. \/ paid' = paid
            \/ paid' = [paid EXCEPT ![r.account] = @ + r.amount]
        BY <3>1 DEF EngineAccepts
      <4>3. engineKeys' \subseteq Nat
        BY <4>1, <2>3
      <4>4. paid \in [Accounts -> Nat] /\ paid[r.account] + r.amount \in Nat
        BY <2>3
      <4>5. paid' \in [Accounts -> Nat]
        BY <4>2, <4>4
      <4> QED BY <4>3, <4>5
    <3>2. CASE EngineRefuses(r, "4xx") \/ EngineRefuses(r, "5xx")
      BY <3>2 DEF EngineRefuses
    <3> QED BY <1>18, <3>1, <3>2
  <2> QED BY <2>1, <2>2, <2>4 DEF EngineAnswers, timerVars, TimerTypeOK
<1>19. CASE TimerStep
  BY <1>19, TimerStepType DEF TimerStep, serviceVars
<1>20. ASSUME NEW k \in IncomingKeys, NEW a \in Accounts, NEW n \in Amounts,
              PaymentReceived(k, a, n)
       PROVE  TypeOK'
  BY <1>20 DEF PaymentReceived, timerVars, TimerTypeOK
<1>21. ASSUME NEW k \in IncomingKeys, UpdateBalanceForIncomingSettlement(k)
       PROVE  TypeOK'
  <2>1. incoming[k] \in [account : Accounts, amount : Amounts]
    BY <1>21 DEF UpdateBalanceForIncomingSettlement
  <2>2. incoming[k].account \in Accounts /\ incoming[k].amount \in Nat
    BY <2>1, SettingAssumption
  <2>3. money' \in [Accounts -> Money]
    BY <1>21, <2>2, <1>0, CreditIncomingLemma
       DEF UpdateBalanceForIncomingSettlement
  <2> QED BY <1>21, <2>3
          DEF UpdateBalanceForIncomingSettlement, timerVars, TimerTypeOK
<1>22. CASE Crash
  <2>1. pkt' \in [Packets -> Packet]
    BY <1>22 DEF Crash, Packet
  <2>2. task' \in [Threads -> Task]
    BY <1>22 DEF Crash, Task
  <2>3. TimerTypeOK'
    BY <1>22, TimerStepType DEF Crash
  <2>4. budget' \in [faults : Nat, timeouts : Nat, drops : Nat, crashes : Nat]
    BY <1>22, BudgetType DEF Crash
  <2> QED BY <1>22, <2>1, <2>2, <2>3, <2>4 DEF Crash
<1>23. CASE UNCHANGED vars
  BY <1>23 DEF vars, serviceVars, timerVars, TimerTypeOK
<1> QED
  BY <1>1, <1>2, <1>3, <1>4, <1>5, <1>6, <1>7, <1>8, <1>9, <1>10, <1>11,
     <1>12, <1>13, <1>14, <1>15, <1>16, <1>17, <1>18, <1>19, <1>20, <1>21,
     <1>22, <1>23
  DEF Next, Arrival, TaskStep, EngineStep

\* TypeOK holds in every state of the service: in particular prepaid_amount
\* and the amounts the scripts return for settlement, which the code reads as
\* unsigned, never go negative.
THEOREM TypeCorrect == Spec => []TypeOK
<1> QED BY InitType, NextType, PTL DEF Spec

-----------------------------------------------------------------------------
(* The frame of a step: who writes the timers and who writes the money *)

TimerWrites ==
  \/ HandleSet \/ HandleClear \/ TimerCrash
  \/ \E k \in QueueKeys : Expire(k)
  \/ UNCHANGED <<in_queue, timeouts>>

MoneyWrites ==
  \/ UNCHANGED money
  \/ \E from \in Accounts, inc \in Amounts :
       /\ inc # 0 => WithinMinBalance(money[from], inc, min_balance[from])
       /\ money' = [money EXCEPT ![from] = Deduct(@, inc)]
  \/ \E t \in Threads : RunScript(t)
  \/ \E k \in IncomingKeys : UpdateBalanceForIncomingSettlement(k)

\* Which steps write the timers and which the money: everything else a step of
\* the service does leaves both alone.
LEMMA StepFrame ==
  ASSUME [Next]_vars PROVE TimerWrites /\ MoneyWrites
<1> USE DEF TimerWrites, MoneyWrites, timerVars
<1>1. ASSUME NEW p \in Packets, Arrival(p) PROVE TimerWrites /\ MoneyWrites
  BY <1>1 DEF Arrival, Prepare, PrepareRefused, PrepareFails
<1>2. ASSUME NEW p \in Packets, Fulfilled(p) \/ Rejected(p) \/ DropRequest(p)
      PROVE  TimerWrites /\ MoneyWrites
  BY <1>2 DEF Fulfilled, Rejected, DropRequest
<1>3. ASSUME NEW t \in Threads, \/ PostFulfill(t) \/ PostReject(t)
                                \/ PostRefund(t) \/ PostDelayed(t)
                                \/ PostPrefund(t)
      PROVE  TimerWrites /\ MoneyWrites
  BY <1>3 DEF PostFulfill, PostReject, PostRefund, PostDelayed, PostPrefund
<1>4. ASSUME NEW t \in Threads, \/ Notify(t) \/ LoadAccount(t)
                                \/ SendSettlement(t) \/ HandleReply(t)
                                \/ ClientTimeout(t)
      PROVE  TimerWrites /\ MoneyWrites
  BY <1>4 DEF Notify, LoadAccount, SendSettlement, HandleReply, ClientTimeout
<1>5. ASSUME NEW t \in Threads, NEW applied \in BOOLEAN,
             TaskStoreFails(t, applied)
      PROVE  TimerWrites /\ MoneyWrites
  BY <1>5 DEF TaskStoreFails
<1>6. ASSUME NEW a \in Edited, StartPrefund(a) PROVE TimerWrites /\ MoneyWrites
  BY <1>6 DEF StartPrefund
<1>7. ASSUME NEW k \in QueueKeys, NEW s \in Slots, SpawnDelayed(k, s)
      PROVE  TimerWrites /\ MoneyWrites
  BY <1>7 DEF SpawnDelayed
<1>8. CASE EngineStep
  BY <1>8 DEF EngineStep, EngineAccepts, EngineRefuses, EngineAnswers
<1>9. CASE TimerStep
  BY <1>9 DEF TimerStep, serviceVars
<1>10. ASSUME NEW k \in IncomingKeys, NEW a \in Accounts, NEW n \in Amounts,
              PaymentReceived(k, a, n)
       PROVE  TimerWrites /\ MoneyWrites
  BY <1>10 DEF PaymentReceived
<1>11. ASSUME NEW k \in IncomingKeys, UpdateBalanceForIncomingSettlement(k)
       PROVE  TimerWrites /\ MoneyWrites
  <2>1. UNCHANGED <<in_queue, timeouts>>
    BY <1>11 DEF UpdateBalanceForIncomingSettlement
  <2> QED BY <1>11, <2>1
<1>12. CASE Crash
  BY <1>12 DEF Crash
<1>13. CASE UNCHANGED vars
  BY <1>13 DEF vars, serviceVars
<1> QED BY <1>1, <1>2, <1>3, <1>4, <1>5, <1>6, <1>7, <1>8, <1>9, <1>10, <1>11,
           <1>12, <1>13
        DEF Next, TaskStep

-----------------------------------------------------------------------------
(* The timer map and the delay queue *)

\* One step keeps the map in_queue and the DelayQueue in agreement.
LEMMA TimersMatchStep ==
  ASSUME TypeOK, TimersMatch, [Next]_vars
  PROVE  TimersMatch'
<1> USE DEF TimersMatch
<1>0. TimerTypeOK
  BY DEF TypeOK
<1>1. CASE HandleSet
  <2>1. Head(channel).id \in Accounts
    BY <1>0, <1>1, HeadType DEF HandleSet
  <2> QED BY <1>0, <1>1, <2>1, TimerAssumption DEF HandleSet, TimerTypeOK
<1>2. CASE HandleClear
  <2>1. Head(channel).id \in Accounts
    BY <1>0, <1>2, HeadType DEF HandleClear
  <2> QED BY <1>0, <1>2, <2>1, TimerAssumption DEF HandleClear, TimerTypeOK
<1>3. ASSUME NEW k \in QueueKeys, Expire(k) PROVE TimersMatch'
  BY <1>0, <1>3, TimerAssumption DEF Expire, TimerTypeOK
<1>4. CASE TimerCrash
  BY <1>4 DEF TimerCrash
<1>5. CASE UNCHANGED <<in_queue, timeouts>>
  BY <1>5
<1> QED BY <1>1, <1>2, <1>3, <1>4, <1>5, StepFrame DEF TimerWrites

\* The key the map holds for an account is always the account's own entry in
\* the queue, and an entry that expires is always in the map: the background
\* task never removes a dead key, and the None its comment wonders about does
\* not occur.
THEOREM TimersAgree == Spec => []TimersMatch
<1>1. Init => TimersMatch
  BY DEF Init, TimerInit, TimersMatch
<1>2. TypeOK /\ TimersMatch /\ [Next]_vars => TimersMatch'
  BY TimersMatchStep
<1> QED BY <1>1, <1>2, TypeCorrect, PTL DEF Spec

-----------------------------------------------------------------------------
(* The credit limit *)

\* No setting of an account is below its floor, and neither is what it starts
\* with.
LEMMA FloorLemma ==
  ASSUME NEW a \in Accounts, min_balance[a] # None
  PROVE  /\ min_balance[a] \in Int /\ Floor(a) \in Int
         /\ Floor(a) <= 0 /\ Floor(a) <= min_balance[a]
         /\ SettlementConfigured(settle_threshold[a], settle_to[a])
              => settle_to[a] \in Int /\ Floor(a) <= settle_to[a]
<1>1. min_balance[a] \in Int
  BY SettingAssumption DEF Setting
<1>2. SettlementConfigured(settle_threshold[a], settle_to[a]) => settle_to[a] \in Int
  BY SettingAssumption DEF Setting, SettlementConfigured
<1> QED BY <1>1, <1>2 DEF Floor, Lowest

\* No step takes an account from its floor or above to below it.
LEMMA LimitStep ==
  ASSUME TypeOK, [Next]_vars, NEW a \in Accounts,
         min_balance[a] # None, Position(money[a]) >= Floor(a)
  PROVE  Position(money[a])' >= Floor(a)
<1>0. /\ min_balance[a] \in Int /\ Floor(a) \in Int /\ Floor(a) <= min_balance[a]
      /\ money \in [Accounts -> Money] /\ Position(money[a]) \in Int
  BY FloorLemma DEF TypeOK, Position, Money
<1>1. CASE UNCHANGED money
  BY <1>1, <1>0
<1>2. ASSUME NEW from \in Accounts, NEW inc \in Amounts, inc # 0 =>
               WithinMinBalance(money[from], inc, min_balance[from]),
             money' = [money EXCEPT ![from] = Deduct(@, inc)]
      PROVE  Position(money[a])' >= Floor(a)
  <2>1. /\ inc \in Nat /\ money[from] \in Money
        /\ Position(Deduct(money[from], inc)) = Position(money[from]) - inc
    BY <1>0, SettingAssumption, DeductLemma
  <2>2. CASE a = from
    <3>1. Position(money[a])' = Position(money[a]) - inc
      BY <1>0, <1>2, <2>1, <2>2
    <3> QED BY <1>0, <1>2, <2>1, <2>2, <3>1 DEF WithinMinBalance
  <2>3. CASE a # from
    BY <1>0, <1>2, <2>3
  <2> QED BY <2>2, <2>3
<1>3. ASSUME NEW t \in Threads, RunScript(t)
      PROVE  Position(money[a])' >= Floor(a)
  <2>1. \/ Position(money[a])' >= Position(money[a])
        \/ /\ SettlementConfigured(settle_threshold[a], settle_to[a])
           /\ Position(money[a])' >= settle_to[a]
    BY <1>3, ScriptLemma
  <2>2. Position(money[a])' \in Int
    <3>1. money'[a] \in Money
      BY <1>3, ScriptLemma
    <3> QED BY <3>1 DEF Position, Money
  <2>3. CASE Position(money[a])' >= Position(money[a])
    BY <1>0, <2>2, <2>3
  <2>4. CASE /\ SettlementConfigured(settle_threshold[a], settle_to[a])
             /\ Position(money[a])' >= settle_to[a]
    <3>1. settle_to[a] >= Floor(a) /\ settle_to[a] \in Int
      BY <2>4, FloorLemma
    <3> QED BY <1>0, <2>2, <2>4, <3>1
  <2> QED BY <2>1, <2>3, <2>4
<1>4. ASSUME NEW k \in IncomingKeys, UpdateBalanceForIncomingSettlement(k)
      PROVE  Position(money[a])' >= Floor(a)
  <2> DEFINE c == incoming[k].account
             n == incoming[k].amount
  <2>1. c \in Accounts /\ n \in Nat
    <3>1. incoming[k] \in [account : Accounts, amount : Amounts]
      BY <1>4 DEF UpdateBalanceForIncomingSettlement, TypeOK
    <3> QED BY <3>1, SettingAssumption
  <2>2. \/ UNCHANGED money
        \/ money' = [money EXCEPT ![c] = CreditIncoming(money[c], n)]
    BY <1>4 DEF UpdateBalanceForIncomingSettlement
  <2> HIDE DEF c, n
  <2>3. Position(CreditIncoming(money[c], n)) = Position(money[c]) + n
    BY <1>0, <2>1, CreditIncomingLemma
  <2>4. CASE money' = [money EXCEPT ![c] = CreditIncoming(money[c], n)]
    <3>1. CASE a = c
      <4>1. Position(money[a])' = Position(money[a]) + n
        BY <1>0, <2>3, <2>4, <3>1
      <4> QED BY <1>0, <2>1, <4>1
    <3>2. CASE a # c
      BY <1>0, <2>4, <3>2
    <3> QED BY <3>1, <3>2
  <2> QED BY <1>1, <2>2, <2>4
<1> QED BY <1>1, <1>2, <1>3, <1>4, StepFrame DEF MoneyWrites

=============================================================================
