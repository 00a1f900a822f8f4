--------------------------- MODULE BalanceService ---------------------------
(***************************************************************************)
(* The balance service of the connector: the accounts' money in Redis, the *)
(* packets it forwards, the tasks it spawns to post their outcome and to   *)
(* settle, the settlement client and the engine at the other end of its    *)
(* HTTP requests, and the delayed settlement task of DelayedSettlement.    *)
(*                                                                         *)
(* One thread is a packet (its send_request and the task spawned for its   *)
(* answer), a slot for a task spawned by an expired timeout, or an account *)
(* (the API's connect_to_external_services, which prefunds a new account). *)
(* A thread's step is what the code does between two awaits.               *)
(***************************************************************************)
EXTENDS DelayedSettlement

CONSTANTS Packets, Slots,     \* thread identifiers
          IncomingKeys,       \* idempotency keys of incoming settlements
          Amounts,            \* amounts a packet or a settlement may have
          min_balance, settle_threshold, settle_to,   \* account settings
          has_engine,         \* the account has a settlement engine
          Edited,             \* accounts the operator inserts or edits
          TimeBased,          \* Policy::TimeBased rather than ThresholdOnly
          MaxRetries,         \* 10 in settlement_client.rs
          \* bounds on the environment
          MaxStoreFaults,     \* store calls that end in an error
          MaxTimeouts,        \* requests the client stops waiting for
          MaxDrops,           \* requests whose caller goes away
          MaxCrashes          \* restarts of the node

Threads == Packets \cup Slots \cup Accounts

ASSUME SettingAssumption ==
  /\ min_balance \in [Accounts -> Setting]
  /\ settle_threshold \in [Accounts -> Setting]
  /\ settle_to \in [Accounts -> Setting]
  /\ has_engine \in [Accounts -> BOOLEAN]
  /\ Edited \subseteq Accounts
  /\ Amounts \subseteq Nat
  /\ TimeBased \in BOOLEAN
  /\ MaxRetries \in Nat
  /\ MaxStoreFaults \in Nat /\ MaxTimeouts \in Nat
  /\ MaxDrops \in Nat /\ MaxCrashes \in Nat

ASSUME ThreadAssumption ==
  /\ Packets \cap Slots = {} /\ Packets \cap Accounts = {}
  /\ Slots \cap Accounts = {}
  /\ Accounts # {}

VARIABLES
  money,       \* Redis: account -> [balance, prepaid_amount]
  used,        \* Redis: incoming idempotency keys already processed
  incoming,    \* key -> the settlement the engine received, or None
  pkt,         \* packet -> its route, amounts and what its sender was told
  task,        \* thread -> program counter and locals
  requests,    \* settlement requests on their way to the engine
  engineKeys,  \* idempotency keys the engine has answered with success
  paid,        \* account -> what the engine was told to pay in total
  nextKey,     \* source of fresh uuids
  budget       \* what is left of the bounds on the environment

serviceVars == <<money, used, incoming, pkt, task, requests, engineKeys, paid,
                 nextKey, budget>>
vars == <<serviceVars, timerVars>>

Task == [pc : {"idle", "fulfill", "reject", "notify", "load", "delayed",
               "prefund", "send", "wait", "refund", "done"},
         account : Accounts, amount : Nat, balance : Int,
         attempt : Nat, key : Nat, reply : {"none", "ok", "4xx", "5xx"}]

Packet == [st : {"new", "forwarded", "refused", "fulfilled", "rejected",
                 "lost"},
           from : Accounts, to : Accounts, inc : Nat, out : Nat]

Request == [key : Nat, account : Accounts, amount : Nat]

NewTask(pc, a, amount) ==
  [pc |-> pc, account |-> a, amount |-> amount, balance |-> 0,
   attempt |-> 0, key |-> 0, reply |-> "none"]

AnyAccount == CHOOSE a \in Accounts : TRUE

Init ==
  /\ money = [a \in Accounts |-> [balance |-> 0, prepaid_amount |-> 0]]
  /\ used = {}
  /\ incoming = [k \in IncomingKeys |-> None]
  /\ pkt = [p \in Packets |-> [st |-> "new", from |-> AnyAccount,
                               to |-> AnyAccount, inc |-> 0, out |-> 0]]
  /\ task = [t \in Threads |-> NewTask("idle", AnyAccount, 0)]
  /\ requests = {}
  /\ engineKeys = {}
  /\ paid = [a \in Accounts |-> 0]
  /\ nextKey = 1
  /\ budget = [faults |-> MaxStoreFaults, timeouts |-> MaxTimeouts,
               drops |-> MaxDrops, crashes |-> MaxCrashes]
  /\ TimerInit

-----------------------------------------------------------------------------
(* send_request, up to the answer of the next service *)

\* A packet that moves no money at all does not touch the store.
ZeroAmount(p) == p.inc = 0 /\ p.out = 0

\* update_balances_for_prepare: an amount of 0 never reaches Redis.
Prepare(p, from, to, inc, out) ==
  /\ pkt[p].st = "new"
  /\ inc # 0 => WithinMinBalance(money[from], inc, min_balance[from])
  /\ money' = [money EXCEPT ![from] = Deduct(@, inc)]
  /\ pkt' = [pkt EXCEPT ![p] = [st |-> "forwarded", from |-> from, to |-> to,
                                inc |-> inc, out |-> out]]
  /\ UNCHANGED <<used, incoming, task, requests, engineKeys, paid, nextKey,
                 budget, timerVars>>

\* The store refuses: the sender gets T04_INSUFFICIENT_LIQUIDITY.
PrepareRefused(p, from, to, inc, out) ==
  /\ pkt[p].st = "new"
  /\ inc # 0 /\ ~WithinMinBalance(money[from], inc, min_balance[from])
  /\ pkt' = [pkt EXCEPT ![p] = [st |-> "refused", from |-> from, to |-> to,
                                inc |-> inc, out |-> out]]
  /\ UNCHANGED <<money, used, incoming, task, requests, engineKeys, paid,
                 nextKey, budget, timerVars>>

\* The store call ends in an error, before or after the script ran; either
\* way the sender gets the same reject.
PrepareFails(p, from, to, inc, out, applied) ==
  /\ pkt[p].st = "new" /\ inc # 0 /\ budget.faults > 0
  /\ WithinMinBalance(money[from], inc, min_balance[from])
  /\ money' = IF applied THEN [money EXCEPT ![from] = Deduct(@, inc)]
                         ELSE money
  /\ pkt' = [pkt EXCEPT ![p] = [st |-> "refused", from |-> from, to |-> to,
                                inc |-> inc, out |-> out]]
  /\ budget' = [budget EXCEPT !.faults = @ - 1]
  /\ UNCHANGED <<used, incoming, task, requests, engineKeys, paid, nextKey,
                 timerVars>>

\* The fulfill is passed back at once; the credit is a task of its own, and
\* there is none for an outgoing amount of 0.
Fulfilled(p) ==
  /\ pkt[p].st = "forwarded"
  /\ pkt' = [pkt EXCEPT ![p].st = "fulfilled"]
  /\ task' = IF pkt[p].out > 0
               THEN [task EXCEPT ![p] =
                       NewTask("fulfill", pkt[p].to, pkt[p].out)]
               ELSE task
  /\ UNCHANGED <<money, used, incoming, requests, engineKeys, paid, nextKey,
                 budget, timerVars>>

Rejected(p) ==
  /\ pkt[p].st = "forwarded"
  /\ pkt' = [pkt EXCEPT ![p].st = "rejected"]
  /\ task' = IF ZeroAmount(pkt[p]) THEN task
             ELSE [task EXCEPT ![p] = NewTask("reject", pkt[p].from,
                                              pkt[p].inc)]
  /\ UNCHANGED <<money, used, incoming, requests, engineKeys, paid, nextKey,
                 budget, timerVars>>

\* Mutant of DropRequest: the sender is told of a reject that nobody posts.
DropRequest_Rejects(p) ==
  /\ pkt[p].st = "forwarded" /\ budget.drops > 0
  /\ pkt' = [pkt EXCEPT ![p].st = "rejected"]
  /\ budget' = [budget EXCEPT !.drops = @ - 1]
  /\ UNCHANGED <<money, used, incoming, task, requests, engineKeys, paid,
                 nextKey, timerVars>>

\* The HTTP server drops the request's future when its client disconnects:
\* send_request never resumes.
DropRequest(p) ==
  /\ pkt[p].st = "forwarded" /\ budget.drops > 0
  /\ pkt' = [pkt EXCEPT ![p].st = "lost"]
  /\ budget' = [budget EXCEPT !.drops = @ - 1]
  /\ UNCHANGED <<money, used, incoming, task, requests, engineKeys, paid,
                 nextKey, timerVars>>

-----------------------------------------------------------------------------
(* The spawned tasks *)

\* settle_or_rollback: nothing to do for an amount of 0 and, without an
\* engine, nothing but a log line.
SettleTask(t, a, amount) ==
  IF amount = 0 \/ ~has_engine[a]
    THEN [t EXCEPT !.pc = "done"]
    ELSE [t EXCEPT !.pc = "send", !.account = a, !.amount = amount,
                   !.attempt = 0, !.reply = "none"]

\* The amount that the script a task is about to run takes out of the balance:
\* process_fulfill.lua (with an amount of 0 for the API's prefunding) and
\* process_settle.lua; process_reject.lua and refund_settlement.lua take none.
ToSettle(t) ==
  LET a == task[t].account
      b == money[a].balance
  IN CASE task[t].pc \in {"fulfill", "prefund"} ->
            AmountOverThreshold(b + task[t].amount, settle_threshold[a],
                                settle_to[a])
       [] task[t].pc = "delayed" ->
            AmountOverSettleTo(b, settle_threshold[a], settle_to[a])
       [] OTHER -> 0

\* The script: credit the task's amount, take out what is to be settled.
RunScript(t) ==
  money' = [money EXCEPT ![task[t].account].balance =
              @ + task[t].amount - ToSettle(t)]

\* settle_or_rollback_now up to the answer of the store.
PostFulfill(t) ==
  /\ task[t].pc = "fulfill"
  /\ RunScript(t)
  /\ task' = [task EXCEPT ![t].pc = "notify", ![t].amount = ToSettle(t),
                          ![t].balance = Position(money'[task[t].account])]
  /\ UNCHANGED <<used, incoming, pkt, requests, engineKeys, paid, nextKey,
                 budget, timerVars>>

\* The rest of settle_or_rollback_now: schedule a delayed settlement, or
\* cancel it and settle.
Notify(t) ==
  /\ task[t].pc = "notify"
  /\ LET a == task[t].account IN
     \/ /\ task[t].amount = 0
        /\ IF TimeBased /\ task[t].balance > 0
             THEN TrySend("Set", a) ELSE UNCHANGED channel
        /\ task' = [task EXCEPT ![t].pc = "done"]
     \/ /\ task[t].amount # 0
        /\ IF TimeBased THEN TrySend("Clear", a) ELSE UNCHANGED channel
        /\ task' = [task EXCEPT ![t] = SettleTask(@, a, task[t].amount)]
  /\ UNCHANGED <<money, used, incoming, pkt, requests, engineKeys, paid,
                 nextKey, budget, in_queue, timeouts>>

\* update_balances_for_reject.
PostReject(t) ==
  /\ task[t].pc = "reject"
  /\ RunScript(t)
  /\ task' = [task EXCEPT ![t].pc = "done"]
  /\ UNCHANGED <<used, incoming, pkt, requests, engineKeys, paid, nextKey,
                 budget, timerVars>>

\* refund_settlement after send_settlement has given up.
PostRefund(t) ==
  /\ task[t].pc = "refund"
  /\ RunScript(t)
  /\ task' = [task EXCEPT ![t].pc = "done"]
  /\ UNCHANGED <<used, incoming, pkt, requests, engineKeys, paid, nextKey,
                 budget, timerVars>>

\* An expired timeout spawns a task.
SpawnDelayed(k, s) ==
  /\ task[s].pc \in {"idle", "done"}
  /\ Expire(k)
  /\ task' = [task EXCEPT ![s] = NewTask("load", timeouts[k], 0)]
  /\ UNCHANGED <<money, used, incoming, pkt, requests, engineKeys, paid,
                 nextKey, budget>>

\* get_accounts: the account is in the store.
LoadAccount(t) ==
  /\ task[t].pc = "load"
  /\ task' = [task EXCEPT ![t].pc = "delayed"]
  /\ UNCHANGED <<money, used, incoming, pkt, requests, engineKeys, paid,
                 nextKey, budget, timerVars>>

\* update_balances_for_delayed_settlement.
PostDelayed(t) ==
  /\ task[t].pc = "delayed"
  /\ RunScript(t)
  /\ task' = [task EXCEPT ![t] = SettleTask(@, task[t].account, ToSettle(t))]
  /\ UNCHANGED <<used, incoming, pkt, requests, engineKeys, paid, nextKey,
                 budget, timerVars>>

\* connect_to_external_services, whenever an account is inserted or edited:
\* once the engine has registered the account, a fulfill of 0 brings a balance
\* over the threshold down to settle_to.
StartPrefund(a) ==
  /\ task[a].pc \in {"idle", "done"} /\ has_engine[a]
  /\ task' = [task EXCEPT ![a] = NewTask("prefund", a, 0)]
  /\ UNCHANGED <<money, used, incoming, pkt, requests, engineKeys, paid,
                 nextKey, budget, timerVars>>

PostPrefund(t) ==
  /\ task[t].pc = "prefund"
  /\ RunScript(t)
  /\ task' = [task EXCEPT ![t] = SettleTask(@, task[t].account, ToSettle(t))]
  /\ UNCHANGED <<used, incoming, pkt, requests, engineKeys, paid, nextKey,
                 budget, timerVars>>

\* Mutant of TaskStoreFails: a call that failed is made again.
TaskStoreFails_Retries(t, applied) ==
  /\ task[t].pc \in {"fulfill", "reject", "refund", "delayed", "load",
                     "prefund"}
  /\ budget.faults > 0
  /\ budget' = [budget EXCEPT !.faults = @ - 1]
  /\ IF applied THEN RunScript(t) ELSE UNCHANGED money
  /\ UNCHANGED <<used, incoming, pkt, task, requests, engineKeys, paid,
                 nextKey, timerVars>>

\* A store call of a task ends in an error, with or without having run the
\* script.  Every task logs it and ends.
TaskStoreFails(t, applied) ==
  /\ task[t].pc \in {"fulfill", "reject", "refund", "delayed", "load",
                     "prefund"}
  /\ budget.faults > 0
  /\ budget' = [budget EXCEPT !.faults = @ - 1]
  /\ task' = [task EXCEPT ![t].pc = "done"]
  /\ IF applied THEN RunScript(t) ELSE UNCHANGED money
  /\ UNCHANGED <<used, incoming, pkt, requests, engineKeys, paid, nextKey,
                 timerVars>>

-----------------------------------------------------------------------------
(* The settlement client *)

\* Mutant of SendSettlement: the client listens for its previous attempt.
SendSettlement_StaleKey(t) ==
  /\ task[t].pc = "send"
  /\ requests' = requests \cup {[key |-> nextKey, account |-> task[t].account,
                                 amount |-> task[t].amount]}
  /\ task' = [task EXCEPT ![t].pc = "wait", ![t].attempt = @ + 1,
                          ![t].reply = "none"]
  /\ nextKey' = nextKey + 1
  /\ UNCHANGED <<money, used, incoming, pkt, engineKeys, paid, budget,
                 timerVars>>

\* send_settlement_once: every attempt carries a new uuid.
SendSettlement(t) ==
  /\ task[t].pc = "send"
  /\ requests' = requests \cup {[key |-> nextKey, account |-> task[t].account,
                                 amount |-> task[t].amount]}
  /\ task' = [task EXCEPT ![t].pc = "wait", ![t].key = nextKey,
                          ![t].attempt = @ + 1, ![t].reply = "none"]
  /\ nextKey' = nextKey + 1
  /\ UNCHANGED <<money, used, incoming, pkt, engineKeys, paid, budget,
                 timerVars>>

\* What a thread does with the error of an attempt: RequestErrorHandler
\* forwards it for a client error and after the last retry.  Only
\* settle_or_rollback refunds; the API's prefunding answers its caller with an
\* error.
AfterError(t, error) ==
  IF task[t].attempt > MaxRetries \/ error = "4xx"
    THEN [task[t] EXCEPT !.pc = IF t \in Accounts THEN "done" ELSE "refund"]
    ELSE [task[t] EXCEPT !.pc = "send"]

HandleReply(t) ==
  /\ task[t].pc = "wait" /\ task[t].reply # "none"
  /\ task' = [task EXCEPT ![t] = IF @.reply = "ok"
                                   THEN [@ EXCEPT !.pc = "done"]
                                   ELSE AfterError(t, @.reply)]
  /\ UNCHANGED <<money, used, incoming, pkt, requests, engineKeys, paid,
                 nextKey, budget, timerVars>>

\* The client stops waiting; the request or its reply may still be underway.
ClientTimeout(t) ==
  /\ task[t].pc = "wait" /\ budget.timeouts > 0
  /\ budget' = [budget EXCEPT !.timeouts = @ - 1]
  /\ task' = [task EXCEPT ![t] = AfterError(t, "timeout")]
  /\ UNCHANGED <<money, used, incoming, pkt, requests, engineKeys, paid,
                 nextKey, timerVars>>

\* The engine takes a request and answers whoever still waits for it.
EngineAnswers(r, reply) ==
  /\ r \in requests
  /\ requests' = requests \ {r}
  /\ task' = [t \in Threads |->
                IF task[t].pc = "wait" /\ task[t].key = r.key
                  THEN [task[t] EXCEPT !.reply = reply] ELSE task[t]]
  /\ UNCHANGED <<money, used, incoming, pkt, nextKey, budget, timerVars>>

\* An engine that has accepted the key repeats its answer without paying again.
EngineAccepts(r) ==
  /\ EngineAnswers(r, "ok")
  /\ engineKeys' = engineKeys \cup {r.key}
  /\ paid' = IF r.key \in engineKeys THEN paid
             ELSE [paid EXCEPT ![r.account] = @ + r.amount]

EngineRefuses(r, error) ==
  /\ r.key \notin engineKeys
  /\ EngineAnswers(r, error)
  /\ UNCHANGED <<engineKeys, paid>>

-----------------------------------------------------------------------------
(* Incoming settlements and crashes *)

\* The engine receives a payment on its ledger.
PaymentReceived(k, a, amount) ==
  /\ incoming[k] = None
  /\ incoming' = [incoming EXCEPT ![k] = [account |-> a, amount |-> amount]]
  /\ UNCHANGED <<money, used, pkt, task, requests, engineKeys, paid, nextKey,
                 budget, timerVars>>

\* The engine reports it, as often as it likes: process_incoming_settlement.lua
\* credits it once per key.
UpdateBalanceForIncomingSettlement(k) ==
  /\ incoming[k] # None
  /\ used' = used \cup {k}
  /\ money' = IF k \in used THEN money
              ELSE [money EXCEPT ![incoming[k].account] =
                      CreditIncoming(@, incoming[k].amount)]
  /\ UNCHANGED <<incoming, pkt, task, requests, engineKeys, paid, nextKey,
                 budget, timerVars>>

\* The process dies and is restarted.  What was awaited is forgotten, what
\* was sent stays sent.
Crash ==
  /\ budget.crashes > 0
  /\ budget' = [budget EXCEPT !.crashes = @ - 1]
  /\ pkt' = [p \in Packets |-> IF pkt[p].st = "forwarded"
                                 THEN [pkt[p] EXCEPT !.st = "lost"]
                                 ELSE pkt[p]]
  /\ task' = [t \in Threads |-> IF task[t].pc = "idle" THEN task[t]
                                ELSE [task[t] EXCEPT !.pc = "done"]]
  /\ TimerCrash
  /\ UNCHANGED <<money, used, incoming, requests, engineKeys, paid, nextKey>>

TimerStep == (HandleSet \/ HandleClear) /\ UNCHANGED serviceVars

TaskStep(t) ==
  \/ PostFulfill(t) \/ Notify(t) \/ PostReject(t) \/ PostRefund(t)
  \/ LoadAccount(t) \/ PostDelayed(t) \/ PostPrefund(t)
  \/ SendSettlement(t) \/ HandleReply(t)

EngineStep == 
  \E r \in requests : \/ EngineAccepts(r)
                      \/ \E e \in {"4xx", "5xx"} : EngineRefuses(r, e)

Arrival(p) ==
  \E from, to \in Accounts, inc, out \in Amounts :
    \/ Prepare(p, from, to, inc, out)
    \/ PrepareRefused(p, from, to, inc, out)
    \/ \E applied \in BOOLEAN : PrepareFails(p, from, to, inc, out, applied)

Next ==
  \/ \E p \in Packets : Arrival(p) \/ Fulfilled(p) \/ Rejected(p)
                          \/ DropRequest(p)
  \/ \E t \in Threads : TaskStep(t) \/ ClientTimeout(t)
  \/ \E t \in Threads, applied \in BOOLEAN : TaskStoreFails(t, applied)
  \/ \E a \in Edited : StartPrefund(a)
  \/ \E k \in QueueKeys, s \in Slots : SpawnDelayed(k, s)
  \/ EngineStep
  \/ TimerStep
  \/ \E k \in IncomingKeys :
       \/ \E a \in Accounts, amount \in Amounts : PaymentReceived(k, a, amount)
       \/ UpdateBalanceForIncomingSettlement(k)
  \/ Crash

Spec == Init /\ [][Next]_vars

\* Tokio runs every ready task; the engine answers every request it gets; the
\* timer fires; select! polls its branches in random order, so neither the
\* channel nor the queue starves the other.
Fairness ==
  /\ \A t \in Threads : WF_vars(TaskStep(t))
  /\ WF_vars(EngineStep)
  /\ WF_vars(TimerStep)
  /\ \A k \in QueueKeys : WF_vars(\E s \in Slots : SpawnDelayed(k, s))

FairSpec == Spec /\ Fairness

-----------------------------------------------------------------------------
(* Properties that speak of single accounts *)

\* Types.  That prepaid_amount and every settled amount are natural numbers
\* is what the code's u64 conversions of the scripts' answers rely on.
TypeOK ==
  /\ money \in [Accounts -> Money]
  /\ used \subseteq IncomingKeys
  /\ incoming \in [IncomingKeys ->
                     [account : Accounts, amount : Amounts] \cup {None}]
  /\ pkt \in [Packets -> Packet]
  /\ task \in [Threads -> Task]
  /\ requests \subseteq Request
  /\ engineKeys \subseteq Nat
  /\ paid \in [Accounts -> Nat]
  /\ nextKey \in Nat
  /\ budget \in [faults : Nat, timeouts : Nat, drops : Nat, crashes : Nat]
  /\ TimerTypeOK

\* The lowest position that the settings of an account with a min_balance let
\* it reach.  The code does not relate the settings to each other: an account
\* is prefunded or settled down to settle_to even where that is below
\* min_balance, and a new account has 0 whatever its min_balance.
Lowest(m, n) == IF m < n THEN m ELSE n
Floor(a) ==
  LET start == Lowest(0, min_balance[a])
  IN IF SettlementConfigured(settle_threshold[a], settle_to[a])
       THEN Lowest(start, settle_to[a]) ELSE start

\* Every spawned task ends, whatever the engine answers: the retries of the
\* settlement client are bounded.
TasksEnd ==
  \A t \in Threads : task[t].pc \notin {"idle", "done"} ~> task[t].pc = "done"

\* The balance an account with settlement settings has over settle_to.
OverSettleTo(a) ==
  /\ SettlementConfigured(settle_threshold[a], settle_to[a])
  /\ money[a].balance > settle_to[a]

\* Nothing but fulfills brings money to the account.
OnlyFulfillsCredit(a) ==
  /\ \A t \in Threads : task[t].account = a => task[t].pc \notin {"reject", "refund"}
  /\ \A k \in used : incoming[k].account # a

\* No settlement over the threshold has cancelled the account's timeout.
NeverCleared(a) ==
  \A i \in DOMAIN channel : channel[i] # [op |-> "Clear", id |-> a]

\* A delayed settlement of the account is on its way.
Scheduled(a) ==
  \/ \E i \in DOMAIN channel : channel[i].id = a
  \/ in_queue[a] # None
  \/ \E t \in Threads : task[t].account = a /\ task[t].pc \in {"load", "delayed"}

\* A fulfill is about to schedule the account, nothing else has, and the
\* channel is full of the commands of other accounts.
CrowdedOut(a) ==
  /\ Len(channel) = ChannelCapacity /\ ~Scheduled(a)
  /\ \E t \in Threads : /\ task[t].account = a /\ task[t].pc = "notify"
                         /\ task[t].amount = 0 /\ task[t].balance > 0

\* The process and its store calls do not fail.
NothingFails ==
  budget.faults = MaxStoreFaults /\ budget.crashes = MaxCrashes

\* Time-based settlement works on its own: an account that fulfills, and only
\* they, have brought above 0 and over settle_to, but never over its threshold,
\* is settled down to settle_to.  A full channel does no harm as long as one of
\* the commands in it is the account's own, as the comment on drop_error has
\* it; where others crowd it out "the intended time-based settlements are
\* lost".
DelayedSettlementHappens ==
  \A a \in Accounts :
    [](/\ OnlyFulfillsCredit(a) /\ NeverCleared(a)
       /\ ~CrowdedOut(a) /\ NothingFails)
      => (TimeBased /\ OverSettleTo(a) /\ Position(money[a]) > 0
            ~> ~OverSettleTo(a))

\* main.rs on settle_every: "the peering accounts will be settled after this
\* many seconds after the first fulfill packet unless the balance had exceeded
\* the settlement threshold".
PeersAreSettled ==
  \A a \in Accounts :
    [](OnlyFulfillsCredit(a)) => (OverSettleTo(a) ~> ~OverSettleTo(a))
=============================================================================
