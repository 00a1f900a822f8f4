------------------------ MODULE BalanceServiceBooks -------------------------
(***************************************************************************)
(* The balance service against the outside world: what the accounts say,   *)
(* together with what is only in the memory of running tasks, compared     *)
(* with what packets' senders were told and what the engine did.           *)
(***************************************************************************)
EXTENDS BalanceService, FiniteSets, Functions

\* Sums are taken over threads, packets and incoming settlements.
ASSUME FiniteAssumption == IsFiniteSet(Threads) /\ IsFiniteSet(IncomingKeys)

\* Amounts that have left the balances, or have not reached them yet, and
\* that exist only in a running task.  A client that gave up on an attempt
\* still counts on its amount, whatever the engine made of that attempt: this
\* is what the account is credited with if the client ends in a refund.
Held(t) ==
  CASE task[t].pc \in {"fulfill", "reject", "notify", "send", "refund"} ->
         task[t].amount
    [] task[t].pc = "wait" /\ task[t].key \notin engineKeys -> task[t].amount
    [] OTHER -> 0

HeldFor(a) == [t \in Threads |-> IF task[t].account = a THEN Held(t) ELSE 0]
InMemory(a) == SumFunctionOnSet(HeldFor(a), Threads)

\* The position of an account once all running tasks have been posted.
Booked(a) == Position(money[a]) + InMemory(a)

\* What a packet did to the position of account a, given the answer its
\* sender got.  A packet without an answer keeps its incoming amount.
Effect(p, a) ==
    (IF pkt[p].to = a /\ pkt[p].st = "fulfilled" THEN pkt[p].out ELSE 0)
  - (IF pkt[p].from = a /\ pkt[p].st \in {"forwarded", "fulfilled", "lost"}
       THEN pkt[p].inc ELSE 0)

Effects(a) == [p \in Packets |-> Effect(p, a)]

\* What an incoming settlement did to it: one that was reported counts once.
Deposits(a) ==
  [k \in IncomingKeys |->
     IF k \in used /\ incoming[k].account = a THEN incoming[k].amount ELSE 0]

\* What the position of account a has to be, judged from outside.
Due(a) ==
  SumFunctionOnSet(Effects(a), Packets)
    + SumFunctionOnSet(Deposits(a), IncomingKeys) - paid[a]

\* No store call has failed, no request was dropped, the node did not restart,
\* and no account was prefunded.
Undisturbed ==
  /\ budget.faults = MaxStoreFaults /\ budget.drops = MaxDrops
  /\ budget.crashes = MaxCrashes
  /\ \A a \in Accounts : task[a].pc = "idle"

\* Until the first failure the books are exact at every moment: every
\* forwarded, fulfilled and rejected packet and every settlement counts once,
\* however the tasks that post them interleave, and whichever of balance and
\* prepaid_amount the scripts take it from.  Two amounts are lost without any
\* failure and are outside this property: what settle_or_rollback drops for an
\* account without an engine, and a prefunding the engine refuses.
Conservation == Undisturbed => \A a \in Accounts : Booked(a) = Due(a)

\* Crashes, failed store calls and dropped requests cost the peers money,
\* never the node: no interleaving of them credits an account twice.
NeverOverCredits == \A a \in Accounts : Booked(a) <= Due(a)

\* What the tasks that have not turned to the settlement client hold for a.
Unposted(a) ==
  SumFunctionOnSet(
    [t \in Threads |-> IF task[t].pc \in {"fulfill", "reject", "notify"}
                         THEN HeldFor(a)[t] ELSE 0], Threads)

\* What leaves a balance to be settled is paid to the peer at most once, and
\* is not refunded on top: the position with the outcomes that are still to be
\* posted, and without anything a settlement client holds, never exceeds what
\* is due.
SettlesOnce ==
  \A a \in Accounts : Position(money[a]) + Unposted(a) <= Due(a)

\* docs/peering.md: min_balance limits what a peer may owe the node.  Judged by
\* what its packets, its deposits and the node's settlements really came to,
\* no peer owes more than its settings allow, even after crashes, dropped
\* requests and store calls that failed before or after their script ran.
CreditIsLimited ==
  \A a \in Accounts : min_balance[a] # None => Due(a) >= Floor(a)

IdealLedger ==
  INSTANCE Ledger WITH owed <- [a \in Accounts |-> Booked(a)], packet <- pkt,
    deposit <- incoming, credited <- used, floor <- [a \in Accounts |-> Floor(a)],
    MayLose <- MaxCrashes + MaxStoreFaults + MaxDrops > 0

\* The asynchronous posting of send_request and of the tasks it spawns
\* implements the ledger that posts each answer at once: only a prepare, an
\* answered packet, an accepted settlement or a first-time deposit moves a
\* position, by its own amount, and the limits hold for what is owed in total,
\* amounts on their way included.  Failures can only take away.
ImplementsLedger == IdealLedger!LedgerSpec
=============================================================================
