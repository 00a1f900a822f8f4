---------------------------- MODULE BalanceStore ----------------------------
(***************************************************************************)
(* The balance scripts that the Redis store runs atomically for one        *)
(* account, as operators on the account's two money fields                 *)
(* [balance, prepaid_amount].  The optional settings of the account are    *)
(* arguments that may be None, as HMGET returns false for a missing field. *)
(*                                                                         *)
(* Lua numbers are doubles and HINCRBY works on 64 bits: the operators are *)
(* exact for amounts whose sums stay below 2^53, which is the range the    *)
(* project speaks about.                                                   *)
(***************************************************************************)
EXTENDS Integers

CONSTANT None    \* the value of a setting that is not configured

ASSUME NoneAssumption == None \notin Int

\* What a money field may hold.  prepaid_amount is what the peer has
\* pre-funded and is never negative.
Money == [balance : Int, prepaid_amount : Nat]

Setting == Int \cup {None}

\* What get_balance reports and what the min_balance check compares.
Position(m) == m.balance + m.prepaid_amount

\* Mutant of WithinMinBalance: one unit too generous.
WithinMinBalance_OffByOne(m, amount, min_balance) ==
  min_balance # None => Position(m) - amount >= min_balance - 1

\* The limit check at the head of process_prepare.lua.
WithinMinBalance(m, amount, min_balance) ==
  min_balance # None => Position(m) - amount >= min_balance

\* Mutant of Deduct: any prepaid amount is taken to cover the packet.
Deduct_Overdraws(m, amount) ==
  IF m.prepaid_amount > 0
    THEN [m EXCEPT !.prepaid_amount = @ - amount]
    ELSE [m EXCEPT !.balance = @ - amount]

\* The rest of process_prepare.lua: the prepaid amount is used up before the
\* balance is touched.
Deduct(m, amount) ==
  IF m.prepaid_amount >= amount
    THEN [m EXCEPT !.prepaid_amount = @ - amount]
    ELSE [balance        |-> m.balance - (amount - m.prepaid_amount),
          prepaid_amount |-> 0]

\* HINCRBY of the balance.
Credit(m, amount) == [m EXCEPT !.balance = @ + amount]

SettlementConfigured(threshold, settle_to) ==
  /\ threshold # None /\ settle_to # None
  /\ threshold > settle_to

\* The amount that process_fulfill.lua takes out of a balance b it has just
\* credited.
AmountOverThreshold(b, threshold, settle_to) ==
  IF SettlementConfigured(threshold, settle_to) /\ b >= threshold
    THEN b - settle_to ELSE 0

\* Mutant of AmountOverSettleTo: the timeout settles from the threshold only.
AmountOverSettleTo_NeedsThreshold(b, threshold, settle_to) ==
  IF SettlementConfigured(threshold, settle_to) /\ b >= threshold
    THEN b - settle_to ELSE 0

\* The amount that process_settle.lua takes out of a balance b.
AmountOverSettleTo(b, threshold, settle_to) ==
  IF SettlementConfigured(threshold, settle_to) /\ b >= settle_to
    THEN b - settle_to ELSE 0

\* Mutant of CreditIncoming: the debt paid off is also prepaid.
CreditIncoming_KeepsDebtPaid(m, amount) ==
  IF m.balance >= 0 THEN [m EXCEPT !.prepaid_amount = @ + amount]
  ELSE IF -m.balance >= amount THEN Credit(m, amount)
  ELSE [balance |-> 0, prepaid_amount |-> m.prepaid_amount + amount]

\* process_incoming_settlement.lua after its idempotency check: the peer's
\* debt is paid first, the rest is prepaid.
CreditIncoming(m, amount) ==
  IF m.balance >= 0 THEN [m EXCEPT !.prepaid_amount = @ + amount]
  ELSE IF -m.balance >= amount THEN Credit(m, amount)
  ELSE [balance        |-> 0,
        prepaid_amount |-> m.prepaid_amount + amount + m.balance]
=============================================================================
