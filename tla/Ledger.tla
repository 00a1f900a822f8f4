------------------------------- MODULE Ledger -------------------------------
(***************************************************************************)
(* What the balance service promises its peers: a ledger with one position *)
(* per account in which the outcome of a packet is posted in the very step *)
(* in which the packet is answered, a deposit is credited once, no packet  *)
(* takes a position below the account's min_balance, and no settlement     *)
(* below the account's floor.                                              *)
(***************************************************************************)
EXTENDS Integers

CONSTANTS Accounts, Packets, IncomingKeys, min_balance, None,
          floor,    \* account -> the lowest position its settings allow
          MayLose   \* crashes and store errors may cost a peer money

VARIABLES owed,      \* account -> what the node owes its holder
          packet,    \* packet -> [st, from, to, inc, out]
          deposit,   \* key -> incoming settlement, or None
          credited   \* keys of the deposits that were credited

ledgerVars == <<owed, packet, deposit, credited>>

WithinLimit(a, n) == min_balance[a] # None => n >= min_balance[a]

\* The position of a moves by n in this step and nobody else's does.
Move(a, n) == owed' = [owed EXCEPT ![a] = @ + n]

LedgerInit ==
  /\ \A a \in Accounts : owed[a] = 0
  /\ \A p \in Packets : packet[p].st = "new"
  /\ \A k \in IncomingKeys : deposit[k] = None
  /\ credited = {}

Reserve(p) ==
  /\ packet[p].st = "new" /\ packet'[p].st = "forwarded"
  /\ packet' = [packet EXCEPT ![p] = packet'[p]]
  /\ LET q == packet'[p]
     IN /\ q.inc > 0 => WithinLimit(q.from, owed[q.from] - q.inc)
        /\ Move(q.from, -q.inc)
  /\ UNCHANGED <<deposit, credited>>

Refuse(p) ==
  /\ packet[p].st = "new" /\ packet'[p].st = "refused"
  /\ packet' = [packet EXCEPT ![p] = packet'[p]]
  /\ UNCHANGED <<owed, deposit, credited>>

Fulfill(p) ==
  /\ packet[p].st = "forwarded"
  /\ packet' = [packet EXCEPT ![p].st = "fulfilled"]
  /\ Move(packet[p].to, packet[p].out)
  /\ UNCHANGED <<deposit, credited>>

Reject(p) ==
  /\ packet[p].st = "forwarded"
  /\ packet' = [packet EXCEPT ![p].st = "rejected"]
  /\ Move(packet[p].from, packet[p].inc)
  /\ UNCHANGED <<deposit, credited>>

\* A settlement leaves for the peer; it never takes the peer below its floor.
PayOut(a) ==
  /\ owed'[a] < owed[a]
  /\ min_balance[a] # None => owed'[a] >= floor[a]
  /\ owed' = [owed EXCEPT ![a] = owed'[a]]
  /\ UNCHANGED <<packet, deposit, credited>>

Deposit(k) ==
  /\ deposit[k] = None /\ deposit' = [deposit EXCEPT ![k] = deposit'[k]]
  /\ UNCHANGED <<owed, packet, credited>>

CreditDeposit(k) ==
  /\ deposit[k] # None /\ k \notin credited
  /\ credited' = credited \cup {k}
  /\ Move(deposit[k].account, deposit[k].amount)
  /\ UNCHANGED <<packet, deposit>>

\* Memory is lost: packets stay unanswered and positions only fall.
Lose ==
  /\ MayLose
  /\ \A a \in Accounts : owed'[a] <= owed[a]
  /\ \A p \in Packets : \/ packet'[p] = packet[p]
                        \/ packet'[p].st \in {"lost", "refused"}
  /\ UNCHANGED <<deposit, credited>>

LedgerNext ==
  \/ \E p \in Packets : Reserve(p) \/ Refuse(p) \/ Fulfill(p) \/ Reject(p)
  \/ \E a \in Accounts : PayOut(a)
  \/ \E k \in IncomingKeys : Deposit(k) \/ CreditDeposit(k)
  \/ Lose

LedgerSpec == LedgerInit /\ [][LedgerNext]_ledgerVars
=============================================================================
