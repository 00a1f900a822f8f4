------------------------- MODULE DelayedSettlement --------------------------
(***************************************************************************)
(* The background task that run_timeouts_and_settle_on_delay runs when the *)
(* node is started with settle_every: it receives ManageTimeout commands   *)
(* over a bounded channel, keeps one timeout per account in a DelayQueue   *)
(* and remembers in the map in_queue under which key each account waits.   *)
(*                                                                         *)
(* The delay is the same for every entry and the timer wheel orders two    *)
(* entries only up to its granularity, so any queued entry may expire.     *)
(***************************************************************************)
EXTENDS BalanceStore, Sequences

CONSTANTS Accounts,          \* the accounts that may be scheduled
          QueueKeys,         \* the slots of the DelayQueue's slab
          ChannelCapacity    \* 128 in node.rs

ASSUME ChannelAssumption == ChannelCapacity \in Nat

\* None also stands for an absent key and for an empty slot.
ASSUME TimerAssumption == None \notin Accounts \cup QueueKeys

VARIABLES channel,    \* commands sent and not yet received
          in_queue,   \* HashMap: account -> key of its timeout, or None
          timeouts    \* DelayQueue: key -> account that waits there, or None

timerVars == <<channel, in_queue, timeouts>>

Command == [op : {"Set", "Clear"}, id : Accounts]

TimerInit ==
  /\ channel = << >>
  /\ in_queue = [a \in Accounts |-> None]
  /\ timeouts = [k \in QueueKeys |-> None]

\* try_send: a command that finds the channel full is dropped with a log line.
TrySend(op, a) ==
  channel' = IF Len(channel) < ChannelCapacity
               THEN Append(channel, [op |-> op, id |-> a]) ELSE channel

\* ManageTimeout::Clear: forget the account and remove its queue entry.
HandleClear ==
  /\ channel # << >> /\ Head(channel).op = "Clear"
  /\ channel' = Tail(channel)
  /\ LET a == Head(channel).id
         k == in_queue[a]
     IN /\ in_queue' = [in_queue EXCEPT ![a] = None]
        /\ timeouts' = IF k = None THEN timeouts
                                   ELSE [timeouts EXCEPT ![k] = None]

\* ManageTimeout::Set: insert a timeout unless the account already has one.
HandleSet ==
  /\ channel # << >> /\ Head(channel).op = "Set"
  /\ channel' = Tail(channel)
  /\ LET a == Head(channel).id
     IN \/ /\ in_queue[a] # None
           /\ UNCHANGED <<in_queue, timeouts>>
        \/ /\ in_queue[a] = None
           /\ \E k \in QueueKeys :
                /\ timeouts[k] = None
                /\ in_queue' = [in_queue EXCEPT ![a] = k]
                /\ timeouts' = [timeouts EXCEPT ![k] = a]

\* Mutant of Expire: the map keeps the expired key.
Expire_KeepsKey(k) ==
  /\ timeouts[k] # None
  /\ timeouts' = [timeouts EXCEPT ![k] = None]
  /\ UNCHANGED <<channel, in_queue>>

\* timeouts.next() yields the entry under key k.
Expire(k) ==
  /\ timeouts[k] # None
  /\ in_queue' = [in_queue EXCEPT ![timeouts[k]] = None]
  /\ timeouts' = [timeouts EXCEPT ![k] = None]
  /\ UNCHANGED channel

\* The process dies: channel, map and queue are memory.
TimerCrash == 
  /\ channel' = << >>
  /\ in_queue' = [a \in Accounts |-> None]
  /\ timeouts' = [k \in QueueKeys |-> None]

TimerTypeOK ==
  /\ channel \in Seq(Command) /\ Len(channel) <= ChannelCapacity
  /\ in_queue \in [Accounts -> QueueKeys \cup {None}]
  /\ timeouts \in [QueueKeys -> Accounts \cup {None}]

\* The map and the queue describe each other: the key the map holds is the
\* account's own live entry (DelayQueue::remove panics on a dead key), and an
\* entry that expires is still in the map, which the code's comment "unsure if
\* this can ever be none" leaves open.
TimersMatch ==
  /\ \A a \in Accounts : in_queue[a] # None => timeouts[in_queue[a]] = a
  /\ \A k \in QueueKeys : timeouts[k] # None => in_queue[timeouts[k]] = k
=============================================================================
