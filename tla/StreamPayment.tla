---------------------------- MODULE StreamPayment ---------------------------
(***************************************************************************)
(* One STREAM payment: send_money with its congestion controller and the   *)
(* tasks it spawns, one per packet, a network that may refuse a packet,    *)
(* and the receiver's receive_money.                                       *)
(*                                                                         *)
(* The sender's loop and the packet tasks share the payment under a lock;  *)
(* a step is what is done while the lock is held.  A task that has applied *)
(* its reply leaves its result in pending_requests, which the loop reads   *)
(* only when it may not send more.                                         *)
(***************************************************************************)
EXTENDS Integers, FiniteSets, Functions, Bags, BagsExt

CONSTANTS
  source_amount,        \* what is to be sent
  U64Max,               \* u64::max_value()
  IncreaseDivisor,      \* the window grows by source_amount / 10
  RateNum, RateDen,     \* rate of the sender's store, slippage subtracted
  MarginDen,            \* the margin of error is 1 / 1000
  MinAttempts,          \* FAIL_FAST_MINIMUM_PACKET_ATTEMPTS
  PathRates,            \* rates <<num, den>> the network may apply
  Limits,               \* connectors on the path: <<max_packet_amount, rate up to it>>
  Unlimited,            \* max_packet_amount: None
  RatesMayFail,         \* get_exchange_rates may return an error
  \* bound on the environment
  MaxPackets            \* packets the sender gets to spawn

ASSUME StreamAssumption ==
  /\ source_amount \in Nat /\ U64Max \in Nat \ {0} /\ source_amount <= U64Max
  /\ {IncreaseDivisor, RateNum, RateDen, MarginDen} \subseteq Nat \ {0}
  /\ MinAttempts \in Nat /\ MaxPackets \in Nat
  /\ PathRates \subseteq (Nat \X (Nat \ {0}))
  /\ Limits \subseteq (Nat \X (Nat \ {0}))
  /\ Unlimited \notin Nat /\ RatesMayFail \in BOOLEAN

VARIABLES
  receipt,      \* StreamDelivery: the three amounts that change
  congestion,   \* CongestionController
  counts,       \* fulfilled, rejected and fail-fast packets
  should_send_source_account,
  rate_known,   \* the recipient's asset details have arrived
  expired,      \* MAX_TIME_SINCE_LAST_FULFILL has passed since last_fulfill_time
  status,       \* where the loop is, or what send_money returned
  tasks,        \* bag of the packet tasks in pending_requests
  spawned,      \* packets spawned so far, for MaxPackets
  spent,        \* source amounts of the packets that were fulfilled
  received      \* what the recipient has collected

vars == <<receipt, congestion, counts, should_send_source_account, rate_known,
          expired, status, tasks, spawned, spent, received>>

Returned == {"ok", "error", "timeout", "failfast"}

Task == [stage : {"spawned", "sent", "fulfilled"}, amount : Nat, min : Nat,
         asks : BOOLEAN, claimed : Nat]
Result == [stage : {"done"}, error : BOOLEAN]

Init ==
  /\ receipt = [sent_amount |-> 0, in_flight_amount |-> 0, delivered_amount |-> 0]
  /\ congestion = [state |-> "SlowStart", max_packet_amount |-> Unlimited,
                   amount_in_flight |-> 0, max_in_flight |-> source_amount]
  /\ counts = [fulfilled |-> 0, rejected |-> 0, fail_fast |-> 0]
  /\ should_send_source_account = TRUE
  /\ rate_known = FALSE
  /\ expired = FALSE
  /\ status = "running"
  /\ tasks = EmptyBag
  /\ spawned = 0 /\ spent = 0 /\ received = 0

-----------------------------------------------------------------------------
(* Amounts *)

Lesser(a, b)  == IF a < b THEN a ELSE b
Greater(a, b) == IF a > b THEN a ELSE b
CeilDiv(a, b) == (a + b - 1) \div b
MonusSat(a, b) == Greater(a - b, 0)

AmountLeftInWindow ==
  MonusSat(congestion.max_in_flight, congestion.amount_in_flight)
AmountAvailable == MonusSat(source_amount, receipt.sent_amount)
FulfilledAmount == MonusSat(receipt.sent_amount, receipt.in_flight_amount)

\* Mutant of IsComplete: what is in flight counts as delivered.
IsComplete_InFlight == AmountAvailable = 0

IsComplete    == MonusSat(source_amount, FulfilledAmount) = 0
IsMaxInFlight == AmountLeftInWindow = 0 \/ AmountAvailable = 0

\* More than 99 % of the replies count towards failing fast.
IsFailing ==
  LET num == counts.fulfilled + counts.rejected
  IN num >= MinAttempts /\ counts.fail_fast * 100 > 99 * num

\* to_u64 and unwrap_or(0).
ToU64(n) == IF n <= U64Max THEN n ELSE 0

\* 1 / (rate * margin_of_error), rounded up; 0 without a rate.
MinSourceAmount(priced) ==
  IF priced THEN ToU64(CeilDiv(RateDen * MarginDen, RateNum)) ELSE 0

\* convert: rounded up.
Convert(amount, priced) ==
  IF priced THEN ToU64(CeilDiv(amount * RateNum, RateDen)) ELSE 0

\* (min_source_amount as f64 * 1.2).ceil()
DustLimit(min_source) == CeilDiv(min_source * 12, 10)

\* Mutant of PacketAmount: the dust is added to every remaining packet twice.
PacketAmount_DustTwice(window, available, min_source, max_packet) ==
  LET floored == Greater(window, min_source)
      n       == available \div floored
      spread  == IF n > 0 /\ available % floored < DustLimit(min_source)
                   THEN floored + 2 * DustLimit(min_source) ELSE floored
      limited == IF max_packet = Unlimited THEN spread
                                           ELSE Lesser(spread, max_packet)
  IN Lesser(limited, available)

\* The source amount of the next packet: what the window allows, at least the
\* minimum that survives rounding, with the dust of a last small packet spread
\* over the others, at most the path's maximum and what is left to send.
PacketAmount(window, available, min_source, max_packet) ==
  LET floored == Greater(window, min_source)
      n       == available \div floored
      spread  == IF n > 0 /\ available % floored < DustLimit(min_source)
                   THEN CeilDiv(available, n) ELSE floored
      limited == IF max_packet = Unlimited THEN spread
                                           ELSE Lesser(spread, max_packet)
  IN Lesser(limited, available)

-----------------------------------------------------------------------------
(* The congestion controller *)

\* Mutant of Fulfill: the window is not kept within 64 bits.
Fulfill_Unsaturated(c, amount) ==
  [c EXCEPT !.amount_in_flight = @ - amount,
            !.max_in_flight = IF c.state = "SlowStart" THEN 2 * @
                              ELSE @ + source_amount \div IncreaseDivisor]

\* CongestionController::fulfill
Fulfill(c, amount) ==
  LET grown == IF c.state = "SlowStart" THEN 2 * c.max_in_flight
               ELSE c.max_in_flight + source_amount \div IncreaseDivisor
  IN [c EXCEPT !.amount_in_flight = @ - amount,
               !.max_in_flight    = Lesser(grown, U64Max)]

\* Mutant of Reject: an insufficient liquidity keeps the packet in flight.
Reject_Leak(c, amount, code, max_packet) ==
  CASE code = "T04" ->
         [c EXCEPT !.state = "AvoidCongestion",
                   !.max_in_flight = Greater(@ \div 2, 1)]
    [] OTHER -> [c EXCEPT !.amount_in_flight = @ - amount]

\* Mutant of Reject: the window may close altogether.
Reject_NoFloor(c, amount, code, max_packet) ==
  LET left == [c EXCEPT !.amount_in_flight = @ - amount]
  IN IF code = "T04" THEN [left EXCEPT !.state = "AvoidCongestion",
                                       !.max_in_flight = @ \div 2]
                     ELSE left

\* CongestionController::reject.  max_packet is the maximum an F08 reports, in
\* the sender's units, or Unlimited when its data cannot be read.
Reject(c, amount, code, max_packet) ==
  LET left == [c EXCEPT !.amount_in_flight = @ - amount]
      old  == c.max_packet_amount
  IN CASE code = "T04" ->
            [left EXCEPT !.state = "AvoidCongestion",
                         !.max_in_flight = Greater(@ \div 2, 1)]
       [] code = "F08" /\ max_packet # Unlimited ->
            [left EXCEPT !.max_packet_amount =
               IF old = Unlimited THEN max_packet ELSE Lesser(old, max_packet)]
       [] code = "F08" /\ max_packet = Unlimited /\ old # Unlimited ->
            [left EXCEPT !.max_packet_amount = @ \div 2]
       [] OTHER -> left

-----------------------------------------------------------------------------
(* The loop of send_money *)

\* The time since the last fulfill runs out; a loop that waits for a reply
\* wakes up.
Elapse ==
  /\ status \in {"running", "waiting"} /\ ~expired
  /\ expired' = TRUE
  /\ status' = "running"
  /\ UNCHANGED <<receipt, congestion, counts, should_send_source_account,
                 rate_known, tasks, spawned, spent, received>>

Return(s) ==
  /\ status' = s
  /\ UNCHANGED <<receipt, congestion, counts, should_send_source_account,
                 rate_known, expired, tasks, spawned, spent, received>>

\* Mutant of Timeout: the time is taken from the first fulfill on.
Timeout_AfterFulfill ==
  status = "running" /\ expired /\ counts.fulfilled > 0 /\ Return("timeout")

Timeout  == status = "running" /\ expired /\ Return("timeout")
FailFast == status = "running" /\ ~expired /\ IsFailing /\ Return("failfast")

MayContinue == status = "running" /\ ~expired /\ ~IsFailing

CloseConnection == MayContinue /\ IsComplete /\ Return("closing")

MaxInFlight == MayContinue /\ ~IsComplete /\ IsMaxInFlight /\ Return("waiting")

\* apply_prepare and the spawn of the packet's task.
SendMoney ==
  \E priced \in {rate_known} \cup (IF RatesMayFail THEN {FALSE} ELSE {}) :
    LET amount == PacketAmount(AmountLeftInWindow, AmountAvailable,
                               MinSourceAmount(priced), congestion.max_packet_amount)
    IN /\ MayContinue /\ ~IsComplete /\ ~IsMaxInFlight
       /\ spawned < MaxPackets
       /\ congestion' = [congestion EXCEPT !.amount_in_flight = @ + amount]
       /\ receipt' = [receipt EXCEPT !.sent_amount = @ + amount,
                                     !.in_flight_amount = @ + amount]
       /\ tasks' = BagAdd(tasks, [stage |-> "spawned", amount |-> amount,
                                  min |-> Convert(amount, priced),
                                  asks |-> FALSE, claimed |-> 0])
       /\ spawned' = spawned + 1
       /\ UNCHANGED <<counts, should_send_source_account, rate_known, expired,
                      status, spent, received>>

\* The loop waits for any task, and is told only here of a final error.
NextResult(t) ==
  /\ status = "waiting" /\ t.stage = "done"
  /\ status' = IF t.error THEN "error" ELSE "running"
  /\ tasks' = BagRemove(tasks, t)
  /\ UNCHANGED <<receipt, congestion, counts, should_send_source_account,
                 rate_known, expired, spawned, spent, received>>

\* Every pending request has ended; the connection is closed and the receipt
\* returned.
Close ==
  /\ status = "closing"
  /\ \A t \in BagToSet(tasks) : t.stage = "done"
  /\ status' = "ok"
  /\ tasks' = EmptyBag
  /\ UNCHANGED <<receipt, congestion, counts, should_send_source_account,
                 rate_known, expired, spawned, spent, received>>

-----------------------------------------------------------------------------
(* A packet's task, the network and the receiver *)

Becomes(t, next) == tasks' = BagAdd(BagRemove(tasks, t), next)

\* send_money_packet up to its call of the next service: the packet carries
\* the sender's address until a reply was read.
SendPacket(t) ==
  /\ t.stage = "spawned"
  /\ Becomes(t, [t EXCEPT !.stage = "sent", !.asks = should_send_source_account])
  /\ UNCHANGED <<receipt, congestion, counts, should_send_source_account,
                 rate_known, expired, status, spawned, spent, received>>

\* Mutant of ReadReply: any reply stops the announcement of the address.
ReadReply_OnAny(t, readable) ==
  /\ should_send_source_account' = FALSE
  /\ rate_known' = (rate_known \/ (readable /\ t.asks))

\* A reply of the receiver that decrypts has its asset details if the packet
\* had the sender's address.
ReadReply(t, readable) ==
  /\ should_send_source_account' = (should_send_source_account /\ ~readable)
  /\ rate_known' = (rate_known \/ (readable /\ t.asks))

\* apply_reject, and what the task returns.
ApplyReject(t, code, max_packet, readable) ==
  /\ congestion' = Reject(congestion, t.amount, code, max_packet)
  /\ receipt' = [receipt EXCEPT !.sent_amount = MonusSat(@, t.amount),
                                !.in_flight_amount = MonusSat(@, t.amount)]
  /\ counts' = [counts EXCEPT !.rejected = @ + 1,
                              !.fail_fast = IF code \in {"T00", "F99"} THEN @ + 1 ELSE @]
  /\ ReadReply(t, readable)
  /\ Becomes(t, [stage |-> "done", error |-> code = "F02"])
  /\ UNCHANGED <<expired, status, spawned, spent, received>>

\* Mutant of ApplyFulfill: the claim of the recipient is added to the minimum.
ApplyFulfill_Adds(t, readable) ==
  /\ t.stage = "fulfilled"
  /\ congestion' = Fulfill(congestion, t.amount)
  /\ receipt' = [receipt EXCEPT
       !.in_flight_amount = MonusSat(@, t.amount),
       !.delivered_amount =
         Lesser(@ + t.min + (IF readable THEN t.claimed ELSE 0), U64Max)]
  /\ counts' = [counts EXCEPT !.fulfilled = @ + 1]
  /\ ReadReply(t, readable)
  /\ expired' = FALSE
  /\ spent' = spent + t.amount
  /\ Becomes(t, [stage |-> "done", error |-> FALSE])
  /\ UNCHANGED <<status, spawned, received>>

\* apply_fulfill with the larger of the minimum and the recipient's claim.
ApplyFulfill(t, readable) ==
  /\ t.stage = "fulfilled"
  /\ congestion' = Fulfill(congestion, t.amount)
  /\ receipt' = [receipt EXCEPT
       !.in_flight_amount = MonusSat(@, t.amount),
       !.delivered_amount =
         Lesser(@ + Greater(t.min, IF readable THEN t.claimed ELSE 0), U64Max)]
  /\ counts' = [counts EXCEPT !.fulfilled = @ + 1]
  /\ ReadReply(t, readable)
  /\ expired' = FALSE
  /\ spent' = spent + t.amount
  /\ Becomes(t, [stage |-> "done", error |-> FALSE])
  /\ UNCHANGED <<status, spawned, received>>

\* A node on the way refuses the packet: an internal error, no liquidity, an
\* amount that rounds to nothing, or an error that is final.
NetworkReject(t, code) ==
  /\ t.stage = "sent"
  /\ ApplyReject(t, code, Unlimited, FALSE)

\* max_packet_amount_service of a node on the way, which sees the amount at
\* limit[2] times the sender's: prepare_amount * max_amount / amount_received.
AmountTooLarge(t, limit, readable) ==
  LET amount_received == t.amount * limit[2]
  IN /\ t.stage = "sent" /\ amount_received > limit[1]
     /\ ApplyReject(t, "F08",
          IF readable THEN (t.amount * limit[1]) \div amount_received ELSE Unlimited,
          FALSE)

\* The packet can be fulfilled (its condition is random when there is no
\* minimum), and enough of it arrived.
Acceptable(t, amount) == t.min > 0 /\ amount >= t.min

\* receive_money fulfills: the recipient has the money from here on.
Receive(t, rate) ==
  LET amount == (t.amount * rate[1]) \div rate[2]
  IN /\ t.stage = "sent" /\ Acceptable(t, amount)
     /\ Becomes(t, [t EXCEPT !.stage = "fulfilled", !.claimed = amount])
     /\ received' = received + amount
     /\ UNCHANGED <<receipt, congestion, counts, should_send_source_account,
                    rate_known, expired, status, spawned, spent>>

\* receive_money rejects, with a STREAM packet the sender may be able to read.
Refuse(t, rate, readable) ==
  /\ t.stage = "sent"
  /\ ~Acceptable(t, (t.amount * rate[1]) \div rate[2])
  /\ ApplyReject(t, "F99", Unlimited, readable)

-----------------------------------------------------------------------------

Loop == Timeout \/ FailFast \/ CloseConnection \/ MaxInFlight \/ SendMoney

Answer(t) ==
  \/ \E code \in {"T00", "T04", "R01", "F02"} : NetworkReject(t, code)
  \/ \E limit \in Limits, readable \in BOOLEAN : AmountTooLarge(t, limit, readable)
  \/ \E rate \in PathRates : Receive(t, rate)
  \/ \E rate \in PathRates, readable \in BOOLEAN : Refuse(t, rate, readable)

Next ==
  \/ Elapse
  \/ Loop
  \/ Close
  \/ \E t \in BagToSet(tasks) :
       \/ NextResult(t)
       \/ SendPacket(t)
       \/ Answer(t)
       \/ \E readable \in BOOLEAN : ApplyFulfill(t, readable)

Spec == Init /\ [][Next]_vars

\* Time passes, the loop and the tasks are scheduled, and every packet is
\* answered: each hop gives up when the packet expires.
FairSpec ==
  /\ Spec
  /\ WF_vars(Elapse) /\ WF_vars(Loop) /\ WF_vars(Close)
  /\ WF_vars(\E t \in BagToSet(tasks) : NextResult(t))
  /\ WF_vars(\E t \in BagToSet(tasks) : SendPacket(t))
  /\ WF_vars(\E t \in BagToSet(tasks) : Answer(t))
  /\ WF_vars(\E t \in BagToSet(tasks), readable \in BOOLEAN : ApplyFulfill(t, readable))

-----------------------------------------------------------------------------
(* Properties *)

\* Every variable has its type.
TypeOK ==
  /\ receipt \in [sent_amount : 0..U64Max, in_flight_amount : 0..U64Max,
                  delivered_amount : 0..U64Max]
  /\ congestion \in [state : {"SlowStart", "AvoidCongestion"},
                     max_packet_amount : Nat \cup {Unlimited},
                     amount_in_flight : Nat, max_in_flight : 0..U64Max]
  /\ counts \in [fulfilled : Nat, rejected : Nat, fail_fast : Nat]
  /\ should_send_source_account \in BOOLEAN /\ rate_known \in BOOLEAN
  /\ expired \in BOOLEAN
  /\ status \in {"running", "waiting", "closing"} \cup Returned
  /\ BagToSet(tasks) \subseteq Task \cup Result
  /\ spawned \in 0..MaxPackets /\ spent \in Nat /\ received \in Nat

\* What the tasks have sent and not yet heard of.
Outstanding ==
  [t \in BagToSet(tasks) |-> IF t.stage = "done" THEN 0 ELSE tasks[t] * t.amount]
InFlight == SumFunctionOnSet(Outstanding, BagToSet(tasks))

\* The receipt and the congestion controller agree with what the tasks really
\* have in flight and what was fulfilled, also after send_money has returned,
\* and together they never exceed the amount to send.
BooksAgree ==
  /\ receipt.in_flight_amount = InFlight
  /\ congestion.amount_in_flight = InFlight
  /\ receipt.sent_amount = spent + InFlight
  /\ receipt.sent_amount <= source_amount

\* The delivered amount the sender reports is never more than the recipient
\* has collected, also when replies cannot be read.
ReceiptNeverOverstates == receipt.delivered_amount <= received

\* A payment that returns its receipt has been fulfilled in full, and no task
\* of it is left.
OkMeansFulfilled ==
  status = "ok" => spent = source_amount /\ tasks = EmptyBag

\* The loop waits only while a pending request exists: select_next_some would
\* panic on a stream that has ended.
NeverWaitsOnNothing == status = "waiting" => tasks # EmptyBag

\* The sender stops announcing its address only once it has the recipient's
\* asset details; without them no packet can be fulfilled.
RateStaysLearnable == should_send_source_account \/ rate_known

\* How far a packet may exceed the window: the least amount worth sending, and
\* the dust added to it, are both less than one such amount away.
Overshoot ==
  LET least == MinSourceAmount(rate_known)
  IN IF least > 0 THEN least + DustLimit(least) - 2 ELSE 0

\* A packet overshoots the congestion window by less than the minimum amount
\* and the dust, and not at all without a rate.
StaysInWindow ==
  [][congestion'.amount_in_flight > congestion.amount_in_flight =>
       congestion'.amount_in_flight <= congestion.max_in_flight + Overshoot]_vars

\* send_money returns: it never loops or waits for ever.
PaymentEnds == <>(status \in Returned)
=============================================================================
