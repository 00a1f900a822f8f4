---------------------------- MODULE SettlementApi ---------------------------
(***************************************************************************)
(* The connector's settlement endpoint POST /accounts/:id/settlements for  *)
(* one account: make_idempotent_call around do_receive_settlement, over    *)
(* the Redis store's idempotency cache, balance script and list of         *)
(* uncredited leftovers.  A settlement engine reports what it received in  *)
(* its own scale; what the account's scale cannot express is kept as a     *)
(* leftover and added to a later settlement.                               *)
(*                                                                         *)
(* Every HTTP request is a process; a step is one store call.              *)
(***************************************************************************)
EXTENDS Integers, Sequences, FiniteSets, Functions

CONSTANTS Requests,       \* HTTP requests
          Keys,           \* idempotency keys the engine uses
          NoKey,          \* a request without the header
          Amounts, Scales,  \* what a Quantity may hold
          asset_scale,    \* the account's scale
          Base,           \* 10 in normalize_scale
          FinestScale,    \* the largest scale there is
          TextHashes,     \* quantities whose SHA-256 hash is valid UTF-8
          None,
          \* bounds on the environment
          MaxFaults,      \* store calls that end in an error
          MaxDrops        \* requests that die with their connection or node

ASSUME ScaleAssumption ==
  /\ Scales \cup {asset_scale} \subseteq 0..FinestScale
  /\ Base \in Nat \ {0} /\ FinestScale \in Nat
  /\ Amounts \subseteq Nat
  /\ MaxFaults \in Nat /\ MaxDrops \in Nat
  /\ NoKey \notin Keys /\ IsFiniteSet(Requests)

VARIABLES
  credited,    \* what the balance script has added to the account
  processed,   \* keys the balance script has seen, with the credited request
  leftovers,   \* list of uncredited amounts with their scales
  cache,       \* key -> saved response and the input that led to it, or None
  req,         \* request -> its program counter and locals
  disturbed,   \* history: a store call failed, a request was lost, had no key
               \* or came while another one with its key was being processed
  faults, drops

vars == <<credited, processed, leftovers, cache, req, disturbed, faults, drops>>

Quantity == [num : Nat, scale : 0..FinestScale]

Live == {"check", "account", "load", "remainder", "settle", "save"}
Ended == {"ok", "error", "conflict", "panicked", "lost"}

Req == [pc : Live \cup Ended \cup {"idle"},
        key : Keys \cup {NoKey}, input : Quantity,
        scaled : Nat, loss : Nat,           \* of the reported quantity
        loaded : Nat, remainder : Quantity, \* of the leftovers
        credit : {"todo", "done", "failed"}, loss_saved : {"todo", "done", "failed"},
        failed : BOOLEAN]

\* A saved response and the input that led to it.
Saved == [response : {"ok", "error"}, input : Quantity]

ASSUME NoneAssumption == None \notin Requests /\ None \notin Saved

Zero == [num |-> 0, scale |-> 0]

Init ==
  /\ credited = 0
  /\ processed = [k \in Keys |-> None]
  /\ leftovers = << >>
  /\ cache = [k \in Keys |-> None]
  /\ req = [r \in Requests |->
              [pc |-> "idle", key |-> NoKey, input |-> Zero, scaled |-> 0,
               loss |-> 0, loaded |-> 0, remainder |-> Zero,
               credit |-> "todo", loss_saved |-> "todo", failed |-> FALSE]]
  /\ disturbed = FALSE /\ faults = 0 /\ drops = 0

-----------------------------------------------------------------------------
(* Scaling *)

\* 10u64.pow(n).
Power[n \in Nat] == IF n = 0 THEN 1 ELSE Base * Power[n - 1]

\* BigUint::normalize_scale.
NormalizeScale(num, from, to) ==
  IF to >= from THEN num * Power[to - from] ELSE num \div Power[from - to]

\* Mutant of ScaleWithPrecisionLoss: the loss is taken with the wrong sign.
ScaleWithPrecisionLoss_WrongSign(num, local, remote) ==
  LET scaled == NormalizeScale(num, remote, local)
  IN [scaled |-> scaled,
      loss   |-> IF local < remote
                   THEN NormalizeScale(scaled, local, remote) - num ELSE 0]

\* scale_with_precision_loss: scaled is in the local scale, loss in the remote
\* one.
ScaleWithPrecisionLoss(num, local, remote) ==
  LET scaled == NormalizeScale(num, remote, local)
  IN [scaled |-> scaled,
      loss   |-> IF local < remote
                   THEN num - NormalizeScale(scaled, local, remote) ELSE 0]

\* AmountWithScale::parse_multi_values: the sum of the list in its largest
\* scale.
ParseMultiValues(list) ==
  LET scales == {list[i].scale : i \in DOMAIN list} \cup {0}
      scale  == CHOOSE s \in scales : \A o \in scales : o <= s
      nums   == [i \in DOMAIN list |-> NormalizeScale(list[i].num, list[i].scale, scale)]
  IN [num |-> SumFunctionOnSet(nums, DOMAIN list), scale |-> scale]

-----------------------------------------------------------------------------
(* A request *)

Goto(r, pc) == req' = [req EXCEPT ![r].pc = pc]

\* The engine reports a settlement: without a key, with a key it has used for
\* another quantity, or again while the first request is being processed.
Arrive(r, key, input) ==
  /\ req[r].pc = "idle"
  /\ LET s == ScaleWithPrecisionLoss(input.num, asset_scale, input.scale)
     IN req' = [req EXCEPT ![r].pc = "check", ![r].key = key,
                           ![r].input = input, ![r].scaled = s.scaled,
                           ![r].loss = s.loss]
  /\ disturbed' = (disturbed \/ key = NoKey \/ \E o \in Requests :
                     req[o].key = key /\ req[o].pc \in Live)
  /\ UNCHANGED <<credited, processed, leftovers, cache, faults, drops>>

\* load_idempotent_data reads the saved hash as a String: one that is not
\* UTF-8 ends the request with an error, which is not saved.
Readable(saved) == saved.input \in TextHashes

\* Mutant of CheckIdempotency: a saved response answers any input.
CheckIdempotency_IgnoresInput(r) ==
  /\ req[r].pc = "check"
  /\ IF req[r].key = NoKey \/ cache[req[r].key] = None
       THEN Goto(r, "account")
       ELSE Goto(r, IF Readable(cache[req[r].key])
                      THEN cache[req[r].key].response ELSE "error")
  /\ UNCHANGED <<credited, processed, leftovers, cache, disturbed, faults, drops>>

\* check_idempotency: a saved response is repeated for the same input and is a
\* conflict for another one.
CheckIdempotency(r) ==
  /\ req[r].pc = "check"
  /\ IF req[r].key = NoKey \/ cache[req[r].key] = None
       THEN Goto(r, "account")
       ELSE LET saved == cache[req[r].key]
            IN Goto(r, CASE ~Readable(saved) -> "error"
                         [] Readable(saved) /\ saved.input = req[r].input ->
                              saved.response
                         [] OTHER -> "conflict")
  /\ UNCHANGED <<credited, processed, leftovers, cache, disturbed, faults, drops>>

\* get_accounts finds the account and its settlement engine.
GetAccount(r) ==
  /\ req[r].pc = "account"
  /\ Goto(r, "load")
  /\ UNCHANGED <<credited, processed, leftovers, cache, disturbed, faults, drops>>

\* The local variables after get_uncredited_settlement_amount: LRANGE and DEL
\* in one transaction.
TakeLeftovers(r) ==
  LET total == ParseMultiValues(leftovers)
      s     == ScaleWithPrecisionLoss(total.num, asset_scale, total.scale)
  IN [req[r] EXCEPT !.loaded = s.scaled,
                    !.remainder = [num |-> s.loss, scale |-> total.scale],
                    !.pc = IF s.loss > 0 THEN "remainder" ELSE "settle"]

LoadLeftovers(r) ==
  /\ req[r].pc = "load"
  /\ req' = [req EXCEPT ![r] = TakeLeftovers(r)]
  /\ leftovers' = << >>
  /\ UNCHANGED <<credited, processed, cache, disturbed, faults, drops>>

\* load_uncredited_settlement_amount puts back what the account's scale cannot
\* express.
SaveRemainder(r) ==
  /\ req[r].pc = "remainder"
  /\ leftovers' = Append(leftovers, req[r].remainder)
  /\ Goto(r, "settle")
  /\ UNCHANGED <<credited, processed, cache, disturbed, faults, drops>>

\* join_all polls the balance update first; without a key its unwrap panics
\* and takes the request down.
SettleWithoutKey(r) ==
  /\ req[r].pc = "settle" /\ req[r].key = NoKey
  /\ Goto(r, "panicked")
  /\ UNCHANGED <<credited, processed, leftovers, cache, disturbed, faults, drops>>

\* Mutant of CreditBalance: the key is not looked up.
CreditBalance_NoLookup(r) ==
  /\ req[r].pc = "settle" /\ req[r].key # NoKey /\ req[r].credit = "todo"
  /\ credited' = credited + req[r].scaled + req[r].loaded
  /\ processed' = [processed EXCEPT ![req[r].key] = r]
  /\ req' = [req EXCEPT ![r].credit = "done"]
  /\ UNCHANGED <<leftovers, cache, disturbed, faults, drops>>

\* Mutant of CreditBalance: an amount that is used up is not recorded.
CreditBalance_Unrecorded(r) ==
  /\ req[r].pc = "settle" /\ req[r].key # NoKey /\ req[r].credit = "todo"
  /\ IF processed[req[r].key] # None THEN UNCHANGED <<credited, processed>>
     ELSE /\ credited' = credited + req[r].scaled + req[r].loaded
          /\ processed' = IF req[r].scaled + req[r].loaded = 0 THEN processed
                          ELSE [processed EXCEPT ![req[r].key] = r]
  /\ req' = [req EXCEPT ![r].credit = "done"]
  /\ UNCHANGED <<leftovers, cache, disturbed, faults, drops>>

\* The joined update_balance_for_incoming_settlement: once per key.
CreditBalance(r) ==
  /\ req[r].pc = "settle" /\ req[r].key # NoKey /\ req[r].credit = "todo"
  /\ IF processed[req[r].key] # None THEN UNCHANGED <<credited, processed>>
     ELSE /\ credited' = credited + req[r].scaled + req[r].loaded
          /\ processed' = [processed EXCEPT ![req[r].key] = r]
  /\ req' = [req EXCEPT ![r].credit = "done"]
  /\ UNCHANGED <<leftovers, cache, disturbed, faults, drops>>

\* The joined save_uncredited_settlement_amount: a loss of 0 is saved too.
SaveLoss(r) ==
  /\ req[r].pc = "settle" /\ req[r].key # NoKey /\ req[r].loss_saved = "todo"
  /\ leftovers' = Append(leftovers, [num |-> req[r].loss,
                                     scale |-> req[r].input.scale])
  /\ req' = [req EXCEPT ![r].loss_saved = "done"]
  /\ UNCHANGED <<credited, processed, cache, disturbed, faults, drops>>

\* Both have ended: the response is an error if either failed.
Join(r) ==
  /\ req[r].pc = "settle"
  /\ req[r].credit # "todo" /\ req[r].loss_saved # "todo"
  /\ req' = [req EXCEPT ![r].pc = "save",
               ![r].failed = req[r].credit = "failed" \/ req[r].loss_saved = "failed"]
  /\ UNCHANGED <<credited, processed, leftovers, cache, disturbed, faults, drops>>

Response(r) == IF req[r].failed THEN "error" ELSE "ok"

\* save_idempotent_data: errors are saved as well.
SaveIdempotentData(r) ==
  /\ req[r].pc = "save"
  /\ cache' = IF req[r].key = NoKey THEN cache
              ELSE [cache EXCEPT ![req[r].key] =
                      [response |-> Response(r), input |-> req[r].input]]
  /\ Goto(r, Response(r))
  /\ UNCHANGED <<credited, processed, leftovers, disturbed, faults, drops>>

\* A store call ends in an error: before it had an effect, or after.
Fault ==
  /\ faults < MaxFaults
  /\ faults' = faults + 1 /\ disturbed' = TRUE

\* The lookup of the idempotency key fails: nothing is saved.
CheckFails(r) ==
  /\ Fault /\ req[r].pc = "check" /\ req[r].key # NoKey
  /\ Goto(r, "error")
  /\ UNCHANGED <<credited, processed, leftovers, cache, drops>>

FailWith(r) == req' = [req EXCEPT ![r].pc = "save", ![r].failed = TRUE]

\* The request names no account, the amount is not a number, or the account is
\* gone or without a settlement engine at the moment.
GetAccountFails(r) ==
  /\ req[r].pc = "account"
  /\ FailWith(r)
  /\ UNCHANGED <<credited, processed, leftovers, cache, disturbed, faults, drops>>

LoadLeftoversFails(r, applied) ==
  /\ Fault /\ req[r].pc = "load"
  /\ leftovers' = IF applied THEN << >> ELSE leftovers
  /\ FailWith(r)
  /\ UNCHANGED <<credited, processed, cache, drops>>

SaveRemainderFails(r, applied) ==
  /\ Fault /\ req[r].pc = "remainder"
  /\ leftovers' = IF applied THEN Append(leftovers, req[r].remainder)
                             ELSE leftovers
  /\ FailWith(r)
  /\ UNCHANGED <<credited, processed, cache, drops>>

CreditBalanceFails(r, applied) ==
  /\ Fault /\ req[r].pc = "settle" /\ req[r].key # NoKey /\ req[r].credit = "todo"
  /\ IF ~applied \/ processed[req[r].key] # None
       THEN UNCHANGED <<credited, processed>>
       ELSE /\ credited' = credited + req[r].scaled + req[r].loaded
            /\ processed' = [processed EXCEPT ![req[r].key] = r]
  /\ req' = [req EXCEPT ![r].credit = "failed"]
  /\ UNCHANGED <<leftovers, cache, drops>>

SaveLossFails(r, applied) ==
  /\ Fault /\ req[r].pc = "settle" /\ req[r].key # NoKey
  /\ req[r].loss_saved = "todo"
  /\ leftovers' = IF ~applied THEN leftovers
                  ELSE Append(leftovers, [num |-> req[r].loss,
                                          scale |-> req[r].input.scale])
  /\ req' = [req EXCEPT ![r].loss_saved = "failed"]
  /\ UNCHANGED <<credited, processed, cache, drops>>

SaveIdempotentDataFails(r, applied) ==
  /\ Fault /\ req[r].pc = "save" /\ req[r].key # NoKey
  /\ cache' = IF ~applied THEN cache
              ELSE [cache EXCEPT ![req[r].key] =
                      [response |-> Response(r), input |-> req[r].input]]
  /\ Goto(r, "error")
  /\ UNCHANGED <<credited, processed, leftovers, drops>>

\* The engine disconnects and the handler's future is dropped, or the node
\* stops: the request ends where it is.
Drop(r) ==
  /\ drops < MaxDrops /\ drops' = drops + 1 /\ disturbed' = TRUE
  /\ req[r].pc \in Live
  /\ Goto(r, "lost")
  /\ UNCHANGED <<credited, processed, leftovers, cache, faults>>

Step(r) ==
  \/ CheckIdempotency(r) \/ GetAccount(r) \/ LoadLeftovers(r)
  \/ SaveRemainder(r) \/ SettleWithoutKey(r) \/ CreditBalance(r)
  \/ SaveLoss(r) \/ Join(r) \/ SaveIdempotentData(r)

StepFails(r) ==
  \/ CheckFails(r) \/ GetAccountFails(r)
  \/ \E applied \in BOOLEAN :
       \/ LoadLeftoversFails(r, applied) \/ SaveRemainderFails(r, applied)
       \/ CreditBalanceFails(r, applied) \/ SaveLossFails(r, applied)
       \/ SaveIdempotentDataFails(r, applied)

Next ==
  \E r \in Requests :
    \/ \E key \in Keys \cup {NoKey}, n \in Amounts, s \in Scales :
         Arrive(r, key, [num |-> n, scale |-> s])
    \/ Step(r) \/ StepFails(r) \/ Drop(r)

Spec == Init /\ [][Next]_vars

-----------------------------------------------------------------------------
(* Properties *)

\* Types of the stored amounts and of every request's locals.
TypeOK ==
  /\ credited \in Nat
  /\ processed \in [Keys -> Requests \cup {None}]
  /\ leftovers \in Seq(Quantity)
  /\ cache \in [Keys -> Saved \cup {None}]
  /\ req \in [Requests -> Req]
  /\ disturbed \in BOOLEAN /\ faults \in 0..MaxFaults /\ drops \in 0..MaxDrops

\* An amount in units of the finest scale.
Value(num, scale) == num * Power[FinestScale - scale]

\* What the store holds: credited to the account or kept for later.
Kept(list) ==
  SumFunctionOnSet([i \in DOMAIN list |-> Value(list[i].num, list[i].scale)], DOMAIN list)
Held == Value(credited, asset_scale) + Kept(leftovers)

Reported(rs) ==
  SumFunctionOnSet([r \in rs |-> Value(req[r].input.num, req[r].input.scale)], rs)
Losses(rs) ==
  SumFunctionOnSet([r \in rs |-> Value(req[r].loss, req[r].input.scale)], rs)

\* Requests whose settlement the balance script has taken.
Taken == {r \in Requests : \E k \in Keys : processed[k] = r}

Quiescent == \A r \in Requests : req[r].pc \notin Live

\* Once all requests have been answered, every settlement the engine reported
\* is in the balance or in the leftovers, in full and once, whatever was scaled
\* and however requests with different keys interleaved.
SettledInFull == Quiescent /\ ~disturbed => Held = Reported(Taken)

\* The engine used a key for two quantities.
Conflicting ==
  \E r, o \in Requests : req[r].key = req[o].key /\ req[r].key # NoKey
                           /\ req[r].input # req[o].input

\* A request is answered with success only if its own quantity was credited:
\* cached answers are those of the same input, and a repetition that finds no
\* cached answer finds the key in the balance script.  Only an engine that uses
\* a key for two quantities, one of which was not answered, is misled.
AcknowledgedIsCredited ==
  ~(disturbed /\ Conflicting) =>
    \A r \in Requests : req[r].pc = "ok" /\ req[r].key # NoKey =>
      /\ processed[req[r].key] # None
      /\ req[processed[req[r].key]].input = req[r].input

\* Repeating a request, also while it is being processed, after a failed store
\* call or after a lost connection, credits its whole units at most once; at
\* worst the fraction that did not fit is kept once per repetition.
RetryCostsAtMostTheLoss ==
  Held <= Reported(Taken) + Losses({r \in Requests : req[r].pc # "idle"} \ Taken)
=============================================================================
