---------------------------- MODULE UsageBudget -----------------------------
(***************************************************************************)
(* The daily budget ledger of internal/usagebudget (PostgreSQL), used by   *)
(* any number of gateway processes.  A reservation is priced and counted   *)
(* against its owner's day before the provider is called; afterwards it is *)
(* settled at the cost used, marked uncertain at the full price, released, *)
(* or, when its time is up, turned into uncertain spend by the next        *)
(* Reserve of anybody.  internal/speechbudget is the same ledger with      *)
(* other units.  Each operation is one serializable transaction; the       *)
(* caller may lose its outcome.  Nothing here restricts the callers: a     *)
(* caller's module says when it calls what.                                *)
(***************************************************************************)
EXTENDS Integers, FiniteSets, FiniteSetsExt, Functions, TLC

CONSTANTS
  Ids,            \* reservation identifiers, each random and used once
  Subjects,       \* owned device scopes (the ledger keeps their HMAC)
  Profiles,       \* pricing profile identifiers
  Rates,          \* rates [in, out] a deployment may configure for a profile
  Limits,         \* usage bounds [in, out] a reservation may ask for
  Budget,         \* DailyBudgetMicrousd
  Million,        \* tokens a rate is quoted for: 1,000,000
  MaxTokens,      \* MaximumTokenBound
  MaxInt,         \* the largest int64
  MaximumBudget,
  Batch,          \* reservations reconciled per operation: 1024
  Days            \* 1 .. the last day

LedgerBounds ==
  /\ Rates \subseteq [in : Nat \ {0}, out : Nat \ {0}]
  /\ Limits \subseteq [in : Nat \ {0}, out : Nat \ {0}]
  /\ Budget \in 1 .. MaximumBudget /\ Million \in Nat \ {0} /\ MaxTokens \in Nat
  /\ MaximumBudget \in Nat /\ MaxInt \in Nat /\ Batch \in Nat /\ Days \subseteq Nat
  /\ \A rate \in Rates : (Million - 1) * (rate.in + rate.out + 1) <= MaxInt

ASSUME LedgerAssumption == LedgerBounds

VARIABLES
  day,      \* the database's UTC day
  ledger,   \* the tables, see LedgerTypeOK
  late,     \* reservations past expires_at
  drawn     \* identifiers drawn so far

ledgerVars == <<day, ledger, late, drawn>>

Keys == Days \X Subjects
None == [in |-> 0, out |-> 0]      \* no rate stored for the profile yet
Invalid == -1                      \* ErrInvalid of the pricing functions
Rows == [key : Keys, profile : Profiles, limit : Limits, cost : Nat]
-----------------------------------------------------------------------------
\* Pricing: rounded up, and refused where the int64 product would overflow.

tokenCost(tokens, rate) ==
  LET whole == (tokens \div Million) * rate
      remainder == tokens % Million
      part == IF remainder = 0 THEN 0 ELSE (remainder * rate + Million - 1) \div Million
  IN  IF \/ tokens > MaxTokens
         \/ remainder # 0 /\ remainder > (MaxInt - (Million - 1)) \div rate
         \/ whole + part > MaximumBudget
      THEN Invalid ELSE whole + part

reservationCost(rate, usage) ==
  LET input == tokenCost(usage.in, rate.in)
      output == tokenCost(usage.out, rate.out)
  IN  IF input = Invalid \/ output = Invalid \/ input > MaximumBudget - output
      THEN Invalid ELSE input + output
-----------------------------------------------------------------------------
\* The tables.

CostOf(L, S) == MapThenSumSet(LAMBDA id : L.rows[id].cost, S)

Open(L, S, k) == {id \in S : L.rows[id].key = k}

deleteReservation(L, S) == [L EXCEPT !.rows = Restrict(@, DOMAIN @ \ S)]

\* Mutant: the reservation stays counted after it has been settled.
updateSettlement_mutant(L, id, cost) ==
  LET row == L.rows[id] IN
  deleteReservation(
    [L EXCEPT !.committed[row.key] = @ + cost,
              !.pcommitted[<<row.key, row.profile>>] = @ + cost], {id})

updateSettlement(L, id, cost) ==
  LET row == L.rows[id] IN
  deleteReservation(
    [L EXCEPT !.reserved[row.key] = @ - row.cost,
              !.committed[row.key] = @ + cost,
              !.pcommitted[<<row.key, row.profile>>] = @ + cost], {id})

updateUncertain(L, S) ==
  deleteReservation(
    [L EXCEPT !.reserved = [k \in Keys |-> @[k] - CostOf(L, Open(L, S, k))],
              !.uncertain = [k \in Keys |-> @[k] + CostOf(L, Open(L, S, k))],
              !.puncertain = [kp \in Keys \X Profiles |-> @[kp] +
                  CostOf(L, {id \in Open(L, S, kp[1]) : L.rows[id].profile = kp[2]})]], S)

updateReserved(L, id) ==
  deleteReservation([L EXCEPT !.reserved[L.rows[id].key] = @ - L.rows[id].cost], {id})

\* Mutant: an abandoned reservation is refunded.
reconcileExpired_mutant(L, S) ==
  deleteReservation(
    [L EXCEPT !.reserved = [k \in Keys |-> @[k] - CostOf(L, Open(L, S, k))]], S)

\* S: what FOR UPDATE SKIP LOCKED leaves of the expired reservations.
reconcileExpired(L, S) == updateUncertain(L, S)

Reconcilable(L) == {S \in SUBSET (late \cap DOMAIN L.rows) : Cardinality(S) <= Batch}
-----------------------------------------------------------------------------
\* The four operations: each is the set of [ledger, result] that may commit.

Done(L, result) == [ledger |-> L, result |-> result]

admit(L, id, k, p, rate, limit, cost) ==
  IF L.committed[k] + L.uncertain[k] + L.reserved[k] > Budget - cost
  THEN Done(L, "ErrBudgetExceeded")
  ELSE Done([L EXCEPT !.reserved[k] = @ + cost,
                      !.rows = @ @@ (id :> [key |-> k, profile |-> p, limit |-> limit,
                                            cost |-> cost])], "nil")

Reserve(L, id, s, p, rate, limit) ==
  LET cost == reservationCost(rate, limit)
      stored(M) == IF M.rate[p] = None THEN [M EXCEPT !.rate[p] = rate] ELSE M
      reserve(M) == IF M.rate[p] # rate THEN Done(M, "ErrInvalid")
                    ELSE admit(M, id, <<day, s>>, p, rate, limit, cost)
  IN  IF cost < 1 THEN {Done(L, "ErrInvalid")}
      ELSE {reserve(stored(reconcileExpired(L, S))) : S \in Reconcilable(L)}

Settle(L, id, usage) ==
  IF id \notin DOMAIN L.rows THEN {Done(L, "ErrReservationLost")}
  ELSE LET row == L.rows[id]
           cost == reservationCost(L.rate[row.profile], usage)
       IN  IF \/ usage.in > row.limit.in \/ usage.out > row.limit.out
              \/ cost = Invalid \/ cost > row.cost
           THEN {Done(L, "ErrUsageExceeded")}
           ELSE {Done(updateSettlement(L, id, cost), "nil")}

MarkUncertain(L, id) ==
  IF id \notin DOMAIN L.rows THEN {Done(L, "ErrReservationLost")}
  ELSE {Done(updateUncertain(L, {id}), "nil")}

Release(L, id) ==
  IF id \notin DOMAIN L.rows THEN {Done(L, "ErrReservationLost")}
  ELSE {Done(updateReserved(L, id), "nil")}

\* serializable: the transaction commits and says so; or ErrUnavailable, when it
\* was rolled back and also when only the answer to its COMMIT was lost.
serializable(outcomes) ==
  outcomes \cup {Done(L, "ErrUnavailable") : L \in {ledger} \cup {done.ledger : done \in outcomes}}
-----------------------------------------------------------------------------
\* The calls, with the clock beside them.

LedgerInit ==
  /\ day \in Days /\ \A d \in Days : day <= d
  /\ late = {} /\ drawn = {}
  /\ ledger = [committed |-> [k \in Keys |-> 0], uncertain |-> [k \in Keys |-> 0],
               reserved |-> [k \in Keys |-> 0],
               pcommitted |-> [kp \in Keys \X Profiles |-> 0],
               puncertain |-> [kp \in Keys \X Profiles |-> 0],
               rate |-> [p \in Profiles |-> None], rows |-> <<>>]

callReserve(id, done) ==
  /\ id \in Ids \ drawn
  /\ ledger' = done.ledger
  /\ drawn' = drawn \cup {id}
  /\ UNCHANGED <<day, late>>

\* Settle, MarkUncertain and Release.
callResolve(done) ==
  /\ ledger' = done.ledger
  /\ UNCHANGED <<day, late, drawn>>

Expire(id) ==
  /\ id \in DOMAIN ledger.rows \ late
  /\ late' = late \cup {id}
  /\ UNCHANGED <<day, ledger, drawn>>

Midnight ==
  /\ day + 1 \in Days
  /\ day' = day + 1
  /\ UNCHANGED <<ledger, late, drawn>>

Clock == Midnight \/ \E id \in Ids : Expire(id)

LedgerNext ==
  \/ \E id \in Ids \ drawn, s \in Subjects, p \in Profiles, rate \in Rates, limit \in Limits :
       \E done \in serializable(Reserve(ledger, id, s, p, rate, limit)) : callReserve(id, done)
  \/ \E id \in drawn :
       \/ \E usage \in Limits :
            \E done \in serializable(Settle(ledger, id, usage)) : callResolve(done)
       \/ \E done \in serializable(MarkUncertain(ledger, id)) : callResolve(done)
       \/ \E done \in serializable(Release(ledger, id)) : callResolve(done)
  \/ Clock

LedgerSpec == LedgerInit /\ [][LedgerNext]_ledgerVars
-----------------------------------------------------------------------------
\* Every counter of every table stays a natural number, also after a
\* reservation of an earlier day is resolved (the schema's checks on the
\* columns of the daily and profile tables).
LedgerTypeOK ==
  /\ day \in Days /\ late \subseteq drawn /\ drawn \subseteq Ids
  /\ \A f \in {ledger.committed, ledger.uncertain, ledger.reserved} : f \in [Keys -> Nat]
  /\ \A f \in {ledger.pcommitted, ledger.puncertain} : f \in [Keys \X Profiles -> Nat]
  /\ ledger.rate \in [Profiles -> Rates \cup {None}]
  /\ ledger.rows \in [DOMAIN ledger.rows -> Rows] /\ DOMAIN ledger.rows \subseteq drawn

\* Reserve: what an owner has spent, may have spent and has reserved on one day
\* never exceeds the daily budget, whichever process reserved it.
WithinBudget ==
  \A k \in Keys : ledger.committed[k] + ledger.uncertain[k] + ledger.reserved[k] <= Budget

\* Settle, MarkUncertain, Release and reconcileExpired: the reserved column is
\* the price of the open reservations, so no interleaving leaks budget.
ReservedIsOpen ==
  \A k \in Keys : ledger.reserved[k] = CostOf(ledger, Open(ledger, DOMAIN ledger.rows, k))

\* updateSettlement, updateUncertain and reconcileExpired: an owner's day is the
\* sum of its pricing profiles' days, also after a profile change.
ProfilesAddUp ==
  \A k \in Keys :
    /\ ledger.committed[k] = MapThenSumSet(LAMBDA p : ledger.pcommitted[<<k, p>>], Profiles)
    /\ ledger.uncertain[k] = MapThenSumSet(LAMBDA p : ledger.puncertain[<<k, p>>], Profiles)

\* Settle: usage within the limits of an open reservation is never priced
\* above it, so a request that kept its limits is never refused settlement
\* for its cost, whatever the rounding.
UsageWithinLimitsSettles ==
  \A id \in DOMAIN ledger.rows : LET row == ledger.rows[id] IN
    \A i \in 1 .. row.limit.in, o \in 1 .. row.limit.out :
      Settle(ledger, id, [in |-> i, out |-> o])
        = {Done(updateSettlement(ledger, id,
             reservationCost(ledger.rate[row.profile], [in |-> i, out |-> o])), "nil")}
=============================================================================
