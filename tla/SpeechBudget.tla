---------------------------- MODULE SpeechBudget ----------------------------
(***************************************************************************)
(* The daily speech ledger of internal/speechbudget (PostgreSQL): the      *)
(* recognised audio, the characters and the synthesised audio of one owned *)
(* device scope under one pricing profile.  Each operation is one          *)
(* serializable transaction whose outcome the caller may lose.  It differs *)
(* from UsageBudget in what it counts and in what it accepts as usage.     *)
(***************************************************************************)
EXTENDS Integers, FiniteSets, FiniteSetsExt, Functions, TLC

CONSTANTS
  Ids,              \* reservation identifiers, each random and used once
  Pricing,          \* [stt, chars, out]: the stored rates of the profile
  Budget,           \* DailyBudgetMicrousd
  Million,          \* units a rate is quoted for: 1,000,000
  MaxUnits,         \* MaximumUnitBound
  MaxInt,           \* the largest int64
  MaximumBudget,
  Batch,            \* reservations reconciled per operation: 1024
  Days              \* 1 .. the last day

Units == {"stt", "chars", "out"}

SpeechBounds ==
  /\ Pricing \in [Units -> Nat] /\ Pricing["stt"] > 0
  /\ Pricing["chars"] + Pricing["out"] > 0
  /\ Budget \in 1 .. MaximumBudget /\ Million \in Nat \ {0} /\ MaxUnits \in Nat
  /\ MaximumBudget \in Nat /\ MaxInt \in Nat /\ Batch \in Nat /\ Days \subseteq Nat

VARIABLES
  day,      \* the database's UTC day
  ledger,   \* [committed, uncertain, reserved] per day, and the open rows
  late,     \* reservations past expires_at
  drawn     \* identifiers drawn so far

ledgerVars == <<day, ledger, late, drawn>>

Invalid == -1
STTUsage(ms) == [stt |-> ms, chars |-> 0, out |-> 0]
TTSUsage(characters, ms) == [stt |-> 0, chars |-> characters, out |-> ms]
-----------------------------------------------------------------------------
\* Usage is audio heard or text spoken, never both.
Validate(u) ==
  /\ \/ u.stt > 0 /\ u.chars = 0 /\ u.out = 0
     \/ u.stt = 0 /\ u.chars > 0 /\ u.out >= 0
  /\ \A unit \in Units : u[unit] <= MaxUnits

\* Rounded up, and refused where the int64 product would overflow.
unitCost(units, rate) ==
  LET whole == (units \div Million) * rate
      remainder == units % Million
      part == IF remainder = 0 THEN 0 ELSE (remainder * rate + Million - 1) \div Million
  IN  IF units = 0 \/ rate = 0 THEN 0
      ELSE IF \/ remainder # 0 /\ remainder > (MaxInt - (Million - 1)) \div rate
              \/ whole + part > MaximumBudget
      THEN Invalid ELSE whole + part

usageCost(u) ==
  LET cost == [unit \in Units |-> unitCost(u[unit], Pricing[unit])]
      total == cost["stt"] + cost["chars"] + cost["out"]
  IN  IF \/ ~Validate(u) \/ \E unit \in Units : cost[unit] = Invalid
         \/ total \notin 1 .. MaximumBudget
      THEN Invalid ELSE total

usageWithin(u, limit) ==
  /\ Validate(u)
  /\ \A unit \in Units : u[unit] <= limit[unit]
  /\ (u.stt > 0) = (limit.stt > 0)
-----------------------------------------------------------------------------
\* The tables.

CostOf(L, S) == MapThenSumSet(LAMBDA id : L.rows[id].cost, S)

deleteReservation(L, S) == [L EXCEPT !.rows = Restrict(@, DOMAIN @ \ S)]

\* Mutant: the reservation stays counted after it has been settled.
updateSettlement_mutant(L, id, cost) ==
  deleteReservation([L EXCEPT !.committed[L.rows[id].day] = @ + cost], {id})

updateSettlement(L, id, cost) ==
  LET row == L.rows[id] IN
  deleteReservation([L EXCEPT !.reserved[row.day] = @ - row.cost,
                              !.committed[row.day] = @ + cost], {id})

updateUncertain(L, S) ==
  LET of(d) == CostOf(L, {id \in S : L.rows[id].day = d}) IN
  deleteReservation([L EXCEPT !.reserved = [d \in Days |-> @[d] - of(d)],
                              !.uncertain = [d \in Days |-> @[d] + of(d)]], S)

updateReserved(L, id) ==
  deleteReservation([L EXCEPT !.reserved[L.rows[id].day] = @ - L.rows[id].cost], {id})

\* S: what FOR UPDATE SKIP LOCKED leaves of the expired reservations.
reconcileExpired(L, S) == updateUncertain(L, S)

Reconcilable(L) == {S \in SUBSET (late \cap DOMAIN L.rows) : Cardinality(S) <= Batch}
-----------------------------------------------------------------------------
\* The four operations: each is the set of [ledger, result] that may commit.

Done(L, result) == [ledger |-> L, result |-> result]

admit(L, id, limit, cost) ==
  IF L.committed[day] + L.uncertain[day] + L.reserved[day] > Budget - cost
  THEN Done(L, "ErrBudgetExceeded")
  ELSE Done([L EXCEPT !.reserved[day] = @ + cost,
                      !.rows = @ @@ (id :> [day |-> day, limit |-> limit, cost |-> cost])], "nil")

Reserve(L, id, limit) ==
  LET cost == usageCost(limit) IN
  IF cost = Invalid THEN {Done(L, "ErrInvalid")}
  ELSE {admit(reconcileExpired(L, S), id, limit, cost) : S \in Reconcilable(L)}

Settle(L, id, usage) ==
  IF ~Validate(usage) THEN {Done(L, "ErrInvalid")}
  ELSE IF id \notin DOMAIN L.rows THEN {Done(L, "ErrReservationLost")}
  ELSE IF ~usageWithin(usage, L.rows[id].limit) \/ usageCost(usage) \notin 1 .. L.rows[id].cost
       THEN {Done(L, "ErrUsageExceeded")}
       ELSE {Done(updateSettlement(L, id, usageCost(usage)), "nil")}

MarkUncertain(L, id) ==
  IF id \notin DOMAIN L.rows THEN {Done(L, "ErrReservationLost")}
  ELSE {Done(updateUncertain(L, {id}), "nil")}

Release(L, id) ==
  IF id \notin DOMAIN L.rows THEN {Done(L, "ErrReservationLost")}
  ELSE {Done(updateReserved(L, id), "nil")}

\* serializable: the transaction commits and says so; or ErrUnavailable, when it
\* was rolled back and also when only the answer to its COMMIT was lost.
serializable(outcomes) ==
  outcomes \cup {Done(L, "ErrUnavailable") : L \in {ledger} \cup {done.ledger : done \in outcomes}}
-----------------------------------------------------------------------------
LedgerInit ==
  /\ day \in Days /\ \A d \in Days : day <= d
  /\ late = {} /\ drawn = {}
  /\ ledger = [committed |-> [d \in Days |-> 0], uncertain |-> [d \in Days |-> 0],
               reserved |-> [d \in Days |-> 0], rows |-> <<>>]

Expire(id) ==
  /\ id \in DOMAIN ledger.rows \ late
  /\ late' = late \cup {id}
  /\ UNCHANGED <<day, ledger, drawn>>

Midnight ==
  /\ day + 1 \in Days
  /\ day' = day + 1
  /\ UNCHANGED <<ledger, late, drawn>>

Clock == Midnight \/ \E id \in Ids : Expire(id)

Charged(d) == ledger.committed[d] + ledger.uncertain[d] + ledger.reserved[d]

\* Reserve, Settle, MarkUncertain, Release and reconcileExpired: a device's day
\* never exceeds the budget, and its reserved column is the price of the
\* reservations still open for that day, also when one is resolved after midnight.
SpeechBooksBalance ==
  \A d \in Days :
    /\ Charged(d) <= Budget
    /\ ledger.reserved[d] = CostOf(ledger, {id \in DOMAIN ledger.rows : ledger.rows[id].day = d})
=============================================================================
