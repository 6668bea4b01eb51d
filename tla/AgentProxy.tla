----------------------------- MODULE AgentProxy -----------------------------
(***************************************************************************)
(* One Agent proxy process (internal/agentproxy) with its identity tracker *)
(* (internal/identityaccess): the chat handler's goroutines from admission *)
(* to their deferred calls, over the shared UsageBudget ledger.  A request *)
(* is a member of Ids: it draws the reservation identifier of its name.    *)
(***************************************************************************)
EXTENDS UsageBudget

CONSTANTS
  MaxRequestsMinute,   \* requests of one device per window
  MaxConcurrent,       \* requests between admission and return
  MaxMinutes           \* windows that pass

ProxyBounds ==
  MaxRequestsMinute \in Nat \ {0} /\ MaxConcurrent \in Nat \ {0} /\ MaxMinutes \in Nat

ASSUME ProxyAssumption == ProxyBounds

VARIABLES
  at,          \* per request: where its goroutine is
  subject,     \* per request: the owned device scope
  row,         \* per request: the Reservation it holds, as it was stored
  used,        \* per request: what the provider used for it, None if nothing
  status,      \* per request: the HTTP status written, 0 before
  limiters,    \* per device: [requests, inflight], and fresh: a window is running
  allowed,     \* devices the registry snapshot allows
  active,      \* requests with an identity lease
  cancelled,   \* requests whose context carries ErrRevoked
  minutes

proxyVars == <<at, subject, row, used, status, limiters, allowed, active, cancelled, minutes>>
vars == <<ledgerVars, proxyVars>>

Inside == {"decode", "contact", "settle", "uncertain", "leave"}   \* holds limiter and slot
Start == {"idle", "acquire"}
Final == {"done", "lost"}
Nobody == "nobody"
NoRow == [cost |-> 0]

Init ==
  /\ LedgerInit
  /\ at = [r \in Ids |-> "idle"] /\ subject = [r \in Ids |-> Nobody]
  /\ row = [r \in Ids |-> NoRow] /\ used = [r \in Ids |-> None]
  /\ status = [r \in Ids |-> 0]
  /\ limiters = [s \in Subjects |-> [requests |-> 0, inflight |-> FALSE, fresh |-> FALSE]]
  /\ allowed = Subjects /\ active = {} /\ cancelled = {} /\ minutes = 0
-----------------------------------------------------------------------------
\* identityaccess.Tracker.

Tracker_Start(r, s) == s \in allowed /\ active' = active \cup {r}

Revoked(r) == r \in cancelled \/ subject[r] \notin allowed

\* A new registry snapshot, and Reconcile cancelling the leases it revokes.
Snapshot(s) ==
  /\ s \in allowed
  /\ allowed' = allowed \ {s}
  /\ UNCHANGED <<ledgerVars, at, subject, row, used, status, limiters, active, cancelled, minutes>>

Reconcile ==
  LET revoked == {r \in active : subject[r] \notin allowed} IN
  /\ revoked # {}
  /\ active' = active \ revoked
  /\ cancelled' = cancelled \cup revoked
  /\ UNCHANGED <<ledgerVars, at, subject, row, used, status, limiters, allowed, minutes>>
-----------------------------------------------------------------------------
\* The chat handler.

Slots == Cardinality({r \in Ids : at[r] \in Inside})

answer(r, code) ==
  /\ status' = [status EXCEPT ![r] = code]

\* Authorization, ownership and identity lease; a refused request leaves no trace.
chat_admit(r, s) ==
  /\ at[r] = "idle"
  /\ IF s \in allowed
     THEN /\ Tracker_Start(r, s)
          /\ at' = [at EXCEPT ![r] = "acquire"]
          /\ UNCHANGED status
     ELSE /\ at' = [at EXCEPT ![r] = "done"]
          /\ answer(r, 401)
          /\ UNCHANGED active
  /\ subject' = [subject EXCEPT ![r] = s]
  /\ UNCHANGED <<ledgerVars, row, used, limiters, allowed, cancelled, minutes>>

\* acquireDevice on one limiter: the limiter it leaves, and whether it admits.
window(l) == IF l.fresh THEN l ELSE [l EXCEPT !.fresh = TRUE, !.requests = 0]

acquireDevice(l) ==
  LET w == window(l) IN
  IF w.inflight \/ w.requests >= MaxRequestsMinute
  THEN [limiter |-> w, ok |-> FALSE]
  ELSE [limiter |-> [w EXCEPT !.inflight = TRUE, !.requests = @ + 1], ok |-> TRUE]

releaseDevice(l) == [l EXCEPT !.inflight = FALSE]

\* Returning before the handler holds anything but the identity lease.
Return(r, code) ==
  /\ at' = [at EXCEPT ![r] = "done"]
  /\ answer(r, code)
  /\ active' = active \ {r}


\* The device limiter, then a slot; without a slot the limiter is released again.
chat_acquire(r) ==
  LET s == subject[r] got == acquireDevice(limiters[s]) IN
  /\ at[r] = "acquire"
  /\ \/ /\ ~got.ok
        /\ limiters' = [limiters EXCEPT ![s] = got.limiter]
        /\ Return(r, 429)
     \/ /\ got.ok /\ Slots = MaxConcurrent
        /\ limiters' = [limiters EXCEPT ![s] = releaseDevice(got.limiter)]
        /\ Return(r, 503)
     \/ /\ got.ok /\ Slots < MaxConcurrent
        /\ limiters' = [limiters EXCEPT ![s] = got.limiter]
        /\ at' = [at EXCEPT ![r] = "decode"]
        /\ UNCHANGED <<status, active>>
  /\ UNCHANGED <<ledgerVars, subject, row, used, allowed, cancelled, minutes>>

step(r, from, to) == at[r] = from /\ at' = [at EXCEPT ![r] = to]

\* A body that does not decode: 400, or 401 when the device was revoked meanwhile.
chat_refuse(r) ==
  /\ step(r, "decode", "leave")
  /\ answer(r, IF Revoked(r) THEN 401 ELSE 400)
  /\ UNCHANGED <<ledgerVars, subject, row, used, limiters, allowed, active, cancelled, minutes>>

\* Reserve under the request's context, which a revocation cancels.
chat_reserve(r, p, rate, l) ==
  /\ at[r] = "decode"
  /\ \E done \in serializable(Reserve(ledger, r, subject[r], p, rate, l)) :
       /\ r \in cancelled => done.result = "ErrUnavailable"
       /\ callReserve(r, done)
       /\ IF done.result = "nil"
          THEN /\ row' = [row EXCEPT ![r] = done.ledger.rows[r]]
               /\ step(r, "decode", "contact")
               /\ UNCHANGED status
          ELSE /\ step(r, "decode", "leave")
               /\ answer(r, IF done.result = "ErrBudgetExceeded" THEN 429 ELSE 503)
               /\ UNCHANGED row
  /\ UNCHANGED <<subject, used, limiters, allowed, active, cancelled, minutes>>

\* The provider works for a request that reached it, also after the caller gave
\* up, and may use more than it was asked to.
Usages(r) == {[in |-> i, out |-> o] : i \in 1 .. row[r].limit.in + 1, o \in 1 .. row[r].limit.out}

Provider(r) ==
  /\ row[r] # NoRow /\ used[r] = None
  /\ \E u \in Usages(r) : used' = [used EXCEPT ![r] = u]
  /\ UNCHANGED <<ledgerVars, at, subject, row, status, limiters, allowed, active, cancelled, minutes>>

\* HTTPClient.Do and ReadAll: a valid answer carries the usage.
chat_answered(r) ==
  /\ r \notin cancelled /\ used[r] # None
  /\ IF Revoked(r)
     THEN step(r, "contact", "uncertain") /\ answer(r, 401)
     ELSE step(r, "contact", "settle") /\ UNCHANGED status
  /\ UNCHANGED <<ledgerVars, subject, row, used, limiters, allowed, active, cancelled, minutes>>

\* A network error, a timeout, a cancelled context or an invalid answer.
chat_failed(r) ==
  /\ step(r, "contact", "uncertain")
  /\ answer(r, IF Revoked(r) THEN 401 ELSE 502)
  /\ UNCHANGED <<ledgerVars, subject, row, used, limiters, allowed, active, cancelled, minutes>>

\* Mutant: the answer is passed on although the settlement failed.
chat_settle_mutant(r) ==
  /\ at[r] = "settle"
  /\ \E done \in serializable(Settle(ledger, r, used[r])) :
       /\ callResolve(done)
       /\ step(r, "settle", IF done.result = "nil" THEN "leave" ELSE "uncertain")
  /\ answer(r, 200)
  /\ UNCHANGED <<subject, row, used, limiters, allowed, active, cancelled, minutes>>

\* Settle, on a context of its own; only then is the answer written.
chat_settle(r) ==
  /\ at[r] = "settle"
  /\ \E done \in serializable(Settle(ledger, r, used[r])) :
       /\ callResolve(done)
       /\ step(r, "settle", IF done.result = "nil" THEN "leave" ELSE "uncertain")
       /\ answer(r, IF done.result = "nil" THEN 200 ELSE 503)
  /\ UNCHANGED <<subject, row, used, limiters, allowed, active, cancelled, minutes>>

\* The deferred finalisation.  The provider counts as contacted as soon as
\* Reserve succeeded, so it always marks and never releases.
markUsageUncertain(r) ==
  /\ step(r, "uncertain", "leave")
  /\ \E done \in serializable(MarkUncertain(ledger, r)) : callResolve(done)
  /\ UNCHANGED <<subject, row, used, status, limiters, allowed, active, cancelled, minutes>>

\* The remaining deferred calls: slot, limiter, identity lease.
chat_leave(r) ==
  /\ step(r, "leave", "done")
  /\ limiters' = [limiters EXCEPT ![subject[r]] = releaseDevice(@)]
  /\ active' = active \ {r}
  /\ UNCHANGED <<ledgerVars, subject, row, used, status, allowed, cancelled, minutes>>
-----------------------------------------------------------------------------
\* A window of one minute passes for every device.
Minute ==
  /\ minutes < MaxMinutes
  /\ minutes' = minutes + 1
  /\ limiters' = [s \in Subjects |-> [limiters[s] EXCEPT !.fresh = FALSE]]
  /\ UNCHANGED <<ledgerVars, at, subject, row, used, status, allowed, active, cancelled>>

\* The process dies and is restarted: memory is lost, the ledger and whatever
\* the provider did are not.
Crash ==
  /\ \E r \in Ids : at[r] \notin Final \cup {"idle"}
  /\ at' = [r \in Ids |-> IF at[r] \in Final \cup {"idle"} THEN at[r] ELSE "lost"]
  /\ limiters' = [s \in Subjects |-> [requests |-> 0, inflight |-> FALSE, fresh |-> FALSE]]
  /\ active' = {} /\ cancelled' = {}
  /\ UNCHANGED <<ledgerVars, subject, row, used, status, allowed, minutes>>

Handler(r) ==
  \/ chat_acquire(r) \/ chat_refuse(r) \/ chat_leave(r)
  \/ \E p \in Profiles, rate \in Rates, l \in Limits : chat_reserve(r, p, rate, l)
  \/ chat_answered(r) \/ chat_failed(r) \/ chat_settle(r) \/ markUsageUncertain(r)

Next ==
  \/ \E r \in Ids : Handler(r) \/ Provider(r) \/ \E s \in Subjects : chat_admit(r, s)
  \/ \E s \in Subjects : Snapshot(s)
  \/ Reconcile \/ Minute \/ Crash
  \/ Clock /\ UNCHANGED proxyVars

Spec == Init /\ [][Next]_vars
-----------------------------------------------------------------------------
\* The handler's places fit what it holds: an identity lease from admission to
\* return unless revoked, a stored reservation from Reserve on (chat).
TypeOK ==
  /\ LedgerTypeOK
  /\ at \in [Ids -> Start \cup Inside \cup Final]
  /\ subject \in [Ids -> Subjects \cup {Nobody}]
  /\ status \in [Ids -> {0, 200, 400, 401, 429, 502, 503}]
  /\ limiters \in [Subjects -> [requests : 0 .. MaxRequestsMinute, inflight : BOOLEAN, fresh : BOOLEAN]]
  /\ active \cup cancelled \subseteq {r \in Ids : at[r] # "idle"}

\* acquireDevice and the deferred releaseDevice: a device is marked in flight
\* exactly while one request of it is inside, on every path out of the handler;
\* a leaked mark would refuse the device for ever.
InflightIsHeld ==
  \A s \in Subjects :
    LET inside == {r \in Ids : at[r] \in Inside /\ subject[r] = s} IN
    limiters[s].inflight <=> Cardinality(inside) = 1

Price(r) == reservationCost(ledger.rate[row[r].profile], used[r])
Sent(k) == {r \in Ids : row[r] # NoRow /\ row[r].key = k /\ used[r] # None}

\* Reserve before contact, then Settle or MarkUncertain: what the provider used
\* for an owner's requests of a day, up to the limits it was given, stays covered
\* by the owner's committed, uncertain or reserved amounts across failures, lost
\* commits, expiry and crashes; nothing that reached the provider is refunded.
SpendIsCovered ==
  \A k \in Keys :
    MapThenSumSet(LAMBDA r : IF Price(r) \in 0 .. row[r].cost THEN Price(r) ELSE row[r].cost, Sent(k))
      <= ledger.committed[k] + ledger.uncertain[k] + ledger.reserved[k]

HighestPrice == Max({reservationCost(rate, l) : rate \in Rates, l \in Limits})

\* A request is charged at most once: an owner's day never holds more than the
\* prices of its reservations, although a lost COMMIT makes chat try
\* MarkUncertain after Settle.  An identifier drawn by a Reserve whose
\* outcome was lost may be on the books too.
ChargedAtMostOnce ==
  \A k \in Keys :
    LET known == {r \in Ids : row[r] # NoRow /\ row[r].key = k}
        unknown == {r \in drawn : row[r] = NoRow /\ subject[r] = k[2]}
    IN  ledger.committed[k] + ledger.uncertain[k] + ledger.reserved[k]
          <= MapThenSumSet(LAMBDA r : row[r].cost, known) + Cardinality(unknown) * HighestPrice

\* Settle before WriteHeader(200): the device gets an answer only for usage that
\* is committed at its price.
AnswersAreCommitted ==
  \A k \in Keys :
    MapThenSumSet(Price, {r \in Sent(k) : status[r] = 200}) <= ledger.committed[k]
=============================================================================
