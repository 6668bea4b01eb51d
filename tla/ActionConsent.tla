--------------------------- MODULE ActionConsent ----------------------------
(***************************************************************************)
(* Consent to one action of a device, internal/actionconsent on PostgreSQL *)
(* next to the ownership tables: the device registers a challenge, the     *)
(* owner's App decides it, the device consumes the decision.  With each    *)
(* challenge an entry of a wake outbox is written, which workers lease to  *)
(* send a push to the owner's App.  Every operation is one SERIALIZABLE    *)
(* transaction that reads the ownership row itself; an error rolls all of  *)
(* it back.  Sessions, request ids and the action, which a caller must     *)
(* repeat exactly, are part of the challenge.  The clock starts at 1, so   *)
(* that a row of the outbox differs from none.                             *)
(***************************************************************************)
EXTENDS DeviceClaim, Sequences

CONSTANTS
  Challenges,      \* challenge ids, random
  Keys,            \* (session, request) of a device
  Workers,
  NoKey, NoWorker,
  MaxLife,         \* MaximumLifetime
  MaxChallenges,   \* maxRecords
  WakeLease, RetryAfter,
  MaxAttempts      \* maximumWakeAttempts

ConsentBounds ==
  /\ ClaimBounds /\ NoKey \notin Keys /\ NoWorker \notin Workers
  /\ {MaxLife, MaxChallenges, WakeLease, MaxAttempts} \subseteq Nat \ {0} /\ RetryAfter \in Nat

VARIABLES
  challenges,   \* action_consent_challenges; binding is history: the one it was registered under
  wakes,        \* action_consent_wake_outbox, by challenge
  workers,      \* where RunOnce of a worker is, and the wake it claimed
  woken,        \* history: challenges whose push was taken, or given up
  answered      \* history: the answers Consume gave, and the binding in force then

consentVars == <<challenges, wakes, workers, woken, answered>>
vars == <<now, claimVars, consentVars>>

NoChallenge ==
  [device |-> Nobody, key |-> NoKey, account |-> Nobody, revision |-> 0, binding |-> 0,
   expires |-> 0, decision |-> "none", consumed |-> FALSE]
NoWake == [available |-> 0, attempts |-> 0, by |-> NoWorker, lease |-> 0]
Idle == [at |-> "idle", wake |-> NoKey, since |-> 0, lease |-> 0]

ConsentInit ==
  /\ challenges = [c \in Challenges |-> NoChallenge]
  /\ wakes = [c \in Challenges |-> NoWake]
  /\ workers = [w \in Workers |-> Idle]
  /\ woken = {} /\ answered = <<>>

Registered == {c \in Challenges : challenges[c] # NoChallenge}

Queued == {c \in Challenges : wakes[c] # NoWake}      \* the rows of the outbox
-----------------------------------------------------------------------------
\* Mutant: an owner is known by the account alone.
OwnerIsCurrent_mutant(r) ==
  owners[r.device].active /\ owners[r.device].account = r.account

\* selectCurrentOwner still answers the binding the challenge was registered for.
OwnerIsCurrent(r) ==
  /\ owners[r.device].active
  /\ owners[r.device].account = r.account /\ owners[r.device].revision = r.revision

Register(c, d, k, expires, t) ==
  LET o == owners[d] IN
  /\ expires - t \in 1 .. MaxLife
  /\ o.active                                              \* else ErrConflict
  /\ Cardinality({x \in Registered : challenges[x].expires > t /\ ~challenges[x].consumed})
       < MaxChallenges                                     \* else ErrCapacity
  /\ c \notin Registered                                   \* the PRIMARY KEY
  /\ \A x \in Registered : challenges[x].device # d \/ challenges[x].key # k
  /\ challenges' = [challenges EXCEPT ![c] =
       [NoChallenge EXCEPT !.device = d, !.key = k, !.account = o.account,
          !.revision = o.revision, !.binding = o.binding, !.expires = expires]]
  /\ wakes' = [wakes EXCEPT ![c] = [NoWake EXCEPT !.available = t]]
  /\ UNCHANGED <<now, claimVars, workers, woken, answered>>

\* The App's request repeats the challenge; its actor is the token's account.
Decide(c, a, decision, t) ==
  LET r == challenges[c] IN
  /\ c \in Registered /\ r.decision = "none" /\ r.expires > t
  /\ OwnerIsCurrent(r) /\ a = r.account
  /\ challenges' = [challenges EXCEPT ![c].decision = decision]
  /\ UNCHANGED <<now, claimVars, wakes, workers, woken, answered>>

MayConsume(r, t) ==
  /\ r.expires > t /\ ~r.consumed            \* else ErrExpired, ErrReplay
  /\ OwnerIsCurrent(r)                       \* else ErrConflict
  /\ r.decision # "none"                     \* else ErrPending

\* The device acts on the answer, unless the answer is lost.
Consume(c, t, seen) ==
  LET r == challenges[c] IN
  /\ c \in Registered /\ MayConsume(r, t)
  /\ challenges' = [challenges EXCEPT ![c].consumed = TRUE]
  /\ answered' = IF seen
       THEN Append(answered, [id |-> c, binding |-> owners[r.device].binding, decision |-> r.decision])
       ELSE answered
  /\ UNCHANGED <<now, claimVars, wakes, workers, woken>>
-----------------------------------------------------------------------------
\* The DELETE that begins ClaimWake.
Swept(t) ==
  [c \in Challenges |->
     IF challenges[c].expires <= t \/ challenges[c].decision # "none" THEN NoWake ELSE wakes[c]]

\* Mutant: a wake is taken whoever holds it.
Claimable_mutant(x, t) == x # NoWake /\ x.available <= t

Claimable(x, t) == x # NoWake /\ x.available <= t /\ (x.by = NoWorker \/ x.lease <= t)

\* Mutant: one attempt more than the column allows.
Exhausted_mutant(x) == x.attempts > MaxAttempts

Exhausted(x) == x.attempts >= MaxAttempts

\* The earliest entry that no other transaction has locked (SKIP LOCKED): any of
\* them.  With none the transaction fails and what it swept comes back.
ClaimWake(w, c, t, seen) ==
  LET x == Swept(t)[c] IN
  /\ workers[w] = Idle /\ Claimable(x, t)
  /\ \/ /\ Exhausted(x)
        /\ wakes' = [Swept(t) EXCEPT ![c] = NoWake]
        /\ woken' = woken \cup {c}
        /\ UNCHANGED workers
     \/ /\ ~Exhausted(x)
        /\ wakes' = [Swept(t) EXCEPT ![c] =
             [x EXCEPT !.by = w, !.lease = t + WakeLease, !.attempts = @ + 1]]
        /\ workers' = [workers EXCEPT ![w] =
             IF seen THEN [at |-> "send", wake |-> c, since |-> now, lease |-> t + WakeLease] ELSE Idle]
        /\ UNCHANGED woken
  /\ UNCHANGED <<now, claimVars, challenges, answered>>

\* External: the provider takes the push, knows no installation, or asks for a retry.
SendWake(w, taken) ==
  LET c == workers[w].wake IN
  /\ workers[w].at = "send"
  /\ workers' = [workers EXCEPT ![w].at = IF taken THEN "acknowledge" ELSE "retry"]
  /\ woken' = IF taken THEN woken \cup {c} ELSE woken
  /\ UNCHANGED <<now, claimVars, challenges, wakes, answered>>

Holds(w, c, t) == wakes[c].by = w /\ wakes[c].lease > t

\* An entry that has expired, or whose retry would come too late, is deleted and
\* ErrExpired returned, which rolls the deletion back.
AcknowledgeWake(w, t) ==
  LET c == workers[w].wake IN
  /\ workers[w].at = "acknowledge" /\ t >= workers[w].since
  /\ wakes' = IF Holds(w, c, t) /\ challenges[c].expires > t
              THEN [wakes EXCEPT ![c] = NoWake] ELSE wakes
  /\ workers' = [workers EXCEPT ![w] = Idle]
  /\ UNCHANGED <<now, claimVars, challenges, woken, answered>>

RetryWake(w, t) ==
  LET c == workers[w].wake IN
  /\ workers[w].at = "retry" /\ t >= workers[w].since
  /\ wakes' = IF Holds(w, c, t) /\ challenges[c].expires > t + RetryAfter
              THEN [wakes EXCEPT ![c].available = t + RetryAfter, ![c].by = NoWorker, ![c].lease = 0]
              ELSE wakes
  /\ workers' = [workers EXCEPT ![w] = Idle]
  /\ UNCHANGED <<now, claimVars, challenges, woken, answered>>

\* The worker's process dies, or the database does not answer it.
WorkerFails(w) ==
  /\ workers[w] # Idle
  /\ workers' = [workers EXCEPT ![w] = Idle]
  /\ UNCHANGED <<now, claimVars, challenges, wakes, woken, answered>>

ConsentStep ==
  \E c \in Challenges, t \in TransactionTimes :
    \/ \E d \in Devices, k \in Keys, e \in t + 1 .. t + MaxLife : Register(c, d, k, e, t)
    \/ \E a \in Accounts, decision \in {"approve", "deny"} : Decide(c, a, decision, t)
    \/ \E seen \in BOOLEAN : Consume(c, t, seen)

WakeStep ==
  \E w \in Workers :
    \/ \E t \in TransactionTimes :
         \/ \E c \in Challenges, seen \in BOOLEAN : ClaimWake(w, c, t, seen)
         \/ AcknowledgeWake(w, t) \/ RetryWake(w, t)
    \/ \E taken \in BOOLEAN : SendWake(w, taken)
    \/ WorkerFails(w)

ConsentSpecNext ==
  \/ ClaimStep /\ UNCHANGED consentVars
  \/ ConsentStep \/ WakeStep
  \/ Tick /\ UNCHANGED consentVars
-----------------------------------------------------------------------------
ConsentTypeOK ==
  /\ ClaimTypeOK
  /\ \A c \in Challenges : challenges[c] = NoChallenge \/ challenges[c] \in
       [device : Devices, key : Keys, account : Accounts, revision : 1 .. MaxRevision,
        binding : 1 .. drawn, expires : Nat, decision : {"none", "approve", "deny"},
        consumed : BOOLEAN]
  /\ \A c \in Challenges : wakes[c] = NoWake \/ wakes[c] \in
       [available : Nat, attempts : 0 .. MaxAttempts, by : Workers \cup {NoWorker}, lease : Nat]
  /\ \A c \in Challenges : wakes[c] # NoWake => c \in Registered

\* Consume answers a challenge once, with the decision of the account that held
\* the device when it was registered, and while that very binding is in force:
\* a device released and bound again, to the same account even, starts anew.
ConsentIsOfTheBinding ==
  \A i \in 1 .. Len(answered) :
    /\ answered[i].binding = challenges[answered[i].id].binding
    /\ answered[i].decision = challenges[answered[i].id].decision
    /\ \A j \in 1 .. Len(answered) : answered[j].id = answered[i].id => j = i

\* The outbox: as long as a challenge can be decided its wake is queued, unless a
\* provider has taken it or it was tried MaxAttempts times; workers that die,
\* lose answers or outlive their lease do not lose it.
WakesAreKept ==
  \A c \in Registered :
    challenges[c].expires > now /\ challenges[c].decision = "none" =>
      wakes[c] # NoWake \/ c \in woken

\* ClaimWake: two workers send one wake only after the lease of one has run out.
OneSender ==
  \A v, w \in Workers :
    (/\ v # w /\ workers[v].at = "send" /\ workers[w].at = "send"
     /\ workers[v].wake = workers[w].wake) =>
       workers[v].lease <= now \/ workers[w].lease <= now
=============================================================================
