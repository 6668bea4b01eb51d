--------------------------- MODULE RuntimeLeases ----------------------------
(***************************************************************************)
(* The lease table of internal/runtimecoordination (PostgreSQL), shared by *)
(* every gateway and Agent proxy replica: one voice connection and one     *)
(* Agent request per device across replicas, a global bound for each kind, *)
(* and a rate of Agent requests per device.  A transaction may commit and  *)
(* its answer be lost; one that rolls back changes nothing and is a        *)
(* stuttering step.  CURRENT_TIMESTAMP is the time a transaction began,    *)
(* which may be Lag earlier than the moment it gets the guard row.  "held" *)
(* is what the workers believe: the Lease values their calls returned.     *)
(***************************************************************************)
EXTENDS Integers, FiniteSets

CONSTANTS
  Subjects,          \* devices
  Ids,               \* lease identifiers, each random and used once
  MaxVoice, MaxAgent,\* globalMaximum of the two kinds
  PerMinute,         \* requestsPerMinute
  TTL,               \* lease time to live
  Minute,            \* length of the rate window
  Lag,               \* longest transaction: operationTimeout
  MaxTime            \* bound on the clock

ASSUME LeaseAssumption ==
  /\ MaxVoice \in Nat \ {0} /\ MaxAgent \in Nat \ {0} /\ PerMinute \in Nat \ {0}
  /\ TTL \in Nat \ {0} /\ Minute \in Nat \ {0}
  /\ Lag \in Nat /\ MaxTime \in Nat

VARIABLES
  now,        \* the database's clock
  leases,     \* runtime_coordination_leases, by its key (kind, subject)
  limits,     \* runtime_coordination_agent_limits, by subject
  drawn,      \* identifiers drawn so far
  held,       \* per identifier: the Lease its worker holds, and when its last call returned
  grants      \* history: per subject, [id, time] of the Agent requests accepted

vars == <<now, leases, limits, drawn, held, grants>>

Kinds == {"voice", "agent"}
Keys == Kinds \X Subjects
NoId == "none"                      \* a free row, a lease nobody holds
Free == [id |-> NoId, expires |-> 0]
NoLimit == [window |-> 0, accepted |-> 0, expires |-> 0]
NoHold == [key |-> <<NoId, NoId>>, expires |-> 0, at |-> 0]
Rows == [id : Ids \cup {NoId}, expires : Nat]
Holds == [key : Keys, expires : Nat, at : Nat] \cup {NoHold}

ASSUME NoIdAssumption == NoId \notin Ids

Init ==
  /\ now = 1
  /\ leases = [k \in Keys |-> Free]
  /\ limits = [s \in Subjects |-> NoLimit]
  /\ drawn = {}
  /\ held = [id \in Ids |-> NoHold]
  /\ grants = [s \in Subjects |-> {}]
-----------------------------------------------------------------------------
\* The times a transaction that ends now, of a call made since "from", can carry.
Started(from) == {t \in from .. now : now - t <= Lag}

\* DELETE ... WHERE lease_kind = kind AND expires_at <= t.
Swept(table, kind, t) ==
  [k \in Keys |-> IF k[1] = kind /\ table[k].expires <= t THEN Free ELSE table[k]]

Active(table, kind) == {k \in Keys : k[1] = kind /\ table[k].id # NoId}

Lease(expires, id) == [id |-> id, expires |-> expires]

\* The worker keeps the Lease of a call it saw succeed.
Hold(id, k, expires, seen) ==
  held' = IF seen THEN [held EXCEPT ![id] = [key |-> k, expires |-> expires, at |-> now]] ELSE held

\* Mutant: the device's own lease is not looked for.
AcquireVoice_mutant(s, id, t, seen) ==
  LET k == <<"voice", s>> table == Swept(leases, "voice", t) IN
  /\ id \in Ids \ drawn /\ drawn' = drawn \cup {id}
  /\ \/ /\ Cardinality(Active(table, "voice")) >= MaxVoice
        /\ leases' = table
        /\ UNCHANGED held
     \/ /\ Cardinality(Active(table, "voice")) < MaxVoice
        /\ leases' = [table EXCEPT ![k] = Lease(t + TTL, id)]
        /\ Hold(id, k, t + TTL, seen)
  /\ UNCHANGED <<now, limits, grants>>

AcquireVoice(s, id, t, seen) ==
  LET k == <<"voice", s>> table == Swept(leases, "voice", t) IN
  /\ id \in Ids \ drawn /\ drawn' = drawn \cup {id}
  /\ \/ /\ table[k].id # NoId \/ Cardinality(Active(table, "voice")) >= MaxVoice
        /\ leases' = table          \* ErrConflict, ErrRateLimited: still committed
        /\ UNCHANGED held
     \/ /\ table[k].id = NoId /\ Cardinality(Active(table, "voice")) < MaxVoice
        /\ leases' = [table EXCEPT ![k] = Lease(t + TTL, id)]
        /\ Hold(id, k, t + TTL, seen)
  /\ UNCHANGED <<now, limits, grants>>

\* The agent_limits row as AcquireAgent finds it: expired rows of every device
\* deleted, its own inserted if missing, its window restarted if it is over.
LimitsSwept(t) ==
  [s \in Subjects |-> IF limits[s].expires <= t THEN NoLimit ELSE limits[s]]

InsertedLimit(l, t) ==
  IF l = NoLimit THEN [window |-> t, accepted |-> 0, expires |-> t + Minute] ELSE l


Window(l, t) ==
  IF t - l.window >= Minute THEN [window |-> t, accepted |-> 0, expires |-> l.expires] ELSE l

AgentFull(table, w) == w.accepted >= PerMinute \/ Cardinality(Active(table, "agent")) >= MaxAgent

AcquireAgent(s, id, t, seen) ==
  LET k == <<"agent", s>> table == Swept(leases, "agent", t)
      row == InsertedLimit(LimitsSwept(t)[s], t)
      w == Window(row, t)
  IN
  /\ id \in Ids \ drawn /\ drawn' = drawn \cup {id}
  /\ \/ /\ table[k].id # NoId       \* ErrConflict, before the limit row is made
        /\ leases' = table /\ limits' = LimitsSwept(t)
        /\ UNCHANGED <<held, grants>>
     \/ /\ table[k].id = NoId /\ AgentFull(table, w)
        /\ leases' = table /\ limits' = [LimitsSwept(t) EXCEPT ![s] = row]
        /\ UNCHANGED <<held, grants>>
     \/ /\ table[k].id = NoId /\ ~AgentFull(table, w)
        /\ leases' = [table EXCEPT ![k] = Lease(t + TTL, id)]
        /\ limits' = [LimitsSwept(t) EXCEPT ![s] =
             [window |-> w.window, accepted |-> w.accepted + 1, expires |-> t + Minute]]
        /\ grants' = [grants EXCEPT ![s] = @ \cup {[id |-> id, time |-> now]}]
        /\ Hold(id, k, t + TTL, seen)
  /\ UNCHANGED now

\* Mutant: the row is found by its key alone.
Owns_mutant(k, id) == leases[k].id # NoId

\* WHERE lease_kind, subject_sha256, lease_id and holder_id match.
Owns(k, id) == leases[k].id = id

Renewable(k, id, t) == Owns(k, id) /\ leases[k].expires > t

\* One UPDATE; ErrLeaseLost when it finds no row.
Renew(id, t, seen) ==
  LET k == held[id].key IN
  /\ held[id] # NoHold
  /\ \/ /\ Renewable(k, id, t)
        /\ leases' = [leases EXCEPT ![k] = Lease(t + TTL, id)]
        /\ held' = [held EXCEPT ![id].at = now,
                                ![id].expires = IF seen THEN t + TTL ELSE @]
     \/ /\ ~Renewable(k, id, t)
        /\ held' = [held EXCEPT ![id].at = now]
        /\ UNCHANGED leases
  /\ UNCHANGED <<now, limits, drawn, grants>>

\* The worker is done with the lease, whether or not the row could be deleted.
Release(id, committed) ==
  LET k == held[id].key IN
  /\ held[id] # NoHold
  /\ leases' = IF committed /\ Owns(k, id) THEN [leases EXCEPT ![k] = Free] ELSE leases
  /\ held' = [held EXCEPT ![id] = NoHold]
  /\ UNCHANGED <<now, limits, drawn, grants>>

Tick ==
  /\ now < MaxTime
  /\ now' = now + 1
  /\ UNCHANGED <<leases, limits, drawn, held, grants>>

Next ==
  \/ \E s \in Subjects, id \in Ids, t \in Started(1), seen \in BOOLEAN :
       AcquireVoice(s, id, t, seen) \/ AcquireAgent(s, id, t, seen)
  \/ \E id \in Ids : \E t \in Started(held[id].at), seen \in BOOLEAN : Renew(id, t, seen)
  \/ \E id \in Ids, committed \in BOOLEAN : Release(id, committed)
  \/ Tick

Spec == Init /\ [][Next]_vars
-----------------------------------------------------------------------------
\* Rows and beliefs name identifiers that were drawn, at one key each.
TypeOK ==
  /\ now \in Nat /\ now >= 1
  /\ leases \in [Keys -> Rows]
  /\ limits \in [Subjects -> [window : Nat, accepted : 0 .. PerMinute, expires : Nat]]
  /\ drawn \in SUBSET Ids
  /\ held \in [Ids -> Holds]
  /\ grants \in [Subjects -> SUBSET [id : Ids, time : Nat]]

\* AcquireVoice, AcquireAgent, Renew, Release: two workers never hold unexpired
\* leases for one device at the same time, although a worker may have lost the
\* answer of any of its calls.
HoldersExclude ==
  \A a, b \in Ids :
    (/\ held[a] # NoHold /\ held[b] # NoHold /\ held[a].key = held[b].key
     /\ held[a].expires > now /\ held[b].expires > now) => a = b

\* The lease a worker holds is backed by the table until the time the worker
\* knows: no call of another worker cuts it short.
HeldIsStored ==
  \A id \in Ids : held[id] # NoHold /\ held[id].expires > now =>
    /\ leases[held[id].key].id = id
    /\ leases[held[id].key].expires >= held[id].expires

\* A live row leaves the table only when the worker that holds it releases it:
\* the lease_id fences late calls of earlier holders.
LiveRowsAreFenced ==
  [][\A k \in Keys : LET id == leases[k].id IN
       id # NoId /\ leases[k].expires > now /\ leases'[k].id # id
         => held[id] # NoHold /\ held'[id] = NoHold]_vars

\* AcquireVoice and AcquireAgent: the live leases of a kind stay within its
\* global maximum.
GlobalBound ==
  \A kind \in Kinds :
    Cardinality({k \in Keys : k[1] = kind /\ leases[k].id # NoId /\ leases[k].expires > now})
      <= IF kind = "voice" THEN MaxVoice ELSE MaxAgent

\* AcquireAgent: neither windows that restart, nor limit rows deleted once they
\* expire, nor transactions that carry an early time let a device exceed twice
\* its rate within a minute less the time two transactions may take.
RateBound ==
  \A s \in Subjects : \A from \in 1 .. now :
    Cardinality({g \in grants[s] : g.time >= from /\ g.time < from + Minute - 2 * Lag})
      <= 2 * PerMinute
=============================================================================
