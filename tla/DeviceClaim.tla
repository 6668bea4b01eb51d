---------------------------- MODULE DeviceClaim -----------------------------
(***************************************************************************)
(* The ownership store of internal/deviceclaim on PostgreSQL: an account   *)
(* opens a claim with the code a device shows (Begin), the device confirms *)
(* it (Confirm), the owner gives the device up (Release).  Each operation  *)
(* is one SERIALIZABLE transaction that holds the advisory locks of its    *)
(* device and code; one that ends in an error is rolled back, the row of   *)
(* its nonce included, and is a stuttering step.  Its time is the time it  *)
(* began, at most Lag before it commits.  An account stands for a tenant   *)
(* with a user, which are always compared together; a code stands for its  *)
(* digest and for the request id drawn with it.                            *)
(***************************************************************************)
EXTENDS Integers, FiniteSets

CONSTANTS
  Accounts, Devices, Codes, Nonces,
  Nobody,        \* the account of a device that was never bound
  TTL,           \* life of a claim and of a nonce
  MaxRecords,    \* unexpired claims
  MaxRevision,   \* auth.MaximumBindingRevision
  Lag,           \* operationTimeout
  MaxTime        \* bound on the clock

ClaimBounds ==
  /\ Nobody \notin Accounts
  /\ {TTL, MaxRecords, MaxRevision} \subseteq Nat \ {0} /\ {Lag, MaxTime} \subseteq Nat

VARIABLES
  now,      \* the database's clock
  owners,   \* device_owners; revision 0: no row
  claims,   \* ownership_claims, by code
  nonces,   \* expiry of ownership_app_nonces, by account and nonce; 0: no row
  events,   \* device_ownership_events
  drawn     \* binding ids drawn so far: 1 .. drawn

claimVars == <<owners, claims, nonces, events, drawn>>

NoOwner == [account |-> Nobody, binding |-> 0, revision |-> 0, active |-> FALSE]
NoClaim == [account |-> Nobody, device |-> Nobody, status |-> "none", expires |-> 0]

ClaimInit ==
  /\ owners = [d \in Devices |-> NoOwner]
  /\ claims = [c \in Codes |-> NoClaim]
  /\ nonces = [k \in Accounts \X Nonces |-> 0]
  /\ events = {} /\ drawn = 0
-----------------------------------------------------------------------------
\* The times a transaction that commits now can carry.
TransactionTimes == {t \in 1 .. now : now - t <= Lag}

Unexpired(t) == {c \in Codes : claims[c].expires > t}

OwnedByOther(d, a) == owners[d].active /\ owners[d].account # a

\* UNIQUE (device_id, binding_revision).
EventIsNew(d, revision) == \A e \in events : e.device # d \/ e.revision # revision

Event(type, d, o) ==
  [type |-> type, device |-> d, account |-> o.account, binding |-> o.binding,
   revision |-> o.revision]

\* A code that is known is answered again only to the account and for the device
\* that opened it, and not once it has expired.
Begin(a, d, c, n, t) ==
  /\ nonces[<<a, n>>] <= t                      \* else ErrReplay
  /\ nonces' = [nonces EXCEPT ![<<a, n>>] = t + TTL]
  /\ \/ /\ claims[c].account = a /\ claims[c].device = d /\ claims[c].expires > t
        /\ UNCHANGED claims
     \/ /\ claims[c] = NoClaim
        /\ ~OwnedByOther(d, a)                  \* else ErrConflict
        /\ Cardinality(Unexpired(t)) < MaxRecords
        /\ claims' = [claims EXCEPT ![c] =
             [account |-> a, device |-> d, status |-> "pending", expires |-> t + TTL]]
  /\ UNCHANGED <<now, owners, events, drawn>>

\* Mutant: every confirmation draws a binding.
Bound_mutant(o, a) ==
  [account |-> a, binding |-> drawn + 1, revision |-> o.revision + 1, active |-> TRUE]

\* The row of a confirmed device: its binding is kept while it is active.
Bound(o, a) ==
  IF o.active THEN o
  ELSE [account |-> a, binding |-> drawn + 1, revision |-> o.revision + 1, active |-> TRUE]

MayConfirm(d, r, t) ==
  /\ r # NoClaim /\ r.device = d /\ r.expires > t
  /\ ~OwnedByOther(d, r.account)
  /\ owners[d].revision < MaxRevision

\* The bind event is written only with the first confirmation of a claim.
Confirm(d, c, t) ==
  LET r == claims[c] o == Bound(owners[d], r.account)
      created == o.binding # owners[d].binding
      logged == created /\ r.status # "bound"
  IN
  /\ MayConfirm(d, r, t)
  /\ logged => EventIsNew(d, o.revision)
  /\ owners' = [owners EXCEPT ![d] = o]
  /\ drawn' = IF created THEN drawn + 1 ELSE drawn
  /\ claims' = [claims EXCEPT ![c].status = "bound"]
  /\ events' = IF logged THEN events \cup {Event("bind", d, o)} ELSE events
  /\ UNCHANGED <<now, nonces>>

Released(o) == [o EXCEPT !.revision = @ + 1, !.active = FALSE]

Release(a, d) ==
  LET o == Released(owners[d]) IN
  /\ owners[d].account = a /\ owners[d].active /\ owners[d].revision < MaxRevision
  /\ EventIsNew(d, o.revision)
  /\ owners' = [owners EXCEPT ![d] = o]
  /\ events' = events \cup {Event("release", d, o)}
  /\ UNCHANGED <<now, claims, nonces, drawn>>

Prune(t) ==
  /\ nonces' = [k \in DOMAIN nonces |-> IF nonces[k] <= t THEN 0 ELSE nonces[k]]
  /\ claims' = [c \in Codes |-> IF claims[c].expires + TTL <= t THEN NoClaim ELSE claims[c]]
  /\ UNCHANGED <<now, owners, events, drawn>>

ClaimStep ==
  \E t \in TransactionTimes, d \in Devices :
    \/ \E c \in Codes : \/ \E a \in Accounts, n \in Nonces : Begin(a, d, c, n, t)
                        \/ Confirm(d, c, t)
    \/ \E a \in Accounts : Release(a, d)
    \/ Prune(t)

Tick == now < MaxTime /\ now' = now + 1 /\ UNCHANGED claimVars

Init == now = 1 /\ ClaimInit
Next == ClaimStep \/ Tick
Spec == Init /\ [][Next]_<<now, claimVars>>
-----------------------------------------------------------------------------
ClaimTypeOK ==
  /\ \A d \in Devices :
       owners[d] = NoOwner \/ owners[d] \in
         [account : Accounts, binding : 1 .. drawn, revision : 1 .. MaxRevision, active : BOOLEAN]
  /\ \A c \in Codes :
       claims[c] = NoClaim \/ claims[c] \in
         [account : Accounts, device : Devices, status : {"pending", "bound"}, expires : Nat]
  /\ \A k \in DOMAIN nonces : nonces[k] \in Nat

\* Release and Confirm move a device to a higher revision whenever its owner, its
\* binding or its being owned changes, and never from one owner to another without
\* a release: a token of an earlier binding can be told by its revision alone.
BindingEpochs ==
  \A d \in Devices : owners'[d] # owners[d] =>
    /\ owners'[d].revision > owners[d].revision
    /\ owners[d].active => ~owners'[d].active /\ owners'[d].account = owners[d].account

\* ENGINEERING_LOG.md on the lifecycle: "Successful rebind creates a new opaque
\* binding ID at revision 3 and appends a new bind event".
BindingsAreLogged ==
  \A d \in Devices : owners[d].active => Event("bind", d, owners[d]) \in events
=============================================================================
