--------------------------- MODULE DeviceIdentity ----------------------------
(***************************************************************************)
(* The signed device registry (internal/provisioning): snapshots a         *)
(* publisher signs, the reloader of one replica that fetches them over an  *)
(* endpoint which may serve an old one, and the device proofs that replica *)
(* authorizes against the registry and the shared nonce table of           *)
(* internal/runtimecoordination, up to the token it issues.                *)
(*                                                                         *)
(* A proof is identified by its nonce.  A device signs with the secret of  *)
(* some snapshot; the signature is the number of that secret.  The clocks  *)
(* of the replica and the database agree; a database transaction carries   *)
(* the time it began, up to Lag before it commits.                         *)
(***************************************************************************)
EXTENDS Integers, FiniteSets

CONSTANTS
  Requests,      \* authorize calls
  Nonces,        \* proofs: a nonce is signed once, with one timestamp
  Secrets,       \* secrets a device may have
  Stamp,         \* the timestamp in each proof: [Nonces -> time]
  MaxRevision, MaxDocs, \* bounds on the snapshots published
  Validity,      \* valid_until - issued_at
  Skew,          \* maxSkew
  MinInterval,   \* minInterval
  MaximumNonces, \* maximumNonces
  Lag,           \* operationTimeout of the coordinator
  MaxTime        \* bound on the clock

IdentityBounds ==
  /\ Stamp \in [Nonces -> Nat]
  /\ MaxRevision \in Nat \ {0} /\ MaxDocs \in Nat \ {0} /\ Validity \in Nat \ {0} /\ Skew \in Nat
  /\ MinInterval \in Nat /\ MaximumNonces \in Nat \ {0} /\ Lag \in Nat /\ MaxTime \in Nat

VARIABLES
  now,
  published,   \* every snapshot that was signed
  registry,    \* the snapshot the replica uses
  etag,        \* the snapshot the reloader's ETag names
  nonces,      \* proof_nonces: expiry per nonce of the device, 0 when absent
  limit,       \* proof_limits: [last, expires], last 0 when never accepted
  pc, call,    \* per request: where authorize is, and what it read
  accepted     \* history: [nonce, at, time, doc] of the proofs accepted

vars == <<now, published, registry, etag, nonces, limit, pc, call, accepted>>

Disabled == "disabled"
\* A snapshot: what it says of the device, and its validity.
Docs == [revision : 1 .. MaxRevision, device : Secrets \cup {Disabled}, issued : Nat]
Until(doc) == doc.issued + Validity
NoLimit == [last |-> 0, expires |-> 0]
\* A call that has not read anything yet, or has returned.
NoCall == [nonce |-> CHOOSE n \in Nonces : TRUE, from |-> 0, at |-> 0,
           doc |-> [revision |-> 0, device |-> Disabled, issued |-> 0]]

Init ==
  /\ now = 1
  /\ \E s \in Secrets :
       LET doc == [revision |-> 1, device |-> s, issued |-> 1] IN
       /\ published = {doc}
       /\ registry = doc /\ etag = doc
  /\ call = [r \in Requests |-> NoCall]
  /\ nonces = [n \in Nonces |-> 0]
  /\ limit = NoLimit
  /\ pc = [r \in Requests |-> "idle"]
  /\ accepted = {}
-----------------------------------------------------------------------------
\* SignRegistrySnapshot: the publisher signs what it wants; a mistake may sign
\* two snapshots with one revision.
SignRegistrySnapshot(revision, device) ==
  /\ Cardinality(published) < MaxDocs
  /\ \A doc \in published : doc.revision <= revision
  /\ published' = published \cup {[revision |-> revision, device |-> device, issued |-> now]}
  /\ UNCHANGED <<now, registry, etag, nonces, limit, pc, call, accepted>>

\* ParseSignedRegistrySnapshot: expired snapshots are refused.
validateSnapshotPayload(doc) == Until(doc) > now

ApplySnapshot(doc) ==
  IF doc.revision < registry.revision THEN "ErrSnapshotRollback"
  ELSE IF doc.revision > registry.revision THEN "changed"
  ELSE IF doc = registry THEN "same" ELSE "ErrSnapshotEquivocation"

\* Mutant: the ETag of a snapshot is kept although it was refused.
reload_mutant(doc) ==
  /\ doc # etag /\ validateSnapshotPayload(doc)
  /\ registry' = IF ApplySnapshot(doc) = "changed" THEN doc ELSE registry
  /\ etag' = doc
  /\ UNCHANGED <<now, published, nonces, limit, pc, call, accepted>>

\* One poll: the endpoint serves some published snapshot.  When it is the one
\* the ETag names the answer is 304 and nothing changes.
reload(doc) ==
  LET applied == ApplySnapshot(doc) IN
  /\ doc # etag /\ validateSnapshotPayload(doc)
  /\ registry' = IF applied = "changed" THEN doc ELSE registry
  /\ etag' = IF applied \in {"changed", "same"} THEN doc ELSE etag
  /\ UNCHANGED <<now, published, nonces, limit, pc, call, accepted>>


readyLocked == now < Until(registry)
-----------------------------------------------------------------------------
Goto(r, label) == pc' = [pc EXCEPT ![r] = label]
Return(r, result) == Goto(r, result) /\ call' = [call EXCEPT ![r] = NoCall]

\* authorize up to the reservation: lookupVersioned, the signature, the skew.
authorize(r, n, secret) ==
  /\ pc[r] = "idle"
  /\ IF /\ readyLocked /\ registry.device = secret
        /\ Stamp[n] >= now - Skew /\ Stamp[n] <= now + Skew
       THEN /\ Goto(r, "reserve")
            /\ call' = [call EXCEPT ![r] = [nonce |-> n, from |-> now, at |-> 0, doc |-> registry]]
       ELSE Return(r, "refused")
  /\ UNCHANGED <<now, published, registry, etag, nonces, limit, accepted>>

\* Mutant: nonces are kept for one skew.
Retained_mutant(t) == t + Skew

Retained(t) == t + 2 * Skew

\* The two DELETEs, and the limit row inserted if missing.
SweptNonces(t) == [n \in Nonces |-> IF nonces[n] <= t THEN 0 ELSE nonces[n]]

retention == IF MinInterval > 2 * Skew THEN MinInterval ELSE 2 * Skew

LimitExpiry(t) == t + retention

SweptLimit(t) ==
  IF limit.expires <= t THEN [last |-> 0, expires |-> LimitExpiry(t)] ELSE limit

full(table) == Cardinality({n \in Nonces : table[n] # 0}) >= MaximumNonces

\* ReserveProof, committed.  ok: nil is returned.
ReserveProof(r, t, ok) ==
  LET n == call[r].nonce table == SweptNonces(t) row == SweptLimit(t)
      cadence == row.last # 0 /\ t - row.last < MinInterval
  IN
  \/ /\ table[n] # 0 \/ full(table)              \* ErrReplay, ErrRateLimited
     /\ nonces' = table /\ limit' = row /\ ok = FALSE
  \/ /\ ~(table[n] # 0 \/ full(table))
     /\ nonces' = [table EXCEPT ![n] = Retained(t)]
     /\ limit' = [last |-> IF cadence THEN row.last ELSE t, expires |-> LimitExpiry(t)]
     /\ ok = ~cadence

\* The reservation of authorize: it commits and is answered, commits and the
\* answer is lost, or does not commit.
reserve(r, t) ==
  /\ pc[r] = "reserve"
  /\ t \in {u \in call[r].from .. now : now - u <= Lag}
  /\ \/ /\ ReserveProof(r, t, TRUE)
        /\ Goto(r, "recheck")
        /\ call' = [call EXCEPT ![r].at = t]
     \/ /\ \E ok \in BOOLEAN : ReserveProof(r, t, ok)
        /\ Return(r, "refused")
     \/ /\ UNCHANGED <<nonces, limit>>
        /\ Return(r, "refused")
  /\ UNCHANGED <<now, published, registry, etag, accepted>>

\* Mutant: the revision is not compared.
stillAllowedAtRevision_mutant(r) == readyLocked /\ registry.device # Disabled

stillAllowedAtRevision(r) ==
  /\ readyLocked
  /\ registry.revision = call[r].doc.revision
  /\ registry.device # Disabled

\* The last check of authorize.
recheck(r) ==
  /\ pc[r] = "recheck"
  /\ IF stillAllowedAtRevision(r)
       THEN /\ Goto(r, "owner")
            /\ accepted' = accepted \cup
                 {[req |-> r, nonce |-> call[r].nonce, at |-> call[r].at, time |-> now,
                   doc |-> call[r].doc]}
            /\ UNCHANGED call
       ELSE Return(r, "refused") /\ UNCHANGED accepted
  /\ UNCHANGED <<now, published, registry, etag, nonces, limit>>

\* session, authorizeAndIssue: the owner is looked up, then the token is issued
\* under the registry's read lock.
Issue(r) ==
  /\ pc[r] = "owner"
  /\ \/ readyLocked /\ registry.device # Disabled /\ Return(r, "issued")
     \/ Return(r, "refused")
  /\ UNCHANGED <<now, published, registry, etag, nonces, limit, accepted>>

Tick ==
  /\ now < MaxTime
  /\ now' = now + 1
  /\ UNCHANGED <<published, registry, etag, nonces, limit, pc, call, accepted>>

Next ==
  \/ \E revision \in 1 .. MaxRevision, d \in Secrets \cup {Disabled} :
       SignRegistrySnapshot(revision, d)
  \/ \E doc \in published : reload(doc)
  \/ \E r \in Requests :
       \/ \E n \in Nonces, s \in Secrets : authorize(r, n, s)
       \/ \E t \in 0 .. now : reserve(r, t)
       \/ recheck(r)
       \/ Issue(r)
  \/ Tick

Spec == Init /\ [][Next]_vars
-----------------------------------------------------------------------------
TypeOK ==
  /\ now \in 1 .. MaxTime + 1
  /\ published \subseteq Docs
  /\ registry \in published /\ etag \in published
  /\ nonces \in [Nonces -> Nat]
  /\ limit \in [last : Nat, expires : Nat]
  /\ pc \in [Requests -> {"idle", "reserve", "recheck", "owner", "issued", "refused"}]
  /\ call \in [Requests -> [nonce : Nonces, from : Nat, at : Nat,
                            doc : published \cup {NoCall.doc}]]
  /\ accepted \subseteq [req : Requests, nonce : Nonces, at : Nat, time : Nat, doc : published]

\* reload: the ETag always names the snapshot the registry uses, so a 304 never
\* hides a snapshot that was not applied.
EtagIsApplied == etag = registry

\* ApplySnapshot: whatever the endpoint serves, a replica never goes back to an
\* older snapshot nor from one to another of the same revision.
RevisionGrows == registry' = registry \/ registry'.revision > registry.revision

\* authorize: a proof is accepted only if the snapshot whose secret verified it
\* is the one in force when authorize returns; a new revision that arrives
\* during the reservation voids it.
AcceptanceIsCurrent ==
  \A a \in accepted' \ accepted :
    a.doc = registry /\ a.doc.device # Disabled /\ now < Until(a.doc)


\* ReserveProof: two acceptances of one proof are at least the width of its
\* timestamp window apart, whatever the order and delay of the transactions.
ReplaysAreRefused ==
  \A a, b \in accepted : a.req # b.req /\ a.nonce = b.nonce =>
    a.at - b.at >= 2 * Skew \/ b.at - a.at >= 2 * Skew

\* ReserveProof: accepted proofs are at least MinInterval apart, although the
\* row that remembers the last one expires and may be deleted, as long as
\* nonces are kept longer than the interval and a transaction take together.
CadenceHolds ==
  MinInterval + Lag <= 2 * Skew =>
    \A a, b \in accepted : a.req # b.req =>
      a.at - b.at >= MinInterval \/ b.at - a.at >= MinInterval

\* ReserveProof: the nonces kept for a device stay within MaximumNonces.
NoncesAreBounded == Cardinality({n \in Nonces : nonces[n] # 0}) <= MaximumNonces
=============================================================================
