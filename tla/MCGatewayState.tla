--------------------------- MODULE MCGatewayState ---------------------------
(***************************************************************************)
(* What the gateway's replicas share, for TLC, in four parts explored side *)
(* by side:                                                                *)
(*   leases     three workers contend for the leases of two devices        *)
(*   rate       one device, windows longer than its leases                 *)
(*   snapshots  registry snapshots come and go while a proof is authorized *)
(*   proofs     three calls with three proofs under one snapshot           *)
(* The first two are RuntimeLeases, the others DeviceIdentity.             *)
(***************************************************************************)
EXTENDS RuntimeLeases, TLC

CONSTANTS n1, n2, n3, s1, s2

VARIABLES part, clock, published, registry, etag, nonces, limit, pc, call, accepted

identityVars == <<clock, published, registry, etag, nonces, limit, pc, call, accepted>>
mcVars == <<vars, identityVars, part>>

Rate == INSTANCE RuntimeLeases WITH
          MaxVoice <- 1, MaxAgent <- 1, TTL <- 1, Minute <- 4, MaxTime <- 7
Snapshots == INSTANCE DeviceIdentity WITH
          now <- clock, Requests <- {1}, Nonces <- {n1}, Secrets <- {s1, s2},
          Stamp <- n1 :> 2, MaxRevision <- 3, MaxDocs <- 3, Validity <- 2, Skew <- 1,
          MinInterval <- 1, MaximumNonces <- 2, Lag <- 1, MaxTime <- 4
\* The third proof is dated apart, so that it can come while the others are kept.
Proofs == INSTANCE DeviceIdentity WITH
          now <- clock, Requests <- Ids, Nonces <- {n1, n2, n3}, Secrets <- {s1},
          Stamp <- n1 :> 3 @@ n2 :> 3 @@ n3 :> 4, MaxRevision <- 1, MaxDocs <- 1, Validity <- 9,
          Skew <- 2, MinInterval <- 2, MaximumNonces <- 2, Lag <- 2, MaxTime <- 5

ASSUME Snapshots!IdentityBounds /\ Proofs!IdentityBounds

MCInit ==
  /\ Init
  /\ \/ part = "snapshots" /\ Snapshots!Init
     \/ part \in {"leases", "rate", "proofs"} /\ Proofs!Init

OneDevice ==
  LET d == CHOOSE d \in Subjects : TRUE IN
  \A s \in Subjects \ {d} :
    limits'[s] = limits[s] /\ \A kind \in Kinds : leases'[<<kind, s>>] = leases[<<kind, s>>]

MCNext ==
  /\ \/ part = "leases" /\ Next /\ UNCHANGED identityVars
     \/ part = "rate" /\ Rate!Next /\ OneDevice /\ UNCHANGED identityVars
     \/ part = "snapshots" /\ Snapshots!Next /\ UNCHANGED vars
     \/ part = "proofs" /\ Proofs!Next /\ UNCHANGED vars
  /\ UNCHANGED part

MCSpec == MCInit /\ [][MCNext]_mcVars

\* The workers of the leases, and the calls of the proofs.
MCSymmetry == Permutations(Ids)
-----------------------------------------------------------------------------
\* Types of the lease tables, of the registry and of its calls; the reloader's
\* ETag names the snapshot in use, and the nonces kept stay within their maximum.
TypesOK ==
  /\ part = "leases" => TypeOK /\ HeldIsStored
  /\ part = "rate" => Rate!TypeOK /\ Rate!HeldIsStored
  /\ part = "snapshots" => Snapshots!TypeOK /\ Snapshots!EtagIsApplied
  /\ part = "proofs" => Proofs!TypeOK /\ Proofs!NoncesAreBounded


\* ApplySnapshot: whatever the endpoint serves, a replica never goes back to an
\* older snapshot nor from one to another of the same revision; authorize: a
\* proof is accepted only if the snapshot whose secret verified it is the one in
\* force when authorize returns.
AcceptedIsCurrent ==
  [][part = "snapshots" => Snapshots!RevisionGrows /\ Snapshots!AcceptanceIsCurrent]_mcVars


\* ReserveProof: two acceptances of one proof are at least the width of its
\* timestamp window apart, whatever the order and delay of the transactions; and
\* accepted proofs are at least MinInterval apart, as long as nonces are kept
\* longer than the interval and a transaction take together.
ReplaysAreRefused == part = "proofs" => Proofs!ReplaysAreRefused /\ Proofs!CadenceHolds
=============================================================================
