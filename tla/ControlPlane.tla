---------------------------- MODULE ControlPlane ----------------------------
(***************************************************************************)
(* The handlers of internal/controlplane over the two databases: devices   *)
(* confirm claims, ask for consent and fetch voice and agent tokens; Apps  *)
(* claim, release and decide.  A handler reads the ownership row, the      *)
(* account ledger and the clock one after the other and acts on what it    *)
(* read; the stores' transactions (DeviceClaim, ActionConsent) and the     *)
(* ledger's (AccountAuth) go on in between.  A request is answered with an *)
(* error, or its caller gives up, at any point.  Device proofs are those   *)
(* of DeviceIdentity.                                                      *)
(***************************************************************************)
EXTENDS ActionConsent

CONSTANTS
  TokenIds, Services, MaxAccountRevision, TokenLife, MaxAccess, MaxEntitlement, UpdateEvents,
  Requests,
  DeviceOps,       \* of "voice", "agent", "confirm", "challenge" and "result"
  AppOps,          \* of "claim", "release" and "decide"
  DeviceTokenLife, \* the issuer's ttl
  MinLife          \* minimumIssuedTTL

VARIABLES
  accounts, sessions, tokens, issued, entitlements, updates,
  pushes, dead, senders,
  requests,        \* the handler calls under way
  granted          \* device tokens given out

ledger == <<accounts, sessions, tokens, issued, entitlements, updates, pushes, dead, senders>>
planeVars == <<vars, ledger, requests, granted>>

Ledger == INSTANCE AccountAuth WITH
  Installations <- {}, PushTokens <- {}, Senders <- {}, Events <- UpdateEvents,
  PushLife <- 1, MaxPushes <- 1

NoRequest ==
  [op |-> "none", at |-> "none", device |-> Nobody, token |-> Nobody, account |-> Nobody,
   owner |-> NoOwner, until |-> 0, began |-> 0, live |-> FALSE]

PlaneInit ==
  /\ Init /\ ConsentInit /\ Ledger!LedgerInit
  /\ requests = [r \in Requests |-> NoRequest] /\ granted = {}

\* Request r goes on to a step, or ends.
Goes(r, at) == requests' = [requests EXCEPT ![r] = IF at = "none" THEN NoRequest ELSE [@ EXCEPT !.at = at]]

Ends(r) == Goes(r, "none")
-----------------------------------------------------------------------------
\* The proof of the device is accepted.
DeviceRequest(r, op, d) ==
  /\ requests[r] = NoRequest
  /\ requests' = [requests EXCEPT ![r] =
       [NoRequest EXCEPT !.op = op, !.device = d, !.began = now,
                         !.at = IF op = "confirm" THEN "store" ELSE "owner"]]
  /\ UNCHANGED <<vars, ledger, granted>>

\* The signature and the action of the token are right, and it names the account;
\* live is history: what the ledger would say of the token as the request begins.
AppRequest(r, op, x, d) ==
  /\ requests[r] = NoRequest /\ tokens[x] # Ledger!NoToken
  /\ requests' = [requests EXCEPT ![r] =
       [NoRequest EXCEPT !.op = op, !.device = d, !.token = x, !.account = tokens[x].account,
                         !.began = now, !.live = Ledger!Active(x, now), !.at = "introspect"]]
  /\ UNCHANGED <<vars, ledger, granted>>

Introspected(x, t) == Ledger!Active(x, t)

\* authorizeCompanion asks the account service; its transaction is later than the request.
authorizeCompanion(r, t) ==
  LET q == requests[r] IN
  /\ q.at = "introspect" /\ t >= q.began
  /\ Goes(r, IF ~Introspected(q.token, t) THEN "none"
             ELSE IF q.op = "decide" THEN "owner" ELSE "store")
  /\ UNCHANGED <<vars, ledger, granted>>

\* Ownership.Owner; a decision is the owner's own.
Owner(r) ==
  LET q == requests[r] o == owners[q.device] IN
  /\ q.at = "owner"
  /\ IF o.active /\ (q.op = "decide" => o.account = q.account)
     THEN requests' = [requests EXCEPT ![r].owner = o,
            ![r].at = IF q.op \in {"voice", "agent"} THEN "entitle" ELSE "store"]
     ELSE Ends(r)
  /\ UNCHANGED <<vars, ledger, granted>>

\* AuthorizeService for the owner that was read.
AuthorizeOwner(r, t) ==
  LET q == requests[r] a == q.owner.account IN
  /\ q.at = "entitle" /\ t >= q.began
  /\ IF Ledger!AuthorizeService(a, q.op, t) /\ entitlements[a].until - now >= MinLife
     THEN requests' = [requests EXCEPT ![r].until = entitlements[a].until, ![r].at = "issue"]
     ELSE Ends(r)
  /\ UNCHANGED <<vars, ledger, granted>>

Earlier(i, j) == IF i < j THEN i ELSE j


Expiry(until) == Earlier(now + DeviceTokenLife, until)

\* IssueOwnedUntil
IssueToken(r) ==
  LET q == requests[r] IN
  /\ q.at = "issue"
  /\ granted' = IF Expiry(q.until) - now < MinLife THEN granted
       ELSE granted \cup {[device |-> q.device, service |-> q.op, account |-> q.owner.account,
                           binding |-> q.owner.binding, revision |-> q.owner.revision,
                           began |-> q.began, expires |-> Expiry(q.until)]}
  /\ Ends(r)
  /\ UNCHANGED <<vars, ledger>>
-----------------------------------------------------------------------------
beginDeviceClaim(r, t) ==
  LET q == requests[r] IN
  /\ q.at = "store" /\ q.op = "claim" /\ t >= q.began
  /\ \E c \in Codes, n \in Nonces : Begin(q.account, q.device, c, n, t)
  /\ UNCHANGED consentVars

confirmDeviceClaim(r, t) ==
  LET q == requests[r] IN
  /\ q.at = "store" /\ q.op = "confirm" /\ t >= q.began
  /\ \E c \in Codes : Confirm(q.device, c, t)
  /\ UNCHANGED consentVars

releaseOwnership(r) ==
  LET q == requests[r] IN
  /\ q.at = "store" /\ q.op = "release"
  /\ Release(q.account, q.device)
  /\ UNCHANGED consentVars

\* The challenge carries the owner the handler read, which Register compares.
registerDeviceActionConsent(r, t) ==
  LET q == requests[r] IN
  /\ q.at = "store" /\ q.op = "challenge" /\ t >= q.began
  /\ owners[q.device].account = q.owner.account /\ owners[q.device].revision = q.owner.revision
  /\ \E c \in Challenges, k \in Keys, e \in t + 1 .. t + MaxLife : Register(c, q.device, k, e, t)

\* The revision is in the body of the request, and compared with the row read before.
consumeDeviceActionConsent(r, t, seen) ==
  LET q == requests[r] IN
  /\ q.at = "store" /\ q.op = "result" /\ t >= q.began
  /\ \E c \in Challenges : /\ challenges[c].device = q.device
                           /\ challenges[c].revision = q.owner.revision
                           /\ Consume(c, t, seen)

decideActionConsent(r, t) ==
  LET q == requests[r] IN
  /\ q.at = "store" /\ q.op = "decide" /\ t >= q.began
  /\ \E c \in Challenges, decision \in {"approve", "deny"} :
       /\ challenges[c].device = q.device /\ challenges[c].revision = q.owner.revision
       /\ Decide(c, q.account, decision, t)

StoreStep(r) ==
  /\ \/ releaseOwnership(r)
     \/ \E t \in TransactionTimes :
          \/ beginDeviceClaim(r, t) \/ confirmDeviceClaim(r, t)
          \/ registerDeviceActionConsent(r, t) \/ decideActionConsent(r, t)
          \/ \E seen \in BOOLEAN : consumeDeviceActionConsent(r, t, seen)
  /\ Ends(r)
  /\ UNCHANGED <<ledger, granted>>

\* An error, a database that does not answer, a client that has gone.
Refuse(r) == requests[r] # NoRequest /\ Ends(r) /\ UNCHANGED <<vars, ledger, granted>>

RequestStep ==
  \E r \in Requests :
    \/ \E d \in Devices : \/ \E op \in DeviceOps : DeviceRequest(r, op, d)
                          \/ \E op \in AppOps, x \in TokenIds : AppRequest(r, op, x, d)
    \/ \E t \in TransactionTimes : authorizeCompanion(r, t) \/ AuthorizeOwner(r, t)
    \/ Owner(r) \/ IssueToken(r) \/ StoreStep(r) \/ Refuse(r)

LedgerStep ==
  /\ Ledger!AccountStep \/ Ledger!TokenStep \/ Ledger!EntitlementStep
  /\ UNCHANGED <<claimVars, consentVars, requests, granted>>

\* Requests that are not followed step by step: their transactions.
OtherRequests ==
  /\ (ClaimStep /\ UNCHANGED consentVars) \/ ConsentStep
  /\ UNCHANGED <<ledger, requests, granted>>

PlaneTick == Tick /\ UNCHANGED <<consentVars, ledger, requests, granted>>

PlaneNext == RequestStep \/ LedgerStep \/ OtherRequests \/ PlaneTick
-----------------------------------------------------------------------------
\* IssueOwnedUntil: a device token ends with the access its account was granted,
\* also when the entitlement or the owner changes between the reads of
\* authorizeAndIssue; and while it matches the device's binding, it names the
\* account that holds it.
DeviceTokensAreWarranted ==
  \A g \in granted :
    /\ \E u \in updates : /\ u.account = g.account /\ g.service \in u.services
                          /\ g.expires <= u.until
    /\ owners[g.device].active /\ owners[g.device].revision = g.revision =>
         owners[g.device].account = g.account /\ owners[g.device].binding = g.binding

\* authorizeCompanion: a token that was revoked, logged out, suspended or expired
\* when the App's request began does not reach the stores.
AppActsWhileActive ==
  \A r \in Requests : requests[r].op \in AppOps /\ requests[r].at \in {"owner", "store"} =>
    requests[r].live
=============================================================================
