--------------------------- MODULE MCControlPlane ---------------------------
(***************************************************************************)
(* The control plane for TLC, in parts that share no state: the ownership  *)
(* store, consent on it, the wake outbox, the three halves of the account  *)
(* ledger, and the handlers over all of them.  Each part has sizes of its  *)
(* own; a behaviour stays in the part it begins in.                        *)
(***************************************************************************)
EXTENDS Integers, FiniteSets, Sequences

CONSTANTS
  a1, a2, d1, c1, c2, n1, k1, q1, w1, w2, x1, x2, i1, i2, p1, p2, s1, e1, e2, e3,
  r1, nobody, nokey, noworker

VARIABLES
  part, now, owners, claims, nonces, events, drawn,
  challenges, wakes, workers, woken, answered,
  accounts, sessions, tokens, issued, pushes, dead, senders, entitlements, updates,
  requests, granted

ownership == <<owners, claims, nonces, events, drawn>>
consent == <<challenges, wakes, workers, woken, answered>>
ledger == <<accounts, sessions, tokens, issued, pushes, dead, senders, entitlements, updates>>
plane == <<requests, granted>>
mcVars == <<part, now, ownership, consent, ledger, plane>>
-----------------------------------------------------------------------------
\* Two accounts and two codes for one device, up to its second owner.
Claims == INSTANCE DeviceClaim WITH
  Accounts <- {a1, a2}, Devices <- {d1}, Codes <- {c1, c2}, Nonces <- {n1}, Nobody <- nobody,
  TTL <- 2, MaxRecords <- 2, MaxRevision <- 4, Lag <- 1, MaxTime <- 5

\* One challenge over a release and a second binding, to the same account or not.
Consent == INSTANCE ActionConsent WITH
  Accounts <- {a1, a2}, Devices <- {d1}, Codes <- {c1, c2}, Nonces <- {n1}, Nobody <- nobody,
  TTL <- 2, MaxRecords <- 2, MaxRevision <- 3, Lag <- 1, MaxTime <- 3,
  Challenges <- {q1}, Keys <- {k1}, Workers <- {}, NoKey <- nokey, NoWorker <- noworker,
  MaxLife <- 2, MaxChallenges <- 1, WakeLease <- 1, RetryAfter <- 0, MaxAttempts <- 1

\* One challenge and two workers, and time for one attempt more than is allowed.
Wakes == INSTANCE ActionConsent WITH
  Accounts <- {a1}, Devices <- {d1}, Codes <- {c1}, Nonces <- {n1}, Nobody <- nobody,
  TTL <- 2, MaxRecords <- 1, MaxRevision <- 2, Lag <- 1, MaxTime <- 4,
  Challenges <- {q1}, Keys <- {k1}, Workers <- {w1, w2}, NoKey <- nokey,
  NoWorker <- noworker, MaxLife <- 3, MaxChallenges <- 1, WakeLease <- 1, RetryAfter <- 1,
  MaxAttempts <- 2

Tokens == INSTANCE AccountAuth WITH
  Accounts <- {a1, a2}, TokenIds <- {x1, x2}, Installations <- {}, PushTokens <- {}, Senders <- {},
  Events <- {}, Services <- {}, Nobody <- nobody, MaxAccountRevision <- 3, TokenLife <- 2,
  PushLife <- 1, MaxAccess <- 1, MaxPushes <- 1, MaxEntitlement <- 0, Lag <- 1, MaxTime <- 3

Pushes == INSTANCE AccountAuth WITH
  Accounts <- {a1, a2}, TokenIds <- {}, Installations <- {i1, i2}, PushTokens <- {p1, p2},
  Senders <- {s1}, Events <- {}, Services <- {}, Nobody <- nobody, MaxAccountRevision <- 2,
  TokenLife <- 1, PushLife <- 2, MaxAccess <- 1, MaxPushes <- 1, MaxEntitlement <- 0, Lag <- 1, MaxTime <- 3

Entitlements == INSTANCE AccountAuth WITH
  Accounts <- {a1, a2}, TokenIds <- {}, Installations <- {}, PushTokens <- {}, Senders <- {},
  Events <- {e1, e2, e3}, Services <- {"voice"}, Nobody <- nobody, MaxAccountRevision <- 1,
  TokenLife <- 1, PushLife <- 1, MaxAccess <- 2, MaxPushes <- 1, MaxEntitlement <- 2, Lag <- 1, MaxTime <- 2

\* A request for a voice token while the device changes hands and its owners'
\* entitlements change.
Issue == INSTANCE ControlPlane WITH
  Accounts <- {a1, a2}, Devices <- {d1}, Codes <- {c1}, Nonces <- {n1}, Nobody <- nobody,
  TTL <- 2, MaxRecords <- 1, MaxRevision <- 3, Lag <- 0, MaxTime <- 2,
  Challenges <- {}, Keys <- {k1}, Workers <- {}, NoKey <- nokey, NoWorker <- noworker,
  MaxLife <- 2, MaxChallenges <- 1, WakeLease <- 1, RetryAfter <- 0, MaxAttempts <- 1,
  TokenIds <- {}, Services <- {"voice"}, MaxAccountRevision <- 1, TokenLife <- 1,
  MaxAccess <- 2, MaxEntitlement <- 2, UpdateEvents <- {e1, e2},
  Requests <- {r1}, DeviceOps <- {"voice"}, AppOps <- {}, DeviceTokenLife <- 2, MinLife <- 1

\* One request of any other kind, with the tokens and sessions of an account.
Handlers == INSTANCE ControlPlane WITH
  Accounts <- {a1}, Devices <- {d1}, Codes <- {c1}, Nonces <- {n1}, Nobody <- nobody,
  TTL <- 2, MaxRecords <- 1, MaxRevision <- 3, Lag <- 1, MaxTime <- 2,
  Challenges <- {q1}, Keys <- {k1}, Workers <- {}, NoKey <- nokey, NoWorker <- noworker,
  MaxLife <- 2, MaxChallenges <- 1, WakeLease <- 1, RetryAfter <- 0, MaxAttempts <- 1,
  TokenIds <- {x1}, Services <- {}, MaxAccountRevision <- 2, TokenLife <- 1,
  MaxAccess <- 1, MaxEntitlement <- 0, UpdateEvents <- {},
  Requests <- {r1}, DeviceOps <- {"confirm", "challenge", "result"},
  AppOps <- {"claim", "release", "decide"}, DeviceTokenLife <- 1, MinLife <- 1
-----------------------------------------------------------------------------
NoOwnership == owners = <<>> /\ claims = <<>> /\ nonces = <<>> /\ events = {} /\ drawn = 0
NoConsent == challenges = <<>> /\ wakes = <<>> /\ workers = <<>> /\ woken = {} /\ answered = <<>>
NoLedger ==
  /\ accounts = <<>> /\ sessions = {} /\ tokens = <<>> /\ issued = {}
  /\ pushes = <<>> /\ dead = {} /\ senders = <<>> /\ entitlements = <<>> /\ updates = {}
NoPlane == requests = <<>> /\ granted = {}

ASSUME
  /\ Claims!ClaimBounds /\ Consent!ConsentBounds /\ Wakes!ConsentBounds
  /\ Tokens!AccountBounds /\ Pushes!AccountBounds /\ Entitlements!AccountBounds

MCInit ==
  \/ part = "claims" /\ Claims!Init /\ NoConsent /\ NoLedger /\ NoPlane
  \/ part = "consent" /\ Consent!Init /\ Consent!ConsentInit /\ NoLedger /\ NoPlane
  \/ part = "wakes" /\ Wakes!Init /\ Wakes!ConsentInit /\ NoLedger /\ NoPlane
  \/ /\ now = 1 /\ NoOwnership /\ NoConsent /\ NoPlane
     /\ \/ part = "tokens" /\ Tokens!LedgerInit
        \/ part = "pushes" /\ Pushes!LedgerInit
        \/ part = "entitlements" /\ Entitlements!LedgerInit
  \/ part = "issue" /\ Issue!PlaneInit
  \/ part = "handlers" /\ Handlers!PlaneInit

ClaimsNext == part = "claims" /\ Claims!Next /\ UNCHANGED <<consent, ledger, plane>>
ConsentNext == part = "consent" /\ Consent!ConsentSpecNext /\ UNCHANGED <<ledger, plane>>
WakesNext == part = "wakes" /\ Wakes!ConsentSpecNext /\ UNCHANGED <<ledger, plane>>
TokensNext == part = "tokens" /\ Tokens!LedgerNext /\ UNCHANGED <<ownership, consent, plane>>
PushesNext == part = "pushes" /\ Pushes!LedgerNext /\ UNCHANGED <<ownership, consent, plane>>
EntitlementsNext ==
  part = "entitlements" /\ Entitlements!LedgerNext /\ UNCHANGED <<ownership, consent, plane>>
IssueNext == part = "issue" /\ Issue!PlaneNext
HandlersNext == part = "handlers" /\ Handlers!PlaneNext

MCNext ==
  /\ \/ ClaimsNext \/ ConsentNext \/ WakesNext
     \/ TokensNext \/ PushesNext \/ EntitlementsNext \/ IssueNext \/ HandlersNext
  /\ UNCHANGED part

MCSpec == MCInit /\ [][MCNext]_mcVars
-----------------------------------------------------------------------------
\* Types of every table; no two wakes of one challenge, no row without its challenge.
TypesOK ==
  /\ part = "claims" => Claims!ClaimTypeOK
  /\ part = "consent" => Consent!ConsentTypeOK
  /\ part = "wakes" => Wakes!ConsentTypeOK
  /\ part = "tokens" => Tokens!LedgerTypeOK
  /\ part = "pushes" => Pushes!LedgerTypeOK
  /\ part = "entitlements" => Entitlements!LedgerTypeOK
  /\ part = "issue" => Issue!ClaimTypeOK /\ Issue!Ledger!LedgerTypeOK
  /\ part = "handlers" => Handlers!ConsentTypeOK /\ Handlers!Ledger!LedgerTypeOK

\* Confirm and Release: whenever the owner of a device, its binding or its being
\* owned changes its revision grows, and it changes hands only by way of a release.
BindingEpochs ==
  [][/\ part = "claims" => Claims!BindingEpochs
     /\ part = "handlers" => Handlers!BindingEpochs]_mcVars

\* Consume hands a decision out once, and only while the very binding is in force
\* under which the challenge was registered and decided.
ConsentIsOfTheBinding ==
  /\ part = "consent" => Consent!ConsentIsOfTheBinding
  /\ part = "handlers" => Handlers!ConsentIsOfTheBinding

\* The wake outbox: no wake is lost while its challenge can be decided, whatever
\* happens to workers and answers, and two workers send one wake only after the
\* lease of one has run out (ClaimWake, AcknowledgeWake, RetryWake).
WakesAreKept ==
  /\ part = "consent" => Consent!WakesAreKept
  /\ part = "wakes" => Wakes!WakesAreKept /\ Wakes!OneSender

\* rotateAccount: a token once inactive stays so and a suspension is not lifted by
\* Logout; and a token inactive when an App's request began does not get its
\* handler to the stores (authorizeCompanion).
RevocationIsFinal ==
  /\ [](/\ part = "tokens" => Tokens!SuspensionHolds
        /\ part = "handlers" => Handlers!AppActsWhileActive)
  /\ [][part = "tokens" => Tokens!InactiveStays]_mcVars

\* Push installations are of their account's present revision, no push token has
\* two, and a provider's late answer unregisters only the token it is about.
PushesFollowAccount ==
  /\ [](part = "pushes" => Pushes!PushesFollowAccount)
  /\ [][part = "pushes" => Pushes!InvalidationIsExact]_mcVars

=============================================================================
