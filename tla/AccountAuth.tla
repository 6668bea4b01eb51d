---------------------------- MODULE AccountAuth -----------------------------
(***************************************************************************)
(* The account ledger of internal/accountauth on PostgreSQL: revisions of  *)
(* accounts, the App tokens registered at a revision, the push             *)
(* installations of an account with the senders that read them             *)
(* (internal/pushdelivery), and what an account is entitled to.  Each      *)
(* operation is one SERIALIZABLE transaction, retried on a conflict; one   *)
(* that ends in an error changes nothing.  Its time is the time it began,  *)
(* at most Lag before it commits.  An account stands for a tenant with a   *)
(* subject, a push token for its platform and digest.  Token ids are       *)
(* random and not drawn twice.                                             *)
(***************************************************************************)
EXTENDS Integers, FiniteSets

CONSTANTS
  Accounts, TokenIds, Installations, PushTokens, Senders, Events,
  Services,             \* voice and agent
  Nobody,
  MaxAccountRevision,   \* maximumAccountRevision
  TokenLife, PushLife,  \* MaximumTokenLifetime, MaximumPushInstallationLifetime
  MaxAccess,            \* maximumEntitlementValidity
  MaxPushes,            \* MaximumPushInstallationsPerAccount
  MaxEntitlement,       \* bound on the revisions of an entitlement
  Lag,                  \* operationTimeout
  MaxTime               \* bound on the clock

AccountBounds ==
  /\ Nobody \notin Accounts
  /\ {MaxAccountRevision, TokenLife, PushLife, MaxAccess, MaxPushes} \subseteq Nat \ {0}
  /\ {MaxEntitlement, Lag, MaxTime} \subseteq Nat

VARIABLES
  now,
  accounts,       \* companion_accounts; revision 0: no row
  sessions,       \* Session values handed to callers
  tokens,         \* companion_tokens
  issued,         \* history: token ids given out
  pushes,         \* companion_push_installations, by account and installation
  dead,           \* push tokens the provider no longer knows
  senders,        \* the deliveries a SendWake has under way
  entitlements,   \* service_entitlements; revision 0: no row
  updates         \* service_entitlement_events: the updates applied

accountVars == <<accounts, sessions>>
tokenVars == <<tokens, issued>>
pushVars == <<pushes, dead, senders>>
entitlementVars == <<entitlements, updates>>
ledgerVars == <<accountVars, tokenVars, pushVars, entitlementVars>>

NoAccount == [revision |-> 0, active |-> FALSE]
NoToken == [account |-> Nobody, revision |-> 0, expires |-> 0, revoked |-> FALSE]
NoPush == [revision |-> 0, token |-> Nobody, until |-> 0]
NoEntitlement == [revision |-> 0, services |-> {}, until |-> 0]
Resting == [account |-> Nobody, pending |-> {}]

LedgerInit ==
  /\ accounts = [a \in Accounts |-> NoAccount] /\ sessions = {}
  /\ tokens = [x \in TokenIds |-> NoToken] /\ issued = {}
  /\ pushes = [k \in Accounts \X Installations |-> NoPush] /\ dead = {}
  /\ senders = [w \in Senders |-> Resting]
  /\ entitlements = [a \in Accounts |-> NoEntitlement] /\ updates = {}

LedgerTimes == {t \in 1 .. now : now - t <= Lag}
-----------------------------------------------------------------------------
BeginAuthenticatedSession(a) ==
  LET row == IF accounts[a] = NoAccount THEN [revision |-> 1, active |-> TRUE] ELSE accounts[a] IN
  /\ row.active                                   \* else ErrSuspended
  /\ accounts' = [accounts EXCEPT ![a] = row]
  /\ sessions' = sessions \cup {<<a, row.revision>>}
  /\ UNCHANGED <<now, tokenVars, pushVars, entitlementVars>>

\* The session was begun at the revision the account still has.
SessionHolds(s) == s \in sessions /\ accounts[s[1]].active /\ accounts[s[1]].revision = s[2]

\* Service.Issue: the bearer is signed first and returned once it is registered.
RegisterToken(s, x, expires, t) ==
  /\ SessionHolds(s) /\ x \notin issued
  /\ expires - t \in 1 .. TokenLife               \* else ErrInactive
  /\ tokens' = [tokens EXCEPT ![x] =
       [account |-> s[1], revision |-> s[2], expires |-> expires, revoked |-> FALSE]]
  /\ issued' = issued \cup {x}
  /\ UNCHANGED <<now, accountVars, pushVars, entitlementVars>>

\* Introspect answers active.
Active(x, t) ==
  LET a == tokens[x].account IN
  /\ tokens[x] # NoToken /\ ~tokens[x].revoked /\ tokens[x].expires > t
  /\ accounts[a].active /\ accounts[a].revision = tokens[x].revision

\* Mutant: the status is set, and what the revision stood for stays.
rotateAccount_mutant(a, active) ==
  /\ accounts' = [accounts EXCEPT ![a].active = active]
  /\ UNCHANGED <<now, sessions, tokenVars, pushVars, entitlementVars>>

rotateAccount(a, active) ==
  LET old == accounts[a].revision IN
  /\ old < MaxAccountRevision                     \* else ErrRevisionExhausted
  /\ accounts' = [accounts EXCEPT ![a] = [revision |-> old + 1, active |-> active]]
  /\ tokens' = [x \in TokenIds |->
       IF tokens[x].account = a /\ tokens[x].revision <= old
       THEN [tokens[x] EXCEPT !.revoked = TRUE] ELSE tokens[x]]
  /\ pushes' = [k \in DOMAIN pushes |->
       IF k[1] = a /\ pushes[k].revision <= old THEN NoPush ELSE pushes[k]]
  /\ UNCHANGED <<now, sessions, issued, dead, senders, entitlementVars>>

\* The status of the account is not asked for.
Logout(s) ==
  /\ s \in sessions /\ accounts[s[1]].revision = s[2]     \* else ErrStaleSession
  /\ rotateAccount(s[1], TRUE)

\* Suspend and Resume; without effect when the account has that status.
setStatus(a, active) ==
  /\ accounts[a] # NoAccount /\ accounts[a].active # active
  /\ rotateAccount(a, active)

RevokeToken(x) ==
  /\ tokens[x] # NoToken /\ ~tokens[x].revoked
  /\ tokens' = [tokens EXCEPT ![x].revoked = TRUE]
  /\ UNCHANGED <<now, accountVars, issued, pushVars, entitlementVars>>

PruneExpired(t) ==
  /\ tokens' = [x \in TokenIds |-> IF tokens[x].expires <= t THEN NoToken ELSE tokens[x]]
  /\ UNCHANGED <<now, accountVars, issued, pushVars, entitlementVars>>
-----------------------------------------------------------------------------
\* The rows left to an account by the DELETE that begins Upsert and Active.
Kept(a, t) ==
  [k \in DOMAIN pushes |->
     IF k[1] = a /\ (pushes[k].revision # accounts[a].revision \/ pushes[k].until <= t)
     THEN NoPush ELSE pushes[k]]

Rows(table, a) == {k \in DOMAIN table : k[1] = a /\ table[k] # NoPush}

\* UNIQUE (platform, token_digest) holds across accounts.
UpsertPushInstallation(s, i, p, t) ==
  LET kept == Kept(s[1], t) k == <<s[1], i>> IN
  /\ SessionHolds(s)
  /\ kept[k] = NoPush => Cardinality(Rows(kept, s[1])) < MaxPushes   \* else ErrCapacity
  /\ \A other \in DOMAIN kept : other # k => kept[other].token # p   \* else ErrConflict
  /\ pushes' = [kept EXCEPT ![k] = [revision |-> s[2], token |-> p, until |-> t + PushLife]]
  /\ UNCHANGED <<now, accountVars, tokenVars, dead, senders, entitlementVars>>

RemovePushInstallation(s, i) ==
  /\ SessionHolds(s)
  /\ pushes' = [pushes EXCEPT ![<<s[1], i>>] = IF @.revision = s[2] THEN NoPush ELSE @]
  /\ UNCHANGED <<now, accountVars, tokenVars, dead, senders, entitlementVars>>

\* SendWake begins: ActivePushInstallations, and one delivery for each row.
ActivePushInstallations(w, a, t) ==
  /\ senders[w] = Resting /\ accounts[a].active
  /\ pushes' = Kept(a, t)
  /\ senders' = [senders EXCEPT ![w] =
       IF Rows(Kept(a, t), a) = {} THEN Resting
       ELSE [account |-> a, pending |-> {<<k[2], pushes[k].token>> : k \in Rows(Kept(a, t), a)}]]
  /\ UNCHANGED <<now, accountVars, tokenVars, dead, entitlementVars>>

\* Mutant: the row is taken out whatever token it now has.
Invalidated_mutant(a, i, p) ==
  [pushes EXCEPT ![<<a, i>>] = IF @.revision = accounts[a].revision THEN NoPush ELSE @]

Invalidated(a, i, p) ==
  [pushes EXCEPT ![<<a, i>>] =
     IF @.revision = accounts[a].revision /\ @.token = p THEN NoPush ELSE @]

\* A provider's answer for one installation: accepted or a retry, or that the
\* token is not known to it.
Delivered(w, i, p, unknown) ==
  LET a == senders[w].account IN
  /\ <<i, p>> \in senders[w].pending
  /\ unknown => p \in dead
  /\ senders' = [senders EXCEPT ![w] =
       IF @.pending = {<<i, p>>} THEN Resting ELSE [@ EXCEPT !.pending = @ \ {<<i, p>>}]]
  /\ pushes' = IF unknown THEN Invalidated(a, i, p) ELSE pushes
  /\ UNCHANGED <<now, accountVars, tokenVars, dead, entitlementVars>>

\* External: the App is removed, or the platform gives it a new token.
TokenDies(p) ==
  /\ dead' = dead \cup {p}
  /\ UNCHANGED <<now, accountVars, tokenVars, pushes, senders, entitlementVars>>
-----------------------------------------------------------------------------
ValidServiceEntitlementUpdate(u, t) ==
  /\ u.previous < MaxEntitlement
  /\ u.until <= t + MaxAccess
  /\ u.services # {} => u.until > t

Entitlement(u) == [revision |-> u.previous + 1, services |-> u.services, until |-> u.until]

Follows(u) == entitlements[u.account].revision = u.previous    \* else ErrStaleEntitlement

\* An event applied before is answered from its row, or refused when it differs.
ApplyServiceEntitlement(u, t) ==
  /\ ValidServiceEntitlementUpdate(u, t)
  /\ accounts[u.account] # NoAccount
  /\ \A v \in updates : v.event # u.event
  /\ Follows(u)
  /\ updates' = updates \cup {u}
  /\ entitlements' = [entitlements EXCEPT ![u.account] = Entitlement(u)]
  /\ UNCHANGED <<now, accountVars, tokenVars, pushVars>>

AuthorizeService(a, service, t) ==
  accounts[a].active /\ service \in entitlements[a].services /\ entitlements[a].until > t
-----------------------------------------------------------------------------
AccountStep ==
  \/ \E a \in Accounts : \/ BeginAuthenticatedSession(a)
                         \/ \E active \in BOOLEAN : setStatus(a, active)
  \/ \E s \in sessions : Logout(s)

TokenStep ==
  \E x \in TokenIds :
    \/ RevokeToken(x)
    \/ \E t \in LedgerTimes :
         \/ PruneExpired(t)
         \/ \E s \in sessions, e \in t + 1 .. t + TokenLife : RegisterToken(s, x, e, t)

PushStep ==
  \/ \E t \in LedgerTimes :
       \/ \E s \in sessions, i \in Installations, p \in PushTokens : UpsertPushInstallation(s, i, p, t)
       \/ \E w \in Senders, a \in Accounts : ActivePushInstallations(w, a, t)
  \/ \E s \in sessions, i \in Installations : RemovePushInstallation(s, i)
  \/ \E w \in Senders, i \in Installations, p \in PushTokens, unknown \in BOOLEAN :
       Delivered(w, i, p, unknown)
  \/ \E p \in PushTokens : TokenDies(p)

EntitlementStep ==
  \E t \in LedgerTimes, e \in Events, a \in Accounts, previous \in 0 .. MaxEntitlement,
     services \in SUBSET Services, until \in 1 .. MaxTime + 1 :
    ApplyServiceEntitlement([event |-> e, account |-> a, previous |-> previous,
                             services |-> services, until |-> until], t)

LedgerStep == AccountStep \/ TokenStep \/ PushStep \/ EntitlementStep
LedgerTick == now < MaxTime /\ now' = now + 1 /\ UNCHANGED ledgerVars
LedgerNext == LedgerStep \/ LedgerTick
-----------------------------------------------------------------------------
LedgerTypeOK ==
  /\ accounts \in [Accounts -> [revision : 0 .. MaxAccountRevision, active : BOOLEAN]]
  /\ sessions \subseteq Accounts \X (1 .. MaxAccountRevision)
  /\ \A x \in TokenIds : tokens[x] = NoToken \/ tokens[x] \in
       [account : Accounts, revision : 1 .. MaxAccountRevision, expires : Nat, revoked : BOOLEAN]
  /\ \A k \in DOMAIN pushes : pushes[k] = NoPush \/ pushes[k] \in
       [revision : 1 .. MaxAccountRevision, token : PushTokens, until : Nat]
  /\ entitlements \in [Accounts -> [revision : 0 .. MaxEntitlement, services : SUBSET Services, until : Nat]]

\* No caller holds a session of a suspended account's revision, with which Logout,
\* which does not ask for the status, would lift the suspension.
SuspensionHolds ==
  \A s \in sessions : accounts[s[1]].revision = s[2] => accounts[s[1]].active

\* A token that Introspect once called inactive is never active again, whatever
\* logouts, suspensions and resumptions follow.
InactiveStays == \A x \in issued : ~Active(x, now) => ~Active(x, now)'

\* Every installation belongs to its account's present revision, and no push token
\* to two of them.
PushesFollowAccount ==
  \A k \in DOMAIN pushes : pushes[k] # NoPush =>
    /\ pushes[k].revision = accounts[k[1]].revision
    /\ \A o \in DOMAIN pushes : pushes[o].token = pushes[k].token => o = k

\* InvalidatePushInstallation: a late answer of a provider unregisters only the
\* token it is about, not one the App registered since.
InvalidationIsExact ==
  senders' # senders =>
    \A k \in DOMAIN pushes : pushes'[k] # pushes[k] =>
      pushes[k].token \in dead \/ pushes[k].until <= now

\* Updates of an entitlement that arrive late, twice or out of order: those that
\* were applied to an account are the revisions 1, 2, ... without a gap, and its
\* row is the last of them.
EntitlementsInOrder ==
  \A a \in Accounts :
    LET mine == {u \in updates : u.account = a} IN
    /\ {u.previous : u \in mine} = 0 .. Cardinality(mine) - 1
    /\ entitlements[a].revision = Cardinality(mine)
    /\ mine # {} => \E u \in mine : entitlements[a] = Entitlement(u)
=============================================================================
