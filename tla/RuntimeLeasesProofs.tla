------------------------- MODULE RuntimeLeasesProofs -------------------------
(***************************************************************************)
(* For any number of devices, leases and replicas, and any durations:      *)
(* workers that hold unexpired leases exclude each other, and live rows    *)
(* are fenced.  The strengthening records that a worker's row expires no   *)
(* later than TTL after its last call returned (RowAge), so a renewal      *)
(* whose answer is lost never shortens the lease its worker knows of.      *)
(***************************************************************************)
EXTENDS RuntimeLeases, TLAPS

\* A row that is held was written by a call that started before the worker's
\* last call returned.
RowAge ==
  \A id \in Ids : held[id] # NoHold /\ leases[held[id].key].id = id =>
    leases[held[id].key].expires <= held[id].at + TTL

\* Only drawn identifiers are held or stored.
HeldIsDrawn ==
  /\ \A id \in Ids : held[id] # NoHold => id \in drawn
  /\ \A k \in Keys : leases[k].id \in drawn \cup {NoId}

\* A worker's clock does not run ahead.
HeldIsPast == \A id \in Ids : held[id].at <= now

IInv == TypeOK /\ HeldIsStored /\ RowAge /\ HeldIsDrawn /\ HeldIsPast

\* What a hold is, other than NoHold.
LEMMA HoldShape ==
  ASSUME NEW h \in Holds
  PROVE  /\ h = NoHold \/ h.key \in Keys
         /\ h.expires \in Nat /\ h.at \in Nat
  BY DEF Holds, NoHold

LEMMA HoldIsNotNoHold ==
  ASSUME NEW k \in Keys, NEW e \in Nat, NEW a \in Nat
  PROVE  /\ [key |-> k, expires |-> e, at |-> a] \in Holds
         /\ [key |-> k, expires |-> e, at |-> a] # NoHold
<1>1. k # <<NoId, NoId>>
  BY DEF Keys, Kinds, NoId
<1>. QED
  BY <1>1 DEF Holds, NoHold

LEMMA SweptShape ==
  ASSUME NEW table \in [Keys -> Rows], NEW kind \in Kinds, NEW t \in Nat
  PROVE  /\ Swept(table, kind, t) \in [Keys -> Rows]
         /\ \A k \in Keys : \/ Swept(table, kind, t)[k] = table[k]
                            \/ table[k].expires <= t /\ Swept(table, kind, t)[k] = Free
  BY DEF Swept, Rows, Free

LEMMA InitIInv == Init => IInv
<1>. SUFFICES ASSUME Init PROVE IInv
  OBVIOUS
<1>. USE LeaseAssumption DEF Init
<1>1. TypeOK
  <2>1. NoLimit \in [window : Nat, accepted : 0 .. PerMinute, expires : Nat]
    BY DEF NoLimit
  <2>2. Free \in Rows
    BY DEF Free, Rows
  <2>. QED
    BY <2>1, <2>2 DEF TypeOK, Holds
<1>2. HeldIsStored /\ RowAge /\ HeldIsDrawn /\ HeldIsPast
  BY DEF HeldIsStored, RowAge, HeldIsDrawn, HeldIsPast, Free, NoHold
<1>. QED
  BY <1>1, <1>2 DEF IInv

\* Sweeping expired rows at a time that is past touches no lease a worker
\* still believes in; writing one's own row at a free key, neither.
LEMMA AcquireRow ==
  ASSUME IInv, NEW kind \in Kinds, NEW s \in Subjects, NEW id \in Ids, NEW t \in Nat, NEW seen \in BOOLEAN,
         t <= now, id \notin drawn, drawn' = drawn \cup {id}, now' = now,
         \/ leases' = Swept(leases, kind, t) /\ held' = held
         \/ /\ Swept(leases, kind, t)[<<kind, s>>].id = NoId
            /\ leases' = [Swept(leases, kind, t) EXCEPT ![<<kind, s>>] = Lease(t + TTL, id)]
            /\ Hold(id, <<kind, s>>, t + TTL, seen)
  PROVE  /\ leases' \in [Keys -> Rows] /\ held' \in [Ids -> Holds] /\ drawn' \in SUBSET Ids
         /\ HeldIsStored' /\ RowAge' /\ HeldIsDrawn' /\ HeldIsPast'
<1>. DEFINE k == <<kind, s>>
            table == Swept(leases, kind, t)
<1>. USE LeaseAssumption
<1>0. /\ k \in Keys /\ t + TTL \in Nat /\ now \in Nat
      /\ leases \in [Keys -> Rows] /\ held \in [Ids -> Holds] /\ drawn \in SUBSET Ids
  BY DEF IInv, TypeOK, Keys
<1>1. /\ table \in [Keys -> Rows]
      /\ \A j \in Keys : table[j] = leases[j] \/ (leases[j].expires <= t /\ table[j] = Free)
  BY <1>0, SweptShape
<1>2. \A j \in Keys : table[j].id \in {leases[j].id, NoId}
  BY <1>1 DEF Free
<1>3. \A i \in Ids : held[i] # NoHold => /\ held[i].key \in Keys /\ held[i].expires \in Nat /\ i # id
                                         /\ i \in Ids /\ i # NoId
  BY <1>0, HoldShape, NoIdAssumption DEF IInv, HeldIsDrawn
<1>4. \A i \in Ids : held[i] # NoHold /\ held[i].expires > now =>
        table[held[i].key] = leases[held[i].key] /\ table[held[i].key].id = i
  <2>. TAKE i \in Ids
  <2>. HAVE held[i] # NoHold /\ held[i].expires > now
  <2>1. leases[held[i].key].expires >= held[i].expires /\ leases[held[i].key].id = i
    BY DEF IInv, HeldIsStored
  <2>2. leases[held[i].key].expires \in Nat /\ held[i].expires \in Nat
    BY <1>0, <1>3 DEF Rows
  <2>. QED
    BY <1>0, <1>1, <1>3, <2>1, <2>2
<1>. HIDE DEF table, k
<1>5. CASE leases' = table /\ held' = held
  <2>1. HeldIsStored'
    BY <1>4, <1>5 DEF IInv, HeldIsStored
  <2>2. RowAge'
    <3>. SUFFICES ASSUME NEW i \in Ids, held[i] # NoHold, table[held[i].key].id = i
                  PROVE  table[held[i].key].expires <= held[i].at + TTL
      BY <1>5 DEF RowAge
    <3>1. table[held[i].key] = leases[held[i].key]
      BY <1>1, <1>3 DEF Free
    <3>. QED
      BY <3>1 DEF IInv, RowAge
  <2>3. HeldIsDrawn' /\ HeldIsPast'
    BY <1>2, <1>5 DEF IInv, HeldIsDrawn, HeldIsPast
  <2>. QED
    BY <1>0, <1>1, <1>5, <2>1, <2>2, <2>3
<1>6. CASE /\ table[k].id = NoId
           /\ leases' = [table EXCEPT ![k] = Lease(t + TTL, id)]
           /\ Hold(id, k, t + TTL, seen)
  <2>. DEFINE h == [key |-> k, expires |-> t + TTL, at |-> now]
  <2>1. h \in Holds /\ h # NoHold /\ h.key = k /\ h.expires = t + TTL /\ h.at = now
    BY <1>0, HoldIsNotNoHold
  <2>. HIDE DEF h
  <2>2. \A i \in Ids : held'[i] = held[i] \/ (i = id /\ held'[i] = h)
    BY <1>0, <1>6 DEF Hold, h
  <2>3. held' \in [Ids -> Holds]
    BY <1>0, <1>6, <2>1 DEF Hold, h
  <2>4. /\ leases' \in [Keys -> Rows]
        /\ leases'[k].id = id /\ leases'[k].expires = t + TTL
        /\ \A j \in Keys : j # k => leases'[j] = table[j]
    BY <1>0, <1>1, <1>6 DEF Lease, Rows
  <2>5. \A i \in Ids : held[i] # NoHold /\ held[i].key = k => ~(held[i].expires > now)
    BY <1>3, <1>4, <1>6
  <2>6. HeldIsStored'
    <3>. SUFFICES ASSUME NEW i \in Ids, held'[i] # NoHold, held'[i].expires > now
                  PROVE  /\ leases'[held'[i].key].id = i
                         /\ leases'[held'[i].key].expires >= held'[i].expires
      BY DEF HeldIsStored
    <3>1. CASE i = id /\ held'[i] = h
      BY <1>0, <2>1, <2>4, <3>1
    <3>2. CASE held'[i] = held[i]
      BY <1>3, <1>4, <2>4, <2>5, <3>2 DEF IInv, HeldIsStored
    <3>. QED
      BY <2>2, <3>1, <3>2
  <2>7. RowAge'
    <3>. SUFFICES ASSUME NEW i \in Ids, held'[i] # NoHold, leases'[held'[i].key].id = i
                  PROVE  leases'[held'[i].key].expires <= held'[i].at + TTL
      BY DEF RowAge
    <3>1. CASE i = id /\ held'[i] = h
      BY <1>0, <2>1, <2>4, <3>1
    <3>2. CASE held'[i] = held[i]
      <4>1. held[i].key # k
        BY <1>3, <2>4, <3>2
      <4>2. leases'[held[i].key] = leases[held[i].key]
        BY <1>1, <1>3, <2>4, <3>2, <4>1 DEF Free
      <4>. QED
        BY <3>2, <4>2 DEF IInv, RowAge
    <3>. QED
      BY <2>2, <3>1, <3>2
  <2>8. HeldIsDrawn'
    BY <1>2, <2>2, <2>4 DEF IInv, HeldIsDrawn
  <2>9. HeldIsPast'
    BY <1>0, <2>1, <2>2 DEF IInv, HeldIsPast
  <2>. QED
    BY <1>0, <2>3, <2>4, <2>6, <2>7, <2>8, <2>9
<1>. QED
  BY <1>5, <1>6 DEF k, table

\* The limit rows of AcquireAgent stay within the rate.
LEMMA LimitRows ==
  ASSUME TypeOK, NEW s \in Subjects, NEW t \in Nat
  PROVE  LET L == [window : Nat, accepted : 0 .. PerMinute, expires : Nat]
             row == InsertedLimit(LimitsSwept(t)[s], t)
         IN  LimitsSwept(t) \in [Subjects -> L] /\ row \in L /\ Window(row, t) \in L
<1>. DEFINE L == [window : Nat, accepted : 0 .. PerMinute, expires : Nat]
            row == InsertedLimit(LimitsSwept(t)[s], t)
<1>. USE LeaseAssumption
<1>1. LimitsSwept(t) \in [Subjects -> L]
  BY DEF TypeOK, LimitsSwept, NoLimit
<1>2. row \in L
  <2>1. [window |-> t, accepted |-> 0, expires |-> t + Minute] \in L
    OBVIOUS
  <2>. QED
    BY <1>1, <2>1 DEF InsertedLimit
<1>3. ASSUME NEW l \in L PROVE Window(l, t) \in L
  <2>1. l.window \in Nat /\ l.accepted \in 0 .. PerMinute /\ l.expires \in Nat
    OBVIOUS
  <2>2. [window |-> t, accepted |-> 0, expires |-> l.expires] \in L
    OBVIOUS
  <2>. QED
    BY <2>2 DEF Window
<1>. HIDE DEF L, row
<1>4. Window(row, t) \in L
  BY <1>2, <1>3
<1>. QED
  BY <1>1, <1>2, <1>4 DEF L, row

LEMMA NextIInv == IInv /\ [Next]_vars => IInv'
<1>. SUFFICES ASSUME IInv, [Next]_vars PROVE IInv'
  OBVIOUS
<1>. USE LeaseAssumption
<1>0. TypeOK
  BY DEF IInv
<1>1. ASSUME NEW s \in Subjects, NEW id \in Ids, NEW t \in Started(1), NEW seen \in BOOLEAN,
             AcquireVoice(s, id, t, seen)
      PROVE  IInv'
  <2>1. t \in Nat /\ t <= now /\ "voice" \in Kinds
    BY <1>0 DEF Started, TypeOK, Kinds
  <2>2. /\ leases' \in [Keys -> Rows] /\ held' \in [Ids -> Holds] /\ drawn' \in SUBSET Ids
        /\ HeldIsStored' /\ RowAge' /\ HeldIsDrawn' /\ HeldIsPast'
    BY <1>1, <2>1, AcquireRow DEF AcquireVoice
  <2>3. TypeOK'
    BY <1>0, <1>1, <2>2 DEF TypeOK, AcquireVoice
  <2>. QED
    BY <2>2, <2>3 DEF IInv
<1>2. ASSUME NEW s \in Subjects, NEW id \in Ids, NEW t \in Started(1), NEW seen \in BOOLEAN,
             AcquireAgent(s, id, t, seen)
      PROVE  IInv'
  <2>. DEFINE L == [window : Nat, accepted : 0 .. PerMinute, expires : Nat]
              row == InsertedLimit(LimitsSwept(t)[s], t)
              w == Window(row, t)
              new == [window |-> w.window, accepted |-> w.accepted + 1, expires |-> t + Minute]
  <2>1. t \in Nat /\ t <= now /\ "agent" \in Kinds
    BY <1>0 DEF Started, TypeOK, Kinds
  <2>2. /\ leases' \in [Keys -> Rows] /\ held' \in [Ids -> Holds] /\ drawn' \in SUBSET Ids
        /\ HeldIsStored' /\ RowAge' /\ HeldIsDrawn' /\ HeldIsPast'
    BY <1>2, <2>1, AcquireRow DEF AcquireAgent
  <2>3. LimitsSwept(t) \in [Subjects -> L] /\ row \in L /\ w \in L
    BY <1>0, <2>1, LimitRows
  <2>4. w.accepted < PerMinute => new \in L
    BY <2>1, <2>3
  <2>. HIDE DEF row, w, new, L
  <2>5. limits' \in [Subjects -> L]
    <3>1. \/ limits' = LimitsSwept(t)
          \/ limits' = [LimitsSwept(t) EXCEPT ![s] = row]
          \/ ~(w.accepted >= PerMinute) /\ limits' = [LimitsSwept(t) EXCEPT ![s] = new]
      BY <1>2 DEF AcquireAgent, AgentFull, row, w, new
    <3>2. w.accepted \in Int
      BY <2>3 DEF L
    <3>. QED
      BY <2>3, <2>4, <3>1, <3>2
  <2>6. grants' \in [Subjects -> SUBSET [id : Ids, time : Nat]]
    BY <1>0, <1>2 DEF AcquireAgent, TypeOK
  <2>7. TypeOK'
    BY <1>0, <1>2, <2>2, <2>5, <2>6 DEF TypeOK, AcquireAgent, L
  <2>. QED
    BY <2>2, <2>7 DEF IInv
<1>3. ASSUME NEW id \in Ids, NEW t \in Started(held[id].at), NEW seen \in BOOLEAN,
             Renew(id, t, seen)
      PROVE  IInv'
  <2>. DEFINE k == held[id].key
              h == held[id]
              e == IF seen THEN t + TTL ELSE h.expires
  <2>1. /\ h \in Holds /\ h # NoHold /\ k \in Keys /\ h.expires \in Nat /\ h.at \in Nat /\ now \in Nat
        /\ leases \in [Keys -> Rows] /\ held \in [Ids -> Holds] /\ h.at <= now
    BY <1>0, <1>3, HoldShape DEF TypeOK, Renew, IInv, HeldIsPast
  <2>2. t \in Nat /\ h.at <= t /\ t <= now /\ t + TTL \in Nat
    BY <2>1 DEF Started
  <2>3. CASE ~Renewable(k, id, t)
    <3>1. held' = [held EXCEPT ![id].at = now] /\ leases' = leases
      BY <1>3, <2>3 DEF Renew
    <3>2. held' \in [Ids -> Holds] /\ held'[id] # NoHold /\ held'[id].key = k
          /\ held'[id].expires = h.expires /\ held'[id].at = now
      <4>1. [key |-> k, expires |-> h.expires, at |-> now] \in Holds
            /\ [key |-> k, expires |-> h.expires, at |-> now] # NoHold
        BY <2>1, HoldIsNotNoHold
      <4>2. [h EXCEPT !.at = now] = [key |-> k, expires |-> h.expires, at |-> now]
        BY <2>1 DEF Holds
      <4>. QED
        BY <2>1, <3>1, <4>1, <4>2
    <3>3. \A i \in Ids : i # id => held'[i] = held[i]
      BY <2>1, <3>1
    <3>4. UNCHANGED <<now, limits, drawn, grants>>
      BY <1>3 DEF Renew
    <3>5. TypeOK'
      BY <1>0, <3>1, <3>2, <3>4 DEF TypeOK
    <3>6. HeldIsStored'
      BY <2>1, <3>1, <3>2, <3>3, <3>4 DEF IInv, HeldIsStored
    <3>7. RowAge'
      <4>. SUFFICES ASSUME NEW i \in Ids, held'[i] # NoHold, leases[held'[i].key].id = i
                    PROVE  leases[held'[i].key].expires <= held'[i].at + TTL
        BY <3>1 DEF RowAge
      <4>1. CASE i = id
        <5>1. leases[k].expires <= h.at + TTL /\ leases[k].expires \in Nat
          BY <2>1, <3>2, <4>1 DEF IInv, RowAge, Rows
        <5>. QED
          BY <2>1, <3>2, <4>1, <5>1
      <4>2. CASE i # id
        BY <3>3, <4>2 DEF IInv, RowAge
      <4>. QED
        BY <4>1, <4>2
    <3>8. HeldIsDrawn' /\ HeldIsPast'
      BY <2>1, <3>1, <3>2, <3>3, <3>4 DEF IInv, HeldIsDrawn, HeldIsPast
    <3>. QED
      BY <3>5, <3>6, <3>7, <3>8 DEF IInv
  <2>4. CASE Renewable(k, id, t)
    <3>1. /\ leases[k].id = id
          /\ leases' = [leases EXCEPT ![k] = Lease(t + TTL, id)]
          /\ held' = [held EXCEPT ![id].at = now, ![id].expires = IF seen THEN t + TTL ELSE @]
      BY <1>3, <2>4 DEF Renew, Renewable, Owns
    <3>2. /\ leases' \in [Keys -> Rows] /\ leases'[k].id = id /\ leases'[k].expires = t + TTL
          /\ \A j \in Keys : j # k => leases'[j] = leases[j]
      BY <2>1, <2>2, <3>1 DEF Lease, Rows
    <3>3. /\ held' \in [Ids -> Holds] /\ held'[id] # NoHold /\ held'[id].key = k
          /\ held'[id].expires = e /\ held'[id].at = now
      <4>0. e \in Nat
        BY <2>1, <2>2
      <4>1. [key |-> k, expires |-> e, at |-> now] \in Holds
            /\ [key |-> k, expires |-> e, at |-> now] # NoHold
        BY <2>1, <4>0, HoldIsNotNoHold
      <4>2. held'[id] = [key |-> k, expires |-> e, at |-> now]
        BY <2>1, <3>1 DEF Holds
      <4>. QED
        BY <2>1, <3>1, <4>1, <4>2
    <3>4. \A i \in Ids : i # id => held'[i] = held[i]
      BY <2>1, <3>1
    <3>5. UNCHANGED <<now, limits, drawn, grants>>
      BY <1>3 DEF Renew
    <3>6. TypeOK'
      BY <1>0, <3>2, <3>3, <3>5 DEF TypeOK
    <3>7. e <= t + TTL \/ ~(e > now)
      <4>1. CASE seen
        BY <2>2, <4>1
      <4>2. CASE ~seen /\ h.expires > now
        <5>1. leases[k].expires >= h.expires /\ leases[k].expires <= h.at + TTL /\ leases[k].expires \in Nat
          BY <2>1, <3>1, <4>2 DEF IInv, HeldIsStored, RowAge, Rows
        <5>. QED
          BY <2>1, <2>2, <4>2, <5>1
      <4>. QED
        BY <4>1, <4>2
    <3>. HIDE DEF e
    <3>8. \A i \in Ids : i # id /\ held[i] # NoHold /\ held[i].expires > now => held[i].key # k
      BY <3>1 DEF IInv, HeldIsStored
    <3>9. HeldIsStored'
      <4>. SUFFICES ASSUME NEW i \in Ids, held'[i] # NoHold, held'[i].expires > now
                    PROVE  /\ leases'[held'[i].key].id = i
                           /\ leases'[held'[i].key].expires >= held'[i].expires
        BY <3>5 DEF HeldIsStored
      <4>1. CASE i = id
        <5>1. e \in Nat
          BY <2>1, <2>2 DEF e
        <5>. QED
          BY <2>1, <2>2, <3>2, <3>3, <3>7, <4>1, <5>1
      <4>2. CASE i # id
        <5>1. held[i].key \in Keys
          BY <2>1, <3>4, <4>2, HoldShape
        <5>. QED
          BY <3>2, <3>4, <3>8, <4>2, <5>1 DEF IInv, HeldIsStored
      <4>. QED
        BY <4>1, <4>2
    <3>10. RowAge'
      <4>. SUFFICES ASSUME NEW i \in Ids, held'[i] # NoHold, leases'[held'[i].key].id = i
                    PROVE  leases'[held'[i].key].expires <= held'[i].at + TTL
        BY DEF RowAge
      <4>1. CASE i = id
        BY <2>1, <2>2, <3>2, <3>3, <4>1
      <4>2. CASE i # id
        <5>1. held[i].key \in Keys /\ held[i].key # k
          BY <2>1, <3>2, <3>4, <4>2, HoldShape
        <5>. QED
          BY <3>2, <3>4, <4>2, <5>1 DEF IInv, RowAge
      <4>. QED
        BY <4>1, <4>2
    <3>11. HeldIsDrawn'
      <4>1. id \in drawn
        BY <2>1 DEF IInv, HeldIsDrawn
      <4>. QED
        BY <2>1, <3>2, <3>4, <3>5, <4>1 DEF IInv, HeldIsDrawn
    <3>12. HeldIsPast'
      BY <2>1, <3>3, <3>4, <3>5 DEF IInv, HeldIsPast
    <3>. QED
      BY <3>6, <3>9, <3>10, <3>11, <3>12 DEF IInv
  <2>. QED
    BY <2>3, <2>4
<1>4. ASSUME NEW id \in Ids, NEW committed \in BOOLEAN, Release(id, committed)
      PROVE  IInv'
  <2>. DEFINE k == held[id].key
  <2>1. /\ k \in Keys /\ leases \in [Keys -> Rows] /\ held \in [Ids -> Holds]
    BY <1>0, <1>4, HoldShape DEF TypeOK, Release
  <2>2. /\ held' \in [Ids -> Holds] /\ held'[id] = NoHold
        /\ \A i \in Ids : i # id => held'[i] = held[i]
    BY <1>4, <2>1 DEF Release, Holds
  <2>3. /\ leases' \in [Keys -> Rows]
        /\ \A j \in Keys : leases'[j] = leases[j] \/ (leases[j].id = id /\ leases'[j] = Free)
    BY <1>4, <2>1 DEF Release, Owns, Free, Rows
  <2>4. UNCHANGED <<now, limits, drawn, grants>>
    BY <1>4 DEF Release
  <2>5. TypeOK'
    BY <1>0, <2>2, <2>3, <2>4 DEF TypeOK
  <2>6. \A i \in Ids : held'[i] # NoHold => i # id /\ held'[i] = held[i] /\ held[i].key \in Keys
    BY <2>1, <2>2, HoldShape
  <2>7. HeldIsStored'
    BY <2>3, <2>4, <2>6 DEF IInv, HeldIsStored
  <2>8. RowAge'
    BY <2>3, <2>6, NoIdAssumption DEF IInv, RowAge, Free
  <2>9. HeldIsDrawn'
    BY <2>2, <2>3, <2>4, <2>6 DEF IInv, HeldIsDrawn, Free
  <2>10. HeldIsPast'
    BY <1>0, <2>2, <2>4 DEF IInv, HeldIsPast, NoHold, TypeOK
  <2>. QED
    BY <2>5, <2>7, <2>8, <2>9, <2>10 DEF IInv
<1>5. CASE Tick
  <2>1. TypeOK'
    BY <1>0, <1>5 DEF TypeOK, Tick
  <2>2. HeldIsStored' /\ HeldIsPast'
    <3>1. \A id \in Ids : held[id].expires \in Nat /\ held[id].at \in Nat
      BY <1>0, HoldShape DEF TypeOK
    <3>. QED
      BY <1>0, <1>5, <3>1 DEF IInv, HeldIsStored, HeldIsPast, Tick, TypeOK
  <2>3. RowAge' /\ HeldIsDrawn'
    BY <1>5 DEF IInv, RowAge, HeldIsDrawn, Tick
  <2>. QED
    BY <2>1, <2>2, <2>3 DEF IInv
<1>6. CASE UNCHANGED vars
  BY <1>6 DEF vars, IInv, TypeOK, HeldIsStored, RowAge, HeldIsDrawn, HeldIsPast
<1>. QED
  BY <1>1, <1>2, <1>3, <1>4, <1>5, <1>6 DEF Next

\* Every behaviour keeps the inductive invariant.
THEOREM Invariance == Spec => []IInv
<1>. QED
  BY InitIInv, NextIInv, PTL DEF Spec

\* Tables and beliefs keep their types, the accepted count within PerMinute.
THEOREM TypeCorrect == Spec => []TypeOK
<1>1. IInv => TypeOK
  BY DEF IInv
<1>. QED
  BY <1>1, Invariance, PTL

\* The lease a worker knows to be unexpired is backed by its row.
THEOREM HeldLeasesAreStored == Spec => []HeldIsStored
<1>1. IInv => HeldIsStored
  BY DEF IInv
<1>. QED
  BY <1>1, Invariance, PTL

\* Workers of any replicas that hold unexpired leases exclude each other: both
\* would be the identifier of the same row.
THEOREM HoldersAreExclusive == Spec => []HoldersExclude
<1>1. HeldIsStored => HoldersExclude
  BY DEF HeldIsStored, HoldersExclude
<1>. QED
  BY <1>1, HeldLeasesAreStored, PTL

\* A live row leaves the table only in its own worker's release: sweeps are at
\* past times, inserts need a free key and renewals keep the identifier.
THEOREM LiveRowsStay == Spec => LiveRowsAreFenced
<1>1. ASSUME IInv, [Next]_vars, NEW k \in Keys,
             leases[k].id # NoId, leases[k].expires > now, leases'[k].id # leases[k].id
      PROVE  held[leases[k].id] # NoHold /\ held'[leases[k].id] = NoHold
  <2>. USE <1>1
  <2>0. /\ now \in Nat /\ leases \in [Keys -> Rows] /\ held \in [Ids -> Holds]
        /\ leases[k].expires \in Nat
    BY DEF IInv, TypeOK, Rows
  <2>1. ASSUME NEW kind \in Kinds, NEW t \in Started(1), NEW s \in Subjects, NEW row,
               leases' = Swept(leases, kind, t) \/
                 (/\ Swept(leases, kind, t)[<<kind, s>>].id = NoId
                  /\ leases' = [Swept(leases, kind, t) EXCEPT ![<<kind, s>>] = row])
        PROVE  FALSE
    <3>1. t \in Nat /\ t <= now
      BY <2>0 DEF Started
    <3>2. Swept(leases, kind, t) \in [Keys -> Rows] /\ Swept(leases, kind, t)[k] = leases[k]
      BY <2>0, <3>1, SweptShape
    <3>. QED
      BY <2>1, <3>2
  <2>2. ASSUME NEW s \in Subjects, NEW id \in Ids, NEW t \in Started(1), NEW seen \in BOOLEAN,
               AcquireVoice(s, id, t, seen)
        PROVE  FALSE
    BY <2>1, <2>2 DEF AcquireVoice, Kinds
  <2>3. ASSUME NEW s \in Subjects, NEW id \in Ids, NEW t \in Started(1), NEW seen \in BOOLEAN,
               AcquireAgent(s, id, t, seen)
        PROVE  FALSE
    BY <2>1, <2>3 DEF AcquireAgent, Kinds
  <2>4. ASSUME NEW id \in Ids, NEW t \in Started(held[id].at), NEW seen \in BOOLEAN,
               Renew(id, t, seen)
        PROVE  FALSE
    BY <2>0, <2>4 DEF Renew, Renewable, Owns, Lease
  <2>5. ASSUME NEW id \in Ids, NEW committed \in BOOLEAN, Release(id, committed)
        PROVE  held[leases[k].id] # NoHold /\ held'[leases[k].id] = NoHold
    <3>1. leases[k].id = id
      BY <2>0, <2>5 DEF Release, Owns, Free
    <3>. QED
      BY <2>0, <2>5, <3>1 DEF Release
  <2>6. CASE Tick \/ UNCHANGED vars
    BY <2>6 DEF Tick, vars
  <2>. QED
    BY <2>2, <2>3, <2>4, <2>5, <2>6 DEF Next
<1>2. IInv /\ [Next]_vars =>
        [\A k \in Keys : LET id == leases[k].id IN
           id # NoId /\ leases[k].expires > now /\ leases'[k].id # id
             => held[id] # NoHold /\ held'[id] = NoHold]_vars
  BY <1>1
<1>. QED
  BY <1>2, Invariance, PTL DEF Spec, LiveRowsAreFenced
=============================================================================
