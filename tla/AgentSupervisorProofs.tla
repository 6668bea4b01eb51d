----------------------- MODULE AgentSupervisorProofs ------------------------
(***************************************************************************)
(* Proofs of the safety invariants of AgentSupervisor for every bound on   *)
(* faults and changes.  IInv ties, at each point of the worker, the core's *)
(* state to the action in hand and to the session that exists.             *)
(***************************************************************************)
EXTENDS AgentSupervisor, TLAPS

\* Targets of a stop; none of them expects a session.
Targets == {"WAIT_NETWORK", "REFRESHING", "BACKOFF"}

\* The action in hand is the one the core's state waits for, and a session exists
\* exactly in the states that own one.
Agrees(c, a, p) ==
  /\ a = "STOP" <=> c.st = "STOPPING"
  /\ a = "REFRESH" <=> c.st = "REFRESHING"
  /\ a # "START"
  /\ p # "none" <=> c.st \in Live \cup {"STOPPING"}

WorkerInv ==
  /\ core.after \in Targets
  /\ pc = "enter" => core.st = "WAIT_NETWORK" /\ product = "none"
  /\ pc = "run" => stopping \/ Agrees(core, action, product)
  /\ pc = "wait" => Agrees(core, "NONE", product)
  /\ pc = "stop" => stopping \/ core.st = "STOPPING"
  /\ pc = "refresh" => core.st = "REFRESHING" /\ product = "none"
  /\ pc = "create" => core.st = "STARTING" /\ product = "none"
  /\ pc = "start" => core.st = "STARTING" /\ product = "created"
  /\ pc = "stopped" => product = "none"
  /\ creds => pc = "create"

WakeInv ==
  \/ core.net = network
  \/ "WAKE" \in bits
  \/ pc = "enter"
  \/ stopping /\ pc # "wait"

ReportInv ==
  pc \in {"start", "run", "wait"} /\ product # "none" /\ ~stopping /\ core.st # "STOPPING" =>
    /\ failed => "CLIENT_FAILED" \in bits
    /\ hello /\ ~failed => "CLIENT_READY" \in bits \/ core.st = "ONLINE"

StopBitInv == "STOP" \in bits => stopping

IInv == TypeOK /\ WorkerInv /\ WakeInv /\ ReportInv /\ StopBitInv
-----------------------------------------------------------------------------
\* What each core function returns.

LEMMA RetryTarget ==
  ASSUME NEW c \in Cores
  PROVE  retry_target(c) \in {"WAIT_NETWORK", "BACKOFF"}
BY DEF retry_target

\* Each of them keeps Agrees when the action in hand is replaced by its own.
Acc(r, a) == IF r.act # "NONE" THEN r.act ELSE a

Products == {"none", "created", "started"}

GoodCore(c) == c \in Cores /\ c.after \in Targets

LEMMA SetNetwork ==
  ASSUME NEW c, GoodCore(c), NEW n \in BOOLEAN, NEW p \in Products, Agrees(c, "NONE", p)
  PROVE  LET r == set_network(c, n) IN
         /\ GoodCore(r.core) /\ r.core.net = n
         /\ r.act \in {"NONE", "STOP", "REFRESH"}
         /\ Agrees(r.core, r.act, p)
         /\ c.st \in Live => r.core.st \in {c.st, "STOPPING"}
BY DEF set_network, Then, GoodCore, Cores, States, Live, Targets, Agrees, Products

LEMMA EntitlementChanged ==
  ASSUME NEW c, GoodCore(c), NEW a \in Actions, NEW p \in Products, Agrees(c, a, p)
  PROVE  LET r == entitlement_changed(c) IN
         /\ GoodCore(r.core) /\ r.core.net = c.net
         /\ r.act \in {"NONE", "REFRESH"}
         /\ Agrees(r.core, Acc(r, a), p)
         /\ c.st \in Live \cup {"STOPPING"} => r.core = c
BY DEF entitlement_changed, Then, GoodCore, Cores, States, Live, Targets, Agrees, Products, Acc, Actions

LEMMA Disconnected ==
  ASSUME NEW c, GoodCore(c), NEW a \in Actions, NEW p \in Products, Agrees(c, a, p)
  PROVE  LET r == disconnected(c) IN
         /\ GoodCore(r.core) /\ r.core.net = c.net
         /\ r.act \in {"NONE", "STOP"}
         /\ Agrees(r.core, Acc(r, a), p)
         /\ c.st \in Live \cup {"STOPPING"} => r.core.st = "STOPPING"
BY RetryTarget DEF disconnected, Then, GoodCore, Cores, States, Live, Targets, Agrees, Products, Acc, Actions

LEMMA Ready ==
  ASSUME NEW c, GoodCore(c), NEW a \in Actions, NEW p \in Products, Agrees(c, a, p)
  PROVE  LET d == core_ready(c) IN
         /\ GoodCore(d) /\ d.net = c.net
         /\ Agrees(d, a, p)
         /\ c.st \in Live => d.st = "ONLINE"
         /\ c.st = "STOPPING" => d = c
BY DEF core_ready, GoodCore, Cores, States, Live, Targets, Agrees, Products, Actions

LEMMA Poll ==
  ASSUME NEW c, GoodCore(c), NEW due \in BOOLEAN, NEW p \in Products, Agrees(c, "NONE", p)
  PROVE  LET r == core_poll(c, due) IN
         /\ GoodCore(r.core) /\ r.core.net = c.net
         /\ r.act \in {"NONE", "STOP", "REFRESH"}
         /\ Agrees(r.core, r.act, p)
         /\ c.st \in Live => r.core.st \in {c.st, "STOPPING"}
BY DEF core_poll, Then, GoodCore, Cores, States, Live, Targets, Agrees, Products

\* The whole of the loop's reaction to the bits it took.
LEMMA OnBits ==
  ASSUME NEW c, GoodCore(c), NEW due \in BOOLEAN, NEW p \in Products, Agrees(c, "NONE", p),
         network \in BOOLEAN
  PROVE  LET r == on_bits(c, due) IN
         /\ GoodCore(r.core)
         /\ r.core.net = IF "WAKE" \in bits THEN network ELSE c.net
         /\ r.act \in {"NONE", "STOP", "REFRESH"}
         /\ Agrees(r.core, r.act, p)
         /\ c.st \in Live /\ "CLIENT_FAILED" \in bits => r.core.st = "STOPPING"
         /\ c.st \in Live /\ "CLIENT_READY" \in bits => r.core.st \in {"ONLINE", "STOPPING"}
         /\ c.st \in Live => r.core.st \in {c.st, "ONLINE", "STOPPING"}
<1> DEFINE n == IF "WAKE" \in bits THEN set_network(c, network) ELSE Then(c, "NONE")
           e == IF "ENTITLEMENT_CHANGED" \in bits THEN entitlement_changed(n.core)
                ELSE Then(n.core, "NONE")
           d == IF "CLIENT_FAILED" \in bits THEN disconnected(e.core)
                ELSE IF "CLIENT_READY" \in bits THEN Then(core_ready(e.core), "NONE")
                ELSE Then(e.core, "NONE")
           a == IF d.act # "NONE" THEN d.act ELSE IF e.act # "NONE" THEN e.act ELSE n.act
<1>0. \A x, y : Then(x, y).core = x /\ Then(x, y).act = y
  BY DEF Then
<1>1. /\ GoodCore(n.core) /\ n.core.net = IF "WAKE" \in bits THEN network ELSE c.net
      /\ n.act \in {"NONE", "STOP", "REFRESH"} /\ Agrees(n.core, n.act, p)
      /\ c.st \in Live => n.core.st \in {c.st, "STOPPING"}
  BY <1>0, SetNetwork
<1> HIDE DEF n
<1>2. n.act \in Actions
  BY <1>1 DEF Actions
<1>3. /\ GoodCore(e.core) /\ e.core.net = n.core.net
      /\ e.act \in {"NONE", "REFRESH"} /\ Agrees(e.core, Acc(e, n.act), p)
      /\ n.core.st \in Live \cup {"STOPPING"} => e.core = n.core
  BY <1>0, <1>1, <1>2, EntitlementChanged DEF Acc
<1> HIDE DEF e
<1>4. Acc(e, n.act) \in Actions
  BY <1>2, <1>3 DEF Acc, Actions
<1>5. /\ GoodCore(d.core) /\ d.core.net = e.core.net
      /\ d.act \in {"NONE", "STOP"} /\ Agrees(d.core, Acc(d, Acc(e, n.act)), p)
      /\ e.core.st \in Live \cup {"STOPPING"} =>
           /\ "CLIENT_FAILED" \in bits => d.core.st = "STOPPING"
           /\ "CLIENT_READY" \in bits => d.core.st \in {"ONLINE", "STOPPING"}
           /\ d.core.st \in {e.core.st, "ONLINE", "STOPPING"}
  <2>1. CASE "CLIENT_FAILED" \in bits
    BY <2>1, <1>3, <1>4, Disconnected
  <2>2. CASE "CLIENT_FAILED" \notin bits /\ "CLIENT_READY" \in bits
    BY <2>2, <1>0, <1>3, <1>4, Ready DEF Acc
  <2>3. CASE "CLIENT_FAILED" \notin bits /\ "CLIENT_READY" \notin bits
    BY <2>3, <1>0, <1>3 DEF Acc
  <2> QED BY <2>1, <2>2, <2>3
<1> HIDE DEF d
<1>6. a = Acc(d, Acc(e, n.act)) /\ a \in {"NONE", "STOP", "REFRESH"}
  BY <1>1, <1>3, <1>5 DEF Acc
<1>7. on_bits(c, due) = IF a = "NONE" THEN core_poll(d.core, due) ELSE Then(d.core, a)
  BY DEF on_bits, n, e, d
<1> HIDE DEF a
<1>8. c.st \in Live =>
        /\ "CLIENT_FAILED" \in bits => d.core.st = "STOPPING"
        /\ "CLIENT_READY" \in bits => d.core.st \in {"ONLINE", "STOPPING"}
        /\ d.core.st \in {c.st, "ONLINE", "STOPPING"}
  BY <1>1, <1>3, <1>5 DEF Live
<1>9. CASE a # "NONE"
  BY <1>9, <1>0, <1>1, <1>3, <1>5, <1>6, <1>7, <1>8
<1>10. CASE a = "NONE"
  <2>1. Agrees(d.core, "NONE", p)
    BY <1>10, <1>5, <1>6
  <2>2. d.core.st # "STOPPING"
    BY <2>1 DEF Agrees
  <2> QED BY <1>10, <2>1, <2>2, <1>1, <1>3, <1>5, <1>7, <1>8, Poll DEF Live
<1> QED BY <1>9, <1>10
-----------------------------------------------------------------------------
LEMMA InitIInv == Init => IInv
<1> SUFFICES ASSUME Init PROVE IInv
  OBVIOUS
<1>1. TypeOK
  <2>1. /\ creds \in BOOLEAN /\ network \in BOOLEAN /\ ready \in BOOLEAN
        /\ stopping \in BOOLEAN /\ released \in BOOLEAN
        /\ failed \in BOOLEAN /\ hello \in BOOLEAN
        /\ entitled \in BOOLEAN /\ notify \in BOOLEAN
    BY DEF Init
  <2>2. faults \in 0 .. MaxFaults /\ changes \in 0 .. MaxChanges
    BY BoundsAssumption DEF Init
  <2>3. core \in Cores /\ action \in Actions /\ bits \subseteq Bits
    BY DEF Init, Cores, States, Live, Actions, Bits
  <2> QED BY <2>1, <2>2, <2>3 DEF Init, TypeOK
<1>2. WorkerInv
  BY DEF Init, WorkerInv, Targets
<1> QED BY <1>1, <1>2 DEF Init, IInv, WakeInv, ReportInv, StopBitInv

\* A step of another task leaves the worker's part alone.
LEMMA WorkerUnchanged ==
  ASSUME WorkerInv, UNCHANGED worker, stopping => stopping'
  PROVE  WorkerInv'
BY DEF WorkerInv, worker, Agrees

LEMMA NextIInv == IInv /\ [Next]_vars => IInv'
<1> SUFFICES ASSUME IInv, [Next]_vars PROVE IInv'
  OBVIOUS
<1> USE DEF IInv
<1>a. Fault => faults' \in 0 .. MaxFaults
  BY BoundsAssumption DEF Fault, TypeOK
<1>b. GoodCore(core) /\ network \in BOOLEAN /\ product \in Products
  BY DEF TypeOK, WorkerInv, GoodCore, Products
<1>1. CASE worker_enter
  <2>1. Agrees(core, "NONE", product)
    BY <1>1 DEF worker_enter, WorkerInv, Agrees, Live
  <2>2. /\ GoodCore(core') /\ core'.net = network /\ action' \in {"NONE", "STOP", "REFRESH"}
        /\ Agrees(core', action', product)
    BY <1>1, <1>b, <2>1, SetNetwork DEF worker_enter, Apply
  <2>3. product = "none"
    BY <1>1 DEF worker_enter, WorkerInv
  <2> QED BY <1>1, <2>2, <2>3 DEF worker_enter, TypeOK, WorkerInv, WakeInv, ReportInv, StopBitInv,
                             GoodCore, Actions, atomics, world
<1>2. CASE process_actions
  BY <1>2 DEF process_actions, TypeOK, WorkerInv, WakeInv, ReportInv, StopBitInv, Agrees, Live,
              atomics, world
<1>3. CASE stop_product
  <2>1. CASE stopping
    BY <1>3, <2>1 DEF stop_product, TypeOK, WorkerInv, WakeInv, ReportInv, StopBitInv, Actions, world
  <2>2. CASE ~stopping
    <3>1. core.st = "STOPPING" /\ core.after \in Targets /\ core \in Cores
      BY <1>3, <2>2 DEF stop_product, WorkerInv, TypeOK
    <3>2. /\ core' \in Cores /\ core'.after = core.after /\ core'.net = core.net
          /\ core'.st = core.after
          /\ action' = IF core.after = "REFRESHING" THEN "REFRESH" ELSE "NONE"
      BY <1>3, <2>2, <3>1 DEF stop_product, Apply, session_stopped, Then, Cores, Targets, States
    <3>3. Agrees(core', action', "none")
      BY <3>1, <3>2 DEF Agrees, Targets, Live
    <3>4. TypeOK'
      <4>1. ready' \in BOOLEAN
        BY <1>3 DEF stop_product, TypeOK
      <4> QED BY <1>3, <2>2, <3>2, <4>1 DEF stop_product, TypeOK, Actions, world
    <3>5. WorkerInv'
      BY <1>3, <2>2, <3>1, <3>2, <3>3 DEF stop_product, WorkerInv
    <3> QED BY <1>3, <2>2, <3>2, <3>4, <3>5 DEF stop_product, WakeInv, ReportInv, StopBitInv, world
  <2> QED BY <2>1, <2>2 DEF TypeOK
<1>4. CASE stop_retry
  BY <1>4, <1>a, WorkerUnchanged DEF stop_retry, TypeOK, WakeInv, ReportInv, StopBitInv, worker, atomics
<1>5. CASE ServiceAnswers
  BY <1>5, <1>a, WorkerUnchanged DEF ServiceAnswers, TypeOK, WakeInv, ReportInv, StopBitInv, worker, atomics
<1>6. CASE refresh_credentials
  <2>1. core.st = "REFRESHING" /\ product = "none" /\ core \in Cores /\ core.after \in Targets
    BY <1>6 DEF refresh_credentials, WorkerInv, TypeOK
  <2>2. /\ core' \in Cores /\ core'.after \in Targets
        /\ action' \in {"NONE", "START"}
        /\ core'.net = core.net \/ core'.net = network
    <3>1. CASE stopping
      BY <1>6, <2>1, <3>1 DEF refresh_credentials
    <3>2. CASE ~stopping /\ ~network
      <4>1. core' = [core EXCEPT !.net = FALSE, !.st = "WAIT_NETWORK"] /\ action' = "NONE"
        BY <1>6, <2>1, <3>2 DEF refresh_credentials, set_network, Then, Live
      <4>2. core'.net = FALSE /\ network = FALSE
        BY <4>1, <3>2, <2>1, <1>b DEF Cores
      <4> QED BY <4>1, <4>2, <2>1 DEF Cores, States
    <3>3. CASE ~stopping /\ network
      <4>1. CASE answer = "denied"
        BY <1>6, <2>1, <3>3, <4>1
           DEF refresh_credentials, Apply, entitlement_denied, Then, Cores, States
      <4>2. CASE answer # "denied"
        <5>1. core' \in {[core EXCEPT !.st = "STARTING"], [core EXCEPT !.st = retry_target(core)]}
              /\ action' \in {"NONE", "START"}
          BY <1>6, <2>1, <3>3, <4>2 DEF refresh_credentials, Apply, credentials_result, Then
        <5> QED BY <5>1, <2>1, RetryTarget DEF Cores, States, Live
      <4> QED BY <4>1, <4>2
    <3> QED BY <3>1, <3>2, <3>3
  <2>3. action' = "START" => core'.st = "STARTING"
    BY <1>6, <2>1 DEF refresh_credentials, Apply, entitlement_denied, credentials_result, Then, Cores
  <2>4. action' = "NONE" => stopping \/ Agrees(core', action', "none")
    BY <1>6, <2>1, RetryTarget
       DEF refresh_credentials, Apply, set_network, entitlement_denied, credentials_result, Then,
           Cores, Live, Agrees
  <2> QED BY <1>6, <2>1, <2>2, <2>3, <2>4
          DEF refresh_credentials, TypeOK, WorkerInv, WakeInv, ReportInv, StopBitInv, Actions, atomics
<1>7. CASE create_session
  <2>1. core.st = "STARTING" /\ product = "none" /\ core \in Cores /\ core.after \in Targets
    BY <1>7 DEF create_session, WorkerInv, TypeOK
  <2>2. CASE product' = "created" /\ pc' = "start" /\ UNCHANGED <<core, action, faults>>
    BY <1>7, <2>1, <2>2 DEF create_session, TypeOK, WorkerInv, WakeInv, ReportInv, StopBitInv, atomics
  <2>3. ASSUME NEW p \in {"none", "created"}, product' = p, Fault,
               Apply(start_failed(core, p # "none")), pc' = "run"
        PROVE  IInv'
    <3>1. /\ core' \in Cores /\ core'.after \in Targets /\ core'.net = core.net
          /\ action' \in {"NONE", "STOP"} /\ Agrees(core', action', p)
          /\ p # "none" => core'.st = "STOPPING"
      BY <2>1, <2>3, RetryTarget DEF Apply, start_failed, Then, Cores, States, Targets, Live, Agrees
    <3>2. TypeOK'
      BY <1>7, <1>a, <2>3, <3>1 DEF create_session, TypeOK, Actions, atomics
    <3>3. WorkerInv'
      BY <1>7, <2>3, <3>1 DEF create_session, WorkerInv
    <3>4. WakeInv' /\ StopBitInv'
      BY <1>7, <2>3, <3>1 DEF create_session, WakeInv, StopBitInv, atomics
    <3>5. ReportInv'
      BY <1>7, <2>3, <3>1 DEF create_session, ReportInv
    <3> QED BY <3>2, <3>3, <3>4, <3>5
  <2> QED BY <1>7, <2>2, <2>3 DEF create_session
<1>8. CASE start_session
  <2>1. /\ core.st = "STARTING" /\ product = "created" /\ core \in Cores /\ core.after \in Targets
        /\ ~creds
    BY <1>8 DEF start_session, WorkerInv, TypeOK
  <2>2. CASE product' = "started" /\ core' = core /\ action' = "NONE" /\ UNCHANGED faults
    <3>1. Agrees(core', action', product')
      BY <2>1, <2>2 DEF Agrees, Live
    <3> QED BY <1>8, <2>1, <2>2, <3>1
            DEF start_session, TypeOK, WorkerInv, WakeInv, ReportInv, StopBitInv, Actions, atomics
  <2>3. CASE Fault /\ product' = product /\ Apply(start_failed(core, TRUE))
    <3>1. /\ core' \in Cores /\ core'.after \in Targets /\ core'.net = core.net
          /\ core'.st = "STOPPING" /\ action' = "STOP"
      BY <2>1, <2>3, RetryTarget DEF Apply, start_failed, Then, Cores, States, Targets
    <3>2. Agrees(core', action', product')
      BY <2>1, <2>3, <3>1 DEF Agrees, Live
    <3> QED BY <1>8, <1>a, <2>1, <2>3, <3>1, <3>2
            DEF start_session, TypeOK, WorkerInv, WakeInv, ReportInv, StopBitInv, Actions, atomics
  <2> QED BY <1>8, <2>2, <2>3 DEF start_session
<1>9. ASSUME NEW due \in BOOLEAN, wait_bits(due) PROVE IInv'
  <2>0. /\ Agrees(core, "NONE", product) /\ ~creds
        /\ faults' \in 0 .. MaxFaults
    BY <1>9, <1>a DEF wait_bits, WorkerInv, TypeOK
  <2>1. CASE "STOP" \in bits \/ stopping
    BY <1>9, <2>0, <2>1 DEF wait_bits, TypeOK, WorkerInv, WakeInv, ReportInv, StopBitInv, Actions
  <2>2. CASE ~("STOP" \in bits \/ stopping)
    <3>1. core' = on_bits(core, due).core /\ action' = on_bits(core, due).act
      BY <1>9, <2>2 DEF wait_bits, Apply
    <3>2. /\ GoodCore(core')
          /\ core'.net = IF "WAKE" \in bits THEN network ELSE core.net
          /\ action' \in {"NONE", "STOP", "REFRESH"}
          /\ Agrees(core', action', product)
          /\ core.st \in Live /\ "CLIENT_FAILED" \in bits => core'.st = "STOPPING"
          /\ core.st \in Live /\ "CLIENT_READY" \in bits => core'.st \in {"ONLINE", "STOPPING"}
          /\ core.st \in Live => core'.st \in {core.st, "ONLINE", "STOPPING"}
      BY <1>b, <2>0, <3>1, OnBits
    <3>3. core'.net = network
      BY <1>9, <2>2, <3>2 DEF WakeInv, wait_bits
    <3>4. ReportInv'
      <4>1. product # "none" => core.st \in Live
        BY <2>0 DEF Agrees, Live
      <4> QED BY <1>9, <2>2, <3>2, <4>1 DEF wait_bits, ReportInv, Live
    <3> QED BY <1>9, <2>0, <2>2, <3>2, <3>3, <3>4
            DEF wait_bits, TypeOK, WorkerInv, WakeInv, StopBitInv, GoodCore, Actions
  <2> QED BY <2>1, <2>2
<1>10. ASSUME NEW available \in BOOLEAN, set_network_available(available) PROVE IInv'
  <2>1. changes' \in 0 .. MaxChanges
    BY <1>10, BoundsAssumption DEF set_network_available, TypeOK
  <2> QED BY <1>10, <2>1, WorkerUnchanged
          DEF set_network_available, TypeOK, Bits, WakeInv, ReportInv, StopBitInv, worker
<1>11. CASE interrupt
  BY <1>11, WorkerUnchanged DEF interrupt, TypeOK, Bits, WakeInv, ReportInv, StopBitInv, worker, world
<1>12. CASE Entitle
  <2>1. changes' \in 0 .. MaxChanges
    BY <1>12, BoundsAssumption DEF Entitle, TypeOK
  <2> QED BY <1>12, <2>1, WorkerUnchanged
          DEF Entitle, TypeOK, WakeInv, ReportInv, StopBitInv, worker, atomics
<1>13. CASE notify_entitlement_changed
  <2>1. bits' \subseteq Bits /\ bits \subseteq bits'
    BY <1>13 DEF notify_entitlement_changed, TypeOK, Bits
  <2>a. notify' \in BOOLEAN
    BY <1>13 DEF notify_entitlement_changed, TypeOK
  <2>2. TypeOK'
    BY <1>13, <2>a, <2>1 DEF notify_entitlement_changed, TypeOK, worker
  <2>3. WorkerInv'
    BY <1>13, WorkerUnchanged DEF notify_entitlement_changed
  <2>4. WakeInv'
    BY <1>13, <2>1 DEF notify_entitlement_changed, WakeInv, worker
  <2>5. ReportInv'
    BY <1>13, <2>1 DEF notify_entitlement_changed, ReportInv, worker
  <2>6. StopBitInv'
    BY <1>13 DEF notify_entitlement_changed, StopBitInv
  <2> QED BY <2>2, <2>3, <2>4, <2>5, <2>6
<1>14. CASE client_ready
  <2>1. bits' \subseteq Bits /\ bits \subseteq bits'
    BY <1>14 DEF client_ready, TypeOK, Bits
  <2>a. hello' \in BOOLEAN /\ ready' \in BOOLEAN
    BY <1>14 DEF client_ready, TypeOK
  <2>2. TypeOK'
    BY <1>14, <2>a, <2>1 DEF client_ready, TypeOK, worker
  <2>3. WorkerInv'
    BY <1>14, WorkerUnchanged DEF client_ready
  <2>4. WakeInv'
    BY <1>14, <2>1 DEF client_ready, WakeInv, worker
  <2>5. ReportInv'
    BY <1>14, <2>1 DEF client_ready, ReportInv, worker
  <2>6. StopBitInv'
    BY <1>14 DEF client_ready, StopBitInv
  <2> QED BY <2>2, <2>3, <2>4, <2>5, <2>6
<1>15. CASE client_failed
  <2>1. bits' \subseteq Bits /\ bits \subseteq bits'
    BY <1>15 DEF client_failed, TypeOK, Bits
  <2>a. failed' \in BOOLEAN /\ ready' \in BOOLEAN
    BY <1>15 DEF client_failed, TypeOK
  <2>2. TypeOK'
    BY <1>15, <1>a, <2>a, <2>1 DEF client_failed, TypeOK, worker
  <2>3. WorkerInv'
    BY <1>15, WorkerUnchanged DEF client_failed
  <2>4. WakeInv'
    BY <1>15, <2>1 DEF client_failed, WakeInv, worker
  <2>5. ReportInv'
    BY <1>15, <2>1 DEF client_failed, ReportInv, worker
  <2>6. StopBitInv'
    BY <1>15 DEF client_failed, StopBitInv
  <2> QED BY <2>2, <2>3, <2>4, <2>5, <2>6
<1>16. CASE stop
  BY <1>16, WorkerUnchanged DEF stop, TypeOK, WakeInv, ReportInv, StopBitInv, worker, world
<1>17. CASE stop_signal
  <2>1. bits' \subseteq Bits /\ bits \subseteq bits'
    BY <1>17 DEF stop_signal, TypeOK, Bits
  <2>a. ready' \in BOOLEAN
    BY <1>17 DEF stop_signal, TypeOK
  <2>2. TypeOK'
    BY <1>17, <2>a, <2>1 DEF stop_signal, TypeOK, worker, world
  <2>3. WorkerInv'
    BY <1>17, WorkerUnchanged DEF stop_signal
  <2>4. WakeInv'
    BY <1>17, <2>1 DEF stop_signal, WakeInv, worker
  <2>5. ReportInv'
    BY <1>17, <2>1 DEF stop_signal, ReportInv, worker, world
  <2>6. StopBitInv'
    BY <1>17 DEF stop_signal, StopBitInv
  <2> QED BY <2>2, <2>3, <2>4, <2>5, <2>6
<1>18. CASE stop_returns
  BY <1>18, WorkerUnchanged DEF stop_returns, TypeOK, WakeInv, ReportInv, StopBitInv, worker, world
<1>19. CASE UNCHANGED vars
  BY <1>19, WorkerUnchanged DEF vars, TypeOK, WakeInv, ReportInv, StopBitInv, worker, atomics, world
<1> QED BY <1>1, <1>2, <1>3, <1>4, <1>5, <1>6, <1>7, <1>8, <1>9, <1>10, <1>11, <1>12, <1>13,
           <1>14, <1>15, <1>16, <1>17, <1>18, <1>19 DEF Next, Worker, Ended

LEMMA IInvImplies ==
  IInv => TypeOK /\ NothingPending /\ CredentialsErased /\ NoLostWake /\ NoLostReport
BY DEF IInv, TypeOK, WorkerInv, WakeInv, ReportInv, NothingPending, CredentialsErased, NoLostWake,
       NoLostReport, Agrees, Live

LEMMA IInvHolds == Safety => []IInv
BY InitIInv, NextIInv, PTL DEF Safety

\* The supervisor's variables keep their types.
THEOREM TypeCorrect == Safety => []TypeOK
BY IInvHolds, IInvImplies, PTL

\* The worker never sleeps in REFRESHING or STOPPING, has a session exactly in
\* STARTING and ONLINE, and creates no session over another one.
THEOREM NothingIsPending == Safety => []NothingPending
BY IInvHolds, IInvImplies, PTL

\* Outside the creation of a session no credential is in the buffer.
THEOREM CredentialsAreErased == Safety => []CredentialsErased
BY IInvHolds, IInvImplies, PTL

\* No change of the network is lost between the Wi-Fi task and the worker.
THEOREM NoWakeIsLost == Safety => []NoLostWake
BY IInvHolds, IInvImplies, PTL

\* No failure and no READY of the current session is lost.
THEOREM NoReportIsLost == Safety => []NoLostReport
BY IInvHolds, IInvImplies, PTL
=============================================================================
