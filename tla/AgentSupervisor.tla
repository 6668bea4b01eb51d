-------------------------- MODULE AgentSupervisor ---------------------------
(***************************************************************************)
(* box3_agent_supervisor: the task that keeps one voice session alive.  It *)
(* waits for the network, fetches credentials, creates and starts a        *)
(* session, and stops it when the client fails, the network goes or the    *)
(* credentials near their end.  The task alone touches the core; the       *)
(* Wi-Fi task, the account service, the client's callbacks and the owner's *)
(* stop reach it through event bits and atomics.                           *)
(***************************************************************************)
EXTENDS Naturals

CONSTANTS
  MaxFaults,     \* failures of credentials, start, stop or session, early expiry
  MaxChanges     \* network and entitlement changes

ASSUME BoundsAssumption == MaxFaults \in Nat /\ MaxChanges \in Nat

VARIABLES
  core,          \* st, after, net: box3_agent_supervisor_core_t
  pc, action,    \* where the worker is, and the core action it carries
  product,       \* none, created or started: the voice session
  creds,         \* the credential buffer holds secrets
  bits,          \* event group: input bits
  network, ready, stopping,  \* atomics
  released,      \* stop returned ESP_OK
  failed, hello, \* history: the current session reported a failure, or READY
  entitled,      \* the account service grants the device
  notify,        \* a grant whose entitlement_changed call is still to come
  answer,        \* what the account service answered to the pending refresh
  faults, changes

worker == <<core, pc, action, product, creds>>
atomics == <<bits, network, ready, stopping, released>>
world == <<failed, hello, entitled, notify, answer, faults, changes>>
vars == <<worker, atomics, world>>

Live == {"STARTING", "ONLINE"}
States == Live \cup {"WAIT_NETWORK", "REFRESHING", "BACKOFF", "ENTITLEMENT_BLOCKED", "STOPPING"}
Actions == {"NONE", "REFRESH", "START", "STOP"}
Bits == {"WAKE", "ENTITLEMENT_CHANGED", "CLIENT_FAILED", "CLIENT_READY", "INTERRUPT", "STOP"}
Cores == [st : States, after : States, net : BOOLEAN]

Init ==
  /\ core = [st |-> "WAIT_NETWORK", after |-> "WAIT_NETWORK", net |-> FALSE]
  /\ pc = "enter" /\ action = "NONE"
  /\ product = "none" /\ creds = FALSE
  /\ bits = {} /\ network = FALSE /\ ready = FALSE /\ stopping = FALSE
  /\ released = FALSE
  /\ failed = FALSE /\ hello = FALSE
  /\ entitled \in BOOLEAN /\ notify = FALSE /\ answer = "none"
  /\ faults = 0 /\ changes = 0
-----------------------------------------------------------------------------
\* box3_agent_supervisor_core: pure functions on the core, each with the action
\* it hands back to the worker.

Then(c, a) == [core |-> c, act |-> a]

\* Mutant: losing the network leaves a live session running.
set_network_mutant(c, available) ==
  IF available /\ c.st = "WAIT_NETWORK"
  THEN Then([c EXCEPT !.net = TRUE, !.st = "REFRESHING"], "REFRESH")
  ELSE IF available THEN Then([c EXCEPT !.net = TRUE], "NONE")
  ELSE Then([c EXCEPT !.net = FALSE, !.st = "WAIT_NETWORK"], "NONE")

set_network(c, available) ==
  IF ~available
  THEN IF c.st \in Live
       THEN Then([c EXCEPT !.net = FALSE, !.st = "STOPPING", !.after = "WAIT_NETWORK"], "STOP")
       ELSE IF c.st = "STOPPING"
       THEN Then([c EXCEPT !.net = FALSE, !.after = "WAIT_NETWORK"], "NONE")
       ELSE Then([c EXCEPT !.net = FALSE, !.st = "WAIT_NETWORK"], "NONE")
  ELSE IF c.st = "WAIT_NETWORK"
  THEN Then([c EXCEPT !.net = TRUE, !.st = "REFRESHING"], "REFRESH")
  ELSE IF c.st = "STOPPING" /\ c.after = "WAIT_NETWORK"
  THEN Then([c EXCEPT !.net = TRUE, !.after = "REFRESHING"], "NONE")
  ELSE Then([c EXCEPT !.net = TRUE], "NONE")

retry_target(c) == IF c.net THEN "BACKOFF" ELSE "WAIT_NETWORK"

credentials_result(c, success) ==
  IF c.st # "REFRESHING" THEN Then(c, "NONE")
  ELSE IF success THEN Then([c EXCEPT !.st = "STARTING"], "START")
  ELSE Then([c EXCEPT !.st = retry_target(c)], "NONE")

entitlement_denied(c) ==
  Then(IF c.st = "REFRESHING" THEN [c EXCEPT !.st = "ENTITLEMENT_BLOCKED"] ELSE c, "NONE")

entitlement_changed(c) ==
  IF c.net /\ c.st = "ENTITLEMENT_BLOCKED"
  THEN Then([c EXCEPT !.st = "REFRESHING"], "REFRESH")
  ELSE Then(c, "NONE")

start_failed(c, present) ==
  IF c.st # "STARTING" THEN Then(c, "NONE")
  ELSE IF present
  THEN Then([c EXCEPT !.st = "STOPPING", !.after = retry_target(c)], "STOP")
  ELSE Then([c EXCEPT !.st = retry_target(c)], "NONE")

core_ready(c) == IF c.st = "STARTING" THEN [c EXCEPT !.st = "ONLINE"] ELSE c

disconnected(c) ==
  IF c.st \in Live
  THEN Then([c EXCEPT !.st = "STOPPING", !.after = retry_target(c)], "STOP")
  ELSE Then(c, "NONE")

\* Mutant: the refresh that was waiting for the stop is not asked for.
session_stopped_mutant(c) ==
  Then(IF c.st = "STOPPING" THEN [c EXCEPT !.st = c.after] ELSE c, "NONE")

session_stopped(c) ==
  IF c.st # "STOPPING" THEN Then(c, "NONE")
  ELSE Then([c EXCEPT !.st = c.after], IF c.after = "REFRESHING" THEN "REFRESH" ELSE "NONE")

\* due: the deadline of the current state has passed.
core_poll(c, due) ==
  IF ~c.net \/ ~due THEN Then(c, "NONE")
  ELSE IF c.st = "BACKOFF" THEN Then([c EXCEPT !.st = "REFRESHING"], "REFRESH")
  ELSE IF c.st \in Live
  THEN Then([c EXCEPT !.st = "STOPPING", !.after = "REFRESHING"], "STOP")
  ELSE Then(c, "NONE")

Apply(r) == core' = r.core /\ action' = r.act
-----------------------------------------------------------------------------
\* The worker.

Fault == faults < MaxFaults /\ faults' = faults + 1

worker_enter ==
  /\ pc = "enter"
  /\ Apply(set_network(core, network))
  /\ pc' = "run"
  /\ UNCHANGED <<product, creds, atomics, world>>


\* process_actions, and the check of stopping after it.
process_actions ==
  /\ pc = "run"
  /\ pc' = IF stopping THEN "stop"
           ELSE IF action = "STOP" THEN "stop"
           ELSE IF action = "REFRESH" THEN "refresh"
           ELSE "wait"
  /\ UNCHANGED <<core, action, product, creds, atomics, world>>

\* box3_agent_voice_stop until it succeeds.  Once stopping, the worker is done.
stop_product ==
  /\ pc = "stop"
  /\ product' = "none"
  /\ ready' = IF product = "none" THEN ready ELSE FALSE
  /\ pc' = IF stopping THEN "stopped" ELSE "run"
  /\ IF stopping THEN core' = core /\ action' = "NONE" ELSE Apply(session_stopped(core))
  /\ UNCHANGED <<creds, bits, network, stopping, released, world>>

stop_retry ==
  /\ pc = "stop" /\ product # "none"
  /\ Fault
  /\ UNCHANGED <<worker, atomics, failed, hello, entitled, notify, answer, changes>>

\* The account service answers the refresh: granted, denied or an error.
ServiceAnswers ==
  /\ pc = "refresh" /\ answer = "none"
  /\ \/ answer' = (IF entitled THEN "granted" ELSE "denied") /\ UNCHANGED faults
     \/ answer' = "error" /\ Fault
  /\ UNCHANGED <<worker, atomics, failed, hello, entitled, notify, changes>>

\* The answer reaches the worker: stopping and the network are looked at first.
\* Credentials that are good stay in the buffer until the session is created.
refresh_credentials ==
  /\ pc = "refresh" /\ answer # "none"
  /\ answer' = "none"
  /\ IF stopping THEN core' = core /\ action' = "NONE"
     ELSE IF ~network THEN core' = set_network(core, FALSE).core /\ action' = "NONE"
     ELSE IF answer = "denied" THEN Apply(entitlement_denied(core))
     ELSE Apply(credentials_result(core, answer = "granted"))
  /\ creds' = (action' = "START")
  /\ pc' = IF action' = "START" THEN "create" ELSE "run"
  /\ UNCHANGED <<product, atomics, failed, hello, entitled, notify, faults, changes>>

\* box3_agent_voice_create; a failure may leave a session that has to be stopped.
create_session ==
  /\ pc = "create"
  /\ creds' = FALSE
  /\ failed' = FALSE /\ hello' = FALSE
  /\ \/ product' = "created" /\ pc' = "start" /\ UNCHANGED <<core, action, faults>>
     \/ \E p \in {"none", "created"} :
          /\ product' = p
          /\ Fault
          /\ Apply(start_failed(core, p # "none"))
          /\ pc' = "run"
  /\ UNCHANGED <<atomics, entitled, notify, answer, changes>>

\* box3_agent_voice_start; the client may call back from here on.
start_session ==
  /\ pc = "start"
  /\ pc' = "run"
  /\ \/ product' = "started" /\ core' = core /\ action' = "NONE" /\ UNCHANGED faults
     \/ Fault /\ product' = product /\ Apply(start_failed(core, TRUE))
  /\ UNCHANGED <<creds, atomics, failed, hello, entitled, notify, answer, changes>>

\* Mutant: a failure is looked at only when the client is not ready as well.
on_bits_mutant(c, due) ==
  LET n == IF "WAKE" \in bits THEN set_network(c, network) ELSE Then(c, "NONE")
      e == IF "ENTITLEMENT_CHANGED" \in bits THEN entitlement_changed(n.core) ELSE Then(n.core, "NONE")
      d == IF "CLIENT_READY" \in bits THEN Then(core_ready(e.core), "NONE")
           ELSE IF "CLIENT_FAILED" \in bits THEN disconnected(e.core)
           ELSE Then(e.core, "NONE")
      a == IF d.act # "NONE" THEN d.act ELSE IF e.act # "NONE" THEN e.act ELSE n.act
  IN IF a = "NONE" THEN core_poll(d.core, due) ELSE Then(d.core, a)

\* What the loop makes of the bits it took, in its order: the network, the
\* entitlement, a failure before readiness, and the deadlines if none acted.
on_bits(c, due) ==
  LET n == IF "WAKE" \in bits THEN set_network(c, network) ELSE Then(c, "NONE")
      e == IF "ENTITLEMENT_CHANGED" \in bits THEN entitlement_changed(n.core) ELSE Then(n.core, "NONE")
      d == IF "CLIENT_FAILED" \in bits THEN disconnected(e.core)
           ELSE IF "CLIENT_READY" \in bits THEN Then(core_ready(e.core), "NONE")
           ELSE Then(e.core, "NONE")
      a == IF d.act # "NONE" THEN d.act ELSE IF e.act # "NONE" THEN e.act ELSE n.act
  IN IF a = "NONE" THEN core_poll(d.core, due) ELSE Then(d.core, a)

\* xEventGroupWaitBits returns and clears the bits, or times out.  Credentials
\* last for a minute or more: that they near their end before the session is
\* ready counts as a fault.
wait_bits(due) ==
  /\ pc = "wait"
  /\ bits # {} \/ due
  /\ bits' = {}
  /\ pc' = "run"
  /\ IF "STOP" \in bits \/ stopping THEN core' = core /\ action' = "NONE"
     ELSE Apply(on_bits(core, due))
  /\ IF due /\ core.st = "STARTING" THEN Fault ELSE UNCHANGED faults
  /\ UNCHANGED <<product, creds, network, ready, stopping, released>>
  /\ UNCHANGED <<failed, hello, entitled, notify, answer, changes>>
-----------------------------------------------------------------------------
\* The other tasks.

\* Mutant: the worker is woken only when the network comes.
set_network_available_mutant(available) ==
  /\ ~stopping /\ available # network
  /\ changes < MaxChanges /\ changes' = changes + 1
  /\ network' = available
  /\ ready' = (ready /\ available)
  /\ bits' = IF available THEN bits \cup {"WAKE"} ELSE bits
  /\ UNCHANGED <<worker, stopping, released, failed, hello, entitled, notify, answer, faults>>

set_network_available(available) ==
  /\ ~stopping /\ available # network
  /\ changes < MaxChanges /\ changes' = changes + 1
  /\ network' = available
  /\ ready' = (ready /\ available)
  /\ bits' = bits \cup {"WAKE"}
  /\ UNCHANGED <<worker, stopping, released, failed, hello, entitled, notify, answer, faults>>

interrupt ==
  /\ ~stopping /\ ready
  /\ bits' = bits \cup {"INTERRUPT"}
  /\ UNCHANGED <<worker, network, ready, stopping, released, world>>

\* The account changes; a grant is followed by a call of entitlement_changed.
Entitle ==
  /\ changes < MaxChanges /\ changes' = changes + 1
  /\ entitled' = ~entitled
  /\ notify' = ~entitled
  /\ UNCHANGED <<worker, atomics, failed, hello, answer, faults>>

notify_entitlement_changed ==
  /\ notify
  /\ notify' = FALSE
  /\ bits' = IF stopping THEN bits ELSE bits \cup {"ENTITLEMENT_CHANGED"}
  /\ UNCHANGED <<worker, network, ready, stopping, released, failed, hello, entitled, answer, faults, changes>>

\* product_client_event, from the client's task while the session exists.
SessionRuns == product = "started" \/ pc = "start"

client_ready ==
  /\ SessionRuns /\ ~hello /\ ~failed
  /\ hello' = TRUE
  /\ IF stopping THEN UNCHANGED <<ready, bits>>
     ELSE ready' = TRUE /\ bits' = bits \cup {"CLIENT_READY"}
  /\ UNCHANGED <<worker, network, stopping, released, failed, entitled, notify, answer, faults, changes>>

client_failed ==
  /\ SessionRuns
  /\ Fault
  /\ failed' = TRUE
  /\ IF stopping THEN UNCHANGED <<ready, bits>>
     ELSE ready' = FALSE /\ bits' = bits \cup {"CLIENT_FAILED"}
  /\ UNCHANGED <<worker, network, stopping, released, hello, entitled, notify, answer, changes>>

\* box3_agent_supervisor_stop: the flag, then the bit, then the wait.
stop ==
  /\ ~stopping
  /\ stopping' = TRUE
  /\ UNCHANGED <<worker, bits, network, ready, released, world>>

stop_signal ==
  /\ stopping /\ "STOP" \notin bits /\ pc # "stopped"
  /\ ready' = FALSE
  /\ bits' = bits \cup {"STOP"}
  /\ UNCHANGED <<worker, network, stopping, released, world>>

stop_returns ==
  /\ stopping /\ ~released /\ pc = "stopped"
  /\ released' = TRUE
  /\ UNCHANGED <<worker, bits, network, ready, stopping, world>>

Ended == released /\ UNCHANGED vars

Worker ==
  \/ worker_enter \/ process_actions \/ stop_product \/ ServiceAnswers
  \/ refresh_credentials \/ create_session \/ start_session
  \/ wait_bits(FALSE)

Next ==
  \/ Worker \/ wait_bits(TRUE) \/ stop_retry
  \/ \E available \in BOOLEAN : set_network_available(available)
  \/ interrupt \/ Entitle \/ notify_entitlement_changed
  \/ client_ready \/ client_failed
  \/ stop \/ stop_signal \/ stop_returns \/ Ended

\* Time passes, the tasks run, the client reports what happens to it.
Fairness ==
  /\ WF_vars(Worker) /\ SF_vars(wait_bits(TRUE))
  /\ WF_vars(notify_entitlement_changed) /\ SF_vars(client_ready)
  /\ WF_vars(stop_signal) /\ WF_vars(stop_returns)

Safety == Init /\ [][Next]_vars
Spec == Safety /\ Fairness
-----------------------------------------------------------------------------
TypeOK ==
  /\ core \in Cores /\ action \in Actions
  /\ pc \in {"enter", "run", "stop", "refresh", "create", "start", "wait", "stopped"}
  /\ product \in {"none", "created", "started"}
  /\ bits \subseteq Bits
  /\ answer \in {"none", "granted", "denied", "error"}
  /\ creds \in BOOLEAN /\ network \in BOOLEAN /\ ready \in BOOLEAN
  /\ stopping \in BOOLEAN /\ released \in BOOLEAN
  /\ failed \in BOOLEAN /\ hello \in BOOLEAN
  /\ entitled \in BOOLEAN /\ notify \in BOOLEAN
  /\ faults \in 0 .. MaxFaults /\ changes \in 0 .. MaxChanges

\* The worker sleeps in no state that only its own action would leave
\* (REFRESHING, STOPPING: core_poll and the bits do nothing there), and it has a
\* session exactly in the states that expect one: no refresh or stop returned by
\* the core is lost, and no session is created over another one.
NothingPending ==
  /\ pc = "wait" => /\ core.st \notin {"REFRESHING", "STOPPING"}
                    /\ product # "none" <=> core.st \in Live
  /\ pc \in {"refresh", "create"} => product = "none" /\ core.st = (IF pc = "create" THEN "STARTING" ELSE "REFRESHING")
  /\ pc = "stopped" => product = "none"

\* Credentials are in memory only between their arrival and the creation of the
\* session: every way out of refresh_and_start erases them.
CredentialsErased == creds => pc = "create"

\* A change of network the core has not seen has its WAKE bit still set.
NoLostWake == pc = "wait" /\ core.net # network => "WAKE" \in bits

\* What the current session reported is acted on or still signalled, also when a
\* failure and READY are taken together: a failure will stop it, READY brings
\* the core online.
NoLostReport ==
  pc = "wait" /\ product = "started" /\ ~stopping =>
    /\ failed => "CLIENT_FAILED" \in bits
    /\ hello /\ ~failed => "CLIENT_READY" \in bits \/ core.st = "ONLINE"

\* With network, entitlement and an end of failures the device is online again
\* and again, although failures of one session may hit the next one; and a grant
\* whose notification crosses a denied refresh is not forgotten.
Recovers ==
  /\ []<>(stopping \/ ~network \/ ~entitled \/ core.st = "ONLINE")
  /\ entitled ~> (stopping \/ ~entitled \/ core.st # "ENTITLEMENT_BLOCKED")

=============================================================================
