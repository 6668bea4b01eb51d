-------------------------- MODULE VoiceAgentProofs --------------------------
(***************************************************************************)
(* TLAPS proofs about VoiceAgent, for every size of the request counter,   *)
(* every set of sessions and every number of turns.                        *)
(*                                                                         *)
(* AnswerIsCurrent is not inductive: that an old run cannot carry the      *)
(* active identifier follows from how far each identifier lies behind the  *)
(* next one to be allocated.  IdsBehindNext says that distance equals the  *)
(* age in turns, up to one wrap of the counter.                            *)
(***************************************************************************)
EXTENDS VoiceAgent, TLAPS

\* id was allocated n allocations before nextId, n at most MaxRequestId.
Behind(id, n) == nextId - id = n \/ nextId - id = n - MaxRequestId

\* The active identifier is the last one allocated; a run of turn t carries
\* the identifier allocated for turn t, less than one wrap ago.
IdsBehindNext ==
  /\ activeId # 0 => Behind(activeId, 1)
  /\ \A j \in jobs : /\ j.turn <= turn
                     /\ turn - j.turn < MaxRequestId
                     /\ Behind(j.id, turn - j.turn + 1)

\* A turn is active only if one was started.
ActiveTurnStarted == state # "IDLE" => turn >= 1

IInv ==
  /\ TypeOK
  /\ TurnBoundToSession
  /\ IdsBehindNext
  /\ ActiveTurnStarted
  /\ RunningTurnIsOwedAnAnswer

-----------------------------------------------------------------------------
\* The successor of an identifier: one more, or 1 after the last.
LEMMA AllocateNext ==
  ASSUME NEW id \in RequestIds
  PROVE  /\ allocate_next(id) = IF id = MaxRequestId THEN 1 ELSE id + 1
         /\ allocate_next(id) \in RequestIds
<1>1. CASE id = MaxRequestId
  <2>1. (id + 1) % (MaxRequestId + 1) = 0
    BY <1>1, IdAssumption
  <2> QED BY <2>1, <1>1, IdAssumption DEF allocate_next, RequestIds
<1>2. CASE id # MaxRequestId
  <2>1. (id + 1) % (MaxRequestId + 1) = id + 1
    BY <1>2, IdAssumption DEF RequestIds
  <2> QED BY <2>1, <1>2, IdAssumption DEF allocate_next, RequestIds
<1> QED BY <1>1, <1>2

LEMMA InitIInv == Init => IInv
<1> SUFFICES ASSUME Init PROVE IInv
  OBVIOUS
<1> USE DEF Init
<1>1. TypeOK
  <2>1. calls \in Seq(Calls) /\ jobs \subseteq Jobs
    OBVIOUS
  <2>2. ready \in BOOLEAN
    OBVIOUS
  <2>3. /\ activeId \in 0 .. MaxRequestId
        /\ nextId \in RequestIds
        /\ turn \in 0 .. MaxTurns
    BY IdAssumption, TurnsAssumption DEF RequestIds
  <2> QED BY <2>1, <2>2, <2>3 DEF TypeOK, States, Results
<1>2. TurnBoundToSession
  BY SessionAssumption DEF TurnBoundToSession
<1>3. IdsBehindNext /\ ActiveTurnStarted /\ RunningTurnIsOwedAnAnswer
  BY DEF IdsBehindNext, ActiveTurnStarted, RunningTurnIsOwedAnAnswer
<1> QED BY <1>1, <1>2, <1>3 DEF IInv
-----------------------------------------------------------------------------
\* What the calls of one entry point are: well typed, and only the last call of
\* an accepted transcript submits a run.

\* An identifier is held outside IDLE.
LEMMA ActiveIdType == TypeOK /\ TurnBoundToSession /\ state # "IDLE" => activeId \in RequestIds
BY IdAssumption DEF TypeOK, TurnBoundToSession, RequestIds

\* flush_call and interrupt_call are sequences of calls, none of them a submission.
LEMMA StopCalls ==
  ASSUME TypeOK, TurnBoundToSession, NEW ok \in BOOLEAN
  PROVE  /\ flush_call \in Seq(Calls)
         /\ interrupt_call(ok) \in Seq(Calls)
         /\ \A n \in DOMAIN flush_call : flush_call[n].op # "submit_agent"
         /\ \A n \in DOMAIN interrupt_call(ok) :
              interrupt_call(ok)[n].op # "submit_agent"
<1>1. CASE state = "IDLE"
  BY <1>1 DEF flush_call, interrupt_call, TtsStates
<1>2. CASE state # "IDLE"
  <2>1. activeId \in RequestIds
    BY <1>2, ActiveIdType
  <2>2. /\ Call("FLUSH", activeId, TRUE) \in Calls
        /\ Call("cancel_agent", activeId, ok) \in Calls
        /\ Call("tts_abort", activeId, ok) \in Calls
    BY <2>1 DEF Call, Calls, Ops
  <2>3. \A c \in Calls : <<c>> \in Seq(Calls)
    OBVIOUS
  <2>4. <<>> \in Seq(Calls)
    OBVIOUS
  <2>5. flush_call \in Seq(Calls) /\ interrupt_call(ok) \in Seq(Calls)
    BY <2>2, <2>3, <2>4, Zenon DEF flush_call, interrupt_call
  <2>6. /\ \A n \in DOMAIN flush_call : flush_call[n].op # "submit_agent"
        /\ \A n \in DOMAIN interrupt_call(ok) :
             interrupt_call(ok)[n].op # "submit_agent"
    BY <1>2 DEF flush_call, interrupt_call, Call
  <2> QED BY <2>5, <2>6
<1> QED BY <1>1, <1>2

\* The run ESP-Claw accepts with the calls of one transcript.
LEMMA SubmittedRun ==
  ASSUME NEW a \in Seq(Calls), NEW b \in Seq(Calls), NEW c \in Calls,
         \A n \in DOMAIN a : a[n].op # "submit_agent",
         \A n \in DOMAIN b : b[n].op # "submit_agent",
         c.op = "submit_agent", calls' = a \o b \o <<c>>
  PROVE  /\ calls' \in Seq(Calls)
         /\ AcceptedJob = IF c.ok THEN {[id |-> c.id, turn |-> turn']} ELSE {}
<1>1. a \o b \in Seq(Calls) /\ <<c>> \in Seq(Calls)
  OBVIOUS
<1>2. \A n \in DOMAIN (a \o b) : (a \o b)[n].op # "submit_agent"
  <2> TAKE n \in DOMAIN (a \o b)
  <2>1. CASE n <= Len(a)
    BY <2>1
  <2>2. CASE n > Len(a)
    <3>1. (a \o b)[n] = b[n - Len(a)] /\ n - Len(a) \in DOMAIN b
      BY <2>2
    <3> QED BY <3>1
  <2> QED BY <2>1, <2>2
<1>3. calls' \in Seq(Calls)
  BY <1>1
<1>4. /\ Len(calls') = Len(a \o b) + 1
      /\ calls'[Len(calls')] = c
      /\ \A n \in 1 .. Len(a \o b) : calls'[n] = (a \o b)[n]
  BY <1>1
<1>5. \A n \in DOMAIN calls' : calls'[n].op = "submit_agent" <=> n = Len(calls')
  BY <1>1, <1>2, <1>3, <1>4
<1>6. {n \in DOMAIN calls' : calls'[n].op = "submit_agent" /\ calls'[n].ok}
        = IF c.ok THEN {Len(calls')} ELSE {}
  BY <1>1, <1>3, <1>4, <1>5
<1> QED BY <1>3, <1>4, <1>6 DEF AcceptedJob
-----------------------------------------------------------------------------
\* The shapes a step can have, as far as the invariant is concerned.

\* Nothing but the last answer and calls, and perhaps runs that are not the
\* active one, changes.
Stay ==
  /\ UNCHANGED agentVars
  /\ jobs' \subseteq jobs
  /\ state = "AGENT_RUNNING" =>
       \A j \in jobs : j.turn = turn /\ j.id = activeId => j \in jobs'

\* The active request ends.
Clear ==
  /\ clear_active_request
  /\ UNCHANGED <<nextId, turn>>
  /\ jobs' \subseteq jobs
  /\ UNCHANGED <<ready, session>> \/ (ready' = FALSE /\ session' = NoSession)

\* The active request moves on to its TTS.
Advance ==
  /\ state # "IDLE"
  /\ state' \in TtsStates
  /\ UNCHANGED <<activeId, activeSession, nextId, ready, session, turn>>
  /\ jobs' \subseteq jobs

\* A new turn, accepted by ESP-Claw or not.
Start ==
  /\ ready
  /\ turn < MaxTurns
  /\ AnswersWithinWindow
  /\ turn' = turn + 1
  /\ nextId' = allocate_next(nextId)
  /\ UNCHANGED <<ready, session>>
  /\ \/ clear_active_request /\ jobs' = jobs
     \/ /\ state' = "AGENT_RUNNING"
        /\ activeId' = nextId
        /\ activeSession' = session
        /\ jobs' = jobs \cup {[id |-> nextId, turn |-> turn']}

\* A hello opens a session while no turn is active.
Open ==
  /\ ~ready
  /\ ready'
  /\ session' \in Sessions
  /\ UNCHANGED <<state, activeId, activeSession, nextId, turn, jobs>>

Outputs == result' \in Results /\ calls' \in Seq(Calls)

\* A rejected event is of the first shape and makes no call.
LEMMA RejectShape ==
  ASSUME NEW r \in Results, Reject(r)
  PROVE  Outputs /\ AcceptedJob = {} /\ UNCHANGED agentVars
<1>1. calls' = <<>> /\ result' = r
  BY DEF Reject, Return
<1>2. AcceptedJob = {}
  BY <1>1 DEF AcceptedJob
<1> QED BY <1>1, <1>2 DEF Reject, Outputs

\* Ending the active request by an interruption.
LEMMA InterruptShape ==
  ASSUME TypeOK, TurnBoundToSession, NEW ok \in BOOLEAN, controller_interrupt(ok)
  PROVE  Outputs /\ clear_active_request /\ UNCHANGED <<nextId, turn>>
<1>1. calls' = interrupt_call(ok) \o flush_call
  BY DEF controller_interrupt, Return
<1>2. calls' \in Seq(Calls)
  BY <1>1, StopCalls
<1>3. result' \in Results
  BY DEF controller_interrupt, Return, Results
<1> QED BY <1>2, <1>3 DEF controller_interrupt, Outputs

\* A correlated TTS event ends the request or moves it on.
LEMMA TtsEventShape ==
  ASSUME IInv, NEW s, NEW id \in 0 .. MaxRequestId, NEW event,
         controller_on_tts_event(s, id, event)
  PROVE  /\ Outputs
         /\ AcceptedJob = {}
         /\ \/ UNCHANGED agentVars
            \/ /\ state \in TtsStates
               /\ clear_active_request
               /\ UNCHANGED <<nextId, ready, session, turn>>
            \/ /\ state # "IDLE"
               /\ state' \in TtsStates
               /\ UNCHANGED <<activeId, activeSession, nextId, ready, session, turn>>
<1>1. CASE s # activeSession \/ id # activeId
  <2>1. Reject("STALE_EVENT")
    BY <1>1 DEF controller_on_tts_event
  <2> QED BY <2>1, RejectShape DEF Results
<1>2. CASE ~(s # activeSession \/ id # activeId) /\ state \notin TtsStates
  <2>1. Reject("INVALID_STATE")
    BY <1>2 DEF controller_on_tts_event
  <2> QED BY <2>1, RejectShape DEF Results
<1>3. CASE ~(s # activeSession \/ id # activeId) /\ state \in TtsStates
  <2>1. activeId \in RequestIds
    BY <1>3, ActiveIdType DEF IInv, TtsStates
  <2>2. \/ calls' = <<>>
        \/ \E op \in {"BEGIN", "DRAIN", "FLUSH"} : calls' = <<Call(op, activeId, TRUE)>>
    BY <1>3 DEF controller_on_tts_event, Return
  <2>3. /\ calls' \in Seq(Calls)
        /\ \A n \in DOMAIN calls' : calls'[n].op # "submit_agent"
    <3>1. CASE calls' = <<>>
      BY <3>1
    <3>2. ASSUME NEW op \in {"BEGIN", "DRAIN", "FLUSH"},
                 calls' = <<Call(op, activeId, TRUE)>>
          PROVE  /\ calls' \in Seq(Calls)
                 /\ \A n \in DOMAIN calls' : calls'[n].op # "submit_agent"
      <4>1. Call(op, activeId, TRUE) \in Calls /\ Call(op, activeId, TRUE).op # "submit_agent"
        BY <2>1, <3>2 DEF Call, Calls, Ops
      <4>2. \A c \in Calls : c.op # "submit_agent" =>
              /\ <<c>> \in Seq(Calls)
              /\ \A n \in DOMAIN <<c>> : <<c>>[n].op # "submit_agent"
        OBVIOUS
      <4> QED BY <3>2, <4>1, <4>2, Zenon
    <3> QED BY <2>2, <3>1, <3>2
  <2>4. AcceptedJob = {}
    BY <2>3 DEF AcceptedJob
  <2>5. result' \in Results
    BY <1>3 DEF controller_on_tts_event, Return, Results
  <2>6. \/ /\ clear_active_request
           /\ UNCHANGED <<nextId, ready, session, turn>>
        \/ /\ state' \in TtsStates
           /\ UNCHANGED <<activeId, activeSession, nextId, ready, session, turn>>
    BY <1>3 DEF controller_on_tts_event, TtsStates
  <2> QED BY <1>3, <2>3, <2>4, <2>5, <2>6 DEF Outputs, TtsStates
<1> QED BY <1>1, <1>2, <1>3

\* An accepted transcript starts a turn.
LEMMA SttShape ==
  ASSUME IInv, ready, AnswersWithinWindow,
         NEW cancelOk \in BOOLEAN, NEW submitOk \in BOOLEAN,
         controller_on_stt_final(cancelOk, submitOk),
         jobs' = jobs \cup AcceptedJob
  PROVE  Outputs /\ Start
<1> DEFINE c == Call("submit_agent", nextId, submitOk)
<1>1. nextId \in RequestIds /\ allocate_request_id = nextId
  BY DEF IInv, TypeOK, allocate_request_id, RequestIds
<1>2. c \in Calls /\ c.op = "submit_agent" /\ c.ok = submitOk /\ c.id = nextId
  BY <1>1 DEF Call, Calls, Ops
<1>3. calls' = flush_call \o interrupt_call(cancelOk) \o <<c>>
  BY <1>1 DEF controller_on_stt_final, Return
<1>4. /\ calls' \in Seq(Calls)
      /\ AcceptedJob = IF submitOk THEN {[id |-> nextId, turn |-> turn']} ELSE {}
  <2> HIDE DEF c
  <2> QED BY <1>2, <1>3, StopCalls, SubmittedRun DEF IInv
<1>5. result' \in Results
  BY DEF controller_on_stt_final, Return, Results
<1>6. /\ turn < MaxTurns
      /\ turn' = turn + 1
      /\ nextId' = allocate_next(nextId)
      /\ UNCHANGED <<ready, session>>
  BY <1>1 DEF controller_on_stt_final
<1>7. IF submitOk
        THEN /\ state' = "AGENT_RUNNING"
             /\ activeId' = nextId
             /\ activeSession' = session
        ELSE clear_active_request
  BY <1>1 DEF controller_on_stt_final
<1>8. CASE submitOk
  BY <1>4, <1>5, <1>6, <1>7, <1>8 DEF Outputs, Start
<1>9. CASE ~submitOk
  BY <1>4, <1>5, <1>6, <1>7, <1>9 DEF Outputs, Start
<1> QED BY <1>8, <1>9
-----------------------------------------------------------------------------
\* Every step has one of the shapes.
LEMMA NextShape ==
  ASSUME IInv, Next
  PROVE  \/ Outputs /\ (Stay \/ Clear \/ Advance \/ Start \/ Open)
         \/ UNCHANGED outputs /\ Stay
<1>0. TypeOK /\ TurnBoundToSession
  BY DEF IInv
<1>1. ASSUME NEW m \in Messages, Json(m)
      PROVE  Outputs /\ (Stay \/ Clear \/ Advance \/ Start)
  <2> PICK cancelOk \in BOOLEAN, submitOk \in BOOLEAN :
        on_json(m, cancelOk, submitOk)
    BY <1>1 DEF Json
  <2>1. jobs' = jobs \cup AcceptedJob
    BY <1>1 DEF Json
  <2>2. ASSUME NEW r \in Results, Reject(r)
        PROVE  Outputs /\ Stay
    BY <2>1, <2>2, RejectShape DEF Stay
  <2>3. CASE ~ready
    BY <2>2, <2>3 DEF on_json, Results
  <2>4. CASE ready /\ m.type = "stt" /\ m.session \in {session, NoSession}
    <3>1. controller_on_stt_final(cancelOk, submitOk)
      BY <2>4 DEF on_json, handle_json
    <3>2. AnswersWithinWindow
      BY <1>1, <2>4 DEF Json
    <3> QED BY <2>1, <2>4, <3>1, <3>2, SttShape
  <2>5. ASSUME NEW s, NEW id \in 0 .. MaxRequestId, NEW event,
               controller_on_tts_event(s, id, event)
        PROVE  Outputs /\ (Stay \/ Clear \/ Advance)
    BY <2>1, <2>5, TtsEventShape DEF Stay, Clear, Advance
  <2>6. CASE ready /\ m.type = "error"
    <3>1. activeId \in 0 .. MaxRequestId
      BY <1>0 DEF TypeOK
    <3> QED BY <2>2, <2>5, <2>6, <3>1 DEF on_json, handle_json, Results
  <2>7. CASE ready /\ m.type = "tts" /\ m.session \in {session, NoSession}
    <3>1. m.id \in 0 .. MaxRequestId
      BY <2>7, IdAssumption DEF Messages, RequestIds
    <3> QED BY <2>2, <2>5, <2>7, <3>1 DEF on_json, handle_json, Results
  <2>8. CASE ready /\ m.type \notin {"stt", "tts", "error"}
    BY <2>2, <2>8 DEF on_json, handle_json, Results
  <2>9. CASE /\ ready
             /\ m.type \in {"stt", "tts"}
             /\ m.session \notin {session, NoSession}
    BY <2>2, <2>9 DEF on_json, handle_json, Results
  <2> QED BY <2>3, <2>4, <2>6, <2>7, <2>8, <2>9
<1>2. ASSUME NEW s \in Sessions, NEW ok \in BOOLEAN, Hello(s, ok)
      PROVE  Outputs /\ (Stay \/ Open)
  <2>1. CASE ready \/ ~ok
    <3>1. Reject("INVALID_STATE") /\ jobs' = jobs
      BY <1>2, <2>1 DEF Hello, accept_server_hello
    <3> QED BY <3>1, RejectShape DEF Results, Stay
  <2>2. CASE ~(ready \/ ~ok)
    <3>1. result' = "OK" /\ calls' = <<>>
      BY <1>2, <2>2 DEF Hello, accept_server_hello, Return
    <3>2. Outputs
      BY <3>1 DEF Outputs, Results
    <3>3. Open
      BY <1>2, <2>2 DEF Hello, accept_server_hello, Open
    <3> QED BY <3>2, <3>3
  <2> QED BY <2>1, <2>2
<1>3. ASSUME NEW ok \in BOOLEAN, Binary(ok)
      PROVE  Outputs /\ Stay
  <2>1. jobs' = jobs /\ \E r \in Results : Reject(r)
    BY <1>3 DEF Binary, on_binary, Results
  <2> QED BY <2>1, RejectShape DEF Stay
<1>4. ASSUME NEW ok \in BOOLEAN, Interrupt(ok) \/ Disconnected(ok)
      PROVE  Outputs /\ Clear
  <2>1. controller_interrupt(ok) /\ jobs' = jobs
    BY <1>4 DEF Interrupt, interrupt, Disconnected, on_disconnected
  <2>2. UNCHANGED <<ready, session>> \/ (ready' = FALSE /\ session' = NoSession)
    BY <1>4 DEF Interrupt, interrupt, Disconnected, on_disconnected
  <2> QED BY <1>0, <2>1, <2>2, InterruptShape DEF Clear
<1>5. ASSUME NEW j \in jobs, AgentFinal(j) \/ AgentError(j)
      PROVE  Outputs /\ (Stay \/ Clear \/ Advance)
  <2>1. jobs' = jobs \ {j}
    BY <1>5 DEF AgentFinal, AgentError
  <2>2. CASE ~ready \/ j.id # activeId \/ state # "AGENT_RUNNING"
    <3>1. \E r \in Results : Reject(r)
      BY <1>5, <2>2 DEF AgentFinal, AgentError, on_agent_final, on_agent_error, Results
    <3>2. state = "AGENT_RUNNING" => ready /\ j.id # activeId
      BY <1>0, <2>2 DEF TurnBoundToSession
    <3>3. Outputs /\ UNCHANGED agentVars
      BY <3>1, RejectShape
    <3> QED BY <2>1, <3>2, <3>3 DEF Stay
  <2>3. CASE ready /\ j.id = activeId /\ state = "AGENT_RUNNING" /\ AgentError(j)
    <3>1. calls' = <<>> /\ result' = "OK"
      BY <2>3 DEF AgentError, on_agent_error, Return
    <3>2. Outputs
      BY <3>1 DEF Outputs, Results
    <3>3. Clear
      BY <2>1, <2>3 DEF AgentError, on_agent_error, Clear
    <3> QED BY <3>2, <3>3
  <2>4. CASE ready /\ j.id = activeId /\ state = "AGENT_RUNNING" /\ AgentFinal(j)
    <3> PICK sendOk \in BOOLEAN : on_agent_final(j.id, sendOk)
      BY <2>4 DEF AgentFinal
    <3>1. activeId \in RequestIds
      BY <1>0, <2>4, ActiveIdType
    <3>2. Call("tts_request", activeId, sendOk) \in Calls
      BY <3>1 DEF Call, Calls, Ops
    <3>3. calls' = <<Call("tts_request", activeId, sendOk)>>
      BY <2>4 DEF on_agent_final, Return
    <3>4. \A c \in Calls : <<c>> \in Seq(Calls)
      OBVIOUS
    <3>5. calls' \in Seq(Calls)
      BY <3>2, <3>3, <3>4, Zenon
    <3>6. result' \in Results
      BY <2>4 DEF on_agent_final, Return, Results
    <3>7. Clear \/ Advance
      BY <2>1, <2>4 DEF on_agent_final, Clear, Advance, TtsStates
    <3> QED BY <3>5, <3>6, <3>7 DEF Outputs
  <2> QED BY <1>5, <2>2, <2>3, <2>4
<1>6. ASSUME NEW j \in jobs, AgentCancelled(j)
      PROVE  UNCHANGED outputs /\ Stay
  BY <1>6 DEF AgentCancelled, Stay
<1> QED BY <1>1, <1>2, <1>3, <1>4, <1>5, <1>6 DEF Next
-----------------------------------------------------------------------------
\* The invariant is inductive.
LEMMA StayIInv == IInv /\ Stay /\ (Outputs \/ UNCHANGED outputs) => IInv'
<1> SUFFICES ASSUME IInv, Stay, Outputs \/ UNCHANGED outputs PROVE IInv'
  OBVIOUS
<1> USE DEF IInv, Stay, agentVars
<1>1. TypeOK'
  BY DEF TypeOK, Outputs, outputs
<1>2. TurnBoundToSession' /\ ActiveTurnStarted'
  BY DEF TurnBoundToSession, ActiveTurnStarted
<1>3. IdsBehindNext'
  BY DEF IdsBehindNext, Behind
<1>4. RunningTurnIsOwedAnAnswer'
  BY DEF RunningTurnIsOwedAnAnswer
<1> QED BY <1>1, <1>2, <1>3, <1>4

LEMMA ClearIInv == IInv /\ Clear /\ Outputs => IInv'
<1> SUFFICES ASSUME IInv, Clear, Outputs PROVE IInv'
  OBVIOUS
<1> USE DEF IInv, Clear, clear_active_request
<1>1. ready' \in BOOLEAN /\ session' \in Sessions \cup {NoSession}
  BY Zenon DEF TypeOK
<1>2. activeId' \in 0 .. MaxRequestId /\ state' \in States
  BY IdAssumption DEF States
<1>3. TypeOK'
  BY <1>1, <1>2 DEF TypeOK, Outputs
<1>4. TurnBoundToSession' /\ ActiveTurnStarted' /\ RunningTurnIsOwedAnAnswer'
  BY DEF TurnBoundToSession, ActiveTurnStarted, RunningTurnIsOwedAnAnswer
<1>5. IdsBehindNext'
  BY DEF IdsBehindNext, Behind
<1> QED BY <1>3, <1>4, <1>5

LEMMA AdvanceIInv == IInv /\ Advance /\ Outputs => IInv'
<1> SUFFICES ASSUME IInv, Advance, Outputs PROVE IInv'
  OBVIOUS
<1> USE DEF IInv, Advance, TtsStates
<1>1. TypeOK'
  BY DEF TypeOK, Outputs, States
<1>2. TurnBoundToSession' /\ ActiveTurnStarted' /\ RunningTurnIsOwedAnAnswer'
  BY DEF TurnBoundToSession, ActiveTurnStarted, RunningTurnIsOwedAnAnswer
<1>3. IdsBehindNext'
  BY DEF IdsBehindNext, Behind
<1> QED BY <1>1, <1>2, <1>3

LEMMA OpenIInv == IInv /\ Open /\ Outputs => IInv'
<1> SUFFICES ASSUME IInv, Open, Outputs PROVE IInv'
  OBVIOUS
<1> USE DEF IInv, Open
<1>1. TypeOK'
  BY DEF TypeOK, Outputs
<1>2. TurnBoundToSession' /\ ActiveTurnStarted' /\ RunningTurnIsOwedAnAnswer'
  BY SessionAssumption
     DEF TurnBoundToSession, ActiveTurnStarted, RunningTurnIsOwedAnAnswer
<1>3. IdsBehindNext'
  BY DEF IdsBehindNext, Behind
<1> QED BY <1>1, <1>2, <1>3

\* Allocating an identifier leaves every older run one allocation further behind.
LEMMA OlderRuns ==
  ASSUME IInv, Start, NEW j \in jobs
  PROVE  /\ j.turn <= turn'
         /\ turn' - j.turn < MaxRequestId
         /\ Behind(j.id, turn - j.turn + 1)'
<1>1. /\ nextId \in RequestIds
      /\ turn \in Nat
      /\ j.id \in RequestIds
      /\ j.turn \in Nat
      /\ turn' = turn + 1
      /\ nextId' = IF nextId = MaxRequestId THEN 1 ELSE nextId + 1
  BY AllocateNext, TurnsAssumption DEF IInv, Start, TypeOK, Jobs
<1>2. /\ j.turn <= turn
      /\ turn + 1 - j.turn < MaxRequestId
      /\ Behind(j.id, turn - j.turn + 1)
  BY DEF IInv, IdsBehindNext, Start, AnswersWithinWindow
<1> QED BY <1>1, <1>2, IdAssumption DEF Behind, RequestIds

LEMMA StartIInv == IInv /\ Start /\ Outputs => IInv'
<1> SUFFICES ASSUME IInv, Start, Outputs PROVE IInv'
  OBVIOUS
<1> USE DEF IInv, Start
<1>1. /\ nextId \in RequestIds
      /\ turn \in Nat
      /\ turn' \in 1 .. MaxTurns
      /\ nextId' = IF nextId = MaxRequestId THEN 1 ELSE nextId + 1
      /\ nextId' \in RequestIds
  BY AllocateNext, TurnsAssumption DEF TypeOK
<1>2. CASE clear_active_request /\ jobs' = jobs
  <2>1. TypeOK'
    BY <1>1, <1>2, IdAssumption DEF TypeOK, clear_active_request, Outputs, States
  <2>2. TurnBoundToSession' /\ ActiveTurnStarted' /\ RunningTurnIsOwedAnAnswer'
    BY <1>2 DEF TurnBoundToSession, ActiveTurnStarted, clear_active_request,
                RunningTurnIsOwedAnAnswer
  <2>3. IdsBehindNext'
    BY <1>1, <1>2, OlderRuns DEF IdsBehindNext, clear_active_request
  <2> QED BY <2>1, <2>2, <2>3
<1>3. CASE /\ state' = "AGENT_RUNNING"
           /\ activeId' = nextId
           /\ activeSession' = session
           /\ jobs' = jobs \cup {[id |-> nextId, turn |-> turn']}
  <2>1. jobs' \subseteq Jobs
    BY <1>1, <1>3 DEF TypeOK, Jobs
  <2>2. activeId' \in 0 .. MaxRequestId
    BY <1>1, <1>3 DEF RequestIds
  <2>3. TypeOK'
    BY <1>1, <1>3, <2>1, <2>2 DEF TypeOK, Outputs, States
  <2>4. TurnBoundToSession'
    <3>1. activeId' # 0
      BY <1>1, <1>3 DEF RequestIds
    <3>2. session # NoSession
      BY DEF TurnBoundToSession
    <3> QED BY <1>3, <3>1, <3>2 DEF TurnBoundToSession
  <2>5. ActiveTurnStarted'
    BY <1>1 DEF ActiveTurnStarted
  <2>6. RunningTurnIsOwedAnAnswer'
    <3> DEFINE new == [id |-> nextId, turn |-> turn']
    <3>1. new \in jobs' /\ new.turn = turn' /\ new.id = activeId'
      BY <1>3
    <3> QED BY <3>1 DEF RunningTurnIsOwedAnAnswer
  <2>7. IdsBehindNext'
    <3>1. Behind(activeId, 1)'
      BY <1>1, <1>3, IdAssumption DEF Behind, RequestIds
    <3>2. ASSUME NEW j \in jobs'
          PROVE  /\ j.turn <= turn'
                 /\ turn' - j.turn < MaxRequestId
                 /\ Behind(j.id, turn - j.turn + 1)'
      <4>1. CASE j \in jobs
        BY <4>1, OlderRuns
      <4>2. CASE j = [id |-> nextId, turn |-> turn']
        BY <1>1, <1>3, <3>1, <4>2, IdAssumption DEF Behind
      <4> QED BY <1>3, <4>1, <4>2
    <3> QED BY <3>1, <3>2 DEF IdsBehindNext
  <2> QED BY <2>3, <2>4, <2>5, <2>6, <2>7
<1> QED BY <1>2, <1>3

LEMMA NextIInv == IInv /\ [Next]_vars => IInv'
<1> SUFFICES ASSUME IInv, [Next]_vars PROVE IInv'
  OBVIOUS
<1>1. CASE Next
  BY <1>1, NextShape, StayIInv, ClearIInv, AdvanceIInv, StartIInv, OpenIInv
<1>2. CASE UNCHANGED vars
  <2>1. Stay /\ UNCHANGED outputs
    BY <1>2 DEF vars, Stay
  <2> QED BY <2>1, StayIInv
<1> QED BY <1>1, <1>2

\* The invariant gives the property TLC checks: two identifiers that lie
\* equally far behind the next one, less than one wrap, are of one turn.
LEMMA IInvAnswerIsCurrent == IInv => AnswerIsCurrent
<1> SUFFICES ASSUME IInv, NEW j \in jobs, j.id = activeId PROVE j.turn = turn
  BY DEF AnswerIsCurrent
<1>1. j.id \in RequestIds /\ j.turn \in Nat /\ turn \in Nat /\ nextId \in RequestIds
  BY TurnsAssumption DEF IInv, TypeOK, Jobs
<1> QED BY <1>1, IdAssumption DEF IInv, IdsBehindNext, Behind, RequestIds
-----------------------------------------------------------------------------
\* Every reachable state of the voice turn is well typed.
THEOREM TypeCorrect == Spec => []TypeOK
<1>1. IInv => TypeOK
  BY DEF IInv
<1> QED BY <1>1, InitIInv, NextIInv, PTL DEF Spec

\* A turn never outlives the transport session it was started in: the bridge is
\* outside IDLE only while the runtime is ready, with the runtime's session.
THEOREM TurnIsBoundToSession == Spec => []TurnBoundToSession
<1>1. IInv => TurnBoundToSession
  BY DEF IInv
<1> QED BY <1>1, InitIInv, NextIInv, PTL DEF Spec

\* For a counter of any width, no late answer of an earlier turn is taken for
\* an answer of the current one (valid_active_request compares only the
\* identifier), provided no answer is a full wrap of the counter late.
THEOREM AnswersAreCurrent == Spec => []AnswerIsCurrent
<1> QED BY InitIInv, NextIInv, IInvAnswerIsCurrent, PTL DEF Spec

\* A turn in AGENT_RUNNING always has an accepted, unanswered Agent run.
THEOREM RunningTurnsAreOwedAnAnswer == Spec => []RunningTurnIsOwedAnAnswer
<1>1. IInv => RunningTurnIsOwedAnAnswer
  BY DEF IInv
<1> QED BY <1>1, InitIInv, NextIInv, PTL DEF Spec
=============================================================================
