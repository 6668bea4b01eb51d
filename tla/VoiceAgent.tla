----------------------------- MODULE VoiceAgent -----------------------------
(***************************************************************************)
(* The device's voice turn: agent_bridge, voice_agent_controller,          *)
(* xiaozhi_agent_adapter and device_voice_runtime, which call each other   *)
(* synchronously on one event loop.  One action is one entry point of      *)
(* device_voice_runtime run to completion.  The calls it makes on its      *)
(* surroundings (submit or cancel an Agent run, send a control message,    *)
(* begin, drain or flush playback) are recorded in order in "calls", and   *)
(* whether a call that can fail did so is an input of the action.          *)
(*                                                                         *)
(* Message texts, JSON layout, abort reasons and the optional state        *)
(* observer are left out: no decision of this code depends on them once a  *)
(* message is well formed.                                                 *)
(***************************************************************************)
EXTENDS Integers, Sequences, FiniteSets

CONSTANTS MaxRequestId,   \* UINT32_MAX of the request counter
          Sessions,       \* transport session identifiers
          NoSession,      \* the empty string, and an absent session_id field
          MaxTurns        \* bound on the turns a behaviour starts

ASSUME IdAssumption == MaxRequestId \in Nat /\ MaxRequestId > 1
ASSUME SessionAssumption == NoSession \notin Sessions
ASSUME TurnsAssumption == MaxTurns \in Nat

VARIABLES
  state, activeId, nextId, activeSession,   \* agent_bridge_t
  ready, session,                           \* device_voice_runtime_t
  result, calls,    \* what the last entry point returned and called
  turn,             \* history: how many turns have been allocated
  jobs              \* Agent runs accepted by ESP-Claw and not yet answered

agentVars == <<state, activeId, nextId, activeSession, ready, session, turn>>
outputs == <<result, calls>>
vars == <<agentVars, outputs, jobs>>

States == {"IDLE", "AGENT_RUNNING", "TTS_PENDING", "TTS_PLAYING"}
TtsStates == {"TTS_PENDING", "TTS_PLAYING"}
Results == {"OK", "STALE_EVENT", "INVALID_STATE", "INVALID_ARG", "OPERATION"}
RequestIds == 1 .. MaxRequestId

\* Control messages a gateway may send once the hello is done: a final
\* transcript, a TTS lifecycle event, a service error (about the speech budget
\* or not), a message of another type, and one that does not parse.
Messages ==
  [type : {"stt"}, session : Sessions \cup {NoSession}]
    \cup [type : {"tts"}, event : {"start", "stop", "error", "sentence_start"},
          session : Sessions \cup {NoSession}, id : RequestIds]
    \cup [type : {"error"}, budget : BOOLEAN]
    \cup [type : {"other", "invalid"}]

Ops == {"submit_agent", "cancel_agent", "tts_request", "tts_abort",
        "BEGIN", "DRAIN", "FLUSH"}
Call(op, id, ok) == [op |-> op, id |-> id, ok |-> ok]
Calls == [op : Ops, id : RequestIds, ok : BOOLEAN]

Jobs == [id : RequestIds, turn : 1 .. MaxTurns]
-----------------------------------------------------------------------------
\* agent_bridge

\* Mutant: the wrapped counter is not moved off 0.
allocate_next_mutant(id) == (id + 1) % (MaxRequestId + 1)

\* uint32 arithmetic: the identifier after id, skipping 0.
allocate_next(id) ==
  LET next == (id + 1) % (MaxRequestId + 1) IN IF next = 0 THEN 1 ELSE next

allocate_request_id == IF nextId = 0 THEN 1 ELSE nextId

clear_active_request ==
  /\ state' = "IDLE"
  /\ activeId' = 0
  /\ activeSession' = NoSession

\* The one call agent_bridge_interrupt makes before it clears the request.
interrupt_call(ok) ==
  IF state = "IDLE" THEN <<>>
  ELSE IF state = "AGENT_RUNNING" THEN <<Call("cancel_agent", activeId, ok)>>
  ELSE <<Call("tts_abort", activeId, ok)>>

\* Mutant: audio of a request that is only pending is not flushed.
flush_call_mutant ==
  IF state = "TTS_PLAYING" THEN <<Call("FLUSH", activeId, TRUE)>> ELSE <<>>

\* voice_agent_controller flushes local audio of the request it interrupts.
flush_call ==
  IF state \in TtsStates THEN <<Call("FLUSH", activeId, TRUE)>> ELSE <<>>

Return(r, cs) == result' = r /\ calls' = cs

\* An entry point that gives up before it changed anything.
Reject(r) == Return(r, <<>>) /\ UNCHANGED agentVars

\* agent_bridge_interrupt under voice_agent_controller_interrupt: the abort or
\* cancel goes out first, the request is cleared whatever it returned.
controller_interrupt(ok) ==
  /\ clear_active_request
  /\ Return(IF ok \/ state = "IDLE" THEN "OK" ELSE "OPERATION",
            interrupt_call(ok) \o flush_call)
  /\ UNCHANGED <<nextId, turn>>

\* Mutant: a failed submission leaves the turn running.
controller_on_stt_final_mutant(cancelOk, submitOk) ==
  LET id == allocate_request_id IN
  /\ turn < MaxTurns
  /\ turn' = turn + 1
  /\ nextId' = allocate_next(id)
  /\ state' = "AGENT_RUNNING"
  /\ activeId' = id
  /\ activeSession' = session
  /\ Return(IF submitOk THEN "OK" ELSE "OPERATION",
            flush_call \o interrupt_call(cancelOk)
              \o <<Call("submit_agent", id, submitOk)>>)
  /\ UNCHANGED <<ready, session>>

\* A final transcript.  Local audio of the interrupted request is flushed
\* first, then it is aborted or cancelled (the result is ignored), then the
\* next identifier is allocated and the text submitted.
controller_on_stt_final(cancelOk, submitOk) ==
  LET id == allocate_request_id IN
  /\ turn < MaxTurns
  /\ turn' = turn + 1
  /\ nextId' = allocate_next(id)
  /\ IF submitOk
       THEN /\ state' = "AGENT_RUNNING"
            /\ activeId' = id
            /\ activeSession' = session
       ELSE clear_active_request
  /\ Return(IF submitOk THEN "OK" ELSE "OPERATION",
            flush_call \o interrupt_call(cancelOk)
              \o <<Call("submit_agent", id, submitOk)>>)
  /\ UNCHANGED <<ready, session>>

\* start, stop or error of the active request; anything else is stale.
controller_on_tts_event(s, id, event) ==
  IF s # activeSession \/ id # activeId THEN Reject("STALE_EVENT")
  ELSE IF state \notin TtsStates THEN Reject("INVALID_STATE")
  ELSE /\ IF event = "start"
            THEN /\ state' = "TTS_PLAYING"
                 /\ Return("OK", IF state = "TTS_PENDING"
                                   THEN <<Call("BEGIN", id, TRUE)>> ELSE <<>>)
                 /\ UNCHANGED <<activeId, activeSession>>
            ELSE /\ clear_active_request
                 /\ Return("OK", <<Call(IF event = "stop" THEN "DRAIN" ELSE "FLUSH",
                                        id, TRUE)>>)
       /\ UNCHANGED <<nextId, ready, session, turn>>
-----------------------------------------------------------------------------
\* xiaozhi_agent_adapter: one parsed control message.  A speech-budget error
\* carries no identifier and fails whatever request is in a TTS state.
handle_json(m, cancelOk, submitOk) ==
  \/ m.type = "invalid" /\ Reject("INVALID_ARG")
  \/ m.type = "other" /\ Reject("OK")
  \/ /\ m.type = "error"
     /\ IF m.budget /\ state \in TtsStates
          THEN controller_on_tts_event(session, activeId, "error")
          ELSE Reject("OK")
  \/ /\ m.type \in {"stt", "tts"}
     /\ m.session \notin {session, NoSession}
     /\ Reject("STALE_EVENT")
  \/ /\ m.type = "stt"
     /\ m.session \in {session, NoSession}
     /\ controller_on_stt_final(cancelOk, submitOk)
  \/ /\ m.type = "tts"
     /\ m.session \in {session, NoSession}
     /\ IF m.event = "sentence_start" THEN Reject("OK")
        ELSE controller_on_tts_event(session, m.id, m.event)

\* device_voice_runtime entry points.

on_json(m, cancelOk, submitOk) ==
  IF ~ready THEN Reject("INVALID_STATE") ELSE handle_json(m, cancelOk, submitOk)

\* Mutant: a new session numbers its requests from 1 again.
accept_server_hello_mutant(s, ok) ==
  IF ready \/ ~ok THEN Reject("INVALID_STATE")
  ELSE /\ ready' = TRUE
       /\ session' = s
       /\ nextId' = 1
       /\ Return("OK", <<>>)
       /\ UNCHANGED <<state, activeId, activeSession, turn>>

\* ok: the hello is well formed and names the configured audio profile.
accept_server_hello(s, ok) ==
  IF ready \/ ~ok THEN Reject("INVALID_STATE")
  ELSE /\ ready' = TRUE
       /\ session' = s
       /\ Return("OK", <<>>)
       /\ UNCHANGED <<state, activeId, nextId, activeSession, turn>>

\* A binary packet: admitted only while playing; ok is the audio sink's answer.
on_binary(ok) ==
  IF ~ready \/ state # "TTS_PLAYING" THEN Reject("INVALID_STATE")
  ELSE Reject(IF ok THEN "OK" ELSE "OPERATION")

on_agent_final(id, sendOk) ==
  IF ~ready \/ id # activeId THEN Reject("STALE_EVENT")
  ELSE IF state # "AGENT_RUNNING" THEN Reject("INVALID_STATE")
  ELSE /\ IF sendOk
            THEN state' = "TTS_PENDING" /\ UNCHANGED <<activeId, activeSession>>
            ELSE clear_active_request
       /\ Return(IF sendOk THEN "OK" ELSE "OPERATION",
                 <<Call("tts_request", id, sendOk)>>)
       /\ UNCHANGED <<nextId, ready, session, turn>>

on_agent_error(id) ==
  IF ~ready \/ id # activeId THEN Reject("STALE_EVENT")
  ELSE IF state # "AGENT_RUNNING" THEN Reject("INVALID_STATE")
  ELSE /\ clear_active_request
       /\ Return("OK", <<>>)
       /\ UNCHANGED <<nextId, ready, session, turn>>

interrupt(ok) == controller_interrupt(ok) /\ UNCHANGED <<ready, session>>

on_disconnected(ok) ==
  /\ controller_interrupt(ok)
  /\ ready' = FALSE
  /\ session' = NoSession
-----------------------------------------------------------------------------
\* The surroundings: the gateway may send any message, ESP-Claw answers each
\* run it accepted at most once and possibly long after it was cancelled, and
\* any call may fail.

Init ==
  /\ state = "IDLE"
  /\ activeId = 0
  /\ nextId = 1
  /\ activeSession = NoSession
  /\ ready = FALSE
  /\ session = NoSession
  /\ result = "OK"
  /\ calls = <<>>
  /\ turn = 0
  /\ jobs = {}

\* The run ESP-Claw has just accepted, if any.
AcceptedJob ==
  {[id |-> calls'[n].id, turn |-> turn'] :
     n \in {n \in DOMAIN calls' : calls'[n].op = "submit_agent" /\ calls'[n].ok}}

\* An answer is never so late that the counter has gone all the way round:
\* with UINT32_MAX identifiers this is four billion turns.
AnswersWithinWindow == \A j \in jobs : turn + 1 - j.turn < MaxRequestId

Json(m) ==
  /\ m.type = "stt" => AnswersWithinWindow
  /\ \E cancelOk, submitOk \in BOOLEAN : on_json(m, cancelOk, submitOk)
  /\ jobs' = jobs \cup AcceptedJob

Hello(s, ok) == accept_server_hello(s, ok) /\ UNCHANGED jobs

Binary(ok) == on_binary(ok) /\ UNCHANGED jobs

AgentFinal(j) ==
  /\ \E sendOk \in BOOLEAN : on_agent_final(j.id, sendOk)
  /\ jobs' = jobs \ {j}

AgentError(j) == on_agent_error(j.id) /\ jobs' = jobs \ {j}

\* A cancelled run that ends without an answer.
AgentCancelled(j) ==
  /\ j.turn # turn \/ state = "IDLE"
  /\ jobs' = jobs \ {j}
  /\ UNCHANGED <<agentVars, outputs>>

Interrupt(ok) == interrupt(ok) /\ UNCHANGED jobs

Disconnected(ok) == on_disconnected(ok) /\ UNCHANGED jobs

Next ==
  \/ \E m \in Messages : Json(m)
  \/ \E s \in Sessions, ok \in BOOLEAN : Hello(s, ok)
  \/ \E ok \in BOOLEAN : Binary(ok) \/ Interrupt(ok) \/ Disconnected(ok)
  \/ \E j \in jobs : AgentFinal(j) \/ AgentError(j) \/ AgentCancelled(j)

Spec == Init /\ [][Next]_vars
-----------------------------------------------------------------------------
\* Types of the turn state (agent_bridge_t, device_voice_runtime_t) and of the
\* answers and calls of its entry points.
TypeOK ==
  /\ state \in States
  /\ activeId \in 0 .. MaxRequestId
  /\ nextId \in RequestIds
  /\ activeSession \in Sessions \cup {NoSession}
  /\ ready \in BOOLEAN
  /\ session \in Sessions \cup {NoSession}
  /\ result \in Results
  /\ calls \in Seq(Calls)
  /\ turn \in 0 .. MaxTurns
  /\ jobs \subseteq Jobs

\* A turn never outlives its transport session: outside IDLE the bridge holds
\* an identifier and exactly the session the runtime negotiated, and a
\* disconnect, an error or a terminal event clears all of it together
\* (clear_active_request, device_voice_runtime_on_disconnected).
TurnBoundToSession ==
  /\ (state = "IDLE") <=> (activeId = 0)
  /\ (state = "IDLE") <=> (activeSession = NoSession)
  /\ ready <=> (session # NoSession)
  /\ state # "IDLE" => ready /\ activeSession = session

\* Identifiers stay unambiguous across wrap-around, barge-in and reconnect: a
\* run still to be answered that carries the active identifier is the run of
\* the current turn, so no late answer of an older turn passes
\* valid_active_request.
AnswerIsCurrent ==
  \A j \in jobs : j.id = activeId => j.turn = turn

\* A turn that waits for its Agent has a run ESP-Claw still owes an answer
\* for: AGENT_RUNNING is never entered, or kept, with nobody left to end it.
RunningTurnIsOwedAnAnswer ==
  state = "AGENT_RUNNING" => \E j \in jobs : j.turn = turn /\ j.id = activeId

\* "For barge-in, the controller sends tts_abort before it submits the new
\* Agent request", and local audio is flushed before either: whenever a step
\* submits a run, what it interrupted has been stopped by then, in that order.
ReplacedTurnIsStoppedFirst ==
  [][\A n \in DOMAIN calls' :
       calls'[n].op = "submit_agent" /\ turn' # turn =>
         /\ n = Len(calls')
         /\ state = "AGENT_RUNNING" =>
              \E a \in 1 .. n - 1 : calls'[a].op = "cancel_agent" /\ calls'[a].id = activeId
         /\ state \in TtsStates =>
              \E f \in 1 .. n - 1 : \E a \in f + 1 .. n - 1 :
                /\ calls'[f].op = "FLUSH" /\ calls'[f].id = activeId
                /\ calls'[a].op = "tts_abort" /\ calls'[a].id = activeId]_vars
=============================================================================
