----------------------------- MODULE VoiceLink ------------------------------
(***************************************************************************)
(* One voice session end to end: the device's turn (VoiceAgent) and the    *)
(* gateway's connection (VoiceGateway) joined by an ordered link in each   *)
(* direction, with what device_voice_client and the Agent supervisor do    *)
(* with the results: a stale message is reported to the supervisor, which  *)
(* ends the session; any other failure closes the connection at once.      *)
(* The faults of the surroundings are switched on by the constant Faults.  *)
(***************************************************************************)
EXTENDS VoiceAgent

CONSTANTS MaxFrames, MaxDown,
          Faults   \* "send", "submit", "timeout", "close", "button" and refusals

VARIABLES
  open, running, active, streams, violations, revoking, down, opened,
  up,         \* control messages the gateway has not read
  phase,      \* of the device's session: hello, talking, failing, over
  reported    \* the supervisor has been told of a failure

gatewayVars == <<open, running, active, streams, violations, revoking, down, opened>>
linkVars == <<vars, gatewayVars, up, phase, reported>>

G == INSTANCE VoiceGateway WITH Ids <- RequestIds, MaxStreams <- MaxTurns

May(fault) == IF fault \in Faults THEN BOOLEAN ELSE {TRUE}

TheSession == CHOOSE s \in Sessions : TRUE

LinkInit ==
  /\ Init /\ G!Init
  /\ up = <<>>
  /\ phase = "hello"
  /\ reported = FALSE
-----------------------------------------------------------------------------
\* The device's worker.

\* The control message the adapter makes of a frame on the wire.
Decoded(f) ==
  IF f.n # 0 THEN [type |-> "tts", event |-> f.type, session |-> TheSession, id |-> f.id]
  ELSE IF f.type = "stt" THEN [type |-> "stt", session |-> TheSession]
  ELSE [type |-> "error", budget |-> f.type \in G!Refusals]

\* Control messages a step hands to the transport.
Sent == SelectSeq(calls', LAMBDA c : c.ok /\ c.op \in {"tts_request", "tts_abort"})

ServerHello ==
  /\ phase = "hello" /\ open
  /\ accept_server_hello(TheSession, TRUE)
  /\ phase' = "talking"
  /\ UNCHANGED <<gatewayVars, jobs, up, reported>>


\* A text message.  A stale one is only reported; a failed one closes the
\* connection; a budget that is unavailable is reported too.
handle_text ==
  /\ phase = "talking" /\ down # <<>> /\ Head(down).type # "frame"
  /\ \E cancelOk \in May("send"), submitOk \in May("submit") :
       on_json(Decoded(Head(down)), cancelOk, submitOk)
  /\ jobs' = jobs \cup AcceptedJob
  /\ G!Read
  /\ up' = up \o Sent
  /\ reported' = \/ reported
                 \/ result' # "OK"
                 \/ Head(down).type = "budget_unavailable"
  /\ phase' = IF result' \in {"OK", "STALE_EVENT"} THEN "talking" ELSE "failing"

\* An audio frame; one that comes outside TTS_PLAYING is dropped.
handle_binary ==
  /\ phase = "talking" /\ down # <<>> /\ Head(down).type = "frame"
  /\ on_binary(TRUE)
  /\ G!Read
  /\ UNCHANGED <<jobs, up, phase, reported>>

AgentAnswers(j) ==
  /\ phase = "talking"
  /\ \/ \E sendOk \in May("send") : on_agent_final(j.id, sendOk)
     \/ on_agent_error(j.id)
  /\ jobs' = jobs \ {j}
  /\ up' = up \o Sent
  /\ reported' = (reported \/ result' \notin {"OK", "STALE_EVENT"})
  /\ phase' = IF result' \in {"OK", "STALE_EVENT"} THEN "talking" ELSE "failing"
  /\ UNCHANGED gatewayVars

AgentGivesUp(j) == AgentCancelled(j) /\ UNCHANGED <<gatewayVars, up, phase, reported>>

Button ==
  /\ "button" \in Faults
  /\ phase = "talking" /\ state # "IDLE"
  /\ \E ok \in May("send") : interrupt(ok)
  /\ up' = up \o Sent
  /\ UNCHANGED <<gatewayVars, jobs, phase, reported>>

\* The session ends on the device: the turn is cleared, with an abort that may
\* still leave, and the socket is closed after it.
SessionEnds ==
  /\ \E ok \in {open, FALSE} : on_disconnected(ok)
  /\ up' = up \o Sent
  /\ phase' = "over"
  /\ UNCHANGED <<gatewayVars, jobs, reported>>


fail_connection == phase = "failing" /\ SessionEnds
supervisor_stops == phase = "talking" /\ reported /\ SessionEnds
handle_disconnected == phase \in {"hello", "talking"} /\ ~open /\ SessionEnds

device_websocket_transport_close ==
  /\ phase = "over"
  /\ G!Close
  /\ UNCHANGED <<vars, up, phase, reported>>

Device ==
  \/ ServerHello \/ handle_text \/ handle_binary
  \/ fail_connection \/ supervisor_stops \/ handle_disconnected
  \/ device_websocket_transport_close
-----------------------------------------------------------------------------
\* The gateway.

\* Control messages arrive in the order they were sent.
GatewayReads ==
  /\ up # <<>>
  /\ IF Head(up).op = "tts_abort" THEN G!abortTTS(Head(up).id)
     ELSE \E r \in {"ok"} \cup (Faults \cap G!Refusals) :
            G!startTTS(Head(up).id, r)
  /\ up' = Tail(up)
  /\ UNCHANGED <<vars, phase, reported>>

GatewayStreams(n) ==
  /\ n \in DOMAIN streams
  /\ G!streamTTS(n)
  /\ UNCHANGED <<vars, up, phase, reported>>

GatewayExpires(n) ==
  /\ "timeout" \in Faults
  /\ n \in DOMAIN streams
  /\ G!Expire(n)
  /\ UNCHANGED <<vars, up, phase, reported>>

\* The speech backend sends a transcript, at most MaxTurns of them.
GatewayTranscribes ==
  /\ phase \in {"talking", "failing"}
  /\ turn + Len(SelectSeq(down, LAMBDA f : f.type = "stt")) < MaxTurns
  /\ G!SendSTT
  /\ UNCHANGED <<vars, up, phase, reported>>

GatewayRefusesAudio ==
  /\ \E refusal \in Faults \cap G!Refusals : G!HandleAudio(refusal)
  /\ UNCHANGED <<vars, up, phase, reported>>

GatewayCloses ==
  /\ "close" \in Faults
  /\ G!Close \/ G!Revoke
  /\ UNCHANGED <<vars, up, phase, reported>>

GatewayEnds ==
  /\ G!RevokeClose \/ G!ReadFails
  /\ UNCHANGED <<vars, up, phase, reported>>

\* What is left on the wire when the device has gone.
Discard == phase = "over" /\ G!Read /\ UNCHANGED <<vars, up, phase, reported>>

\* The session is over, or has had its MaxTurns turns.
Rest ==
  /\ \/ phase = "over" /\ ~running
     \/ turn = MaxTurns /\ state = "IDLE" /\ up = <<>>
  /\ down = <<>>
  /\ \A n \in DOMAIN streams : streams[n].pc = "done"
  /\ UNCHANGED linkVars

LinkNext ==
  \/ Device \/ Button \/ GatewayReads \/ GatewayTranscribes
  \/ \E j \in jobs : AgentAnswers(j) \/ AgentGivesUp(j)
  \/ \E n \in DOMAIN streams : GatewayStreams(n) \/ GatewayExpires(n)
  \/ GatewayRefusesAudio \/ GatewayCloses \/ GatewayEnds \/ Discard \/ Rest

LinkSafety == LinkInit /\ [][LinkNext]_linkVars

\* The worker, the read loop and the goroutines run; TCP delivers.
LinkFairness ==
  /\ WF_linkVars(Device) /\ WF_linkVars(GatewayReads)
  /\ WF_linkVars(Discard) /\ WF_linkVars(GatewayEnds)
  /\ \A n \in 1 .. MaxTurns : SF_linkVars(GatewayStreams(n))

LinkSpec == LinkSafety /\ LinkFairness
-----------------------------------------------------------------------------
\* The phases of the session and the messages on the uplink.
LinkTypeOK ==
  /\ phase \in {"hello", "talking", "failing", "over"}
  /\ reported \in BOOLEAN
  /\ up \in Seq(Calls)
  /\ phase \in {"talking", "failing"} <=> ready

\* Audio frames carry no request_id, so device_voice_runtime_on_binary plays
\* whatever arrives in TTS_PLAYING: it is always audio of the active request,
\* whatever aborts, barge-ins and refusals have crossed on the link.
FramesBelongToTurn ==
  phase = "talking" /\ down # <<>> /\ Head(down).type = "frame" /\ state = "TTS_PLAYING"
    => Head(down).id = activeId

\* Everything the device does here is a step of VoiceAgent, so what is proved
\* of VoiceAgent holds in the composed system.
DeviceIsVoiceAgent == Init /\ [][Next]_vars

\* Everything the gateway does here is a step of VoiceGateway, in particular no
\* identifier comes back while a goroutine that carries it is alive.
GatewayIsVoiceGateway == G!Init /\ [][G!Next]_gatewayVars




\* "A stale event must not alter state, display, or audio playback", and after a
\* barge-in "a late terminal event is expected to be rejected as stale": without
\* any fault the session goes on.  The code breaks it: the rejection is reported
\* as a protocol error and the supervisor ends the session.
StaleEventIsHarmless == ~reported
=============================================================================
