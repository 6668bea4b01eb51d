---------------------------- MODULE VoiceGateway ----------------------------
(***************************************************************************)
(* One device connection of the voice gateway (connection in handler.go):  *)
(* the read loop, one goroutine per TTS request, and the callers that end  *)
(* the connection from outside.  active and every write of a TTS event are *)
(* guarded by stateMu, held across the write, so a check of active and the *)
(* write it permits are one step.  Writes go to "down", the ordered stream *)
(* the device reads.                                                       *)
(*                                                                         *)
(* A request is told apart in the code by its request_id only.  Streams    *)
(* are numbered in the order they start, and messages carry that number    *)
(* beside the identifier so that properties can speak of it.               *)
(***************************************************************************)
EXTENDS Integers, Sequences, FiniteSets, SequencesExt

CONSTANTS Ids,          \* request identifiers a device may use
          MaxStreams,   \* bound on the requests accepted
          MaxFrames,    \* bound on the audio frames of one request
          MaxDown       \* bound on the messages the device has not read

GatewayAssumption == MaxStreams \in Nat /\ MaxFrames \in Nat /\ MaxDown \in Nat

VARIABLES
  open,         \* the websocket accepts frames
  running,      \* the read loop has not returned
  active,       \* number of the stream connection.active stands for, or 0
  streams,      \* the TTS goroutines, in the order they were started
  violations,
  revoking,     \* an outside caller has cancelled and not yet closed
  down,
  opened        \* history: last stream whose start was sent, 0 after its end or abort

vars == <<open, running, active, streams, violations, revoking, down, opened>>

MaxViolations == 3
Refusals == {"budget_exceeded", "budget_unavailable"}


\* A goroutine returns: its deferred function releases a reservation the
\* provider was not contacted for and marks any other unfinished one uncertain.
Done(s) ==
  [s EXCEPT !.pc = "done",
            !.reservation = IF @ # "reserved" THEN @
                            ELSE IF s.contacted THEN "uncertain" ELSE "released"]

Message(type, n) == [type |-> type, n |-> n, id |-> streams[n].id]
Notice(type) == [type |-> type, n |-> 0, id |-> 0]

Init ==
  /\ open = TRUE
  /\ running = TRUE
  /\ active = 0
  /\ streams = <<>>
  /\ violations = 0
  /\ revoking = FALSE
  /\ down = <<>>
  /\ opened = 0
-----------------------------------------------------------------------------
\* Writing.  A write whose context has ended may still go out, may give up
\* before it touches the connection, or may close it; a write with a live
\* context closes the connection when it cannot finish in WriteTimeout.

WriteOutcomes(ctx) ==
  IF ~open THEN {"failed"}
  ELSE IF ctx = "live" THEN {"sent", "closed"}
  ELSE {"sent", "failed", "closed"}

write(m, outcome) ==
  /\ outcome = "sent" => Len(down) < MaxDown
  /\ down' = IF outcome = "sent" THEN Append(down, m) ELSE down
  /\ open' = (open /\ outcome # "closed")

\* Mutant: any goroutine may write while some request is active.
IsActive_mutant(n) == active # 0

\* The test of writeIfActive, finishTTS and abortTTS.
IsActive(n) == active # 0 /\ streams[active].id = streams[n].id

\* Where a goroutine goes when a step of it failed: handleTTSError says nothing
\* after a cancellation, everything else ends in an error event.
Failed(s) == IF s.ctx = "canceled" THEN Done(s) ELSE [s EXCEPT !.pc = "error"]

\* writeIfActive as streamTTS uses it: s is the goroutine after a success.
writeIfActive(n, m, s) ==
  IF ~IsActive(n)
  THEN /\ streams' = [streams EXCEPT ![n] = Done(@)]
       /\ UNCHANGED <<open, down, opened>>
  ELSE \E outcome \in WriteOutcomes(streams[n].ctx) :
         /\ write(m, outcome)
         /\ streams' = [streams EXCEPT ![n] = IF outcome = "sent" THEN s ELSE Failed(@)]
         /\ opened' = IF outcome = "sent" /\ m.type = "start" THEN n ELSE opened

Unmoved == UNCHANGED <<running, violations, revoking>>

Start(n) ==
  /\ streams[n].pc = "start"
  /\ writeIfActive(n, Message("start", n), [streams[n] EXCEPT !.pc = "sentence"])
  /\ Unmoved /\ UNCHANGED active

SentenceStart(n) ==
  /\ streams[n].pc = "sentence"
  /\ writeIfActive(n, Message("sentence_start", n),
                   [streams[n] EXCEPT !.pc = "stream", !.contacted = TRUE])
  /\ Unmoved /\ UNCHANGED active

\* One Opus packet from the synthesizer's callback.
Frame(n) ==
  /\ streams[n].pc = "stream"
  /\ streams[n].frames < MaxFrames
  /\ writeIfActive(n, Message("frame", n), [streams[n] EXCEPT !.frames = @ + 1])
  /\ Unmoved /\ UNCHANGED active

SynthesisEnds(n, ok) ==
  /\ streams[n].pc = "stream"
  /\ streams' = [streams EXCEPT ![n] = IF ok THEN [@ EXCEPT !.pc = "settle"] ELSE Failed(@)]
  /\ Unmoved /\ UNCHANGED <<open, active, down, opened>>

Settle(n, ok) ==
  /\ streams[n].pc = "settle"
  /\ streams' = [streams EXCEPT ![n] =
       IF ok THEN [@ EXCEPT !.pc = "stop", !.reservation = "settled"]
       ELSE [@ EXCEPT !.pc = "error"]]
  /\ Unmoved /\ UNCHANGED <<open, active, down, opened>>

\* finishTTS: the terminal event, then the slot is freed and the context of
\* whatever request held it cancelled, whether or not the event went out.
finishTTS(n) ==
  /\ streams[n].pc \in {"stop", "error"}
  /\ IF ~IsActive(n)
     THEN /\ streams' = [streams EXCEPT ![n] = Done(@)]
          /\ UNCHANGED <<open, active, down, opened>>
     ELSE \E outcome \in WriteOutcomes(streams[n].ctx) :
            /\ write(Message(streams[n].pc, n), outcome)
            /\ active' = 0
            /\ streams' = [[streams EXCEPT ![active].ctx = "canceled"]
                             EXCEPT ![n] = Done(@)]
            /\ opened' = IF outcome = "sent" THEN 0 ELSE opened
  /\ Unmoved

\* The SynthesisTimeout of the request's context passes.
Expire(n) ==
  /\ streams[n].pc # "done" /\ streams[n].ctx = "live"
  /\ streams' = [streams EXCEPT ![n].ctx = "expired"]
  /\ Unmoved /\ UNCHANGED <<open, active, down, opened>>

streamTTS(n) ==
  \/ Start(n) \/ SentenceStart(n) \/ Frame(n) \/ finishTTS(n)
  \/ \E ok \in BOOLEAN : SynthesisEnds(n, ok) \/ Settle(n, ok)
-----------------------------------------------------------------------------
\* The read loop: one step reads one message and handles it.

\* An error event; the third violation also closes.
reportViolation ==
  /\ Len(down) < MaxDown
  /\ down' = Append(down, Notice("error"))
  /\ violations' = violations + 1
  /\ open' = (violations + 1 < MaxViolations)

CanRead == running /\ open

\* reserved: what the speech budget answers, "ok" or a refusal the device is
\* told of without a request_id.
startTTS(id, reserved) ==
  /\ CanRead
  /\ IF active # 0
     THEN reportViolation /\ UNCHANGED <<active, streams>>
     ELSE IF reserved = "ok"
     THEN /\ Len(streams) < MaxStreams
          /\ streams' = Append(streams,
               [id |-> id, pc |-> "start", ctx |-> "live", contacted |-> FALSE,
                reservation |-> "reserved", frames |-> 0])
          /\ active' = Len(streams')
          /\ UNCHANGED <<open, violations, down>>
     ELSE write(Notice(reserved), "sent") /\ UNCHANGED <<active, streams, violations>>
  /\ UNCHANGED <<running, revoking, opened>>

\* Mutant: the slot is freed and the synthesis goes on.
abortTTS_mutant(id) ==
  /\ CanRead
  /\ IF active = 0 \/ streams[active].id # id
     THEN reportViolation /\ UNCHANGED <<active, streams>>
     ELSE /\ active' = 0
          /\ UNCHANGED <<open, streams, violations, down>>
  /\ UNCHANGED <<running, revoking, opened>>

\* An abort that meets no active request of its identifier is a violation, also
\* when it only crossed the terminal event on the way.
abortTTS(id) ==
  /\ CanRead
  /\ IF active = 0 \/ streams[active].id # id
     THEN reportViolation /\ UNCHANGED <<active, streams>>
     ELSE /\ streams' = [streams EXCEPT ![active].ctx = "canceled"]
          /\ active' = 0
          /\ UNCHANGED <<open, violations, down>>
  /\ opened' = IF active # 0 /\ active' = 0 THEN 0 ELSE opened
  /\ UNCHANGED <<running, revoking>>

\* A message that does not decode, names another session or repeats the hello.
BadMessage ==
  /\ CanRead
  /\ reportViolation
  /\ UNCHANGED <<running, active, streams, revoking, opened>>

\* Uplink audio the speech budget refuses: an event without a request, and the
\* connection closes when the budget is not merely used up.
HandleAudio(refusal) ==
  /\ CanRead
  /\ Len(down) < MaxDown
  /\ down' = Append(down, Notice(refusal))
  /\ open' = (refusal = "budget_exceeded")
  /\ UNCHANGED <<running, active, streams, violations, revoking, opened>>

\* A transcript from the speech backend, written by its own goroutine.
SendSTT ==
  /\ open
  /\ write(Notice("stt"), "sent")
  /\ UNCHANGED <<running, active, streams, violations, revoking, opened>>
-----------------------------------------------------------------------------
\* The end of the connection.

Cancel(s) == IF s.ctx = "live" THEN [s EXCEPT !.ctx = "canceled"] ELSE s

\* The peer goes away, a rate limit is hit, or FailVoice closes.
Close ==
  /\ open
  /\ open' = FALSE
  /\ UNCHANGED <<running, active, streams, violations, revoking, down, opened>>

cancelActive ==
  /\ active' = 0
  /\ streams' = [n \in DOMAIN streams |->
                   IF n = active THEN Cancel(streams[n]) ELSE streams[n]]

\* Token expiry, revoked identity or ownership, shutdown: the active request is
\* cancelled first and the websocket closed in a second step.
Revoke ==
  /\ running /\ ~revoking
  /\ revoking' = TRUE
  /\ cancelActive
  /\ UNCHANGED <<open, running, violations, down, opened>>

RevokeClose ==
  /\ revoking /\ open
  /\ open' = FALSE
  /\ UNCHANGED <<running, active, streams, violations, revoking, down, opened>>

\* The read fails: cancelActive, and with the handler's return the request
\* context, parent of every stream's, is cancelled.
ReadFails ==
  /\ running /\ ~open
  /\ running' = FALSE
  /\ active' = 0
  /\ streams' = [n \in DOMAIN streams |-> Cancel(streams[n])]
  /\ UNCHANGED <<open, violations, revoking, down, opened>>

\* The device reads the next message.
Read ==
  /\ down # <<>>
  /\ down' = Tail(down)
  /\ UNCHANGED <<open, running, active, streams, violations, revoking, opened>>
-----------------------------------------------------------------------------
\* The surroundings send anything at any time, except that a device does not
\* use an identifier again while a goroutine that carries it is still alive.

Fresh(id) == \A n \in DOMAIN streams : streams[n].id = id => streams[n].pc = "done"

Ended ==
  /\ ~running /\ down = <<>>
  /\ \A n \in DOMAIN streams : streams[n].pc = "done"
  /\ UNCHANGED vars

Next ==
  \/ \E n \in DOMAIN streams : streamTTS(n) \/ Expire(n)
  \/ \E id \in Ids : abortTTS(id) \/ (Fresh(id) /\ \E r \in Refusals \cup {"ok"} : startTTS(id, r))
  \/ \E refusal \in Refusals : HandleAudio(refusal)
  \/ BadMessage \/ SendSTT
  \/ Close \/ Revoke \/ RevokeClose \/ ReadFails
  \/ Read
  \/ Ended

\* Goroutines run; the synthesizer returns once its context has ended, and the
\* context ends at SynthesisTimeout; the device reads.  Strong fairness for the
\* goroutines, since writers share a sync.Mutex, which starves none of them.
MustMove(n) ==
  /\ n \in DOMAIN streams
  /\ streams[n].pc = "stream" => streams[n].ctx # "live"
  /\ streamTTS(n)

Fairness ==
  /\ \A n \in 1 .. MaxStreams :
       SF_vars(MustMove(n)) /\ WF_vars(n \in DOMAIN streams /\ Expire(n))
  /\ WF_vars(Read) /\ WF_vars(RevokeClose) /\ WF_vars(ReadFails)

Spec == Init /\ [][Next]_vars /\ Fairness
-----------------------------------------------------------------------------
Streams ==
  [id : Ids, pc : {"start", "sentence", "stream", "settle", "stop", "error", "done"},
   ctx : {"live", "expired", "canceled"}, contacted : BOOLEAN,
   reservation : {"reserved", "settled", "released", "uncertain"}, frames : 0 .. MaxFrames]

\* Types of the connection's state; reportViolation closes the connection before
\* a fourth violation can be counted.
TypeOK ==
  /\ {open, running, revoking} \subseteq BOOLEAN
  /\ streams \in Seq(Streams) /\ Len(streams) <= MaxStreams
  /\ {active, opened} \subseteq 0 .. Len(streams)
  /\ violations \in 0 .. MaxViolations
  /\ Len(down) <= MaxDown

\* "only one TTS request is allowed": whatever aborts, expiries and failures
\* have come before, a synthesis whose context is live is the active one, so
\* the provider never works, and is never paid, for two at a time.
SingleSynthesis ==
  \A n \in DOMAIN streams :
    streams[n].pc # "done" /\ streams[n].ctx = "live" => active = n

\* What writeIfActive and finishTTS put on the wire, in the order the device
\* reads it: sentence and audio of a request only between its start and its
\* end, no start while another request is unfinished and not aborted, and
\* nothing at all of a request that was aborted.
WireOrder ==
  [][Len(down') > Len(down) =>
       LET m == Last(down') IN
       m.n # 0 =>
         /\ m.type \in {"sentence_start", "frame", "stop"} => opened = m.n
         /\ m.type = "start" => opened = 0 \/ streams[opened].ctx # "live"
         /\ streams[m.n].ctx # "canceled"]_vars

\* The slot of a request is freed in the end: by its terminal event, an abort,
\* the timeout, or the end of the connection.
SlotFreed == \A n \in 1 .. MaxStreams : (active = n) ~> (active # n)

\* Every reservation of the speech budget is settled, released or marked
\* uncertain in the end, however the request ended.
ReservationsResolved ==
  \A n \in 1 .. MaxStreams :
    (n \in DOMAIN streams /\ streams[n].reservation = "reserved")
      ~> (n \in DOMAIN streams /\ streams[n].reservation # "reserved")

\* "exactly one tts stop or tts error": a request whose start the device has
\* been sent gets a terminal event, unless it is aborted or the connection
\* ends.  The code breaks it: the terminal event of a request that timed out is
\* written with the context that has just expired.
StartedIsTerminated ==
  \A n \in 1 .. MaxStreams :
    (opened = n) ~> (opened # n \/ ~open \/ revoking)
=============================================================================
