--------------------------- MODULE VoicePlayback ----------------------------
(***************************************************************************)
(* Downlink audio on the device: voice_audio_session and the playback half *)
(* of box3_voice_audio.  Two threads interleave between their critical     *)
(* sections: the voice client's worker, which calls playback_event,        *)
(* push_binary and destroy, and the playback task, which takes packets     *)
(* from the decode queue, decodes them and writes them to the speaker.     *)
(* lifecycle_mutex guards the session only; the two FreeRTOS queues are    *)
(* used outside it.                                                        *)
(*                                                                         *)
(* A packet is its token and a serial number.  The controller above is     *)
(* "phase": it is pending after it requested TTS, playing between BEGIN    *)
(* and DRAIN or FLUSH, as VoiceAgent describes.                            *)
(***************************************************************************)
EXTENDS Integers, Sequences, FiniteSets

CONSTANTS Depth,        \* BOX3_VOICE_AUDIO_DOWNLINK_QUEUE_DEPTH
          MaxRequests,  \* bound on the requests the controller makes
          MaxPackets    \* bound on the packets that arrive

\* One packet is in the playback task's hands while another is being queued.
ASSUME DepthAssumption == Depth \in Nat /\ Depth >= 2
ASSUME BoundsAssumption == MaxRequests \in Nat /\ MaxPackets \in Nat

VARIABLES
  aState, aId, gen, inflight,   \* voice_audio_session_t
  decodeQ,                      \* decode_items
  free,                         \* how many items free_items holds
  output,                       \* the speaker is enabled
  ppc, item,                    \* playback task: program counter, item in hand
  wpc, token,                   \* worker: program counter, admitted token
  phase, request,               \* the controller above
  stopBit, stoppedBit, freed,   \* kStopRequested, kPlaybackStopped, storage
  packets, played,              \* history: packets that arrived, were written
  drained, flushed, rejected    \* history: generations ended, packets refused

sessionVars == <<aState, aId, gen, inflight>>
playerVars == <<ppc, item>>
workerVars == <<wpc, token>>
lifeVars == <<stopBit, stoppedBit, freed>>
history == <<packets, played, drained, flushed, rejected>>
vars == <<sessionVars, decodeQ, free, output, playerVars, workerVars, phase,
          request, lifeVars, history>>

NoToken == [id |-> 0, gen |-> 0]
NoItem == [id |-> 0, gen |-> 0, n |-> 0]
Tokens == [id : 1 .. MaxRequests, gen : Nat \ {0}]
Items == [id : 1 .. MaxRequests, gen : Nat \ {0}, n : 1 .. MaxPackets]
TokenOf(i) == [id |-> i.id, gen |-> i.gen]

\* lifecycle_mutex is held across steps only while BEGIN empties the queue;
\* every other critical section is one step.
LockFree == wpc # "begin_flush"
-----------------------------------------------------------------------------
\* voice_audio_session

Init ==
  /\ aState = "IDLE" /\ aId = 0 /\ gen = 1 /\ inflight = NoToken
  /\ decodeQ = <<>> /\ free = Depth /\ output = FALSE
  /\ ppc = "loop" /\ item = NoItem
  /\ wpc = "ready" /\ token = NoToken
  /\ phase = "idle" /\ request = 0
  /\ stopBit = FALSE /\ stoppedBit = FALSE /\ freed = FALSE
  /\ packets = 0 /\ played = <<>> /\ drained = {} /\ flushed = {}
  /\ rejected = {}

\* The generation is a uint32 that skips 0; it advances at most twice a
\* request, so no behaviour within the bounds reaches its wrap.
clear_active ==
  /\ aState' = "IDLE"
  /\ aId' = 0
  /\ gen' = gen + 1

is_current(t) == aState # "IDLE" /\ aId = t.id /\ gen = t.gen

session_begin(id) ==
  /\ gen' = gen + 1
  /\ aId' = id
  /\ aState' = "ACCEPTING"
  /\ UNCHANGED inflight

\* finish_drain: the draining request ends once nothing of it is queued and
\* the playback task has declared nothing in flight.
CanFinish == aState = "DRAINING" /\ decodeQ = <<>> /\ inflight = NoToken
-----------------------------------------------------------------------------
\* The playback task.

PlayerUnchanged == UNCHANGED <<workerVars, phase, request, lifeVars>>

\* Line 492: a packet, or the 50 ms timeout on an empty queue.
Receive ==
  /\ ppc = "loop" /\ ~stopBit
  /\ IF decodeQ # <<>>
       THEN /\ item' = Head(decodeQ)
            /\ decodeQ' = Tail(decodeQ)
            /\ ppc' = "got"
       ELSE ppc' = "finish" /\ UNCHANGED <<item, decodeQ>>
  /\ UNCHANGED <<sessionVars, free, output, history>>
  /\ PlayerUnchanged

\* set_inflight(true): a packet whose generation ended meanwhile is refused.
SetInflight ==
  /\ ppc = "got" /\ LockFree
  /\ IF inflight = NoToken /\ is_current(item)
       THEN /\ inflight' = TokenOf(item)
            /\ ppc' = "decode"
            /\ UNCHANGED rejected
       ELSE /\ ppc' = "return"
            /\ rejected' = rejected \cup {item}
            /\ UNCHANGED inflight
  /\ UNCHANGED <<aState, aId, gen, decodeQ, free, output, item,
                 packets, played, drained, flushed>>
  /\ PlayerUnchanged

\* decode_packet, outside the lock; a codec error skips the write.
Decode ==
  /\ ppc = "decode"
  /\ ppc' \in {"write", "clear"}
  /\ UNCHANGED <<sessionVars, decodeQ, free, output, item, history>>
  /\ PlayerUnchanged

\* Mutant: the token is not rechecked before the write.
Write_mutant ==
  /\ ppc = "write" /\ LockFree
  /\ \E enabled, written \in BOOLEAN :
       /\ output' = (enabled \/ output)
       /\ played' = IF enabled /\ written THEN Append(played, item) ELSE played
  /\ ppc' = "clear"
  /\ UNCHANGED <<sessionVars, decodeQ, free, item, packets, drained, flushed, rejected>>
  /\ PlayerUnchanged

\* Lines 513-536: recheck the token and write, in one critical section.  The
\* speaker may refuse to be enabled, or the write may fail.
Write ==
  /\ ppc = "write" /\ LockFree
  /\ IF is_current(item)
       THEN \E enabled, written \in BOOLEAN :
              /\ output' = (enabled \/ output)
              /\ played' = IF enabled /\ written THEN Append(played, item) ELSE played
       ELSE UNCHANGED <<output, played>>
  /\ ppc' = "clear"
  /\ UNCHANGED <<sessionVars, decodeQ, free, item, packets, drained,
                 flushed, rejected>>
  /\ PlayerUnchanged

\* Mutant: the in-flight mark is taken back only while packets are admitted.
ClearInflight_mutant ==
  /\ ppc = "clear" /\ LockFree
  /\ inflight' = IF aState = "ACCEPTING" THEN NoToken ELSE inflight
  /\ ppc' = "return"
  /\ UNCHANGED <<aState, aId, gen, decodeQ, free, output, item, history>>
  /\ PlayerUnchanged

\* set_inflight(false).
ClearInflight ==
  /\ ppc = "clear" /\ LockFree
  /\ inflight' = IF inflight = TokenOf(item) THEN NoToken ELSE inflight
  /\ ppc' = "return"
  /\ UNCHANGED <<aState, aId, gen, decodeQ, free, output, item, history>>
  /\ PlayerUnchanged


ReturnItem ==
  /\ ppc = "return"
  /\ free' = free + 1
  /\ item' = NoItem
  /\ ppc' = "finish"
  /\ UNCHANGED <<sessionVars, decodeQ, output, history>>
  /\ PlayerUnchanged

\* finish_drain_if_ready on the playback task: the session ends under the lock,
\* the speaker is switched off after it.
PlayerFinish ==
  /\ ppc = "finish" /\ LockFree
  /\ IF CanFinish
       THEN clear_active /\ drained' = drained \cup {gen} /\ ppc' = "off"
       ELSE UNCHANGED <<aState, aId, gen, drained>> /\ ppc' = "loop"
  /\ UNCHANGED <<inflight, decodeQ, free, output, item, packets,
                 played, flushed, rejected>>
  /\ PlayerUnchanged

\* A drain that ended switches the speaker off and reports it.
PlayerOff ==
  /\ ppc = "off"
  /\ output' = FALSE
  /\ ppc' = "loop"
  /\ UNCHANGED <<sessionVars, decodeQ, free, item, history>>
  /\ PlayerUnchanged

\* Lines 488 and 553-557: on a stop request the queue is emptied, the speaker
\* switched off, kPlaybackStopped set, and then playback_task cleared.
ExitFlush ==
  /\ \/ ppc = "loop" /\ stopBit
     \/ ppc = "exit_flush"
  /\ IF decodeQ # <<>>
       THEN decodeQ' = Tail(decodeQ) /\ free' = free + 1 /\ ppc' = "exit_flush"
       ELSE ppc' = "exit_off" /\ UNCHANGED <<decodeQ, free>>
  /\ UNCHANGED <<sessionVars, output, item, history>>
  /\ PlayerUnchanged

ExitOff ==
  /\ ppc = "exit_off"
  /\ output' = FALSE
  /\ ppc' = "exit_bit"
  /\ UNCHANGED <<sessionVars, decodeQ, free, item, history>>
  /\ PlayerUnchanged

ExitBit ==
  /\ ppc = "exit_bit"
  /\ stoppedBit' = TRUE
  /\ ppc' = "exit_null"
  /\ UNCHANGED <<sessionVars, decodeQ, free, output, item, history, workerVars,
                 phase, request, stopBit, freed>>

ExitNull ==
  /\ ppc = "exit_null"
  /\ ppc' = "dead"
  /\ UNCHANGED <<sessionVars, decodeQ, free, output, item, history>>
  /\ PlayerUnchanged

PlaybackTask ==
  \/ Receive \/ SetInflight \/ Decode \/ Write \/ ClearInflight \/ ReturnItem
  \/ PlayerFinish \/ PlayerOff \/ ExitFlush \/ ExitOff \/ ExitBit \/ ExitNull
-----------------------------------------------------------------------------
\* The worker.  A call starts only when the previous one has returned.

WorkerUnchanged == UNCHANGED <<playerVars, lifeVars>>

\* The controller sends a TTS request; no audio call is made yet.
Request ==
  /\ wpc = "ready" /\ phase = "idle" /\ request < MaxRequests
  /\ phase' = "pending"
  /\ request' = request + 1
  /\ UNCHANGED <<sessionVars, decodeQ, free, output, workerVars, history>>
  /\ WorkerUnchanged

\* BEGIN: the new generation starts and the queue is emptied under the lock.
Begin ==
  /\ wpc = "ready" /\ phase = "pending"
  /\ session_begin(request)
  /\ flushed' = flushed \cup {gen}
  /\ phase' = "playing"
  /\ wpc' = "begin_flush"
  /\ UNCHANGED <<decodeQ, free, output, token, request, packets, played, drained,
                 rejected>>
  /\ WorkerUnchanged

\* flush_queued_packets, one packet at a time; the playback task may take some.
FlushQueue(next) ==
  /\ IF decodeQ # <<>>
       THEN decodeQ' = Tail(decodeQ) /\ free' = free + 1 /\ UNCHANGED wpc
       ELSE wpc' = next /\ UNCHANGED <<decodeQ, free>>
  /\ UNCHANGED <<sessionVars, output, token, phase, request, history>>
  /\ WorkerUnchanged

BeginFlush == wpc = "begin_flush" /\ FlushQueue("ready")

\* DRAIN: no more packets are admitted; it is stale if nothing was begun.
Drain ==
  /\ wpc = "ready" /\ phase \in {"pending", "playing"}
  /\ phase' = "idle"
  /\ IF aId = request /\ aState # "IDLE"
       THEN aState' = "DRAINING" /\ wpc' = "drain_finish"
       ELSE UNCHANGED <<aState, wpc>>
  /\ UNCHANGED <<aId, gen, inflight, decodeQ, free, output, token, request, history>>
  /\ WorkerUnchanged

\* finish_drain_if_ready on the worker.
DrainFinish ==
  /\ wpc = "drain_finish"
  /\ IF CanFinish
       THEN clear_active /\ drained' = drained \cup {gen} /\ wpc' = "off"
       ELSE UNCHANGED <<aState, aId, gen, drained>> /\ wpc' = "ready"
  /\ UNCHANGED <<inflight, decodeQ, free, output, token, phase, request, packets,
                 played, flushed, rejected>>
  /\ WorkerUnchanged

\* FLUSH: the generation ends under the lock, the queue is emptied and the
\* speaker switched off after it; stale while another request is active.
Flush ==
  /\ wpc = "ready" /\ phase \in {"pending", "playing"}
  /\ phase' = "idle"
  /\ IF aId \in {0, request}
       THEN clear_active /\ flushed' = flushed \cup {gen} /\ wpc' = "flush_queue"
       ELSE UNCHANGED <<aState, aId, gen, flushed, wpc>>
  /\ UNCHANGED <<inflight, decodeQ, free, output, token, request, packets, played,
                 drained, rejected>>
  /\ WorkerUnchanged

FlushRest == wpc = "flush_queue" /\ FlushQueue("off")

WorkerOff ==
  /\ wpc = "off"
  /\ output' = FALSE
  /\ wpc' = "ready"
  /\ UNCHANGED <<sessionVars, decodeQ, free, token, phase, request, history>>
  /\ WorkerUnchanged

\* push_binary: admission under the lock,
Admit ==
  /\ wpc = "ready" /\ phase = "playing" /\ packets < MaxPackets
  /\ packets' = packets + 1
  /\ IF aState = "ACCEPTING" /\ aId # 0
       THEN token' = [id |-> aId, gen |-> gen] /\ wpc' = "push_take"
       ELSE wpc' = "push_failed" /\ UNCHANGED token
  /\ UNCHANGED <<sessionVars, decodeQ, free, output, phase, request, played,
                 drained, flushed, rejected>>
  /\ WorkerUnchanged

\* then a free item, or the oldest queued one,
TakeItem ==
  /\ wpc = "push_take"
  /\ IF free > 0 THEN free' = free - 1 /\ wpc' = "push_send" /\ UNCHANGED decodeQ
     ELSE IF decodeQ # <<>>
       THEN decodeQ' = Tail(decodeQ) /\ wpc' = "push_send" /\ UNCHANGED free
     ELSE wpc' = "push_failed" /\ UNCHANGED <<free, decodeQ>>
  /\ UNCHANGED <<sessionVars, output, token, phase, request, history>>
  /\ WorkerUnchanged

\* Mutant: the packet is queued at the front.
SendItem_mutant ==
  /\ wpc = "push_send"
  /\ decodeQ' = <<[id |-> token.id, gen |-> token.gen, n |-> packets]>> \o decodeQ
  /\ wpc' = "ready"
  /\ token' = NoToken
  /\ UNCHANGED <<sessionVars, free, output, phase, request, history>>
  /\ WorkerUnchanged

\* then the copy is queued.
SendItem ==
  /\ wpc = "push_send"
  /\ IF Len(decodeQ) < Depth
       THEN /\ decodeQ' = Append(decodeQ, [id |-> token.id, gen |-> token.gen, n |-> packets])
            /\ wpc' = "ready"
            /\ UNCHANGED free
       ELSE free' = free + 1 /\ wpc' = "push_failed" /\ UNCHANGED decodeQ
  /\ token' = NoToken
  /\ UNCHANGED <<sessionVars, output, phase, request, history>>
  /\ WorkerUnchanged

\* destroy asks the playback task to stop and waits for it; on timeout the
\* storage is kept and the call may be made again.
Destroy ==
  /\ wpc \in {"ready", "retained"}
  /\ stopBit' = TRUE
  /\ wpc' = "destroying"
  /\ UNCHANGED <<sessionVars, decodeQ, free, output, playerVars, token, phase,
                 request, stoppedBit, freed, history>>

cleanup ==
  /\ wpc = "destroying"
  /\ \/ stoppedBit /\ freed' = TRUE /\ wpc' = "gone"
     \/ ~stoppedBit /\ freed' = FALSE /\ wpc' = "retained"
  /\ UNCHANGED <<sessionVars, decodeQ, free, output, playerVars, token, phase,
                 request, stopBit, stoppedBit, history>>

\* The steps of a call already made; the scheduler runs the worker to its end.
WorkerSteps ==
  BeginFlush \/ DrainFinish \/ FlushRest \/ WorkerOff \/ TakeItem \/ SendItem \/ cleanup

WorkerCalls == Request \/ Begin \/ Drain \/ Flush \/ Admit \/ Destroy

\* Both threads have ended.
Ended == wpc = "gone" /\ ppc = "dead" /\ UNCHANGED vars

Next == PlaybackTask \/ WorkerSteps \/ WorkerCalls \/ Ended

\* FreeRTOS keeps scheduling a runnable task; nobody has to call the worker.
Fairness == WF_vars(PlaybackTask) /\ WF_vars(WorkerSteps)

Spec == Init /\ [][Next]_vars /\ Fairness
-----------------------------------------------------------------------------
\* Types of the audio session, the queues and the two threads.
TypeOK ==
  /\ aState \in {"IDLE", "ACCEPTING", "DRAINING"}
  /\ aId \in 0 .. MaxRequests
  /\ gen \in Nat \ {0}
  /\ inflight \in Tokens \cup {NoToken}
  /\ decodeQ \in Seq(Items)
  /\ free \in 0 .. Depth
  /\ output \in BOOLEAN
  /\ item \in Items \cup {NoItem}
  /\ ppc \in {"loop", "got", "decode", "write", "clear", "return", "finish", "off",
              "exit_flush", "exit_off", "exit_bit", "exit_null", "dead"}
  /\ wpc \in {"ready", "begin_flush", "drain_finish", "flush_queue", "off",
              "push_take", "push_send", "push_failed", "destroying", "retained", "gone"}
  /\ token \in Tokens \cup {NoToken}
  /\ phase \in {"idle", "pending", "playing"}
  /\ request \in 0 .. MaxRequests
  /\ packets \in 0 .. MaxPackets

\* The fixed packet pool is conserved: every item is free, queued or in the
\* hands of exactly one thread ("Packet pool invariant violated" is logged by
\* return_free_item when this fails).
ItemsConserved ==
  free + Len(decodeQ) + (IF item # NoItem THEN 1 ELSE 0)
    + (IF wpc = "push_send" THEN 1 ELSE 0) = Depth

\* While the controller is playing, push_binary never fails: admission is open
\* and an item can always be had.  A failed push would make on_binary return
\* ERR_OPERATION, on which the voice client closes the connection.
PushNeverFails == wpc # "push_failed"

\* The audio session follows the controller: while it plays, the session
\* accepts exactly its request, and accepts nothing otherwise.
AcceptingIffPlaying ==
  wpc = "ready" => ((phase = "playing") <=> (aState = "ACCEPTING"))
                   /\ (phase = "playing" => aId = request)

\* Audio is immediately invalid after a flush or a new BEGIN: no packet of a
\* generation that was flushed is written to the speaker any more, whatever
\* the playback task had in its hands.
NoAudioAfterFlush ==
  [][played' # played => played'[Len(played')].gen \notin flushed]_vars

\* Packets are heard in the order they arrived, each at most once, also when
\* the overloaded queue gives up its oldest packet.
PlayedInOrder ==
  \A m, n \in DOMAIN played : m < n => played[m].n < played[n].n

\* The speaker is off whenever no request is active and neither thread is in
\* the middle of a call.
SpeakerOffAtRest ==
  aState = "IDLE" /\ ppc = "loop" /\ wpc = "ready" => ~output

\* A graceful drain ends, unless the stream is destroyed meanwhile, so that the
\* speaker is released.
DrainEnds == aState = "DRAINING" ~> (aState # "DRAINING" \/ stopBit)

\* "packets already accepted for that request play before output is disabled":
\* no packet is refused as stale because its own drain was declared finished.
DrainPlaysAccepted == \A p \in rejected : p.gen \notin drained
=============================================================================
