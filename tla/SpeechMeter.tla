---------------------------- MODULE SpeechMeter -----------------------------
(***************************************************************************)
(* The speech usage of one device's connections (speech_meter.go): the     *)
(* meter of the audio sent to recognition, and the reservations of the     *)
(* synthesis goroutines, over the SpeechBudget ledger.  The meter's mutex  *)
(* is held across its ledger calls and the upstream write, so one of its   *)
(* callers runs at a time; "at" says where that caller stands.  The timer's*)
(* callback may have started, and wait for the mutex, when it is stopped.  *)
(***************************************************************************)
EXTENDS SpeechBudget

CONSTANTS
  Frames,       \* input frame durations a hello may announce
  Chunk,        \* STTReservationChunkAudioMS
  Characters,   \* text length of a synthesis request
  MaxOutput     \* TTSMaxOutputAudioMS

MeterBounds == Frames \subseteq 1 .. Chunk /\ Chunk \in Nat /\ Characters \in Nat /\ MaxOutput \in Nat

VARIABLES
  meter,     \* the connection's meter, and ended: its read loop has returned
  active,    \* the request of connection.active, Nobody if none
  tts,       \* per reservation: where the synthesis goroutine holding it stands
  row,       \* history, per reservation: the row a caller was told of
  heard      \* history, per reservation: what the provider received or produced

meterVars == <<meter, active, tts, row, heard>>
vars == <<ledgerVars, meterVars>>

Nobody == "nobody"
NoRow == [cost |-> 0]

newMeter(frame) ==
  [at |-> "free", frame |-> frame, reservation |-> Nobody, used |-> 0, timer |-> FALSE,
   fired |-> FALSE, closed |-> FALSE, failed |-> FALSE, ended |-> FALSE]

Init ==
  /\ LedgerInit
  /\ \E frame \in Frames : meter = newMeter(frame)
  /\ active = Nobody
  /\ tts = [id \in Ids |-> "idle"]
  /\ row = [id \in Ids |-> NoRow]
  /\ heard = [id \in Ids |-> STTUsage(0)]
-----------------------------------------------------------------------------
\* What a ledger call leaves.
call(done) == ledger' = done.ledger /\ UNCHANGED <<day, late>>

\* Mutant: what is settled is one frame short.
settlement_mutant(m) ==
  IF m.used = 0 THEN Release(ledger, m.reservation)
  ELSE Settle(ledger, m.reservation, STTUsage(m.used - m.frame))

settlement(m) ==
  IF m.used = 0 THEN Release(ledger, m.reservation)
  ELSE Settle(ledger, m.reservation, STTUsage(m.used))

\* settleLocked and markUncertainLocked: the call's outcomes, and the meter after one.
settleLocked(m) ==
  IF m.reservation = Nobody THEN {Done(ledger, "nil")} ELSE serializable(settlement(m))

markUncertainLocked(m) ==
  IF m.reservation = Nobody THEN {Done(ledger, "nil")}
  ELSE serializable(MarkUncertain(ledger, m.reservation))

cleared(m) == [m EXCEPT !.reservation = Nobody, !.used = 0, !.timer = FALSE]

settled(m, result) == IF result = "nil" THEN cleared(m) ELSE [m EXCEPT !.timer = FALSE]

\* Mutant: a failed mark is forgotten.
marked_mutant(m, result) == cleared(m)

marked(m, result) ==
  IF result = "nil" THEN cleared(m) ELSE [m EXCEPT !.failed = TRUE, !.timer = FALSE]

\* A reservation, and the row its caller is told of.
reserve(id, done) ==
  /\ call(done)
  /\ drawn' = drawn \cup {id}
  /\ row' = IF done.result = "nil" THEN [row EXCEPT ![id] = done.ledger.rows[id]] ELSE row
-----------------------------------------------------------------------------
\* HandleAudio, called by the read loop for one frame.  Any error but an
\* exhausted budget ends the connection.

Enters == meter.at = "free" /\ ~meter.ended
Accepts == Enters /\ ~meter.closed /\ ~meter.failed
Full == meter.used + meter.frame > Chunk

HandleAudio_refuse ==
  /\ Enters /\ (meter.closed \/ meter.failed)
  /\ meter' = [meter EXCEPT !.ended = TRUE]
  /\ UNCHANGED <<ledgerVars, active, tts, row, heard>>

HandleAudio_settle ==
  /\ Accepts /\ meter.reservation # Nobody /\ Full
  /\ \E done \in settleLocked(meter) : LET ok == done.result = "nil" IN
       /\ call(done)
       /\ meter' = settled([meter EXCEPT !.at = IF ok THEN "reserve" ELSE "free", !.ended = ~ok],
                           done.result)
  /\ UNCHANGED <<drawn, active, tts, row, heard>>

HandleAudio_reserve(id) ==
  /\ Accepts \/ meter.at = "reserve"
  /\ meter.reservation = Nobody
  /\ \E done \in serializable(Reserve(ledger, id, STTUsage(Chunk))) :
       /\ reserve(id, done)
       /\ meter' = IF done.result = "nil"
                   THEN [meter EXCEPT !.reservation = id, !.at = "send"]
                   ELSE [meter EXCEPT !.at = "free", !.ended = done.result # "ErrBudgetExceeded"]
  /\ UNCHANGED <<active, tts, heard>>

hear(id, u) == heard' = [heard EXCEPT ![id] = [unit \in Units |-> @[unit] + u[unit]]]

\* The upstream write; one that fails may have been heard.
HandleAudio_send(ok, arrives) ==
  /\ \/ meter.at = "send"
     \/ Accepts /\ meter.reservation # Nobody /\ ~Full
  /\ ok => arrives
  /\ IF arrives THEN hear(meter.reservation, STTUsage(meter.frame)) ELSE UNCHANGED heard
  /\ meter' = IF ~ok THEN [meter EXCEPT !.at = "uncertain"]
              ELSE [meter EXCEPT !.used = @ + meter.frame, !.timer = TRUE,
                      !.at = IF meter.used + meter.frame >= Chunk THEN "settle" ELSE "free"]
  /\ UNCHANGED <<ledgerVars, active, tts, row>>

HandleAudio_settleFull ==
  /\ meter.at = "settle"
  /\ \E done \in settleLocked(meter) :
       /\ call(done)
       /\ meter' = settled([meter EXCEPT !.at = "free", !.ended = done.result # "nil"], done.result)
  /\ UNCHANGED <<drawn, active, tts, row, heard>>

HandleAudio_uncertain ==
  /\ meter.at = "uncertain"
  /\ \E done \in markUncertainLocked(meter) :
       /\ call(done)
       /\ meter' = marked([meter EXCEPT !.at = "free", !.ended = TRUE], done.result)
  /\ UNCHANGED <<drawn, active, tts, row, heard>>
-----------------------------------------------------------------------------
\* The timer, and the callback once it has the mutex.
Fire ==
  /\ meter.timer
  /\ meter' = [meter EXCEPT !.timer = FALSE, !.fired = TRUE]
  /\ UNCHANGED <<ledgerVars, active, tts, row, heard>>

flush ==
  /\ meter.at = "free" /\ meter.fired
  /\ \/ /\ meter.closed \/ meter.failed \/ meter.reservation = Nobody
        /\ meter' = [meter EXCEPT !.fired = FALSE]
        /\ UNCHANGED <<day, ledger, late>>
     \/ /\ ~meter.closed /\ ~meter.failed /\ meter.reservation # Nobody
        /\ \E done \in settleLocked(meter) :
             /\ call(done)
             /\ meter' = settled([meter EXCEPT !.fired = FALSE, !.failed = done.result # "nil"],
                                 done.result)
  /\ UNCHANGED <<drawn, active, tts, row, heard>>

\* The read loop returns, cancelling the request; then its deferred Close runs.
Return ==
  /\ Enters
  /\ meter' = [meter EXCEPT !.ended = TRUE]
  /\ active' = Nobody
  /\ UNCHANGED <<ledgerVars, tts, row, heard>>

Close_settle ==
  /\ meter.at = "free" /\ meter.ended /\ ~meter.closed /\ ~meter.failed
  /\ \E done \in settleLocked(meter) :
       /\ call(done)
       /\ meter' = settled([meter EXCEPT !.closed = TRUE,
                              !.at = IF done.result = "nil" THEN "free" ELSE "close"], done.result)
  /\ UNCHANGED <<drawn, active, tts, row, heard>>

Close_uncertain ==
  /\ \/ meter.at = "close"
     \/ meter.at = "free" /\ meter.ended /\ ~meter.closed /\ meter.failed
  /\ \E done \in markUncertainLocked(meter) :
       /\ call(done)
       /\ meter' = marked([meter EXCEPT !.closed = TRUE, !.at = "free"], done.result)
  /\ UNCHANGED <<drawn, active, tts, row, heard>>

\* The device connects again: a meter of its own.
Connect(frame) ==
  /\ meter.closed /\ meter.at = "free" /\ drawn # Ids
  /\ meter' = newMeter(frame)
  /\ UNCHANGED <<ledgerVars, active, tts, row, heard>>
-----------------------------------------------------------------------------
\* Synthesis: one request at a time is active; a cancelled one's goroutine may
\* still be finishing.

startTTS(id) ==
  /\ Enters /\ active = Nobody
  /\ \E done \in serializable(Reserve(ledger, id, TTSUsage(Characters, MaxOutput))) :
       /\ reserve(id, done)
       /\ IF done.result = "nil"
          THEN active' = id /\ tts' = [tts EXCEPT ![id] = "start"]
          ELSE UNCHANGED <<active, tts>>
  /\ UNCHANGED <<meter, heard>>

abortTTS ==
  /\ Enters /\ active # Nobody
  /\ active' = Nobody
  /\ UNCHANGED <<ledgerVars, meter, tts, row, heard>>

to(id, from, next) == tts[id] = from /\ tts' = [tts EXCEPT ![id] = next]
finishTTS(id) == active' = IF active = id THEN Nobody ELSE active

\* The start events cannot be written: the provider is never called.
streamTTS_unsent(id) ==
  /\ to(id, "start", "release")
  /\ finishTTS(id)
  /\ UNCHANGED <<ledgerVars, meter, row, heard>>

streamTTS_contact(id) ==
  /\ active = id /\ to(id, "start", "stream")
  /\ UNCHANGED <<ledgerVars, meter, active, row, heard>>

\* The provider speaks: more than reserved, or not to the end.
streamTTS_spoken(id, ms, ok) ==
  /\ to(id, "stream", IF ok THEN "settle" ELSE "uncertain")
  /\ hear(id, TTSUsage(Characters, ms))
  /\ IF ok THEN UNCHANGED active ELSE finishTTS(id)
  /\ UNCHANGED <<ledgerVars, meter, row>>

settleTTS(id) ==
  /\ \E done \in serializable(Settle(ledger, id, heard[id])) :
       /\ call(done)
       /\ to(id, "settle", IF done.result = "nil" THEN "done" ELSE "uncertain")
  /\ finishTTS(id)
  /\ UNCHANGED <<drawn, meter, row, heard>>

uncertainTTS(id) ==
  /\ to(id, "uncertain", "done")
  /\ \E done \in serializable(MarkUncertain(ledger, id)) : call(done)
  /\ UNCHANGED <<drawn, meter, active, row, heard>>

releaseTTS(id) ==
  /\ to(id, "release", "done")
  /\ \E done \in serializable(Release(ledger, id)) : call(done)
  /\ UNCHANGED <<drawn, meter, active, row, heard>>
-----------------------------------------------------------------------------
\* The process dies; the ledger does not.  A synthesis in flight is paid for.
Crash ==
  /\ ~meter.closed \/ meter.at # "free" \/ \E id \in Ids : tts[id] \notin {"idle", "done"}
  /\ meter' = [newMeter(meter.frame) EXCEPT !.ended = TRUE, !.closed = TRUE]
  /\ active' = Nobody
  /\ tts' = [id \in Ids |-> IF tts[id] = "idle" THEN "idle" ELSE "done"]
  /\ heard' = [id \in Ids |-> IF tts[id] = "stream" THEN TTSUsage(Characters, MaxOutput) ELSE heard[id]]
  /\ UNCHANGED <<ledgerVars, row>>

Meter ==
  \/ HandleAudio_refuse \/ HandleAudio_settle \/ HandleAudio_settleFull \/ HandleAudio_uncertain
  \/ \E ok, arrives \in BOOLEAN : HandleAudio_send(ok, arrives)
  \/ Fire \/ flush \/ Return \/ Close_settle \/ Close_uncertain
  \/ \E frame \in Frames : Connect(frame)

Synthesis ==
  \/ abortTTS
  \/ \E id \in Ids :
       \/ streamTTS_unsent(id) \/ streamTTS_contact(id)
       \/ \E ms \in 0 .. MaxOutput + 1, ok \in BOOLEAN : streamTTS_spoken(id, ms, ok)
       \/ settleTTS(id) \/ uncertainTTS(id) \/ releaseTTS(id)

Reserves == \E id \in Ids \ drawn : HandleAudio_reserve(id) \/ startTTS(id)

Next == Meter \/ Synthesis \/ Reserves \/ Crash \/ (Clock /\ UNCHANGED meterVars)

Spec == Init /\ [][Next]_vars
-----------------------------------------------------------------------------
\* HandleAudio, settleLocked and markUncertainLocked: while the meter is usable
\* the reservation it holds has been sent exactly the audio it counts, within
\* the chunk, so a settlement is for what the provider heard; and a meter that
\* was closed leaves no reservation open unless its last mark failed.
MeterIsExact ==
  /\ meter.reservation = Nobody => meter.used = 0 /\ meter.at \notin {"send", "settle", "uncertain"}
  /\ meter.reservation # Nobody /\ ~meter.failed /\ meter.at # "uncertain" =>
       heard[meter.reservation] = STTUsage(meter.used) /\ meter.used <= Chunk
  /\ meter.closed /\ meter.at = "free" /\ ~meter.failed => meter.reservation = Nobody

Known(d) == {id \in Ids : row[id] # NoRow /\ row[id].day = d}

\* Mutual order of Reserve, contact and settlement (HandleAudio, streamTTS):
\* whatever was recognised or spoken, up to what was reserved for it, stays
\* covered by the day it was reserved on, across failed writes, lost commits,
\* a stale flush, expiry and a crash.
SpeechIsCovered ==
  \A d \in Days :
    MapThenSumSet(LAMBDA id : LET price == usageCost(heard[id]) IN
                    IF ~Validate(heard[id]) THEN 0
                    ELSE IF price \in 0 .. row[id].cost THEN price ELSE row[id].cost,
                  Known(d)) <= Charged(d)

HighestPrice == Max({usageCost(STTUsage(Chunk)), usageCost(TTSUsage(Characters, MaxOutput))})

\* A reservation is charged at most once, although flush, Close and the deferred
\* calls of streamTTS retry after an error whose COMMIT may have succeeded.
SpeechChargedOnce ==
  \A d \in Days :
    Charged(d) <= MapThenSumSet(LAMBDA id : row[id].cost, Known(d))
      + Cardinality({id \in drawn : row[id] = NoRow}) * HighestPrice
=============================================================================
