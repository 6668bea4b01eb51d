---------------------------- MODULE VoiceCapture ----------------------------
(***************************************************************************)
(* The capture half of box3_voice_audio: the capture task reads the        *)
(* microphone, encodes and sends uplink packets while kCaptureEnabled is   *)
(* set, and the voice client's worker switches it with start_capture,      *)
(* stop_capture and destroy.  They share the bits of one FreeRTOS event    *)
(* group and nothing else.  A blocked wait is released by the call that    *)
(* sets a bit it waits for, whatever happens to the bit afterwards.        *)
(* Resampling, encoding and framing are one step that may send a packet.   *)
(***************************************************************************)
EXTENDS Integers

CONSTANT MaxCalls   \* bound on the calls the worker makes

CallsAssumption == MaxCalls \in Nat

VARIABLES
  enabled, idle, stop, stopped,   \* the event group's bits
  mic,            \* the microphone is enabled (input_enabled of the task)
  cpc,            \* capture task
  wpc,            \* worker
  started,        \* the client has started capture and not stopped it since
  quiet,          \* history: the last call was a stop_capture that returned OK
  timely,         \* history: no stop_capture has timed out
  calls,          \* number of calls made
  freed           \* the stream's storage has been freed

bits == <<enabled, idle, stop, stopped>>
workerVars == <<wpc, started, quiet, timely, calls, freed>>
vars == <<bits, mic, cpc, workerVars>>

\* create sets kCaptureIdle before it starts the task.
Init ==
  /\ enabled = FALSE /\ idle = TRUE /\ stop = FALSE /\ stopped = FALSE
  /\ mic = FALSE
  /\ cpc = "wait"
  /\ wpc = "ready"
  /\ started = FALSE /\ quiet = FALSE /\ timely = TRUE /\ calls = 0 /\ freed = FALSE
-----------------------------------------------------------------------------
\* capture_task_entry, one action per access to shared state.

Wait ==
  /\ cpc = "wait"
  /\ cpc' = IF stop THEN "exit" ELSE IF enabled THEN "open" ELSE "blocked"
  /\ UNCHANGED <<bits, mic, workerVars>>

\* The microphone is enabled on the first pass.
Open ==
  /\ cpc = "open"
  /\ IF mic THEN cpc' = "read" /\ UNCHANGED mic
     ELSE \/ mic' = TRUE /\ cpc' = "opened"
          \/ mic' = FALSE /\ cpc' = "open_failed"
  /\ UNCHANGED <<bits, workerVars>>

\* Mutant: kCaptureIdle is left set while capturing.
Opened_mutant ==
  /\ cpc = "opened"
  /\ cpc' = "read"
  /\ UNCHANGED <<bits, mic, workerVars>>

Opened ==
  /\ cpc = "opened"
  /\ idle' = FALSE
  /\ cpc' = "read"
  /\ UNCHANGED <<enabled, stop, stopped, mic, workerVars>>

\* The microphone cannot be enabled: capture is given up until the next start.
OpenFailed ==
  /\ cpc = "open_failed"
  /\ enabled' = FALSE
  /\ cpc' = "set_idle"
  /\ UNCHANGED <<idle, stop, stopped, mic, workerVars>>

SetIdle ==
  /\ cpc = "set_idle"
  /\ idle' = TRUE
  /\ cpc' = "wait"
  /\ UNCHANGED <<enabled, stop, stopped, mic, workerVars>>

\* After the blocking read the bits decide: stop, switch the microphone off,
\* drop a failed or incomplete frame, or go on to send.
Check ==
  /\ cpc = "read"
  /\ \/ stop /\ cpc' = "exit"
     \/ ~stop /\ ~enabled /\ cpc' = "close"
     \/ ~stop /\ enabled /\ cpc' \in {"wait", "send"}
  /\ UNCHANGED <<bits, mic, workerVars>>

Close ==
  /\ cpc = "close"
  /\ mic' = FALSE
  /\ cpc' = "set_idle"
  /\ UNCHANGED <<bits, workerVars>>

\* A complete frame is encoded and handed to the client.
Send ==
  /\ cpc = "send"
  /\ cpc' = "wait"
  /\ UNCHANGED <<bits, mic, workerVars>>

Exit ==
  /\ cpc = "exit"
  /\ mic' = FALSE
  /\ cpc' = "exit_bits"
  /\ UNCHANGED <<bits, workerVars>>

ExitBits ==
  /\ cpc = "exit_bits"
  /\ idle' = TRUE
  /\ stopped' = TRUE
  /\ cpc' = "exit_null"
  /\ UNCHANGED <<enabled, stop, mic, workerVars>>

ExitNull ==
  /\ cpc = "exit_null"
  /\ cpc' = "dead"
  /\ UNCHANGED <<bits, mic, workerVars>>

CaptureTask ==
  \/ Wait \/ Open \/ Opened \/ OpenFailed \/ SetIdle \/ Check \/ Close
  \/ Send \/ Exit \/ ExitBits \/ ExitNull
-----------------------------------------------------------------------------
\* The worker's calls.

CallStarts == wpc = "ready" /\ calls < MaxCalls /\ calls' = calls + 1

\* The client starts capture only when it becomes ready, and it stops capture
\* whenever it ceases to be ready, so starts do not repeat without a stop.
start_capture ==
  /\ CallStarts /\ ~stop /\ ~started
  /\ started' = TRUE
  /\ idle' = FALSE
  /\ quiet' = FALSE
  /\ wpc' = "start_set"
  /\ UNCHANGED <<enabled, stop, stopped, mic, cpc, timely, freed>>

StartSet ==
  /\ wpc = "start_set"
  /\ enabled' = TRUE
  /\ cpc' = IF cpc = "blocked" THEN "open" ELSE cpc
  /\ wpc' = "ready"
  /\ UNCHANGED <<idle, stop, stopped, mic, started, quiet, timely, calls, freed>>

stop_capture ==
  /\ CallStarts
  /\ started' = FALSE
  /\ enabled' = FALSE
  /\ wpc' = "stop_wait"
  /\ UNCHANGED <<idle, stop, stopped, mic, cpc, quiet, timely, freed>>

\* The wait for kCaptureIdle ends with the bit or after 500 ms without it.
StopWait ==
  /\ wpc = "stop_wait"
  /\ quiet' = idle
  /\ timely' = (timely /\ idle)
  /\ wpc' = "ready"
  /\ UNCHANGED <<bits, mic, started, cpc, calls, freed>>

destroy ==
  /\ wpc = "ready"
  /\ stop' = TRUE
  /\ enabled' = TRUE
  /\ cpc' = IF cpc = "blocked" THEN "exit" ELSE cpc
  /\ wpc' = "destroying"
  /\ UNCHANGED <<idle, stopped, mic, started, quiet, timely, calls, freed>>

\* cleanup: free on kCaptureStopped, keep everything on timeout (retryable).
Cleanup ==
  /\ wpc = "destroying"
  /\ \/ stopped /\ freed' = TRUE /\ wpc' = "gone"
     \/ ~stopped /\ freed' = FALSE /\ wpc' = "ready"
  /\ UNCHANGED <<bits, mic, started, cpc, quiet, timely, calls>>

Ended == wpc = "gone" /\ cpc = "dead" /\ UNCHANGED vars

Worker == start_capture \/ StartSet \/ stop_capture \/ StopWait \/ destroy \/ Cleanup

Next == CaptureTask \/ Worker \/ Ended

\* The scheduler runs the capture task and lets a call run to its end.
Fairness == WF_vars(CaptureTask) /\ WF_vars(StartSet \/ StopWait \/ Cleanup)

Spec == Init /\ [][Next]_vars /\ Fairness
-----------------------------------------------------------------------------
\* Types of the event bits and the two threads; the task reads and encodes only
\* with the microphone on.
TypeOK ==
  /\ {enabled, idle, stop, stopped, mic, started, quiet, timely, freed} \subseteq BOOLEAN
  /\ cpc \in {"wait", "blocked", "open", "opened", "open_failed", "set_idle", "read",
              "close", "send", "exit", "exit_bits", "exit_null", "dead"}
  /\ wpc \in {"ready", "start_set", "stop_wait", "destroying", "gone"}
  /\ calls \in 0 .. MaxCalls
  /\ cpc \in {"opened", "read", "close", "send"} => mic

\* Once stop_capture has returned ESP_OK, and until the next start_capture, no
\* uplink packet is encoded and handed to the client; and if no stop_capture ever
\* timed out, the microphone is off when it returns and stays off.
StoppedIsQuiet == quiet => cpc # "send" /\ (timely => ~mic)

\* What the product binding says of "not-ready": the capture worker stops, so
\* the microphone does not stay on without a start.  The code breaks it: a stop
\* that falls between the task's check of the bits and its next wait leaves the
\* task blocked with the microphone on.
MicrophoneReleased == (~enabled /\ mic) ~> (~mic \/ enabled)
=============================================================================
