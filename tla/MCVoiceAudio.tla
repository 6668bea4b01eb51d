---------------------------- MODULE MCVoiceAudio ----------------------------
(***************************************************************************)
(* The audio stream of the device for TLC, in two parts explored side by   *)
(* side: playback (VoicePlayback, with a two-packet queue that two         *)
(* requests and four packets overflow, so that a reply can begin while the *)
(* last one still drains) and capture (VoiceCapture, six calls at any step *)
(* of the capture task).  The two tasks share no state but their owner.    *)
(***************************************************************************)
EXTENDS VoicePlayback

CONSTANT MaxCalls

VARIABLES part, enabled, idle, stop, stopped, mic, cpc, cwpc, started, quiet, timely, calls,
          cfreed

captureVars == <<enabled, idle, stop, stopped, mic, cpc, cwpc, started, quiet, timely, calls, cfreed>>
mcVars == <<vars, captureVars, part>>

Capture == INSTANCE VoiceCapture WITH wpc <- cwpc, freed <- cfreed

ASSUME Capture!CallsAssumption

Of(p, other) == part = p /\ UNCHANGED <<part, other>>

MCInit == Init /\ Capture!Init /\ part \in {"playback", "capture"}

MCNext ==
  \/ Next /\ Of("playback", captureVars)
  \/ Capture!Next /\ Of("capture", vars)

\* The fairness of VoicePlayback and of VoiceCapture, each in its part.
MCFairness ==
  /\ WF_mcVars(PlaybackTask /\ Of("playback", captureVars))
  /\ WF_mcVars(WorkerSteps /\ Of("playback", captureVars))
  /\ WF_mcVars(Capture!CaptureTask /\ Of("capture", vars))
  /\ WF_mcVars((Capture!StartSet \/ Capture!StopWait \/ Capture!Cleanup) /\ Of("capture", vars))

MCSpec == MCInit /\ [][MCNext]_mcVars /\ MCFairness
-----------------------------------------------------------------------------
\* Types of both tasks; the fixed packet pool is conserved, the audio session
\* follows the controller, no push of a playing turn fails and the speaker is off
\* at rest.
TypesOK ==
  /\ TypeOK /\ Capture!TypeOK
  /\ ItemsConserved /\ PushNeverFails /\ AcceptingIffPlaying /\ SpeakerOffAtRest

\* Once stop_capture has returned ESP_OK, and until the next start_capture, no
\* uplink packet is encoded and handed to the client; and if no stop_capture ever
\* timed out, the microphone is off when it returns and stays off.
StoppedIsQuiet == Capture!StoppedIsQuiet
=============================================================================
