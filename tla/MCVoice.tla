------------------------------ MODULE MCVoice -------------------------------
(***************************************************************************)
(* The voice session for TLC, in three parts that are explored side by     *)
(* side: the device against any surroundings (VoiceAgent, with enough      *)
(* turns for the request counter to come round over two sessions), the     *)
(* gateway against any device (VoiceGateway), and both joined (VoiceLink). *)
(* A behaviour belongs to one part; the variables of the others rest.      *)
(***************************************************************************)
EXTENDS VoiceLink, TLC

CONSTANTS GatewayIds, LinkTurns,
          Parts   \* the parts a run explores

VARIABLE part

Gateway == INSTANCE VoiceGateway WITH Ids <- GatewayIds, MaxStreams <- LinkTurns
Link == INSTANCE VoiceLink WITH Sessions <- {TheSession}, MaxTurns <- LinkTurns

ASSUME Gateway!GatewayAssumption

mcVars == <<linkVars, part>>

MCInit == LinkInit /\ part \in Parts

AgentPart == part = "agent" /\ Next /\ UNCHANGED <<gatewayVars, up, phase, reported>>
GatewayPart == part = "gateway" /\ Gateway!Next /\ UNCHANGED <<vars, up, phase, reported>>
LinkPart == part = "link" /\ Link!LinkNext

MCNext == (AgentPart \/ GatewayPart \/ LinkPart) /\ UNCHANGED part

MCSpec == MCInit /\ [][MCNext]_mcVars

\* For the joined part alone.
MCLiveSpec == MCSpec /\ Link!LinkFairness

IdSymmetry == Permutations(GatewayIds)
-----------------------------------------------------------------------------
\* Types of the device's turn, of the gateway's connection (reportViolation closes
\* it before a fourth violation can be counted) and of the joined session.
TypesOK ==
  TypeOK /\ (part = "gateway" => Gateway!TypeOK) /\ (part = "link" => Link!LinkTypeOK)

\* "only one TTS request is allowed" (handler.go startTTS), alone and joined; and
\* the frames the device plays belong to the turn it asked for: see VoiceGateway
\* and VoiceLink.
OneSpeech == Gateway!SingleSynthesis /\ FramesBelongToTurn

\* What writeIfActive and finishTTS put on the wire, and in which order, alone
\* and joined: see VoiceGateway.
WireOrder == Gateway!WireOrder
=============================================================================
