--------------------------- MODULE MCAgentProxy -----------------------------
(***************************************************************************)
(* The Agent proxy, the speech meter and their ledgers for TLC, in four    *)
(* parts explored side by side:                                            *)
(*   days    two requests that straddle midnight, one a minute             *)
(*   two     two devices share one slot                                    *)
(*   ledger  any callers of the ledger, two profiles, rates and limits     *)
(*   speech  one device's recognition meter and synthesis goroutines       *)
(***************************************************************************)
EXTENDS AgentProxy

CONSTANTS LedgerIds, TwoSubjects, TwoProfiles

VARIABLES part, meter, tts, heard

speechVars == <<meter, tts, heard>>
mcVars == <<vars, speechVars, part>>

MCRates == {[in |-> 3, out |-> 4]}
MCLimits == {[in |-> 1, out |-> 1]}
MCDays == 1 .. 2

Two == INSTANCE AgentProxy WITH Subjects <- TwoSubjects, Days <- {1},
         MaxRequestsMinute <- 3, MaxConcurrent <- 1, MaxMinutes <- 0
Ledger == INSTANCE UsageBudget WITH
            Ids <- LedgerIds, Profiles <- TwoProfiles, Budget <- 11,
            Rates <- Rates \cup {[in |-> 2, out |-> 9]},
            Limits <- Limits \cup {[in |-> 3, out |-> 2]}

MCPricing == [stt |-> 2, chars |-> 0, out |-> 3]
Speech == INSTANCE SpeechMeter WITH
            Pricing <- MCPricing, Budget <- 5, MaxUnits <- MaxTokens,
            Frames <- {1, 2}, Chunk <- 3, Characters <- 1, MaxOutput <- 1

ASSUME Two!ProxyBounds /\ Two!LedgerBounds /\ Ledger!LedgerBounds
ASSUME Speech!SpeechBounds /\ Speech!MeterBounds

NoSpeech == meter = <<>> /\ tts = <<>> /\ heard = <<>>
NoRequests ==
  /\ at = <<>> /\ subject = <<>> /\ used = <<>> /\ status = <<>> /\ limiters = <<>>
  /\ allowed = {} /\ cancelled = {} /\ minutes = 0

MCInit ==
  \/ part = "days" /\ Init /\ NoSpeech
  \/ part = "two" /\ Two!Init /\ NoSpeech
  \/ part = "ledger" /\ Ledger!LedgerInit /\ NoRequests /\ row = <<>> /\ active = {} /\ NoSpeech
  \/ part = "speech" /\ Speech!Init /\ NoRequests

MCNext ==
  /\ \/ part = "days" /\ Next /\ UNCHANGED speechVars
     \/ part = "two" /\ Two!Next /\ UNCHANGED speechVars
     \/ part = "ledger" /\ Ledger!LedgerNext /\ UNCHANGED <<proxyVars, speechVars>>
     \/ part = "speech" /\ Speech!Next
        /\ UNCHANGED <<at, subject, used, status, limiters, allowed, cancelled, minutes>>
  /\ UNCHANGED part

MCSpec == MCInit /\ [][MCNext]_mcVars

MCSymmetry == Permutations(Ids) \cup Permutations(LedgerIds)
-----------------------------------------------------------------------------
\* What the parts promise, from AgentProxy ...


\* Nothing that reached the provider is refunded: it stays covered by the
\* owner's day (chat, HandleAudio, streamTTS, Settle, MarkUncertain,
\* reconcileExpired).
UsageIsCovered ==
  /\ part = "days" => SpendIsCovered
  /\ part = "two" => Two!SpendIsCovered
  /\ part = "speech" => Speech!SpeechIsCovered

\* A lost COMMIT makes chat, Close and streamTTS try MarkUncertain after Settle,
\* but no request is charged twice.
NoDoubleCharge ==
  /\ part = "days" => ChargedAtMostOnce
  /\ part = "two" => Two!ChargedAtMostOnce
  /\ part = "speech" => Speech!SpeechChargedOnce

\* The device gets an answer only for usage that is committed (chat: Settle
\* before WriteHeader).
AnswersArePaid ==
  (part = "days" => AnswersAreCommitted) /\ (part = "two" => Two!AnswersAreCommitted)

\* ... and from UsageBudget with any callers.

\* An owner's day never exceeds the budget; its reserved column is the price of
\* the open reservations and its other columns are the sums of its profiles' days:
\* no interleaving of Reserve, Settle, MarkUncertain, Release and
\* reconcileExpired leaks budget; and Settle never refuses usage within the limits
\* of an open reservation for its cost, whatever the rounding.
BooksBalance ==
  /\ part = "speech" => Speech!SpeechBooksBalance
  /\ part = "ledger" =>
    /\ Ledger!LedgerTypeOK /\ Ledger!WithinBudget /\ Ledger!ReservedIsOpen /\ Ledger!ProfilesAddUp
    /\ Ledger!UsageWithinLimitsSettles
=============================================================================
