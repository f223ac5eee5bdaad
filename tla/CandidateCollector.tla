------------------------- MODULE CandidateCollector -------------------------
(***************************************************************************)
(* CandidateCollector and its ShadowLedger: every order that is proposed   *)
(* and does not reduce a position becomes a candidate; a trade that closes *)
(* gives the candidate that opened it an actual outcome, a rejected one    *)
(* gets a shadow outcome after Horizon bars, and what is open at the end a *)
(* censored one.                                                           *)
(*                                                                         *)
(* Features, probabilities and money are left out: a candidate is its id,  *)
(* an outcome says whose it is, of which kind, and after how many bars.    *)
(***************************************************************************)
EXTENDS Integers, SequencesExt

CONSTANTS
  State,     \* config_.corrective.state: "kDisabled", "kCollectOnly", "kEnabled"
  Horizon    \* shadow_horizon_bars; 0 is unlimited

VARIABLES
  nextCandidate,       \* next_candidate_id_
  pendingCandidates,   \* pending_candidates_
  pendingOutcomes,     \* pending_outcomes_
  shadows              \* open_shadows_: [cand, held]

collectorVars == <<nextCandidate, pendingCandidates, pendingOutcomes, shadows>>

Outcome(cand, kind, held) == [cand |-> cand, kind |-> kind, held |-> held]

Enabled == State # "kDisabled"

\* A buy of a short position or a sell of a long one.
Reduces(position, lots) == (lots < 0 /\ position > 0) \/ (lots > 0 /\ position < 0)

\* The hook makes no candidate of it: id 0 and the size as proposed.
PassOrder(position, lots) ==
  /\ ~Enabled \/ Reduces(position, lots)
  /\ UNCHANGED collectorVars

\* on_pre_order otherwise; the order goes on with the candidate's id unless
\* inference, which only kEnabled consults, rejects it.
Capture(position, lots, rejected) ==
  /\ Enabled /\ ~Reduces(position, lots)
  /\ rejected => State = "kEnabled"
  /\ nextCandidate' = nextCandidate + 1
  /\ pendingCandidates' = Append(pendingCandidates, nextCandidate)
  /\ shadows' = IF rejected THEN Append(shadows, [cand |-> nextCandidate, held |-> 0])
                ELSE shadows
  /\ UNCHANGED pendingOutcomes

\* on_trade_closed
OutcomesOfTrade(cand) ==
  IF Enabled /\ cand # 0 THEN <<Outcome(cand, "kActual", 0)>> ELSE <<>>

\* ShadowLedger::tick: each shadow is a bar older; at the horizon it closes.
Aged == [i \in DOMAIN shadows |-> [shadows[i] EXCEPT !.held = @ + 1]]
AtHorizon(s) == Horizon > 0 /\ s.held >= Horizon

\* Whether a shadow stays open or becomes an outcome: one of the two is empty.
IfOpen(s)   == IF AtHorizon(s) THEN <<>> ELSE <<s>>
IfClosed(s) == IF AtHorizon(s) THEN <<Outcome(s.cand, "kShadow", s.held)>> ELSE <<>>

StillOpen(aged) == FlattenSeq([i \in DOMAIN aged |-> IfOpen(aged[i])])
Closed(aged)    == FlattenSeq([i \in DOMAIN aged |-> IfClosed(aged[i])])

\* on_bar
TickShadows ==
  /\ shadows' = IF Enabled THEN StillOpen(Aged) ELSE shadows
  /\ pendingOutcomes' = pendingOutcomes \o Closed(Aged)
  /\ UNCHANGED <<nextCandidate, pendingCandidates>>

\* on_stop: the open trades that have a candidate, here those candidates in
\* order, then the shadows.
Censor(openCands) ==
  /\ Enabled
  /\ pendingOutcomes' = pendingOutcomes
       \o [i \in DOMAIN openCands |-> Outcome(openCands[i], "kCensored", 0)]
       \o [i \in DOMAIN shadows |-> Outcome(shadows[i].cand, "kCensored", shadows[i].held)]
  /\ shadows' = <<>>
  /\ UNCHANGED <<nextCandidate, pendingCandidates>>

CollectorInit ==
  /\ nextCandidate = 1
  /\ pendingCandidates = <<>> /\ pendingOutcomes = <<>> /\ shadows = <<>>
=============================================================================
