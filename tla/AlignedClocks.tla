---------------------------- MODULE AlignedClocks ----------------------------
(***************************************************************************)
(* What a multi-clock run promises a strategy: at each bar of the master   *)
(* feed it knows, of every context feed, exactly the bars whose period has *)
(* ended by the close of that master bar.                                  *)
(***************************************************************************)
EXTENDS Naturals, Sequences

CONSTANT AllFeeds  \* indices of the feeds; the master feed is 0

VARIABLES
  ends,    \* feed -> the times at which its bars have ended
  closes,  \* the times at which the bars of the master feed close
  shown    \* feed -> its bars the strategies know

ClocksInit == shown = [k \in AllFeeds |-> 0]

\* One master bar, and the context bars that have ended with it.
Tick ==
  /\ shown[0] < Len(closes)
  /\ DOMAIN shown' = AllFeeds
  /\ shown'[0] = shown[0] + 1
  /\ \A k \in AllFeeds \ {0} :
       /\ shown'[k] \in 0..Len(ends[k])
       /\ \A i \in 1..Len(ends[k]) : i <= shown'[k] <=> ends[k][i] <= closes[shown'[0]]
  /\ UNCHANGED <<ends, closes>>

ClocksSpec == ClocksInit /\ [][Tick]_<<ends, closes, shown>>
=============================================================================
