----------------------------- MODULE GridSearch -----------------------------
(***************************************************************************)
(* What a search over a grid promises, whoever runs it: every point gets   *)
(* its result once, in any order, and the search returns when all have     *)
(* one - or when points cannot be run at all, and then without any.        *)
(***************************************************************************)
EXTENDS Sequences, Integers

CONSTANT Blank  \* the result of a point that was not run

VARIABLES
  points,    \* the grid
  runnable,  \* whether a point can be run
  out,       \* the result of each point: its parameters once it was run
  over       \* whether the search has returned

SearchInit ==
  /\ out = [i \in DOMAIN points |-> Blank]
  /\ over = FALSE

Fill ==
  /\ runnable /\ ~over
  /\ \E i \in DOMAIN points :
       /\ out[i] = Blank
       /\ out' = [out EXCEPT ![i] = points[i]]
  /\ UNCHANGED <<points, runnable, over>>

Return ==
  /\ ~over /\ over'
  /\ runnable => out = points
  /\ UNCHANGED <<points, runnable, out>>

searchVars == <<points, runnable, out, over>>

SearchSpec == SearchInit /\ [][Fill \/ Return]_searchVars
=============================================================================
