----------------------------- MODULE Optimizer ------------------------------
(***************************************************************************)
(* Optimizer::run: the calling thread builds the grid, starts workers that *)
(* take grid points from a counter under a mutex until none is left, and   *)
(* joins them.  A worker runs a point on clones of the feeds; it ends      *)
(* early when a feed cannot be cloned, and an exception out of a run ends  *)
(* the program, for nothing in a worker catches it.                        *)
(*                                                                         *)
(* A run is deterministic in its parameters: its result is the map it was  *)
(* run with.  What strategies share between threads is theirs.             *)
(***************************************************************************)
EXTENDS ParamGrid

CONSTANTS
  Searches,    \* sequences of ranges that may be searched
  MaxThreads,  \* max_threads; 0 asks the hardware
  Hardware,    \* hardware_concurrency; 0 is unknown
  Throws(_),   \* whether the run with a parameter map throws
  None         \* no thread, no index

VARIABLES
  ranges, cloneable,  \* the arguments: the ranges, and what the feeds can do
  grid,
  main,               \* the calling thread: "launching", "joining", "returned"
  launched, joined,   \* threads started and threads joined
  holder,             \* who holds index_mutex
  next,               \* next_index
  idx,                \* worker -> idx
  pc,                 \* worker -> the step it is at
  results,
  terminated          \* std::terminate has been called

workerVars == <<holder, next, idx, pc, results, terminated>>
vars == <<ranges, cloneable, grid, main, launched, joined, workerVars>>

Threads ==
  CASE MaxThreads > 0 -> MaxThreads
    [] MaxThreads = 0 /\ Hardware > 0 -> Hardware
    [] OTHER -> 1

Workers == 1 .. Threads

GridSize == Len(grid)

ToLaunch == IF Threads < GridSize THEN Threads ELSE GridSize

ASSUME OptimizerAssumption ==
  /\ MaxThreads \in Nat /\ Hardware \in Nat
  /\ None \notin Nat
  /\ \A search \in Searches : search \in Seq([name : STRING, values : Seq(Int)])

Init ==
  /\ ranges \in Searches /\ cloneable \in BOOLEAN
  /\ grid = GenerateParamGrid(ranges)
  /\ main = IF grid = <<>> THEN "returned" ELSE "launching"
  /\ launched = 0 /\ joined = 0
  /\ holder = None /\ next = 0
  /\ idx = [w \in Workers |-> None]
  /\ pc = [w \in Workers |-> "unborn"]
  /\ results = [i \in DOMAIN grid |-> NoParams]
  /\ terminated = FALSE
-----------------------------------------------------------------------------
(* The calling thread *)

Launch ==
  /\ ~terminated /\ main = "launching"
  /\ IF launched < ToLaunch
     THEN /\ launched' = launched + 1
          /\ pc' = [pc EXCEPT ![launched + 1] = "lock"]
          /\ UNCHANGED main
     ELSE main' = "joining" /\ UNCHANGED <<launched, pc>>
  /\ UNCHANGED <<ranges, cloneable, grid, joined, holder, next, idx, results, terminated>>

Join ==
  /\ ~terminated /\ main = "joining"
  /\ IF joined < launched
     THEN pc[joined + 1] = "ended" /\ joined' = joined + 1 /\ UNCHANGED main
     ELSE main' = "returned" /\ UNCHANGED joined
  /\ UNCHANGED <<ranges, cloneable, grid, launched, workerVars>>
-----------------------------------------------------------------------------
(* A worker *)

At(w, step) == ~terminated /\ pc[w] = step
Goto(w, step) == pc' = [pc EXCEPT ![w] = step]

Free_NoMutex == TRUE
Free == holder = None

Lock(w) ==
  /\ At(w, "lock") /\ Free
  /\ holder' = w
  /\ Goto(w, "look")
  /\ UNCHANGED <<ranges, cloneable, grid, main, launched, joined, next, idx, results, terminated>>

Exhausted_OffByOne == next >= GridSize - 1
Exhausted == next >= GridSize

Unlock_NotOnReturn(returns) == holder' = IF returns THEN holder ELSE None
\* Returning from the worker releases the lock as leaving its scope does.
Unlock(returns) == holder' = None

Look(w) ==
  /\ At(w, "look")
  /\ IF Exhausted
     THEN Goto(w, "ended") /\ Unlock(TRUE) /\ UNCHANGED idx
     ELSE Goto(w, "bump") /\ idx' = [idx EXCEPT ![w] = next] /\ UNCHANGED holder
  /\ UNCHANGED <<ranges, cloneable, grid, main, launched, joined, next, results, terminated>>

Bump(w) ==
  /\ At(w, "bump")
  /\ next' = idx[w] + 1
  /\ Unlock(FALSE)
  /\ Goto(w, "clone")
  /\ UNCHANGED <<ranges, cloneable, grid, main, launched, joined, idx, results, terminated>>

CloneFeeds(w) ==
  /\ At(w, "clone")
  /\ Goto(w, IF cloneable THEN "run" ELSE "ended")
  /\ UNCHANGED <<ranges, cloneable, grid, main, launched, joined, holder, next, idx, results,
                 terminated>>

RunCerebro(w) ==
  /\ At(w, "run")
  /\ IF Throws(grid[idx[w] + 1])
     THEN terminated' = TRUE /\ UNCHANGED pc
     ELSE Goto(w, "store") /\ UNCHANGED terminated
  /\ UNCHANGED <<ranges, cloneable, grid, main, launched, joined, holder, next, idx, results>>

Store(w) ==
  /\ At(w, "store")
  /\ results' = [results EXCEPT ![idx[w] + 1] = grid[idx[w] + 1]]
  /\ Goto(w, "lock")
  /\ UNCHANGED <<ranges, cloneable, grid, main, launched, joined, holder, next, idx, terminated>>

Step(w) == Lock(w) \/ Look(w) \/ Bump(w) \/ CloneFeeds(w) \/ RunCerebro(w) \/ Store(w)

Next == Launch \/ Join \/ \E w \in Workers : Step(w)

\* The scheduler runs every thread; the mutex need not be fair.
Fairness == WF_vars(Launch \/ Join) /\ \A w \in Workers : WF_vars(Step(w))

Spec == Init /\ [][Next]_vars /\ Fairness
-----------------------------------------------------------------------------
TypeOK ==
  /\ main \in {"launching", "joining", "returned"}
  /\ launched \in 0 .. Threads /\ joined \in 0 .. launched
  /\ holder \in Workers \union {None}
  /\ next \in 0 .. GridSize
  /\ idx \in [Workers -> (0 .. GridSize - 1) \union {None}]
  /\ pc \in [Workers -> {"unborn", "lock", "look", "bump", "clone", "run", "store", "ended"}]
  /\ terminated \in BOOLEAN

Busy(w) == pc[w] \in {"bump", "clone", "run", "store"}

\* No two workers hold the same grid point, and none holds one whose result
\* is there already: slots of the results are never written by two threads.
PointsAreOwned ==
  \A w \in Workers : Busy(w) =>
    /\ results[idx[w] + 1] = NoParams
    /\ \A v \in Workers \ {w} : Busy(v) => idx[v] # idx[w]

\* When run returns, its results are those of the whole product of the
\* ranges, each combination as often as the ranges give it - or all blank,
\* if the feeds cannot be cloned.
ReturnsWholeProduct ==
  main = "returned" =>
    IF cloneable THEN EnumeratesProduct(results, ranges)
    ELSE \A i \in DOMAIN results : results[i] = NoParams

\* The run of an optimizer ends, with its results or with the program.
RunReturns == <>(main = "returned" \/ terminated)

Search == INSTANCE GridSearch
  WITH Blank <- NoParams, points <- grid, runnable <- cloneable, out <- results,
       over <- (main = "returned" /\ grid # <<>>)

\* A search by threads is a search over the grid.
ImplementsGridSearch == Search!SearchSpec
=============================================================================
