----------------------------- MODULE ParamGrid ------------------------------
(***************************************************************************)
(* generate_param_grid: the combinations of the values of some ranges, in  *)
(* the order of the nested loops.  A range is a name and a sequence of     *)
(* values; a parameter map is a function from names to values.             *)
(***************************************************************************)
EXTENDS Integers, SequencesExt, FiniteSetsExt

With(params, name, value) ==
  [n \in DOMAIN params \union {name} |-> IF n = name THEN value ELSE params[n]]

NoParams == [n \in {} |-> 0]

Crossed_ByGridSize(grid, range) ==
  LET w == Len(range.values)
  IN  [i \in 1 .. Len(grid) * w |->
         With(grid[((i - 1) % Len(grid)) + 1], range.name, range.values[((i - 1) % w) + 1])]

\* Every map of the grid with every value of one more range.
Crossed(grid, range) ==
  LET w == Len(range.values)
  IN  [i \in 1 .. Len(grid) * w |->
         With(grid[((i - 1) \div w) + 1], range.name, range.values[((i - 1) % w) + 1])]

\* One empty map crossed with the ranges, first to last; no ranges have no grid.
GenerateParamGrid(ranges) ==
  LET grid[r \in 0 .. Len(ranges)] ==
        IF r = 0 THEN <<NoParams>> ELSE Crossed(grid[r - 1], ranges[r])
  IN  IF ranges = <<>> THEN <<>> ELSE grid[Len(ranges)]
-----------------------------------------------------------------------------
(* What the grid has to be, said without an order *)

\* A place among the values of each range.
Picks(ranges) ==
  {c \in [DOMAIN ranges -> UNION {DOMAIN ranges[r].values : r \in DOMAIN ranges}] :
     \A r \in DOMAIN ranges : c[r] \in DOMAIN ranges[r].values}

\* Of two ranges with one name the later decides.
Chosen(ranges, c) ==
  [n \in {ranges[r].name : r \in DOMAIN ranges} |->
     LET last == Max({r \in DOMAIN ranges : ranges[r].name = n})
     IN  ranges[last].values[c[last]]]

\* The maps of the sequence are those of the combinations, each as often.
EnumeratesProduct(maps, ranges) ==
  IF ranges = <<>> THEN maps = <<>>
  ELSE \A p \in Range(maps) \union {Chosen(ranges, c) : c \in Picks(ranges)} :
         Cardinality({i \in DOMAIN maps : maps[i] = p})
           = Cardinality({c \in Picks(ranges) : Chosen(ranges, c) = p})
=============================================================================
