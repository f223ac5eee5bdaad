---------------------------- MODULE MCOptimizer -----------------------------
(***************************************************************************)
(* Grids of no, one, four and six points, one with a name given twice,     *)
(* one with a range without values, and one with a point that throws.      *)
(***************************************************************************)
EXTENDS Optimizer

R(name, values) == [name |-> name, values |-> values]

MCSearches == {
  <<>>,
  <<R("fast", <<1>>)>>,
  <<R("fast", <<1, 2>>), R("slow", <<>>)>>,
  <<R("fast", <<1, 2>>), R("slow", <<7, 8>>)>>,
  <<R("fast", <<1, 2, 3>>), R("slow", <<7, 8>>)>>,
  <<R("fast", <<1, 2>>), R("fast", <<2, 5>>)>>,
  <<R("fast", <<1, 9>>), R("slow", <<7, 8>>)>> }

MCThrows(p) == "fast" \in DOMAIN p /\ p["fast"] = 9
=============================================================================
