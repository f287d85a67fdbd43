-------------------------------- MODULE Loop --------------------------------
(* A while loop of the C sources, as what its body makes of the state s in *)
(* n turns: turn(s) is s itself once the condition of the loop is false.   *)
EXTENDS Naturals

Repeat(turn(_), s, n) ==
  LET after[i \in 0 .. n] == IF i = 0 THEN s ELSE turn(after[i - 1])
  IN  after[n]

=============================================================================
