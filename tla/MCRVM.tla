------------------------------- MODULE MCRVM -------------------------------
(* RVM for TLC.  An application stays in one of three scopes, which        *)
(* between them need far fewer states than their product:                  *)
(*   segments: several segments of one cell, each declared once in a       *)
(*             transaction, committed to an empty log;                     *)
(*   cells:    one segment, which may grow, with cells declared more than  *)
(*             once and the lines of an earlier commit still in the log;   *)
(*   newlines: one segment of two cells, of which a transaction writes one,*)
(*             data with newlines, committed to an empty log.              *)
EXTENDS RVM, TLC

VARIABLE scope

OneSegment == Cardinality(segments \cup {s \in Segs : file[s] # NoFile}) <= 1
FreshLog == call.op = "commit" /\ call.i = 1 => log = <<>>
OneMod == \A s \in Segs : Len(mods[s]) <= 1
Written(S) == \A s \in Segs : \A c \in DOMAIN mem[s] : mem[s][c] \in S

Within ==
  \/ /\ scope = "segments" /\ FreshLog
     /\ OneMod /\ Written(Cells \ Split)
     /\ call.op = "map" => call.size = 1
  \/ /\ scope = "cells" /\ OneSegment /\ Written(Cells \ Split)
  \/ /\ scope = "newlines" /\ OneSegment /\ FreshLog
     /\ OneMod /\ Written(Split \cup {0, Garbage})
     /\ call.op = "map" => call.size = 2

MCInit == Init /\ scope \in {"segments", "cells", "newlines"}
MCNext == Next /\ UNCHANGED scope /\ Within'
MCSpec == MCInit /\ [][MCNext]_<<vars, scope>>

(* Interchangeable segments and interchangeable transactions. *)
Symmetry == Permutations(Segs) \cup Permutations(Trans)
=============================================================================
