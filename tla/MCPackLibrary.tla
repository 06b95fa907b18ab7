--------------------------- MODULE MCPackLibrary ---------------------------
(* Small instances of PackLibrary for TLC.                                 *)
EXTENDS PackLibrary, TLC

(* safe_basename and the upload slug strip what is not portable.           *)
MCSlugOf == [n \in Names |-> IF n = "web!" THEN "web" ELSE n]

MCGood == [name |-> "web", format |-> "tar", hostile |-> FALSE, overCap |-> FALSE,
           roots |-> 1, readable |-> TRUE, edits |-> TRUE]

MCArchives == {MCGood,
               [MCGood EXCEPT !.format = "zip", !.name = "web!", !.edits = FALSE],
               [MCGood EXCEPT !.readable = FALSE],
               [MCGood EXCEPT !.format = "none"],
               [MCGood EXCEPT !.hostile = TRUE],
               [MCGood EXCEPT !.roots = 2]}

Symmetry == Permutations(Clients)
=============================================================================
