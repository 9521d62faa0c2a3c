--------------------------- MODULE MC_Persistence ---------------------------
(***************************************************************************)
(* Three security claims give up to three overlapping conflicts, and one   *)
(* may say the opposite of a privacy claim about the same subject; the     *)
(* adjudicator cites a good pair across the domains, a claim twice, or an  *)
(* id that does not exist.                                                 *)
(***************************************************************************)
EXTENDS Persistence

SmallTopics    == {<< 1, 2 >>, << 1, 3 >>, << 2, 3 >>, << 1, 4 >>}
SmallCitations == {<< 3, 4 >>, << 4, 4 >>, << 4, Unknown >>}
=============================================================================
