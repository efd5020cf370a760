----------------------------- MODULE MCPluralKit -----------------------------
(***************************************************************************)
(* Small instances of PluralKit: one guild that shows a system and follows *)
(* another, and one that follows both or shows and follows.                *)
(***************************************************************************)
EXTENDS PluralKit

CONSTANTS g1, g2, s1, s2

\* g1 shows s1, both guilds follow it, and g2 follows s2 as well.
MCSettings == [g \in Guilds |-> IF g = g1 THEN s1 ELSE None]
MCFollows == {<<g1, s1>>, <<g2, s1>>, <<g2, s2>>}

\* Nobody follows: only the category counts.
MCNoFollows == {}
=============================================================================
