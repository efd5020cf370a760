--------------------------- MODULE MCMemberRoles ---------------------------
(***************************************************************************)
(* Small instances of MemberRoles.  Members, names and colours are only    *)
(* compared, so permuting each of them changes nothing.                    *)
(***************************************************************************)
EXTENDS MemberRoles

Symmetry == Permutations(Members) \union Permutations(Names) \union Permutations(Colours)
=============================================================================
