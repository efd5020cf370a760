------------------------------ MODULE MCCache ------------------------------
(***************************************************************************)
(* Small instances of Cache: one guild has the channel, role and emoji.    *)
(***************************************************************************)
EXTENDS Cache, TLC

CONSTANTS g1, u1

MCHome == [t \in Things |-> g1]

MCCreator == [e \in Emojis |-> u1]

Symmetry == Permutations(Looks)
=============================================================================
