------------------------- MODULE MCExternalIndexes -------------------------
(***************************************************************************)
(* A small instance of ExternalIndexes: a user in a team, the user alone,  *)
(* and the empty snapshot of a workspace without targets.                  *)
(***************************************************************************)
EXTENDS ExternalIndexes

CONSTANTS ann, team, p1, p2

Found(E, R) == [entities |-> E, relationships |-> R]

MCWorld ==
    {Found({ann, team}, {<<ann, team>>}), Found({ann}, {}), Found({}, {})}
=============================================================================
