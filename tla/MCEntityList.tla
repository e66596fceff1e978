----------------------------- MODULE MCEntityList -----------------------------
(***************************************************************************)
(* Model values for EntityList: two factories in two cities, two handlers, *)
(* and one change of the filter or of the table by another user.           *)
(***************************************************************************)
EXTENDS EntityList, TLC

MCFirstTables == {<<"Bonn", "Lund">>}

=============================================================================
