------------------------------ MODULE TypeOrmSave ------------------------------
(***************************************************************************)
(* What the services rely on of TypeORM's repository.save on an entity     *)
(* that carries a primary key.  It is two statements: a SELECT of the row, *)
(* soft-deleted or not, with which the entity is compared column by        *)
(* column, and an UPDATE, in a transaction of its own, of the columns that *)
(* differ.  There is no version column, so the UPDATE is unconditional.    *)
(***************************************************************************)

(* The columns the SELECT finds to differ.                                 *)
Differing(columns, entity, old) == {c \in columns : entity[c] # old[c]}

(* The row after the UPDATE of the given columns.                          *)
Merged(columns, old, entity, dirty) ==
    [c \in columns |-> IF c \in dirty THEN entity[c] ELSE old[c]]

=============================================================================
