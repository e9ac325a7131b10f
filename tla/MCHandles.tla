----------------------------- MODULE MCHandles -----------------------------
(* The clients of the handle classes: behaviours of Attribute, which       *)
(* contain those of Resource, and behaviours of Column.  They share only   *)
(* the error mode, so a behaviour is of the one kind or the other.  The    *)
(* program's objects and the identifiers are interchangeable.              *)
EXTENDS Attribute, Column, TLC

CONSTANTS o1, o2, o3

AllObjects == {o1, o2, o3} \cup Locals

Symmetry == Permutations(Ids) \cup Permutations({o1, o2, o3})

(* Lists of all the roles, creation lists with chunks or compression, a    *)
(* list that belongs to no dataset, and PropertyList().                    *)
SomeLists ==
  {List("create", 0, TRUE), List("create", 10, FALSE)}
    \cup {List(class, 0, FALSE) : class \in {"link", "access", "file"}}
    \cup {Default}

HandlesInit == Init /\ AttributeInit /\ ColumnInit

HandlesNext ==
  \/ stage = "idle" /\ AttributeNext /\ UNCHANGED columnVars
  \/ Init /\ AttributeInit /\ ColumnNext /\ UNCHANGED attributeVars

HandlesSpec == HandlesInit /\ [][HandlesNext]_<<vars, attributeVars, columnVars>>
=============================================================================
