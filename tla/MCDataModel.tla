---------------------------- MODULE MCDataModel ----------------------------
(* A data model with extensions, and one that its sets are cloned to.      *)
EXTENDS DataModel
CONSTANTS old, new

MCModels == {old, new}
S(key, parentKey) == [key |-> key, parentKey |-> parentKey]
I(key, set, type) == [key |-> key, set |-> set, type |-> type]
T(id, category, refs) == [id |-> id, category |-> category, refs |-> refs]

MCSetDefs == (old :> {S(3, NULL), S(5, 3), S(4, 5), S(2, 4)}) @@ (new :> {S(3, NULL), S(4, 3)})
MCItemDefs == (old :> <<I("y", 4, 2), I("x", 3, 1), I("x", 4, 1)>>) @@ (new :> <<I("x", 3, 2)>>)
MCTypeDefs == (old :> {T(1, "basic", <<>>), T(0, "compound", <<1>>)}) @@ (new :> {T(0, "interpret", <<>>)})
=============================================================================
