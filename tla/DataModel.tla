------------------------------ MODULE DataModel ------------------------------
(***************************************************************************)
(* The data models of mxf_data_model.c: definitions of sets, of the items  *)
(* in them and of the types of items.  Definitions are registered, then    *)
(* finalised, which links each set to its parent and its items; and sets   *)
(* are cloned from one data model to another, with all that they need, as  *)
(* mxf_clone_set does before it copies a metadata set to another file.     *)
(* The set definitions are in a search tree (Tree).                        *)
(***************************************************************************)
EXTENDS Tree, FiniteSets, SequencesExt

CONSTANTS Models,      \* the data models of a program
          SetDefs,     \* SetDefs[m]: the sets that may be registered, [key, parentKey], with integers as keys
          ItemDefs,    \* ItemDefs[m]: a table of the items that are registered, [key, set, type]
          TypeDefs,    \* TypeDefs[m]: the types that may be registered, [id, category, refs]
          Extension,   \* MXF_EXTENSION_TYPE
          MaxTypes     \* the length of MXFDataModel.types, whose first place is not used

VARIABLES model,       \* model[m]: what a MXFDataModel holds
          finalised    \* mxf_finalise_data_model has succeeded since definitions were last registered

modelVars == <<model, finalised>>

NoTypes    == [id \in {} |-> {}]
NoSetDefs  == [key \in {} |-> {}]
EmptyModel == [setDefs |-> NULL, sets |-> NoSetDefs, itemDefs |-> <<>>, types |-> NoTypes]

WithKey(f, x, y) == [z \in DOMAIN f \union {x} |-> IF z = x THEN y ELSE f[z]]

----------------------------------------------------------------------------
(* mxf_find_item_def_in_set_def: the definition of an item of a set, its   *)
(* own or inherited.                                                       *)
RECURSIVE FoundItem(_, _, _)
FoundItem(m, set, key) ==
    IF set = NULL THEN NULL
    ELSE LET own == SelectSeq(m.sets[set].items, LAMBDA i : i.key = key)
         IN  IF own # <<>> THEN own[1] ELSE FoundItem(m, m.sets[set].parent, key)

(* register_set_def and register_item_def                                  *)
WithSet(m, key, parentKey, parent) ==
    [m EXCEPT !.setDefs = Inserted(m.setDefs, key),
              !.sets = WithKey(m.sets, key, [parentKey |-> parentKey, parent |-> parent, items |-> <<>>])]
WithItem(m, item) == [m EXCEPT !.itemDefs = Append(m.itemDefs, item)]

(* get_new_type_id: lastTypeId of the data model is never assigned, so     *)
(* that the search begins at the first id for extensions.                  *)
NewTypeId(m) ==
    LET free == {id \in Extension .. MaxTypes - 1 : id \notin DOMAIN m.types}
    IN  IF free = {} THEN 0 ELSE CHOOSE id \in free : \A other \in free : id <= other

(* register_type: the id that a type gets, 0 when it is refused.           *)
TypeId(m, id, category) ==
    LET actual == IF category # "basic" /\ id = 0 THEN NewTypeId(m) ELSE id
    IN  IF /\ category = "basic" => actual < Extension
           /\ actual \in (1 .. MaxTypes - 1) \ DOMAIN m.types
        THEN actual ELSE 0

WithType(m, id, category, refs) ==
    [m EXCEPT !.types = WithKey(m.types, id, [category |-> category, refs |-> refs])]

----------------------------------------------------------------------------
(* mxf_register_set_def, mxf_register_item_def, and the mxf_register_      *)
(* functions of types, when they succeed: a set that is known is refused,  *)
(* and a type when there is no id for it.  A program registers a type with *)
(* the members of it, and after the types that it refers to.               *)
RegisteredIn(m, to) ==
    /\ model' = [model EXCEPT ![m] = to]
    /\ finalised' = [finalised EXCEPT ![m] = FALSE]

RegisterSet(m) == \E d \in SetDefs[m] :
    /\ ~Finds(model[m].setDefs, d.key)
    /\ RegisteredIn(m, WithSet(model[m], d.key, d.parentKey, NULL))

RegisterItem(m) == \E n \in DOMAIN ItemDefs[m] :
    /\ ItemDefs[m][n] \notin Range(model[m].itemDefs)
    /\ \A k \in 1 .. n - 1 : ItemDefs[m][k] \in Range(model[m].itemDefs)
    /\ RegisteredIn(m, WithItem(model[m], ItemDefs[m][n]))

RegisterType(m) == \E t \in TypeDefs[m] :
    LET id == TypeId(model[m], t.id, t.category)
    IN  /\ [category |-> t.category, refs |-> t.refs] \notin Range(model[m].types)
        /\ Range(t.refs) \subseteq DOMAIN model[m].types
        /\ id # 0
        /\ model' = [model EXCEPT ![m] = WithType(model[m], id, t.category, t.refs)]
        /\ UNCHANGED finalised

----------------------------------------------------------------------------
(* A finalisation that keeps the items found by one before it.             *)
ResetParent(m, key) ==
    LET parentKey == m.sets[key].parentKey
    IN  [m EXCEPT !.sets[key].parent =
            IF parentKey # NULL /\ Finds(m.setDefs, parentKey) THEN parentKey ELSE NULL]

(* finalise_set_def: clears the items of a set and links it to its parent. *)
Reset(m, key) ==
    LET parentKey == m.sets[key].parentKey
    IN  [m EXCEPT !.sets[key] = [parentKey |-> parentKey, items |-> <<>>,
            parent |-> IF parentKey # NULL /\ Finds(m.setDefs, parentKey) THEN parentKey ELSE NULL]]

Linked(m, key) == m.sets[key].parentKey # NULL => Finds(m.setDefs, m.sets[key].parentKey)

(* The items of a data model, each appended to the set that it is of.      *)
Placed(m, items) ==
    FoldLeft(LAMBDA n, i : [n EXCEPT !.sets[i.set].items = Append(n.sets[i.set].items, i)], m, items)

(* mxf_finalise_data_model: both loops end at the first set that is not    *)
(* known, and leave what they have done.                                   *)
Finalised(m) ==
    LET order == Traversed(m.setDefs)
        unlinked == {n \in DOMAIN order : ~Linked(m, order[n])}
        homeless == {n \in DOMAIN m.itemDefs : ~Finds(m.setDefs, m.itemDefs[n].set)}
        To(s, stops) == IF stops = {} THEN s ELSE SubSeq(s, 1, (CHOOSE n \in stops : \A k \in stops : n <= k) - 1)
        linked == FoldLeft(Reset, m, IF unlinked = {} THEN order
                                     ELSE SubSeq(order, 1, Len(To(order, unlinked)) + 1))
    IN  [ok    |-> unlinked = {} /\ homeless = {},
         model |-> IF unlinked = {} THEN Placed(linked, To(m.itemDefs, homeless)) ELSE linked]

Finalise(m) ==
    /\ model' = [model EXCEPT ![m] = Finalised(model[m]).model]
    /\ finalised' = [finalised EXCEPT ![m] = Finalised(model[m]).ok]

----------------------------------------------------------------------------
(* clone_item_type: a type that the other data model has under this id is  *)
(* taken for the same.  A compound type is registered before its members,  *)
(* the others after the type that they refer to.                           *)
RECURSIVE ClonedType(_, _, _)
ClonedType(from, id, to) ==
    LET type == from.types[id]
        After(c, ref) == IF c.ok THEN ClonedType(from, ref, c.model) ELSE c
        WithMember(c, ref) ==
            LET after == After(c, ref)
            IN  IF after.ok THEN [after EXCEPT !.model.types[id].refs = Append(@, ref)] ELSE after
        refsFirst == FoldLeft(After, [ok |-> TRUE, model |-> to], type.refs)
    IN  CASE id \in DOMAIN to.types   -> [ok |-> TRUE, model |-> to]
          [] id \notin DOMAIN to.types /\ id \notin DOMAIN from.types -> [ok |-> FALSE, model |-> to]
          [] OTHER ->
             IF type.category = "compound"
             THEN FoldLeft(WithMember, [ok |-> TRUE, model |-> WithType(to, id, "compound", <<>>)], type.refs)
             ELSE IF refsFirst.ok
             THEN [refsFirst EXCEPT !.model = WithType(@, id, type.category, type.refs)]
             ELSE refsFirst

(* A clone that looks among the set's own items only.                      *)
ClonedOwnItem(from, key, c, item) ==
    LET typed == ClonedType(from, item.type, c.model)
        added == WithItem(typed.model, item)
    IN  IF ~c.ok \/ item.key \in {i.key : i \in Range(c.model.sets[key].items)} THEN c
        ELSE IF ~typed.ok THEN typed
        ELSE [ok |-> TRUE, model |-> [added EXCEPT !.sets[key].items = Append(added.sets[key].items, item)]]

(* clone_item_def, and its item put into the set; an item that the set has *)
(* already, of its own or inherited, is left as it is.                     *)
ClonedItem(from, key, c, item) ==
    LET typed == ClonedType(from, item.type, c.model)
        added == WithItem(typed.model, item)
    IN  IF ~c.ok \/ FoundItem(c.model, key, item.key) # NULL THEN c
        ELSE IF ~typed.ok THEN typed
        ELSE [ok |-> TRUE, model |-> [added EXCEPT !.sets[key].items = Append(added.sets[key].items, item)]]

(* mxf_clone_set_def: the parents of a set that is not known come first.   *)
RECURSIVE ClonedSet(_, _, _)

(* A clone that takes a set that is known for one that is complete.        *)
ClonedNewSet(from, key, to) ==
    LET def == from.sets[key]
        above == IF def.parent = NULL THEN [ok |-> TRUE, model |-> to]
                 ELSE ClonedSet(from, def.parent, to)
    IN  IF Finds(to.setDefs, key) THEN [ok |-> TRUE, model |-> to]
        ELSE IF ~above.ok THEN above
        ELSE FoldLeft(LAMBDA c, item : ClonedItem(from, key, c, item),
                      [above EXCEPT !.model = WithSet(above.model, key, def.parentKey, def.parent)], def.items)

ClonedSet(from, key, to) ==
    LET def == from.sets[key]
        above == IF def.parent = NULL THEN [ok |-> TRUE, model |-> to]
                 ELSE ClonedSet(from, def.parent, to)
        start == IF Finds(to.setDefs, key) THEN [ok |-> TRUE, model |-> to]
                 ELSE IF above.ok
                 THEN [above EXCEPT !.model = WithSet(above.model, key, def.parentKey, def.parent)]
                 ELSE above
    IN  FoldLeft(LAMBDA c, item : ClonedItem(from, key, c, item), start, def.items)

(* Programs clone between data models that are finalised.                  *)
Clone(f, t) ==
    /\ f # t /\ finalised[f] /\ finalised[t]
    /\ \E key \in DOMAIN model[f].sets :
        model' = [model EXCEPT ![t] = ClonedSet(model[f], key, model[t]).model]
    /\ UNCHANGED finalised

----------------------------------------------------------------------------
ModelInit ==
    /\ model = [m \in Models |-> EmptyModel]
    /\ finalised = [m \in Models |-> FALSE]

NextModel == \E m \in Models :
    \/ RegisterSet(m)
    \/ RegisterItem(m)
    \/ RegisterType(m)
    \/ Finalise(m)
    \/ \E t \in Models : Clone(m, t)

ModelSpec == ModelInit /\ [][NextModel]_modelVars

----------------------------------------------------------------------------
(* Every set that was registered or cloned is found in the search tree,    *)
(* and no other key is; the tree holds each once, and its subtrees differ  *)
(* by two levels at most, whatever the order of registration: insertion    *)
(* and the rotations of mxf_tree.c.                                        *)
RECURSIVE NearlyBalanced(_)
NearlyBalanced(t) ==
    t # NULL => /\ Depth(t.left) - Depth(t.right) \in -2 .. 2
                /\ NearlyBalanced(t.left) /\ NearlyBalanced(t.right)

SetsFound == \A m \in Models :
    LET tree == model[m].setDefs
        keys == DOMAIN model[m].sets
    IN  /\ \A d \in UNION Range(SetDefs) : Finds(tree, d.key) <=> d.key \in keys
        /\ Len(Traversed(tree)) = Cardinality(keys) /\ Range(Traversed(tree)) = keys
        /\ NearlyBalanced(tree)

(* In a data model that is finalised, whatever was registered, finalised   *)
(* (also without success) and cloned in whatever order, each set is linked *)
(* to its parent and holds the items defined for it, each once and in the  *)
(* order of registration; finalising it once more would change nothing.    *)
ItemsInPlace == \A m \in Models : finalised[m] =>
    /\ \A key \in DOMAIN model[m].sets :
        LET def == model[m].sets[key]
        IN  /\ def.parent = def.parentKey
            /\ def.parent # NULL => def.parent \in DOMAIN model[m].sets
            /\ def.items = SelectSeq(model[m].itemDefs, LAMBDA i : i.set = key)
    /\ \A n \in DOMAIN model[m].itemDefs : model[m].itemDefs[n].set \in DOMAIN model[m].sets

(* While a data model stays finalised no set, item or type in it changes   *)
(* its meaning: what the keys of a set and an item led to they lead to     *)
(* still, though clones add items to the set and to its parents.           *)
SameMeaning(old, new) ==
    /\ \A set \in DOMAIN old.sets, item \in UNION {Range(ItemDefs[m]) : m \in Models} :
        FoundItem(old, set, item.key) # NULL => FoundItem(new, set, item.key) = FoundItem(old, set, item.key)
    /\ \A id \in DOMAIN old.types : id \in DOMAIN new.types /\ new.types[id] = old.types[id]

MeaningKept == [][\A m \in Models : finalised[m] /\ finalised'[m] => SameMeaning(model[m], model'[m])]_modelVars

(* A clone that succeeds leaves nothing out, whatever the two data models  *)
(* hold: in the one that it is made in each item of the set, and of the    *)
(* parents that come with it, is found, and so are its type and the types  *)
(* which that refers to; and the clone's parents are those of the          *)
(* original.                                                               *)
RECURSIVE CameAlong(_, _, _)
CameAlong(from, to, key) ==
    {key} \union IF key \in DOMAIN to.sets \/ from.sets[key].parent = NULL THEN {}
                 ELSE CameAlong(from, to, from.sets[key].parent)

Whole(from, old, new, key) ==
    /\ \A set \in CameAlong(from, old, key) :
        /\ set \in DOMAIN new.sets
        /\ set \in DOMAIN old.sets \/ new.sets[set].parent = from.sets[set].parent
        /\ \A i \in Range(from.sets[set].items) :
            LET found == FoundItem(new, set, i.key)
            IN  /\ found # NULL
                /\ found \in Range(old.itemDefs) \/ found.type \in DOMAIN new.types
    /\ \A id \in DOMAIN new.types : Range(new.types[id].refs) \subseteq DOMAIN new.types

CloneIsWhole == \A f, t \in Models : f # t /\ finalised[f] /\ finalised[t] =>
    \A key \in DOMAIN model[f].sets :
        LET clone == ClonedSet(model[f], key, model[t])
        IN  clone.ok => Whole(model[f], model[t], clone.model, key)
=============================================================================
