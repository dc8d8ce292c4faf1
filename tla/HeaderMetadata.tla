--------------------------- MODULE HeaderMetadata ---------------------------
(***************************************************************************)
(* Header metadata sets and items, and the file they are written to and    *)
(* read from, after mxf_header_metadata.c.  An item keeps the tag that the *)
(* primer gave its key when the item was made; the file has tags only, and *)
(* a primer of its own to read them by.                                    *)
(*                                                                         *)
(* A session works on one MXFHeaderMetadata.  It either makes everything   *)
(* anew and writes it in one go, or it reads the primer, reads some of the *)
(* sets, and writes sets over the old ones, as update_header_metadata in   *)
(* write_archive_mxf.c does.  A set that is not there has no items.        *)
(***************************************************************************)
EXTENDS Primer

CONSTANTS Sets,         (* metadata sets, by their instance UIDs            *)
          Preface,      (* the one that is written first                    *)
          InstanceUID,  (* the key of the item that every set has           *)
          DefTag,       (* localTag of the item definitions                 *)
          OwnTags,      (* tags that clients ask for themselves             *)
          Values,
          OldPrimers    (* primers of files that other programs wrote       *)

ASSUME HeaderAssumption ==
    /\ Preface \in Sets
    /\ InstanceUID \in Keys
    /\ DefTag \in [Keys -> Tags]
    /\ OwnTags \subseteq Tags
    /\ \A p \in OldPrimers : p \in Seq(Entry) /\ OneToOne(p)

VARIABLES sets,      (* [tag, value] of the items of each set               *)
          file,      (* [primer, sets] on disk                              *)
          current    (* the primer of the session came from this file       *)

primerVars == <<entries, nextTag>>
vars == <<entries, nextTag, sets, file, current>>

Item == [tag : Tags, value : Values]
NoItems == [k \in {} |-> 0]
NoSets == [s \in Sets |-> NoItems]

With(items, key, item) ==
    [k \in DOMAIN items \cup {key} |-> IF k = key THEN item ELSE items[k]]
Without(items, key) == [k \in DOMAIN items \ {key} |-> items[k]]

(* The items of a set with every item under the first key of the primer    *)
(* whose tag is the item's; items with other tags are skipped.             *)
Read(list, items) ==
    LET Found == {k \in DOMAIN items : InUse(list, items[k].tag)}
    IN  [key \in {ItemKey(list, items[k].tag) : k \in Found} |->
            items[CHOOSE k \in Found : ItemKey(list, items[k].tag) = key]]

-----------------------------------------------------------------------------
Init ==
    /\ entries = <<>> /\ nextTag = MaxTag
    /\ sets = NoSets
    /\ current = FALSE
    /\ \E p \in OldPrimers :
          file = [primer |-> p, sets |-> NoSets]

(* mxf_create_header_metadata                                              *)
CreateHeader ==
    /\ CreatePrimer
    /\ sets' = NoSets
    /\ current' = FALSE
    /\ UNCHANGED file

(* A client registers a key before there is an item, with the tag of the   *)
(* definition (mxf_register_item), the null tag or one of its own.         *)
RegisterKey(key, tag) ==
    /\ \/ \E assigned \in Tags : Register(key, tag, assigned)
       \/ RegisterFails(key, tag)
    /\ UNCHANGED <<sets, file, current>>

NewItemAsDefined(key, assigned, value) == [tag |-> DefTag[key], value |-> value]
(* mxf_create_item, with the tag that the primer assigned                  *)
NewItem(key, assigned, value) == [tag |-> assigned, value |-> value]

(* mxf_set_item and the like on a set that has been created                *)
SetItem(s, key, value) ==
    /\ sets[s] # NoItems
    /\ \E assigned \in Tags :
          /\ \/ key \in DOMAIN sets[s] /\ assigned = sets[s][key].tag /\ UNCHANGED primerVars
             \/ key \notin DOMAIN sets[s] /\ Register(key, DefTag[key], assigned)
          /\ sets' = [sets EXCEPT ![s] = With(sets[s], key, NewItem(key, assigned, value))]
    /\ UNCHANGED <<file, current>>

SetItemFails(s, key) ==
    /\ sets[s] # NoItems
    /\ key \notin DOMAIN sets[s]
    /\ RegisterFails(key, DefTag[key])
    /\ UNCHANGED <<sets, file, current>>

(* mxf_create_set; the client does not give away the tag of InstanceUID.   *)
CreateSet(s, value) ==
    /\ sets[s] = NoItems
    /\ \E assigned \in Tags :
          /\ Register(InstanceUID, DefTag[InstanceUID], assigned)
          /\ sets' = [sets EXCEPT ![s] = With(NoItems, InstanceUID, NewItem(InstanceUID, assigned, value))]
    /\ UNCHANGED <<file, current>>

RemoveItem(s, key) ==
    /\ key \in DOMAIN sets[s] \ {InstanceUID}
    /\ sets' = [sets EXCEPT ![s] = Without(sets[s], key)]
    /\ UNCHANGED <<primerVars, file, current>>

RemoveSet(s) ==
    /\ sets[s] # NoItems
    /\ sets' = [sets EXCEPT ![s] = NoItems]
    /\ UNCHANGED <<primerVars, file, current>>

(* mxf_write_header_metadata: the primer goes out before it is found that  *)
(* there is no Preface to write.                                           *)
WriteHeader ==
    /\ file' = [primer |-> entries,
                sets   |-> IF sets[Preface] = NoItems THEN NoSets ELSE sets]
    /\ current' = TRUE
    /\ UNCHANGED <<primerVars, sets>>

(* mxf_write_set over the set in the file                                  *)
WriteSet(s) ==
    /\ current
    /\ sets[s] # NoItems
    /\ file' = [file EXCEPT !.sets[s] = sets[s]]
    /\ UNCHANGED <<primerVars, sets, current>>

(* mxf_read_primer_pack for header metadata that has no sets yet           *)
ReadHeaderPrimer ==
    /\ sets = NoSets
    /\ ReadPrimer(file.primer)
    /\ current' = TRUE
    /\ UNCHANGED <<sets, file>>

(* mxf_read_and_return_set, which refuses a set without its InstanceUID.   *)
(* Sets are read before the session registers keys of its own: otherwise   *)
(* an item that its file does not declare could be taken for one of those. *)
ReadSet(s) ==
    LET items == Read(entries, file.sets[s])
    IN  /\ current /\ entries = file.primer
        /\ sets[s] = NoItems
        /\ InstanceUID \in DOMAIN items
        /\ sets' = [sets EXCEPT ![s] = items]
        /\ UNCHANGED <<primerVars, file, current>>

Next ==
    \/ CreateHeader
    \/ \E key \in Keys : \E tag \in OwnTags \cup {DefTag[key]} : RegisterKey(key, tag)
    \/ \E s \in Sets, key \in Keys, v \in Values : SetItem(s, key, v)
    \/ \E s \in Sets, key \in Keys : SetItemFails(s, key)
    \/ \E s \in Sets, v \in Values : CreateSet(s, v)
    \/ \E s \in Sets, key \in Keys : RemoveItem(s, key)
    \/ \E s \in Sets : RemoveSet(s)
    \/ WriteHeader
    \/ \E s \in Sets : WriteSet(s)
    \/ ReadHeaderPrimer
    \/ \E s \in Sets : ReadSet(s)

Spec == Init /\ [][Next]_vars

-----------------------------------------------------------------------------
Items == UNION {[K -> Item] : K \in SUBSET Keys}
TypeOK ==
    /\ entries \in Seq(Entry)
    /\ nextTag \in Tags
    /\ sets \in [Sets -> Items]
    /\ file \in [primer : Seq(Entry), sets : [Sets -> Items]]
    /\ current \in BOOLEAN

(* The primer in memory and the one on disk give each key one tag and each *)
(* tag one key, which mxf_read_primer_pack does not check.                 *)
PrimersOneToOne == OneToOne(entries) /\ OneToOne(file.primer)

Lists(list, key, tag) == \E i \in DOMAIN list : list[i] = [localTag |-> tag, uid |-> key]

(* An item keeps the tag that it was made with: it is still the tag of its *)
(* key in the primer that will be written with it.                         *)
ItemsAgree == \A s \in Sets : \A key \in DOMAIN sets[s] : Lists(entries, key, sets[s][key].tag)

(* Whenever a set was written, and by which session: in the file the tag   *)
(* of an item is the one that the file's primer declares for its key, and  *)
(* if the key is not declared no other key has the tag.                    *)
FileAgrees ==
    \A s \in Sets : \A key \in DOMAIN file.sets[s] : \A i \in DOMAIN file.primer :
        file.primer[i].localTag = file.sets[s][key].tag <=> file.primer[i].uid = key

(* The user may think of sets of items by key, and forget about tags.      *)
ItemValues(items) == [key \in DOMAIN items |-> items[key].value]
Store == INSTANCE MetadataStore WITH
             mem <- [s \in Sets |-> ItemValues(sets[s])],
             disk <- [s \in Sets |-> ItemValues(file.sets[s])],
             diskKeys <- {file.primer[i].uid : i \in DOMAIN file.primer}
ImplementsStore == Store!StoreSpec
=============================================================================
