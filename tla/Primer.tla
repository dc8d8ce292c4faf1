------------------------------- MODULE Primer -------------------------------
(***************************************************************************)
(* The primer pack of mxf_primer.c: the table, at the head of the header   *)
(* metadata, that says which local tag stands for which item key.          *)
(*                                                                         *)
(* entries is the list of entries in their order.  Tags that the caller    *)
(* leaves to the primer are handed out from nextTag downwards.             *)
(***************************************************************************)
EXTENDS Integers, Sequences

CONSTANTS Keys,         (* item keys                                        *)
          MaxTag,       (* UINT16_MAX: mxfLocalTag has 16 bits              *)
          FirstDynamic  (* 0x8000: the lowest tag to hand out               *)

ASSUME PrimerAssumption ==
    /\ MaxTag \in Nat
    /\ FirstDynamic \in 2 .. MaxTag

VARIABLES entries, nextTag

NullTag == 0
Tags == 0 .. MaxTag
Entry == [localTag : Tags, uid : Keys]

(* nextTag-- on 16 bits                                                    *)
Decrement(tag) == (tag - 1) % (MaxTag + 1)

-----------------------------------------------------------------------------
(* Looking up: mxf_get_item_tag, mxf_get_item_key in any list of entries.  *)
(* The first entry in the list is the one that is found.                   *)
Registered(list, key) == \E i \in DOMAIN list : list[i].uid = key
InUse(list, tag) == \E i \in DOMAIN list : list[i].localTag = tag

ItemTag(list, key) ==
    list[CHOOSE i \in DOMAIN list :
            list[i].uid = key /\ \A j \in 1 .. i - 1 : list[j].uid # key].localTag
ItemKey(list, tag) ==
    list[CHOOSE i \in DOMAIN list :
            list[i].localTag = tag /\ \A j \in 1 .. i - 1 : list[j].localTag # tag].uid

-----------------------------------------------------------------------------
CreatePrimer ==
    /\ entries' = <<>>
    /\ nextTag' = MaxTag

(* mxf_read_primer_pack of a list of entries                               *)
ReadPrimer(list) ==
    /\ entries' = list
    /\ nextTag' = MaxTag

FreeTagsAll == FirstDynamic .. nextTag
(* mxf_create_item_tag counts down over the tags in use.                   *)
FreeTags == {tag \in FirstDynamic .. nextTag : ~InUse(entries, tag)}
DynamicTagLowest(tag) == tag \in FreeTags /\ \A t \in FreeTags : tag <= t
DynamicTag(tag) == tag \in FreeTags /\ \A t \in FreeTags : t <= tag

(* It gives up below the dynamic tags, but has counted down all the same.  *)
NextTagAfterFailure ==
    IF nextTag < FirstDynamic THEN Decrement(nextTag) ELSE Decrement(FirstDynamic - 1)

(* mxf_register_primer_entry, when it returns the tag that is assigned:    *)
(* that of the key's entry, the one asked for, or a dynamic one in place   *)
(* of the null tag.                                                        *)
Register(key, tag, assigned) ==
    \/ /\ Registered(entries, key)
       /\ assigned = ItemTag(entries, key)
       /\ UNCHANGED <<entries, nextTag>>
    \/ /\ ~Registered(entries, key)
       /\ \/ /\ tag # NullTag /\ ~InUse(entries, tag)
             /\ assigned = tag
             /\ nextTag' = nextTag
          \/ /\ tag = NullTag /\ DynamicTag(assigned)
             /\ nextTag' = Decrement(assigned)
       /\ entries' = Append(entries, [localTag |-> assigned, uid |-> key])

(* mxf_register_primer_entry, when it fails.                               *)
RegisterFails(key, tag) ==
    /\ ~Registered(entries, key)
    /\ \/ tag # NullTag /\ InUse(entries, tag) /\ nextTag' = nextTag
       \/ tag = NullTag /\ FreeTags = {} /\ nextTag' = NextTagAfterFailure
    /\ entries' = entries

-----------------------------------------------------------------------------
(* No dynamic tag that nextTag has passed is free: tags run out only when  *)
(* every one of them is in use.                                            *)
NoTagSkipped == \A tag \in FirstDynamic .. MaxTag : tag > nextTag => InUse(entries, tag)

(* A list of entries gives each key one tag and each tag one key.          *)
OneToOne(list) ==
    \A i, j \in DOMAIN list :
        list[i].localTag = list[j].localTag \/ list[i].uid = list[j].uid => i = j
=============================================================================
