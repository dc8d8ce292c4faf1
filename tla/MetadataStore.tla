--------------------------- MODULE MetadataStore ---------------------------
(***************************************************************************)
(* What the header metadata promises its user: sets of items, found by     *)
(* their keys, that a file keeps.  Local tags and the primer do not show.  *)
(***************************************************************************)
CONSTANTS Sets, Keys, Values

VARIABLES mem,        (* the items of each set that the program works on    *)
          disk,       (* the items of each set that the file holds          *)
          diskKeys    (* the keys that the file has declared                *)

storeVars == <<mem, disk, diskKeys>>

NoItems == [k \in {} |-> 0]
Empty   == [s \in Sets |-> NoItems]
Among(items, keys) == [k \in (DOMAIN items) \cap keys |-> items[k]]

Start ==
    /\ mem = Empty
    /\ disk = Empty

SetItem(s, k, v) ==
    /\ mem' = [mem EXCEPT ![s] = [j \in DOMAIN mem[s] \cup {k} |-> IF j = k THEN v ELSE mem[s][j]]]
    /\ UNCHANGED <<disk, diskKeys>>

RemoveItem(s, k) ==
    /\ mem' = [mem EXCEPT ![s] = Among(mem[s], Keys \ {k})]
    /\ UNCHANGED <<disk, diskKeys>>

RemoveSet(s) ==
    /\ mem' = [mem EXCEPT ![s] = NoItems]
    /\ UNCHANGED <<disk, diskKeys>>

Restart ==
    /\ mem' = Empty
    /\ UNCHANGED <<disk, diskKeys>>

(* All of the metadata is written, and the keys of it are declared.        *)
Save ==
    /\ disk' = mem
    /\ \A s \in Sets : DOMAIN mem[s] \subseteq diskKeys'
    /\ UNCHANGED mem

(* The old metadata is lost and the new is not there.                      *)
SaveFails ==
    /\ disk' = Empty
    /\ UNCHANGED mem

Rewrite(s) ==
    /\ disk' = [disk EXCEPT ![s] = mem[s]]
    /\ UNCHANGED <<mem, diskKeys>>

(* Every item that the file declares is found, under its own key; one that *)
(* was written without being declared may be lost.                         *)
Load(s) ==
    /\ \E lost \in SUBSET (Keys \ diskKeys) : mem' = [mem EXCEPT ![s] = Among(disk[s], Keys \ lost)]
    /\ UNCHANGED <<disk, diskKeys>>

StoreNext ==
    \/ \E s \in Sets :
          \/ \E k \in Keys, v \in Values : SetItem(s, k, v)
          \/ \E k \in Keys : RemoveItem(s, k)
          \/ RemoveSet(s) \/ Rewrite(s) \/ Load(s)
    \/ Restart \/ Save \/ SaveFails

StoreSpec == Start /\ [][StoreNext]_storeVars
=============================================================================
