---------------------------- MODULE HeaderProofs ----------------------------
(***************************************************************************)
(* Proofs that tags and keys stay in step: in the primer, in the items     *)
(* made with it, and in the file, for every width of tags, set of keys and *)
(* file to start from.                                                     *)
(***************************************************************************)
EXTENDS HeaderMetadata, TLAPS

(* The session that is about to write over sets of the file has a primer   *)
(* that extends the one on disk.                                           *)
Extends(list, base) == \A i \in DOMAIN base : i \in DOMAIN list /\ list[i] = base[i]
Current == current => Extends(entries, file.primer)

IInv ==
    /\ TypeOK
    /\ PrimersOneToOne
    /\ NoTagSkipped
    /\ ItemsAgree
    /\ FileAgrees
    /\ Current

-----------------------------------------------------------------------------
(* What a lookup finds in a list that is one to one.                       *)
LEMMA FoundTag ==
    ASSUME NEW list \in Seq(Entry), OneToOne(list), NEW key, Registered(list, key)
    PROVE  /\ ItemTag(list, key) \in Tags
           /\ Lists(list, key, ItemTag(list, key))
  <1> DEFINE Match(i) == list[i].uid = key /\ \A j \in 1 .. i - 1 : list[j].uid # key
             c == CHOOSE i \in DOMAIN list : Match(i)
  <1>1. \A i \in DOMAIN list : i \in Nat /\ 1 .. i - 1 \subseteq DOMAIN list /\ i \notin 1 .. i - 1
    OBVIOUS
  <1>2. \E i \in DOMAIN list : Match(i)
    BY <1>1 DEF Registered, OneToOne
  <1>3. c \in DOMAIN list /\ Match(c)
    <2> HIDE DEF Match
    <2> QED BY <1>2
  <1>4. ItemTag(list, key) = list[c].localTag
    BY DEF ItemTag
  <1>5. list[c] \in Entry
    <2> HIDE DEF c
    <2> QED BY <1>3
  <1> HIDE DEF c
  <1>6. list[c] = [localTag |-> list[c].localTag, uid |-> key] /\ list[c].localTag \in Tags
    BY <1>3, <1>5 DEF Entry
  <1> QED BY <1>3, <1>4, <1>6 DEF Lists

LEMMA FoundKey ==
    ASSUME NEW list \in Seq(Entry), OneToOne(list), NEW tag, InUse(list, tag)
    PROVE  /\ ItemKey(list, tag) \in Keys
           /\ Lists(list, ItemKey(list, tag), tag)
  <1> DEFINE Match(i) == list[i].localTag = tag /\ \A j \in 1 .. i - 1 : list[j].localTag # tag
             c == CHOOSE i \in DOMAIN list : Match(i)
  <1>1. \A i \in DOMAIN list : i \in Nat /\ 1 .. i - 1 \subseteq DOMAIN list /\ i \notin 1 .. i - 1
    OBVIOUS
  <1>2. \E i \in DOMAIN list : Match(i)
    BY <1>1 DEF InUse, OneToOne
  <1>3. c \in DOMAIN list /\ Match(c)
    <2> HIDE DEF Match
    <2> QED BY <1>2
  <1>4. ItemKey(list, tag) = list[c].uid
    BY DEF ItemKey
  <1>5. list[c] \in Entry
    <2> HIDE DEF c
    <2> QED BY <1>3
  <1> HIDE DEF c
  <1>6. list[c] = [localTag |-> tag, uid |-> list[c].uid] /\ list[c].uid \in Keys
    BY <1>3, <1>5 DEF Entry
  <1> QED BY <1>3, <1>4, <1>6 DEF Lists

-----------------------------------------------------------------------------
(* The primer pack by itself.                                              *)
PrimerInv ==
    /\ entries \in Seq(Entry)
    /\ nextTag \in Tags
    /\ OneToOne(entries)
    /\ NoTagSkipped

LEMMA TagDecrement ==
    ASSUME NEW tag \in Tags
    PROVE  /\ Decrement(tag) \in Tags
           /\ tag > 0 => Decrement(tag) = tag - 1
           /\ tag = 0 => Decrement(tag) = MaxTag
  BY PrimerAssumption DEF Decrement, Tags

(* A registration adds at most one entry, behind the others, and the key   *)
(* has the tag that is returned.                                           *)
LEMMA Registering ==
    ASSUME PrimerInv, NEW key \in Keys, NEW tag \in Tags, NEW assigned \in Tags,
           Register(key, tag, assigned)
    PROVE  /\ PrimerInv'
           /\ Extends(entries', entries)
           /\ Lists(entries', key, assigned)
  <1>1. CASE Registered(entries, key)
    <2>1. assigned = ItemTag(entries, key) /\ UNCHANGED <<entries, nextTag>>
      BY <1>1 DEF Register
    <2>2. Lists(entries, key, assigned)
      BY <1>1, <2>1, FoundTag DEF PrimerInv
    <2> QED BY <2>1, <2>2 DEF PrimerInv, Extends, NoTagSkipped, InUse, Lists
  <1>2. CASE ~Registered(entries, key)
    <2> DEFINE e == [localTag |-> assigned, uid |-> key]
    <2>1. entries' = Append(entries, e) /\ e \in Entry
      BY <1>2 DEF Register, Entry
    <2>2. /\ entries' \in Seq(Entry)
          /\ DOMAIN entries' = DOMAIN entries \cup {Len(entries) + 1}
          /\ \A i \in DOMAIN entries : entries'[i] = entries[i]
          /\ entries'[Len(entries) + 1] = e
          /\ Len(entries) + 1 \notin DOMAIN entries
      BY <2>1 DEF PrimerInv
    <2>3. ~InUse(entries, assigned)
      BY <1>2 DEF Register, DynamicTag, FreeTags
    <2>4. OneToOne(entries)'
      <3>1. \A i \in DOMAIN entries : entries[i].localTag # assigned /\ entries[i].uid # key
        BY <1>2, <2>3 DEF Registered, InUse
      <3> QED BY <2>2, <3>1 DEF OneToOne, PrimerInv
    <2>5. nextTag' \in Tags /\ NoTagSkipped'
      <3>1. \A t : InUse(entries, t) => InUse(entries', t)
        BY <2>2 DEF InUse
      <3>2. InUse(entries', assigned)
        BY <2>2 DEF InUse
      <3>3. CASE tag # NullTag
        <4>1. nextTag' = nextTag
          BY <1>2, <3>3 DEF Register
        <4> QED BY <3>1, <4>1 DEF PrimerInv, NoTagSkipped
      <3>4. CASE tag = NullTag
        <4>1. DynamicTag(assigned) /\ nextTag' = Decrement(assigned)
          BY <1>2, <3>4 DEF Register
        <4>2. /\ assigned \in FirstDynamic .. nextTag
              /\ \A t \in FirstDynamic .. nextTag : t > assigned => InUse(entries, t)
          BY <4>1, PrimerAssumption DEF DynamicTag, FreeTags, PrimerInv, Tags
        <4>3. nextTag' = assigned - 1 /\ nextTag' \in Tags
          BY <4>1, <4>2, TagDecrement, PrimerAssumption DEF PrimerInv, Tags
        <4>4. ASSUME NEW t \in FirstDynamic .. MaxTag, t > assigned - 1
              PROVE  InUse(entries', t)
          <5>1. t = assigned \/ (t > assigned /\ t <= nextTag) \/ t > nextTag
            BY <4>4, <4>2, PrimerAssumption DEF PrimerInv, Tags
          <5> QED BY <3>1, <3>2, <4>2, <5>1, PrimerAssumption DEF PrimerInv, NoTagSkipped, Tags
        <4> QED BY <4>3, <4>4 DEF NoTagSkipped
      <3> QED BY <3>3, <3>4
    <2>6. Lists(entries', key, assigned) /\ Extends(entries', entries)
      BY <2>2 DEF Lists, Extends
    <2> QED BY <2>2, <2>4, <2>5, <2>6 DEF PrimerInv
  <1> QED BY <1>1, <1>2

LEMMA RegisteringFails ==
    ASSUME PrimerInv, NEW key \in Keys, NEW tag \in Tags, RegisterFails(key, tag)
    PROVE  PrimerInv' /\ entries' = entries
  <1>1. entries' = entries
    BY DEF RegisterFails
  <1>2. CASE nextTag' = nextTag
    BY <1>1, <1>2 DEF PrimerInv, NoTagSkipped, InUse
  <1>3. CASE FreeTags = {} /\ nextTag' = NextTagAfterFailure
    <2>1. nextTag' \in Tags
      BY <1>3, TagDecrement, PrimerAssumption DEF NextTagAfterFailure, PrimerInv, Tags
    <2>2. \A t \in FirstDynamic .. MaxTag : InUse(entries, t)
      BY <1>3, PrimerAssumption DEF FreeTags, PrimerInv, NoTagSkipped, Tags
    <2> QED BY <1>1, <2>1, <2>2 DEF PrimerInv, NoTagSkipped
  <1> QED BY <1>1, <1>2, <1>3 DEF RegisterFails

-----------------------------------------------------------------------------
(* The items of a set.                                                     *)
LEMMA NoItemsType == NoItems \in Items /\ DOMAIN NoItems = {} /\ NoSets \in [Sets -> Items]
  <1>1. NoItems \in [{} -> Item] /\ DOMAIN NoItems = {}
    BY DEF NoItems
  <1>2. NoItems \in Items
    <2> HIDE DEF NoItems
    <2> QED BY <1>1 DEF Items
  <1> QED BY <1>1, <1>2 DEF NoSets

LEMMA ItemsDomain ==
    ASSUME NEW items \in Items
    PROVE  DOMAIN items \subseteq Keys /\ \A k \in DOMAIN items : items[k] \in Item
  BY DEF Items

LEMMA WithType ==
    ASSUME NEW items \in Items, NEW key \in Keys, NEW item \in Item
    PROVE  /\ With(items, key, item) \in Items
           /\ DOMAIN With(items, key, item) = DOMAIN items \cup {key}
           /\ With(items, key, item)[key] = item
           /\ \A k \in DOMAIN items \ {key} : With(items, key, item)[k] = items[k]
  <1>1. With(items, key, item) \in [DOMAIN items \cup {key} -> Item]
    BY ItemsDomain DEF With
  <1>2. DOMAIN items \cup {key} \in SUBSET Keys
    BY ItemsDomain
  <1> QED BY <1>1, <1>2 DEF With, Items

LEMMA WithoutType ==
    ASSUME NEW items \in Items, NEW key
    PROVE  /\ Without(items, key) \in Items
           /\ DOMAIN Without(items, key) = DOMAIN items \ {key}
           /\ \A k \in DOMAIN items \ {key} : Without(items, key)[k] = items[k]
  <1>1. Without(items, key) \in [DOMAIN items \ {key} -> Item]
    BY ItemsDomain DEF Without
  <1>2. DOMAIN items \ {key} \in SUBSET Keys
    BY ItemsDomain
  <1> QED BY <1>1, <1>2 DEF Without, Items

(* What is read with a primer agrees with that primer.                     *)
LEMMA Reading ==
    ASSUME NEW list \in Seq(Entry), OneToOne(list), NEW items \in Items
    PROVE  /\ Read(list, items) \in Items
           /\ \A key \in DOMAIN Read(list, items) :
                 Lists(list, key, Read(list, items)[key].tag)
  <1> DEFINE Found == {k \in DOMAIN items : InUse(list, items[k].tag)}
             Name(k) == ItemKey(list, items[k].tag)
             ReadKeys == {Name(k) : k \in Found}
             Source(key) == CHOOSE k \in Found : Name(k) = key
  <1>1. Read(list, items) = [key \in ReadKeys |-> items[Source(key)]]
    BY DEF Read
  <1>2. \A k \in Found : Name(k) \in Keys /\ Lists(list, Name(k), items[k].tag)
    BY FoundKey
  <1>3. \A key \in ReadKeys : Source(key) \in Found /\ Name(Source(key)) = key
    OBVIOUS
  <1>4. \A k \in Found : items[k] \in Item
    BY ItemsDomain
  <1> HIDE DEF Found, Name, Source
  <1>5. ReadKeys \in SUBSET Keys
    BY <1>2
  <1>6. [key \in ReadKeys |-> items[Source(key)]] \in [ReadKeys -> Item]
    BY <1>3, <1>4
  <1>7. Read(list, items) \in [ReadKeys -> Item]
    BY <1>1, <1>6
  <1>8. Read(list, items) \in Items
    <2> HIDE DEF ReadKeys
    <2> QED BY <1>5, <1>7 DEF Items
  <1>9. \A key \in ReadKeys : Lists(list, key, Read(list, items)[key].tag)
    BY <1>1, <1>2, <1>3
  <1> QED BY <1>7, <1>8, <1>9

(* A primer that grows still lists what it listed.                         *)
LEMMA StillLists ==
    ASSUME NEW list, NEW longer, Extends(longer, list), NEW key, NEW tag, Lists(list, key, tag)
    PROVE  Lists(longer, key, tag)
  BY DEF Extends, Lists

(* An item that agrees with a primer agrees with the primer on disk that   *)
(* this one extends: either both have the key under that tag, or the file  *)
(* has neither.                                                            *)
LEMMA AgreesOnDisk ==
    ASSUME NEW list \in Seq(Entry), OneToOne(list), NEW base, Extends(list, base),
           NEW key, NEW tag, Lists(list, key, tag)
    PROVE  \A i \in DOMAIN base : base[i].localTag = tag <=> base[i].uid = key
  <1> TAKE i \in DOMAIN base
  <1>1. i \in DOMAIN list /\ list[i] = base[i]
    BY DEF Extends
  <1>2. PICK j \in DOMAIN list : list[j].localTag = tag /\ list[j].uid = key
    BY DEF Lists
  <1>3. list[i].localTag = tag \/ list[i].uid = key => i = j
    BY <1>1, <1>2 DEF OneToOne
  <1> QED BY <1>1, <1>2, <1>3

-----------------------------------------------------------------------------
LEMMA InitIInv == Init => IInv
  <1> SUFFICES ASSUME Init PROVE IInv
    OBVIOUS
  <1>1. PICK p \in OldPrimers : file = [primer |-> p, sets |-> NoSets]
    BY DEF Init
  <1>2. p \in Seq(Entry) /\ OneToOne(p)
    BY HeaderAssumption
  <1>3. /\ entries = <<>> /\ nextTag = MaxTag /\ sets = NoSets /\ current = FALSE
    BY DEF Init
  <1>4. \A s \in Sets : NoSets[s] = NoItems
    BY DEF NoSets
  <1>5. TypeOK
    <2>1. entries \in Seq(Entry) /\ nextTag \in Tags
      BY <1>3, PrimerAssumption DEF Tags
    <2>2. file \in [primer : Seq(Entry), sets : [Sets -> Items]]
      BY <1>1, <1>2, NoItemsType
    <2> QED BY <1>3, <2>1, <2>2, NoItemsType DEF TypeOK
  <1>6. PrimersOneToOne /\ NoTagSkipped
    BY <1>1, <1>2, <1>3, PrimerAssumption DEF PrimersOneToOne, OneToOne, NoTagSkipped
  <1>7. ItemsAgree /\ FileAgrees
    BY <1>1, <1>3, <1>4, NoItemsType DEF ItemsAgree, FileAgrees
  <1>8. Current
    BY <1>3 DEF Current
  <1> QED BY <1>5, <1>6, <1>7, <1>8 DEF IInv

(* Making an item: the primer may grow, one set changes.                   *)
LEMMA ItemMade ==
    ASSUME IInv, NEW s \in Sets, NEW key \in Keys, NEW value \in Values, NEW assigned \in Tags,
           PrimerInv', Extends(entries', entries), Lists(entries', key, assigned),
           NEW items \in Items,
           \A k \in DOMAIN items : k \in DOMAIN sets[s] /\ items[k] = sets[s][k],
           sets' = [sets EXCEPT ![s] = With(items, key, NewItem(key, assigned, value))],
           UNCHANGED <<file, current>>
    PROVE  IInv'
  <1> DEFINE item == NewItem(key, assigned, value)
             made == With(items, key, item)
  <1>1. item \in Item /\ item.tag = assigned
    BY DEF NewItem, Item
  <1>2. /\ made \in Items
        /\ DOMAIN made = DOMAIN items \cup {key}
        /\ made[key] = item
        /\ \A k \in DOMAIN items \ {key} : made[k] = items[k]
    BY <1>1, WithType
  <1> HIDE DEF item, made
  <1>3. sets \in [Sets -> Items] /\ sets' = [sets EXCEPT ![s] = made]
    BY DEF IInv, TypeOK, made, item
  <1>4. TypeOK'
    BY <1>2, <1>3 DEF IInv, TypeOK, PrimerInv
  <1>5. PrimersOneToOne' /\ NoTagSkipped'
    BY DEF IInv, PrimersOneToOne, PrimerInv
  <1>6. ItemsAgree'
    <2> SUFFICES ASSUME NEW r \in Sets, NEW k \in DOMAIN sets'[r]
                 PROVE  Lists(entries', k, sets'[r][k].tag)
      BY DEF ItemsAgree
    <2>1. CASE r # s
      <3>1. k \in DOMAIN sets[r] /\ sets'[r] = sets[r]
        BY <1>3, <2>1
      <3>2. Lists(entries, k, sets[r][k].tag)
        BY <3>1 DEF IInv, ItemsAgree
      <3> QED BY <3>1, <3>2, StillLists
    <2>2. CASE r = s /\ k = key
      BY <1>1, <1>2, <1>3, <2>2
    <2>3. CASE r = s /\ k # key
      <3>1. k \in DOMAIN sets[s] /\ sets'[r][k] = sets[s][k]
        BY <1>2, <1>3, <2>3
      <3>2. Lists(entries, k, sets[s][k].tag)
        BY <3>1 DEF IInv, ItemsAgree
      <3> QED BY <3>1, <3>2, StillLists
    <2> QED BY <2>1, <2>2, <2>3
  <1>7. FileAgrees'
    BY DEF IInv, FileAgrees
  <1>8. Current'
    BY DEF IInv, Current, Extends
  <1> QED BY <1>4, <1>5, <1>6, <1>7, <1>8 DEF IInv

(* One step of the sessions preserves the invariant.                       *)
LEMMA StepIInv == IInv /\ [Next]_vars => IInv'
  <1> SUFFICES ASSUME IInv, [Next]_vars PROVE IInv'
    OBVIOUS
  <1>t. /\ entries \in Seq(Entry) /\ nextTag \in Tags
        /\ sets \in [Sets -> Items]
        /\ file.primer \in Seq(Entry) /\ file.sets \in [Sets -> Items]
        /\ file = [primer |-> file.primer, sets |-> file.sets]
        /\ current \in BOOLEAN
        /\ OneToOne(entries) /\ OneToOne(file.primer)
        /\ PrimerInv
    BY DEF IInv, TypeOK, PrimersOneToOne, PrimerInv
  <1>n. /\ \A s \in Sets : NoSets[s] = NoItems
        /\ DOMAIN NoItems = {} /\ NoItems \in Items /\ NoSets \in [Sets -> Items]
    BY NoItemsType DEF NoSets
  <1>p. <<>> \in Seq(Entry) /\ OneToOne(<<>>)
    BY DEF OneToOne
  <1>1. CASE CreateHeader
    <2>1. entries' = <<>> /\ nextTag' = MaxTag /\ sets' = NoSets /\ current' = FALSE /\ file' = file
      BY <1>1 DEF CreateHeader, CreatePrimer
    <2>2. TypeOK'
      <3>1. nextTag' \in Tags /\ entries' \in Seq(Entry)
        BY <1>p, <2>1, PrimerAssumption DEF Tags
      <3>2. current' \in BOOLEAN /\ sets' \in [Sets -> Items]
        BY <1>n, <2>1
      <3> QED BY <2>1, <3>1, <3>2 DEF IInv, TypeOK
    <2>3. PrimersOneToOne' /\ NoTagSkipped'
      BY <1>t, <1>p, <2>1, PrimerAssumption DEF PrimersOneToOne, NoTagSkipped
    <2>4. ItemsAgree' /\ Current' /\ FileAgrees'
      BY <1>n, <2>1 DEF IInv, ItemsAgree, FileAgrees, Current
    <2> QED BY <2>2, <2>3, <2>4 DEF IInv
  <1>2. ASSUME NEW key \in Keys, NEW tag \in OwnTags \cup {DefTag[key]}, RegisterKey(key, tag)
        PROVE  IInv'
    <2>1. tag \in Tags
      BY HeaderAssumption
    <2>2. PrimerInv' /\ Extends(entries', entries)
      <3>1. CASE \E assigned \in Tags : Register(key, tag, assigned)
        BY <1>t, <2>1, <3>1, Registering
      <3>2. CASE RegisterFails(key, tag)
        BY <1>t, <2>1, <3>2, RegisteringFails DEF Extends
      <3> QED BY <1>2, <3>1, <3>2 DEF RegisterKey
    <2>3. UNCHANGED <<sets, file, current>>
      BY <1>2 DEF RegisterKey
    <2>4. TypeOK' /\ PrimersOneToOne' /\ NoTagSkipped'
      BY <2>2, <2>3 DEF IInv, TypeOK, PrimersOneToOne, PrimerInv
    <2>5. ItemsAgree'
      BY <2>2, <2>3, StillLists DEF IInv, ItemsAgree
    <2>6. FileAgrees' /\ Current'
      BY <2>2, <2>3 DEF IInv, FileAgrees, Current, Extends
    <2> QED BY <2>4, <2>5, <2>6 DEF IInv
  <1>3. ASSUME NEW s \in Sets, NEW key \in Keys, NEW v \in Values, SetItem(s, key, v)
        PROVE  IInv'
    <2>1. PICK assigned \in Tags :
             /\ \/ key \in DOMAIN sets[s] /\ assigned = sets[s][key].tag /\ UNCHANGED primerVars
                \/ key \notin DOMAIN sets[s] /\ Register(key, DefTag[key], assigned)
             /\ sets' = [sets EXCEPT ![s] = With(sets[s], key, NewItem(key, assigned, v))]
      BY <1>3 DEF SetItem
    <2>2. PrimerInv' /\ Extends(entries', entries) /\ Lists(entries', key, assigned)
      <3>1. CASE key \in DOMAIN sets[s] /\ assigned = sets[s][key].tag /\ UNCHANGED primerVars
        <4>1. Lists(entries, key, assigned)
          BY <3>1 DEF IInv, ItemsAgree
        <4> QED BY <1>t, <3>1, <4>1 DEF primerVars, PrimerInv, Extends, NoTagSkipped
      <3>2. CASE Register(key, DefTag[key], assigned)
        BY <1>t, <3>2, Registering, HeaderAssumption
      <3> QED BY <2>1, <3>1, <3>2
    <2>3. UNCHANGED <<file, current>> /\ sets[s] \in Items
      BY <1>3, <1>t DEF SetItem
    <2> QED BY <2>1, <2>2, <2>3, ItemMade
  <1>4. ASSUME NEW s \in Sets, NEW key \in Keys, SetItemFails(s, key)
        PROVE  IInv'
    <2>1. PrimerInv' /\ entries' = entries
      BY <1>4, <1>t, RegisteringFails, HeaderAssumption DEF SetItemFails
    <2>2. UNCHANGED <<sets, file, current>>
      BY <1>4 DEF SetItemFails
    <2> QED BY <2>1, <2>2 DEF IInv, TypeOK, PrimersOneToOne, PrimerInv, ItemsAgree, FileAgrees, Current
  <1>5. ASSUME NEW s \in Sets, NEW v \in Values, CreateSet(s, v)
        PROVE  IInv'
    <2>1. PICK assigned \in Tags :
             /\ Register(InstanceUID, DefTag[InstanceUID], assigned)
             /\ sets' = [sets EXCEPT ![s] = With(NoItems, InstanceUID, NewItem(InstanceUID, assigned, v))]
      BY <1>5 DEF CreateSet
    <2>2. InstanceUID \in Keys /\ DefTag[InstanceUID] \in Tags
      BY HeaderAssumption
    <2>3. PrimerInv' /\ Extends(entries', entries) /\ Lists(entries', InstanceUID, assigned)
      BY <1>t, <2>1, <2>2, Registering
    <2>4. UNCHANGED <<file, current>>
      BY <1>5 DEF CreateSet
    <2> QED BY <1>n, <2>1, <2>2, <2>3, <2>4, ItemMade
  <1>6. ASSUME NEW s \in Sets, NEW items \in Items, UNCHANGED <<primerVars, file, current>>,
               sets' = [sets EXCEPT ![s] = items],
               \A k \in DOMAIN items : Lists(entries, k, items[k].tag)
        PROVE  IInv'
    <2>1. TypeOK' /\ PrimersOneToOne' /\ NoTagSkipped' /\ FileAgrees' /\ Current'
      BY <1>6, <1>t DEF primerVars, IInv, TypeOK, PrimersOneToOne, NoTagSkipped, FileAgrees, Current
    <2>2. ItemsAgree'
      BY <1>6, <1>t DEF primerVars, IInv, ItemsAgree
    <2> QED BY <2>1, <2>2 DEF IInv
  <1>7. ASSUME NEW s \in Sets, NEW key \in Keys, RemoveItem(s, key)
        PROVE  IInv'
    <2>1. /\ Without(sets[s], key) \in Items
          /\ \A k \in DOMAIN Without(sets[s], key) :
                k \in DOMAIN sets[s] /\ Without(sets[s], key)[k] = sets[s][k]
      <3>1. ASSUME NEW items \in Items
            PROVE  /\ Without(items, key) \in Items
                   /\ \A k \in DOMAIN Without(items, key) :
                         k \in DOMAIN items /\ Without(items, key)[k] = items[k]
        <4>1. /\ Without(items, key) \in Items
              /\ DOMAIN Without(items, key) = DOMAIN items \ {key}
              /\ \A k \in DOMAIN items \ {key} : Without(items, key)[k] = items[k]
          BY <3>1, WithoutType
        <4> QED BY <4>1
      <3>2. sets[s] \in Items
        BY <1>t, <1>7
      <3> QED BY <3>1, <3>2
    <2>2. \A k \in DOMAIN sets[s] : Lists(entries, k, sets[s][k].tag)
      BY DEF IInv, ItemsAgree
    <2> QED BY <1>6, <1>7, <2>1, <2>2 DEF RemoveItem
  <1>8. ASSUME NEW s \in Sets, RemoveSet(s)
        PROVE  IInv'
    BY <1>6, <1>8, <1>n DEF RemoveSet
  <1>9. CASE WriteHeader
    <2> DEFINE written == IF sets[Preface] = NoItems THEN NoSets ELSE sets
    <2>1. /\ file' = [primer |-> entries, sets |-> written]
          /\ current' = TRUE /\ UNCHANGED <<entries, nextTag, sets>>
      BY <1>9 DEF WriteHeader, primerVars
    <2>2. /\ written \in [Sets -> Items]
          /\ \A s \in Sets : \A k \in DOMAIN written[s] : Lists(entries, k, written[s][k].tag)
      BY <1>t, <1>n DEF IInv, ItemsAgree
    <2> HIDE DEF written
    <2>3. TypeOK' /\ PrimersOneToOne' /\ NoTagSkipped' /\ ItemsAgree'
      BY <1>t, <2>1, <2>2 DEF IInv, TypeOK, PrimersOneToOne, NoTagSkipped, ItemsAgree
    <2>4. Extends(entries, entries)
      BY DEF Extends
    <2>5. FileAgrees'
      BY <1>t, <2>1, <2>2, <2>4, AgreesOnDisk DEF FileAgrees
    <2> QED BY <2>1, <2>3, <2>4, <2>5 DEF IInv, Current
  <1>10. ASSUME NEW s \in Sets, WriteSet(s)
         PROVE  IInv'
    <2>1. /\ current /\ UNCHANGED <<entries, nextTag, sets, current>>
          /\ file' = [file EXCEPT !.sets[s] = sets[s]]
      BY <1>10 DEF WriteSet, primerVars
    <2>2. file'.primer = file.primer /\ file'.sets = [file.sets EXCEPT ![s] = sets[s]]
      BY <1>t, <2>1
    <2>3. file' \in [primer : Seq(Entry), sets : [Sets -> Items]]
      BY <1>t, <2>1
    <2>4. TypeOK' /\ PrimersOneToOne' /\ NoTagSkipped' /\ ItemsAgree' /\ Current'
      BY <2>1, <2>2, <2>3 DEF IInv, TypeOK, PrimersOneToOne, NoTagSkipped, ItemsAgree, Current
    <2>5. \A k \in DOMAIN sets[s] : \A i \in DOMAIN file.primer :
             file.primer[i].localTag = sets[s][k].tag <=> file.primer[i].uid = k
      BY <1>t, <2>1, AgreesOnDisk DEF IInv, ItemsAgree, Current
    <2>6. FileAgrees'
      BY <1>t, <2>2, <2>5 DEF IInv, FileAgrees
    <2> QED BY <2>4, <2>6 DEF IInv
  <1>11. CASE ReadHeaderPrimer
    <2>1. /\ sets = NoSets /\ entries' = file.primer /\ nextTag' = MaxTag
          /\ current' = TRUE /\ UNCHANGED <<sets, file>>
      BY <1>11 DEF ReadHeaderPrimer, ReadPrimer
    <2>2. TypeOK' /\ PrimersOneToOne' /\ NoTagSkipped'
      BY <1>t, <2>1, PrimerAssumption DEF IInv, TypeOK, PrimersOneToOne, NoTagSkipped, Tags
    <2>3. ItemsAgree' /\ FileAgrees' /\ Current'
      BY <1>n, <2>1 DEF IInv, ItemsAgree, FileAgrees, Current, Extends
    <2> QED BY <2>2, <2>3 DEF IInv
  <1>12. ASSUME NEW s \in Sets, ReadSet(s)
         PROVE  IInv'
    <2>1. /\ sets' = [sets EXCEPT ![s] = Read(entries, file.sets[s])]
          /\ UNCHANGED <<primerVars, file, current>>
      BY <1>12 DEF ReadSet
    <2> QED BY <1>6, <1>t, <2>1, Reading
  <1>13. CASE UNCHANGED vars
    BY <1>13 DEF vars, IInv, TypeOK, PrimersOneToOne, NoTagSkipped, ItemsAgree, FileAgrees, Current
  <1> QED BY <1>1, <1>2, <1>3, <1>4, <1>5, <1>7, <1>8, <1>9, <1>10, <1>11, <1>12, <1>13 DEF Next

LEMMA Invariant == Spec => []IInv
  BY InitIInv, StepIInv, PTL DEF Spec

(* Every variable has its type; nextTag stays a tag when it is counted     *)
(* down past zero by registrations that fail.                              *)
THEOREM TypeCorrect == Spec => []TypeOK
  <1>1. IInv => TypeOK
    BY DEF IInv
  <1> QED BY <1>1, Invariant, PTL

(* No primer pack ever has two entries for a key or for a tag, whatever    *)
(* the client registers and whichever files it reads.                      *)
THEOREM PrimersStayOneToOne == Spec => []PrimersOneToOne
  <1>1. IInv => PrimersOneToOne
    BY DEF IInv
  <1> QED BY <1>1, Invariant, PTL

(* Dynamic tags run out only when every one of them is in use.             *)
THEOREM TagsRunOutLast == Spec => []NoTagSkipped
  <1>1. IInv => NoTagSkipped
    BY DEF IInv
  <1> QED BY <1>1, Invariant, PTL

(* An item always has the tag that its key has in the primer of its        *)
(* session.                                                                *)
THEOREM ItemsKeepTheirTags == Spec => []ItemsAgree
  <1>1. IInv => ItemsAgree
    BY DEF IInv
  <1> QED BY <1>1, Invariant, PTL

(* No item in the file can be taken for one with another key, and none     *)
(* with a declared key is lost, whichever sessions wrote it.               *)
THEOREM FileTellsTheTruth == Spec => []FileAgrees
  <1>1. IInv => FileAgrees
    BY DEF IInv
  <1> QED BY <1>1, Invariant, PTL

-----------------------------------------------------------------------------
(* Sets of items by key, without their tags.                               *)
mem == [s \in Sets |-> ItemValues(sets[s])]
disk == [s \in Sets |-> ItemValues(file.sets[s])]
diskKeys == {file.primer[i].uid : i \in DOMAIN file.primer}

LEMMA ValuesNone == ItemValues(NoItems) = NoItems
  BY NoItemsType DEF ItemValues, NoItems

LEMMA ValuesWithout ==
    ASSUME NEW items \in Items, NEW key
    PROVE  ItemValues(Without(items, key)) = Store!Among(ItemValues(items), Keys \ {key})
  BY ItemsDomain DEF ItemValues, Without, Store!Among

(* Reading with the primer that the file declares finds every declared     *)
(* item under its own key.                                                 *)
LEMMA ReadingBack ==
    ASSUME NEW list \in Seq(Entry), OneToOne(list), NEW items \in Items,
           \A key \in DOMAIN items : \A i \in DOMAIN list :
               list[i].localTag = items[key].tag <=> list[i].uid = key
    PROVE  ItemValues(Read(list, items)) =
               Store!Among(ItemValues(items), Keys \ (Keys \ {list[i].uid : i \in DOMAIN list}))
  <1> DEFINE Found == {k \in DOMAIN items : InUse(list, items[k].tag)}
             Name(k) == ItemKey(list, items[k].tag)
             declared == {list[i].uid : i \in DOMAIN list}
  <1>1. \A k \in Found : Name(k) = k
    <2> TAKE k \in Found
    <2>1. Lists(list, Name(k), items[k].tag)
      BY FoundKey
    <2>2. PICK i \in DOMAIN list : list[i].localTag = items[k].tag /\ list[i].uid = Name(k)
      BY <2>1 DEF Lists
    <2> QED BY <2>2
  <1>2. Found = DOMAIN items \cap declared
    BY DEF InUse
  <1>3. Read(list, items) = [key \in {Name(k) : k \in Found} |-> items[CHOOSE k \in Found : Name(k) = key]]
    BY DEF Read
  <1> HIDE DEF Name
  <1>4. {Name(k) : k \in Found} = Found
    BY <1>1
  <1>5. \A key \in Found : (CHOOSE k \in Found : Name(k) = key) = key
    BY <1>1
  <1>6. Read(list, items) = [key \in Found |-> items[key]]
    BY <1>3, <1>4, <1>5
  <1>7. ItemValues(Read(list, items)) = [key \in Found |-> items[key].value]
    BY <1>6 DEF ItemValues
  <1>8. Found = DOMAIN items \cap (Keys \ (Keys \ declared))
    BY <1>2, ItemsDomain
  <1>9. Store!Among(ItemValues(items), Keys \ (Keys \ declared)) = [key \in Found |-> items[key].value]
    BY <1>8 DEF ItemValues, Store!Among
  <1> QED BY <1>7, <1>9

(* One set of the session, or of the file, changes.                        *)
LEMMA OneSetChanges ==
    ASSUME NEW f \in [Sets -> Items], NEW s \in Sets, NEW items \in Items
    PROVE  [r \in Sets |-> ItemValues([f EXCEPT ![s] = items][r])] =
               [[r \in Sets |-> ItemValues(f[r])] EXCEPT ![s] = ItemValues(items)]
  OBVIOUS

LEMMA StoreInit == Init => Store!Start
  <1> SUFFICES ASSUME Init PROVE Store!Start
    OBVIOUS
  <1>1. sets = NoSets /\ file.sets = NoSets
    BY DEF Init
  <1>2. \A s \in Sets : ItemValues(NoSets[s]) = Store!NoItems
    BY ValuesNone DEF NoSets, NoItems, Store!NoItems
  <1> QED BY <1>1, <1>2 DEF Store!Start, Store!Empty

LEMMA StoreStep == IInv /\ [Next]_vars => [Store!StoreNext]_<<mem, disk, diskKeys>>
  <1> SUFFICES ASSUME IInv, [Next]_vars
               PROVE  Store!StoreNext \/ (mem' = mem /\ disk' = disk /\ diskKeys' = diskKeys)
    OBVIOUS
  <1>t. /\ entries \in Seq(Entry) /\ file.primer \in Seq(Entry)
        /\ sets \in [Sets -> Items] /\ file.sets \in [Sets -> Items]
        /\ file = [primer |-> file.primer, sets |-> file.sets]
        /\ OneToOne(entries) /\ OneToOne(file.primer)
    BY DEF IInv, TypeOK, PrimersOneToOne
  <1>n. /\ \A s \in Sets : NoSets[s] = NoItems
        /\ NoItems \in Items /\ ItemValues(NoItems) = Store!NoItems
    BY NoItemsType, ValuesNone DEF NoSets, NoItems, Store!NoItems
  <1>f. file' = file => disk' = disk /\ diskKeys' = diskKeys
    BY DEF disk, diskKeys
  <1>m. sets' = sets => mem' = mem
    BY DEF mem
  <1>s. ASSUME NEW s \in Sets, NEW items \in Items, sets' = [sets EXCEPT ![s] = items]
        PROVE  mem' = [mem EXCEPT ![s] = ItemValues(items)]
    BY <1>s, <1>t, OneSetChanges DEF mem
  <1>v. \A s \in Sets : mem[s] = ItemValues(sets[s]) /\ sets[s] \in Items
    BY <1>t DEF mem
  <1>w. ASSUME NEW s \in Sets, NEW key \in Keys, NEW v \in Values, NEW tag \in Tags,
               sets' = [sets EXCEPT ![s] = With(sets[s], key, NewItem(key, tag, v))],
               file' = file
        PROVE  Store!SetItem(s, key, v)
    <2>1. With(sets[s], key, NewItem(key, tag, v)) \in Items
      BY <1>v, WithType DEF NewItem, Item
    <2>2. mem' = [mem EXCEPT ![s] = [j \in DOMAIN mem[s] \cup {key} |-> IF j = key THEN v ELSE mem[s][j]]]
      <3>1. mem' = [mem EXCEPT ![s] = ItemValues(With(sets[s], key, NewItem(key, tag, v)))]
        BY <1>s, <1>w, <2>1
      <3>2. ItemValues(With(sets[s], key, NewItem(key, tag, v))) =
                [j \in DOMAIN ItemValues(sets[s]) \cup {key} |->
                    IF j = key THEN v ELSE ItemValues(sets[s])[j]]
        BY DEF ItemValues, With, NewItem
      <3> QED BY <1>v, <3>1, <3>2
    <2> QED BY <1>f, <1>w, <2>2 DEF Store!SetItem, mem, disk, diskKeys
  <1>1. CASE CreateHeader
    <2>1. sets' = NoSets /\ file' = file
      BY <1>1 DEF CreateHeader
    <2>2. mem' = Store!Empty
      BY <1>n, <2>1 DEF mem, Store!Empty
    <2>3. Store!Restart
      BY <1>f, <2>1, <2>2 DEF Store!Restart, mem, disk, diskKeys
    <2> QED BY <2>3 DEF Store!StoreNext
  <1>2. ASSUME NEW key \in Keys, NEW tag, RegisterKey(key, tag)
        PROVE  mem' = mem /\ disk' = disk /\ diskKeys' = diskKeys
    BY <1>2, <1>f, <1>m DEF RegisterKey
  <1>3. ASSUME NEW s \in Sets, NEW key \in Keys, NEW v \in Values, SetItem(s, key, v)
        PROVE  Store!StoreNext
    <2>1. PICK assigned \in Tags :
             sets' = [sets EXCEPT ![s] = With(sets[s], key, NewItem(key, assigned, v))]
      BY <1>3 DEF SetItem
    <2>2. file' = file
      BY <1>3 DEF SetItem
    <2> QED BY <1>w, <2>1, <2>2 DEF Store!StoreNext
  <1>4. ASSUME NEW s \in Sets, NEW key \in Keys, SetItemFails(s, key)
        PROVE  mem' = mem /\ disk' = disk /\ diskKeys' = diskKeys
    BY <1>4, <1>f, <1>m DEF SetItemFails
  <1>5. ASSUME NEW s \in Sets, NEW v \in Values, CreateSet(s, v)
        PROVE  Store!StoreNext
    <2>1. PICK assigned \in Tags :
             sets' = [sets EXCEPT ![s] = With(NoItems, InstanceUID, NewItem(InstanceUID, assigned, v))]
      BY <1>5 DEF CreateSet
    <2>2. file' = file /\ sets[s] = NoItems
      BY <1>5 DEF CreateSet
    <2> QED BY <1>w, <2>1, <2>2, HeaderAssumption DEF Store!StoreNext
  <1>6. ASSUME NEW s \in Sets, NEW key \in Keys, RemoveItem(s, key)
        PROVE  Store!StoreNext
    <2>1. sets' = [sets EXCEPT ![s] = Without(sets[s], key)] /\ file' = file
      BY <1>6 DEF RemoveItem
    <2>2. Without(sets[s], key) \in Items
      BY <1>v, WithoutType
    <2>3. mem' = [mem EXCEPT ![s] = Store!Among(mem[s], Keys \ {key})]
      <3>1. mem' = [mem EXCEPT ![s] = ItemValues(Without(sets[s], key))]
        BY <1>s, <2>1, <2>2
      <3>2. ItemValues(Without(sets[s], key)) = Store!Among(ItemValues(sets[s]), Keys \ {key})
        BY <1>v, ValuesWithout
      <3> QED BY <1>v, <3>1, <3>2
    <2>4. Store!RemoveItem(s, key)
      BY <1>f, <2>1, <2>3 DEF Store!RemoveItem, mem, disk, diskKeys
    <2> QED BY <2>4 DEF Store!StoreNext
  <1>7. ASSUME NEW s \in Sets, RemoveSet(s)
        PROVE  Store!StoreNext
    <2>1. sets' = [sets EXCEPT ![s] = NoItems] /\ file' = file
      BY <1>7 DEF RemoveSet
    <2>2. mem' = [mem EXCEPT ![s] = Store!NoItems]
      BY <1>s, <1>n, <2>1
    <2>3. Store!RemoveSet(s)
      BY <1>f, <2>1, <2>2 DEF Store!RemoveSet, mem, disk, diskKeys
    <2> QED BY <2>3 DEF Store!StoreNext
  <1>8. CASE WriteHeader
    <2>1. /\ file' = [primer |-> entries, sets |-> IF sets[Preface] = NoItems THEN NoSets ELSE sets]
          /\ sets' = sets
      BY <1>8 DEF WriteHeader
    <2>2. CASE sets[Preface] = NoItems
      <3>1. disk' = Store!Empty
        BY <1>n, <2>1, <2>2 DEF disk, Store!Empty
      <3>2. Store!SaveFails
        BY <1>m, <2>1, <3>1 DEF Store!SaveFails, mem, disk, diskKeys
      <3> QED BY <3>2 DEF Store!StoreNext
    <2>3. CASE sets[Preface] # NoItems
      <3>1. disk' = mem
        BY <2>1, <2>3 DEF disk, mem
      <3>2. diskKeys' = {entries[i].uid : i \in DOMAIN entries}
        BY <2>1 DEF diskKeys
      <3>3. \A s \in Sets : DOMAIN mem[s] \subseteq diskKeys'
        <4> TAKE s \in Sets
        <4>1. DOMAIN mem[s] = DOMAIN sets[s]
          BY <1>v DEF ItemValues
        <4>2. ASSUME NEW key \in DOMAIN sets[s]
              PROVE  key \in diskKeys'
          <5>1. Lists(entries, key, sets[s][key].tag)
            BY DEF IInv, ItemsAgree
          <5>2. PICK i \in DOMAIN entries : entries[i].uid = key
            BY <5>1 DEF Lists
          <5> QED BY <3>2, <5>2
        <4> QED BY <4>1, <4>2
      <3>4. Store!Save
        BY <1>m, <2>1, <3>1, <3>3 DEF Store!Save, mem, disk, diskKeys
      <3> QED BY <3>4 DEF Store!StoreNext
    <2> QED BY <2>2, <2>3
  <1>9. ASSUME NEW s \in Sets, WriteSet(s)
        PROVE  Store!StoreNext
    <2>1. sets' = sets /\ file' = [file EXCEPT !.sets[s] = sets[s]]
      BY <1>9 DEF WriteSet
    <2>2. file'.primer = file.primer /\ file'.sets = [file.sets EXCEPT ![s] = sets[s]]
      BY <1>t, <2>1
    <2>3. disk' = [disk EXCEPT ![s] = mem[s]]
      BY <1>t, <1>v, <2>2, OneSetChanges DEF disk
    <2>4. diskKeys' = diskKeys
      BY <2>2 DEF diskKeys
    <2>5. Store!Rewrite(s)
      BY <1>m, <2>1, <2>3, <2>4 DEF Store!Rewrite, mem, disk, diskKeys
    <2> QED BY <2>5 DEF Store!StoreNext
  <1>10. CASE ReadHeaderPrimer
    BY <1>10, <1>f, <1>m DEF ReadHeaderPrimer
  <1>11. ASSUME NEW s \in Sets, ReadSet(s)
         PROVE  Store!StoreNext
    <2>1. /\ sets' = [sets EXCEPT ![s] = Read(file.primer, file.sets[s])]
          /\ file' = file
      BY <1>11 DEF ReadSet
    <2>2. Read(file.primer, file.sets[s]) \in Items
      BY <1>t, Reading
    <2>3. \A key \in DOMAIN file.sets[s] : \A i \in DOMAIN file.primer :
             file.primer[i].localTag = file.sets[s][key].tag <=> file.primer[i].uid = key
      BY DEF IInv, FileAgrees
    <2>4. /\ file.sets[s] \in Items
          /\ disk[s] = ItemValues(file.sets[s])
      BY <1>t DEF disk
    <2>5. ItemValues(Read(file.primer, file.sets[s])) = Store!Among(disk[s], Keys \ (Keys \ diskKeys))
      BY <1>t, <2>3, <2>4, ReadingBack DEF diskKeys
    <2>6. mem' = [mem EXCEPT ![s] = Store!Among(disk[s], Keys \ (Keys \ diskKeys))]
      BY <1>s, <2>1, <2>2, <2>5
    <2>7. Keys \ diskKeys \in SUBSET (Keys \ diskKeys)
      OBVIOUS
    <2>8. Store!Load(s)
      BY <1>f, <2>1, <2>6, <2>7 DEF Store!Load, mem, disk, diskKeys
    <2> QED BY <2>8 DEF Store!StoreNext
  <1>12. CASE UNCHANGED vars
    BY <1>12, <1>f, <1>m DEF vars
  <1> QED BY <1>1, <1>2, <1>3, <1>4, <1>5, <1>6, <1>7, <1>8, <1>9, <1>10, <1>11, <1>12 DEF Next

(* Sessions that make, write, rewrite and read sets by tags are, to their  *)
(* user, one store of items by key: tags never show, a declared item that  *)
(* was written is read as it was, and a whole write that fails loses what  *)
(* was there and nothing else.                                             *)
THEOREM StoreIsImplemented == Spec => ImplementsStore
  <1>1. Init => Store!Start
    BY StoreInit
  <1>2. IInv /\ [Next]_vars => [Store!StoreNext]_Store!storeVars
    BY StoreStep DEF Store!storeVars, mem, disk, diskKeys
  <1> QED BY <1>1, <1>2, Invariant, PTL DEF Spec, ImplementsStore, Store!StoreSpec
=============================================================================
