-------------------------- MODULE ActiveObjects_proofs --------------------------
(***************************************************************************)
(* Proofs about ActiveObjects, for any blocks, entities, ids and limits,   *)
(* if Map::timerUpdate unloads no block in which an active object has its  *)
(* copy.  What a step does to objects one after the other is said by       *)
(* lemmas about one object, and by induction over the ids.                 *)
(***************************************************************************)
EXTENDS ActiveObjects, FiniteSetTheorems, FunctionTheorems, NaturalsInduction,
        WellFoundedInduction, TLAPS

\* What an object, a copy, a block and the disk may be.
Bodies == [entity : Entities, at : Positions, save : BOOLEAN, block : Positions \cup {Absent},
           removal : BOOLEAN, deactivation : BOOLEAN, known : BOOLEAN]
Copies == [id : Ids, entity : Entities]
Held == [Entities -> Nat]
Levels == {Clean, WriteAtUnload, WriteNeeded}
Contents == [stored : Held, active : SUBSET Copies, old : BOOLEAN, modified : Levels, idle : Nat]
Disks == [Positions -> [held : Held, old : BOOLEAN]]
Fates == {"unmade", "there", "removed", "swept", "dropped", "revived"}
Worlds == [objs : [Ids -> Bodies \cup {Absent}], map : [Positions -> Contents \cup {Absent}],
           fate : [Entities -> Fates]]

\* Blocks are not unloaded under objects, and what is absent is nothing else.
EntityConstants ==
  /\ MaxId \in Nat /\ ~Parting
  /\ Absent \notin Positions /\ Absent \notin Bodies /\ Absent \notin Contents

-----------------------------------------------------------------------------
(***************************************************************************)
(* What is seen of an entity: which objects are it, which copies it has,   *)
(* how often a block stores it, and which of that counts.                  *)
(***************************************************************************)
Own(ob, i, e) == ob[i] # Absent /\ ob[i].entity = e
Copy(mp, b, i, e) == mp[b] # Absent /\ [id |-> i, entity |-> e] \in mp[b].active
Stores(mp, dk, b, e) == IF mp[b] = Absent THEN dk[b].held[e] ELSE mp[b].stored[e]
Old(mp, dk, b) == IF mp[b] = Absent THEN dk[b].old ELSE mp[b].old
Kept(mp, b) == mp[b] # Absent /\ mp[b].modified # WriteNeeded
Counts(ft, e, old) == ~(old /\ ft[e] \in {"removed", "swept"})
Has(mp, ft, dk, b, e) == Stores(mp, dk, b, e) # 0 /\ Counts(ft, e, Old(mp, dk, b))
DiskHas(ft, dk, b, e) == dk[b].held[e] # 0 /\ Counts(ft, e, dk[b].old)

-----------------------------------------------------------------------------
(***************************************************************************)
(* The inductive invariant.  It is said of any objects, map, fates and     *)
(* disk, so that it can be said of the worlds that the calls work on.      *)
(***************************************************************************)

\* The objects that are e: one at most, with a copy in the block where it says,
\* and nothing stored.
OneObject(e, ob, mp, dk) ==
  /\ \A i, j \in Ids : Own(ob, i, e) /\ Own(ob, j, e) => i = j
  /\ \A i \in Ids, b \in Positions :
       Copy(mp, b, i, e) <=> Own(ob, i, e) /\ ob[i].block = b
  /\ \A i \in Ids : Own(ob, i, e) =>
       /\ ob[i].removal /\ ob[i].deactivation => ob[i].block = Absent
       /\ \A b \in Positions : Stores(mp, dk, b, e) = 0

\* e is stored in one block, once.
StoredOnce(e, mp, ft, dk) ==
  \A b \in Positions : Has(mp, ft, dk, b, e) =>
    /\ Stores(mp, dk, b, e) = 1
    /\ \A c \in Positions : Has(mp, ft, dk, c, e) => c = b

\* An object that is its entity, not about to go.
Lives(o) == ~o.removal /\ (o.deactivation => o.block # Absent)

\* e is where its fate says.
AsFated(e, ob, mp, ft, dk) ==
  /\ ft[e] = "there" =>
       \/ \E b \in Positions : Has(mp, ft, dk, b, e)
       \/ \E i \in Ids : Own(ob, i, e) /\ Lives(ob[i])
  /\ ft[e] \in {"unmade", "removed", "swept"} =>
       \A b \in Positions : ~Has(mp, ft, dk, b, e)
  /\ ft[e] = "removed" => \A i \in Ids : Own(ob, i, e) =>
       ob[i].removal \/ (ob[i].deactivation /\ ob[i].block = Absent /\ ~ob[i].save)
  /\ ft[e] \in {"unmade", "swept"} => \A i \in Ids : ~Own(ob, i, e)

\* The disk has of e what a block has that need not be written, and once.
OnDiskToo(e, ob, mp, ft, dk) == \A b \in Positions : Kept(mp, b) =>
  /\ Has(mp, ft, dk, b, e) => DiskHas(ft, dk, b, e)
  /\ (\E i \in Ids : Copy(mp, b, i, e)) => dk[b].held[e] = 1
  /\ DiskHas(ft, dk, b, e) =>
       /\ ft[e] \in {"dropped", "revived"} \/ Has(mp, ft, dk, b, e)
            \/ \E i \in Ids : Copy(mp, b, i, e)
       /\ dk[b].held[e] = 1
       /\ \A c \in Positions : Has(mp, ft, dk, c, e) => c = b
       /\ \A c \in Positions : Kept(mp, c) /\ DiskHas(ft, dk, c, e) => c = b
  /\ dk[b].held[e] # 0 => \A i \in Ids : Own(ob, i, e) => ob[i].block = b

Fits(e, ob, mp, ft, dk) ==
  /\ OneObject(e, ob, mp, dk) /\ StoredOnce(e, mp, ft, dk)
  /\ AsFated(e, ob, mp, ft, dk) /\ OnDiskToo(e, ob, mp, ft, dk)

\* What is old in a block that need not be written is old on the disk.
OldToo(mp, dk) == \A b \in Positions : Kept(mp, b) /\ mp[b].old => dk[b].old

Consistent(w, dk) ==
  /\ w \in Worlds /\ OldToo(w.map, dk)
  /\ \A e \in Entities : Fits(e, w.objs, w.map, w.fate, dk)

-----------------------------------------------------------------------------
(***************************************************************************)
(* What of e does not differ in two worlds, but that blocks were loaded    *)
(* or marked to be written.                                                *)
(***************************************************************************)
SameObjects(e, ob, ob2) == \A i \in Ids :
  (Own(ob2, i, e) <=> Own(ob, i, e)) /\ (Own(ob, i, e) => ob2[i] = ob[i])
SameCopies(e, mp, mp2) == \A i \in Ids, b \in Positions : Copy(mp2, b, i, e) <=> Copy(mp, b, i, e)
SameStored(e, mp, mp2, dk) == \A b \in Positions : Stores(mp2, dk, b, e) = Stores(mp, dk, b, e)
SameAge(mp, mp2, dk) == \A b \in Positions : Old(mp2, dk, b) = Old(mp, dk, b)
LoadedOrMarked(mp, mp2, dk) ==
  /\ SameAge(mp, mp2, dk)
  /\ \A b \in Positions : /\ Kept(mp2, b) => Kept(mp, b) \/ mp[b] = Absent
                          /\ mp2[b] = Absent => mp[b] = Absent

\* Of an entity that a call does not concern nothing changes that the invariant says.
LEMMA Undisturbed ==
  ASSUME NEW e, NEW ob, NEW mp, NEW ft, NEW dk, NEW ob2, NEW mp2, NEW ft2,
         Fits(e, ob, mp, ft, dk), ft2[e] = ft[e],
         SameObjects(e, ob, ob2), SameCopies(e, mp, mp2), SameStored(e, mp, mp2, dk),
         LoadedOrMarked(mp, mp2, dk)
  PROVE  Fits(e, ob2, mp2, ft2, dk)
  <1>1. \A b \in Positions : Has(mp2, ft2, dk, b, e) <=> Has(mp, ft, dk, b, e)
    BY DEF Has, Counts, SameStored, SameAge, LoadedOrMarked
  <1>2. \A b \in Positions : DiskHas(ft2, dk, b, e) <=> DiskHas(ft, dk, b, e)
    BY DEF DiskHas, Counts
  <1>3. \A b \in Positions : mp[b] = Absent =>
          /\ ~Kept(mp, b) /\ \A i \in Ids : ~Copy(mp, b, i, e)
          /\ Stores(mp, dk, b, e) = dk[b].held[e]
          /\ Has(mp, ft, dk, b, e) <=> DiskHas(ft, dk, b, e)
    BY DEF Kept, Copy, Stores, Has, DiskHas, Old
  <1>4. OneObject(e, ob2, mp2, dk)
    BY DEF Fits, OneObject, SameObjects, SameCopies, SameStored
  <1>5. StoredOnce(e, mp2, ft2, dk)
    BY <1>1 DEF Fits, StoredOnce, SameStored
  <1>6. AsFated(e, ob2, mp2, ft2, dk)
    BY <1>1 DEF Fits, AsFated, SameObjects
  <1>7. OnDiskToo(e, ob2, mp2, ft2, dk)
    <2> SUFFICES ASSUME NEW b \in Positions, Kept(mp2, b)
                 PROVE  /\ Has(mp2, ft2, dk, b, e) => DiskHas(ft2, dk, b, e)
                        /\ (\E i \in Ids : Copy(mp2, b, i, e)) => dk[b].held[e] = 1
                        /\ DiskHas(ft2, dk, b, e) =>
                             /\ ft2[e] \in {"dropped", "revived"} \/ Has(mp2, ft2, dk, b, e)
                                  \/ \E i \in Ids : Copy(mp2, b, i, e)
                             /\ dk[b].held[e] = 1
                             /\ \A c \in Positions : Has(mp2, ft2, dk, c, e) => c = b
                             /\ \A c \in Positions : Kept(mp2, c) /\ DiskHas(ft2, dk, c, e) => c = b
                        /\ dk[b].held[e] # 0 => \A i \in Ids : Own(ob2, i, e) => ob2[i].block = b
      BY DEF OnDiskToo
    <2>1. \A c \in Positions : Kept(mp2, c) => Kept(mp, c) \/ mp[c] = Absent
      BY DEF LoadedOrMarked
    <2>2. CASE Kept(mp, b)
      BY <1>1, <1>2, <1>3, <2>1, <2>2 DEF Fits, OnDiskToo, SameObjects, SameCopies
    <2>3. CASE mp[b] = Absent
      BY <1>1, <1>2, <1>3, <2>1, <2>3
         DEF Fits, OnDiskToo, OneObject, StoredOnce, SameObjects, SameCopies
    <2> QED BY <2>1, <2>2, <2>3
  <1> QED BY <1>4, <1>5, <1>6, <1>7 DEF Fits

-----------------------------------------------------------------------------
(***************************************************************************)
(* What the calls on a block and on a world do.                            *)
(***************************************************************************)

\* A block that is loaded has what the map, or else the disk, has of it.
LEMMA LoadedBlock ==
  ASSUME EntityConstants, disk \in Disks, NEW m \in [Positions -> Contents \cup {Absent}],
         NEW b \in Positions
  PROVE  /\ Emerged(m, b) \in Contents
         /\ \A f \in Entities : Emerged(m, b).stored[f] = Stores(m, disk, b, f)
         /\ Emerged(m, b).old = Old(m, disk, b)
         /\ Emerged(m, b).modified # WriteNeeded <=> Kept(m, b) \/ m[b] = Absent
         /\ \A i \in Ids, f \in Entities :
              [id |-> i, entity |-> f] \in Emerged(m, b).active <=> Copy(m, b, i, f)
  <1>1. CASE m[b] # Absent
    BY <1>1 DEF Emerged, Stores, Old, Kept, Copy
  <1>2. CASE m[b] = Absent
    <2>1. disk[b] \in [held : Held, old : BOOLEAN]
      BY DEF Disks
    <2>2. Emerged(m, b) = [stored |-> disk[b].held, active |-> {}, old |-> disk[b].old,
                           modified |-> Clean, idle |-> 0]
      BY <1>2 DEF Emerged
    <2>3. Emerged(m, b) \in Contents
      BY <2>1, <2>2 DEF Contents, Levels
    <2> QED BY <1>2, <2>2, <2>3 DEF Stores, Old, Kept, Copy, Clean, WriteNeeded
  <1> QED BY <1>1, <1>2

\* raiseModified
LEMMA RaisedBlock ==
  ASSUME NEW k \in Contents, NEW level \in Levels
  PROVE  /\ Raised(k, level) \in Contents
         /\ Raised(k, level).stored = k.stored /\ Raised(k, level).old = k.old
         /\ Raised(k, level).active = k.active
         /\ Raised(k, level).modified # WriteNeeded <=>
              k.modified # WriteNeeded /\ level # WriteNeeded
  <1>1. Raised(k, level) = [k EXCEPT !.modified = IF level > k.modified THEN level ELSE k.modified]
    BY DEF Raised
  <1>2. k.modified \in Levels
    BY DEF Contents
  <1> QED BY <1>1, <1>2 DEF Contents, Levels, Clean, WriteAtUnload, WriteNeeded

\* StaticObjectList: a copy less, ...
LEMMA CopyLess ==
  ASSUME NEW k \in Contents, NEW id \in Ids
  PROVE  /\ WithoutCopy(k, id) \in Contents
         /\ WithoutCopy(k, id).stored = k.stored /\ WithoutCopy(k, id).old = k.old
         /\ WithoutCopy(k, id).modified = k.modified
         /\ \A i \in Ids, f \in Entities : [id |-> i, entity |-> f] \in WithoutCopy(k, id).active
              <=> [id |-> i, entity |-> f] \in k.active /\ i # id
  <1>1. WithoutCopy(k, id) = [k EXCEPT !.active = {x \in k.active : x.id # id}]
    BY DEF WithoutCopy
  <1>2. {x \in k.active : x.id # id} \in SUBSET Copies
    BY DEF Contents
  <1> QED BY <1>1, <1>2 DEF Contents

\* ... a copy more, ...
LEMMA CopyMore ==
  ASSUME NEW k \in Contents, NEW id \in Ids, NEW e \in Entities
  PROVE  /\ WithCopy(k, id, e) \in Contents
         /\ WithCopy(k, id, e).stored = k.stored /\ WithCopy(k, id, e).old = k.old
         /\ WithCopy(k, id, e).modified = k.modified
         /\ \A i \in Ids, f \in Entities : [id |-> i, entity |-> f] \in WithCopy(k, id, e).active
              <=> [id |-> i, entity |-> f] \in k.active \/ (i = id /\ f = e)
  <1>1. WithCopy(k, id, e) = [k EXCEPT !.active = k.active \cup {[id |-> id, entity |-> e]}]
    BY DEF WithCopy
  <1>2. k.active \cup {[id |-> id, entity |-> e]} \in SUBSET Copies
    BY DEF Contents, Copies
  <1> QED BY <1>1, <1>2 DEF Contents

\* ... and one more that is stored.
LEMMA StoredMore ==
  ASSUME NEW k \in Contents, NEW e \in Entities
  PROVE  /\ WithStored(k, e) \in Contents
         /\ WithStored(k, e).active = k.active /\ WithStored(k, e).old = k.old
         /\ WithStored(k, e).modified = k.modified
         /\ \A f \in Entities :
              WithStored(k, e).stored[f] = IF f = e THEN k.stored[f] + 1 ELSE k.stored[f]
  <1>1. WithStored(k, e) = [k EXCEPT !.stored = [k.stored EXCEPT ![e] = k.stored[e] + 1]]
    BY DEF WithStored
  <1>2. k.stored \in [Entities -> Nat]
    BY DEF Contents, Held
  <1>3. [k.stored EXCEPT ![e] = k.stored[e] + 1] \in Held
    BY <1>2 DEF Held
  <1> QED BY <1>1, <1>2, <1>3 DEF Contents

\* A world in which b is the block k.
Replaced(w, v, b, k, dk) ==
  /\ v \in Worlds /\ v.objs = w.objs /\ v.fate = w.fate
  /\ v.map[b] = k /\ v.map[b] # Absent
  /\ \A c \in Positions : c # b => v.map[c] = w.map[c]
  /\ \A c \in Positions, f \in Entities :
       Stores(v.map, dk, c, f) = IF c = b THEN k.stored[f] ELSE Stores(w.map, dk, c, f)
  /\ \A c \in Positions :
       /\ Old(v.map, dk, c) = IF c = b THEN k.old ELSE Old(w.map, dk, c)
       /\ Kept(v.map, c) <=> IF c = b THEN k.modified # WriteNeeded ELSE Kept(w.map, c)
  /\ \A c \in Positions, i \in Ids, f \in Entities :
       Copy(v.map, c, i, f) <=> IF c = b THEN [id |-> i, entity |-> f] \in k.active
                                ELSE Copy(w.map, c, i, f)

\* What is seen of the entities when a block is replaced by another.
LEMMA BlockReplaced ==
  ASSUME EntityConstants, NEW dk, NEW w \in Worlds, NEW b \in Positions, NEW k \in Contents
  PROVE  Replaced(w, WithBlock(w, b, k), b, k, dk)
  <1> DEFINE v == WithBlock(w, b, k)
  <1>1. v = [objs |-> w.objs, map |-> [w.map EXCEPT ![b] = k], fate |-> w.fate]
    BY DEF WithBlock
  <1>2. w.map \in [Positions -> Contents \cup {Absent}]
    BY DEF Worlds
  <1>3. [w.map EXCEPT ![b] = k] \in [Positions -> Contents \cup {Absent}]
    BY <1>2
  <1>4. v \in Worlds /\ v.objs = w.objs /\ v.fate = w.fate /\ v.map = [w.map EXCEPT ![b] = k]
    BY <1>1, <1>3 DEF Worlds
  <1> HIDE DEF v
  <1>5. v.map[b] = k /\ v.map[b] # Absent /\ \A c \in Positions : c # b => v.map[c] = w.map[c]
    BY <1>2, <1>4 DEF EntityConstants
  <1>6. \A c \in Positions, f \in Entities :
          Stores(v.map, dk, c, f) = IF c = b THEN k.stored[f] ELSE Stores(w.map, dk, c, f)
    BY <1>5 DEF Stores
  <1>7. \A c \in Positions :
          /\ Old(v.map, dk, c) = IF c = b THEN k.old ELSE Old(w.map, dk, c)
          /\ Kept(v.map, c) <=> IF c = b THEN k.modified # WriteNeeded ELSE Kept(w.map, c)
    BY <1>5 DEF Old, Kept
  <1>8. \A c \in Positions, i \in Ids, f \in Entities :
          Copy(v.map, c, i, f) <=> IF c = b THEN [id |-> i, entity |-> f] \in k.active
                                   ELSE Copy(w.map, c, i, f)
    BY <1>5 DEF Copy
  <1>9. Replaced(w, v, b, k, dk)
    BY <1>4, <1>5, <1>6, <1>7, <1>8 DEF Replaced
  <1> QED BY <1>9 DEF v

\* A world in which id is the object o.
LEMMA ObjectReplaced ==
  ASSUME NEW w \in Worlds, NEW id \in Ids, NEW o \in Bodies \cup {Absent}
  PROVE  LET v == WithObject(w, id, o)
         IN /\ v \in Worlds /\ v.map = w.map /\ v.fate = w.fate
            /\ v.objs[id] = o /\ \A i \in Ids : i # id => v.objs[i] = w.objs[i]
  <1> DEFINE v == WithObject(w, id, o)
  <1>1. v = [objs |-> [w.objs EXCEPT ![id] = o], map |-> w.map, fate |-> w.fate]
    BY DEF WithObject
  <1>2. w.objs \in [Ids -> Bodies \cup {Absent}]
    BY DEF Worlds
  <1>3. [w.objs EXCEPT ![id] = o] \in [Ids -> Bodies \cup {Absent}]
    BY <1>2
  <1>4. v \in Worlds /\ v.map = w.map /\ v.fate = w.fate /\ v.objs = [w.objs EXCEPT ![id] = o]
    BY <1>1, <1>3 DEF Worlds
  <1> HIDE DEF v
  <1>5. v.objs[id] = o /\ \A i \in Ids : i # id => v.objs[i] = w.objs[i]
    BY <1>2, <1>4
  <1> QED BY <1>4, <1>5 DEF v

\* An object with another block.
LEMMA BodyElsewhere ==
  ASSUME NEW o \in Bodies, NEW b \in Positions \cup {Absent}
  PROVE  LET p == [o EXCEPT !.block = b]
         IN /\ p \in Bodies /\ p.block = b /\ p.entity = o.entity /\ p.at = o.at
            /\ p.save = o.save /\ p.removal = o.removal /\ p.deactivation = o.deactivation
            /\ p.known = o.known
  BY DEF Bodies

\* Blocks are at most loaded, but for the block b, which is so and marked as level says.
Marked(mp, mp2, b, level) == \A c \in Positions :
  /\ mp2[c] = Absent => mp[c] = Absent
  /\ Kept(mp2, c) <=> IF c = b THEN (Kept(mp, c) \/ mp[c] = Absent) /\ level # WriteNeeded
                      ELSE Kept(mp, c)

\* Object id has lost its copy, or got one or was stored where it is.
Took(w, v, id, level, dk) ==
  LET o == w.objs[id] IN
  /\ v \in Worlds /\ v.fate = w.fate
  /\ v.objs[id] = [o EXCEPT !.block = Absent]
  /\ \A i \in Ids : i # id => v.objs[i] = w.objs[i]
  /\ \A f \in Entities : SameStored(f, w.map, v.map, dk)
  /\ SameAge(w.map, v.map, dk) /\ Marked(w.map, v.map, o.block, level)
  /\ \A c \in Positions, i \in Ids, f \in Entities :
       Copy(v.map, c, i, f) <=> Copy(w.map, c, i, f) /\ ~(i = id /\ c = o.block)

Put(w, v, id, asActive, level, dk) ==
  LET o == w.objs[id] IN
  /\ v \in Worlds /\ v.fate = w.fate
  /\ v.objs[id] = [o EXCEPT !.block = o.at]
  /\ \A i \in Ids : i # id => v.objs[i] = w.objs[i]
  /\ \A c \in Positions, f \in Entities : Stores(v.map, dk, c, f) =
       IF ~asActive /\ c = o.at /\ f = o.entity THEN Stores(w.map, dk, c, f) + 1
       ELSE Stores(w.map, dk, c, f)
  /\ SameAge(w.map, v.map, dk) /\ Marked(w.map, v.map, o.at, level)
  /\ \A c \in Positions, i \in Ids, f \in Entities : Copy(v.map, c, i, f) <=>
       Copy(w.map, c, i, f) \/ (asActive /\ i = id /\ c = o.at /\ f = o.entity)

\* Block b has been loaded.
WasLoaded(w, v, b, dk) ==
  /\ v \in Worlds /\ v.fate = w.fate /\ v.objs = w.objs
  /\ \A f \in Entities : SameStored(f, w.map, v.map, dk) /\ SameCopies(f, w.map, v.map)
  /\ SameAge(w.map, v.map, dk) /\ Marked(w.map, v.map, b, Clean)

\* Loading a block (emergeBlock) shows what the disk has, and changes nothing else.
LEMMA LoadingLoads ==
  ASSUME EntityConstants, disk \in Disks, NEW w \in Worlds, NEW b \in Positions
  PROVE  WasLoaded(w, WithBlock(w, b, Emerged(w.map, b)), b, disk)
  <1> DEFINE k == Emerged(w.map, b)
             v == WithBlock(w, b, k)
  <1>1. w.map \in [Positions -> Contents \cup {Absent}]
    BY DEF Worlds
  <1>2. /\ k \in Contents /\ k.old = Old(w.map, disk, b)
        /\ \A f \in Entities : k.stored[f] = Stores(w.map, disk, b, f)
        /\ k.modified # WriteNeeded <=> Kept(w.map, b) \/ w.map[b] = Absent
        /\ \A i \in Ids, f \in Entities : [id |-> i, entity |-> f] \in k.active <=> Copy(w.map, b, i, f)
    BY <1>1, LoadedBlock
  <1> HIDE DEF k
  <1>3. Replaced(w, v, b, k, disk)
    BY <1>2, BlockReplaced
  <1> HIDE DEF v
  <1>4. \A f \in Entities : SameStored(f, w.map, v.map, disk) /\ SameCopies(f, w.map, v.map)
    BY <1>2, <1>3 DEF Replaced, SameStored, SameCopies
  <1>5. SameAge(w.map, v.map, disk) /\ Marked(w.map, v.map, b, Clean)
    BY <1>2, <1>3 DEF Replaced, SameAge, Marked, Clean, WriteNeeded
  <1>6. WasLoaded(w, v, b, disk)
    BY <1>3, <1>4, <1>5 DEF Replaced, WasLoaded
  <1> QED BY <1>6 DEF v, k

\* deleteStaticFromBlock takes the copy of its object, and marks the block.
LEMMA TakingTakes ==
  ASSUME EntityConstants, disk \in Disks, NEW w \in Worlds, NEW id \in Ids,
         NEW level \in Levels, w.objs[id] # Absent
  PROVE  Took(w, WithoutStatic(w, id, level), id, level, disk)
  <1> DEFINE o == w.objs[id]
             m == Emerged(w.map, o.block)
             r == Raised(m, level)
             k == WithoutCopy(r, id)
             p == [o EXCEPT !.block = Absent]
             u == WithObject(w, id, p)
             v == WithBlock(u, o.block, k)
  <1>1. /\ w.map \in [Positions -> Contents \cup {Absent}] /\ o \in Bodies
        /\ w.objs \in [Ids -> Bodies \cup {Absent}]
    BY DEF Worlds
  <1>2. o.block \in Positions \cup {Absent} /\ p \in Bodies
    BY <1>1, BodyElsewhere DEF Bodies
  <1>3. CASE o.block = Absent
    <2>1. WithoutStatic(w, id, level) = w
      BY <1>3 DEF WithoutStatic
    <2>2. p = o
      BY <1>1, <1>3 DEF Bodies
    <2>3. \A c \in Positions : c # o.block
      BY <1>3 DEF EntityConstants
    <2> QED BY <2>1, <2>2, <2>3 DEF Took, SameStored, SameAge, Marked
  <1>4. CASE o.block \in Positions
    <2>1. WithoutStatic(w, id, level) = v
      BY <1>4 DEF WithoutStatic, EntityConstants
    <2>2. /\ m \in Contents /\ m.old = Old(w.map, disk, o.block)
          /\ \A f \in Entities : m.stored[f] = Stores(w.map, disk, o.block, f)
          /\ m.modified # WriteNeeded <=> Kept(w.map, o.block) \/ w.map[o.block] = Absent
          /\ \A i \in Ids, f \in Entities :
               [id |-> i, entity |-> f] \in m.active <=> Copy(w.map, o.block, i, f)
      BY <1>1, <1>4, LoadedBlock
    <2> HIDE DEF m
    <2>3. /\ r \in Contents /\ r.stored = m.stored /\ r.old = m.old /\ r.active = m.active
          /\ r.modified # WriteNeeded <=> m.modified # WriteNeeded /\ level # WriteNeeded
      BY <2>2, RaisedBlock
    <2> HIDE DEF r
    <2>4. /\ k \in Contents /\ k.stored = r.stored /\ k.old = r.old /\ k.modified = r.modified
          /\ \A i \in Ids, f \in Entities : [id |-> i, entity |-> f] \in k.active
               <=> [id |-> i, entity |-> f] \in r.active /\ i # id
      BY <2>3, CopyLess
    <2> HIDE DEF k, p
    <2>5. /\ u \in Worlds /\ u.map = w.map /\ u.fate = w.fate
          /\ u.objs[id] = p /\ \A i \in Ids : i # id => u.objs[i] = w.objs[i]
      BY <1>2, ObjectReplaced
    <2> HIDE DEF u
    <2>6. Replaced(u, v, o.block, k, disk)
      BY <1>4, <2>4, <2>5, BlockReplaced
    <2> HIDE DEF v, o
    <2>7. /\ \A f \in Entities : SameStored(f, w.map, v.map, disk)
          /\ SameAge(w.map, v.map, disk) /\ Marked(w.map, v.map, o.block, level)
      BY <2>2, <2>3, <2>4, <2>5, <2>6 DEF Replaced, SameStored, SameAge, Marked
    <2>8. \A c \in Positions, i \in Ids, f \in Entities :
            Copy(v.map, c, i, f) <=> Copy(w.map, c, i, f) /\ ~(i = id /\ c = o.block)
      <3> TAKE c \in Positions, i \in Ids, f \in Entities
      <3>1. CASE c = o.block
        <4>1. Copy(v.map, c, i, f) <=> [id |-> i, entity |-> f] \in k.active
          BY <2>6, <3>1 DEF Replaced
        <4>2. [id |-> i, entity |-> f] \in m.active <=> Copy(w.map, c, i, f)
          BY <2>2, <3>1
        <4> QED BY <2>3, <2>4, <3>1, <4>1, <4>2
      <3>2. CASE c # o.block
        BY <2>5, <2>6, <3>2 DEF Replaced
      <3> QED BY <3>1, <3>2
    <2>9. Took(w, v, id, level, disk)
      BY <2>5, <2>6, <2>7, <2>8 DEF Replaced, Took, p, o
    <2> QED BY <2>1, <2>9
  <1> QED BY <1>2, <1>3, <1>4

\* saveStaticToBlock adds a copy under the id of the object, or one that is stored.
LEMMA PuttingPuts ==
  ASSUME EntityConstants, disk \in Disks, NEW w \in Worlds, NEW id \in Ids,
         NEW asActive \in BOOLEAN, NEW level \in Levels, w.objs[id] # Absent
  PROVE  Put(w, WithStatic(w, id, asActive, level), id, asActive, level, disk)
  <1> DEFINE o == w.objs[id]
             m == Emerged(w.map, o.at)
             r == Raised(m, level)
             k == IF asActive THEN WithCopy(r, id, o.entity) ELSE WithStored(r, o.entity)
             p == [o EXCEPT !.block = o.at]
             u == WithObject(w, id, p)
             v == WithBlock(u, o.at, k)
  <1>1. /\ w.map \in [Positions -> Contents \cup {Absent}] /\ o \in Bodies
        /\ w.objs \in [Ids -> Bodies \cup {Absent}]
    BY DEF Worlds
  <1>2. o.at \in Positions /\ o.entity \in Entities
    BY <1>1 DEF Bodies
  <1>3. p \in Bodies
    BY <1>1, <1>2, BodyElsewhere
  <1>4. WithStatic(w, id, asActive, level) = v
    BY DEF WithStatic
  <1>5. /\ m \in Contents /\ m.old = Old(w.map, disk, o.at)
        /\ \A f \in Entities : m.stored[f] = Stores(w.map, disk, o.at, f)
        /\ m.modified # WriteNeeded <=> Kept(w.map, o.at) \/ w.map[o.at] = Absent
        /\ \A i \in Ids, f \in Entities :
             [id |-> i, entity |-> f] \in m.active <=> Copy(w.map, o.at, i, f)
    BY <1>1, <1>2, LoadedBlock
  <1> HIDE DEF m
  <1>6. /\ r \in Contents /\ r.stored = m.stored /\ r.old = m.old /\ r.active = m.active
        /\ r.modified # WriteNeeded <=> m.modified # WriteNeeded /\ level # WriteNeeded
    BY <1>5, RaisedBlock
  <1> HIDE DEF r
  <1>7. /\ k \in Contents /\ k.old = r.old /\ k.modified = r.modified
        /\ \A f \in Entities : k.stored[f] =
             IF ~asActive /\ f = o.entity THEN r.stored[f] + 1 ELSE r.stored[f]
        /\ \A i \in Ids, f \in Entities : [id |-> i, entity |-> f] \in k.active
             <=> [id |-> i, entity |-> f] \in r.active \/ (asActive /\ i = id /\ f = o.entity)
    <2>1. CASE asActive
      BY <1>2, <1>6, <2>1, CopyMore
    <2>2. CASE ~asActive
      BY <1>2, <1>6, <2>2, StoredMore
    <2> QED BY <2>1, <2>2
  <1> HIDE DEF k, p
  <1>8. /\ u \in Worlds /\ u.map = w.map /\ u.fate = w.fate
        /\ u.objs[id] = p /\ \A i \in Ids : i # id => u.objs[i] = w.objs[i]
    BY <1>3, ObjectReplaced
  <1> HIDE DEF u
  <1>9. Replaced(u, v, o.at, k, disk)
    BY <1>2, <1>7, <1>8, BlockReplaced
  <1> HIDE DEF v, o
  <1>10. SameAge(w.map, v.map, disk) /\ Marked(w.map, v.map, o.at, level)
    BY <1>5, <1>6, <1>7, <1>8, <1>9 DEF Replaced, SameAge, Marked
  <1>11. \A c \in Positions, f \in Entities : Stores(v.map, disk, c, f) =
           IF ~asActive /\ c = o.at /\ f = o.entity THEN Stores(w.map, disk, c, f) + 1
           ELSE Stores(w.map, disk, c, f)
    BY <1>5, <1>6, <1>7, <1>8, <1>9 DEF Replaced
  <1>12. \A c \in Positions, i \in Ids, f \in Entities : Copy(v.map, c, i, f) <=>
           Copy(w.map, c, i, f) \/ (asActive /\ i = id /\ c = o.at /\ f = o.entity)
    BY <1>5, <1>6, <1>7, <1>8, <1>9 DEF Replaced
  <1>13. Put(w, v, id, asActive, level, disk)
    BY <1>8, <1>9, <1>10, <1>11, <1>12 DEF Replaced, Put, p, o
  <1> QED BY <1>4, <1>13

-----------------------------------------------------------------------------
(***************************************************************************)
(* The calls disturb no other entity than the one they are about.          *)
(***************************************************************************)
AllBut(e, w, dk) ==
  /\ w \in Worlds /\ OldToo(w.map, dk)
  /\ \A f \in Entities \ {e} : Fits(f, w.objs, w.map, w.fate, dk)

\* What need not be written is as old on the disk as before.
LEMMA OldStays ==
  ASSUME NEW mp, NEW mp2, NEW dk, OldToo(mp, dk), LoadedOrMarked(mp, mp2, dk)
  PROVE  OldToo(mp2, dk)
  BY DEF OldToo, SameAge, LoadedOrMarked, Kept, Old

\* Raising what is to be written of one block never lowers it.
LEMMA MarkedIsLoadedOrMarked ==
  ASSUME NEW mp, NEW mp2, NEW dk, NEW b, NEW level, Marked(mp, mp2, b, level),
         SameAge(mp, mp2, dk)
  PROVE  LoadedOrMarked(mp, mp2, dk)
  BY DEF Marked, LoadedOrMarked

\* Taking the copy of an object leaves all other entities alone.
LEMMA OthersWhenTaken ==
  ASSUME NEW dk, NEW w, NEW v, NEW id \in Ids, NEW level, w.objs[id] # Absent,
         AllBut(w.objs[id].entity, w, dk), Took(w, v, id, level, dk)
  PROVE  AllBut(w.objs[id].entity, v, dk) /\ v.objs[id].entity = w.objs[id].entity
  <1> DEFINE o == w.objs[id]
  <1>1. o \in Bodies
    BY DEF AllBut, Worlds
  <1>2. v.objs[id].entity = o.entity
    BY <1>1, BodyElsewhere DEF Took
  <1>3. LoadedOrMarked(w.map, v.map, dk)
    BY MarkedIsLoadedOrMarked DEF Took
  <1>4. OldToo(v.map, dk)
    BY <1>3, OldStays DEF AllBut
  <1> HIDE DEF o
  <1>5. ASSUME NEW f \in Entities \ {o.entity}
        PROVE  Fits(f, v.objs, v.map, v.fate, dk)
    <2>1. Fits(f, w.objs, w.map, w.fate, dk)
      BY <1>5 DEF AllBut, o
    <2>2. SameObjects(f, w.objs, v.objs)
      BY <1>2, <1>5 DEF SameObjects, Own, Took, o
    <2>3. ~Own(w.objs, id, f)
      BY <1>5 DEF Own, o
    <2>4. \A c \in Positions : ~Copy(w.map, c, id, f)
      BY <2>1, <2>3 DEF Fits, OneObject
    <2>5. SameCopies(f, w.map, v.map)
      BY <1>5, <2>4 DEF SameCopies, Took
    <2>6. SameStored(f, w.map, v.map, dk) /\ v.fate[f] = w.fate[f]
      BY <1>5 DEF Took
    <2> QED BY <1>3, <2>1, <2>2, <2>5, <2>6, Undisturbed
  <1> QED BY <1>2, <1>4, <1>5 DEF AllBut, Took, o

\* So does adding one,
LEMMA OthersWhenPut ==
  ASSUME NEW dk, NEW w, NEW v, NEW id \in Ids, NEW asActive, NEW level, w.objs[id] # Absent,
         AllBut(w.objs[id].entity, w, dk), Put(w, v, id, asActive, level, dk)
  PROVE  AllBut(w.objs[id].entity, v, dk) /\ v.objs[id].entity = w.objs[id].entity
  <1> DEFINE o == w.objs[id]
  <1>1. o \in Bodies /\ o.at \in Positions
    BY DEF AllBut, Worlds, Bodies
  <1>2. v.objs[id].entity = o.entity
    BY <1>1, BodyElsewhere DEF Put
  <1>3. LoadedOrMarked(w.map, v.map, dk)
    BY MarkedIsLoadedOrMarked DEF Put
  <1>4. OldToo(v.map, dk)
    BY <1>3, OldStays DEF AllBut
  <1> HIDE DEF o
  <1>5. ASSUME NEW f \in Entities \ {o.entity}
        PROVE  Fits(f, v.objs, v.map, v.fate, dk)
    <2>1. Fits(f, w.objs, w.map, w.fate, dk)
      BY <1>5 DEF AllBut, o
    <2>2. SameObjects(f, w.objs, v.objs)
      BY <1>2, <1>5 DEF SameObjects, Own, Put, o
    <2>3. SameCopies(f, w.map, v.map)
      BY <1>5 DEF SameCopies, Put, o
    <2>4. SameStored(f, w.map, v.map, dk) /\ v.fate[f] = w.fate[f]
      BY <1>5 DEF SameStored, Put, o
    <2> QED BY <1>3, <2>1, <2>2, <2>3, <2>4, Undisturbed
  <1> QED BY <1>2, <1>4, <1>5 DEF AllBut, Put, o

\* and loading a block.
LEMMA OthersWhenLoaded ==
  ASSUME NEW dk, NEW e, NEW w, NEW v, NEW b, AllBut(e, w, dk), WasLoaded(w, v, b, dk)
  PROVE  AllBut(e, v, dk)
  <1>1. LoadedOrMarked(w.map, v.map, dk)
    BY MarkedIsLoadedOrMarked DEF WasLoaded
  <1>2. OldToo(v.map, dk)
    BY <1>1, OldStays DEF AllBut
  <1>3. ASSUME NEW f \in Entities \ {e}
        PROVE  Fits(f, v.objs, v.map, v.fate, dk)
    <2>1. Fits(f, w.objs, w.map, w.fate, dk)
      BY <1>3 DEF AllBut
    <2>2. SameObjects(f, w.objs, v.objs)
      BY DEF SameObjects, WasLoaded
    <2>3. SameCopies(f, w.map, v.map) /\ SameStored(f, w.map, v.map, dk)
      BY <1>3 DEF WasLoaded
    <2>4. v.fate[f] = w.fate[f]
      BY DEF WasLoaded
    <2> QED BY <1>1, <2>1, <2>2, <2>3, <2>4, Undisturbed
  <1> QED BY <1>2, <1>3 DEF AllBut, WasLoaded

\* The object itself is changed or goes, and its entity may meet its fate.
LEMMA OthersWhenChanged ==
  ASSUME NEW dk, NEW w, NEW v, NEW id \in Ids, NEW e, AllBut(e, w, dk), v \in Worlds,
         w.objs[id] # Absent => w.objs[id].entity = e,
         v.objs[id] # Absent => v.objs[id].entity = e,
         \A i \in Ids : i # id => v.objs[i] = w.objs[i],
         v.map = w.map, \A f \in Entities : f # e => v.fate[f] = w.fate[f]
  PROVE  AllBut(e, v, dk)
  <1>1. ASSUME NEW f \in Entities \ {e}
        PROVE  Fits(f, v.objs, v.map, v.fate, dk)
    <2>1. Fits(f, w.objs, w.map, w.fate, dk)
      BY <1>1 DEF AllBut
    <2>2. SameObjects(f, w.objs, v.objs)
      BY <1>1 DEF SameObjects, Own
    <2>3. /\ SameCopies(f, w.map, v.map) /\ SameStored(f, w.map, v.map, dk)
          /\ LoadedOrMarked(w.map, v.map, dk)
      BY DEF SameCopies, SameStored, SameAge, LoadedOrMarked
    <2> QED BY <1>1, <2>1, <2>2, <2>3, Undisturbed
  <1> QED BY <1>1 DEF AllBut

\* One entity and all the others are all entities.
LEMMA AllOfThem ==
  ASSUME NEW dk, NEW e, NEW w, AllBut(e, w, dk), Fits(e, w.objs, w.map, w.fate, dk)
  PROVE  Consistent(w, dk)
  BY DEF AllBut, Consistent

-----------------------------------------------------------------------------
(***************************************************************************)
(* What the entity of the call comes to: it has been one object, and is    *)
(* one with a copy, one without, none, or it is stored.                    *)
(***************************************************************************)
\* Object id, whose block was b, was all there was of e.
WasObject(e, id, b, ob, mp, ft, dk) ==
  /\ Own(ob, id, e) /\ ob[id].block = b /\ Fits(e, ob, mp, ft, dk)

\* In the end there is no other object, and copies of id in the blocks bs.
BecameObject(e, id, bs, ob2, mp2) ==
  /\ \A i \in Ids : i # id => ~Own(ob2, i, e)
  /\ \A c \in Positions, i \in Ids : Copy(mp2, c, i, e) <=> i = id /\ c \in bs

\* Then the rest of what is seen of e is this.
OnlyObject(e, id, b, ob, mp, ft, dk) ==
  /\ \A i \in Ids : Own(ob, i, e) <=> i = id
  /\ \A c \in Positions, i \in Ids : Copy(mp, c, i, e) <=> i = id /\ c = b
  /\ \A c \in Positions : Stores(mp, dk, c, e) = 0
  /\ \A c \in Positions : mp[c] = Absent => dk[c].held[e] = 0
  /\ \A c \in Positions : Kept(mp, c) => (dk[c].held[e] # 0 => c = b)
  /\ \A c \in Positions : Kept(mp, c) /\ c = b => dk[c].held[e] = 1
  /\ b \in Positions => mp[b] # Absent
  /\ ft[e] \notin {"unmade", "swept"}
  /\ ft[e] = "there" => Lives(ob[id])

\* What the invariant says of an entity that has an object.
LEMMA WhatTheObjectWas ==
  ASSUME NEW e, NEW id \in Ids, NEW b, NEW ob, NEW mp, NEW ft, NEW dk,
         WasObject(e, id, b, ob, mp, ft, dk)
  PROVE  OnlyObject(e, id, b, ob, mp, ft, dk)
  <1>1. \A i \in Ids : Own(ob, i, e) <=> i = id
    BY DEF WasObject, Fits, OneObject
  <1>2. \A c \in Positions, i \in Ids : Copy(mp, c, i, e) <=> i = id /\ c = b
    BY <1>1 DEF WasObject, Fits, OneObject
  <1>3. \A c \in Positions : Stores(mp, dk, c, e) = 0 /\ ~Has(mp, ft, dk, c, e)
    BY DEF WasObject, Fits, OneObject, Has
  <1>4. \A c \in Positions : mp[c] = Absent => dk[c].held[e] = 0
    BY <1>3 DEF Stores
  <1>5. \A c \in Positions : Kept(mp, c) => (dk[c].held[e] # 0 => c = b)
    BY DEF WasObject, Fits, OnDiskToo
  <1>6. \A c \in Positions : Kept(mp, c) /\ c = b => dk[c].held[e] = 1
    BY <1>2 DEF WasObject, Fits, OnDiskToo
  <1>7. ft[e] \notin {"unmade", "swept"} /\ (ft[e] = "there" => Lives(ob[id]))
    BY <1>1, <1>3 DEF WasObject, Fits, AsFated
  <1>8. b \in Positions => mp[b] # Absent
    BY <1>2 DEF Copy
  <1> QED BY <1>1, <1>2, <1>3, <1>4, <1>5, <1>6, <1>7, <1>8 DEF OnlyObject

\* It still does when the object has its copy in another block that is to be written,
LEMMA IsObjectWithCopy ==
  ASSUME NEW e, NEW id \in Ids, NEW b, NEW ob, NEW mp, NEW ft, NEW dk, NEW ob2, NEW mp2, NEW ft2,
         NEW p \in Positions, WasObject(e, id, b, ob, mp, ft, dk),
         BecameObject(e, id, {p}, ob2, mp2), Own(ob2, id, e), ob2[id].block = p,
         ~ob2[id].removal, ft2[e] = ft[e], ft[e] # "removed", Absent \notin Positions,
         SameStored(e, mp, mp2, dk), LoadedOrMarked(mp, mp2, dk),
         p # b => ~Kept(mp2, p) /\ (b \in Positions => ~Kept(mp2, b))
  PROVE  Fits(e, ob2, mp2, ft2, dk)
  <1>0. OnlyObject(e, id, b, ob, mp, ft, dk)
    BY WhatTheObjectWas
  <1>1. /\ \A c \in Positions : Stores(mp2, dk, c, e) = 0 /\ ~Has(mp2, ft2, dk, c, e)
        /\ ft2[e] \notin {"unmade", "swept", "removed"}
    BY <1>0 DEF OnlyObject, SameStored, Has
  <1>2. OneObject(e, ob2, mp2, dk)
    BY <1>1 DEF OneObject, BecameObject
  <1>3. StoredOnce(e, mp2, ft2, dk)
    BY <1>1 DEF StoredOnce
  <1>4. AsFated(e, ob2, mp2, ft2, dk)
    BY <1>1 DEF AsFated, Lives
  <1>5. \A c \in Positions : Kept(mp2, c) =>
          /\ dk[c].held[e] # 0 => c = p
          /\ c = p => dk[c].held[e] = 1
    BY <1>0 DEF OnlyObject, LoadedOrMarked
  <1>6. OnDiskToo(e, ob2, mp2, ft2, dk)
    BY <1>1, <1>5 DEF OnDiskToo, BecameObject, DiskHas
  <1> QED BY <1>2, <1>3, <1>4, <1>6 DEF Fits

\* when it has no copy any more,
LEMMA IsObjectWithout ==
  ASSUME NEW e, NEW id \in Ids, NEW b, NEW ob, NEW mp, NEW ft, NEW dk, NEW ob2, NEW mp2, NEW ft2,
         WasObject(e, id, b, ob, mp, ft, dk), Absent \notin Positions,
         BecameObject(e, id, {}, ob2, mp2), Own(ob2, id, e), ob2[id].block = Absent,
         ft2[e] \notin {"unmade", "swept"}, ft2[e] = "there" => Lives(ob2[id]),
         ft2[e] = "removed" => ob2[id].removal \/ (ob2[id].deactivation /\ ~ob2[id].save),
         SameStored(e, mp, mp2, dk), LoadedOrMarked(mp, mp2, dk),
         b \in Positions => ~Kept(mp2, b)
  PROVE  Fits(e, ob2, mp2, ft2, dk)
  <1>0. OnlyObject(e, id, b, ob, mp, ft, dk)
    BY WhatTheObjectWas
  <1>1. \A c \in Positions : Stores(mp2, dk, c, e) = 0 /\ ~Has(mp2, ft2, dk, c, e)
    BY <1>0 DEF OnlyObject, SameStored, Has
  <1>2. OneObject(e, ob2, mp2, dk)
    BY <1>1 DEF OneObject, BecameObject
  <1>3. StoredOnce(e, mp2, ft2, dk)
    BY <1>1 DEF StoredOnce
  <1>4. AsFated(e, ob2, mp2, ft2, dk)
    BY <1>1 DEF AsFated, BecameObject
  <1>5. \A c \in Positions : Kept(mp2, c) => dk[c].held[e] = 0
    BY <1>0 DEF OnlyObject, LoadedOrMarked
  <1>6. OnDiskToo(e, ob2, mp2, ft2, dk)
    BY <1>1, <1>5 DEF OnDiskToo, BecameObject, DiskHas
  <1> QED BY <1>2, <1>3, <1>4, <1>6 DEF Fits

\* when the object is gone and what it was is not there,
LEMMA IsGone ==
  ASSUME NEW e, NEW id \in Ids, NEW b, NEW ob, NEW mp, NEW ft, NEW dk, NEW ob2, NEW mp2, NEW ft2,
         WasObject(e, id, b, ob, mp, ft, dk),
         BecameObject(e, id, {}, ob2, mp2), ~Own(ob2, id, e), ft2[e] # "there",
         SameStored(e, mp, mp2, dk), LoadedOrMarked(mp, mp2, dk),
         b \in Positions /\ Kept(mp2, b) => ft2[e] \in {"dropped", "revived"}
  PROVE  Fits(e, ob2, mp2, ft2, dk)
  <1>0. OnlyObject(e, id, b, ob, mp, ft, dk)
    BY WhatTheObjectWas
  <1>1. \A c \in Positions : Stores(mp2, dk, c, e) = 0 /\ ~Has(mp2, ft2, dk, c, e)
    BY <1>0 DEF OnlyObject, SameStored, Has
  <1>2. OneObject(e, ob2, mp2, dk)
    BY <1>1 DEF OneObject, BecameObject
  <1>3. StoredOnce(e, mp2, ft2, dk)
    BY <1>1 DEF StoredOnce
  <1>4. AsFated(e, ob2, mp2, ft2, dk)
    BY <1>1 DEF AsFated, BecameObject
  <1>5. \A c \in Positions : Kept(mp2, c) =>
          /\ dk[c].held[e] # 0 => c = b
          /\ c = b => dk[c].held[e] = 1 /\ ft2[e] \in {"dropped", "revived"}
    BY <1>0 DEF OnlyObject, LoadedOrMarked
  <1>6. OnDiskToo(e, ob2, mp2, ft2, dk)
    BY <1>1, <1>5 DEF OnDiskToo, BecameObject, DiskHas
  <1> QED BY <1>2, <1>3, <1>4, <1>6 DEF Fits

\* Nothing of e is stored but one in p.
StoredIn(e, p, mp, dk) ==
  \A c \in Positions : Stores(mp, dk, c, e) = IF c = p THEN 1 ELSE 0

\* and when the object is gone and what it was is stored.
LEMMA IsStored ==
  ASSUME NEW e, NEW id \in Ids, NEW b, NEW ob, NEW mp, NEW ft, NEW dk, NEW ob2, NEW mp2, NEW ft2,
         NEW p \in Positions, WasObject(e, id, b, ob, mp, ft, dk),
         BecameObject(e, id, {}, ob2, mp2), ~Own(ob2, id, e),
         ft2[e] = ft[e], ft[e] # "removed",
         StoredIn(e, p, mp2, dk),
         LoadedOrMarked(mp, mp2, dk),
         p # b => ~Kept(mp2, p) /\ (b \in Positions => ~Kept(mp2, b))
  PROVE  Fits(e, ob2, mp2, ft2, dk)
  <1>0. OnlyObject(e, id, b, ob, mp, ft, dk)
    BY WhatTheObjectWas
  <1>1. /\ \A c \in Positions : Stores(mp2, dk, c, e) = IF c = p THEN 1 ELSE 0
        /\ ft2[e] \notin {"unmade", "swept", "removed"}
    BY <1>0 DEF OnlyObject, StoredIn
  <1>2. \A c \in Positions : Has(mp2, ft2, dk, c, e) <=> c = p
    BY <1>1 DEF Has, Counts
  <1>3. OneObject(e, ob2, mp2, dk)
    BY DEF OneObject, BecameObject
  <1>4. StoredOnce(e, mp2, ft2, dk)
    BY <1>1, <1>2 DEF StoredOnce
  <1>5. AsFated(e, ob2, mp2, ft2, dk)
    BY <1>1, <1>2 DEF AsFated, BecameObject
  <1>6. \A c \in Positions : Kept(mp2, c) =>
          /\ dk[c].held[e] # 0 => c = p
          /\ c = p => dk[c].held[e] = 1
    BY <1>0 DEF OnlyObject, LoadedOrMarked
  <1>7. \A c \in Positions : DiskHas(ft2, dk, c, e) <=> dk[c].held[e] # 0
    BY <1>1 DEF DiskHas, Counts
  <1>8. OnDiskToo(e, ob2, mp2, ft2, dk)
    BY <1>2, <1>6, <1>7 DEF OnDiskToo, BecameObject
  <1> QED BY <1>3, <1>4, <1>5, <1>8 DEF Fits

-----------------------------------------------------------------------------
(***************************************************************************)
(* What deleteStaticFromBlock and then saveStaticToBlock come to.          *)
(***************************************************************************)
Rehomed(w, s, id, asActive, level, dk) ==
  LET o == w.objs[id] IN
  /\ AllBut(o.entity, s, dk) /\ s.fate = w.fate
  /\ s.objs[id] = [o EXCEPT !.block = o.at]
  /\ \A i \in Ids : i # id => s.objs[i] = w.objs[i]
  /\ BecameObject(o.entity, id, IF asActive THEN {o.at} ELSE {}, s.objs, s.map)
  /\ \A c \in Positions :
       Stores(s.map, dk, c, o.entity) = IF ~asActive /\ c = o.at THEN 1 ELSE 0
  /\ LoadedOrMarked(w.map, s.map, dk)
  /\ level = WriteNeeded =>
       ~Kept(s.map, o.at) /\ (o.block \in Positions => ~Kept(s.map, o.block))

Unhomed(w, s, id, level, dk) ==
  LET o == w.objs[id] IN
  /\ AllBut(o.entity, s, dk) /\ s.fate = w.fate
  /\ s.objs[id] = [o EXCEPT !.block = Absent]
  /\ \A i \in Ids : i # id => s.objs[i] = w.objs[i]
  /\ BecameObject(o.entity, id, {}, s.objs, s.map)
  /\ SameStored(o.entity, w.map, s.map, dk)
  /\ LoadedOrMarked(w.map, s.map, dk)
  /\ level = WriteNeeded => (o.block \in Positions => ~Kept(s.map, o.block))

\* The object is all there is of its entity.
LEMMA ItsObject ==
  ASSUME NEW dk, NEW w, NEW id \in Ids, Consistent(w, dk), w.objs[id] # Absent
  PROVE  /\ WasObject(w.objs[id].entity, id, w.objs[id].block, w.objs, w.map, w.fate, dk)
         /\ AllBut(w.objs[id].entity, w, dk)
         /\ w.objs[id] \in Bodies
  BY DEF Consistent, WasObject, AllBut, Own, Worlds, Bodies

\* After deleteStaticFromBlock an entity is only its object,
LEMMA TakenIsUnhomed ==
  ASSUME NEW dk, NEW w, NEW v, NEW id \in Ids, NEW level, Consistent(w, dk), w.objs[id] # Absent,
         Absent \notin Positions, Took(w, v, id, level, dk)
  PROVE  Unhomed(w, v, id, level, dk)
  <1> DEFINE o == w.objs[id]
             e == o.entity
  <1>1. /\ WasObject(e, id, o.block, w.objs, w.map, w.fate, dk)
        /\ AllBut(e, w, dk) /\ o \in Bodies /\ e \in Entities
    BY ItsObject DEF Bodies
  <1>2. OnlyObject(e, id, o.block, w.objs, w.map, w.fate, dk)
    BY <1>1, WhatTheObjectWas
  <1>3. AllBut(e, v, dk)
    BY <1>1, OthersWhenTaken
  <1>4. BecameObject(e, id, {}, v.objs, v.map)
    BY <1>1, <1>2 DEF BecameObject, Own, Took, OnlyObject
  <1>5. LoadedOrMarked(w.map, v.map, dk) /\ SameStored(e, w.map, v.map, dk)
    BY <1>1, MarkedIsLoadedOrMarked DEF Took
  <1>6. level = WriteNeeded => (o.block \in Positions => ~Kept(v.map, o.block))
    BY DEF Took, Marked
  <1> QED BY <1>3, <1>4, <1>5, <1>6 DEF Unhomed, Took

\* also when a block is loaded then,
LEMMA LoadedIsUnhomed ==
  ASSUME NEW dk, NEW w, NEW v, NEW u, NEW id \in Ids, NEW level, NEW b, Consistent(w, dk),
         w.objs[id] # Absent, Absent \notin Positions, Took(w, v, id, level, dk),
         WasLoaded(v, u, b, dk)
  PROVE  Unhomed(w, u, id, level, dk)
  <1> DEFINE o == w.objs[id]
             e == o.entity
  <1>1. /\ WasObject(e, id, o.block, w.objs, w.map, w.fate, dk)
        /\ o \in Bodies /\ e \in Entities
    BY ItsObject DEF Bodies
  <1>2. OnlyObject(e, id, o.block, w.objs, w.map, w.fate, dk)
    BY <1>1, WhatTheObjectWas
  <1>3. Unhomed(w, v, id, level, dk)
    BY TakenIsUnhomed
  <1>4. AllBut(e, u, dk)
    BY <1>3, OthersWhenLoaded DEF Unhomed
  <1>5. u.fate = w.fate /\ u.objs = v.objs
    BY <1>3 DEF Unhomed, WasLoaded
  <1>6. BecameObject(e, id, {}, u.objs, u.map)
    BY <1>1, <1>3, <1>5 DEF Unhomed, BecameObject, WasLoaded, SameCopies
  <1>7. SameStored(e, w.map, u.map, dk)
    BY <1>1, <1>3 DEF Unhomed, SameStored, WasLoaded
  <1>8. \A c \in Positions : Kept(u.map, c) => Kept(v.map, c) \/ v.map[c] = Absent
    BY DEF WasLoaded, Marked
  <1>9. \A c \in Positions : v.map[c] = Absent => w.map[c] = Absent
    BY DEF Took, Marked
  <1>10. LoadedOrMarked(w.map, u.map, dk)
    BY <1>3, <1>8, <1>9 DEF Unhomed, LoadedOrMarked, WasLoaded, Marked, SameAge
  <1>11. level = WriteNeeded => (o.block \in Positions => ~Kept(u.map, o.block))
    BY <1>2, <1>3, <1>8, <1>9 DEF Unhomed, OnlyObject
  <1> QED BY <1>3, <1>4, <1>5, <1>6, <1>7, <1>10, <1>11 DEF Unhomed

\* and after saveStaticToBlock it has its one copy where the object stands.
LEMMA PutIsRehomed ==
  ASSUME NEW dk, NEW w, NEW v, NEW s, NEW id \in Ids, NEW level, NEW asActive \in BOOLEAN,
         Consistent(w, dk), w.objs[id] # Absent, Absent \notin Positions, Absent \notin Bodies,
         Took(w, v, id, level, dk), Put(v, s, id, asActive, level, dk)
  PROVE  Rehomed(w, s, id, asActive, level, dk)
  <1> DEFINE o == w.objs[id]
             e == o.entity
  <1>1. /\ WasObject(e, id, o.block, w.objs, w.map, w.fate, dk)
        /\ o \in Bodies /\ e \in Entities /\ o.at \in Positions
    BY ItsObject DEF Bodies
  <1>2. OnlyObject(e, id, o.block, w.objs, w.map, w.fate, dk)
    BY <1>1, WhatTheObjectWas
  <1>3. Unhomed(w, v, id, level, dk)
    BY TakenIsUnhomed
  <1>4. v.objs[id] \in Bodies /\ v.objs[id].at = o.at /\ v.objs[id].entity = e
    BY <1>1, <1>3, BodyElsewhere DEF Unhomed
  <1>5. v.objs[id] # Absent
    BY <1>4
  <1>6. AllBut(e, s, dk)
    BY <1>3, <1>4, <1>5, OthersWhenPut DEF Unhomed
  <1>7. s.objs[id] = [o EXCEPT !.block = o.at]
    <2>1. s.objs[id] = [v.objs[id] EXCEPT !.block = o.at]
      BY <1>4 DEF Put
    <2>2. v.objs[id] = [o EXCEPT !.block = Absent]
      BY <1>3 DEF Unhomed
    <2> QED BY <1>1, <2>1, <2>2 DEF Bodies
  <1>8. s.fate = w.fate /\ \A i \in Ids : i # id => s.objs[i] = w.objs[i]
    BY <1>3 DEF Unhomed, Put
  <1>9. BecameObject(e, id, IF asActive THEN {o.at} ELSE {}, s.objs, s.map)
    <2>1. \A i \in Ids : i # id => ~Own(s.objs, i, e)
      BY <1>2, <1>8 DEF Own, OnlyObject
    <2>2. \A c \in Positions, i \in Ids : ~Copy(v.map, c, i, e)
      BY <1>3 DEF Unhomed, BecameObject
    <2>3. \A c \in Positions, i \in Ids : Copy(s.map, c, i, e) <=> asActive /\ i = id /\ c = o.at
      BY <1>1, <1>4, <2>2 DEF Put
    <2> HIDE DEF o, e
    <2> QED BY <2>1, <2>3 DEF BecameObject
  <1>10. \A c \in Positions : Stores(s.map, dk, c, e) = IF ~asActive /\ c = o.at THEN 1 ELSE 0
    <2>1. \A c \in Positions : Stores(v.map, dk, c, e) = 0
      BY <1>2, <1>3 DEF Unhomed, SameStored, OnlyObject
    <2> QED BY <1>1, <1>4, <2>1 DEF Put
  <1>11. \A c \in Positions : v.map[c] = Absent => w.map[c] = Absent
    BY DEF Took, Marked
  <1>12. \A c \in Positions : Kept(s.map, c) => Kept(v.map, c) \/ v.map[c] = Absent
    BY DEF Put, Marked
  <1>13. LoadedOrMarked(w.map, s.map, dk)
    BY <1>3, <1>11, <1>12 DEF Unhomed, LoadedOrMarked, Put, Marked, SameAge
  <1>14. level = WriteNeeded => ~Kept(s.map, o.at)
    BY <1>1, <1>4 DEF Put, Marked
  <1>15. level = WriteNeeded => (o.block \in Positions => ~Kept(s.map, o.block))
    BY <1>2, <1>3, <1>11, <1>12 DEF Unhomed, OnlyObject
  <1> QED BY <1>6, <1>7, <1>8, <1>9, <1>10, <1>13, <1>14, <1>15 DEF Rehomed

-----------------------------------------------------------------------------
(***************************************************************************)
(* What the intervals of ServerEnvironment::step do to one object.         *)
(***************************************************************************)

\* Only object id and the fate of its entity differ, and blocks were loaded or marked.
OnlyThis(w, x, id) ==
  /\ LoadedOrMarked(w.map, x.map, disk)
  /\ \A i \in Ids : i # id => x.objs[i] = w.objs[i]
  /\ x.objs[id] # Absent => x.objs[id].entity = w.objs[id].entity
  /\ \A f \in Entities : x.fate[f] = w.fate[f] \/
       (w.fate[f] = "there" /\ x.fate[f] \in {"dropped", "removed"})

\* Only an entity that is there meets its fate.
LEMMA MeetingFate ==
  ASSUME NEW w \in Worlds, NEW e \in Entities, NEW end \in Fates
  PROVE  /\ Met(w, e, end) \in Worlds
         /\ Met(w, e, end).objs = w.objs /\ Met(w, e, end).map = w.map
         /\ \A f \in Entities : f # e => Met(w, e, end).fate[f] = w.fate[f]
         /\ Met(w, e, end).fate[e] = IF w.fate[e] = "there" THEN end ELSE w.fate[e]
  <1> DEFINE g == Meet(w.fate, {e}, end)
  <1>1. w.fate \in [Entities -> Fates]
    BY DEF Worlds
  <1>2. g = [f \in Entities |-> IF f = e /\ w.fate[f] = "there" THEN end ELSE w.fate[f]]
    BY DEF Meet
  <1>3. g \in [Entities -> Fates]
    BY <1>1, <1>2
  <1>4. Met(w, e, end) = [objs |-> w.objs, map |-> w.map, fate |-> g]
    BY DEF Met
  <1>5. \A f \in Entities : g[f] = IF f = e /\ w.fate[f] = "there" THEN end ELSE w.fate[f]
    BY <1>2
  <1> HIDE DEF g
  <1> QED BY <1>3, <1>4, <1>5 DEF Worlds

\* The object has been dealt with in s; x puts o there, or nothing.
LEMMA OthersAtTheEnd ==
  ASSUME NEW dk, NEW s, NEW id \in Ids, NEW e, AllBut(e, s, dk), NEW o \in Bodies \cup {Absent},
         s.objs[id] # Absent => s.objs[id].entity = e, o # Absent => o.entity = e
  PROVE  AllBut(e, WithObject(s, id, o), dk)
  <1> DEFINE x == WithObject(s, id, o)
  <1>1. s \in Worlds
    BY DEF AllBut
  <1>2. /\ x \in Worlds /\ x.map = s.map /\ x.fate = s.fate
        /\ x.objs[id] = o /\ \A i \in Ids : i # id => x.objs[i] = s.objs[i]
    BY <1>1, ObjectReplaced
  <1> HIDE DEF x
  <1>3. AllBut(e, x, dk)
    BY <1>2, OthersWhenChanged
  <1> QED BY <1>3 DEF x

\* The others do not.
LEMMA OthersAtItsFate ==
  ASSUME NEW dk, NEW s, NEW id \in Ids, NEW e \in Entities, AllBut(e, s, dk), NEW end \in Fates,
         s.objs[id] # Absent => s.objs[id].entity = e
  PROVE  AllBut(e, Met(s, e, end), dk)
  <1> DEFINE x == Met(s, e, end)
  <1>1. s \in Worlds
    BY DEF AllBut
  <1>2. /\ x \in Worlds /\ x.objs = s.objs /\ x.map = s.map
        /\ \A f \in Entities : f # e => x.fate[f] = s.fate[f]
    BY <1>1, MeetingFate
  <1> HIDE DEF x
  <1>3. x.objs[id] # Absent => x.objs[id].entity = e
    BY <1>2
  <1>4. \A i \in Ids : i # id => x.objs[i] = s.objs[i]
    BY <1>2
  <1>5. \A f \in Entities : f # e => x.fate[f] = s.fate[f]
    BY <1>2
  <1>6. AllBut(e, x, dk)
    <2>1. ASSUME NEW f \in Entities \ {e}
          PROVE  Fits(f, x.objs, x.map, x.fate, dk)
      <3>1. Fits(f, s.objs, s.map, s.fate, dk)
        BY <2>1 DEF AllBut
      <3>2. /\ SameObjects(f, s.objs, x.objs) /\ SameCopies(f, s.map, x.map)
            /\ SameStored(f, s.map, x.map, dk)
            /\ LoadedOrMarked(s.map, x.map, dk)
        BY <1>2 DEF SameObjects, SameCopies, SameStored, SameAge, LoadedOrMarked
      <3> QED BY <1>5, <2>1, <3>1, <3>2, Undisturbed
    <2> QED BY <1>2, <2>1 DEF AllBut
  <1> QED BY <1>6 DEF x

\* Moving the static copy of an object to the block where it now is.
LEMMA ResaveKeeps ==
  ASSUME EntityConstants, disk \in Disks, NEW w, Consistent(w, disk), NEW id \in Ids,
         w.objs[id] # Absent, ~Gone(w.objs[id])
  PROVE  Consistent(Resave(w, id), disk) /\ OnlyThis(w, Resave(w, id), id)
  <1> DEFINE o == w.objs[id]
             e == o.entity
             v == WithoutStatic(w, id, WriteNeeded)
             s == WithStatic(v, id, TRUE, WriteNeeded)
             u == NoRoomAt(v, o.at)
  <1>1. /\ WasObject(e, id, o.block, w.objs, w.map, w.fate, disk)
        /\ o \in Bodies /\ e \in Entities /\ o.at \in Positions /\ w \in Worlds
        /\ Absent \notin Positions /\ Absent \notin Bodies /\ WriteNeeded \in Levels
    BY ItsObject DEF Bodies, Consistent, EntityConstants, Levels
  <1>2. Took(w, v, id, WriteNeeded, disk)
    BY <1>1, TakingTakes
  <1>3. w.fate[e] \notin {"removed", "unmade", "swept"} /\ ~o.removal /\ ~o.deactivation
    <2>1. ~o.removal /\ ~o.deactivation
      BY DEF Gone
    <2>2. OnlyObject(e, id, o.block, w.objs, w.map, w.fate, disk)
      BY <1>1, WhatTheObjectWas
    <2>3. w.fate[e] # "removed"
      BY <1>1, <2>1 DEF WasObject, Fits, AsFated
    <2> QED BY <2>1, <2>2, <2>3 DEF OnlyObject
  <1>4. CASE HasRoom(v.map, o.at)
    <2>1. Resave(w, id) = s
      BY <1>4 DEF Resave
    <2>2. v \in Worlds /\ v.objs[id] # Absent
      <3>1. v \in Worlds /\ v.objs[id] = [o EXCEPT !.block = Absent]
        BY <1>2 DEF Took
      <3>2. v.objs[id] \in Bodies
        BY <1>1, <3>1, BodyElsewhere
      <3> QED BY <1>1, <3>1, <3>2
    <2> HIDE DEF v
    <2>3. Put(v, s, id, TRUE, WriteNeeded, disk)
      BY <1>1, <2>2, PuttingPuts
    <2> HIDE DEF s
    <2>4. Rehomed(w, s, id, TRUE, WriteNeeded, disk)
      BY <1>1, <1>2, <2>3, PutIsRehomed
    <2>5. /\ s.objs[id] \in Bodies /\ s.objs[id].block = o.at /\ s.objs[id].entity = e
          /\ ~s.objs[id].removal
      BY <1>1, <1>3, <2>4, BodyElsewhere DEF Rehomed
    <2>6. Own(s.objs, id, e)
      BY <1>1, <2>5 DEF Own
    <2> HIDE DEF o, e
    <2>7. /\ AllBut(e, s, disk) /\ s.fate[e] = w.fate[e]
          /\ BecameObject(e, id, {o.at}, s.objs, s.map) /\ LoadedOrMarked(w.map, s.map, disk)
          /\ ~Kept(s.map, o.at) /\ (o.block \in Positions => ~Kept(s.map, o.block))
      BY <2>4 DEF Rehomed, e, o
    <2>8. SameStored(e, w.map, s.map, disk)
      <3>1. \A c \in Positions : Stores(s.map, disk, c, e) = 0
        BY <2>4 DEF Rehomed, e, o
      <3>2. OnlyObject(e, id, o.block, w.objs, w.map, w.fate, disk)
        BY <1>1, WhatTheObjectWas
      <3> QED BY <3>1, <3>2 DEF OnlyObject, SameStored
    <2>9. Fits(e, s.objs, s.map, s.fate, disk)
      BY <1>1, <1>3, <2>5, <2>6, <2>7, <2>8, IsObjectWithCopy
    <2>10. Consistent(s, disk)
      BY <2>7, <2>9, AllOfThem
    <2>11. OnlyThis(w, s, id)
      BY <2>4, <2>5 DEF OnlyThis, Rehomed, e, o
    <2> QED BY <2>1, <2>10, <2>11
  <1>5. CASE ~HasRoom(v.map, o.at)
    <2>1. Resave(w, id) = u
      BY <1>5 DEF Resave
    <2>2. v \in Worlds
      BY <1>2 DEF Took
    <2> HIDE DEF v
    <2>3. WasLoaded(v, u, o.at, disk)
      BY <1>1, <2>2, LoadingLoads DEF NoRoomAt
    <2> HIDE DEF u
    <2>4. Unhomed(w, u, id, WriteNeeded, disk)
      BY <1>1, <1>2, <2>3, LoadedIsUnhomed
    <2>5. /\ u.objs[id] \in Bodies /\ u.objs[id].block = Absent /\ u.objs[id].entity = e
          /\ ~u.objs[id].removal /\ ~u.objs[id].deactivation
      BY <1>1, <1>3, <2>4, BodyElsewhere DEF Unhomed
    <2>6. Own(u.objs, id, e) /\ Lives(u.objs[id])
      BY <1>1, <2>5 DEF Own, Lives
    <2> HIDE DEF o, e
    <2>7. /\ AllBut(e, u, disk) /\ u.fate[e] = w.fate[e] /\ SameStored(e, w.map, u.map, disk)
          /\ BecameObject(e, id, {}, u.objs, u.map) /\ LoadedOrMarked(w.map, u.map, disk)
          /\ (o.block \in Positions => ~Kept(u.map, o.block))
      BY <2>4 DEF Unhomed, e, o
    <2>8. Fits(e, u.objs, u.map, u.fate, disk)
      BY <1>1, <1>3, <2>5, <2>6, <2>7, IsObjectWithout
    <2>9. Consistent(u, disk)
      BY <2>7, <2>8, AllOfThem
    <2>10. OnlyThis(w, u, id)
      BY <2>4, <2>5 DEF OnlyThis, Unhomed, e, o
    <2> QED BY <2>1, <2>9, <2>10
  <1> QED BY <1>4, <1>5

\* Of an object that was removed there is nothing that would be stored.
LEMMA MakeStaticKeeps ==
  ASSUME EntityConstants, disk \in Disks, NEW w, Consistent(w, disk), NEW id \in Ids,
         w.objs[id] # Absent, NEW force \in BOOLEAN, NEW changed \in BOOLEAN,
         w.fate[w.objs[id].entity] = "removed" => ~w.objs[id].save,
         force \/ ~Gone(w.objs[id])
  PROVE  /\ Consistent(MakeStatic(w, id, force, changed), disk)
         /\ OnlyThis(w, MakeStatic(w, id, force, changed), id)
         /\ force => MakeStatic(w, id, force, changed).objs[id] = Absent
  <1> DEFINE o == w.objs[id]
             e == o.entity
             pending == o.known /\ ~force
             inPlace == o.save /\ o.block = o.at /\ HasCopy(Emerged(w.map, o.at), id)
             level == IF inPlace /\ ~changed THEN Clean ELSE WriteNeeded
             v == WithoutStatic(w, id, level)
             kept == o.save /\ HasRoom(v.map, o.at)
             s == WithStatic(v, id, pending, level)
             end == IF o.save THEN "dropped" ELSE "removed"
             u == IF o.save THEN NoRoomAt(v, o.at) ELSE v
             t == Met(u, e, end)
             x == MakeStatic(w, id, force, changed)
             fine == /\ Consistent(x, disk) /\ OnlyThis(w, x, id)
                     /\ force => x.objs[id] = Absent
  <1>1. /\ WasObject(e, id, o.block, w.objs, w.map, w.fate, disk)
        /\ o \in Bodies /\ e \in Entities /\ o.at \in Positions /\ w \in Worlds
        /\ Absent \notin Positions /\ Absent \notin Bodies /\ level \in Levels
        /\ o.save \in BOOLEAN /\ o.known \in BOOLEAN /\ pending \in BOOLEAN
    BY ItsObject DEF Bodies, Consistent, EntityConstants, Levels
  <1>2. OnlyObject(e, id, o.block, w.objs, w.map, w.fate, disk)
    BY <1>1, WhatTheObjectWas
  <1>3. /\ w.fate[e] \in Fates \ {"unmade", "swept"}
        /\ w.fate[e] = "there" => Lives(o)
        /\ w.fate[e] = "removed" => ~o.save
    BY <1>1, <1>2 DEF OnlyObject, Worlds
  <1>4. pending => ~o.removal /\ ~o.deactivation
    BY DEF Gone
  <1>5. Took(w, v, id, level, disk)
    BY <1>1, TakingTakes
  <1>6. level # WriteNeeded => o.save /\ o.block = o.at
    OBVIOUS
  <1>7. v \in Worlds /\ v.objs[id] # Absent
    <2>1. v \in Worlds /\ v.objs[id] = [o EXCEPT !.block = Absent]
      BY <1>5 DEF Took
    <2>2. v.objs[id] \in Bodies
      BY <1>1, <2>1, BodyElsewhere
    <2> QED BY <1>1, <2>1, <2>2
  <1>8. /\ kept /\ pending => x = WithObject(s, id, [s.objs[id] EXCEPT !.deactivation = TRUE])
        /\ kept /\ ~pending => x = WithObject(s, id, Absent)
        /\ ~kept /\ pending /\ ~o.save =>
             x = WithObject(t, id, [t.objs[id] EXCEPT !.deactivation = TRUE])
        /\ ~kept /\ (~pending \/ o.save) => x = WithObject(t, id, Absent)
    BY DEF MakeStatic
  <1> HIDE DEF level, v, x
  <1>9. CASE kept
    <2>1. Put(v, s, id, pending, level, disk)
      BY <1>1, <1>7, PuttingPuts
    <2> HIDE DEF s
    <2>2. Rehomed(w, s, id, pending, level, disk)
      BY <1>1, <1>5, <2>1, PutIsRehomed
    <2>3. /\ s.objs[id] \in Bodies /\ s.objs[id].block = o.at /\ s.objs[id].entity = e
          /\ s.objs[id].removal = o.removal /\ s.objs[id].save = o.save
      BY <1>1, <2>2, BodyElsewhere DEF Rehomed
    <2>4. o.save
      BY <1>9
    <2> HIDE DEF pending, kept
    <2>5. /\ AllBut(e, s, disk) /\ s.fate = w.fate /\ LoadedOrMarked(w.map, s.map, disk)
          /\ \A i \in Ids : i # id => s.objs[i] = w.objs[i]
          /\ BecameObject(e, id, IF pending THEN {o.at} ELSE {}, s.objs, s.map)
          /\ \A c \in Positions :
               Stores(s.map, disk, c, e) = IF ~pending /\ c = o.at THEN 1 ELSE 0
          /\ o.at # o.block =>
               ~Kept(s.map, o.at) /\ (o.block \in Positions => ~Kept(s.map, o.block))
      BY <1>6, <2>2 DEF Rehomed
    <2>6. s \in Worlds
      BY <2>5 DEF AllBut
    <2>7. CASE pending
      <3> DEFINE p == [s.objs[id] EXCEPT !.deactivation = TRUE]
      <3>1. /\ p \in Bodies /\ p.entity = e /\ p.block = o.at /\ ~p.removal
        BY <1>4, <2>3, <2>7 DEF Bodies
      <3>2. x = WithObject(s, id, p)
        BY <1>8, <1>9, <2>7
      <3> HIDE DEF p
      <3>3. AllBut(e, x, disk)
        BY <1>1, <2>3, <2>5, <3>1, <3>2, OthersAtTheEnd
      <3>4. /\ x \in Worlds /\ x.map = s.map /\ x.fate = s.fate
            /\ x.objs[id] = p /\ \A i \in Ids : i # id => x.objs[i] = s.objs[i]
        BY <2>6, <3>1, <3>2, ObjectReplaced
      <3>5. Own(x.objs, id, e) /\ x.objs[id].block = o.at /\ ~x.objs[id].removal
        BY <1>1, <3>1, <3>4 DEF Own
      <3> HIDE DEF o, e
      <3>6. BecameObject(e, id, {o.at}, x.objs, x.map)
        BY <2>5, <2>7, <3>4 DEF BecameObject, Own
      <3>7. SameStored(e, w.map, x.map, disk)
        BY <1>2, <2>5, <2>7, <3>4 DEF SameStored, OnlyObject
      <3>8. LoadedOrMarked(w.map, x.map, disk) /\ x.fate[e] = w.fate[e] /\ w.fate[e] # "removed"
        BY <1>3, <2>4, <2>5, <3>4
      <3>9. o.at # o.block =>
              ~Kept(x.map, o.at) /\ (o.block \in Positions => ~Kept(x.map, o.block))
        BY <2>5, <3>4
      <3>10. Fits(e, x.objs, x.map, x.fate, disk)
        BY <1>1, <3>5, <3>6, <3>7, <3>8, <3>9, IsObjectWithCopy
      <3>11. Consistent(x, disk)
        BY <3>3, <3>10, AllOfThem
      <3>12. OnlyThis(w, x, id)
        BY <2>5, <3>1, <3>4 DEF OnlyThis, e, o
      <3> QED BY <2>7, <3>11, <3>12 DEF pending, x
    <2>8. CASE ~pending
      <3>1. x = WithObject(s, id, Absent)
        BY <1>8, <1>9, <2>8
      <3>2. AllBut(e, x, disk)
        BY <1>1, <2>3, <2>5, <3>1, OthersAtTheEnd
      <3>3. /\ x \in Worlds /\ x.map = s.map /\ x.fate = s.fate
            /\ x.objs[id] = Absent /\ \A i \in Ids : i # id => x.objs[i] = s.objs[i]
        BY <2>6, <3>1, ObjectReplaced
      <3>4. ~Own(x.objs, id, e)
        BY <3>3 DEF Own
      <3> HIDE DEF o, e
      <3>5. BecameObject(e, id, {}, x.objs, x.map)
        BY <2>5, <2>8, <3>3 DEF BecameObject, Own
      <3>6. StoredIn(e, o.at, x.map, disk)
        BY <2>5, <2>8, <3>3 DEF StoredIn
      <3>7. LoadedOrMarked(w.map, x.map, disk) /\ x.fate[e] = w.fate[e] /\ w.fate[e] # "removed"
        BY <1>3, <2>4, <2>5, <3>3
      <3>8. o.at # o.block =>
              ~Kept(x.map, o.at) /\ (o.block \in Positions => ~Kept(x.map, o.block))
        BY <2>5, <3>3
      <3>9. Fits(e, x.objs, x.map, x.fate, disk)
        BY <1>1, <3>4, <3>5, <3>6, <3>7, <3>8, IsStored
      <3>10. Consistent(x, disk)
        BY <3>2, <3>9, AllOfThem
      <3>11. OnlyThis(w, x, id)
        BY <2>5, <3>3 DEF OnlyThis, e, o
      <3> QED BY <3>3, <3>10, <3>11 DEF x
    <2> QED BY <2>7, <2>8
  <1>10. CASE ~kept
    <2>1. Unhomed(w, u, id, level, disk)
      <3>1. CASE o.save
        <4>1. u = WithBlock(v, o.at, Emerged(v.map, o.at))
          BY <3>1 DEF NoRoomAt
        <4>2. WasLoaded(v, u, o.at, disk)
          BY <1>1, <1>7, <4>1, LoadingLoads
        <4> HIDE DEF u
        <4> QED BY <1>1, <1>5, <4>2, LoadedIsUnhomed
      <3>2. CASE ~o.save
        <4>1. u = v
          BY <3>2
        <4> QED BY <1>1, <1>5, <4>1, TakenIsUnhomed
      <3> QED BY <3>1, <3>2
    <2>2. end \in Fates /\ end # "there"
      BY DEF Fates
    <2> HIDE DEF u
    <2>3. /\ AllBut(e, u, disk) /\ u.fate = w.fate /\ LoadedOrMarked(w.map, u.map, disk)
          /\ u.objs[id] = [o EXCEPT !.block = Absent]
          /\ \A i \in Ids : i # id => u.objs[i] = w.objs[i]
          /\ BecameObject(e, id, {}, u.objs, u.map) /\ SameStored(e, w.map, u.map, disk)
          /\ level = WriteNeeded => (o.block \in Positions => ~Kept(u.map, o.block))
      BY <2>1 DEF Unhomed
    <2>4. /\ u.objs[id] \in Bodies /\ u.objs[id].block = Absent /\ u.objs[id].entity = e
          /\ u.objs[id].removal = o.removal /\ u.objs[id].save = o.save /\ u \in Worlds
      BY <1>1, <2>3, BodyElsewhere DEF AllBut
    <2>5. AllBut(e, t, disk)
      <3> HIDE DEF e, end
      <3> QED BY <1>1, <2>2, <2>3, <2>4, OthersAtItsFate DEF e
    <2>6. /\ t \in Worlds /\ t.objs = u.objs /\ t.map = u.map
          /\ \A f \in Entities : f # e => t.fate[f] = u.fate[f]
          /\ t.fate[e] = IF u.fate[e] = "there" THEN end ELSE u.fate[e]
      <3> HIDE DEF e, end
      <3> QED BY <1>1, <2>2, <2>4, MeetingFate
    <2>7. \A f \in Entities : t.fate[f] = w.fate[f] \/
            (w.fate[f] = "there" /\ t.fate[f] \in {"dropped", "removed"})
      BY <2>3, <2>6
    <2>8. t.fate[e] \in {"removed", "dropped", "revived"}
      BY <1>3, <2>3, <2>6 DEF Fates
    <2>9. o.save => t.fate[e] \in {"dropped", "revived"}
      BY <1>3, <2>3, <2>6, <2>8
    <2> HIDE DEF t, end
    <2>10. CASE pending /\ ~o.save
      <3> DEFINE p == [t.objs[id] EXCEPT !.deactivation = TRUE]
      <3>1. /\ p \in Bodies /\ p.entity = e /\ p.block = Absent /\ p.deactivation /\ ~p.save
        BY <2>4, <2>6, <2>10 DEF Bodies
      <3>2. x = WithObject(t, id, p)
        BY <1>8, <1>10, <2>10
      <3> HIDE DEF p
      <3>3. AllBut(e, x, disk)
        BY <2>4, <2>5, <2>6, <3>1, <3>2, OthersAtTheEnd
      <3>4. /\ x \in Worlds /\ x.map = t.map /\ x.fate = t.fate
            /\ x.objs[id] = p /\ \A i \in Ids : i # id => x.objs[i] = t.objs[i]
        BY <2>6, <3>1, <3>2, ObjectReplaced
      <3>5. /\ Own(x.objs, id, e) /\ x.objs[id].block = Absent
            /\ x.objs[id].deactivation /\ ~x.objs[id].save
        BY <1>1, <3>1, <3>4 DEF Own
      <3>6. level = WriteNeeded
        BY <1>6, <2>10
      <3> HIDE DEF o, e
      <3>7. BecameObject(e, id, {}, x.objs, x.map)
        BY <2>3, <2>6, <3>4 DEF BecameObject, Own
      <3>8. SameStored(e, w.map, x.map, disk) /\ LoadedOrMarked(w.map, x.map, disk)
        BY <2>3, <2>6, <3>4
      <3>9. x.fate[e] \in {"removed", "dropped", "revived"}
        BY <2>8, <3>4
      <3>10. o.block \in Positions => ~Kept(x.map, o.block)
        BY <2>3, <2>6, <3>4, <3>6
      <3>11. Fits(e, x.objs, x.map, x.fate, disk)
        BY <1>1, <3>5, <3>7, <3>8, <3>9, <3>10, IsObjectWithout
      <3>12. Consistent(x, disk)
        BY <3>3, <3>11, AllOfThem
      <3>13. OnlyThis(w, x, id)
        BY <2>3, <2>6, <2>7, <3>1, <3>4 DEF OnlyThis, e, o
      <3> QED BY <2>10, <3>12, <3>13 DEF pending, x
    <2>11. CASE ~pending \/ o.save
      <3>1. x = WithObject(t, id, Absent)
        BY <1>8, <1>10, <2>11
      <3>2. AllBut(e, x, disk)
        BY <2>4, <2>5, <2>6, <3>1, OthersAtTheEnd
      <3>3. /\ x \in Worlds /\ x.map = t.map /\ x.fate = t.fate
            /\ x.objs[id] = Absent /\ \A i \in Ids : i # id => x.objs[i] = t.objs[i]
        BY <2>6, <3>1, ObjectReplaced
      <3>4. ~Own(x.objs, id, e)
        BY <3>3 DEF Own
      <3>5. o.block \in Positions /\ Kept(x.map, o.block) => x.fate[e] \in {"dropped", "revived"}
        BY <1>6, <2>3, <2>6, <2>9, <3>3
      <3> HIDE DEF o, e
      <3>6. BecameObject(e, id, {}, x.objs, x.map)
        BY <2>3, <2>6, <3>3 DEF BecameObject, Own
      <3>7. SameStored(e, w.map, x.map, disk) /\ LoadedOrMarked(w.map, x.map, disk)
        BY <2>3, <2>6, <3>3
      <3>8. x.fate[e] # "there"
        BY <2>8, <3>3
      <3>9. Fits(e, x.objs, x.map, x.fate, disk)
        BY <1>1, <3>4, <3>5, <3>6, <3>7, <3>8, IsGone
      <3>10. Consistent(x, disk)
        BY <3>2, <3>9, AllOfThem
      <3>11. OnlyThis(w, x, id)
        BY <2>3, <2>6, <2>7, <3>3 DEF OnlyThis, e, o
      <3> QED BY <3>3, <3>10, <3>11 DEF x
    <2> QED BY <2>10, <2>11
  <1> QED BY <1>9, <1>10 DEF x

\* deactivateFarObjects for one object, while the server runs.
LEMMA DeactivateFarKeeps ==
  ASSUME EntityConstants, disk \in Disks, NEW w, Consistent(w, disk), NEW id \in Ids,
         w.objs[id] # Absent, NEW active, NEW changed \in BOOLEAN
  PROVE  /\ Consistent(DeactivateFar(w, id, active, FALSE, changed), disk)
         /\ OnlyThis(w, DeactivateFar(w, id, active, FALSE, changed), id)
  <1> DEFINE o == w.objs[id]
             x == DeactivateFar(w, id, active, FALSE, changed)
  <1>1. Consistent(w, disk) /\ OnlyThis(w, w, id)
    BY DEF OnlyThis, LoadedOrMarked, SameAge
  <1>2. CASE Gone(o)
    <2>1. x = w
      BY <1>2 DEF DeactivateFar
    <2> QED BY <1>1, <2>1
  <1>3. CASE ~Gone(o)
    <2>1. w.fate[o.entity] # "removed"
      <3>1. WasObject(o.entity, id, o.block, w.objs, w.map, w.fate, disk)
        BY ItsObject
      <3> QED BY <1>3, <3>1 DEF WasObject, Fits, AsFated, Gone
    <2>2. x = Resave(w, id) \/ x = w \/ x = MakeStatic(w, id, FALSE, changed)
      BY <1>3 DEF DeactivateFar
    <2>3. CASE x = Resave(w, id)
      BY <1>3, <2>3, ResaveKeeps
    <2>4. CASE x = MakeStatic(w, id, FALSE, changed)
      BY <1>3, <2>1, <2>4, MakeStaticKeeps
    <2> QED BY <1>1, <2>2, <2>3, <2>4
  <1> QED BY <1>2, <1>3

\* A deactivated object's copy is stored.
LEMMA StoringKeeps ==
  ASSUME EntityConstants, disk \in Disks, NEW w, Consistent(w, disk), NEW id \in Ids,
         w.objs[id] # Absent, ~w.objs[id].removal, w.objs[id].block # Absent,
         NEW block, block = Emerged(w.map, w.objs[id].block), NEW k,
         k = Raised(WithStored(WithoutCopy(block, id), w.objs[id].entity), WriteNeeded),
         NEW x, x = WithObject(WithBlock(w, w.objs[id].block, k), id, Absent)
  PROVE  Consistent(x, disk) /\ OnlyThis(w, x, id) /\ HasCopy(block, id)
  <1> DEFINE o == w.objs[id]
             e == o.entity
             b == o.block
             v == WithBlock(w, b, k)
  <1>1. /\ WasObject(e, id, b, w.objs, w.map, w.fate, disk) /\ AllBut(e, w, disk)
        /\ o \in Bodies /\ e \in Entities /\ b \in Positions /\ w \in Worlds
        /\ WriteNeeded \in Levels /\ w.map \in [Positions -> Contents \cup {Absent}]
    BY ItsObject DEF Bodies, Consistent, Levels, Worlds
  <1>2. OnlyObject(e, id, b, w.objs, w.map, w.fate, disk)
    BY <1>1, WhatTheObjectWas
  <1>3. w.fate[e] # "removed"
    BY <1>1 DEF WasObject, Fits, AsFated
  <1>4. /\ block \in Contents /\ block.old = Old(w.map, disk, b)
        /\ \A f \in Entities : block.stored[f] = Stores(w.map, disk, b, f)
        /\ \A i \in Ids, f \in Entities :
             [id |-> i, entity |-> f] \in block.active <=> Copy(w.map, b, i, f)
    BY <1>1, LoadedBlock
  <1>5. HasCopy(block, id)
    <2>1. [id |-> id, entity |-> e] \in block.active
      BY <1>1, <1>2, <1>4 DEF OnlyObject
    <2>2. [id |-> id, entity |-> e].id = id
      OBVIOUS
    <2> QED BY <2>1, <2>2 DEF HasCopy
  <1>6. /\ k \in Contents /\ k.old = block.old /\ k.modified = WriteNeeded
        /\ \A f \in Entities : k.stored[f] = IF f = e THEN block.stored[f] + 1 ELSE block.stored[f]
        /\ \A i \in Ids, f \in Entities : [id |-> i, entity |-> f] \in k.active
             <=> [id |-> i, entity |-> f] \in block.active /\ i # id
    <2> DEFINE c == WithoutCopy(block, id)
               g == WithStored(c, e)
    <2> HIDE DEF o, e
    <2>1. /\ c \in Contents /\ c.stored = block.stored /\ c.old = block.old
          /\ \A i \in Ids, f \in Entities : [id |-> i, entity |-> f] \in c.active
               <=> [id |-> i, entity |-> f] \in block.active /\ i # id
      BY <1>4, CopyLess
    <2> HIDE DEF c
    <2>2. /\ g \in Contents /\ g.active = c.active /\ g.old = c.old
          /\ \A f \in Entities : g.stored[f] = IF f = e THEN c.stored[f] + 1 ELSE c.stored[f]
      BY <1>1, <2>1, StoredMore
    <2> HIDE DEF g
    <2>3. k = Raised(g, WriteNeeded)
      BY DEF g, c, e, o
    <2>4. /\ k \in Contents /\ k.stored = g.stored /\ k.old = g.old /\ k.active = g.active
          /\ ~(k.modified # WriteNeeded)
      BY <1>1, <2>2, <2>3, RaisedBlock
    <2> QED BY <2>1, <2>2, <2>4
  <1>7. Replaced(w, v, b, k, disk)
    BY <1>1, <1>6, BlockReplaced
  <1>8. x = WithObject(v, id, Absent)
    OBVIOUS
  <1> HIDE DEF v
  <1>9. /\ v \in Worlds /\ v.objs = w.objs /\ v.fate = w.fate
    BY <1>7 DEF Replaced
  <1>10. LoadedOrMarked(w.map, v.map, disk) /\ ~Kept(v.map, b)
    BY <1>1, <1>4, <1>6, <1>7 DEF Replaced, SameAge, LoadedOrMarked
  <1> HIDE DEF o, e, b
  <1>11. \A c \in Positions, f \in Entities : Stores(v.map, disk, c, f) =
           IF c = b /\ f = e THEN Stores(w.map, disk, c, f) + 1 ELSE Stores(w.map, disk, c, f)
    <2> TAKE c \in Positions, f \in Entities
    <2>1. CASE c = b
      <3>1. Stores(v.map, disk, c, f) = k.stored[f]
        BY <1>7, <2>1 DEF Replaced
      <3>2. block.stored[f] = Stores(w.map, disk, c, f)
        BY <1>4, <2>1
      <3> QED BY <1>6, <2>1, <3>1, <3>2
    <2>2. CASE c # b
      BY <1>7, <2>2 DEF Replaced
    <2> QED BY <2>1, <2>2
  <1>12. \A c \in Positions, i \in Ids, f \in Entities :
           Copy(v.map, c, i, f) <=> Copy(w.map, c, i, f) /\ ~(c = b /\ i = id)
    BY <1>1, <1>4, <1>6, <1>7 DEF Replaced
  <1>13. AllBut(e, v, disk)
    <2>1. ASSUME NEW f \in Entities \ {e}
          PROVE  Fits(f, v.objs, v.map, v.fate, disk)
      <3>1. Fits(f, w.objs, w.map, w.fate, disk)
        BY <1>1, <2>1 DEF AllBut
      <3>2. ~Own(w.objs, id, f)
        BY <1>2, <2>1 DEF OnlyObject, Own, e, o
      <3>3. \A c \in Positions : ~Copy(w.map, c, id, f)
        BY <3>1, <3>2 DEF Fits, OneObject
      <3>4. SameCopies(f, w.map, v.map) /\ SameStored(f, w.map, v.map, disk)
        BY <1>11, <1>12, <2>1, <3>3 DEF SameCopies, SameStored
      <3>5. SameObjects(f, w.objs, v.objs) /\ v.fate[f] = w.fate[f]
        BY <1>9 DEF SameObjects
      <3> QED BY <1>10, <3>1, <3>4, <3>5, Undisturbed
    <2>2. OldToo(v.map, disk)
      BY <1>1, <1>10, OldStays DEF AllBut
    <2> QED BY <1>9, <2>1, <2>2 DEF AllBut
  <1>14. /\ x \in Worlds /\ x.map = v.map /\ x.fate = v.fate
         /\ x.objs[id] = Absent /\ \A i \in Ids : i # id => x.objs[i] = v.objs[i]
    BY <1>8, <1>9, ObjectReplaced
  <1>15. AllBut(e, x, disk)
    BY <1>8, <1>9, <1>13, OthersAtTheEnd DEF e, o
  <1>16. ~Own(x.objs, id, e)
    BY <1>14 DEF Own
  <1>17. BecameObject(e, id, {}, x.objs, x.map)
    <2>1. \A i \in Ids : i # id => ~Own(x.objs, i, e)
      BY <1>2, <1>9, <1>14 DEF Own, OnlyObject
    <2>2. \A c \in Positions, i \in Ids : ~Copy(v.map, c, i, e)
      BY <1>1, <1>2, <1>12 DEF OnlyObject
    <2> QED BY <1>14, <2>1, <2>2 DEF BecameObject
  <1>18. StoredIn(e, b, x.map, disk)
    BY <1>1, <1>2, <1>11, <1>14 DEF StoredIn, OnlyObject
  <1>19. LoadedOrMarked(w.map, x.map, disk) /\ x.fate[e] = w.fate[e]
    BY <1>9, <1>10, <1>14
  <1>20. Fits(e, x.objs, x.map, x.fate, disk)
    BY <1>1, <1>3, <1>16, <1>17, <1>18, <1>19, IsStored
  <1>21. Consistent(x, disk)
    BY <1>15, <1>20, AllOfThem
  <1>22. OnlyThis(w, x, id)
    BY <1>9, <1>14, <1>19 DEF OnlyThis
  <1> QED BY <1>5, <1>21, <1>22

\* removeRemovedObjects for one object.
LEMMA RemoveRemovedKeeps ==
  ASSUME EntityConstants, disk \in Disks, NEW w, Consistent(w, disk), NEW id \in Ids,
         w.objs[id] # Absent
  PROVE  /\ Consistent(RemoveRemovedObject(w, id), disk)
         /\ OnlyThis(w, RemoveRemovedObject(w, id), id)
  <1> DEFINE o == w.objs[id]
             e == o.entity
             v == WithoutStatic(w, id, WriteNeeded)
             x == RemoveRemovedObject(w, id)
  <1>1. /\ WasObject(e, id, o.block, w.objs, w.map, w.fate, disk) /\ AllBut(e, w, disk)
        /\ o \in Bodies /\ e \in Entities /\ o.block \in Positions \cup {Absent} /\ w \in Worlds
        /\ WriteNeeded \in Levels /\ Absent \notin Positions /\ Absent \notin Bodies
    BY ItsObject DEF Bodies, Consistent, Levels, EntityConstants
  <1>2. OnlyObject(e, id, o.block, w.objs, w.map, w.fate, disk)
    BY <1>1, WhatTheObjectWas
  <1>3. w.fate[e] \in Fates \ {"unmade", "swept"} /\ (w.fate[e] = "there" => Lives(o))
    BY <1>1, <1>2 DEF OnlyObject, Worlds
  <1>4. CASE o.removal
    <2>1. Took(w, v, id, WriteNeeded, disk)
      BY <1>1, TakingTakes
    <2>2. x = v \/ x = WithObject(v, id, Absent)
      BY <1>4 DEF RemoveRemovedObject
    <2> HIDE DEF v, x
    <2>3. Unhomed(w, v, id, WriteNeeded, disk)
      BY <1>1, <2>1, TakenIsUnhomed
    <2>4. /\ v.objs[id] \in Bodies /\ v.objs[id].block = Absent /\ v.objs[id].entity = e
          /\ v.objs[id].removal
      BY <1>1, <1>4, <2>3, BodyElsewhere DEF Unhomed
    <2>5. w.fate[e] \notin {"there", "unmade", "swept"}
      BY <1>3, <1>4 DEF Lives
    <2> HIDE DEF o, e
    <2>6. /\ AllBut(e, v, disk) /\ v.fate = w.fate /\ LoadedOrMarked(w.map, v.map, disk)
          /\ \A i \in Ids : i # id => v.objs[i] = w.objs[i]
          /\ BecameObject(e, id, {}, v.objs, v.map) /\ SameStored(e, w.map, v.map, disk)
          /\ o.block \in Positions => ~Kept(v.map, o.block)
      BY <2>3 DEF Unhomed, e, o
    <2>7. v \in Worlds
      BY <2>6 DEF AllBut
    <2>8. CASE x = v
      <3>1. Own(v.objs, id, e)
        BY <1>1, <2>4 DEF Own
      <3>2. v.fate[e] \notin {"there", "unmade", "swept"}
        BY <2>5, <2>6
      <3>3. Fits(e, v.objs, v.map, v.fate, disk)
        BY <1>1, <2>4, <2>6, <3>1, <3>2, IsObjectWithout
      <3>4. Consistent(v, disk)
        BY <2>6, <3>3, AllOfThem
      <3>5. OnlyThis(w, v, id)
        BY <2>4, <2>6 DEF OnlyThis, e, o
      <3> QED BY <2>8, <3>4, <3>5 DEF x
    <2>9. CASE x = WithObject(v, id, Absent)
      <3>1. AllBut(e, x, disk)
        BY <2>4, <2>6, <2>9, OthersAtTheEnd
      <3>2. /\ x \in Worlds /\ x.map = v.map /\ x.fate = v.fate
            /\ x.objs[id] = Absent /\ \A i \in Ids : i # id => x.objs[i] = v.objs[i]
        BY <2>7, <2>9, ObjectReplaced
      <3>3. ~Own(x.objs, id, e) /\ x.fate[e] # "there"
        BY <2>5, <2>6, <3>2 DEF Own
      <3>4. BecameObject(e, id, {}, x.objs, x.map)
        BY <2>6, <3>2 DEF BecameObject, Own
      <3>5. /\ SameStored(e, w.map, x.map, disk) /\ LoadedOrMarked(w.map, x.map, disk)
            /\ ~(o.block \in Positions /\ Kept(x.map, o.block))
        BY <2>6, <3>2
      <3>6. Fits(e, x.objs, x.map, x.fate, disk)
        BY <1>1, <3>3, <3>4, <3>5, IsGone
      <3>7. Consistent(x, disk)
        BY <3>1, <3>6, AllOfThem
      <3>8. OnlyThis(w, x, id)
        BY <2>6, <3>2 DEF OnlyThis
      <3> QED BY <3>7, <3>8 DEF x
    <2> QED BY <2>2, <2>8, <2>9
  <1>5. CASE ~o.removal /\ (~o.deactivation \/ o.known)
    <2>1. x = w
      BY <1>5 DEF RemoveRemovedObject
    <2> QED BY <2>1 DEF OnlyThis, LoadedOrMarked, SameAge
  <1>6. CASE ~o.removal /\ o.deactivation /\ ~o.known /\ o.block = Absent
    <2>1. x = WithObject(w, id, Absent)
      BY <1>6 DEF RemoveRemovedObject
    <2> HIDE DEF x
    <2>2. AllBut(e, x, disk)
      BY <1>1, <2>1, OthersAtTheEnd
    <2>3. /\ x \in Worlds /\ x.map = w.map /\ x.fate = w.fate
          /\ x.objs[id] = Absent /\ \A i \in Ids : i # id => x.objs[i] = w.objs[i]
      BY <1>1, <2>1, ObjectReplaced
    <2>4. ~Own(x.objs, id, e) /\ x.fate[e] # "there"
      BY <1>3, <1>6, <2>3 DEF Own, Lives
    <2>5. o.block \notin Positions
      BY <1>1, <1>6
    <2> HIDE DEF o, e
    <2>6. BecameObject(e, id, {}, x.objs, x.map)
      BY <1>2, <2>3, <2>5 DEF BecameObject, Own, OnlyObject
    <2>7. SameStored(e, w.map, x.map, disk) /\ LoadedOrMarked(w.map, x.map, disk)
      BY <2>3 DEF SameStored, SameAge, LoadedOrMarked
    <2>8. Fits(e, x.objs, x.map, x.fate, disk)
      BY <1>1, <2>4, <2>5, <2>6, <2>7, IsGone
    <2>9. Consistent(x, disk)
      BY <2>2, <2>8, AllOfThem
    <2>10. OnlyThis(w, x, id)
      BY <2>3, <2>7 DEF OnlyThis
    <2> QED BY <2>9, <2>10 DEF x
  <1>7. CASE ~o.removal /\ o.deactivation /\ ~o.known /\ o.block # Absent
    <2> DEFINE block == Emerged(w.map, o.block)
               k == Raised(WithStored(WithoutCopy(block, id), o.entity), WriteNeeded)
               y == WithObject(WithBlock(w, o.block, k), id, Absent)
    <2>1. Consistent(y, disk) /\ OnlyThis(w, y, id) /\ HasCopy(block, id)
      BY <1>7, StoringKeeps
    <2>2. x = y
      BY <1>7, <2>1 DEF RemoveRemovedObject
    <2> HIDE DEF x, y
    <2>3. Consistent(x, disk) /\ OnlyThis(w, x, id)
      BY <2>1, <2>2
    <2> QED BY <2>3 DEF x
  <1> QED BY <1>4, <1>5, <1>6, <1>7

-----------------------------------------------------------------------------
(***************************************************************************)
(* A loop over the objects.  W[i] is the set of worlds that the first i    *)
(* objects may leave, and H what is done to the next.                      *)
(***************************************************************************)

\* What holds of 0 and passes to the next number holds of every number.
LEMMA SetInduction ==
  ASSUME NEW S, 0 \in S, \A n \in Nat : n \in S => n + 1 \in S
  PROVE  Nat \subseteq S
  <1> DEFINE R == OpToRel(<, Nat)
             T == Nat \ S
  <1> SUFFICES ASSUME T # {} PROVE FALSE
    OBVIOUS
  <1>1. IsWellFoundedOn(R, Nat)
    BY NatLessThanWellFounded
  <1>2. PICK x \in T : \A y \in T : ~(<<y, x>> \in R)
    BY <1>1, WFMin, Zenon
  <1>3. x # 0 /\ x \in Nat
    OBVIOUS
  <1>4. x - 1 \in Nat /\ (x - 1) + 1 = x
    BY <1>3
  <1>5. <<x - 1, x>> \in R
    BY <1>3, <1>4 DEF OpToRel
  <1> QED BY <1>2, <1>3, <1>4, <1>5

IsRun(f, n, H, w) ==
  /\ f = [i \in 0 .. n |-> f[i]] /\ f[0] = w
  /\ \A i \in 1 .. n : f[i] = H[i][f[i - 1]]

\* What each round of a loop keeps, all of them keep.
LEMMA LoopKeeps ==
  ASSUME NEW W, NEW f, NEW n \in Nat, f[0] \in W[0],
         \A i \in 1 .. n : f[i - 1] \in W[i - 1] => f[i] \in W[i]
  PROVE  f[n] \in W[n]
  <1> DEFINE T == {i \in Nat : i <= n => f[i] \in W[i]}
  <1>1. 0 \in T
    OBVIOUS
  <1>2. ASSUME NEW i \in Nat, i \in T PROVE i + 1 \in T
    <2> SUFFICES ASSUME i + 1 <= n PROVE f[i + 1] \in W[i + 1]
      OBVIOUS
    <2>1. i + 1 \in 1 .. n /\ (i + 1) - 1 = i /\ i <= n
      OBVIOUS
    <2>2. f[i] \in W[i]
      BY <1>2, <2>1
    <2> QED BY <2>1, <2>2
  <1> HIDE DEF T
  <1>3. Nat \subseteq T
    BY <1>1, <1>2, SetInduction
  <1>4. n \in T
    BY <1>3
  <1> QED BY <1>4 DEF T

\* A loop of n rounds has a result.
LEMMA LoopExists ==
  ASSUME NEW H, NEW w, NEW n \in Nat
  PROVE  \E f : IsRun(f, n, H, w)
  <1> DEFINE T == {i \in Nat : \E f : IsRun(f, i, H, w)}
  <1>1. 0 \in T
    <2> DEFINE f == [i \in 0 .. 0 |-> w]
    <2>1. IsRun(f, 0, H, w)
      BY DEF IsRun
    <2> QED BY <2>1
  <1>2. ASSUME NEW i \in Nat, i \in T PROVE i + 1 \in T
    <2>1. PICK f : IsRun(f, i, H, w)
      BY <1>2
    <2> DEFINE g == [j \in 0 .. i + 1 |-> IF j = i + 1 THEN H[j][f[i]] ELSE f[j]]
    <2>2. g[0] = w /\ g = [j \in 0 .. i + 1 |-> g[j]]
      BY <2>1 DEF IsRun
    <2>3. ASSUME NEW j \in 1 .. i + 1 PROVE g[j] = H[j][g[j - 1]]
      <3>1. CASE j = i + 1
        <4>1. j - 1 = i /\ i \in 0 .. i + 1 /\ j \in 0 .. i + 1 /\ i # i + 1
          BY <3>1
        <4>2. g[j - 1] = f[i] /\ g[j] = H[j][f[i]]
          BY <3>1, <4>1
        <4> QED BY <4>2
      <3>2. CASE j # i + 1
        <4>1. j \in 1 .. i /\ j \in 0 .. i + 1 /\ j - 1 \in 0 .. i + 1 /\ j - 1 # i + 1
          BY <3>2
        <4>2. g[j - 1] = f[j - 1] /\ g[j] = f[j]
          BY <3>2, <4>1
        <4>3. f[j] = H[j][f[j - 1]]
          BY <2>1, <4>1 DEF IsRun
        <4> QED BY <4>2, <4>3
      <3> QED BY <3>1, <3>2
    <2> HIDE DEF g
    <2>4. IsRun(g, i + 1, H, w)
      BY <2>2, <2>3 DEF IsRun
    <2>5. \E h : IsRun(h, i + 1, H, w)
      BY <2>4
    <2> HIDE DEF IsRun
    <2> QED BY <2>5
  <1> HIDE DEF T
  <1>3. Nat \subseteq T
    BY <1>1, <1>2, SetInduction
  <1>4. n \in T
    BY <1>3
  <1> QED BY <1>4 DEF T

\* With what is done to a world given by a function, that the loop is left in W
\* follows; the functions after of the loops below are such runs.
LEMMA LoopRuns ==
  ASSUME NEW H, NEW w, NEW W, MaxId \in Nat, w \in W[0],
         \A i \in Ids : \A v \in W[i - 1] : H[i][v] \in W[i]
  PROVE  \E f : IsRun(f, MaxId, H, w) /\ \A i \in 0 .. MaxId : f[i] \in W[i]
  <1>1. PICK f : IsRun(f, MaxId, H, w)
    BY LoopExists
  <1>2. ASSUME NEW n \in 0 .. MaxId PROVE f[n] \in W[n]
    <2>1. n \in Nat /\ 1 .. n \subseteq 1 .. MaxId /\ 1 .. MaxId = Ids
      BY DEF Ids
    <2>2. f[0] \in W[0]
      BY <1>1 DEF IsRun
    <2>3. \A i \in 1 .. n : f[i - 1] \in W[i - 1] => f[i] \in W[i]
      BY <1>1, <2>1 DEF IsRun
    <2> QED BY <2>1, <2>2, <2>3, LoopKeeps
  <1> QED BY <1>1, <1>2

-----------------------------------------------------------------------------
\* What the loops of a step keep of the world w with which they start.
Later(w) == {v \in Worlds :
  /\ Consistent(v, disk) /\ LoadedOrMarked(w.map, v.map, disk)
  /\ \A e \in Entities : v.fate[e] = "revived" => w.fate[e] = "revived"}

\* A round of a loop makes a world that is later than that before the loop.
LEMMA LaterStill ==
  ASSUME NEW w, NEW v \in Later(w), NEW x, NEW id, Consistent(x, disk), OnlyThis(v, x, id)
  PROVE  x \in Later(w)
  <1>1. x \in Worlds
    BY DEF Consistent
  <1>2. LoadedOrMarked(w.map, v.map, disk) /\ LoadedOrMarked(v.map, x.map, disk)
    BY DEF Later, OnlyThis
  <1>3. LoadedOrMarked(w.map, x.map, disk)
    BY <1>2 DEF LoadedOrMarked, SameAge
  <1>4. \A e \in Entities : x.fate[e] = "revived" => v.fate[e] = "revived"
    BY DEF OnlyThis
  <1> QED BY <1>1, <1>3, <1>4 DEF Later

\* So is the world in which the loop starts.
LEMMA LaterAtFirst ==
  ASSUME NEW w, Consistent(w, disk)
  PROVE  w \in Later(w)
  BY DEF Later, Consistent, LoadedOrMarked, SameAge

\* removeRemovedObjects, for all objects.
LEMMA RemovingLoop ==
  ASSUME EntityConstants, disk \in Disks, NEW w, Consistent(w, disk)
  PROVE  EachObject(RemoveRemovedObject, w) \in Later(w)
  <1> DEFINE W == [i \in 0 .. MaxId |-> Later(w)]
             H == [i \in Ids |-> [v \in Later(w) |->
                     IF v.objs[i] = Absent THEN v ELSE RemoveRemovedObject(v, i)]]
             At(f, id) ==
               IF id = 0 THEN w
               ELSE LET v == f[id - 1]
                    IN IF v.objs[id] = Absent THEN v ELSE RemoveRemovedObject(v, id)
             IsAfter(f) == f = [id \in 0 .. MaxId |-> At(f, id)]
             after == CHOOSE f : IsAfter(f)
  <1>1. MaxId \in Nat /\ Ids = 1 .. MaxId
    BY DEF EntityConstants, Ids
  <1>2. ASSUME NEW i \in Ids, NEW v \in Later(w)
        PROVE  (IF v.objs[i] = Absent THEN v ELSE RemoveRemovedObject(v, i)) \in Later(w)
    <2>1. CASE v.objs[i] # Absent
      <3>1. Consistent(v, disk)
        BY DEF Later
      <3>2. /\ Consistent(RemoveRemovedObject(v, i), disk)
            /\ OnlyThis(v, RemoveRemovedObject(v, i), i)
        BY <2>1, <3>1, RemoveRemovedKeeps
      <3> QED BY <2>1, <3>2, LaterStill
    <2> QED BY <2>1
  <1>3. \E f : IsAfter(f)
    <2>1. \A i \in Ids : \A v \in W[i - 1] : H[i][v] \in W[i]
      BY <1>1, <1>2
    <2>2. w \in W[0]
      BY <1>1, LaterAtFirst
    <2>3. PICK f : IsRun(f, MaxId, H, w) /\ \A i \in 0 .. MaxId : f[i] \in W[i]
      BY <1>1, <2>1, <2>2, LoopRuns
    <2>4. \A i \in Ids : f[i - 1] \in Later(w)
      BY <1>1, <2>3
    <2>5. f[0] = w /\ f = [i \in 0 .. MaxId |-> f[i]]
      BY <2>3 DEF IsRun
    <2>6. ASSUME NEW i \in Ids
          PROVE  f[i] = IF f[i - 1].objs[i] = Absent THEN f[i - 1]
                        ELSE RemoveRemovedObject(f[i - 1], i)
      <3>1. f[i] = H[i][f[i - 1]]
        BY <1>1, <2>3 DEF IsRun
      <3> QED BY <2>4, <3>1
    <2> HIDE DEF H, W
    <2>7. \A id \in 0 .. MaxId : f[id] = At(f, id)
      BY <1>1, <2>5, <2>6
    <2> HIDE DEF At
    <2>8. IsAfter(f)
      BY <2>5, <2>7
    <2> QED BY <2>8
  <1>4. IsAfter(after)
    BY <1>3
  <1> HIDE DEF after
  <1>5. after[0] \in W[0]
    BY <1>1, <1>4, LaterAtFirst
  <1>6. \A i \in 1 .. MaxId : after[i - 1] \in W[i - 1] => after[i] \in W[i]
    BY <1>1, <1>2, <1>4
  <1>7. after[MaxId] \in W[MaxId]
    BY <1>1, <1>5, <1>6, LoopKeeps
  <1> HIDE DEF W, H
  <1>8. EachObject(RemoveRemovedObject, w) = after[MaxId]
    BY DEF EachObject, after
  <1> USE DEF W
  <1> QED BY <1>1, <1>7, <1>8

-----------------------------------------------------------------------------
\* deactivateFarObjects, for all objects.
LEMMA DeactivatingLoop ==
  ASSUME EntityConstants, disk \in Disks, NEW w, Consistent(w, disk), NEW active,
         NEW changed \in BOOLEAN, NEW force, force = FALSE
  PROVE  DeactivateFarObjects(w, active, force, changed) \in Later(w)
  <1> DEFINE Act(v, id) == DeactivateFar(v, id, active, force, changed)
             W == [i \in 0 .. MaxId |-> Later(w)]
             H == [i \in Ids |-> [v \in Later(w) |->
                     IF v.objs[i] = Absent THEN v ELSE Act(v, i)]]
             At(f, id) ==
               IF id = 0 THEN w
               ELSE LET v == f[id - 1]
                    IN IF v.objs[id] = Absent THEN v ELSE Act(v, id)
             IsAfter(f) == f = [id \in 0 .. MaxId |-> At(f, id)]
             after == CHOOSE f : IsAfter(f)
  <1>1. MaxId \in Nat /\ Ids = 1 .. MaxId
    BY DEF EntityConstants, Ids
  <1>2. ASSUME NEW i \in Ids, NEW v \in Later(w)
        PROVE  (IF v.objs[i] = Absent THEN v ELSE Act(v, i)) \in Later(w)
    <2>1. CASE v.objs[i] # Absent
      <3>1. Consistent(v, disk)
        BY DEF Later
      <3>2. /\ Consistent(Act(v, i), disk)
            /\ OnlyThis(v, Act(v, i), i)
        BY <2>1, <3>1, DeactivateFarKeeps
      <3> QED BY <2>1, <3>2, LaterStill
    <2> QED BY <2>1
  <1> HIDE DEF Act
  <1>3. \E f : IsAfter(f)
    <2>1. \A i \in Ids : \A v \in W[i - 1] : H[i][v] \in W[i]
      BY <1>1, <1>2
    <2>2. w \in W[0]
      BY <1>1, LaterAtFirst
    <2>3. PICK f : IsRun(f, MaxId, H, w) /\ \A i \in 0 .. MaxId : f[i] \in W[i]
      BY <1>1, <2>1, <2>2, LoopRuns
    <2>4. \A i \in Ids : f[i - 1] \in Later(w)
      BY <1>1, <2>3
    <2>5. f[0] = w /\ f = [i \in 0 .. MaxId |-> f[i]]
      BY <2>3 DEF IsRun
    <2>6. ASSUME NEW i \in Ids
          PROVE  f[i] = IF f[i - 1].objs[i] = Absent THEN f[i - 1]
                        ELSE Act(f[i - 1], i)
      <3>1. f[i] = H[i][f[i - 1]]
        BY <1>1, <2>3 DEF IsRun
      <3> QED BY <2>4, <3>1
    <2> HIDE DEF H, W
    <2>7. \A id \in 0 .. MaxId : f[id] = At(f, id)
      BY <1>1, <2>5, <2>6
    <2> HIDE DEF At
    <2>8. IsAfter(f)
      BY <2>5, <2>7
    <2> QED BY <2>8
  <1>4. IsAfter(after)
    BY <1>3
  <1> HIDE DEF after
  <1>5. after[0] \in W[0]
    BY <1>1, <1>4, LaterAtFirst
  <1>6. \A i \in 1 .. MaxId : after[i - 1] \in W[i - 1] => after[i] \in W[i]
    BY <1>1, <1>2, <1>4
  <1>7. after[MaxId] \in W[MaxId]
    BY <1>1, <1>5, <1>6, LoopKeeps
  <1> HIDE DEF W, H
  <1>8. DeactivateFarObjects(w, active, force, changed) = after[MaxId]
    BY DEF DeactivateFarObjects, EachObject, after, Act
  <1> USE DEF W
  <1> QED BY <1>1, <1>7, <1>8

\* What shuts down leaves of the first n objects none.
NoneRemovedIsSaved(v) == \A i \in Ids :
  v.objs[i] # Absent /\ v.fate[v.objs[i].entity] = "removed" => ~v.objs[i].save
Parted(n) == {v \in Worlds :
  /\ Consistent(v, disk) /\ NoneRemovedIsSaved(v)
  /\ \A i \in Ids : i <= n => v.objs[i] = Absent}

\* deactivateFarObjects at shutdown, for one more object,
LEMMA PartedNext ==
  ASSUME EntityConstants, disk \in Disks, NEW i \in Ids, NEW v \in Parted(i - 1),
         v.objs[i] # Absent, NEW active, NEW changed \in BOOLEAN
  PROVE  DeactivateFar(v, i, active, TRUE, changed) \in Parted(i)
  <1> DEFINE x == MakeStatic(v, i, TRUE, changed)
  <1>1. /\ Consistent(v, disk) /\ NoneRemovedIsSaved(v) /\ MaxId \in Nat /\ i \in 1 .. MaxId
        /\ \A j \in Ids : j <= i - 1 => v.objs[j] = Absent
    BY DEF Parted, EntityConstants, Ids
  <1>2. v.fate[v.objs[i].entity] = "removed" => ~v.objs[i].save
    BY <1>1 DEF NoneRemovedIsSaved
  <1>3. Consistent(x, disk) /\ OnlyThis(v, x, i) /\ x.objs[i] = Absent
    BY <1>1, <1>2, MakeStaticKeeps
  <1>4. DeactivateFar(v, i, active, TRUE, changed) = x
    BY DEF DeactivateFar
  <1> HIDE DEF x
  <1>5. \A j \in Ids : j <= i => x.objs[j] = Absent
    <2> SUFFICES ASSUME NEW j \in Ids, j <= i, j # i PROVE x.objs[j] = Absent
      BY <1>3
    <2>1. j <= i - 1
      BY <1>1 DEF Ids
    <2> QED BY <1>1, <1>3, <2>1 DEF OnlyThis
  <1>6. NoneRemovedIsSaved(x)
    <2> SUFFICES ASSUME NEW j \in Ids, x.objs[j] # Absent,
                        x.fate[x.objs[j].entity] = "removed"
                 PROVE  ~x.objs[j].save
      BY DEF NoneRemovedIsSaved
    <2> DEFINE e == x.objs[j].entity
    <2>1. j # i /\ x.objs[j] = v.objs[j]
      BY <1>3 DEF OnlyThis
    <2>2. e \in Entities
      BY <1>3 DEF Consistent, Worlds, Bodies
    <2>3. CASE v.fate[e] = "removed"
      BY <1>1, <2>1, <2>3 DEF NoneRemovedIsSaved
    <2>4. CASE v.fate[e] # "removed"
      <3>1. v.fate[e] = "there" \/ v.fate[e] = x.fate[e]
        BY <1>3, <2>2 DEF OnlyThis
      <3>2. v.fate[e] = "there"
        BY <2>4, <3>1
      <3>3. WasObject(e, j, v.objs[j].block, v.objs, v.map, v.fate, disk)
        BY <1>1, <2>1, ItsObject
      <3>4. OnlyObject(e, j, v.objs[j].block, v.objs, v.map, v.fate, disk)
        BY <3>3, WhatTheObjectWas
      <3>7. ~v.objs[j].removal
        BY <3>2, <3>4 DEF OnlyObject, Lives
      <3>5. Fits(e, x.objs, x.map, x.fate, disk)
        BY <1>3, <2>2 DEF Consistent
      <3>6. Own(x.objs, j, e)
        BY DEF Own
      <3> QED BY <2>1, <3>5, <3>6, <3>7 DEF Fits, AsFated
    <2> QED BY <2>3, <2>4
  <1>7. x \in Parted(i)
    BY <1>3, <1>5, <1>6 DEF Parted, Consistent
  <1> QED BY <1>4, <1>7

\* and for all of them: no object is left.
LEMMA PartingLoop ==
  ASSUME EntityConstants, disk \in Disks, NEW w, Consistent(w, disk), NoneRemovedIsSaved(w),
         NEW active, NEW changed \in BOOLEAN, NEW force \in {TRUE}
  PROVE  DeactivateFarObjects(w, active, force, changed) \in Parted(MaxId)
  <1> DEFINE Act(v, id) == DeactivateFar(v, id, active, force, changed)
             W == [i \in 0 .. MaxId |-> Parted(i)]
             H == [i \in Ids |-> [v \in Worlds |->
                     IF v.objs[i] = Absent THEN v ELSE Act(v, i)]]
             At(f, id) ==
               IF id = 0 THEN w
               ELSE LET v == f[id - 1]
                    IN IF v.objs[id] = Absent THEN v ELSE Act(v, id)
             IsAfter(f) == f = [id \in 0 .. MaxId |-> At(f, id)]
             after == CHOOSE f : IsAfter(f)
  <1>1. MaxId \in Nat /\ Ids = 1 .. MaxId
    BY DEF EntityConstants, Ids
  <1>2. ASSUME NEW i \in Ids, NEW v \in Parted(i - 1)
        PROVE  (IF v.objs[i] = Absent THEN v ELSE Act(v, i))
                 \in Parted(i)
    <2>1. CASE v.objs[i] # Absent
      BY <2>1, PartedNext
    <2>2. CASE v.objs[i] = Absent
      <3>1. \A j \in Ids : j <= i => j = i \/ j <= i - 1
        BY <1>1
      <3> QED BY <2>2, <3>1 DEF Parted
    <2> QED BY <2>1, <2>2
  <1>0. w \in Parted(0)
    <2>1. \A i \in Ids : ~(i <= 0)
      BY <1>1
    <2> QED BY <2>1 DEF Parted, Consistent
  <1> HIDE DEF Act
  <1>3. \E f : IsAfter(f)
    <2>1. \A i \in Ids : \A v \in W[i - 1] : H[i][v] \in W[i]
      <3> SUFFICES ASSUME NEW i \in Ids PROVE \A v \in W[i - 1] : H[i][v] \in W[i]
        OBVIOUS
      <3>1. W[i - 1] = Parted(i - 1) /\ W[i] = Parted(i)
        BY <1>1
      <3>2. \A v \in Parted(i - 1) : v \in Worlds
        BY DEF Parted
      <3> QED BY <1>2, <3>1, <3>2
    <2>2. w \in W[0]
      BY <1>1, <1>0
    <2>3. PICK f : IsRun(f, MaxId, H, w) /\ \A i \in 0 .. MaxId : f[i] \in W[i]
      BY <1>1, <2>1, <2>2, LoopRuns
    <2>4. \A i \in Ids : f[i - 1] \in Worlds
      BY <1>1, <2>3 DEF Parted
    <2>5. f[0] = w /\ f = [i \in 0 .. MaxId |-> f[i]]
      BY <2>3 DEF IsRun
    <2>6. ASSUME NEW i \in Ids
          PROVE  f[i] = IF f[i - 1].objs[i] = Absent THEN f[i - 1]
                        ELSE Act(f[i - 1], i)
      <3>1. f[i] = H[i][f[i - 1]]
        BY <1>1, <2>3 DEF IsRun
      <3> QED BY <2>4, <3>1
    <2> HIDE DEF H, W
    <2>7. \A id \in 0 .. MaxId : f[id] = At(f, id)
      <3> TAKE id \in 0 .. MaxId
      <3>1. CASE id = 0
        BY <2>5, <3>1
      <3>2. CASE id # 0
        BY <1>1, <2>6, <3>2
      <3> QED BY <3>1, <3>2
    <2> HIDE DEF At
    <2>8. IsAfter(f)
      BY <2>5, <2>7
    <2> QED BY <2>8
  <1>4. IsAfter(after)
    BY <1>3
  <1> HIDE DEF after
  <1>5. after[0] \in W[0]
    BY <1>1, <1>4, <1>0
  <1>6. \A i \in 1 .. MaxId : after[i - 1] \in W[i - 1] => after[i] \in W[i]
    BY <1>1, <1>2, <1>4
  <1>7. after[MaxId] \in W[MaxId]
    BY <1>1, <1>5, <1>6, LoopKeeps
  <1> HIDE DEF W, H
  <1>8. DeactivateFarObjects(w, active, force, changed) = after[MaxId]
    BY DEF DeactivateFarObjects, EachObject, after, Act
  <1> USE DEF W
  <1> QED BY <1>1, <1>7, <1>8

-----------------------------------------------------------------------------
\* What clearObjects makes of an object, and of the first n objects of w and their copies.
Clear(o, p) ==
  p = Absent \/ (o # Absent /\ p.entity = o.entity /\ p.removal /\ p.block = Absent)
Emptier(mp, mp2, dk) ==
  /\ SameAge(mp, mp2, dk) /\ \A e \in Entities : SameStored(e, mp, mp2, dk)
  /\ \A c \in Positions :
       /\ mp2[c] = Absent => mp[c] = Absent
       /\ Kept(mp2, c) => Kept(mp, c)
       /\ \A i \in Ids, e \in Entities : Copy(mp, c, i, e) /\ Kept(mp2, c) => Copy(mp2, c, i, e)
Cleared(w, n) == {v \in Worlds :
  /\ v.fate = w.fate /\ Emptier(w.map, v.map, disk)
  /\ \A i \in Ids : IF i <= n THEN Clear(w.objs[i], v.objs[i]) ELSE v.objs[i] = w.objs[i]}

\* clearObjects, for one more object,
LEMMA ClearedNext ==
  ASSUME EntityConstants, disk \in Disks, NEW w, Consistent(w, disk), NEW id \in Ids,
         NEW v \in Cleared(w, id - 1), v.objs[id] # Absent
  PROVE  ClearObject(v, id) \in Cleared(w, id)
  <1> DEFINE o == v.objs[id]
             loaded == o.block # Absent /\ v.map[o.block] # Absent
             t == IF loaded THEN WithoutStatic(v, id, WriteNeeded) ELSE v
             p == IF o.known THEN [t.objs[id] EXCEPT !.removal = TRUE] ELSE Absent
             x == WithObject(t, id, p)
  <1>1. /\ v \in Worlds /\ v.fate = w.fate /\ Emptier(w.map, v.map, disk)
        /\ \A i \in Ids : IF i <= id - 1 THEN Clear(w.objs[i], v.objs[i])
                          ELSE v.objs[i] = w.objs[i]
    BY DEF Cleared
  <1>2. ~(id <= id - 1) /\ WriteNeeded \in Levels
    BY DEF Ids, Levels, EntityConstants
  <1>3. o = w.objs[id] /\ o \in Bodies /\ o.block \in Positions \cup {Absent}
    BY <1>1, <1>2 DEF Worlds, Bodies
  <1>4. OnlyObject(o.entity, id, o.block, w.objs, w.map, w.fate, disk)
    BY <1>3, ItsObject, WhatTheObjectWas
  <1>5. loaded \/ o.block = Absent
    BY <1>1, <1>3, <1>4 DEF OnlyObject, Emptier
  <1>6. /\ t \in Worlds /\ t.fate = w.fate /\ Emptier(w.map, t.map, disk)
        /\ t.objs[id] \in Bodies /\ t.objs[id].block = Absent /\ t.objs[id].entity = o.entity
        /\ \A i \in Ids : i # id => t.objs[i] = v.objs[i]
    <2>1. CASE loaded
      <3>1. Took(v, t, id, WriteNeeded, disk)
        BY <1>1, <1>2, <2>1, TakingTakes
      <3> HIDE DEF t
      <3>2. t \in Worlds /\ t.fate = w.fate /\ \A i \in Ids : i # id => t.objs[i] = v.objs[i]
        BY <1>1, <3>1 DEF Took
      <3>3. t.objs[id] \in Bodies /\ t.objs[id].block = Absent /\ t.objs[id].entity = o.entity
        BY <1>3, <3>1, BodyElsewhere DEF Took
      <3>4. SameAge(w.map, t.map, disk) /\ \A e \in Entities : SameStored(e, w.map, t.map, disk)
        BY <1>1, <3>1 DEF Took, Emptier, SameAge, SameStored
      <3>5. \A c \in Positions :
              /\ t.map[c] = Absent => w.map[c] = Absent
              /\ Kept(t.map, c) => Kept(v.map, c) /\ c # o.block
        BY <1>1, <1>2, <3>1 DEF Took, Emptier, Marked
      <3>6. \A c \in Positions, i \in Ids, e \in Entities :
              Copy(v.map, c, i, e) /\ c # o.block => Copy(t.map, c, i, e)
        BY <3>1 DEF Took
      <3>7. Emptier(w.map, t.map, disk)
        BY <1>1, <3>4, <3>5, <3>6 DEF Emptier
      <3> QED BY <3>2, <3>3, <3>7
    <2>2. CASE ~loaded
      BY <1>1, <1>3, <1>5, <2>2
    <2> QED BY <2>1, <2>2
  <1> HIDE DEF t
  <1>7. p \in Bodies \cup {Absent} /\ Clear(o, p)
    <2> DEFINE q == [t.objs[id] EXCEPT !.removal = TRUE]
    <2>1. q \in Bodies /\ q.removal /\ q.block = Absent /\ q.entity = o.entity
      BY <1>6 DEF Bodies
    <2> HIDE DEF q
    <2>2. p = q \/ p = Absent
      BY DEF q
    <2> HIDE DEF p
    <2> QED BY <2>1, <2>2 DEF Clear
  <1> HIDE DEF p
  <1>8. /\ x \in Worlds /\ x.map = t.map /\ x.fate = t.fate
        /\ x.objs[id] = p /\ \A i \in Ids : i # id => x.objs[i] = t.objs[i]
    BY <1>6, <1>7, ObjectReplaced
  <1>9. ASSUME NEW i \in Ids
        PROVE  IF i <= id THEN Clear(w.objs[i], x.objs[i]) ELSE x.objs[i] = w.objs[i]
    <2>1. CASE i = id
      BY <1>3, <1>7, <1>8, <2>1 DEF Ids
    <2>2. CASE i # id
      <3>1. i <= id <=> i <= id - 1
        BY <2>2 DEF Ids
      <3> QED BY <1>1, <1>6, <1>8, <2>2, <3>1
    <2> QED BY <2>1, <2>2
  <1>10. ClearObject(v, id) = x
    BY DEF ClearObject, t, p
  <1> HIDE DEF x
  <1>11. x \in Cleared(w, id)
    BY <1>6, <1>8, <1>9 DEF Cleared
  <1> QED BY <1>10, <1>11

\* and for all of them.
LEMMA ClearingLoop ==
  ASSUME EntityConstants, disk \in Disks, NEW w, Consistent(w, disk)
  PROVE  EachObject(ClearObject, w) \in Cleared(w, MaxId)
  <1> DEFINE W == [i \in 0 .. MaxId |-> Cleared(w, i)]
             H == [i \in Ids |-> [v \in Worlds |->
                     IF v.objs[i] = Absent THEN v ELSE ClearObject(v, i)]]
             At(f, id) ==
               IF id = 0 THEN w
               ELSE LET v == f[id - 1]
                    IN IF v.objs[id] = Absent THEN v ELSE ClearObject(v, id)
             IsAfter(f) == f = [id \in 0 .. MaxId |-> At(f, id)]
             after == CHOOSE f : IsAfter(f)
  <1>1. MaxId \in Nat /\ Ids = 1 .. MaxId
    BY DEF EntityConstants, Ids
  <1>2. ASSUME NEW i \in Ids, NEW v \in Cleared(w, i - 1)
        PROVE  (IF v.objs[i] = Absent THEN v ELSE ClearObject(v, i))
                 \in Cleared(w, i)
    <2>1. CASE v.objs[i] # Absent
      BY <2>1, ClearedNext
    <2>2. CASE v.objs[i] = Absent
      <3>1. \A j \in Ids : (j <= i <=> j = i \/ j <= i - 1)
        BY <1>1
      <3> QED BY <2>2, <3>1 DEF Cleared, Clear
    <2> QED BY <2>1, <2>2
  <1>0. w \in Cleared(w, 0)
    <2>1. \A i \in Ids : ~(i <= 0)
      BY <1>1
    <2> QED BY <2>1 DEF Cleared, Consistent, Emptier, SameAge, SameStored
  <1>3. \E f : IsAfter(f)
    <2>1. \A i \in Ids : \A v \in W[i - 1] : H[i][v] \in W[i]
      <3> SUFFICES ASSUME NEW i \in Ids PROVE \A v \in W[i - 1] : H[i][v] \in W[i]
        OBVIOUS
      <3>1. W[i - 1] = Cleared(w, i - 1) /\ W[i] = Cleared(w, i)
        BY <1>1
      <3>2. \A v \in Cleared(w, i - 1) : v \in Worlds
        BY DEF Cleared
      <3> QED BY <1>2, <3>1, <3>2
    <2>2. w \in W[0]
      BY <1>1, <1>0
    <2>3. PICK f : IsRun(f, MaxId, H, w) /\ \A i \in 0 .. MaxId : f[i] \in W[i]
      BY <1>1, <2>1, <2>2, LoopRuns
    <2>4. \A i \in Ids : f[i - 1] \in Worlds
      BY <1>1, <2>3 DEF Cleared
    <2>5. f[0] = w /\ f = [i \in 0 .. MaxId |-> f[i]]
      BY <2>3 DEF IsRun
    <2>6. ASSUME NEW i \in Ids
          PROVE  f[i] = IF f[i - 1].objs[i] = Absent THEN f[i - 1]
                        ELSE ClearObject(f[i - 1], i)
      <3>1. f[i] = H[i][f[i - 1]]
        BY <1>1, <2>3 DEF IsRun
      <3> QED BY <2>4, <3>1
    <2> HIDE DEF H, W
    <2>7. \A id \in 0 .. MaxId : f[id] = At(f, id)
      <3> TAKE id \in 0 .. MaxId
      <3>1. CASE id = 0
        BY <2>5, <3>1
      <3>2. CASE id # 0
        BY <1>1, <2>6, <3>2
      <3> QED BY <3>1, <3>2
    <2> HIDE DEF At
    <2>8. IsAfter(f)
      BY <2>5, <2>7
    <2> QED BY <2>8
  <1>4. IsAfter(after)
    BY <1>3
  <1> HIDE DEF after
  <1>5. after[0] \in W[0]
    BY <1>1, <1>4, <1>0
  <1>6. \A i \in 1 .. MaxId : after[i - 1] \in W[i - 1] => after[i] \in W[i]
    BY <1>1, <1>2, <1>4
  <1>7. after[MaxId] \in W[MaxId]
    BY <1>1, <1>5, <1>6, LoopKeeps
  <1> HIDE DEF W, H
  <1>8. EachObject(ClearObject, w) = after[MaxId]
    BY DEF EachObject, after
  <1> USE DEF W
  <1> QED BY <1>1, <1>7, <1>8

-----------------------------------------------------------------------------
\* The worlds between two steps.
Between(w, dk, active, runs) ==
  /\ dk \in Disks /\ Consistent(w, dk)
  /\ active \subseteq Positions
  /\ \A b \in active : w.map[b] # Absent /\ ~w.map[b].old
  /\ runs \in BOOLEAN
  /\ runs => \A e \in Entities : w.fate[e] # "revived"

ObjectsInv == Between(World, disk, m_active_blocks, running)

\* The invariant holds at first.
LEMMA FirstWorld ==
  ASSUME EntityConstants, ObjectsInit
  PROVE  ObjectsInv
  <1>1. /\ World = [objs |-> objs, map |-> map, fate |-> fate]
        /\ objs = [id \in Ids |-> Absent] /\ map = [b \in Positions |-> Absent]
        /\ disk = [b \in Positions |-> [held |-> Nothing, old |-> FALSE]]
        /\ m_active_blocks = {} /\ running = TRUE /\ fate = [e \in Entities |-> "unmade"]
    BY DEF ObjectsInit, World
  <1>2. World \in Worlds
    BY <1>1 DEF Worlds, Fates
  <1>3. Nothing \in Held /\ \A e \in Entities : Nothing[e] = 0
    BY DEF Nothing, Held
  <1>4. disk \in Disks
    BY <1>1, <1>3 DEF Disks
  <1>5. OldToo(map, disk)
    BY <1>1 DEF OldToo, Kept
  <1>6. ASSUME NEW e \in Entities PROVE Fits(e, objs, map, fate, disk)
    <2>1. \A i \in Ids : ~Own(objs, i, e)
      BY <1>1 DEF Own
    <2>2. \A b \in Positions : /\ ~Kept(map, b) /\ Stores(map, disk, b, e) = 0
                               /\ \A i \in Ids : ~Copy(map, b, i, e)
      BY <1>1, <1>3 DEF Kept, Stores, Copy
    <2>3. \A b \in Positions : ~Has(map, fate, disk, b, e)
      BY <2>2 DEF Has
    <2>4. fate[e] = "unmade"
      BY <1>1
    <2> QED BY <2>1, <2>2, <2>3, <2>4
        DEF Fits, OneObject, StoredOnce, AsFated, OnDiskToo
  <1>7. Consistent(World, disk)
    BY <1>1, <1>2, <1>5, <1>6 DEF Consistent
  <1>8. \A e \in Entities : World.fate[e] # "revived"
    BY <1>1
  <1> QED BY <1>1, <1>4, <1>7, <1>8 DEF ObjectsInv, Between

-----------------------------------------------------------------------------
\* Nothing is, or was, of e.
NothingOf(e, ob, mp, dk) ==
  /\ \A i \in Ids : ~Own(ob, i, e)
  /\ \A b \in Positions :
       /\ Stores(mp, dk, b, e) = 0 /\ \A i \in Ids : ~Copy(mp, b, i, e)
       /\ Kept(mp, b) => dk[b].held[e] = 0

Fresh(e, b, save) == [NewObject(e, b) EXCEPT !.save = save, !.block = Absent]
Placed(w, id, o, e) == [WithObject(w, id, o) EXCEPT !.fate = [w.fate EXCEPT ![e] = "there"]]
Added(w, e, b, save, id) ==
  IF save THEN WithStatic(Placed(w, id, Fresh(e, b, TRUE), e), id, TRUE, WriteNeeded)
  ELSE Placed(w, id, Fresh(e, b, FALSE), e)

\* core.add_entity adds an entity that was not there, with its copy or without.
LEMMA AddingKeeps ==
  ASSUME EntityConstants, disk \in Disks, NEW w, Consistent(w, disk), NEW e \in Entities,
         NEW b \in Positions, NEW save \in BOOLEAN, NEW id \in Ids, w.objs[id] = Absent,
         w.fate[e] = "unmade"
  PROVE  Added(w, e, b, save, id) \in Later(w)
  <1> DEFINE o == Fresh(e, b, save)
             u == WithObject(w, id, o)
             placed == Placed(w, id, o, e)
             s == Added(w, e, b, save, id)
  <1>1. /\ w \in Worlds /\ OldToo(w.map, disk) /\ Fits(e, w.objs, w.map, w.fate, disk)
        /\ WriteNeeded \in Levels /\ Absent \notin Bodies /\ Absent \notin Positions
    BY DEF Consistent, Levels, EntityConstants
  <1>2. o \in Bodies /\ o.entity = e /\ o.at = b /\ o.block = Absent /\ Lives(o)
    BY DEF Fresh, NewObject, Bodies, Lives
  <1>3. NothingOf(e, w.objs, w.map, disk)
    <2>1. \A i \in Ids : ~Own(w.objs, i, e)
      BY <1>1 DEF Fits, AsFated
    <2>2. \A c \in Positions, i \in Ids : ~Copy(w.map, c, i, e)
      BY <1>1, <2>1 DEF Fits, OneObject
    <2>3. \A c \in Positions : ~Has(w.map, w.fate, disk, c, e)
      BY <1>1 DEF Fits, AsFated
    <2>4. \A old : Counts(w.fate, e, old)
      BY DEF Counts
    <2>5. \A c \in Positions : Stores(w.map, disk, c, e) = 0
      BY <2>3, <2>4 DEF Has
    <2>6. \A c \in Positions : Kept(w.map, c) => ~DiskHas(w.fate, disk, c, e)
      BY <1>1, <2>2, <2>3 DEF Fits, OnDiskToo
    <2> QED BY <2>1, <2>2, <2>4, <2>5, <2>6 DEF NothingOf, DiskHas
  <1>4. /\ u \in Worlds /\ u.map = w.map /\ u.fate = w.fate
        /\ u.objs[id] = o /\ \A i \in Ids : i # id => u.objs[i] = w.objs[i]
    BY <1>1, <1>2, ObjectReplaced
  <1> HIDE DEF placed, s
  <1>5. /\ placed \in Worlds /\ placed.map = w.map /\ placed.objs = u.objs
        /\ placed.fate = [w.fate EXCEPT ![e] = "there"]
    <2>1. placed = [u EXCEPT !.fate = [w.fate EXCEPT ![e] = "there"]]
      BY DEF Placed, placed
    <2>2. [w.fate EXCEPT ![e] = "there"] \in [Entities -> Fates]
      BY <1>1 DEF Worlds, Fates
    <2> HIDE DEF u
    <2> QED BY <1>4, <2>1, <2>2 DEF Worlds
  <1>6. placed.fate[e] = "there" /\ \A f \in Entities : f # e => placed.fate[f] = w.fate[f]
    BY <1>1, <1>5 DEF Worlds
  <1>0. s = IF save THEN WithStatic(placed, id, TRUE, WriteNeeded) ELSE placed
    BY DEF Added, s, placed, o
  <1> HIDE DEF u, o
  <1>7. AllBut(e, placed, disk)
    <2>1. AllBut(e, w, disk)
      BY <1>1 DEF AllBut, Consistent
    <2>2. /\ placed.objs[id].entity = e /\ placed.map = w.map /\ placed \in Worlds
          /\ \A i \in Ids : i # id => placed.objs[i] = w.objs[i]
          /\ \A f \in Entities : f # e => placed.fate[f] = w.fate[f]
      BY <1>2, <1>4, <1>5, <1>6
    <2> QED BY <2>1, <2>2, OthersWhenChanged
  <1>8. \A i \in Ids : Own(placed.objs, i, e) <=> i = id
    BY <1>1, <1>2, <1>3, <1>4, <1>5 DEF Own, NothingOf
  <1>9. CASE ~save
    <2>1. s = placed
      BY <1>0, <1>9
    <2>2. OneObject(e, placed.objs, placed.map, disk)
      BY <1>1, <1>2, <1>3, <1>4, <1>5, <1>8 DEF OneObject, NothingOf, Lives
    <2>3. \A c \in Positions : ~Has(placed.map, placed.fate, disk, c, e)
      BY <1>3, <1>5 DEF Has, NothingOf
    <2>4. AsFated(e, placed.objs, placed.map, placed.fate, disk)
      BY <1>2, <1>4, <1>5, <1>6, <1>8 DEF AsFated
    <2>5. OnDiskToo(e, placed.objs, placed.map, placed.fate, disk)
      BY <1>3, <1>5, <2>3 DEF OnDiskToo, DiskHas, NothingOf
    <2>6. Fits(e, placed.objs, placed.map, placed.fate, disk)
      BY <2>2, <2>3, <2>4, <2>5 DEF Fits, StoredOnce
    <2>7. Consistent(s, disk)
      BY <1>7, <2>1, <2>6, AllOfThem
    <2>8. LoadedOrMarked(w.map, s.map, disk)
      BY <1>5, <2>1 DEF LoadedOrMarked, SameAge
    <2>9. s \in Worlds /\ \A f \in Entities : s.fate[f] = "revived" => w.fate[f] = "revived"
      BY <1>5, <1>6, <2>1
    <2> QED BY <2>7, <2>8, <2>9 DEF Later, s
  <1>10. CASE save
    <2>1. s = WithStatic(placed, id, TRUE, WriteNeeded)
      BY <1>0, <1>10
    <2>2. Put(placed, s, id, TRUE, WriteNeeded, disk) /\ placed.objs[id] = o
      <3>1. placed.objs[id] = o /\ o # Absent
        BY <1>1, <1>2, <1>4, <1>5
      <3> QED BY <1>1, <1>5, <2>1, <3>1, PuttingPuts
    <2>3. AllBut(e, s, disk)
      BY <1>1, <1>2, <1>7, <2>2, OthersWhenPut
    <2>4. /\ s \in Worlds /\ s.fate = placed.fate /\ s.objs[id] = [o EXCEPT !.block = b]
          /\ \A i \in Ids : i # id => s.objs[i] = placed.objs[i]
      BY <1>2, <2>2 DEF Put
    <2>5. /\ s.objs[id] \in Bodies /\ s.objs[id].entity = e /\ s.objs[id].block = b
          /\ Lives(s.objs[id]) /\ ~s.objs[id].removal
      BY <1>1, <1>2, <2>4, BodyElsewhere DEF Lives
    <2>6. \A c \in Positions :
            /\ Stores(s.map, disk, c, e) = 0
            /\ \A i \in Ids : Copy(s.map, c, i, e) <=> i = id /\ c = b
      BY <1>2, <1>3, <1>5, <2>2 DEF Put, NothingOf
    <2>7. LoadedOrMarked(w.map, s.map, disk) /\ ~Kept(s.map, b)
      <3>1. SameAge(w.map, s.map, disk) /\ Marked(w.map, s.map, b, WriteNeeded)
        BY <1>2, <1>5, <2>2 DEF Put
      <3> QED BY <3>1, MarkedIsLoadedOrMarked DEF Marked
    <2>8. \A c \in Positions : Kept(s.map, c) => disk[c].held[e] = 0
      <3>1. \A c \in Positions : w.map[c] = Absent => disk[c].held[e] = 0
        BY <1>3 DEF NothingOf, Stores
      <3> QED BY <1>3, <2>7, <3>1 DEF LoadedOrMarked, NothingOf
    <2>9. \A i \in Ids : Own(s.objs, i, e) <=> i = id
      BY <1>1, <1>8, <2>4, <2>5 DEF Own
    <2>10. OneObject(e, s.objs, s.map, disk)
      BY <2>5, <2>6, <2>9 DEF OneObject
    <2>11. \A c \in Positions : ~Has(s.map, s.fate, disk, c, e)
      BY <2>6 DEF Has
    <2>12. AsFated(e, s.objs, s.map, s.fate, disk)
      BY <1>6, <2>4, <2>5, <2>9 DEF AsFated
    <2>13. OnDiskToo(e, s.objs, s.map, s.fate, disk)
      BY <2>6, <2>7, <2>8, <2>11 DEF OnDiskToo, DiskHas
    <2>14. Fits(e, s.objs, s.map, s.fate, disk)
      BY <2>10, <2>11, <2>12, <2>13 DEF Fits, StoredOnce
    <2>15. Consistent(s, disk)
      BY <2>3, <2>14, AllOfThem
    <2>16. \A f \in Entities : s.fate[f] = "revived" => w.fate[f] = "revived"
      BY <1>6, <2>4
    <2> QED BY <2>4, <2>7, <2>15, <2>16 DEF Later, s
  <1> QED BY <1>9, <1>10

-----------------------------------------------------------------------------
\* A later world with the same disk and the same active blocks fits between two steps.
LEMMA BetweenStill ==
  ASSUME NEW w, NEW active, NEW runs, Between(w, disk, active, runs), NEW v \in Later(w)
  PROVE  Between(v, disk, active, runs)
  <1>1. /\ Consistent(v, disk) /\ SameAge(w.map, v.map, disk)
        /\ \A b \in Positions : v.map[b] = Absent => w.map[b] = Absent
        /\ \A e \in Entities : v.fate[e] = "revived" => w.fate[e] = "revived"
    BY DEF Later, LoadedOrMarked
  <1>2. ASSUME NEW b \in active PROVE v.map[b] # Absent /\ ~v.map[b].old
    <2>1. b \in Positions /\ w.map[b] # Absent /\ ~w.map[b].old
      BY DEF Between
    <2>2. v.map[b] # Absent
      BY <1>1, <2>1
    <2>3. Old(v.map, disk, b) = Old(w.map, disk, b)
      BY <1>1, <2>1 DEF SameAge
    <2> QED BY <2>1, <2>2, <2>3 DEF Old
  <1> QED BY <1>1, <1>2 DEF Between

\* An object's properties change, or it is to be removed.
Changed(o, p, there, meets) ==
  /\ p.entity = o.entity /\ p.block = o.block /\ p.deactivation = o.deactivation
  /\ \/ meets = there /\ p.removal = o.removal /\ (p.save = o.save \/ ~Gone(o))
     \/ /\ p.removal /\ ~Gone(o)
        /\ meets = IF there = "there" THEN "removed" ELSE there

\* A change of an object that leaves its copy alone keeps the world consistent.
LEMMA ChangingKeeps ==
  ASSUME EntityConstants, disk \in Disks, NEW w, Consistent(w, disk), NEW id \in Ids,
         w.objs[id] # Absent, NEW x \in Worlds, x.objs[id] \in Bodies, x.map = w.map,
         \A i \in Ids : i # id => x.objs[i] = w.objs[i],
         \A f \in Entities : f # w.objs[id].entity => x.fate[f] = w.fate[f],
         Changed(w.objs[id], x.objs[id], w.fate[w.objs[id].entity], x.fate[w.objs[id].entity])
  PROVE  x \in Later(w)
  <1> DEFINE o == w.objs[id]
             p == x.objs[id]
             e == o.entity
  <1>1. /\ WasObject(e, id, o.block, w.objs, w.map, w.fate, disk) /\ AllBut(e, w, disk)
        /\ o \in Bodies /\ e \in Entities /\ Absent \notin Bodies
    BY ItsObject DEF Bodies, EntityConstants
  <1>2. OnlyObject(e, id, o.block, w.objs, w.map, w.fate, disk)
    BY <1>1, WhatTheObjectWas
  <1>3. /\ Changed(o, p, w.fate[e], x.fate[e]) /\ p # Absent /\ p.entity = e
        /\ p.block = o.block /\ p.deactivation = o.deactivation
    BY <1>1 DEF Changed
  <1> HIDE DEF e
  <1>4. AllBut(e, x, disk)
    <2>1. /\ w.objs[id] # Absent => w.objs[id].entity = e
          /\ x.objs[id] # Absent => x.objs[id].entity = e
          /\ \A f \in Entities : f # e => x.fate[f] = w.fate[f]
      BY <1>3 DEF e
    <2> QED BY <1>1, <2>1, OthersWhenChanged
  <1>5. /\ \A i \in Ids : Own(x.objs, i, e) <=> i = id
        /\ \A i \in Ids : Own(w.objs, i, e) <=> i = id
    BY <1>2, <1>3 DEF Own, OnlyObject
  <1>6. Fits(e, w.objs, w.map, w.fate, disk)
    BY <1>1 DEF WasObject
  <1>7. OneObject(e, x.objs, x.map, disk)
    <2>1. p.removal /\ p.deactivation => p.block = Absent
      BY <1>3, <1>5, <1>6 DEF Changed, Fits, OneObject, Gone
    <2> HIDE DEF p, o
    <2> QED BY <1>3, <1>5, <1>6, <2>1 DEF Fits, OneObject, p, o
  <1>8. \A b \in Positions : ~Has(x.map, x.fate, disk, b, e) /\ ~Has(w.map, w.fate, disk, b, e)
    BY <1>2 DEF Has, OnlyObject
  <1>9. AsFated(e, x.objs, x.map, x.fate, disk)
    <2>1. w.fate[e] \notin {"unmade", "swept"} /\ (w.fate[e] = "there" => Lives(o))
      BY <1>2 DEF OnlyObject
    <2>2. w.fate[e] = "removed" => o.removal \/ (o.deactivation /\ o.block = Absent /\ ~o.save)
      BY <1>5, <1>6 DEF Fits, AsFated
    <2>3. /\ x.fate[e] \notin {"unmade", "swept"} /\ (x.fate[e] = "there" => Lives(p))
          /\ x.fate[e] = "removed" => p.removal \/ (p.deactivation /\ p.block = Absent /\ ~p.save)
      BY <1>3, <2>1, <2>2 DEF Changed, Lives, Gone
    <2> QED BY <1>5, <1>8, <2>3 DEF AsFated
  <1>10. OnDiskToo(e, x.objs, x.map, x.fate, disk)
    <2>1. \A b \in Positions : DiskHas(x.fate, disk, b, e) => DiskHas(w.fate, disk, b, e)
      BY <1>3 DEF DiskHas, Counts, Changed
    <2>2. w.fate[e] \in {"dropped", "revived"} => x.fate[e] = w.fate[e]
      BY <1>3 DEF Changed
    <2> HIDE DEF p, o
    <2>3. \A b \in Positions : Kept(x.map, b) /\ disk[b].held[e] # 0 =>
            \A i \in Ids : Own(x.objs, i, e) => x.objs[i].block = b
      BY <1>3, <1>5, <1>6 DEF Fits, OnDiskToo, p, o
    <2> QED BY <1>6, <1>8, <2>1, <2>2, <2>3 DEF Fits, OnDiskToo
  <1>11. Fits(e, x.objs, x.map, x.fate, disk)
    BY <1>7, <1>8, <1>9, <1>10 DEF Fits, StoredOnce
  <1>12. Consistent(x, disk)
    BY <1>4, <1>11, AllOfThem
  <1>13. \A f \in Entities : x.fate[f] = "revived" => w.fate[f] = "revived"
    BY <1>3 DEF Changed, e
  <1> QED BY <1>12, <1>13 DEF Later, LoadedOrMarked, SameAge

\* The inductive invariant after a step.
LEMMA StepKeeps ==
  ASSUME NEW x, NEW dk, NEW active, NEW runs, Between(x, dk, active, runs),
         objs' = x.objs, map' = x.map, fate' = x.fate, disk' = dk,
         m_active_blocks' = active, running' = runs
  PROVE  ObjectsInv'
  <1>1. World' = [objs |-> x.objs, map |-> x.map, fate |-> x.fate]
    BY DEF World
  <1>2. x = [objs |-> x.objs, map |-> x.map, fate |-> x.fate]
    BY DEF Between, Consistent, Worlds
  <1> QED BY <1>1, <1>2 DEF ObjectsInv

\* AddObject keeps the invariant.
LEMMA AddStep ==
  ASSUME EntityConstants, ObjectsInv, NEW e \in Entities, NEW b \in Positions,
         NEW save \in BOOLEAN, AddObject(e, b, save)
  PROVE  ObjectsInv'
  <1>1. /\ World.objs = objs /\ World.fate = fate
        /\ disk \in Disks /\ Consistent(World, disk)
    BY DEF ObjectsInv, Between, World
  <1>2. PICK id \in Free(World) :
          LET o == [NewObject(e, b) EXCEPT !.save = save, !.block = Absent]
              placed == [WithObject(World, id, o) EXCEPT !.fate = [fate EXCEPT ![e] = "there"]]
          IN Becomes(IF save THEN WithStatic(placed, id, TRUE, WriteNeeded) ELSE placed)
    BY DEF AddObject
  <1>3. fate[e] = "unmade" /\ UNCHANGED <<disk, m_active_blocks, running>>
    BY DEF AddObject
  <1>4. id \in Ids /\ World.objs[id] = Absent
    BY DEF Free
  <1>5. Becomes(Added(World, e, b, save, id))
    BY <1>1, <1>2 DEF Added, Placed, Fresh
  <1> DEFINE x == Added(World, e, b, save, id)
  <1>6. x \in Later(World)
    BY <1>1, <1>3, <1>4, AddingKeeps
  <1>7. objs' = x.objs /\ map' = x.map /\ fate' = x.fate
    BY <1>5 DEF Becomes
  <1> HIDE DEF x
  <1>8. Between(x, disk, m_active_blocks, running)
    BY <1>6, BetweenStill DEF ObjectsInv
  <1> QED BY <1>3, <1>7, <1>8, StepKeeps

-----------------------------------------------------------------------------
\* So does a change of one object,
LEMMA ChangeStep ==
  ASSUME EntityConstants, ObjectsInv, NEW id \in Ids, objs[id] # Absent, NEW p \in Bodies,
         ChangeObject(id, p), NEW ft \in [Entities -> Fates], fate' = ft,
         \A f \in Entities : f # objs[id].entity => ft[f] = fate[f],
         Changed(objs[id], p, fate[objs[id].entity], ft[objs[id].entity])
  PROVE  ObjectsInv'
  <1> DEFINE w == World
             x == [objs |-> [objs EXCEPT ![id] = p], map |-> map, fate |-> ft]
  <1>1. /\ w.objs = objs /\ w.fate = fate /\ w.map = map
        /\ disk \in Disks /\ Consistent(w, disk) /\ w \in Worlds
    BY DEF ObjectsInv, Between, World, Consistent
  <1>2. /\ objs \in [Ids -> Bodies \cup {Absent}]
        /\ map \in [Positions -> Contents \cup {Absent}]
    BY <1>1 DEF Worlds
  <1>3. x \in Worlds
    BY <1>2 DEF Worlds
  <1>4. /\ x.objs[id] = p /\ x.map = map /\ x.fate = ft
        /\ \A i \in Ids : i # id => x.objs[i] = objs[i]
    BY <1>2
  <1>5. /\ objs' = x.objs /\ map' = x.map
        /\ UNCHANGED <<disk, m_active_blocks, running>>
    BY DEF ChangeObject
  <1> HIDE DEF x, w
  <1>6. x \in Later(w)
    BY <1>1, <1>3, <1>4, ChangingKeeps
  <1>7. Between(x, disk, m_active_blocks, running)
    BY <1>6, BetweenStill DEF ObjectsInv, w
  <1> QED BY <1>4, <1>5, <1>7, StepKeeps

\* be it a move, static_save or what clients know,
LEMMA PropertyStep ==
  ASSUME EntityConstants, ObjectsInv, NEW id \in Ids, objs[id] # Absent,
         \/ \E b \in Positions : Move(id, b)
         \/ SetStaticSave(id) \/ Know(id) \/ Forget(id)
  PROVE  ObjectsInv'
  <1> DEFINE o == objs[id]
  <1>1. Worlds = [objs : [Ids -> Bodies \cup {Absent}],
                  map : [Positions -> Contents \cup {Absent}], fate : [Entities -> Fates]]
    BY DEF Worlds
  <1>2. fate \in [Entities -> Fates] /\ o \in Bodies
    <2>1. World \in Worlds /\ World.objs = objs /\ World.fate = fate
      BY DEF ObjectsInv, Between, World, Consistent
    <2> QED BY <1>1, <2>1
  <1> HIDE DEF o
  <1>3. ASSUME NEW b \in Positions, Move(id, b) PROVE ObjectsInv'
    <2> DEFINE p == [o EXCEPT !.at = b]
    <2>1. ChangeObject(id, p) /\ fate' = fate
      BY <1>3 DEF Move, o
    <2>2. p \in Bodies /\ Changed(o, p, fate[o.entity], fate[o.entity])
      BY <1>2 DEF Bodies, Changed
    <2> HIDE DEF p
    <2> QED BY <1>2, <2>1, <2>2, ChangeStep DEF o
  <1>4. CASE SetStaticSave(id)
    <2> DEFINE p == [o EXCEPT !.save = ~o.save]
    <2>1. ChangeObject(id, p) /\ fate' = fate /\ ~Gone(o)
      BY <1>4 DEF SetStaticSave, o
    <2>2. p \in Bodies /\ Changed(o, p, fate[o.entity], fate[o.entity])
      BY <1>2, <2>1 DEF Bodies, Changed
    <2> HIDE DEF p
    <2> QED BY <1>2, <2>1, <2>2, ChangeStep DEF o
  <1>5. ASSUME NEW known \in BOOLEAN, ChangeObject(id, [o EXCEPT !.known = known]), fate' = fate
        PROVE  ObjectsInv'
    <2> DEFINE p == [o EXCEPT !.known = known]
    <2>1. p \in Bodies /\ Changed(o, p, fate[o.entity], fate[o.entity])
      BY <1>2 DEF Bodies, Changed
    <2> HIDE DEF p
    <2>2. ChangeObject(id, p)
      BY <1>5 DEF p
    <2> QED BY <1>2, <1>5, <2>1, <2>2, ChangeStep DEF o
  <1>6. CASE Know(id)
    BY <1>5, <1>6 DEF Know, o
  <1>7. CASE Forget(id)
    BY <1>5, <1>7 DEF Forget, o
  <1> QED BY <1>3, <1>4, <1>6, <1>7

\* or that it is to be removed.
LEMMA RemoveStep ==
  ASSUME EntityConstants, ObjectsInv, NEW id \in Ids, objs[id] # Absent, RemoveObject(id)
  PROVE  ObjectsInv'
  <1> DEFINE o == objs[id]
             p == [o EXCEPT !.removal = TRUE]
             e == o.entity
             ft == Meet(fate, {e}, "removed")
  <1>1. fate \in [Entities -> Fates] /\ o \in Bodies /\ e \in Entities
    BY DEF ObjectsInv, Between, World, Consistent, Worlds, Bodies
  <1>2. ChangeObject(id, p) /\ fate' = ft /\ ~Gone(o)
    BY DEF RemoveObject
  <1>3. ft = [f \in Entities |-> IF f = e /\ fate[f] = "there" THEN "removed" ELSE fate[f]]
    BY DEF Meet
  <1>4. /\ ft \in [Entities -> Fates] /\ \A f \in Entities : f # e => ft[f] = fate[f]
        /\ ft[e] = IF fate[e] = "there" THEN "removed" ELSE fate[e]
    BY <1>1, <1>3 DEF Fates
  <1>5. p \in Bodies /\ Changed(o, p, fate[e], ft[e])
    BY <1>1, <1>2, <1>4 DEF Bodies, Changed
  <1> HIDE DEF ft, p
  <1> QED BY <1>2, <1>4, <1>5, ChangeStep

-----------------------------------------------------------------------------
\* What is written of a block: of an entity that has a copy, or is stored, one.
LEMMA WhatIsWritten ==
  ASSUME EntityConstants, NEW dk, NEW w, Consistent(w, dk), NEW b \in Positions, w.map[b] # Absent
  PROVE  /\ OnDisk(w.map[b]) \in [held : Held, old : BOOLEAN]
         /\ OnDisk(w.map[b]).old = Old(w.map, dk, b)
         /\ \A e \in Entities : OnDisk(w.map[b]).held[e] =
              IF \E i \in Ids : Copy(w.map, b, i, e) THEN 1 ELSE Stores(w.map, dk, b, e)
  <1> DEFINE k == w.map[b]
             of(e) == {x \in k.active : x.entity = e}
  <1>1. /\ k \in Contents /\ k.active \subseteq Copies /\ k.stored \in [Entities -> Nat]
        /\ k.old \in BOOLEAN
    BY DEF Consistent, Worlds, Contents, Held
  <1>2. ASSUME NEW e \in Entities
        PROVE  k.stored[e] + Cardinality(of(e)) =
                 IF \E i \in Ids : Copy(w.map, b, i, e) THEN 1 ELSE Stores(w.map, dk, b, e)
    <2>1. Stores(w.map, dk, b, e) = k.stored[e] /\ k.stored[e] \in Nat
      BY <1>1 DEF Stores
    <2>2. \A x \in Copies : x = [id |-> x.id, entity |-> x.entity] /\ x.id \in Ids
      BY DEF Copies
    <2>3. CASE \E i \in Ids : Copy(w.map, b, i, e)
      <3>1. PICK i \in Ids : Copy(w.map, b, i, e)
        BY <2>3
      <3>2. OneObject(e, w.objs, w.map, dk)
        BY DEF Consistent, Fits
      <3>3. \A j \in Ids : Copy(w.map, b, j, e) => j = i
        BY <3>1, <3>2 DEF OneObject
      <3>4. Stores(w.map, dk, b, e) = 0
        BY <3>1, <3>2 DEF OneObject
      <3>5. of(e) = {[id |-> i, entity |-> e]}
        <4>1. [id |-> i, entity |-> e] \in of(e)
          BY <3>1 DEF Copy
        <4>2. ASSUME NEW x \in of(e) PROVE x = [id |-> i, entity |-> e]
          <5>1. x \in k.active /\ x.entity = e
            OBVIOUS
          <5>2. x = [id |-> x.id, entity |-> e] /\ x.id \in Ids
            BY <1>1, <2>2, <5>1
          <5>3. Copy(w.map, b, x.id, e)
            BY <5>1, <5>2 DEF Copy
          <5> QED BY <3>3, <5>2, <5>3
        <4> HIDE DEF of
        <4> QED BY <4>1, <4>2
      <3>6. Cardinality(of(e)) = 1
        BY <3>5, FS_Singleton
      <3> HIDE DEF of
      <3> QED BY <2>1, <2>3, <3>4, <3>6
    <2>4. CASE ~\E i \in Ids : Copy(w.map, b, i, e)
      <3>1. of(e) = {}
        <4> SUFFICES ASSUME NEW x \in of(e) PROVE FALSE
          OBVIOUS
        <4>1. x \in k.active /\ x.entity = e
          OBVIOUS
        <4>2. x = [id |-> x.id, entity |-> e] /\ x.id \in Ids
          BY <1>1, <2>2, <4>1
        <4> QED BY <2>4, <4>1, <4>2 DEF Copy
      <3>2. Cardinality(of(e)) = 0
        BY <3>1, FS_EmptySet
      <3> HIDE DEF of
      <3> QED BY <2>1, <2>4, <3>2
    <2> QED BY <2>3, <2>4
  <1>3. OnDisk(k) = [held |-> [e \in Entities |-> k.stored[e] + Cardinality(of(e))],
                     old |-> k.old]
    BY DEF OnDisk
  <1>4. \A e \in Entities : Stores(w.map, dk, b, e) \in Nat
    BY <1>1 DEF Stores
  <1> HIDE DEF of
  <1>5. \A e \in Entities : k.stored[e] + Cardinality(of(e)) \in Nat
    BY <1>2, <1>4
  <1>6. OnDisk(k) \in [held : Held, old : BOOLEAN]
    BY <1>1, <1>3, <1>5 DEF Held
  <1>7. OnDisk(k).old = Old(w.map, dk, b)
    BY <1>3 DEF Old
  <1>8. \A e \in Entities : OnDisk(k).held[e] = k.stored[e] + Cardinality(of(e))
    BY <1>3
  <1> HIDE DEF k
  <1>9. \A e \in Entities : OnDisk(k).held[e] =
          IF \E i \in Ids : Copy(w.map, b, i, e) THEN 1 ELSE Stores(w.map, dk, b, e)
    BY <1>2, <1>8
  <1> QED BY <1>6, <1>7, <1>9 DEF k

\* Block b stays as it is; or it is written; or it is unloaded, without copies, and
\* written if that is necessary.
Stays(mp, mp2, dk, dk2, b) == mp2[b] = mp[b] /\ dk2[b] = dk[b]
IsWritten(mp, mp2, dk2, b) ==
  /\ mp[b] # Absent /\ mp2[b] # Absent /\ dk2[b] = OnDisk(mp[b])
  /\ mp2[b].stored = mp[b].stored /\ mp2[b].active = mp[b].active /\ mp2[b].old = mp[b].old
IsUnloaded(mp, mp2, dk, dk2, b) ==
  /\ mp[b] # Absent /\ mp2[b] = Absent
  /\ \A e \in Entities, i \in Ids : ~Copy(mp, b, i, e)
  /\ dk2[b] = OnDisk(mp[b]) \/ (dk2[b] = dk[b] /\ Kept(mp, b))
GoesOut(mp, mp2, dk, dk2) == \A b \in Positions :
  \/ Stays(mp, mp2, dk, dk2, b) \/ IsWritten(mp, mp2, dk2, b)
  \/ IsUnloaded(mp, mp2, dk, dk2, b)

\* What a block has of e before and after.
SeenOut(e, mp, mp2, ft, dk, dk2, b) ==
  LET copy == \E i \in Ids : Copy(mp, b, i, e) IN
  /\ \A i \in Ids : Copy(mp2, b, i, e) <=> Copy(mp, b, i, e)
  /\ \/ /\ Stores(mp2, dk2, b, e) = Stores(mp, dk, b, e)
        /\ Has(mp2, ft, dk2, b, e) <=> Has(mp, ft, dk, b, e)
        /\ Kept(mp2, b) =>
             \/ /\ Kept(mp, b) /\ dk2[b].held[e] = dk[b].held[e]
                /\ DiskHas(ft, dk2, b, e) <=> DiskHas(ft, dk, b, e)
             \/ /\ dk2[b].held[e] = IF copy THEN 1 ELSE Stores(mp, dk, b, e)
                /\ ~copy => (DiskHas(ft, dk2, b, e) <=> Has(mp, ft, dk, b, e))
     \/ /\ ~Kept(mp2, b) /\ Kept(mp, b) /\ ~copy
        /\ Stores(mp2, dk2, b, e) = dk[b].held[e]
        /\ Has(mp2, ft, dk2, b, e) <=> DiskHas(ft, dk, b, e)

\* What is seen of an entity on the disk once blocks went out to it.
LEMMA OutIsSeen ==
  ASSUME EntityConstants, NEW dk, NEW dk2, NEW w, NEW mp2, Consistent(w, dk),
         NEW e \in Entities, NEW b \in Positions, GoesOut(w.map, mp2, dk, dk2)
  PROVE  SeenOut(e, w.map, mp2, w.fate, dk, dk2, b)
  <1> DEFINE mp == w.map
             ft == w.fate
             copy == \E i \in Ids : Copy(mp, b, i, e)
  <1>1. CASE Stays(mp, mp2, dk, dk2, b)
    BY <1>1 DEF Stays, SeenOut, Copy, Stores, Has, DiskHas, Kept, Old
  <1>2. mp[b] # Absent =>
          /\ OnDisk(mp[b]).old = Old(mp, dk, b)
          /\ OnDisk(mp[b]).held[e] = IF copy THEN 1 ELSE Stores(mp, dk, b, e)
    BY WhatIsWritten
  <1>3. CASE IsWritten(mp, mp2, dk2, b)
    <2>1. /\ \A i \in Ids : Copy(mp2, b, i, e) <=> Copy(mp, b, i, e)
          /\ Stores(mp2, dk2, b, e) = Stores(mp, dk, b, e) /\ Old(mp2, dk2, b) = Old(mp, dk, b)
      BY <1>3 DEF IsWritten, Copy, Stores, Old
    <2>2. dk2[b].old = Old(mp, dk, b) /\ dk2[b].held[e] = IF copy THEN 1 ELSE Stores(mp, dk, b, e)
      BY <1>2, <1>3 DEF IsWritten
    <2> HIDE DEF mp, ft
    <2>3. Has(mp2, ft, dk2, b, e) <=> Has(mp, ft, dk, b, e)
      BY <2>1 DEF Has
    <2>4. ~copy => (DiskHas(ft, dk2, b, e) <=> Has(mp, ft, dk, b, e))
      BY <2>2 DEF Has, DiskHas
    <2> QED BY <2>1, <2>2, <2>3, <2>4 DEF SeenOut, mp, ft
  <1>4. CASE IsUnloaded(mp, mp2, dk, dk2, b)
    <2>1. ~copy /\ ~Kept(mp2, b) /\ mp[b] # Absent /\ \A i \in Ids : ~Copy(mp2, b, i, e)
      BY <1>4 DEF IsUnloaded, Kept, Copy
    <2>2. Stores(mp2, dk2, b, e) = dk2[b].held[e] /\ Old(mp2, dk2, b) = dk2[b].old
      BY <1>4 DEF IsUnloaded, Stores, Old
    <2>3. CASE dk2[b] = OnDisk(mp[b])
      <3>1. Stores(mp2, dk2, b, e) = Stores(mp, dk, b, e) /\ Old(mp2, dk2, b) = Old(mp, dk, b)
        BY <1>2, <2>1, <2>2, <2>3
      <3> HIDE DEF mp, ft
      <3>2. Has(mp2, ft, dk2, b, e) <=> Has(mp, ft, dk, b, e)
        BY <3>1 DEF Has
      <3> QED BY <2>1, <3>1, <3>2 DEF SeenOut, mp, ft
    <2>4. CASE dk2[b] = dk[b] /\ Kept(mp, b)
      <3> HIDE DEF mp, ft
      <3>1. Has(mp2, ft, dk2, b, e) <=> DiskHas(ft, dk, b, e)
        BY <2>2, <2>4 DEF Has, DiskHas
      <3> QED BY <2>1, <2>2, <2>4, <3>1 DEF SeenOut, mp, ft
    <2> QED BY <1>4, <2>3, <2>4 DEF IsUnloaded
  <1> QED BY <1>1, <1>3, <1>4 DEF GoesOut

-----------------------------------------------------------------------------
\* Of one entity the disk then has what the blocks had.
LEMMA OutFits ==
  ASSUME NEW e, NEW ob, NEW mp, NEW mp2, NEW ft, NEW dk, NEW dk2, Fits(e, ob, mp, ft, dk),
         \A b \in Positions : SeenOut(e, mp, mp2, ft, dk, dk2, b)
  PROVE  Fits(e, ob, mp2, ft, dk2)
  <1> DEFINE copy(b) == \E i \in Ids : Copy(mp, b, i, e)
             H(b) == Has(mp, ft, dk, b, e)
             H2(b) == Has(mp2, ft, dk2, b, e)
             D(b) == DiskHas(ft, dk, b, e)
             D2(b) == DiskHas(ft, dk2, b, e)
             K(b) == Kept(mp, b)
             K2(b) == Kept(mp2, b)
  <1>1. /\ OneObject(e, ob, mp, dk) /\ StoredOnce(e, mp, ft, dk)
        /\ AsFated(e, ob, mp, ft, dk) /\ OnDiskToo(e, ob, mp, ft, dk)
    BY DEF Fits
  <1>2. ASSUME NEW b \in Positions
        PROVE  /\ \A i \in Ids : Copy(mp2, b, i, e) <=> Copy(mp, b, i, e)
               /\ H2(b) <=> H(b) \/ (D(b) /\ K(b) /\ ~K2(b) /\ ~copy(b) /\ H2(b))
               /\ H2(b) /\ ~H(b) => D(b) /\ K(b)
               /\ H(b) => H2(b)
               /\ Stores(mp2, dk2, b, e) = Stores(mp, dk, b, e) \/
                    (K(b) /\ ~copy(b) /\ Stores(mp2, dk2, b, e) = dk[b].held[e])
    <2>1. K(b) => (H(b) => D(b))
      BY <1>1 DEF OnDiskToo
    <2>2. SeenOut(e, mp, mp2, ft, dk, dk2, b)
      OBVIOUS
    <2> QED BY <2>1, <2>2 DEF SeenOut
  <1>3. ASSUME NEW b \in Positions, K2(b)
        PROVE  \/ K(b) /\ dk2[b].held[e] = dk[b].held[e] /\ (D2(b) <=> D(b)) /\ (H2(b) <=> H(b))
               \/ /\ dk2[b].held[e] = IF copy(b) THEN 1 ELSE Stores(mp, dk, b, e)
                  /\ (H2(b) <=> H(b)) /\ (~copy(b) => (D2(b) <=> H(b)))
    BY <1>3 DEF SeenOut
  \* What was known of the blocks.
  <1>4. \A b, c \in Positions : H(b) /\ H(c) => b = c
    BY <1>1 DEF StoredOnce
  <1>5. \A b, c \in Positions : K(b) /\ D(b) /\ (H(c) \/ (K(c) /\ D(c))) => b = c
    BY <1>1 DEF OnDiskToo
  <1>6. \A b, c \in Positions : copy(c) => ~H(b)
    BY <1>1 DEF OneObject, Has
  <1>7. \A b, c \in Positions : copy(b) /\ copy(c) => b = c
    BY <1>1 DEF OneObject
  <1>8. \A b, c \in Positions : K(b) /\ dk[b].held[e] # 0 /\ copy(c) => b = c
    BY <1>1 DEF OneObject, OnDiskToo
  <1>9. \A b \in Positions : H(b) => Stores(mp, dk, b, e) = 1
    BY <1>1 DEF StoredOnce
  <1>10. \A b \in Positions : K(b) /\ D(b) => dk[b].held[e] = 1
    BY <1>1 DEF OnDiskToo
  <1>11. \A b \in Positions : D(b) => dk[b].held[e] # 0
    BY DEF DiskHas
  <1>12. \A b \in Positions : H(b) => Stores(mp, dk, b, e) # 0
    BY DEF Has
  <1>13. \A b \in Positions : D2(b) => dk2[b].held[e] # 0
    BY DEF DiskHas
  <1>14. \A b \in Positions : H2(b) => Stores(mp2, dk2, b, e) # 0
    BY DEF Has
  <1> HIDE DEF H, H2, D, D2, K, K2
  <1>15. OneObject(e, ob, mp2, dk2)
    <2>1. ASSUME NEW i \in Ids, Own(ob, i, e), NEW b \in Positions
          PROVE  Stores(mp2, dk2, b, e) = 0
      <3>1. Stores(mp, dk, b, e) = 0
        BY <1>1, <2>1 DEF OneObject
      <3>2. K(b) /\ ~copy(b) => dk[b].held[e] = 0
        BY <1>1, <2>1 DEF OneObject, OnDiskToo, K
      <3> QED BY <1>2, <3>1, <3>2
    <2> QED BY <1>1, <1>2, <2>1 DEF OneObject
  <1>16. StoredOnce(e, mp2, ft, dk2)
    <2>1. ASSUME NEW b \in Positions, H2(b) PROVE Stores(mp2, dk2, b, e) = 1
      <3>1. CASE H(b)
        <4>1. K(b) => dk[b].held[e] = 1
          BY <1>1, <1>10, <3>1 DEF OnDiskToo, K, H, D
        <4> QED BY <1>2, <1>9, <3>1, <4>1
      <3>2. CASE ~H(b)
        <4>1. D(b) /\ K(b)
          BY <1>2, <2>1, <3>2
        <4>2. Stores(mp2, dk2, b, e) = Stores(mp, dk, b, e) => dk[b].held[e] = 1
          BY <1>10, <4>1
        <4>3. SeenOut(e, mp, mp2, ft, dk, dk2, b)
          OBVIOUS
        <4>4. Stores(mp2, dk2, b, e) = dk[b].held[e]
          BY <2>1, <3>2, <4>3 DEF SeenOut, H, H2
        <4> QED BY <1>10, <4>1, <4>4
      <3> QED BY <3>1, <3>2
    <2>2. ASSUME NEW b \in Positions, NEW c \in Positions, H2(b), H2(c) PROVE c = b
      BY <1>2, <1>4, <1>5, <2>2
    <2> QED BY <2>1, <2>2 DEF StoredOnce, H2
  <1>17. AsFated(e, ob, mp2, ft, dk2)
    <2>1. ft[e] = "there" => (\E b \in Positions : H2(b)) \/ \E i \in Ids : Own(ob, i, e) /\ Lives(ob[i])
      BY <1>1, <1>2 DEF AsFated, H
    <2>2. ASSUME ft[e] \in {"unmade", "removed", "swept"}, NEW b \in Positions PROVE ~H2(b)
      <3>1. ~H(b)
        BY <1>1, <2>2 DEF AsFated, H
      <3>2. K(b) /\ D(b) => H(b) \/ copy(b)
        BY <1>1, <2>2 DEF OnDiskToo, H, D, K
      <3> QED BY <1>2, <3>1, <3>2
    <2> QED BY <1>1, <2>1, <2>2 DEF AsFated, H2
  <1>18. OnDiskToo(e, ob, mp2, ft, dk2)
    <2> SUFFICES ASSUME NEW b \in Positions, K2(b)
                 PROVE  /\ H2(b) => D2(b)
                        /\ copy(b) => dk2[b].held[e] = 1
                        /\ D2(b) =>
                             /\ ft[e] \in {"dropped", "revived"} \/ H2(b) \/ copy(b)
                             /\ dk2[b].held[e] = 1
                             /\ \A c \in Positions : H2(c) => c = b
                             /\ \A c \in Positions : K2(c) /\ D2(c) => c = b
                        /\ dk2[b].held[e] # 0 => \A i \in Ids : Own(ob, i, e) => ob[i].block = b
      BY <1>2 DEF OnDiskToo, H2, D2, K2
    <2>1. /\ K(b) => (H(b) => D(b)) /\ (copy(b) => dk[b].held[e] = 1)
          /\ K(b) /\ D(b) => ft[e] \in {"dropped", "revived"} \/ H(b) \/ copy(b)
          /\ K(b) /\ dk[b].held[e] # 0 => \A i \in Ids : Own(ob, i, e) => ob[i].block = b
      BY <1>1 DEF OnDiskToo, H, D, K
    <2>2. \A i \in Ids : Own(ob, i, e) => Stores(mp, dk, b, e) = 0 /\ (copy(b) => ob[i].block = b)
      BY <1>1 DEF OneObject
    <2>3. (H2(b) => D2(b)) /\ (copy(b) => dk2[b].held[e] = 1)
      BY <1>3, <1>6, <2>1
    <2>4. D2(b) => ft[e] \in {"dropped", "revived"} \/ H2(b) \/ copy(b)
      BY <1>3, <2>1
    <2>5. D2(b) => dk2[b].held[e] = 1
      BY <1>3, <1>9, <1>10, <2>1
    <2>6. D2(b) => \A c \in Positions : H2(c) => c = b
      BY <1>2, <1>3, <1>4, <1>5, <1>6, <1>8, <1>11, <2>1
    <2>7. D2(b) => \A c \in Positions : K2(c) /\ D2(c) => c = b
      BY <1>3, <1>4, <1>5, <1>6, <1>7, <1>8, <1>11, <2>1
    <2>8. dk2[b].held[e] # 0 => \A i \in Ids : Own(ob, i, e) => ob[i].block = b
      BY <1>3, <2>1, <2>2
    <2> QED BY <2>3, <2>4, <2>5, <2>6, <2>7, <2>8
  <1> QED BY <1>15, <1>16, <1>17, <1>18 DEF Fits

-----------------------------------------------------------------------------
\* So it is of all of them: blocks that are written, unloaded or loaded lose nothing.
LEMMA OutKeeps ==
  ASSUME EntityConstants, NEW dk \in Disks, NEW dk2, NEW w, NEW x \in Worlds,
         Consistent(w, dk), x.objs = w.objs, x.fate = w.fate,
         dk2 = [b \in Positions |-> dk2[b]], GoesOut(w.map, x.map, dk, dk2)
  PROVE  dk2 \in Disks /\ Consistent(x, dk2)
  <1>1. ASSUME NEW e \in Entities PROVE Fits(e, x.objs, x.map, x.fate, dk2)
    <2>1. \A b \in Positions : SeenOut(e, w.map, x.map, w.fate, dk, dk2, b)
      BY OutIsSeen
    <2>2. Fits(e, w.objs, w.map, w.fate, dk)
      BY DEF Consistent
    <2> QED BY <2>1, <2>2, OutFits
  <1>2. OldToo(x.map, dk2)
    <2> SUFFICES ASSUME NEW b \in Positions, Kept(x.map, b), x.map[b].old PROVE dk2[b].old
      BY DEF OldToo
    <2>1. OldToo(w.map, dk)
      BY DEF Consistent
    <2>2. CASE Stays(w.map, x.map, dk, dk2, b)
      BY <2>1, <2>2 DEF Stays, OldToo, Kept
    <2>3. CASE IsWritten(w.map, x.map, dk2, b)
      <3>1. OnDisk(w.map[b]).old = w.map[b].old
        BY DEF OnDisk
      <3> QED BY <2>3, <3>1 DEF IsWritten
    <2>4. ~IsUnloaded(w.map, x.map, dk, dk2, b)
      BY DEF IsUnloaded, Kept
    <2> QED BY <2>2, <2>3, <2>4 DEF GoesOut
  <1>3. dk2 \in Disks
    <2> SUFFICES ASSUME NEW b \in Positions PROVE dk2[b] \in [held : Held, old : BOOLEAN]
      BY DEF Disks
    <2>1. dk[b] \in [held : Held, old : BOOLEAN]
      BY DEF Disks
    <2>2. w.map[b] # Absent => OnDisk(w.map[b]) \in [held : Held, old : BOOLEAN]
      BY WhatIsWritten
    <2>3. dk2[b] = dk[b] \/ (w.map[b] # Absent /\ dk2[b] = OnDisk(w.map[b]))
      BY DEF GoesOut, Stays, IsWritten, IsUnloaded
    <2> QED BY <2>1, <2>2, <2>3
  <1> QED BY <1>1, <1>2, <1>3 DEF Consistent

\* What is used of the invariant in the steps.
LEMMA BetweenSteps ==
  ASSUME ObjectsInv
  PROVE  /\ World.objs = objs /\ World.map = map /\ World.fate = fate /\ World \in Worlds
         /\ disk \in Disks /\ Consistent(World, disk)
         /\ map \in [Positions -> Contents \cup {Absent}]
         /\ \A b \in m_active_blocks : b \in Positions /\ map[b] # Absent /\ ~map[b].old
         /\ m_active_blocks \subseteq Positions /\ running \in BOOLEAN
         /\ running => \A e \in Entities : fate[e] # "revived"
  BY DEF ObjectsInv, Between, World, Consistent, Worlds

\* LoadBlock keeps the invariant.
LEMMA LoadStep ==
  ASSUME EntityConstants, ObjectsInv, NEW b \in Positions, LoadBlock(b)
  PROVE  ObjectsInv'
  <1> DEFINE w == World
             x == WithBlock(w, b, Emerged(w.map, b))
  <1>1. /\ w.objs = objs /\ w.map = map /\ w.fate = fate /\ w \in Worlds
        /\ disk \in Disks /\ Consistent(w, disk)
    BY BetweenSteps
  <1>2. x.map = [map EXCEPT ![b] = Emerged(map, b)]
    BY <1>1 DEF WithBlock
  <1>3. /\ map' = x.map
        /\ UNCHANGED <<objs, disk, m_active_blocks, running, fate>>
    BY <1>2 DEF LoadBlock
  <1> HIDE DEF w
  <1>4. WasLoaded(w, x, b, disk)
    BY <1>1, LoadingLoads
  <1> HIDE DEF x
  <1>5. /\ x \in Worlds /\ x.fate = fate /\ x.objs = objs
        /\ \A f \in Entities : SameStored(f, w.map, x.map, disk) /\ SameCopies(f, w.map, x.map)
        /\ LoadedOrMarked(w.map, x.map, disk)
    BY <1>1, <1>4, MarkedIsLoadedOrMarked DEF WasLoaded
  <1>6. ASSUME NEW e \in Entities PROVE Fits(e, x.objs, x.map, x.fate, disk)
    <2>1. Fits(e, w.objs, w.map, w.fate, disk)
      BY <1>1 DEF Consistent
    <2>2. SameObjects(e, w.objs, x.objs) /\ x.fate[e] = w.fate[e]
      BY <1>1, <1>5 DEF SameObjects
    <2> QED BY <1>5, <2>1, <2>2, Undisturbed
  <1>7. OldToo(x.map, disk)
    BY <1>1, <1>5, OldStays DEF Consistent
  <1>8. x \in Later(w)
    BY <1>1, <1>5, <1>6, <1>7 DEF Later, Consistent
  <1>9. Between(x, disk, m_active_blocks, running)
    BY <1>8, BetweenStill DEF ObjectsInv, w
  <1> QED BY <1>3, <1>5, <1>9, StepKeeps

\* So does UnloadBlock, if no active object has its copy in the block,
LEMMA UnloadStep ==
  ASSUME EntityConstants, ObjectsInv, NEW b \in Positions, UnloadBlock(b)
  PROVE  ObjectsInv'
  <1> DEFINE w == World
             x == [objs |-> objs, map |-> [map EXCEPT ![b] = Absent], fate |-> fate]
             dk == IF map[b].modified = Clean THEN disk ELSE [disk EXCEPT ![b] = OnDisk(map[b])]
  <1>1. /\ w.objs = objs /\ w.map = map /\ w.fate = fate /\ w \in Worlds
        /\ disk \in Disks /\ Consistent(w, disk)
        /\ map \in [Positions -> Contents \cup {Absent}]
    BY BetweenSteps
  <1>2. /\ objs' = x.objs /\ map' = x.map /\ fate' = x.fate /\ disk' = dk
        /\ UNCHANGED <<m_active_blocks, running>>
        /\ map[b] # Absent /\ map[b].active = {} /\ b \notin m_active_blocks
    BY DEF UnloadBlock, EntityConstants
  <1>3. x \in Worlds
    <2>1. [map EXCEPT ![b] = Absent] \in [Positions -> Contents \cup {Absent}]
      BY <1>1
    <2> QED BY <1>1, <2>1 DEF Worlds, World
  <1>4. /\ x.map[b] = Absent /\ \A c \in Positions : c # b => x.map[c] = map[c]
    BY <1>1
  <1>5. /\ dk = [c \in Positions |-> dk[c]]
        /\ \A c \in Positions : c # b => dk[c] = disk[c]
        /\ dk[b] = OnDisk(map[b]) \/ (dk[b] = disk[b] /\ Kept(map, b))
    <2>1. disk = [c \in Positions |-> disk[c]]
      BY <1>1 DEF Disks
    <2>2. CASE map[b].modified = Clean
      BY <1>2, <2>1, <2>2 DEF Kept, Clean, WriteNeeded
    <2>3. CASE map[b].modified # Clean
      BY <2>1, <2>3
    <2> QED BY <2>2, <2>3
  <1> HIDE DEF dk, w
  <1>6. GoesOut(w.map, x.map, disk, dk)
    <2> SUFFICES ASSUME NEW c \in Positions
                 PROVE  Stays(map, x.map, disk, dk, c) \/ IsUnloaded(map, x.map, disk, dk, c)
      BY <1>1 DEF GoesOut
    <2>1. CASE c = b
      BY <1>2, <1>4, <1>5, <2>1 DEF IsUnloaded, Copy
    <2>2. CASE c # b
      BY <1>4, <1>5, <2>2 DEF Stays
    <2> QED BY <2>1, <2>2
  <1>7. dk \in Disks /\ Consistent(x, dk)
    <2>1. x.objs = w.objs /\ x.fate = w.fate
      BY <1>1
    <2> HIDE DEF x
    <2> QED BY <1>1, <1>3, <1>5, <1>6, <2>1, OutKeeps
  <1>8. Between(x, dk, m_active_blocks, running)
    <2>1. \A c \in m_active_blocks : x.map[c] # Absent /\ ~x.map[c].old
      BY <1>2, <1>4, BetweenSteps
    <2>2. x.fate = fate
      OBVIOUS
    <2> HIDE DEF x
    <2> QED BY <1>7, <2>1, <2>2, BetweenSteps DEF Between
  <1> QED BY <1>2, <1>8, StepKeeps

\* and Save,
LEMMA SaveStep ==
  ASSUME EntityConstants, ObjectsInv, Save
  PROVE  ObjectsInv'
  <1> DEFINE w == World
             written(b) == map[b] # Absent /\ map[b].modified = WriteNeeded
             x == [objs |-> objs, fate |-> fate, map |-> [b \in Positions |->
                     IF written(b) THEN [map[b] EXCEPT !.modified = Clean] ELSE map[b]]]
             dk == Written(map, WriteNeeded)
  <1>1. /\ w.objs = objs /\ w.map = map /\ w.fate = fate /\ w \in Worlds
        /\ disk \in Disks /\ Consistent(w, disk)
        /\ map \in [Positions -> Contents \cup {Absent}]
    BY BetweenSteps
  <1>2. /\ objs' = x.objs /\ map' = x.map /\ fate' = x.fate /\ disk' = dk
        /\ UNCHANGED <<m_active_blocks, running>>
    BY DEF Save
  <1>3. ASSUME NEW b \in Positions
        PROVE  /\ x.map[b] \in Contents \cup {Absent}
               /\ Stays(map, x.map, disk, dk, b) \/ IsWritten(map, x.map, dk, b)
               /\ x.map[b] = Absent <=> map[b] = Absent
               /\ map[b] # Absent => x.map[b].old = map[b].old
    <2> DEFINE k == [map[b] EXCEPT !.modified = Clean]
    <2>1. map[b] # Absent => map[b] \in Contents /\ map[b].modified \in Levels
      BY <1>1 DEF Contents
    <2>2. (map[b] # Absent /\ map[b].modified >= WriteNeeded) <=> written(b)
      BY <2>1 DEF Levels, Clean, WriteAtUnload, WriteNeeded
    <2>3. dk[b] = IF written(b) THEN OnDisk(map[b]) ELSE disk[b]
      BY <2>2 DEF Written
    <2>4. x.map[b] = IF written(b) THEN k ELSE map[b]
      OBVIOUS
    <2>5. map[b] # Absent =>
            /\ k \in Contents /\ k.stored = map[b].stored /\ k.active = map[b].active
            /\ k.old = map[b].old
      BY <2>1 DEF Contents, Levels
    <2>6. Absent \notin Contents
      BY DEF EntityConstants
    <2> HIDE DEF k, dk, x
    <2>7. CASE written(b)
      BY <2>3, <2>4, <2>5, <2>6, <2>7 DEF IsWritten
    <2>8. CASE ~written(b)
      BY <2>1, <2>3, <2>4, <2>8 DEF Stays
    <2> QED BY <2>7, <2>8
  <1>4. x \in Worlds
    <2>1. x.map = [b \in Positions |-> x.map[b]]
      OBVIOUS
    <2>2. x.map \in [Positions -> Contents \cup {Absent}]
      BY <1>3, <2>1
    <2>3. x = [objs |-> objs, map |-> x.map, fate |-> fate]
      OBVIOUS
    <2> HIDE DEF x
    <2> QED BY <1>1, <2>2, <2>3 DEF Worlds, World
  <1>5. dk = [b \in Positions |-> dk[b]]
    BY DEF Written
  <1>6. x.objs = w.objs /\ x.fate = w.fate
    BY <1>1
  <1> HIDE DEF dk, w, x
  <1>7. GoesOut(w.map, x.map, disk, dk)
    BY <1>1, <1>3 DEF GoesOut
  <1>8. dk \in Disks /\ Consistent(x, dk)
    BY <1>1, <1>4, <1>5, <1>6, <1>7, OutKeeps
  <1>9. Between(x, dk, m_active_blocks, running)
    BY <1>1, <1>3, <1>6, <1>8, BetweenSteps DEF Between
  <1> QED BY <1>2, <1>9, StepKeeps

\* and RemoveRemovedObjects.
LEMMA RemovedStep ==
  ASSUME EntityConstants, ObjectsInv, RemoveRemovedObjects
  PROVE  ObjectsInv'
  <1> DEFINE x == EachObject(RemoveRemovedObject, World)
  <1>1. x \in Later(World)
    BY BetweenSteps, RemovingLoop
  <1>2. /\ Becomes(x) /\ UNCHANGED <<disk, m_active_blocks, running>>
    BY DEF RemoveRemovedObjects
  <1> HIDE DEF x
  <1>3. objs' = x.objs /\ map' = x.map /\ fate' = x.fate
    BY <1>2 DEF Becomes
  <1>4. Between(x, disk, m_active_blocks, running)
    BY <1>1, BetweenStill DEF ObjectsInv
  <1> QED BY <1>2, <1>3, <1>4, StepKeeps

-----------------------------------------------------------------------------
\* What is left of e after clearObjects: objects that go, and what a block that is not
\* loaded has stored, all of it old.
Cleaned(e, w, x, dk, dk2) ==
  /\ x.fate[e] = IF w.fate[e] = "there" THEN "removed" ELSE w.fate[e]
  /\ \A i \in Ids : Own(x.objs, i, e) =>
       Own(w.objs, i, e) /\ x.objs[i].removal /\ x.objs[i].block = Absent
  /\ \A b \in Positions :
       /\ \A i \in Ids : ~Copy(x.map, b, i, e)
       /\ Stores(x.map, dk2, b, e) # 0 =>
            Stores(x.map, dk2, b, e) = Stores(w.map, dk, b, e) /\ Old(x.map, dk2, b)
       /\ dk2[b].old
       /\ Kept(x.map, b) =>
            /\ Kept(w.map, b) /\ dk2[b].held[e] = dk[b].held[e]
            /\ Stores(x.map, dk2, b, e) = 0 /\ Stores(w.map, dk, b, e) = 0
            /\ \A i \in Ids : ~Copy(w.map, b, i, e)

\* What clearObjects leaves of an entity fits.
LEMMA CleanedFits ==
  ASSUME NEW e, NEW w, NEW x, NEW dk, NEW dk2, Fits(e, w.objs, w.map, w.fate, dk),
         Absent \notin Positions, Cleaned(e, w, x, dk, dk2)
  PROVE  Fits(e, x.objs, x.map, x.fate, dk2)
  <1> DEFINE H(b) == Has(w.map, w.fate, dk, b, e)
             H2(b) == Has(x.map, x.fate, dk2, b, e)
             D(b) == DiskHas(w.fate, dk, b, e)
             D2(b) == DiskHas(x.fate, dk2, b, e)
  <1>1. /\ OneObject(e, w.objs, w.map, dk) /\ StoredOnce(e, w.map, w.fate, dk)
        /\ AsFated(e, w.objs, w.map, w.fate, dk) /\ OnDiskToo(e, w.objs, w.map, w.fate, dk)
    BY DEF Fits
  <1>2. x.fate[e] = IF w.fate[e] = "there" THEN "removed" ELSE w.fate[e]
    BY DEF Cleaned
  <1>3. \A i \in Ids : Own(x.objs, i, e) =>
          Own(w.objs, i, e) /\ x.objs[i].removal /\ x.objs[i].block = Absent
    BY DEF Cleaned
  <1>4. ASSUME NEW b \in Positions, H2(b)
        PROVE  /\ H(b) /\ x.fate[e] \notin {"removed", "swept"}
               /\ Stores(x.map, dk2, b, e) = Stores(w.map, dk, b, e)
    BY <1>2, <1>4 DEF Cleaned, Has, Counts
  <1>5. ASSUME NEW b \in Positions, Kept(x.map, b)
        PROVE  /\ Kept(w.map, b) /\ ~H2(b) /\ ~H(b)
               /\ \A i \in Ids : ~Copy(w.map, b, i, e)
               /\ dk2[b].held[e] = dk[b].held[e]
               /\ D2(b) => D(b) /\ x.fate[e] = w.fate[e]
    <2>1. /\ Kept(w.map, b) /\ dk2[b].held[e] = dk[b].held[e] /\ dk2[b].old
          /\ Stores(x.map, dk2, b, e) = 0 /\ Stores(w.map, dk, b, e) = 0
          /\ \A i \in Ids : ~Copy(w.map, b, i, e)
      BY <1>5 DEF Cleaned
    <2>2. ~H2(b) /\ ~H(b)
      BY <2>1 DEF Has
    <2>3. D2(b) => D(b) /\ x.fate[e] = w.fate[e]
      BY <1>2, <2>1 DEF DiskHas, Counts
    <2> QED BY <2>1, <2>2, <2>3
  <1>6. OneObject(e, x.objs, x.map, dk2)
    <2>1. \A i \in Ids : Own(x.objs, i, e) => \A b \in Positions : Stores(x.map, dk2, b, e) = 0
      <3> SUFFICES ASSUME NEW i \in Ids, Own(x.objs, i, e), NEW b \in Positions,
                          Stores(x.map, dk2, b, e) # 0
                   PROVE  FALSE
        OBVIOUS
      <3>1. Stores(x.map, dk2, b, e) = Stores(w.map, dk, b, e)
        BY DEF Cleaned
      <3> QED BY <1>1, <1>3, <3>1 DEF OneObject
    <2>2. \A b \in Positions, i \in Ids : ~Copy(x.map, b, i, e)
      BY DEF Cleaned
    <2> QED BY <1>1, <1>3, <2>1, <2>2 DEF OneObject
  <1>7. StoredOnce(e, x.map, x.fate, dk2)
    BY <1>1, <1>4 DEF StoredOnce
  <1>8. AsFated(e, x.objs, x.map, x.fate, dk2)
    <2>1. x.fate[e] # "there"
      BY <1>2
    <2>2. x.fate[e] \in {"unmade", "removed", "swept"} => \A b \in Positions : ~H2(b)
      <3>1. x.fate[e] = "unmade" => \A b \in Positions : ~H(b)
        BY <1>1, <1>2 DEF AsFated
      <3> QED BY <1>4, <3>1
    <2>3. x.fate[e] \in {"unmade", "swept"} => \A i \in Ids : ~Own(x.objs, i, e)
      BY <1>1, <1>2, <1>3 DEF AsFated
    <2> QED BY <1>3, <2>1, <2>2, <2>3 DEF AsFated
  <1>9. OnDiskToo(e, x.objs, x.map, x.fate, dk2)
    <2> SUFFICES ASSUME NEW b \in Positions, Kept(x.map, b)
                 PROVE  /\ D2(b) =>
                             /\ x.fate[e] \in {"dropped", "revived"} /\ dk2[b].held[e] = 1
                             /\ \A c \in Positions : H2(c) => c = b
                             /\ \A c \in Positions : Kept(x.map, c) /\ D2(c) => c = b
                        /\ dk2[b].held[e] # 0 => \A i \in Ids : ~Own(x.objs, i, e)
      BY <1>5 DEF OnDiskToo, Cleaned
    <2>1. /\ Kept(w.map, b) /\ ~H(b) /\ \A i \in Ids : ~Copy(w.map, b, i, e)
          /\ dk2[b].held[e] = dk[b].held[e] /\ (D2(b) => D(b) /\ x.fate[e] = w.fate[e])
      BY <1>5
    <2>2. D(b) => /\ w.fate[e] \in {"dropped", "revived"} /\ dk[b].held[e] = 1
                  /\ \A c \in Positions : H(c) => c = b
                  /\ \A c \in Positions : Kept(w.map, c) /\ D(c) => c = b
      BY <1>1, <2>1 DEF OnDiskToo
    <2>3. dk[b].held[e] # 0 => \A i \in Ids : ~Own(w.objs, i, e)
      BY <1>1, <2>1 DEF OnDiskToo, OneObject
    <2> HIDE DEF H, H2, D, D2
    <2> QED BY <1>3, <1>4, <1>5, <2>1, <2>2, <2>3
  <1> QED BY <1>6, <1>7, <1>8, <1>9 DEF Fits

\* ClearObjects keeps the invariant.
LEMMA ClearStep ==
  ASSUME EntityConstants, ObjectsInv, NEW full \in BOOLEAN, ClearObjects(full)
  PROVE  ObjectsInv'
  <1> DEFINE w == World
             v == EachObject(ClearObject, World)
             away(b) == b \notin m_active_blocks
             x == [objs |-> v.objs, fate |-> Meet(v.fate, Entities, "removed"),
                   map |-> [b \in Positions |-> IF v.map[b] = Absent THEN Absent
                                                ELSE Emptied(v.map[b], away(b))]]
             held(b) == IF full /\ map[b] = Absent THEN Nothing ELSE disk[b].held
             dk == [b \in Positions |-> [held |-> held(b), old |-> TRUE]]
  <1>1. /\ w.objs = objs /\ w.map = map /\ w.fate = fate /\ w \in Worlds
        /\ disk \in Disks /\ Consistent(w, disk)
        /\ map \in [Positions -> Contents \cup {Absent}]
    BY BetweenSteps
  <1>2. /\ objs' = x.objs /\ map' = x.map /\ fate' = x.fate /\ disk' = dk
        /\ UNCHANGED <<m_active_blocks, running>> /\ running
    BY DEF ClearObjects
  <1>3. v \in Cleared(w, MaxId)
    BY <1>1, ClearingLoop
  <1> HIDE DEF v
  <1>4. /\ v \in Worlds /\ v.fate = w.fate /\ Emptier(w.map, v.map, disk)
        /\ \A i \in Ids : Clear(w.objs[i], v.objs[i])
    <2>1. \A i \in Ids : i <= MaxId
      BY DEF Ids, EntityConstants
    <2> QED BY <1>3, <2>1 DEF Cleared
  <1>5. Nothing \in Held /\ \A e \in Entities : Nothing[e] = 0
    BY DEF Nothing, Held
  <1>6. ASSUME NEW b \in Positions
        PROVE  /\ v.map[b] = Absent => x.map[b] = Absent
               /\ v.map[b] # Absent =>
                    /\ x.map[b] \in Contents /\ x.map[b] # Absent
                    /\ x.map[b].stored = Nothing /\ x.map[b].active = {}
                    /\ x.map[b].old = (v.map[b].old \/ away(b))
                    /\ x.map[b].modified # WriteNeeded => v.map[b].modified # WriteNeeded
                         /\ v.map[b].active = {} /\ v.map[b].stored = Nothing
    <2>1. x.map[b] = IF v.map[b] = Absent THEN Absent ELSE Emptied(v.map[b], away(b))
      OBVIOUS
    <2>2. v.map[b] # Absent => v.map[b] \in Contents
      BY <1>4 DEF Worlds
    <2> HIDE DEF x
    <2>3. Absent \notin Contents /\ WriteNeeded \in Levels
      BY DEF EntityConstants, Levels
    <2>4. away(b) \in BOOLEAN
      OBVIOUS
    <2> HIDE DEF away
    <2>5. CASE v.map[b] = Absent
      BY <2>1, <2>5
    <2>6. CASE v.map[b] # Absent
      <3> DEFINE k == v.map[b]
      <3>1. x.map[b] = [stored |-> Nothing, active |-> {}, old |-> k.old \/ away(b),
                        idle |-> k.idle, modified |-> IF k.active = {} /\ k.stored = Nothing
                                                      THEN k.modified ELSE WriteNeeded]
        BY <2>1, <2>6 DEF Emptied
      <3>2. k \in Contents
        BY <2>2, <2>6
      <3> HIDE DEF k
      <3>3. x.map[b] \in Contents
        BY <1>5, <2>3, <2>4, <3>1, <3>2 DEF Contents
      <3>4. x.map[b].modified # WriteNeeded => k.modified # WriteNeeded
                         /\ k.active = {} /\ k.stored = Nothing
        BY <3>1
      <3> QED BY <2>3, <2>6, <3>1, <3>3, <3>4 DEF k
    <2> QED BY <2>5, <2>6
  <1>7. x.fate = [e \in Entities |-> IF w.fate[e] = "there" THEN "removed" ELSE w.fate[e]]
    BY <1>4 DEF Meet
  <1>8. x \in Worlds
    <2>1. x.fate \in [Entities -> Fates]
      BY <1>1, <1>7 DEF Worlds, Fates
    <2>2. x.map = [b \in Positions |-> x.map[b]]
      OBVIOUS
    <2>3. x.map \in [Positions -> Contents \cup {Absent}]
      BY <1>6, <2>2
    <2>4. x = [objs |-> v.objs, map |-> x.map, fate |-> x.fate]
      OBVIOUS
    <2> HIDE DEF x
    <2> QED BY <1>4, <2>1, <2>3, <2>4 DEF Worlds
  <1>9. x.objs = v.objs
    OBVIOUS
  <1>10. dk \in Disks
    <2>1. \A b \in Positions : held(b) \in Held
      BY <1>1, <1>5 DEF Disks
    <2> HIDE DEF held
    <2> QED BY <2>1 DEF Disks
  <1>11. \A b \in Positions : dk[b].held = held(b) /\ dk[b].old
    OBVIOUS
  <1> HIDE DEF x, dk, w
  <1>12. ASSUME NEW e \in Entities PROVE Cleaned(e, w, x, disk, dk)
    <2>1. x.fate[e] = IF w.fate[e] = "there" THEN "removed" ELSE w.fate[e]
      BY <1>7
    <2>2. \A i \in Ids : Own(x.objs, i, e) =>
            Own(w.objs, i, e) /\ x.objs[i].removal /\ x.objs[i].block = Absent
      BY <1>4, <1>9 DEF Own, Clear
    <2>3. ASSUME NEW b \in Positions
          PROVE  /\ \A i \in Ids : ~Copy(x.map, b, i, e)
                 /\ Stores(x.map, dk, b, e) # 0 =>
                      Stores(x.map, dk, b, e) = Stores(w.map, disk, b, e) /\ Old(x.map, dk, b)
                 /\ dk[b].old
                 /\ Kept(x.map, b) =>
                      /\ Kept(w.map, b) /\ dk[b].held[e] = disk[b].held[e]
                      /\ Stores(x.map, dk, b, e) = 0 /\ Stores(w.map, disk, b, e) = 0
                      /\ \A i \in Ids : ~Copy(w.map, b, i, e)
      <3>1. /\ v.map[b] = Absent => w.map[b] = Absent
            /\ Kept(v.map, b) => Kept(w.map, b)
            /\ \A i \in Ids : Copy(w.map, b, i, e) /\ Kept(v.map, b) => Copy(v.map, b, i, e)
            /\ Stores(v.map, disk, b, e) = Stores(w.map, disk, b, e)
        BY <1>4 DEF Emptier, SameStored
      <3>2. CASE v.map[b] = Absent
        <4>1. x.map[b] = Absent /\ w.map[b] = Absent
          BY <1>6, <3>1, <3>2
        <4>2. held(b)[e] = 0 \/ held(b) = disk[b].held
          BY <1>5
        <4> HIDE DEF held
        <4> QED BY <1>11, <4>1, <4>2 DEF Copy, Stores, Old, Kept
      <3>3. CASE v.map[b] # Absent
        <4>1. /\ x.map[b] # Absent /\ x.map[b].stored[e] = 0 /\ x.map[b].active = {}
              /\ x.map[b].modified # WriteNeeded => v.map[b].modified # WriteNeeded
                   /\ v.map[b].active = {} /\ v.map[b].stored[e] = 0
          BY <1>5, <1>6, <3>3
        <4>2. Stores(x.map, dk, b, e) = 0 /\ \A i \in Ids : ~Copy(x.map, b, i, e)
          BY <4>1 DEF Stores, Copy
        <4>3. Kept(x.map, b) => /\ Kept(v.map, b) /\ \A i \in Ids : ~Copy(v.map, b, i, e)
                                /\ Stores(v.map, disk, b, e) = 0
          BY <3>3, <4>1 DEF Kept, Stores, Copy
        <4>4. Kept(w.map, b) => dk[b].held[e] = disk[b].held[e]
          BY <1>1, <1>11 DEF Kept
        <4> QED BY <1>11, <3>1, <4>2, <4>3, <4>4
      <3> QED BY <3>2, <3>3
    <2> QED BY <2>1, <2>2, <2>3 DEF Cleaned
  <1>13. ASSUME NEW e \in Entities PROVE Fits(e, x.objs, x.map, x.fate, dk)
    <2>1. Fits(e, w.objs, w.map, w.fate, disk)
      BY <1>1 DEF Consistent
    <2> QED BY <1>12, <2>1, CleanedFits DEF EntityConstants
  <1>14. Consistent(x, dk)
    BY <1>8, <1>11, <1>13 DEF Consistent, OldToo
  <1>15. \A b \in m_active_blocks : x.map[b] # Absent /\ ~x.map[b].old
    <2> SUFFICES ASSUME NEW b \in m_active_blocks PROVE x.map[b] # Absent /\ ~x.map[b].old
      OBVIOUS
    <2>1. b \in Positions /\ w.map[b] # Absent /\ ~w.map[b].old
      BY <1>1, BetweenSteps
    <2>2. v.map[b] # Absent /\ Old(v.map, disk, b) = Old(w.map, disk, b)
      BY <1>4, <2>1 DEF Emptier, SameAge
    <2> QED BY <1>6, <2>1, <2>2 DEF Old
  <1>16. \A e \in Entities : x.fate[e] = "revived" => fate[e] = "revived"
    BY <1>1, <1>7
  <1>17. Between(x, dk, m_active_blocks, running)
    BY <1>10, <1>14, <1>15, <1>16, BetweenSteps DEF Between
  <1> QED BY <1>2, <1>17, StepKeeps

-----------------------------------------------------------------------------
\* At shutdown what is being removed counts as an entity that comes back.
LEMMA RevivedFits ==
  ASSUME NEW e, NEW ob, NEW mp, NEW ft, NEW ft2, NEW dk, Fits(e, ob, mp, ft, dk),
         NEW i \in Ids, Own(ob, i, e), ob[i].block = Absent \/ ob[i].block \in Positions,
         Absent \notin Positions, ft2[e] = "revived"
  PROVE  Fits(e, ob, mp, ft2, dk)
  <1> DEFINE b == ob[i].block
  <1>1. WasObject(e, i, b, ob, mp, ft, dk)
    BY DEF WasObject
  <1>2. OnlyObject(e, i, b, ob, mp, ft, dk)
    BY <1>1, WhatTheObjectWas
  <1> HIDE DEF b
  <1>3. \A c \in Positions : ~Has(mp, ft2, dk, c, e)
    BY <1>2 DEF Has, OnlyObject
  <1>4. \A c \in Positions : Kept(mp, c) /\ dk[c].held[e] # 0 =>
          c = b /\ dk[c].held[e] = 1
    BY <1>2 DEF OnlyObject
  <1>5. \A c \in Positions : DiskHas(ft2, dk, c, e) => dk[c].held[e] # 0
    BY DEF DiskHas
  <1>6. OnDiskToo(e, ob, mp, ft2, dk)
    BY <1>3, <1>4, <1>5 DEF OnDiskToo, Fits
  <1>7. AsFated(e, ob, mp, ft2, dk)
    BY DEF AsFated
  <1> QED BY <1>3, <1>6, <1>7 DEF Fits, StoredOnce

\* Shutdown keeps the invariant: all is on the disk.
LEMMA ShutdownStep ==
  ASSUME EntityConstants, ObjectsInv, Shutdown
  PROVE  ObjectsInv'
  <1> DEFINE w == [World EXCEPT !.fate = Revived]
  <1>1. /\ World.objs = objs /\ World.map = map /\ World.fate = fate /\ World \in Worlds
        /\ disk \in Disks /\ Consistent(World, disk)
        /\ map \in [Positions -> Contents \cup {Absent}]
        /\ fate \in [Entities -> Fates] /\ objs \in [Ids -> Bodies \cup {Absent}]
    BY BetweenSteps DEF Worlds
  <1>2. PICK changed \in BOOLEAN :
          LET v == DeactivateFarObjects(w, {}, TRUE, changed)
          IN /\ objs' = v.objs /\ fate' = v.fate
             /\ map' = [b \in Positions |-> Absent]
             /\ disk' = Written(v.map, WriteAtUnload)
    BY DEF Shutdown
  <1>3. m_active_blocks' = {} /\ running' = FALSE
    BY DEF Shutdown
  <1> DEFINE back(e) == \E id \in Ids : objs[id] # Absent /\ objs[id].removal
                                        /\ objs[id].entity = e
  <1>4. /\ w = [objs |-> objs, map |-> map, fate |-> Revived]
        /\ w.objs = objs /\ w.map = map /\ w.fate = Revived
    BY DEF World
  <1>5. /\ Revived \in [Entities -> Fates]
        /\ \A e \in Entities :
             Revived[e] = IF fate[e] = "removed" /\ back(e) THEN "revived" ELSE fate[e]
    <2>1. Revived = [e \in Entities |->
            IF fate[e] = "removed" /\ back(e) THEN "revived" ELSE fate[e]]
      BY DEF Revived
    <2> HIDE DEF back
    <2> QED BY <1>1, <2>1 DEF Fates
  <1> HIDE DEF w
  <1>6. w \in Worlds
    BY <1>1, <1>4, <1>5 DEF Worlds
  <1>7. ASSUME NEW e \in Entities PROVE Fits(e, w.objs, w.map, w.fate, disk)
    <2>1. Fits(e, objs, map, fate, disk)
      BY <1>1 DEF Consistent
    <2>2. CASE fate[e] = "removed" /\ back(e)
      <3>1. PICK id \in Ids : objs[id] # Absent /\ objs[id].entity = e
        BY <2>2
      <3>2. objs[id].block = Absent \/ objs[id].block \in Positions
        BY <1>1, <3>1 DEF Bodies
      <3>3. Revived[e] = "revived"
        BY <1>5, <2>2
      <3>4. Own(objs, id, e)
        BY <3>1 DEF Own
      <3> HIDE DEF back
      <3> QED BY <1>4, <2>1, <3>2, <3>3, <3>4, RevivedFits DEF EntityConstants
    <2>3. CASE ~(fate[e] = "removed" /\ back(e))
      <3>1. Revived[e] = fate[e]
        BY <1>5, <2>3
      <3>2. /\ SameObjects(e, objs, objs) /\ SameCopies(e, map, map)
            /\ SameStored(e, map, map, disk) /\ LoadedOrMarked(map, map, disk)
        BY DEF SameObjects, SameCopies, SameStored, LoadedOrMarked, SameAge
      <3> QED BY <1>4, <2>1, <3>1, <3>2, Undisturbed
    <2> QED BY <2>2, <2>3
  <1>8. Consistent(w, disk)
    BY <1>1, <1>4, <1>6, <1>7 DEF Consistent
  <1>9. NoneRemovedIsSaved(w)
    <2> SUFFICES ASSUME NEW i \in Ids, objs[i] # Absent, Revived[objs[i].entity] = "removed"
                 PROVE  ~objs[i].save
      BY <1>4 DEF NoneRemovedIsSaved
    <2>1. objs[i].entity \in Entities
      BY <1>1 DEF Bodies
    <2>2. fate[objs[i].entity] = "removed" /\ ~objs[i].removal
      BY <1>5, <2>1
    <2>3. AsFated(objs[i].entity, objs, map, fate, disk)
      BY <1>1, <2>1 DEF Consistent, Fits
    <2> QED BY <2>2, <2>3 DEF AsFated, Own
  <1> DEFINE v == DeactivateFarObjects(w, {}, TRUE, changed)
             x == [objs |-> v.objs, map |-> [b \in Positions |-> Absent], fate |-> v.fate]
             dk == Written(v.map, WriteAtUnload)
  <1>10. v \in Parted(MaxId)
    <2>1. TRUE \in {TRUE}
      OBVIOUS
    <2> QED BY <1>1, <1>8, <1>9, <2>1, PartingLoop
  <1>11. /\ objs' = x.objs /\ fate' = x.fate /\ map' = x.map /\ disk' = dk
    BY <1>2
  <1> HIDE DEF v
  <1>12. v \in Worlds /\ Consistent(v, disk) /\ \A i \in Ids : v.objs[i] = Absent
    <2>1. \A i \in Ids : i <= MaxId
      BY DEF Ids, EntityConstants
    <2> QED BY <1>10, <2>1 DEF Parted
  <1>13. x \in Worlds
    BY <1>12 DEF Worlds
  <1>14. x.objs = v.objs /\ x.fate = v.fate /\ \A b \in Positions : x.map[b] = Absent
    OBVIOUS
  <1>15. dk = [b \in Positions |-> dk[b]]
    BY DEF Written
  <1>16. GoesOut(v.map, x.map, disk, dk)
    <2> SUFFICES ASSUME NEW b \in Positions
                 PROVE  Stays(v.map, x.map, disk, dk, b) \/ IsUnloaded(v.map, x.map, disk, dk, b)
      BY DEF GoesOut
    <2>1. dk[b] = IF v.map[b] # Absent /\ v.map[b].modified >= WriteAtUnload
                  THEN OnDisk(v.map[b]) ELSE disk[b]
      BY DEF Written
    <2> HIDE DEF dk, x
    <2>2. CASE v.map[b] = Absent
      BY <1>14, <2>1, <2>2 DEF Stays
    <2>3. CASE v.map[b] # Absent
      <3>1. v.map[b].modified \in Levels
        BY <1>12, <2>3 DEF Worlds, Contents
      <3>2. \A e \in Entities, i \in Ids : ~Copy(v.map, b, i, e)
        <4> SUFFICES ASSUME NEW e \in Entities, NEW i \in Ids PROVE ~Copy(v.map, b, i, e)
          OBVIOUS
        <4>1. OneObject(e, v.objs, v.map, disk)
          BY <1>12 DEF Consistent, Fits
        <4> QED BY <1>12, <4>1 DEF OneObject, Own
      <3>3. ~(v.map[b].modified >= WriteAtUnload) => Kept(v.map, b)
        BY <2>3, <3>1 DEF Kept, Levels, Clean, WriteAtUnload, WriteNeeded
      <3> QED BY <1>14, <2>1, <2>3, <3>2, <3>3 DEF IsUnloaded
    <2> QED BY <2>2, <2>3
  <1> HIDE DEF x, dk
  <1>17. dk \in Disks /\ Consistent(x, dk)
    BY <1>1, <1>12, <1>13, <1>14, <1>15, <1>16, OutKeeps
  <1>18. Between(x, dk, {}, FALSE)
    BY <1>17 DEF Between
  <1> QED BY <1>3, <1>11, <1>18, StepKeeps

-----------------------------------------------------------------------------
\* e, stored in b, is activated as id.
LEMMA ActivatedFits ==
  ASSUME NEW e, NEW ob, NEW mp, NEW ft, NEW dk, NEW ob2, NEW mp2, NEW ft2,
         Fits(e, ob, mp, ft, dk), NEW b \in Positions, NEW id \in Ids, Has(mp, ft, dk, b, e),
         ft2[e] = ft[e], Own(ob2, id, e), ob2[id].block = b, ~ob2[id].removal,
         ~ob2[id].deactivation, Absent \notin Positions,
         \A i \in Ids : Own(ob2, i, e) => Own(ob, i, e) \/ i = id,
         \A c \in Positions, i \in Ids :
           Copy(mp2, c, i, e) <=> Copy(mp, c, i, e) \/ (c = b /\ i = id),
         \A c \in Positions : /\ Stores(mp2, dk, c, e) = 0 \/ (c # b /\ Stores(mp2, dk, c, e) = Stores(mp, dk, c, e))
                              /\ Kept(mp2, c) => Kept(mp, c)
  PROVE  Fits(e, ob2, mp2, ft2, dk)
  <1>1. /\ OneObject(e, ob, mp, dk) /\ StoredOnce(e, mp, ft, dk)
        /\ AsFated(e, ob, mp, ft, dk) /\ OnDiskToo(e, ob, mp, ft, dk)
    BY DEF Fits
  <1>2. ft[e] \notin {"unmade", "removed", "swept"}
    BY <1>1 DEF AsFated
  <1>3. \A old : Counts(ft, e, old)
    BY <1>2 DEF Counts
  <1>4. \A i \in Ids : ~Own(ob, i, e)
    BY <1>1 DEF OneObject, Has
  <1>5. \A c \in Positions, i \in Ids : ~Copy(mp, c, i, e)
    BY <1>1, <1>4 DEF OneObject
  <1>6. \A c \in Positions : Stores(mp, dk, c, e) # 0 => c = b
    BY <1>1, <1>3 DEF StoredOnce, Has
  <1>7. \A c \in Positions : Stores(mp2, dk, c, e) = 0
    BY <1>6
  <1>8. \A i \in Ids : Own(ob2, i, e) <=> i = id
    BY <1>4
  <1>9. \A c \in Positions, i \in Ids : Copy(mp2, c, i, e) <=> c = b /\ i = id
    BY <1>5
  <1>10. \A c \in Positions : Kept(mp, c) /\ dk[c].held[e] # 0 => c = b
    BY <1>1, <1>3 DEF OnDiskToo, DiskHas
  <1>11. Kept(mp, b) => dk[b].held[e] = 1
    BY <1>1 DEF OnDiskToo
  <1>12. \A c \in Positions : ~Has(mp2, ft2, dk, c, e)
    BY <1>7 DEF Has
  <1>13. OneObject(e, ob2, mp2, dk)
    BY <1>7, <1>8, <1>9 DEF OneObject
  <1>14. AsFated(e, ob2, mp2, ft2, dk)
    BY <1>2, <1>12 DEF AsFated, Lives
  <1>15. OnDiskToo(e, ob2, mp2, ft2, dk)
    BY <1>8, <1>9, <1>10, <1>11, <1>12 DEF OnDiskToo, DiskHas
  <1> QED BY <1>12, <1>13, <1>14, <1>15 DEF Fits, StoredOnce

\* Of e nothing that counts is stored in the blocks bs, which are activated.
LEMMA SkippedFits ==
  ASSUME NEW e, NEW ob, NEW mp, NEW ft, NEW dk, NEW ob2, NEW mp2, NEW ft2,
         Fits(e, ob, mp, ft, dk), NEW bs, \A c \in bs : ~Has(mp, ft, dk, c, e),
         ft2[e] = ft[e], SameObjects(e, ob, ob2), SameCopies(e, mp, mp2),
         \A c \in Positions :
           /\ Stores(mp2, dk, c, e) = IF c \in bs THEN 0 ELSE Stores(mp, dk, c, e)
           /\ c \notin bs => Old(mp2, dk, c) = Old(mp, dk, c)
           /\ Kept(mp2, c) => Kept(mp, c)
  PROVE  Fits(e, ob2, mp2, ft2, dk)
  <1>1. \A c \in Positions : Has(mp2, ft2, dk, c, e) <=> Has(mp, ft, dk, c, e)
    BY DEF Has, Counts
  <1>2. \A c \in Positions : DiskHas(ft2, dk, c, e) <=> DiskHas(ft, dk, c, e)
    BY DEF DiskHas, Counts
  <1>3. OneObject(e, ob2, mp2, dk)
    BY DEF Fits, OneObject, SameObjects, SameCopies
  <1>4. StoredOnce(e, mp2, ft2, dk)
    <2>1. \A c \in Positions : Has(mp2, ft2, dk, c, e) => Stores(mp2, dk, c, e) # 0
      BY DEF Has
    <2> QED BY <1>1, <2>1 DEF Fits, StoredOnce
  <1>5. AsFated(e, ob2, mp2, ft2, dk)
    BY <1>1 DEF Fits, AsFated, SameObjects
  <1>6. OnDiskToo(e, ob2, mp2, ft2, dk)
    BY <1>1, <1>2 DEF Fits, OnDiskToo, SameObjects, SameCopies
  <1> QED BY <1>3, <1>4, <1>5, <1>6 DEF Fits

\* What is stored of e in the block b goes with it.
LEMMA ClearedFits ==
  ASSUME NEW e, NEW ob, NEW mp, NEW ft, NEW dk, NEW ob2, NEW mp2, NEW ft2,
         Fits(e, ob, mp, ft, dk), OldToo(mp, dk), NEW b \in Positions,
         Has(mp, ft, dk, b, e), mp[b] # Absent,
         \/ ft2[e] \in {"dropped", "revived"}
         \/ ft2[e] = "swept" /\ ft[e] = "there" /\ mp[b].old,
         ft[e] # "there" => ft2[e] = ft[e],
         SameObjects(e, ob, ob2), SameCopies(e, mp, mp2),
         \A c \in Positions :
           /\ Stores(mp2, dk, c, e) = 0 \/ (c # b /\ Stores(mp2, dk, c, e) = Stores(mp, dk, c, e))
           /\ Kept(mp2, c) => Kept(mp, c)
  PROVE  Fits(e, ob2, mp2, ft2, dk)
  <1>1. /\ OneObject(e, ob, mp, dk) /\ StoredOnce(e, mp, ft, dk)
        /\ AsFated(e, ob, mp, ft, dk) /\ OnDiskToo(e, ob, mp, ft, dk)
    BY DEF Fits
  <1>2. ft[e] \notin {"unmade", "removed", "swept"}
    BY <1>1 DEF AsFated
  <1>3. \A old : Counts(ft, e, old)
    BY <1>2 DEF Counts
  <1>4. \A i \in Ids : ~Own(ob2, i, e)
    BY <1>1 DEF OneObject, Has, SameObjects
  <1>5. \A c \in Positions, i \in Ids : ~Copy(mp2, c, i, e)
    BY <1>1, <1>4 DEF OneObject, SameCopies, SameObjects
  <1>6. \A c \in Positions : Stores(mp, dk, c, e) # 0 => c = b
    BY <1>1, <1>3 DEF StoredOnce, Has
  <1>7. \A c \in Positions : Stores(mp2, dk, c, e) = 0
    BY <1>6
  <1>8. \A c \in Positions : ~Has(mp2, ft2, dk, c, e)
    BY <1>7 DEF Has
  <1>9. \A c \in Positions : DiskHas(ft2, dk, c, e) => DiskHas(ft, dk, c, e)
    BY <1>3 DEF DiskHas
  <1>10. \A c \in Positions : Kept(mp, c) /\ DiskHas(ft, dk, c, e) =>
           /\ dk[c].held[e] = 1 /\ c = b
           /\ \A d \in Positions : Kept(mp, d) /\ DiskHas(ft, dk, d, e) => d = c
    BY <1>1 DEF OnDiskToo
  <1>11. ft2[e] = "swept" => \A c \in Positions : ~(Kept(mp, c) /\ DiskHas(ft2, dk, c, e))
    BY <1>9, <1>10 DEF DiskHas, Counts, OldToo
  <1>12. OnDiskToo(e, ob2, mp2, ft2, dk)
    BY <1>4, <1>5, <1>8, <1>9, <1>10, <1>11 DEF OnDiskToo
  <1>13. OneObject(e, ob2, mp2, dk)
    BY <1>4, <1>5 DEF OneObject
  <1>14. AsFated(e, ob2, mp2, ft2, dk)
    BY <1>4, <1>8 DEF AsFated
  <1> QED BY <1>8, <1>12, <1>13, <1>14 DEF Fits, StoredOnce

-----------------------------------------------------------------------------
\* Each entity that is stored in the blocks, and is to become active, has an id.
Numbered(w, blocks, of) ==
  /\ DOMAIN of \subseteq Ids
  /\ \A id \in DOMAIN of :
       /\ w.objs[id] = Absent /\ of[id][1] \in blocks /\ of[id][2] \in Entities
       /\ ~w.map[of[id][1]].old /\ ~TooMany(w.map[of[id][1]])
       /\ w.map[of[id][1]].stored[of[id][2]] # 0
  /\ \A b \in blocks, e \in Entities :
       /\ ~w.map[b].old /\ ~TooMany(w.map[b]) /\ w.map[b].stored[e] # 0 =>
            \E id \in DOMAIN of : of[id][1] = b /\ of[id][2] = e
       /\ w.map[b].stored[e] = 1 => \A id, id2 \in DOMAIN of :
            of[id][1] = b /\ of[id][2] = e /\ of[id2][1] = b /\ of[id2][2] = e => id = id2

\* Ids are given to what is to become active, each to one.
LEMMA BijectionNumbers ==
  ASSUME NEW w \in Worlds, NEW blocks, NEW ids \in SUBSET Free(w),
         NEW of \in Bijection(ids, ToActivate(w, blocks)),
         \A b \in blocks : w.map[b] \in Contents
  PROVE  Numbered(w, blocks, of)
  <1> DEFINE T == ToActivate(w, blocks)
             S(b, e) == {<<b, e, i>> : i \in 1 .. w.map[b].stored[e]}
  <1>1. \A b \in blocks, e \in Entities : w.map[b].stored[e] \in Nat
    BY DEF Contents, Held
  <1>2. \A t : t \in T <=>
          \E b \in blocks, e \in Entities : ~w.map[b].old /\ ~TooMany(w.map[b]) /\ t \in S(b, e)
    <2> DEFINE B == {x \in blocks : ~w.map[x].old /\ ~TooMany(w.map[x])}
    <2>1. T = UNION {S(b, e) : b \in B, e \in Entities}
      BY DEF ToActivate
    <2> HIDE DEF T, S
    <2> QED BY <2>1
  <1>3. of \in [ids -> T] /\ (\A i, j \in ids : of[i] = of[j] => i = j)
        /\ (\A t \in T : \E i \in ids : of[i] = t)
    BY DEF Bijection, Injection, Surjection, IsInjective
  <1>4. ids \subseteq Ids /\ \A id \in ids : w.objs[id] = Absent
    BY DEF Free
  <1>5. DOMAIN of = ids
    BY <1>3
  <1> HIDE DEF T
  <1>6. ASSUME NEW id \in ids
        PROVE  \E b \in blocks, e \in Entities : \E i \in 1 .. w.map[b].stored[e] :
                 ~w.map[b].old /\ ~TooMany(w.map[b]) /\ of[id] = <<b, e, i>>
    BY <1>2, <1>3
  <1>7. ASSUME NEW id \in ids
        PROVE  /\ of[id][1] \in blocks /\ of[id][2] \in Entities
               /\ ~w.map[of[id][1]].old /\ ~TooMany(w.map[of[id][1]])
               /\ w.map[of[id][1]].stored[of[id][2]] # 0
               /\ of[id] = <<of[id][1], of[id][2], of[id][3]>>
               /\ of[id][3] \in 1 .. w.map[of[id][1]].stored[of[id][2]]
    <2>1. PICK b \in blocks, e \in Entities : \E i \in 1 .. w.map[b].stored[e] :
                 ~w.map[b].old /\ ~TooMany(w.map[b]) /\ of[id] = <<b, e, i>>
      BY <1>6
    <2>2. PICK i \in 1 .. w.map[b].stored[e] : of[id] = <<b, e, i>>
      BY <2>1
    <2>3. of[id][1] = b /\ of[id][2] = e /\ of[id][3] = i
      BY <2>2
    <2>4. w.map[b].stored[e] # 0
      BY <1>1, <2>2
    <2> QED BY <2>1, <2>2, <2>3, <2>4
  <1>8. ASSUME NEW b \in blocks, NEW e \in Entities, ~w.map[b].old, ~TooMany(w.map[b]),
               w.map[b].stored[e] # 0
        PROVE  \E id \in ids : of[id][1] = b /\ of[id][2] = e
    <2>1. 1 \in 1 .. w.map[b].stored[e]
      BY <1>1, <1>8
    <2>2. <<b, e, 1>> \in T
      BY <1>2, <1>8, <2>1
    <2>3. PICK id \in ids : of[id] = <<b, e, 1>>
      BY <1>3, <2>2
    <2> QED BY <2>3
  <1>9. ASSUME NEW b \in blocks, NEW e \in Entities, w.map[b].stored[e] = 1,
               NEW id \in ids, NEW id2 \in ids,
               of[id][1] = b, of[id][2] = e, of[id2][1] = b, of[id2][2] = e
        PROVE  id = id2
    <2>1. of[id][3] = 1 /\ of[id2][3] = 1
      BY <1>7, <1>9
    <2>2. of[id] = <<b, e, 1>> /\ of[id2] = <<b, e, 1>>
      BY <1>7, <1>9, <2>1
    <2> QED BY <1>3, <2>2
  <1> QED BY <1>4, <1>5, <1>7, <1>8, <1>9 DEF Numbered

\* What activation makes of the world.
ActivatedWorld(w, x, blocks, of) ==
  /\ x \in Worlds
  /\ \A id \in Ids :
       /\ id \in DOMAIN of =>
            /\ x.objs[id] \in Bodies /\ x.objs[id] # Absent
            /\ x.objs[id].entity = of[id][2] /\ x.objs[id].block = of[id][1]
            /\ ~x.objs[id].removal /\ ~x.objs[id].deactivation
       /\ id \notin DOMAIN of => x.objs[id] = w.objs[id]
  /\ \A b \in Positions :
       /\ b \notin blocks => x.map[b] = w.map[b]
       /\ b \in blocks =>
            /\ x.map[b] # Absent /\ ~x.map[b].old
            /\ Kept(x.map, b) => Kept(w.map, b)
            /\ \A e \in Entities : x.map[b].stored[e] = 0
            /\ \A id \in Ids, e \in Entities : [id |-> id, entity |-> e] \in x.map[b].active <=>
                 \/ [id |-> id, entity |-> e] \in w.map[b].active
                 \/ id \in DOMAIN of /\ of[id][1] = b /\ of[id][2] = e
  /\ \A e \in Entities : x.fate[e] =
       IF w.fate[e] # "there" THEN w.fate[e]
       ELSE IF \E b \in blocks : w.map[b].old /\ w.map[b].stored[e] # 0 THEN "swept"
       ELSE IF \E b \in blocks : TooMany(w.map[b]) /\ w.map[b].stored[e] # 0 THEN "dropped"
       ELSE "there"

\* What activateBlock makes of the objects, the blocks and the fates.
LEMMA ActivationActivates ==
  ASSUME EntityConstants, NEW w \in Worlds, NEW blocks \in SUBSET Positions, NEW of,
         Numbered(w, blocks, of), \A b \in blocks : w.map[b] # Absent
  PROVE  ActivatedWorld(w, ActivateBlocks(w, blocks, of), blocks, of)
  <1> DEFINE x == ActivateBlocks(w, blocks, of)
             swept == Stored(w, {b \in blocks : w.map[b].old})
             dropped == Stored(w, {b \in blocks : TooMany(w.map[b])})
  <1>1. /\ x.objs = [id \in Ids |-> IF id \in DOMAIN of THEN NewObject(of[id][2], of[id][1])
                                    ELSE w.objs[id]]
        /\ x.map = [b \in Positions |-> IF b \in blocks THEN Activated(w.map[b], b, of)
                                        ELSE w.map[b]]
        /\ x.fate = Meet(Meet(w.fate, swept, "swept"), dropped, "dropped")
        /\ x = [objs |-> x.objs, map |-> x.map, fate |-> x.fate]
    BY DEF ActivateBlocks
  <1>2. /\ w.objs \in [Ids -> Bodies \cup {Absent}] /\ w.fate \in [Entities -> Fates]
        /\ w.map \in [Positions -> Contents \cup {Absent}]
        /\ \A b \in blocks : w.map[b] \in Contents
        /\ Absent \notin Bodies /\ Absent \notin Contents /\ WriteNeeded \in Levels
    BY DEF Worlds, EntityConstants, Levels
  <1>3. \A id \in DOMAIN of : of[id][1] \in blocks /\ of[id][2] \in Entities /\ id \in Ids
    BY DEF Numbered
  <1> HIDE DEF x, swept, dropped
  <1>4. ASSUME NEW id \in Ids
        PROVE  /\ id \in DOMAIN of =>
                    /\ x.objs[id] \in Bodies /\ x.objs[id] # Absent
                    /\ x.objs[id].entity = of[id][2] /\ x.objs[id].block = of[id][1]
                    /\ ~x.objs[id].removal /\ ~x.objs[id].deactivation
               /\ id \notin DOMAIN of => x.objs[id] = w.objs[id]
    <2>1. CASE id \in DOMAIN of
      <3> DEFINE o == NewObject(of[id][2], of[id][1])
      <3>1. x.objs[id] = o
        BY <1>1, <2>1
      <3>2. /\ o \in Bodies /\ o.entity = of[id][2] /\ o.block = of[id][1]
            /\ ~o.removal /\ ~o.deactivation
        BY <1>3, <2>1 DEF NewObject, Bodies
      <3> HIDE DEF o
      <3> QED BY <1>2, <2>1, <3>1, <3>2
    <2>2. CASE id \notin DOMAIN of
      BY <1>1, <2>2
    <2> QED BY <2>1, <2>2
  <1>5. ASSUME NEW b \in blocks
        PROVE  /\ x.map[b] \in Contents /\ x.map[b] # Absent /\ ~x.map[b].old
               /\ Kept(x.map, b) => Kept(w.map, b)
               /\ \A e \in Entities : x.map[b].stored[e] = 0
               /\ \A id \in Ids, e \in Entities : [id |-> id, entity |-> e] \in x.map[b].active <=>
                    \/ [id |-> id, entity |-> e] \in w.map[b].active
                    \/ id \in DOMAIN of /\ of[id][1] = b /\ of[id][2] = e
    <2> DEFINE k == w.map[b]
               new == {[id |-> id, entity |-> of[id][2]] : id \in {y \in DOMAIN of : of[y][1] = b}}
               level == IF TooMany(k) THEN WriteNeeded ELSE k.modified
    <2>1. k \in Contents /\ k.active \subseteq Copies /\ k.modified \in Levels /\ k # Absent
      BY <1>2 DEF Contents
    <2>2. x.map[b] = [stored |-> Nothing, old |-> FALSE, idle |-> 0, modified |-> level,
                      active |-> k.active \cup new]
      BY <1>1 DEF Activated
    <2>3. new \subseteq Copies
      BY <1>3 DEF Copies
    <2>4. \A id \in Ids, e \in Entities : [id |-> id, entity |-> e] \in new <=>
            id \in DOMAIN of /\ of[id][1] = b /\ of[id][2] = e
      OBVIOUS
    <2>5. Nothing \in Held /\ \A e \in Entities : Nothing[e] = 0
      BY DEF Nothing, Held
    <2>6. level \in Levels /\ (level # WriteNeeded => k.modified # WriteNeeded)
      BY <1>2, <2>1
    <2> HIDE DEF new, level, k
    <2>7. x.map[b] \in Contents
      BY <2>1, <2>2, <2>3, <2>5, <2>6 DEF Contents
    <2>8. Kept(x.map, b) => Kept(w.map, b)
      BY <2>1, <2>2, <2>6 DEF Kept, k
    <2>9. x.map[b].stored = Nothing /\ x.map[b].old = FALSE /\ x.map[b].active = k.active \cup new
      BY <2>2
    <2>11. x.map[b] # Absent
      BY <1>2, <2>7
    <2>10. \A id \in Ids, e \in Entities : [id |-> id, entity |-> e] \in x.map[b].active <=>
             \/ [id |-> id, entity |-> e] \in k.active
             \/ id \in DOMAIN of /\ of[id][1] = b /\ of[id][2] = e
      BY <2>4, <2>9
    <2> QED BY <2>5, <2>7, <2>8, <2>9, <2>10, <2>11 DEF k
  <1>6. ASSUME NEW e \in Entities
        PROVE  x.fate[e] =
                 IF w.fate[e] # "there" THEN w.fate[e]
                 ELSE IF \E b \in blocks : w.map[b].old /\ w.map[b].stored[e] # 0 THEN "swept"
                 ELSE IF \E b \in blocks : TooMany(w.map[b]) /\ w.map[b].stored[e] # 0
                      THEN "dropped"
                 ELSE "there"
    <2>1. \A b \in blocks : w.map[b].stored[e] \in Nat
      BY <1>2 DEF Contents, Held
    <2>2. /\ e \in swept <=> \E b \in blocks : w.map[b].old /\ w.map[b].stored[e] # 0
          /\ e \in dropped <=> \E b \in blocks : TooMany(w.map[b]) /\ w.map[b].stored[e] # 0
      BY <2>1 DEF swept, dropped, Stored
    <2> DEFINE m == Meet(w.fate, swept, "swept")
    <2>3. m[e] = IF e \in swept /\ w.fate[e] = "there" THEN "swept" ELSE w.fate[e]
      BY DEF Meet
    <2>4. x.fate = Meet(m, dropped, "dropped")
      BY <1>1
    <2> HIDE DEF m
    <2>5. x.fate[e] = IF e \in dropped /\ m[e] = "there" THEN "dropped" ELSE m[e]
      BY <2>4 DEF Meet
    <2> QED BY <2>2, <2>3, <2>5
  <1>7. x \in Worlds
    <2>1. x.objs \in [Ids -> Bodies \cup {Absent}]
      <3>1. \A id \in Ids : x.objs[id] \in Bodies \cup {Absent}
        BY <1>2, <1>4
      <3>2. x.objs = [id \in Ids |-> x.objs[id]]
        BY <1>1
      <3> QED BY <3>1, <3>2
    <2>2. x.map \in [Positions -> Contents \cup {Absent}]
      <3>1. \A b \in Positions : b \notin blocks => x.map[b] = w.map[b]
        BY <1>1
      <3>2. \A b \in Positions : x.map[b] \in Contents \cup {Absent}
        BY <1>2, <1>5, <3>1
      <3>3. x.map = [b \in Positions |-> x.map[b]]
        BY <1>1
      <3> QED BY <3>2, <3>3
    <2>3. x.fate \in [Entities -> Fates]
      <3>1. \A e \in Entities : x.fate[e] \in Fates
        BY <1>2, <1>6 DEF Fates
      <3>2. x.fate = [e \in Entities |-> x.fate[e]]
        BY <1>1 DEF Meet
      <3> QED BY <3>1, <3>2
    <2> QED BY <1>1, <2>1, <2>2, <2>3 DEF Worlds
  <1>8. \A b \in Positions : b \notin blocks => x.map[b] = w.map[b]
    BY <1>1
  <1>9. ActivatedWorld(w, x, blocks, of)
    BY <1>4, <1>5, <1>6, <1>7, <1>8 DEF ActivatedWorld
  <1> QED BY <1>9 DEF x

-----------------------------------------------------------------------------
\* Of one entity: it is stored no more, and active or at its fate.
LEMMA ActivatingFits ==
  ASSUME EntityConstants, NEW dk, NEW w, Consistent(w, dk), NEW blocks \in SUBSET Positions,
         NEW of, Numbered(w, blocks, of), \A b \in blocks : w.map[b] # Absent,
         NEW x, ActivatedWorld(w, x, blocks, of), NEW e \in Entities
  PROVE  Fits(e, x.objs, x.map, x.fate, dk)
  <1> DEFINE H(b) == Has(w.map, w.fate, dk, b, e)
             St(b) == Stores(w.map, dk, b, e)
  <1>1. /\ Fits(e, w.objs, w.map, w.fate, dk) /\ OldToo(w.map, dk)
        /\ Absent \notin Positions /\ w \in Worlds
    BY DEF Consistent, EntityConstants
  <1>2. /\ OneObject(e, w.objs, w.map, dk) /\ StoredOnce(e, w.map, w.fate, dk)
        /\ AsFated(e, w.objs, w.map, w.fate, dk)
    BY <1>1 DEF Fits
  <1>3. \A b \in blocks : b \in Positions /\ St(b) = w.map[b].stored[e]
          /\ Old(w.map, dk, b) = w.map[b].old
    BY DEF Stores, Old
  <1>4. \A b \in blocks : H(b) <=> w.map[b].stored[e] # 0 /\ Counts(w.fate, e, w.map[b].old)
    BY <1>3 DEF Has
  <1>5. \A b \in Positions, c \in Positions : H(b) /\ H(c) => b = c
    BY <1>2 DEF StoredOnce
  <1>6. \A b \in Positions : H(b) => w.fate[e] \notin {"unmade", "removed", "swept"}
    BY <1>2 DEF AsFated
  <1>7. \A b \in blocks : w.map[b].stored[e] # 0 /\ ~w.map[b].old => H(b)
    BY <1>4 DEF Counts
  <1>8. \A b \in blocks : TooMany(w.map[b]) => ~w.map[b].old
    BY DEF TooMany
  <1>9. \A b \in blocks : w.map[b].stored[e] # 0 /\ w.fate[e] \notin {"removed", "swept"} => H(b)
    BY <1>4 DEF Counts
  <1>10. \A b \in Positions, i \in Ids : Copy(x.map, b, i, e) <=> Copy(w.map, b, i, e) \/
           (b \in blocks /\ i \in DOMAIN of /\ of[i][1] = b /\ of[i][2] = e)
    BY DEF ActivatedWorld, Copy
  <1>11. \A b \in Positions : /\ Stores(x.map, dk, b, e) = IF b \in blocks THEN 0 ELSE St(b)
                              /\ b \notin blocks => Old(x.map, dk, b) = Old(w.map, dk, b)
                              /\ Kept(x.map, b) => Kept(w.map, b)
    BY DEF ActivatedWorld, Stores, Old, Kept
  <1>12. \A i \in Ids : i \in DOMAIN of => ~Own(w.objs, i, e) /\ (Own(x.objs, i, e) <=> of[i][2] = e)
    BY DEF ActivatedWorld, Numbered, Own
  <1>13. \A i \in Ids : i \notin DOMAIN of => x.objs[i] = w.objs[i]
    BY DEF ActivatedWorld
  <1>14. \A i \in DOMAIN of : of[i][2] = e => H(of[i][1]) /\ of[i][1] \in blocks
           /\ ~w.map[of[i][1]].old /\ ~TooMany(w.map[of[i][1]])
    BY <1>7 DEF Numbered
  <1>15. x.fate[e] =
           IF w.fate[e] # "there" THEN w.fate[e]
           ELSE IF \E b \in blocks : w.map[b].old /\ w.map[b].stored[e] # 0 THEN "swept"
           ELSE IF \E b \in blocks : TooMany(w.map[b]) /\ w.map[b].stored[e] # 0 THEN "dropped"
           ELSE "there"
    BY DEF ActivatedWorld
  <1> HIDE DEF H, St
  <1>16. ASSUME \A i \in DOMAIN of : of[i][2] # e
         PROVE  SameObjects(e, w.objs, x.objs) /\ SameCopies(e, w.map, x.map)
    BY <1>10, <1>12, <1>13, <1>16 DEF SameObjects, SameCopies, Own
  <1>17. CASE \A b \in blocks : ~H(b)
    <2>1. \A i \in DOMAIN of : of[i][2] # e
      BY <1>14, <1>17
    <2>2. x.fate[e] = w.fate[e]
      BY <1>9, <1>15, <1>17
    <2> QED BY <1>1, <1>11, <1>16, <1>17, <2>1, <2>2, SkippedFits DEF H, St
  <1>18. ASSUME NEW b \in blocks, H(b), w.map[b].old \/ TooMany(w.map[b])
         PROVE  Fits(e, x.objs, x.map, x.fate, dk)
    <2>1. \A i \in DOMAIN of : of[i][2] # e
      BY <1>3, <1>5, <1>14, <1>18
    <2>2. w.map[b].stored[e] # 0 /\ w.fate[e] \in Fates \ {"unmade", "removed", "swept"}
      BY <1>1, <1>3, <1>4, <1>6, <1>18 DEF Worlds
    <2>3. w.fate[e] \in {"there", "dropped", "revived"}
      BY <2>2 DEF Fates
    <2>4. \A c \in blocks : w.map[c].stored[e] # 0 => c = b
      BY <1>3, <1>5, <1>9, <1>18, <2>2
    <2>5. \/ x.fate[e] \in {"dropped", "revived"}
          \/ x.fate[e] = "swept" /\ w.fate[e] = "there" /\ w.map[b].old
      BY <1>15, <1>18, <2>2, <2>3, <2>4
    <2>6. w.fate[e] # "there" => x.fate[e] = w.fate[e]
      BY <1>15
    <2>7. \A c \in Positions :
            /\ Stores(x.map, dk, c, e) = 0 \/ (c # b /\ Stores(x.map, dk, c, e) = St(c))
            /\ Kept(x.map, c) => Kept(w.map, c)
      BY <1>11, <1>18
    <2> QED BY <1>1, <1>3, <1>16, <1>18, <2>1, <2>5, <2>6, <2>7, ClearedFits DEF H, St
  <1>19. ASSUME NEW b \in blocks, H(b), ~w.map[b].old, ~TooMany(w.map[b])
         PROVE  Fits(e, x.objs, x.map, x.fate, dk)
    <2>1. w.map[b].stored[e] = 1 /\ w.fate[e] \notin {"unmade", "removed", "swept"}
      BY <1>2, <1>3, <1>6, <1>19 DEF StoredOnce, H, St
    <2>2. PICK id \in DOMAIN of : of[id][1] = b /\ of[id][2] = e
      BY <1>19, <2>1 DEF Numbered
    <2>3. id \in Ids /\ \A i \in DOMAIN of : of[i][2] = e => of[i][1] = b
      BY <1>3, <1>5, <1>14, <1>19 DEF Numbered
    <2>4. \A i \in DOMAIN of : of[i][2] = e => i = id
      BY <2>1, <2>2, <2>3 DEF Numbered
    <2>5. \A c \in blocks : w.map[c].stored[e] # 0 => c = b
      BY <1>3, <1>5, <1>9, <1>19, <2>1
    <2>6. x.fate[e] = w.fate[e]
      BY <1>15, <1>19, <2>5
    <2>7. /\ Own(x.objs, id, e) /\ x.objs[id].block = b
          /\ ~x.objs[id].removal /\ ~x.objs[id].deactivation
      BY <2>2, <2>3 DEF ActivatedWorld, Own
    <2>8. \A i \in Ids : Own(x.objs, i, e) => Own(w.objs, i, e) \/ i = id
      BY <1>12, <1>13, <2>4 DEF Own
    <2>9. \A c \in Positions, i \in Ids :
            Copy(x.map, c, i, e) <=> Copy(w.map, c, i, e) \/ (c = b /\ i = id)
      BY <1>3, <1>10, <2>2, <2>4
    <2>10. \A c \in Positions :
            /\ Stores(x.map, dk, c, e) = 0 \/ (c # b /\ Stores(x.map, dk, c, e) = St(c))
            /\ Kept(x.map, c) => Kept(w.map, c)
      BY <1>11, <1>19
    <2> QED BY <1>1, <1>3, <1>19, <2>3, <2>6, <2>7, <2>8, <2>9, <2>10, ActivatedFits DEF H, St
  <1> QED BY <1>17, <1>18, <1>19

\* Activating blocks, between two steps.
LEMMA ActivatingKeeps ==
  ASSUME EntityConstants, NEW dk \in Disks, NEW w, NEW active, NEW runs,
         Between(w, dk, active, runs), NEW blocks \in SUBSET Positions,
         \A b \in blocks : w.map[b] # Absent, NEW ids \in SUBSET Free(w),
         NEW of \in Bijection(ids, ToActivate(w, blocks)), NEW active2,
         active2 \subseteq active \cup blocks
  PROVE  Between(ActivateBlocks(w, blocks, of), dk, active2, runs)
  <1> DEFINE x == ActivateBlocks(w, blocks, of)
  <1>1. Consistent(w, dk) /\ w \in Worlds
    BY DEF Between, Consistent
  <1>2. \A b \in blocks : w.map[b] \in Contents
    BY <1>1 DEF Worlds
  <1>3. Numbered(w, blocks, of)
    BY <1>1, <1>2, BijectionNumbers
  <1>4. ActivatedWorld(w, x, blocks, of)
    BY <1>1, <1>3, ActivationActivates
  <1> HIDE DEF x
  <1>5. \A e \in Entities : Fits(e, x.objs, x.map, x.fate, dk)
    BY <1>1, <1>3, <1>4, ActivatingFits
  <1>6. OldToo(x.map, dk)
    BY <1>1, <1>4 DEF Consistent, OldToo, ActivatedWorld, Kept
  <1>7. Consistent(x, dk)
    BY <1>4, <1>5, <1>6 DEF Consistent, ActivatedWorld
  <1>8. \A b \in active2 : x.map[b] # Absent /\ ~x.map[b].old
    BY <1>4 DEF Between, ActivatedWorld
  <1>9. \A e \in Entities : x.fate[e] = "revived" => w.fate[e] = "revived"
    BY <1>4 DEF ActivatedWorld
  <1>10. Between(x, dk, active2, runs)
    BY <1>7, <1>8, <1>9 DEF Between
  <1> QED BY <1>10 DEF x

\* Blocks that are left are marked, the others get older.
LEMMA LeavingKeeps ==
  ASSUME EntityConstants, NEW v, NEW list, NEW runs, Between(v, disk, m_active_blocks, runs)
  PROVE  Between([v EXCEPT !.map = Left(v.map, list)], disk, m_active_blocks, runs)
  <1> DEFINE w == [v EXCEPT !.map = Left(v.map, list)]
  <1>1. /\ v \in Worlds /\ Consistent(v, disk)
        /\ \A b \in m_active_blocks : v.map[b] # Absent /\ ~v.map[b].old
        /\ v.map \in [Positions -> Contents \cup {Absent}] /\ Absent \notin Contents
        /\ v = [objs |-> v.objs, map |-> v.map, fate |-> v.fate]
    BY DEF Between, Consistent, Worlds, EntityConstants
  <1>2. w = [objs |-> v.objs, map |-> Left(v.map, list), fate |-> v.fate]
    BY <1>1
  <1> HIDE DEF w
  <1>3. w.objs = v.objs /\ w.fate = v.fate /\ w.map = Left(v.map, list)
    BY <1>2
  <1>4. ASSUME NEW b \in Positions
        PROVE  /\ v.map[b] = Absent => w.map[b] = Absent
               /\ v.map[b] # Absent =>
                    /\ w.map[b] \in Contents /\ w.map[b].stored = v.map[b].stored
                    /\ w.map[b].active = v.map[b].active /\ w.map[b].old = v.map[b].old
                    /\ w.map[b].modified # WriteNeeded => v.map[b].modified # WriteNeeded
    <2> DEFINE k == v.map[b]
               r == Raised(k, WriteAtUnload)
               left == IF b \notin m_active_blocks \ list THEN k ELSE [r EXCEPT !.old = FALSE]
               older == [left EXCEPT !.idle = left.idle + 1]
    <2>1. w.map[b] = IF k = Absent THEN Absent
                     ELSE IF b \in list \/ left.idle = IdleLimit THEN left ELSE older
      BY <1>3 DEF Left
    <2>2. CASE k = Absent
      BY <2>1, <2>2
    <2>3. CASE k # Absent
      <3>1. k \in Contents /\ WriteAtUnload \in Levels /\ WriteAtUnload # WriteNeeded
        BY <1>1, <2>3 DEF Levels, WriteAtUnload, WriteNeeded
      <3>2. /\ r \in Contents /\ r.stored = k.stored /\ r.old = k.old /\ r.active = k.active
            /\ r.modified # WriteNeeded => k.modified # WriteNeeded
        BY <3>1, RaisedBlock
      <3> HIDE DEF r
      <3>3. b \in m_active_blocks => ~k.old
        BY <1>1
      <3>4. /\ left \in Contents /\ left.stored = k.stored /\ left.active = k.active
            /\ left.old = k.old /\ (left.modified # WriteNeeded => k.modified # WriteNeeded)
        <4>1. CASE b \notin m_active_blocks \ list
          BY <3>1, <4>1
        <4>2. CASE b \in m_active_blocks \ list
          <5>1. k.old = FALSE
            BY <3>1, <3>3, <4>2 DEF Contents
          <5>2. left = [r EXCEPT !.old = FALSE]
            BY <4>2
          <5> HIDE DEF left, k
          <5> QED BY <3>2, <5>1, <5>2 DEF Contents
        <4> QED BY <4>1, <4>2
      <3> HIDE DEF left, k
      <3>5. /\ older \in Contents /\ older.stored = left.stored /\ older.active = left.active
            /\ older.old = left.old /\ older.modified = left.modified
        BY <3>4 DEF Contents
      <3> HIDE DEF older
      <3> QED BY <2>1, <2>3, <3>4, <3>5 DEF k
    <2> QED BY <2>2, <2>3
  <1>5. w \in Worlds
    <2>1. w.map = [b \in Positions |-> w.map[b]]
      BY <1>3 DEF Left
    <2>2. w.map \in [Positions -> Contents \cup {Absent}]
      BY <1>4, <2>1
    <2> QED BY <1>1, <1>2, <1>3, <2>2 DEF Worlds
  <1>6. LoadedOrMarked(v.map, w.map, disk)
    BY <1>1, <1>4 DEF LoadedOrMarked, SameAge, Old, Kept
  <1>7. ASSUME NEW e \in Entities PROVE Fits(e, w.objs, w.map, w.fate, disk)
    <2>1. Fits(e, v.objs, v.map, v.fate, disk)
      BY <1>1 DEF Consistent
    <2>2. SameObjects(e, v.objs, w.objs) /\ w.fate[e] = v.fate[e]
      BY <1>3 DEF SameObjects
    <2>3. SameCopies(e, v.map, w.map) /\ SameStored(e, v.map, w.map, disk)
      BY <1>1, <1>4 DEF SameCopies, SameStored, Copy, Stores
    <2> QED BY <1>6, <2>1, <2>2, <2>3, Undisturbed
  <1>8. OldToo(w.map, disk)
    BY <1>1, <1>6, OldStays DEF Consistent
  <1>9. w \in Later(v)
    BY <1>3, <1>5, <1>6, <1>7, <1>8 DEF Later, Consistent
  <1>10. Between(w, disk, m_active_blocks, runs)
    BY <1>9, BetweenStill
  <1> QED BY <1>10 DEF w

\* UpdateActiveBlocks keeps the invariant: what is far goes, then what is near comes.
LEMMA UpdateStep ==
  ASSUME EntityConstants, ObjectsInv, NEW list \in SUBSET Positions, NEW changed \in BOOLEAN,
         UpdateActiveBlocks(list, changed)
  PROVE  ObjectsInv'
  <1> DEFINE v == DeactivateFarObjects(World, list, FALSE, changed)
             w == [v EXCEPT !.map = Left(v.map, list)]
             added == {b \in list \ m_active_blocks : w.map[b] # Absent}
             active2 == (m_active_blocks \cap list) \cup added
  <1>1. PICK ids \in SUBSET Free(w) : \E of \in Bijection(ids, ToActivate(w, added)) :
          Becomes(ActivateBlocks(w, added, of))
    BY DEF UpdateActiveBlocks
  <1>2. m_active_blocks' = active2 /\ UNCHANGED <<disk, running>>
    BY DEF UpdateActiveBlocks
  <1>3. v \in Later(World)
    BY BetweenSteps, DeactivatingLoop
  <1> HIDE DEF v
  <1>4. Between(v, disk, m_active_blocks, running)
    BY <1>3, BetweenStill DEF ObjectsInv
  <1>5. Between(w, disk, m_active_blocks, running)
    BY <1>4, LeavingKeeps
  <1> HIDE DEF w
  <1>6. PICK of \in Bijection(ids, ToActivate(w, added)) : Becomes(ActivateBlocks(w, added, of))
    BY <1>1
  <1> DEFINE x == ActivateBlocks(w, added, of)
  <1>7. /\ added \subseteq Positions /\ (\A b \in added : w.map[b] # Absent)
        /\ active2 \subseteq m_active_blocks \cup added
    OBVIOUS
  <1> HIDE DEF added, active2
  <1>8. Between(x, disk, active2, running)
    BY <1>5, <1>7, BetweenSteps, ActivatingKeeps
  <1>9. objs' = x.objs /\ map' = x.map /\ fate' = x.fate
    BY <1>6 DEF Becomes
  <1> HIDE DEF x
  <1> QED BY <1>2, <1>8, <1>9, StepKeeps

-----------------------------------------------------------------------------
(***************************************************************************)
(* The invariant holds in every state, for any blocks, entities and limits *)
(* and any order of the steps, if blocks are not unloaded under objects    *)
(* (serverenvironment.cpp, activeobjectmgr.cpp, map.cpp).                  *)
(***************************************************************************)
THEOREM ObjectsKept == EntityConstants /\ ObjectsSpec => []ObjectsInv
  <1> SUFFICES ASSUME EntityConstants PROVE ObjectsSpec => []ObjectsInv
    OBVIOUS
  <1>1. ObjectsInit => ObjectsInv
    BY FirstWorld
  <1>2. ObjectsInv /\ [ObjectsNext]_objectVars => ObjectsInv'
    <2> SUFFICES ASSUME ObjectsInv, [ObjectsNext]_objectVars
                 PROVE  ObjectsInv'
      OBVIOUS
    <2>1. ASSUME NEW e \in Entities, NEW b \in Positions, NEW save \in BOOLEAN,
                 AddObject(e, b, save)
          PROVE  ObjectsInv'
      BY <2>1, AddStep
    <2>2. ASSUME NEW id \in Ids, objs[id] # Absent,
                 \/ \E b \in Positions : Move(id, b)
                 \/ SetStaticSave(id) \/ RemoveObject(id) \/ Know(id) \/ Forget(id)
          PROVE  ObjectsInv'
      BY <2>2, PropertyStep, RemoveStep
    <2>3. ASSUME NEW list \in SUBSET Positions, NEW changed \in BOOLEAN,
                 UpdateActiveBlocks(list, changed)
          PROVE  ObjectsInv'
      BY <2>3, UpdateStep
    <2>4. CASE RemoveRemovedObjects
      BY <2>4, RemovedStep
    <2>5. ASSUME NEW full \in BOOLEAN, ClearObjects(full) PROVE ObjectsInv'
      BY <2>5, ClearStep
    <2>6. CASE Save
      BY <2>6, SaveStep
    <2>7. CASE Shutdown
      BY <2>7, ShutdownStep
    <2>8. ASSUME NEW b \in Positions, LoadBlock(b) \/ UnloadBlock(b) PROVE ObjectsInv'
      BY <2>8, LoadStep, UnloadStep
    <2>9. CASE UNCHANGED objectVars
      BY <2>9 DEF objectVars, ObjectsInv, World
    <2> QED BY <2>1, <2>2, <2>3, <2>4, <2>5, <2>6, <2>7, <2>8, <2>9 DEF ObjectsNext
  <1> QED BY <1>1, <1>2, PTL DEF ObjectsSpec

-----------------------------------------------------------------------------
\* The tuples of a set of blocks with numbers are one, or none.
LEMMA OneTuple ==
  ASSUME NEW S, NEW n, NEW b \in S, n[b] = 1, \A c \in S : c # b => n[c] = 0
  PROVE  UNION {{<<c, i>> : i \in 1 .. n[c]} : c \in S} = {<<b, 1>>}
  <1> DEFINE T(c) == {<<c, i>> : i \in 1 .. n[c]}
  <1>1. T(b) = {<<b, 1>>}
    OBVIOUS
  <1>2. \A c \in S : c # b => T(c) = {}
    OBVIOUS
  <1> HIDE DEF T
  <1>3. UNION {T(c) : c \in S} = {<<b, 1>>}
    BY <1>1, <1>2
  <1> QED BY <1>3 DEF T

\* They are none if all the numbers are 0.
LEMMA NoTuple ==
  ASSUME NEW S, NEW n, \A c \in S : n[c] = 0
  PROVE  UNION {{<<c, i>> : i \in 1 .. n[c]} : c \in S} = {}
  OBVIOUS

\* How often an entity is stored, in memory or on the disk.
LEMMA WhatIsStored ==
  ASSUME EntityConstants, ObjectsInv, NEW e \in Entities
  PROVE  /\ \A b \in Positions : Has(map, fate, disk, b, e) => StoredOf(e) = {<<b, 1>>}
         /\ (\A b \in Positions : ~Has(map, fate, disk, b, e)) => StoredOf(e) = {}
  <1> DEFINE S == {x \in Positions : Counted(e, Emerged(map, x).old)}
             n == [b \in Positions |-> Emerged(map, b).stored[e]]
  <1>1. /\ disk \in Disks /\ Consistent(World, disk) /\ World.map = map /\ World.fate = fate
        /\ map \in [Positions -> Contents \cup {Absent}]
    BY BetweenSteps
  <1>2. \A b \in Positions : /\ Emerged(map, b).stored[e] = Stores(map, disk, b, e)
                             /\ Emerged(map, b).old = Old(map, disk, b)
    BY <1>1, LoadedBlock
  <1>3. \A b \in Positions : b \in S <=> Counts(fate, e, Old(map, disk, b))
    BY <1>2 DEF Counted, Counts
  <1>4. \A b \in Positions : n[b] = Stores(map, disk, b, e)
    BY <1>2
  <1>5. StoredOf(e) = UNION {{<<b, i>> : i \in 1 .. n[b]} : b \in S}
    <2>1. \A b \in S : n[b] = Emerged(map, b).stored[e]
      OBVIOUS
    <2> HIDE DEF n
    <2>2. {{<<b, i>> : i \in 1 .. n[b]} : b \in S} =
            {{<<b, i>> : i \in 1 .. Emerged(map, b).stored[e]} : b \in S}
      BY <2>1
    <2> QED BY <2>2 DEF StoredOf
  <1>6. S \subseteq Positions
    OBVIOUS
  <1> HIDE DEF S, n
  <1>7. StoredOnce(e, map, fate, disk)
    BY <1>1 DEF Consistent, Fits
  <1>8. \A b \in Positions : Has(map, fate, disk, b, e) <=> b \in S /\ n[b] # 0
    BY <1>3, <1>4 DEF Has
  <1>9. ASSUME NEW b \in Positions, Has(map, fate, disk, b, e)
        PROVE  StoredOf(e) = {<<b, 1>>}
    <2>1. b \in S /\ n[b] = 1 /\ \A c \in S : c # b => n[c] = 0
      BY <1>4, <1>6, <1>7, <1>8, <1>9 DEF StoredOnce
    <2> QED BY <1>5, <2>1, OneTuple
  <1>10. ASSUME \A b \in Positions : ~Has(map, fate, disk, b, e)
         PROVE  StoredOf(e) = {}
    <2>1. \A c \in S : n[c] = 0
      BY <1>6, <1>8, <1>10
    <2> QED BY <1>5, <2>1, NoTuple
  <1> QED BY <1>9, <1>10

\* How many elements one or none are.
LEMMA OneOrNone ==
  ASSUME NEW S
  PROVE  /\ S = {} => Cardinality(S) = 0
         /\ \A p : S = {p} => Cardinality(S) = 1
  BY FS_EmptySet, FS_Singleton

\* In how many forms an entity is there.
LEMMA FormsFound ==
  ASSUME EntityConstants, ObjectsInv, NEW e \in Entities
  PROVE  /\ Forms(e) = {} \/ Cardinality(Forms(e)) = 1
         /\ fate[e] = "there" => Forms(e) # {}
         /\ fate[e] \in {"unmade", "removed", "swept"} => Forms(e) = {}
  <1> DEFINE actives == {x \in Ids : IsActive(e, x)}
             copies == {x \in Ids \X Positions : CopyOf(e, x[1], x[2]) /\ ~IsMirror(e, x[1], x[2])}
  <1>1. /\ disk \in Disks /\ Consistent(World, disk) /\ World.map = map /\ World.fate = fate
        /\ World.objs = objs
    BY BetweenSteps
  <1>2. /\ OneObject(e, objs, map, disk) /\ StoredOnce(e, map, fate, disk)
        /\ AsFated(e, objs, map, fate, disk)
    BY <1>1 DEF Consistent, Fits
  <1>3. Forms(e) = {<<"stored", p>> : p \in StoredOf(e)} \cup {<<"active", id>> : id \in actives}
                   \cup {<<"copy", p>> : p \in copies}
    BY DEF Forms
  <1>4. \A i \in Ids : i \in actives <=> Own(objs, i, e) /\ ~objs[i].removal /\ ~objs[i].deactivation
    BY DEF IsActive, Own
  <1>5. \A i \in Ids, b \in Positions : <<i, b>> \in copies <=>
          Copy(map, b, i, e) /\ ~(Own(objs, i, e) /\ objs[i].block = b /\ ~objs[i].deactivation)
    BY DEF CopyOf, Copy, IsMirror, Own
  <1>6. actives \subseteq Ids /\ copies \subseteq Ids \X Positions
    OBVIOUS
  <1> HIDE DEF actives, copies
  <1>7. \A i \in Ids, b \in Positions : <<i, b>> \in copies <=>
          Own(objs, i, e) /\ objs[i].block = b /\ objs[i].deactivation
    BY <1>2, <1>5 DEF OneObject
  <1>8. CASE \E b \in Positions : Has(map, fate, disk, b, e)
    <2>1. PICK b \in Positions : Has(map, fate, disk, b, e)
      BY <1>8
    <2>2. \A i \in Ids : ~Own(objs, i, e)
      BY <1>2, <2>1 DEF OneObject, Has
    <2>3. actives = {} /\ copies = {}
      BY <1>4, <1>6, <1>7, <2>2
    <2>4. StoredOf(e) = {<<b, 1>>}
      BY <2>1, WhatIsStored
    <2>5. Forms(e) = {<<"stored", <<b, 1>>>>}
      BY <1>3, <2>3, <2>4
    <2>6. fate[e] \notin {"unmade", "removed", "swept"}
      BY <1>2, <2>1 DEF AsFated
    <2> QED BY <2>5, <2>6, OneOrNone
  <1>9. ASSUME \A b \in Positions : ~Has(map, fate, disk, b, e),
               NEW i \in Ids, Own(objs, i, e)
        PROVE  /\ Forms(e) = {} \/ Cardinality(Forms(e)) = 1
               /\ fate[e] = "there" => Forms(e) # {}
               /\ fate[e] \in {"unmade", "removed", "swept"} => Forms(e) = {}
    <2>1. StoredOf(e) = {}
      BY <1>9, WhatIsStored
    <2>2. \A j \in Ids : Own(objs, j, e) => j = i
      BY <1>2, <1>9 DEF OneObject
    <2>3. fate[e] = "there" => Lives(objs[i])
      BY <1>2, <1>9, <2>2 DEF AsFated
    <2>4. /\ fate[e] \notin {"unmade", "swept"}
          /\ fate[e] = "removed" => objs[i].removal \/ (objs[i].deactivation /\ objs[i].block = Absent)
      BY <1>2, <1>9 DEF AsFated
    <2>5. objs[i].removal /\ objs[i].deactivation => objs[i].block = Absent
      BY <1>2, <1>9 DEF OneObject
    <2>6. objs[i].block = Absent \/ objs[i].block \in Positions
      <3>1. World \in Worlds
        BY <1>1 DEF Consistent
      <3> QED BY <1>1, <1>9, <3>1 DEF Worlds, Bodies, Own
    <2>7. Absent \notin Positions
      BY DEF EntityConstants
    <2>8. CASE ~objs[i].removal /\ ~objs[i].deactivation
      <3>1. actives = {i}
        BY <1>4, <1>6, <1>9, <2>2, <2>8
      <3>2. copies = {}
        BY <1>6, <1>7, <2>2, <2>8
      <3>3. Forms(e) = {<<"active", i>>}
        BY <1>3, <2>1, <3>1, <3>2
      <3> QED BY <2>4, <2>8, <3>3, OneOrNone
    <2>9. CASE objs[i].deactivation /\ objs[i].block # Absent
      <3>1. actives = {}
        BY <1>4, <1>6, <2>2, <2>9
      <3>2. copies = {<<i, objs[i].block>>}
        <4>1. <<i, objs[i].block>> \in copies
          BY <1>7, <1>9, <2>6, <2>9
        <4>2. \A x \in copies : x = <<i, objs[i].block>>
          BY <1>6, <1>7, <2>2
        <4> QED BY <4>1, <4>2
      <3>3. Forms(e) = {<<"copy", <<i, objs[i].block>>>>}
        BY <1>3, <2>1, <3>1, <3>2
      <3> QED BY <2>4, <2>5, <2>9, <3>3, OneOrNone
    <2>10. CASE (objs[i].removal \/ objs[i].deactivation)
                /\ ~(objs[i].deactivation /\ objs[i].block # Absent)
      <3>1. actives = {}
        BY <1>4, <1>6, <2>2, <2>10
      <3>2. copies = {}
        BY <1>6, <1>7, <2>2, <2>7, <2>10
      <3>3. Forms(e) = {}
        BY <1>3, <2>1, <3>1, <3>2
      <3>4. ~Lives(objs[i])
        BY <2>10 DEF Lives
      <3> QED BY <2>3, <3>3, <3>4
    <2> QED BY <2>8, <2>9, <2>10
  <1>10. CASE /\ \A b \in Positions : ~Has(map, fate, disk, b, e)
              /\ \A i \in Ids : ~Own(objs, i, e)
    <2>1. StoredOf(e) = {} /\ actives = {} /\ copies = {}
      BY <1>4, <1>6, <1>7, <1>10, WhatIsStored
    <2>2. Forms(e) = {}
      BY <1>3, <2>1
    <2>3. fate[e] # "there"
      BY <1>2, <1>10 DEF AsFated
    <2> QED BY <2>2, <2>3
  <1> QED BY <1>8, <1>9, <1>10

(***************************************************************************)
(* No entity is in two forms, one that a mod added is in one, and one that *)
(* was never added, or was removed or cleared, is in none: after every     *)
(* step from block to object and back, to the disk and from it, by mods,   *)
(* by clearObjects and at shutdown.  What it does not say is that an       *)
(* entity is there until it is removed and gone from then on: it may be    *)
(* dropped, swept or revived (see OneForm).                                *)
(***************************************************************************)
THEOREM OneFormHolds == EntityConstants /\ ObjectsSpec => []OneForm
  <1> SUFFICES ASSUME EntityConstants PROVE ObjectsSpec => []OneForm
    OBVIOUS
  <1>1. ObjectsInv => OneForm
    <2> SUFFICES ASSUME ObjectsInv, NEW e \in Entities
                 PROVE  /\ Cardinality(Forms(e)) <= 1
                        /\ fate[e] = "there" => Forms(e) # {}
                        /\ fate[e] \in {"unmade", "removed"} => Forms(e) = {}
      BY DEF OneForm
    <2>1. /\ Forms(e) = {} \/ Cardinality(Forms(e)) = 1
          /\ fate[e] = "there" => Forms(e) # {}
          /\ fate[e] \in {"unmade", "removed", "swept"} => Forms(e) = {}
      BY FormsFound
    <2>2. Forms(e) = {} => Cardinality(Forms(e)) = 0
      BY OneOrNone
    <2> QED BY <2>1, <2>2
  <1>2. ObjectsSpec => []ObjectsInv
    BY ObjectsKept
  <1> QED BY <1>1, <1>2, PTL

-----------------------------------------------------------------------------
\* While no block waits to be written, the disk has what the blocks store, and
\* what they have copies of.
LEMMA WhenSettled ==
  ASSUME EntityConstants, ObjectsInv, Settled, NEW e \in Entities
  PROVE  /\ Fits(e, objs, map, fate, disk) /\ running /\ fate[e] \in Fates \ {"revived"}
         /\ \A b \in Positions : Kept(map, b) \/
              /\ map[b] = Absent /\ Stores(map, disk, b, e) = disk[b].held[e]
              /\ Has(map, fate, disk, b, e) <=> DiskHas(fate, disk, b, e)
  <1>1. /\ Consistent(World, disk) /\ World.objs = objs /\ World.map = map
        /\ World.fate = fate /\ World \in Worlds
        /\ running => \A f \in Entities : fate[f] # "revived"
    BY BetweenSteps
  <1>2. Fits(e, objs, map, fate, disk)
    BY <1>1 DEF Consistent
  <1>3. running /\ \A b \in Positions : map[b] = Absent \/ Kept(map, b)
    BY DEF Settled, Kept
  <1>4. fate[e] \in Fates
    BY <1>1 DEF Worlds
  <1>5. \A b \in Positions : map[b] = Absent =>
          /\ Stores(map, disk, b, e) = disk[b].held[e]
          /\ Has(map, fate, disk, b, e) <=> DiskHas(fate, disk, b, e)
    BY DEF Stores, Has, DiskHas, Old
  <1> QED BY <1>1, <1>2, <1>3, <1>4, <1>5

\* How often the disk then has an entity.
LEMMA WhatIsOnDisk ==
  ASSUME EntityConstants, ObjectsInv, Settled, NEW e \in Entities
  PROVE  /\ \A b \in Positions : DiskHas(fate, disk, b, e) => OnDiskOf(e) = {<<b, 1>>}
         /\ (\A b \in Positions : ~DiskHas(fate, disk, b, e)) => OnDiskOf(e) = {}
  <1> DEFINE S == {x \in Positions : Counted(e, disk[x].old)}
             n == [b \in Positions |-> disk[b].held[e]]
  <1>1. /\ Fits(e, objs, map, fate, disk)
        /\ \A b \in Positions : Kept(map, b) \/
             /\ map[b] = Absent /\ Stores(map, disk, b, e) = disk[b].held[e]
             /\ Has(map, fate, disk, b, e) <=> DiskHas(fate, disk, b, e)
    BY WhenSettled
  <1>2. StoredOnce(e, map, fate, disk) /\ OnDiskToo(e, objs, map, fate, disk)
    BY <1>1 DEF Fits
  <1>3. ASSUME NEW b \in Positions, DiskHas(fate, disk, b, e),
               NEW c \in Positions, DiskHas(fate, disk, c, e)
        PROVE  b = c /\ disk[b].held[e] = 1
    <2>1. CASE Kept(map, b)
      BY <1>1, <1>2, <1>3, <2>1 DEF OnDiskToo
    <2>2. CASE ~Kept(map, b)
      <3>1. Has(map, fate, disk, b, e) /\ Stores(map, disk, b, e) = disk[b].held[e]
        BY <1>1, <1>3, <2>2
      <3>2. disk[b].held[e] = 1
        BY <1>2, <3>1 DEF StoredOnce
      <3>3. CASE Kept(map, c)
        BY <1>2, <1>3, <3>1, <3>2, <3>3 DEF OnDiskToo
      <3>4. CASE ~Kept(map, c)
        <4>1. Has(map, fate, disk, c, e)
          BY <1>1, <1>3, <3>4
        <4> QED BY <1>2, <3>1, <3>2, <4>1 DEF StoredOnce
      <3> QED BY <3>3, <3>4
    <2> QED BY <2>1, <2>2
  <1>4. OnDiskOf(e) = UNION {{<<b, i>> : i \in 1 .. n[b]} : b \in S}
    <2>1. \A b \in S : n[b] = disk[b].held[e]
      OBVIOUS
    <2> HIDE DEF n
    <2>2. {{<<b, i>> : i \in 1 .. n[b]} : b \in S} =
            {{<<b, i>> : i \in 1 .. disk[b].held[e]} : b \in S}
      BY <2>1
    <2> QED BY <2>2 DEF OnDiskOf
  <1>5. S \subseteq Positions /\ \A b \in Positions : n[b] = disk[b].held[e]
    OBVIOUS
  <1>6. \A b \in Positions : DiskHas(fate, disk, b, e) <=> b \in S /\ n[b] # 0
    BY DEF DiskHas, Counts, Counted
  <1> HIDE DEF S, n
  <1>7. ASSUME NEW b \in Positions, DiskHas(fate, disk, b, e)
        PROVE  OnDiskOf(e) = {<<b, 1>>}
    <2>1. b \in S /\ n[b] = 1
      BY <1>3, <1>5, <1>6, <1>7
    <2>2. \A c \in S : c # b => n[c] = 0
      BY <1>3, <1>5, <1>6, <1>7
    <2> QED BY <1>4, <2>1, <2>2, OneTuple
  <1>8. ASSUME \A b \in Positions : ~DiskHas(fate, disk, b, e)
        PROVE  OnDiskOf(e) = {}
    <2>1. \A c \in S : n[c] = 0
      BY <1>5, <1>6, <1>8
    <2> QED BY <1>4, <2>1, NoTuple
  <1> QED BY <1>7, <1>8

\* So each entity is saved that has static data, and none that is gone.
LEMMA SavedFound ==
  ASSUME EntityConstants, ObjectsInv, Settled, NEW e \in Entities
  PROVE  Saved(e)
  <1> DEFINE settled(b) == \/ Kept(map, b)
                           \/ /\ map[b] = Absent /\ Stores(map, disk, b, e) = disk[b].held[e]
                              /\ Has(map, fate, disk, b, e) <=> DiskHas(fate, disk, b, e)
  <1>1. /\ Fits(e, objs, map, fate, disk) /\ fate[e] \in Fates \ {"revived"}
        /\ \A b \in Positions : settled(b)
    BY WhenSettled
  <1>2. /\ OneObject(e, objs, map, disk) /\ AsFated(e, objs, map, fate, disk)
        /\ OnDiskToo(e, objs, map, fate, disk)
    BY <1>1 DEF Fits
  <1>3. /\ \A b \in Positions : DiskHas(fate, disk, b, e) => Cardinality(OnDiskOf(e)) = 1
        /\ (\A b \in Positions : ~DiskHas(fate, disk, b, e)) => Cardinality(OnDiskOf(e)) = 0
    BY WhatIsOnDisk, OneOrNone
  <1> HIDE DEF settled
  <1>4. Absent \notin Positions
    BY DEF EntityConstants
  <1>5. ASSUME NEW id \in Ids, Own(objs, id, e), ~objs[id].removal
        PROVE  Cardinality(OnDiskOf(e)) = IF objs[id].block # Absent THEN 1 ELSE 0
    <2>1. CASE objs[id].block # Absent
      <3> DEFINE b == objs[id].block
      <3>1. b \in Positions
        <4>1. World \in Worlds /\ World.objs = objs
          BY BetweenSteps
        <4> QED BY <1>5, <2>1, <4>1 DEF Worlds, Bodies, Own
      <3>2. Copy(map, b, id, e)
        BY <1>2, <1>5, <3>1 DEF OneObject
      <3>3. Kept(map, b)
        BY <1>1, <3>1, <3>2 DEF settled, Copy
      <3>4. disk[b].held[e] = 1
        BY <1>2, <3>1, <3>2, <3>3 DEF OnDiskToo
      <3>5. fate[e] \notin {"removed", "swept"}
        BY <1>2, <1>5, <2>1 DEF AsFated
      <3>6. DiskHas(fate, disk, b, e)
        BY <3>4, <3>5 DEF DiskHas, Counts
      <3> QED BY <1>3, <2>1, <3>1, <3>6
    <2>2. CASE objs[id].block = Absent
      <3>1. ASSUME NEW c \in Positions PROVE disk[c].held[e] = 0
        <4>1. CASE Kept(map, c)
          BY <1>2, <1>4, <1>5, <2>2, <4>1 DEF OnDiskToo
        <4>2. CASE ~Kept(map, c)
          BY <1>1, <1>2, <1>5, <4>2 DEF settled, OneObject
        <4> QED BY <4>1, <4>2
      <3> QED BY <1>3, <2>2, <3>1 DEF DiskHas
    <2> QED BY <2>1, <2>2
  <1>6. ASSUME \A i \in Ids : ~Own(objs, i, e), fate[e] # "dropped"
        PROVE  Cardinality(OnDiskOf(e)) = IF fate[e] = "there" THEN 1 ELSE 0
    <2>1. CASE fate[e] = "there"
      <3>1. PICK b \in Positions : Has(map, fate, disk, b, e)
        BY <1>2, <1>6, <2>1 DEF AsFated
      <3>2. DiskHas(fate, disk, b, e)
        BY <1>1, <1>2, <3>1 DEF settled, OnDiskToo
      <3> QED BY <1>3, <2>1, <3>2
    <2>2. CASE fate[e] # "there"
      <3>1. fate[e] \in {"unmade", "removed", "swept"}
        BY <1>1, <1>6, <2>2 DEF Fates
      <3>2. \A b \in Positions : ~Has(map, fate, disk, b, e)
        BY <1>2, <3>1 DEF AsFated
      <3>3. \A b \in Positions, i \in Ids : ~Copy(map, b, i, e)
        BY <1>2, <1>6 DEF OneObject
      <3>4. ASSUME NEW c \in Positions PROVE ~DiskHas(fate, disk, c, e)
        <4>1. CASE Kept(map, c)
          BY <1>2, <3>1, <3>2, <3>3, <4>1 DEF OnDiskToo
        <4>2. CASE ~Kept(map, c)
          BY <1>1, <3>2, <4>2 DEF settled
        <4> QED BY <4>1, <4>2
      <3> QED BY <1>3, <2>2, <3>4
    <2> QED BY <2>1, <2>2
  <1>7. (\E i \in Ids : objs[i] # Absent /\ objs[i].entity = e) <=> \E i \in Ids : Own(objs, i, e)
    BY DEF Own
  <1>8. \A i \in Ids : objs[i] # Absent /\ objs[i].entity = e /\ ~objs[i].removal =>
          Cardinality(OnDiskOf(e)) = IF objs[i].block # Absent THEN 1 ELSE 0
    BY <1>5 DEF Own
  <1> QED BY <1>6, <1>7, <1>8 DEF Saved

(***************************************************************************)
(* While no block waits to be written the disk has each entity that has    *)
(* static data once, and none that is gone: whatever changes static        *)
(* objects raises what is to be written of their block.                    *)
(***************************************************************************)
THEOREM SavedWhenSettledHolds == EntityConstants /\ ObjectsSpec => []SavedWhenSettled
  <1> SUFFICES ASSUME EntityConstants PROVE ObjectsSpec => []SavedWhenSettled
    OBVIOUS
  <1>1. ObjectsInv => SavedWhenSettled
    BY SavedFound DEF SavedWhenSettled
  <1>2. ObjectsSpec => []ObjectsInv
    BY ObjectsKept
  <1> QED BY <1>1, <1>2, PTL
=============================================================================
