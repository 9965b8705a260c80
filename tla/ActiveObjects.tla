--------------------------- MODULE ActiveObjects -----------------------------
(***************************************************************************)
(* How entities pass between their active form (server/activeobjectmgr)    *)
(* and the static form that their map block keeps of them                  *)
(* (serverenvironment.cpp, staticobject.h, mapblock.cpp), and with the     *)
(* block to the disk.  All of it happens in the server thread, one         *)
(* interval of ServerEnvironment::step after the other.                    *)
(*                                                                         *)
(* A block has a static copy of each object: in m_active, under the id of  *)
(* the object, or in m_stored when the object is not active.  Time is kept *)
(* only so far: objects that are gone are removed (every 0.5 s) between    *)
(* two updates of the active blocks (2 s), and a block is unloaded (29 s)  *)
(* after IdleLimit updates without it.                                     *)
(***************************************************************************)
EXTENDS Integers, FiniteSets, Functions

CONSTANTS
  Positions,       \* positions of map blocks, all generated
  FarFrom,         \* block -> blocks three or more away from it
  Entities,        \* what mods may add
  MaxStored,       \* max_objects_per_block
  Parting,         \* blocks are unloaded while active objects have copies in them
  Absent,
  MaxId, IdleLimit,
  MaxCalls         \* bounds of the model: ids; see above; entities and clearObjects

VARIABLES
  objs,            \* m_active_objects: id -> object or Absent
  map,             \* block -> its static objects and flags, as far as loaded
  disk,            \* block -> what was saved of it
  m_active_blocks,
  running,         \* not shut down
  fate,            \* history: what was to become of each entity
  clears           \* calls of clearObjects

objectVars == <<objs, map, disk, m_active_blocks, running, fate, clears>>

Ids == 1 .. MaxId
Nothing == [e \in Entities |-> 0]

\* ModifiedState
Clean == 0
WriteAtUnload == 1
WriteNeeded == 2

ObjectsInit ==
  /\ objs = [id \in Ids |-> Absent]
  /\ map = [b \in Positions |-> Absent]
  /\ disk = [b \in Positions |-> [held |-> Nothing, old |-> FALSE]]
  /\ m_active_blocks = {} /\ running = TRUE
  /\ fate = [e \in Entities |-> "unmade"] /\ clears = 0

-----------------------------------------------------------------------------
(***************************************************************************)
(* The calls work on a world: objects, loaded blocks, and the fates.       *)
(***************************************************************************)
World == [objs |-> objs, map |-> map, fate |-> fate]
Becomes(world) == \E w \in {world} : objs' = w.objs /\ map' = w.map /\ fate' = w.fate

WithObject(w, id, o) ==
  [objs |-> [w.objs EXCEPT ![id] = o], map |-> w.map, fate |-> w.fate]
WithBlock(w, b, block) ==
  [objs |-> w.objs, map |-> [w.map EXCEPT ![b] = block], fate |-> w.fate]

\* The entities es meet their fate, but for those that have met one before.
Meet(fates, es, end) ==
  [e \in Entities |-> IF e \in es /\ fates[e] = "there" THEN end ELSE fates[e]]

Met(w, e, end) == [objs |-> w.objs, map |-> w.map, fate |-> Meet(w.fate, {e}, end)]

\* Mutant: removal is forgotten.
GoneIfDeactivated(o) == o.deactivation
Gone(o) == o.removal \/ o.deactivation
Total(held) == FoldFunction(+, 0, held)

\* ServerMap::emergeBlock: block b, loaded when it is not.
Emerged(m, b) ==
  IF m[b] # Absent THEN m[b]
  ELSE [stored |-> disk[b].held, active |-> {}, old |-> disk[b].old,
        modified |-> Clean, idle |-> 0]

\* MapBlock::raiseModified; the mutant lowers what another has raised.
RaisedTo(block, level) == [block EXCEPT !.modified = level]
Raised(block, level) == [block EXCEPT !.modified = IF level > @ THEN level ELSE @]

\* StaticObjectList: remove, setActive and pushStored.
WithoutCopy(block, id) == [block EXCEPT !.active = {x \in @ : x.id # id}]
WithCopy(block, id, e) == [block EXCEPT !.active = @ \cup {[id |-> id, entity |-> e]}]
WithStored(block, e) == [block EXCEPT !.stored = [block.stored EXCEPT ![e] = @ + 1]]

\* deleteStaticFromBlock, which loads the block.
WithoutStatic(w, id, level) ==
  LET o == w.objs[id]
      block == Raised(Emerged(w.map, o.block), level)
  IN IF o.block = Absent THEN w
     ELSE WithBlock(WithObject(w, id, [o EXCEPT !.block = Absent]),
                    o.block, WithoutCopy(block, id))

HasCopy(block, id) == \E x \in block.active : x.id = id

HasRoom(m, b) == Total(Emerged(m, b).stored) < MaxStored

\* saveStaticToBlock, when there is room: under the object's id or as stored.
WithStatic(w, id, asActive, level) ==
  LET o == w.objs[id]
      block == Raised(Emerged(w.map, o.at), level)
  IN WithBlock(WithObject(w, id, [o EXCEPT !.block = o.at]), o.at,
               IF asActive THEN WithCopy(block, id, o.entity)
               ELSE WithStored(block, o.entity))

\* ... and when there is none the block is loaded.
NoRoomAt(w, b) == WithBlock(w, b, Emerged(w.map, b))

\* ActiveObjectMgr::clearIf handles each object, as far as it is still there.
EachObject(Handle(_, _), w) ==
  LET after[id \in 0 .. MaxId] ==
        IF id = 0 THEN w
        ELSE LET v == after[id - 1] IN IF v.objs[id] = Absent THEN v ELSE Handle(v, id)
  IN after[MaxId]

NewObject(e, b) ==
  [entity |-> e, at |-> b, save |-> TRUE, block |-> b,
   removal |-> FALSE, deactivation |-> FALSE, known |-> FALSE]
Free(w) == {id \in Ids : w.objs[id] = Absent}

\* activateBlock: what was stored before the last clearObjects is cleared; of the
\* rest all are deleted when they are too many, else each becomes active.
TooMany(block) == ~block.old /\ Total(block.stored) > MaxStored
Stored(w, blocks) == {e \in Entities : \E b \in blocks : w.map[b].stored[e] > 0}
ToActivate(w, blocks) ==
  UNION {{<<b, e, i>> : i \in 1 .. w.map[b].stored[e]} :
           b \in {x \in blocks : ~w.map[x].old /\ ~TooMany(w.map[x])}, e \in Entities}

\* addActiveObjectRaw of an object that has static data; of tells whose an id is.
Activated(block, b, of) ==
  [stored |-> Nothing, old |-> FALSE, idle |-> 0,
   modified |-> IF TooMany(block) THEN WriteNeeded ELSE block.modified,
   active |-> block.active \cup
     {[id |-> id, entity |-> of[id][2]] : id \in {x \in DOMAIN of : of[x][1] = b}}]

ActivateBlocks(w, blocks, of) ==
  [objs |-> [id \in Ids |-> IF id \in DOMAIN of THEN NewObject(of[id][2], of[id][1])
                            ELSE w.objs[id]],
   map |-> [b \in Positions |-> IF b \in blocks THEN Activated(w.map[b], b, of)
                               ELSE w.map[b]],
   fate |-> Meet(Meet(w.fate, Stored(w, {b \in blocks : w.map[b].old}), "swept"),
                 Stored(w, {b \in blocks : TooMany(w.map[b])}), "dropped")]

-----------------------------------------------------------------------------
MayCall == clears + Cardinality({e \in Entities : fate[e] # "unmade"}) < MaxCalls

\* core.add_entity: addActiveObject, with static_save or without.
AddObject(e, b, save) ==
  /\ running /\ fate[e] = "unmade" /\ MayCall
  /\ \E id \in Free(World) :
     LET o == [NewObject(e, b) EXCEPT !.save = save, !.block = Absent]
         placed == [WithObject(World, id, o) EXCEPT !.fate = [fate EXCEPT ![e] = "there"]]
     IN Becomes(IF save THEN WithStatic(placed, id, TRUE, WriteNeeded) ELSE placed)
  /\ UNCHANGED <<disk, m_active_blocks, running, clears>>

ChangeObject(id, o) ==
  /\ running /\ objs' = [objs EXCEPT ![id] = o]
  /\ UNCHANGED <<map, disk, m_active_blocks, running, clears>>

\* An object moves into another block, in its step or by a mod.
Move(id, b) ==
  /\ ~Gone(objs[id]) /\ objs[id].at # b
  /\ ChangeObject(id, [objs[id] EXCEPT !.at = b]) /\ UNCHANGED fate

\* A mod changes static_save among the properties.
SetStaticSave(id) ==
  /\ ~Gone(objs[id])
  /\ ChangeObject(id, [objs[id] EXCEPT !.save = ~@]) /\ UNCHANGED fate

\* ObjectRef::l_remove
RemoveObject(id) ==
  /\ ~Gone(objs[id])
  /\ ChangeObject(id, [objs[id] EXCEPT !.removal = TRUE])
  /\ fate' = Meet(fate, {objs[id].entity}, "removed")

\* SendActiveObjectRemoveAdd: a client learns of an object, or forgets it.
Know(id) ==
  /\ ~Gone(objs[id]) /\ ~objs[id].known
  /\ ChangeObject(id, [objs[id] EXCEPT !.known = TRUE]) /\ UNCHANGED fate
Forget(id) ==
  /\ objs[id].known
  /\ ChangeObject(id, [objs[id] EXCEPT !.known = FALSE]) /\ UNCHANGED fate

-----------------------------------------------------------------------------
\* The static copy lies in a block that is no longer active, or far away.
ShallResave(o, active) ==
  /\ o.save /\ o.block # Absent /\ o.at \in active
  /\ o.block \notin active \/ o.block \in FarFrom[o.at]

Resave(w, id) ==
  LET v == WithoutStatic(w, id, WriteNeeded)
      at == w.objs[id].at
  IN IF HasRoom(v.map, at) THEN WithStatic(v, id, TRUE, WriteNeeded)
     ELSE NoRoomAt(v, at)

StillActive(o, active, m) ==
  IF o.save THEN o.at \in active ELSE m[o.at] # Absent

\* An object becomes static: at once, or when no client knows it any more.  The
\* blocks are marked only if the object has moved to another or changed its data.
MakeStatic(w, id, force, changed) ==
  LET o == w.objs[id]
      pending == o.known /\ ~force
      inPlace == o.save /\ o.block = o.at /\ HasCopy(Emerged(w.map, o.at), id)
      level == IF inPlace /\ ~changed THEN Clean ELSE WriteNeeded
      v == WithoutStatic(w, id, level)
      kept == o.save /\ HasRoom(v.map, o.at)
      dropped == Met(IF o.save THEN NoRoomAt(v, o.at) ELSE v, o.entity,
                     IF o.save THEN "dropped" ELSE "removed")
      s == IF kept THEN WithStatic(v, id, pending, level) ELSE dropped
  IN IF pending /\ (kept \/ ~o.save)
     THEN WithObject(s, id, [s.objs[id] EXCEPT !.deactivation = TRUE])
     ELSE WithObject(s, id, Absent)

DeactivateFar(w, id, active, force, changed) ==
  LET o == w.objs[id]
  IN IF force THEN MakeStatic(w, id, TRUE, changed)
     ELSE IF Gone(o) THEN w
     ELSE IF ShallResave(o, active) THEN Resave(w, id)
     ELSE IF StillActive(o, active, w.map) THEN w
     ELSE MakeStatic(w, id, FALSE, changed)

DeactivateFarObjects(w, active, force, changed) ==
  EachObject(LAMBDA v, id : DeactivateFar(v, id, active, force, changed), w)

\* ServerEnvironment::step manages the list of active blocks.  A block that is
\* not loaded is emerged, and added the next time.
Left(m, list) ==
  [b \in Positions |->
     IF m[b] = Absent THEN Absent
     ELSE LET left == IF b \notin m_active_blocks \ list THEN m[b]
                      ELSE [Raised(m[b], WriteAtUnload) EXCEPT !.old = FALSE]
          IN IF b \in list \/ left.idle = IdleLimit THEN left
             ELSE [left EXCEPT !.idle = @ + 1]]

UpdateActiveBlocks(list, changed) ==
  /\ running
  /\ \E v \in {DeactivateFarObjects(World, list, FALSE, changed)} :
     \E w \in {[v EXCEPT !.map = Left(v.map, list)]} :
     LET added == {b \in list \ m_active_blocks : w.map[b] # Absent}
     IN /\ \E ids \in SUBSET Free(w) : \E of \in Bijection(ids, ToActivate(w, added)) :
             Becomes(ActivateBlocks(w, added, of))
        /\ m_active_blocks' = (m_active_blocks \cap list) \cup added
  /\ UNCHANGED <<disk, running, clears>>

\* The server loads a block for some other reason, such as the emerge threads.
LoadBlock(b) ==
  /\ running /\ map[b] = Absent
  /\ map' = [map EXCEPT ![b] = Emerged(map, b)]
  /\ UNCHANGED <<objs, disk, m_active_blocks, running, fate, clears>>

\* removeRemovedObjects, for one object.
RemoveRemovedObject(w, id) ==
  LET o == w.objs[id]
      v == WithoutStatic(w, id, WriteNeeded)
      block == Emerged(w.map, o.block)
      stored == IF HasCopy(block, id)
                THEN Raised(WithStored(WithoutCopy(block, id), o.entity), WriteNeeded)
                ELSE block
  IN IF o.removal THEN (IF o.known THEN v ELSE WithObject(v, id, Absent))
     ELSE IF ~o.deactivation \/ o.known THEN w
     ELSE IF o.block = Absent THEN WithObject(w, id, Absent)
     ELSE WithObject(WithBlock(w, o.block, stored), id, Absent)

RemoveRemovedObjects ==
  /\ running /\ \E id \in Ids : objs[id] # Absent /\ Gone(objs[id])
  /\ Becomes(EachObject(RemoveRemovedObject, World))
  /\ UNCHANGED <<disk, m_active_blocks, running, clears>>

-----------------------------------------------------------------------------
\* clearObjects: an object goes when no client knows it any more, and its static
\* copy at once if the block is loaded.  All blocks that are loaded are emptied,
\* in full mode also those on disk; the others when they are next activated.
ClearObject(w, id) ==
  LET o == w.objs[id]
      loaded == o.block # Absent /\ w.map[o.block] # Absent
      v == IF loaded THEN WithoutStatic(w, id, WriteNeeded) ELSE w
  IN WithObject(v, id, IF o.known THEN [v.objs[id] EXCEPT !.removal = TRUE] ELSE Absent)

Emptied(block, older) ==
  [stored |-> Nothing, active |-> {}, old |-> block.old \/ older, idle |-> block.idle,
   modified |-> IF block.active = {} /\ block.stored = Nothing THEN block.modified
                ELSE WriteNeeded]

ClearObjects(full) ==
  /\ running /\ MayCall
  /\ \E w \in {EachObject(ClearObject, World)} :
       /\ objs' = w.objs /\ fate' = Meet(w.fate, Entities, "removed")
       /\ map' = [b \in Positions |-> IF w.map[b] = Absent THEN Absent
                                  ELSE Emptied(w.map[b], b \notin m_active_blocks)]
  /\ disk' = [b \in Positions |->
       [held |-> IF full /\ map[b] = Absent THEN Nothing ELSE disk[b].held, old |-> TRUE]]
  /\ clears' = clears + 1
  /\ UNCHANGED <<m_active_blocks, running>>

-----------------------------------------------------------------------------
\* StaticObjectList::serialize: on disk the two lists are one.
OnDisk(block) ==
  [held |-> [e \in Entities |->
               block.stored[e] + Cardinality({x \in block.active : x.entity = e})],
   old |-> block.old]

Written(m, level) ==
  [b \in Positions |-> IF m[b] # Absent /\ m[b].modified >= level THEN OnDisk(m[b])
                      ELSE disk[b]]

\* ServerMap::save, every server_map_save_interval.
Save ==
  /\ running
  /\ \E b \in Positions : map[b] # Absent /\ map[b].modified = WriteNeeded
  /\ disk' = Written(map, WriteNeeded)
  /\ map' = [b \in Positions |->
               IF map[b] # Absent /\ map[b].modified = WriteNeeded
               THEN [map[b] EXCEPT !.modified = Clean] ELSE map[b]]
  /\ UNCHANGED <<objs, m_active_blocks, running, fate, clears>>

\* Map::timerUpdate, which does not ask for active objects that have their copy
\* in the block: object and copy part.
UnloadBlock(b) ==
  /\ running /\ map[b] # Absent /\ b \notin m_active_blocks /\ map[b].idle = IdleLimit
  /\ map' = [map EXCEPT ![b] = Absent]
  /\ disk' = IF map[b].modified = Clean THEN disk ELSE [disk EXCEPT ![b] = OnDisk(map[b])]
  /\ Parting \/ map[b].active = {}
  /\ UNCHANGED <<objs, m_active_blocks, running, fate, clears>>

\* What is being removed is stored all the same.
Revived ==
  [e \in Entities |->
     IF fate[e] = "removed" /\ \E id \in Ids : objs[id] # Absent /\ objs[id].removal
                                               /\ objs[id].entity = e
     THEN "revived" ELSE fate[e]]

\* deactivateBlocksAndObjects, and what ~ServerMap saves.
Shutdown ==
  /\ running /\ running' = FALSE
  /\ \E changed \in BOOLEAN :
     \E w \in {DeactivateFarObjects([World EXCEPT !.fate = Revived], {}, TRUE, changed)} :
       /\ objs' = w.objs /\ fate' = w.fate
       /\ map' = [b \in Positions |-> Absent]
       /\ disk' = Written(w.map, WriteAtUnload)
  /\ m_active_blocks' = {}
  /\ UNCHANGED clears

ObjectsNext ==
  \/ \E e \in Entities, b \in Positions, save \in BOOLEAN : AddObject(e, b, save)
  \/ \E id \in Ids : objs[id] # Absent /\
       \/ \E b \in Positions : Move(id, b)
       \/ SetStaticSave(id) \/ RemoveObject(id) \/ Know(id) \/ Forget(id)
  \/ \E list \in SUBSET Positions, changed \in BOOLEAN : UpdateActiveBlocks(list, changed)
  \/ RemoveRemovedObjects
  \/ \E full \in BOOLEAN : ClearObjects(full)
  \/ Save \/ Shutdown
  \/ \E b \in Positions : LoadBlock(b) \/ UnloadBlock(b)

ObjectsSpec == ObjectsInit /\ [][ObjectsNext]_objectVars

-----------------------------------------------------------------------------
\* Copies of e on the disk, and static ones in all.  What clearObjects has marked
\* as old is cleared when it is activated, and counts for nothing.
Counted(e, old) == ~(old /\ fate[e] \in {"removed", "swept"})
OnDiskOf(e) ==
  UNION {{<<b, i>> : i \in 1 .. disk[b].held[e]} :
           b \in {x \in Positions : Counted(e, disk[x].old)}}
StoredOf(e) ==
  UNION {{<<b, i>> : i \in 1 .. Emerged(map, b).stored[e]} :
           b \in {x \in Positions : Counted(e, Emerged(map, x).old)}}

\* The copy of e under id in b is a mirror of the object that has this id.
CopyOf(e, id, b) == map[b] # Absent /\ [id |-> id, entity |-> e] \in map[b].active
IsMirror(e, id, b) ==
  /\ objs[id] # Absent /\ ~objs[id].deactivation
  /\ objs[id].entity = e /\ objs[id].block = b

IsActive(e, id) ==
  /\ objs[id] # Absent /\ objs[id].entity = e
  /\ ~objs[id].removal /\ ~objs[id].deactivation

Forms(e) ==
  {<<"stored", p>> : p \in StoredOf(e)}
  \cup {<<"active", id>> : id \in {x \in Ids : IsActive(e, x)}}
  \cup {<<"copy", p>> : p \in {x \in Ids \X Positions : CopyOf(e, x[1], x[2])
                                                       /\ ~IsMirror(e, x[1], x[2])}}

(***************************************************************************)
(* Nothing is in two forms, active or static, in memory or on the disk.    *)
(* What a mod has added is in one; what was never added, or was removed or *)
(* cleared, is in none.  And the copies under ids in a block are mirrors   *)
(* of active objects: "If this ever happens, there must be some kind of    *)
(* nasty bug" (setStaticForActiveObjectsInBlock).                          *)
(*                                                                         *)
(* Three ends are the code's own, and of these only "not two" is said      *)
(* here: an entity is "dropped" when its block has no room or too many     *)
(* objects, "swept" when it was added after the clearing that takes it     *)
(* away, "revived" when the server stops before its removal is carried     *)
(* out.  The last section is about them.                                   *)
(***************************************************************************)
OneForm == \A e \in Entities :
  /\ Cardinality(Forms(e)) <= 1
  /\ fate[e] = "there" => Forms(e) # {}
  /\ fate[e] \in {"unmade", "removed"} => Forms(e) = {}

(***************************************************************************)
(* While no block waits to be written the disk has each entity that has    *)
(* static data once, and none that is gone: a crash would neither lose nor *)
(* double one (raiseModified, in all that changes static objects).         *)
(***************************************************************************)
Settled == running /\ \A b \in Positions : map[b] # Absent => map[b].modified # WriteNeeded
Saved(e) ==
  IF \E id \in Ids : objs[id] # Absent /\ objs[id].entity = e
  THEN \A id \in Ids : objs[id] # Absent /\ objs[id].entity = e /\ ~objs[id].removal =>
         Cardinality(OnDiskOf(e)) = IF objs[id].block # Absent THEN 1 ELSE 0
  ELSE fate[e] = "dropped" \/ Cardinality(OnDiskOf(e)) = IF fate[e] = "there" THEN 1 ELSE 0

SavedWhenSettled == Settled => \A e \in Entities : Saved(e)

(***************************************************************************)
(* What the code does not keep to.                                         *)
(***************************************************************************)
\* The unit test of objects says that what a block's unloading under an object
\* does "in practice only applies with static_save=false": no entity is saved twice.
NotDoubled == running => \A e \in Entities : Cardinality(StoredOf(e)) <= 1

\* "If this is set alongside with m_pending_removal, removal takes priority":
\* what is being removed at shutdown does not come back.
RemovalTakesPriority == \A e \in Entities : fate[e] = "revived" => OnDiskOf(e) = {}

\* clear_objects clears "immediately in loaded mapblocks": nothing added later.
ClearsOnlyWhatWasThere == \A e \in Entities : fate[e] # "swept"

\* max_objects_per_block is the "maximum number of statically stored objects in
\* a block": no more of them are stored, to be deleted when it is activated.
StoredWithinLimit ==
  \A b \in Positions : map[b] # Absent => Total(map[b].stored) <= MaxStored

=============================================================================
