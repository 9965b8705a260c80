------------------------ MODULE PeerLifecycle_proofs ------------------------
(***************************************************************************)
(* Peers are never used after they are freed, none is forgotten, and the   *)
(* program is told of each, for every number of peers and whether or not   *)
(* ids are given again.                                                    *)
(***************************************************************************)
EXTENDS PeerLifecycle, TLAPS

USE PeerAssumption DEF Peers, Threads

LEMMA InitInv == Init => PeerInv
<1>1. SUFFICES ASSUME Init PROVE PeerInv
  OBVIOUS
<1>2. TypeOK
  <2>1. condemned \in Seq([id : Ids, marked : BOOLEAN]) /\ events \in Seq({"added", "removed"} \X Ids)
    BY <1>1 DEF Init
  <2>2. usage \in [Peers -> Nat] /\ memory \in [Peers -> {"unborn", "live", "freed"}]
    BY <1>1 DEF Init
  <2>3. peers \in [Ids -> Peers \cup {None}] /\ id \in [Peers -> Ids \cup {None}]
    BY <1>1 DEF Init
  <2> QED
    BY <1>1, <2>1, <2>2, <2>3 DEF Init, TypeOK
<1>3. NoUseAfterFree /\ NothingLeaks /\ InMapIsUsable /\ DeletersInStage
  BY <1>1 DEF Init, NoUseAfterFree, NothingLeaks, InMapIsUsable, DeletersInStage
<1>4. CountIsRight
  BY <1>1 DEF Init, CountIsRight, UsesNow
<1>5. BornHaveIds /\ PendingAreBorn /\ NobodyForgotten /\ EndedAreIdle
  BY <1>1 DEF Init, BornHaveIds, PendingAreBorn, NobodyForgotten, EndedAreIdle
<1> QED
  BY <1>2, <1>3, <1>4, <1>5 DEF PeerInv

LEMMA AcquireInv ==
  ASSUME NEW t \in Threads, NEW i \in Ids, PeerInv, Acquire(t, i)
  PROVE  PeerInv'
<1> DEFINE o == peers[i]
<1>0. TypeOK /\ NoUseAfterFree /\ CountIsRight /\ InMapIsUsable /\ DeletersInStage
  BY DEF PeerInv
<1>1. /\ o \in Peers /\ o # None /\ uses[t] = None /\ o \notin pendingDeletion
      /\ memory[o] = "live" /\ usage[o] \in Nat
  BY <1>0 DEF Acquire, HoldsNone, TypeOK, NoUseAfterFree
<1>2. /\ uses' = [uses EXCEPT ![t] = o] /\ usage' = [usage EXCEPT ![o] = @ + 1]
      /\ peers' = peers /\ id' = id /\ memory' = memory /\ step' = step
      /\ deleting' = deleting /\ pendingDeletion' = pendingDeletion
  BY DEF Acquire
<1>3. TypeOK'
  BY <1>0, <1>1 DEF Acquire, TypeOK, sendVars, programVars
<1>4. NoUseAfterFree'
  BY <1>0, <1>1, <1>2 DEF NoUseAfterFree, TypeOK
<1>5. CountIsRight'
  <2> SUFFICES ASSUME NEW x \in Peers
               PROVE  usage'[x] = UsesNow("send", x)' + UsesNow("receive", x)'
                                  + UsesNow("user", x)'
    BY DEF CountIsRight
  <2>1. usage[x] = UsesNow("send", x) + UsesNow("receive", x) + UsesNow("user", x)
    BY <1>0 DEF CountIsRight
  <2>2. usage'[x] = IF x = o THEN usage[x] + 1 ELSE usage[x]
    BY <1>0, <1>2 DEF TypeOK
  <2>3. \A u \in Threads : UsesNow(u, x)' = IF u = t /\ x = o THEN 1 ELSE UsesNow(u, x)
    BY <1>0, <1>1, <1>2 DEF TypeOK, UsesNow
  <2>4. UsesNow(t, x) = 0 /\ \A u \in Threads : UsesNow(u, x) \in 0 .. 1
    BY <1>1 DEF UsesNow
  <2> QED
    BY <2>1, <2>2, <2>3, <2>4
<1>6. InMapIsUsable' /\ DeletersInStage'
  BY <1>0, <1>1, <1>2 DEF InMapIsUsable, DeletersInStage, TypeOK
<1>7. NobodyForgotten' /\ BornHaveIds' /\ PendingAreBorn' /\ NothingLeaks'
  BY <1>0, <1>1, <1>2 DEF NobodyForgotten, BornHaveIds, PendingAreBorn, Created, NothingLeaks, InMap,
    TypeOK, PeerInv
<1>8. EndedAreIdle'
  BY <1>0, <1>2 DEF EndedAreIdle, PeerInv, Acquire, Runs, TypeOK
<1> QED
  BY <1>3, <1>4, <1>5, <1>6, <1>7, <1>8 DEF PeerInv

LEMMA ReleaseInv ==
  ASSUME NEW t \in Threads, PeerInv, Release(t)
  PROVE  PeerInv'
<1> DEFINE o == uses[t]
<1>0. TypeOK /\ NoUseAfterFree /\ CountIsRight /\ InMapIsUsable /\ DeletersInStage
  BY DEF PeerInv
<1>1. /\ o \in Peers /\ o # None /\ memory[o] = "live"
      /\ step[t] = "loop" /\ deleting[t] = None
  BY <1>0 DEF Release, Runs, HoldsNone, TypeOK, NoUseAfterFree, DeletersInStage
<1>2. usage[o] \in Nat \ {0}
  BY <1>0, <1>1 DEF CountIsRight, UsesNow, TypeOK
<1>3. /\ uses' = [uses EXCEPT ![t] = None] /\ usage' = [usage EXCEPT ![o] = @ - 1]
      /\ peers' = peers /\ id' = id /\ memory' = memory
      /\ pendingDeletion' = pendingDeletion
  BY DEF Release
<1>4. usage' \in [Peers -> Nat] /\ uses' \in [Threads -> Peers \cup {None}]
  <2>1. usage[o] - 1 \in Nat
    BY <1>2
  <2> QED
    BY <1>0, <1>1, <1>3, <2>1 DEF TypeOK
<1>5. CountIsRight'
  <2> SUFFICES ASSUME NEW x \in Peers
               PROVE  usage'[x] = UsesNow("send", x)' + UsesNow("receive", x)'
                                  + UsesNow("user", x)'
    BY DEF CountIsRight
  <2>1. usage[x] = UsesNow("send", x) + UsesNow("receive", x) + UsesNow("user", x)
    BY <1>0 DEF CountIsRight
  <2>2. usage'[x] = IF x = o THEN usage[x] - 1 ELSE usage[x]
    BY <1>0, <1>3 DEF TypeOK
  <2>3. \A u \in Threads : UsesNow(u, x)' = IF u = t /\ x = o THEN 0 ELSE UsesNow(u, x)
    BY <1>0, <1>1, <1>3 DEF TypeOK, UsesNow
  <2>4. (x = o => UsesNow(t, x) = 1) /\ \A u \in Threads : UsesNow(u, x) \in 0 .. 1
    BY DEF UsesNow
  <2> QED
    BY <2>1, <2>2, <2>3, <2>4
<1>6. CASE LastUser(o)
  <2>1. usage'[o] = 0 /\ o \in pendingDeletion
    BY <1>0, <1>1, <1>3, <1>6 DEF LastUser, TypeOK
  <2>2. /\ step' = [step EXCEPT ![t] = "free"]
        /\ deleting' = [deleting EXCEPT ![t] = o]
    BY <1>6 DEF Release
  <2>3. \A u \in Threads : deleting[u] # o
    BY <1>0, <1>1, <1>2, <2>1 DEF DeletersInStage, TypeOK
  <2>4. TypeOK'
    <3>1. step' \in [Threads -> {"loop", "tell", "drop", "free", "stopping", "stopped"}]
          /\ deleting' \in [Threads -> Peers \cup {None}]
      BY <1>0, <1>1, <2>2 DEF TypeOK
    <3> QED
      BY <1>0, <1>3, <1>4, <3>1 DEF Release, TypeOK, sendVars, programVars
  <2>5. NoUseAfterFree'
    <3>1. \A u \in Threads : /\ uses'[u] # None => memory'[uses'[u]] = "live"
                             /\ deleting'[u] # None => memory'[deleting'[u]] = "live"
      BY <1>0, <1>1, <1>3, <2>2 DEF NoUseAfterFree, TypeOK
    <3>2. \A j \in Ids : peers'[j] # None => memory'[peers'[j]] = "live"
      BY <1>0, <1>1, <1>3, <2>2 DEF NoUseAfterFree, TypeOK
    <3>3. \A u, v \in Threads :
           u # v /\ deleting'[u] = deleting'[v] => deleting'[u] = None
      BY <1>0, <2>2, <2>3 DEF NoUseAfterFree, TypeOK
    <3> QED
      BY <3>1, <3>2, <3>3 DEF NoUseAfterFree
  <2>7. InMapIsUsable'
    BY <1>0, <1>1, <1>3, <2>1, <2>2 DEF InMapIsUsable, TypeOK
  <2>8. DeletersInStage'
    BY <1>0, <1>1, <1>2, <1>3, <2>1, <2>2, <2>3 DEF DeletersInStage, TypeOK
  <2>9. NobodyForgotten'
    <3>1. \A x \in Peers : x # o => usage'[x] = usage[x]
      BY <1>0, <1>3 DEF TypeOK
    <3>2. deleting'[t] = o /\ \A u \in Threads : u # t => deleting'[u] = deleting[u]
      BY <1>0, <2>2 DEF TypeOK
    <3>3. \A x \in Peers : InMap(x)' <=> InMap(x)
      BY <1>3 DEF InMap
    <3> QED
      BY <1>1, <1>3, <3>1, <3>2, <3>3 DEF NobodyForgotten, PeerInv
  <2>10. BornHaveIds' /\ PendingAreBorn' /\ NothingLeaks' /\ EndedAreIdle'
    BY <1>0, <1>1, <1>3, <2>2
      DEF BornHaveIds, PendingAreBorn, NothingLeaks, EndedAreIdle, Created, TypeOK, PeerInv
  <2> QED
    BY <1>5, <2>4, <2>5, <2>7, <2>8, <2>9, <2>10 DEF PeerInv
<1>7. CASE ~LastUser(o)
  <2>1. step' = step /\ deleting' = deleting
    BY <1>7 DEF Release
  <2>2. TypeOK'
    BY <1>0, <1>3, <1>4, <2>1 DEF Release, TypeOK, sendVars, programVars
  <2>3. NoUseAfterFree' /\ InMapIsUsable'
    BY <1>0, <1>1, <1>3, <2>1 DEF NoUseAfterFree, InMapIsUsable, TypeOK
  <2>5. DeletersInStage'
    BY <1>0, <1>1, <1>2, <1>3, <2>1 DEF DeletersInStage, TypeOK
  <2>6. NobodyForgotten'
    BY <1>0, <1>1, <1>2, <1>3, <1>7, <2>1
      DEF NobodyForgotten, LastUser, InMap, TypeOK, PeerInv
  <2>7. BornHaveIds' /\ PendingAreBorn' /\ NothingLeaks' /\ EndedAreIdle'
    BY <1>0, <1>1, <1>3, <2>1
      DEF BornHaveIds, PendingAreBorn, NothingLeaks, EndedAreIdle, Created, TypeOK, PeerInv
  <2> QED
    BY <1>5, <2>2, <2>3, <2>5, <2>6, <2>7 DEF PeerInv
<1> QED
  BY <1>6, <1>7

LEMMA FreePeerInv ==
  ASSUME NEW t \in Threads, PeerInv, FreePeer(t)
  PROVE  PeerInv'
<1> DEFINE o == deleting[t]
<1>0. TypeOK /\ NoUseAfterFree /\ CountIsRight /\ InMapIsUsable /\ DeletersInStage
  BY DEF PeerInv
<1>1. o \in Peers /\ o # None /\ o \in pendingDeletion /\ usage[o] = 0
  BY <1>0 DEF FreePeer, TypeOK, DeletersInStage
<1>2. /\ memory' = [memory EXCEPT ![o] = "freed"]
      /\ step' = [step EXCEPT ![t] = "loop"] /\ deleting' = [deleting EXCEPT ![t] = None]
      /\ peers' = peers /\ id' = id /\ usage' = usage /\ uses' = uses
      /\ pendingDeletion' = pendingDeletion
  BY DEF FreePeer
<1>3. TypeOK'
  BY <1>0, <1>1, <1>2 DEF FreePeer, TypeOK, sendVars, programVars
<1>4. /\ \A u \in Threads : uses[u] # o
      /\ \A u \in Threads : u # t => deleting[u] # o
      /\ \A i \in Ids : peers[i] # o
  <2>1. \A u \in Threads : UsesNow(u, o) = 0
    BY <1>0, <1>1 DEF CountIsRight, UsesNow
  <2> QED
    BY <1>0, <1>1, <2>1 DEF UsesNow, NoUseAfterFree, InMapIsUsable
<1>5. NoUseAfterFree'
  BY <1>0, <1>1, <1>2, <1>4 DEF NoUseAfterFree, TypeOK
<1>6. CountIsRight' /\ InMapIsUsable' /\ DeletersInStage'
  <2>1. CountIsRight'
    BY <1>0, <1>2 DEF CountIsRight, UsesNow
  <2>2. InMapIsUsable'
    BY <1>0, <1>2 DEF InMapIsUsable, TypeOK
  <2>3. DeletersInStage'
    BY <1>0, <1>2 DEF DeletersInStage, TypeOK
  <2> QED
    BY <2>1, <2>2, <2>3
<1>7. NobodyForgotten' /\ BornHaveIds' /\ PendingAreBorn'
  BY <1>0, <1>1, <1>2, <1>4 DEF NobodyForgotten, BornHaveIds, PendingAreBorn, InMap, TypeOK, PeerInv
<1>8. EndedAreIdle' /\ NothingLeaks'
  <2>1. EndedAreIdle /\ step[t] = "free"
    BY DEF PeerInv, FreePeer
  <2>2. step["user"] # "stopped"
    BY <1>0, <2>1 DEF EndedAreIdle
  <2>3. step'["user"] # "stopped"
    BY <1>0, <1>2, <2>2 DEF TypeOK
  <2> QED
    BY <1>0, <1>2, <2>1, <2>3 DEF EndedAreIdle, NothingLeaks, TypeOK
<1> QED
  BY <1>3, <1>5, <1>6, <1>7, <1>8 DEF PeerInv

LEMMA CreatePeerInv ==
  ASSUME NEW o \in Peers, NEW i \in Ids, PeerInv, CreatePeer(o, i)
  PROVE  PeerInv'
<1>0. TypeOK /\ NoUseAfterFree /\ CountIsRight /\ InMapIsUsable /\ DeletersInStage
  BY DEF PeerInv
<1>1. memory[o] = "unborn" /\ peers[i] = None /\ step["receive"] = "loop" /\ o # None
  <2>1. o \notin Created
    BY DEF CreatePeer
  <2> QED
    BY <2>1 DEF CreatePeer, Created, Runs
<1>2. /\ peers' = [peers EXCEPT ![i] = o]
      /\ id' = [id EXCEPT ![o] = i] /\ memory' = [memory EXCEPT ![o] = "live"]
      /\ usage' = usage /\ uses' = uses /\ pendingDeletion' = pendingDeletion
      /\ step' = step /\ deleting' = deleting
  BY DEF CreatePeer, threadVars
<1>3. TypeOK'
  <2>1. events' \in Seq({"added", "removed"} \X Ids)
    BY <1>0 DEF CreatePeer, TypeOK
  <2>2. /\ peers' \in [Ids -> Peers \cup {None}] /\ id' \in [Peers -> Ids \cup {None}]
        /\ memory' \in [Peers -> {"unborn", "live", "freed"}]
    BY <1>0, <1>2 DEF TypeOK
  <2> QED
    BY <1>0, <1>2, <2>1, <2>2 DEF CreatePeer, TypeOK, sendVars
<1>4. /\ \A u \in Threads : uses[u] # o /\ deleting[u] # o
      /\ \A j \in Ids : peers[j] # o
  BY <1>0, <1>1 DEF NoUseAfterFree
<1>5. o \notin pendingDeletion
  BY <1>0, <1>1 DEF PeerInv, PendingAreBorn
<1>6. NoUseAfterFree'
  BY <1>0, <1>1, <1>2, <1>4 DEF NoUseAfterFree, TypeOK
<1>7. CountIsRight' /\ InMapIsUsable' /\ DeletersInStage'
  BY <1>0, <1>1, <1>2, <1>4, <1>5
    DEF CountIsRight, UsesNow, InMapIsUsable, DeletersInStage, TypeOK
<1>8. NobodyForgotten'
  BY <1>0, <1>1, <1>2, <1>4 DEF NobodyForgotten, InMap, TypeOK, PeerInv
<1>9. BornHaveIds' /\ PendingAreBorn'
  BY <1>0, <1>1, <1>2, <1>4 DEF BornHaveIds, PendingAreBorn, TypeOK, PeerInv
<1>10. EndedAreIdle' /\ NothingLeaks'
  BY <1>0, <1>1, <1>2 DEF EndedAreIdle, NothingLeaks, Created, TypeOK, PeerInv
<1> QED
  BY <1>3, <1>6, <1>7, <1>8, <1>9, <1>10 DEF PeerInv

LEMMA TellRemovedInv ==
  ASSUME NEW t \in Threads, PeerInv, TellRemoved(t)
  PROVE  PeerInv'
<1>0. TypeOK /\ NoUseAfterFree /\ BornHaveIds /\ InMapIsUsable /\ DeletersInStage
      /\ EndedAreIdle
  BY DEF PeerInv
<1>1. /\ step[t] = "tell" /\ deleting[t] \in Peers /\ id[deleting[t]] \in Ids
  BY <1>0 DEF TellRemoved, TypeOK, DeletersInStage, BornHaveIds, NoUseAfterFree
<1>2. /\ step' = [step EXCEPT ![t] = "drop"] /\ peers' = peers /\ id' = id
      /\ memory' = memory /\ usage' = usage /\ pendingDeletion' = pendingDeletion
      /\ uses' = uses /\ deleting' = deleting
  BY DEF TellRemoved, objectVars
<1>3. TypeOK'
  <2>1. events' \in Seq({"added", "removed"} \X Ids)
    BY <1>0, <1>1 DEF TellRemoved, TypeOK
  <2> QED
    BY <1>0, <1>2, <2>1 DEF TellRemoved, TypeOK, sendVars, objectVars
<1>4. NoUseAfterFree' /\ InMapIsUsable' /\ BornHaveIds' /\ PendingAreBorn'
  BY <1>0, <1>2 DEF PeerInv, NoUseAfterFree, InMapIsUsable, BornHaveIds, PendingAreBorn
<1>5. CountIsRight' /\ NobodyForgotten'
  BY <1>2 DEF PeerInv, CountIsRight, UsesNow, NobodyForgotten, InMap
<1>6. DeletersInStage'
  BY <1>0, <1>1, <1>2 DEF DeletersInStage, TypeOK
<1>7. EndedAreIdle' /\ NothingLeaks'
  <2>1. step["user"] # "stopped" /\ step'["user"] # "stopped"
    BY <1>0, <1>1, <1>2 DEF EndedAreIdle, TypeOK
  <2> QED
    BY <1>0, <1>2, <2>1 DEF EndedAreIdle, NothingLeaks, TypeOK
<1> QED
  BY <1>3, <1>4, <1>5, <1>6, <1>7 DEF PeerInv

LEMMA DropInv ==
  ASSUME NEW t \in Threads, PeerInv, Drop(t)
  PROVE  PeerInv'
<1> DEFINE o == deleting[t]
<1>0. TypeOK /\ NoUseAfterFree /\ InMapIsUsable /\ DeletersInStage /\ EndedAreIdle
  BY DEF PeerInv
<1>1. step[t] = "drop" /\ o \in Peers /\ o # None /\ memory[o] = "live"
  BY <1>0 DEF Drop, TypeOK, DeletersInStage, NoUseAfterFree
<1>2. /\ pendingDeletion' = pendingDeletion \cup {o} /\ peers' = peers /\ id' = id
      /\ memory' = memory /\ usage' = usage /\ uses' = uses
  BY DEF Drop
<1>3. \/ /\ usage[o] = 0 /\ step' = [step EXCEPT ![t] = "free"] /\ deleting' = deleting
      \/ /\ usage[o] > 0 /\ step' = [step EXCEPT ![t] = "loop"]
         /\ deleting' = [deleting EXCEPT ![t] = None]
  BY <1>0, <1>1 DEF Drop, Unused, TypeOK
<1>4. TypeOK'
  <2>1. /\ step' \in [Threads -> {"loop", "tell", "drop", "free", "stopping", "stopped"}]
        /\ deleting' \in [Threads -> Peers \cup {None}]
    BY <1>0, <1>3 DEF TypeOK
  <2> QED
    BY <1>0, <1>1, <1>2, <2>1 DEF Drop, TypeOK, sendVars, programVars
<1>5. NoUseAfterFree'
  <2>1. \A u \in Threads : /\ uses'[u] # None => memory'[uses'[u]] = "live"
                           /\ deleting'[u] # None => memory'[deleting'[u]] = "live"
    BY <1>0, <1>2, <1>3 DEF NoUseAfterFree, TypeOK
  <2>2. \A j \in Ids : peers'[j] # None => memory'[peers'[j]] = "live"
    BY <1>0, <1>2, <1>3 DEF NoUseAfterFree, TypeOK
  <2>3. \A u, v \in Threads :
         u # v /\ deleting'[u] = deleting'[v] => deleting'[u] = None
    <3>1. \A u \in Threads : deleting'[u] \in {deleting[u], None}
      BY <1>0, <1>3 DEF TypeOK
    <3> QED
      BY <1>0, <3>1 DEF NoUseAfterFree
  <2> QED
    BY <2>1, <2>2, <2>3 DEF NoUseAfterFree
<1>6. InMapIsUsable'
  BY <1>0, <1>1, <1>2, <1>3 DEF InMapIsUsable, TypeOK
<1>7. DeletersInStage'
  <2>1. \A u \in Threads : u # t => deleting[u] # o
    BY <1>0, <1>1 DEF NoUseAfterFree
  <2>2. CASE usage[o] = 0 /\ step' = [step EXCEPT ![t] = "free"] /\ deleting' = deleting
    BY <1>0, <1>1, <1>2, <2>1, <2>2 DEF DeletersInStage, TypeOK
  <2>3. CASE /\ step' = [step EXCEPT ![t] = "loop"]
             /\ deleting' = [deleting EXCEPT ![t] = None]
    BY <1>0, <1>1, <1>2, <2>1, <2>3 DEF DeletersInStage, TypeOK
  <2> QED
    BY <1>3, <2>2, <2>3
<1>8. NobodyForgotten'
  <2> SUFFICES ASSUME NEW x \in Peers, memory[x] = "live"
               PROVE  \/ InMap(x)'
                      \/ \E u \in Threads : deleting'[u] = x
                      \/ x \in pendingDeletion' /\ usage'[x] > 0
    BY <1>2 DEF NobodyForgotten
  <2>1. CASE x = o
    BY <1>0, <1>1, <1>2, <1>3, <2>1
  <2>2. CASE x # o
    BY <1>0, <1>2, <1>3, <2>2 DEF PeerInv, NobodyForgotten, InMap, TypeOK
  <2> QED
    BY <2>1, <2>2
<1>9. CountIsRight' /\ BornHaveIds' /\ PendingAreBorn'
  BY <1>1, <1>2 DEF PeerInv, CountIsRight, UsesNow, BornHaveIds, PendingAreBorn
<1>10. EndedAreIdle' /\ NothingLeaks'
  <2>1. step["user"] # "stopped" /\ step'["user"] # "stopped"
    BY <1>0, <1>1, <1>3 DEF EndedAreIdle, TypeOK
  <2> QED
    BY <1>0, <1>2, <1>3, <2>1 DEF EndedAreIdle, NothingLeaks, TypeOK
<1> QED
  BY <1>4, <1>5, <1>6, <1>7, <1>8, <1>9, <1>10 DEF PeerInv

(***************************************************************************)
(* deletePeer's first part, by the send thread (Sweep) or the receive      *)
(* thread (Disco).                                                         *)
(***************************************************************************)
LEMMA TakeOutInv ==
  ASSUME NEW t \in Threads, NEW i \in Ids, PeerInv, step[t] = "loop", TakeOut(t, i),
         UNCHANGED <<id, memory, usage, pendingDeletion, uses>>, TypeOK'
  PROVE  PeerInv'
<1> DEFINE o == peers[i]
<1>0. TypeOK /\ NoUseAfterFree /\ InMapIsUsable /\ DeletersInStage /\ EndedAreIdle
  BY DEF PeerInv
<1>1. CASE o = None
  <2>1. UNCHANGED <<peers, step, deleting, id, memory, usage, pendingDeletion, uses>>
    BY <1>1 DEF TakeOut
  <2>2. NoUseAfterFree' /\ InMapIsUsable' /\ DeletersInStage' /\ EndedAreIdle'
    BY <1>0, <2>1 DEF NoUseAfterFree, InMapIsUsable, DeletersInStage, EndedAreIdle
  <2>3. CountIsRight' /\ NobodyForgotten' /\ BornHaveIds' /\ PendingAreBorn' /\ NothingLeaks'
    BY <2>1 DEF PeerInv, CountIsRight, UsesNow, NobodyForgotten, InMap, BornHaveIds,
      PendingAreBorn, NothingLeaks, Created
  <2> QED
    BY <2>2, <2>3 DEF PeerInv
<1>2. CASE o # None
  <2>1. /\ o \in Peers /\ memory[o] = "live" /\ o \notin pendingDeletion
        /\ id[o] = i /\ deleting[t] = None
        /\ \A u \in Threads : deleting[u] # o
    <3>1. o \in Peers
      BY <1>0, <1>2 DEF TypeOK
    <3>2. memory[o] = "live" /\ deleting[t] = None
      BY <1>0, <1>2 DEF NoUseAfterFree, DeletersInStage
    <3>3. /\ o \notin pendingDeletion /\ id[o] = i
          /\ \A u \in Threads : deleting[u] # o
      BY <1>0, <1>2 DEF InMapIsUsable
    <3> QED
      BY <3>1, <3>2, <3>3
  <2>2. /\ peers' = [peers EXCEPT ![i] = None]
        /\ step' = [step EXCEPT ![t] = "tell"] /\ deleting' = [deleting EXCEPT ![t] = o]
    BY <1>2 DEF TakeOut
  <2>3. NoUseAfterFree'
    <3>0. \A u \in Threads : deleting'[u] = IF u = t THEN o ELSE deleting[u]
      BY <1>0, <2>2 DEF TypeOK
    <3>1. \A u \in Threads : /\ uses'[u] # None => memory'[uses'[u]] = "live"
                             /\ deleting'[u] # None => memory'[deleting'[u]] = "live"
      BY <1>0, <2>1, <3>0 DEF NoUseAfterFree
    <3>2. \A j \in Ids : peers'[j] # None => memory'[peers'[j]] = "live"
      BY <1>0, <2>2 DEF NoUseAfterFree, TypeOK
    <3>3. \A u, v \in Threads :
           u # v /\ deleting'[u] = deleting'[v] => deleting'[u] = None
      BY <1>0, <2>1, <3>0 DEF NoUseAfterFree
    <3> QED
      BY <3>1, <3>2, <3>3 DEF NoUseAfterFree
  <2>4. InMapIsUsable'
    BY <1>0, <2>1, <2>2 DEF InMapIsUsable, TypeOK
  <2>5. DeletersInStage'
    BY <1>0, <1>2, <2>1, <2>2 DEF DeletersInStage, TypeOK
  <2>6. NobodyForgotten'
    <3> SUFFICES ASSUME NEW x \in Peers, memory[x] = "live"
                 PROVE  \/ InMap(x)'
                        \/ \E u \in Threads : deleting'[u] = x
                        \/ x \in pendingDeletion /\ usage[x] > 0
      BY DEF NobodyForgotten
    <3>1. CASE x = o
      BY <1>0, <2>2, <3>1 DEF TypeOK
    <3>2. CASE x # o /\ InMap(x)
      BY <1>0, <2>2, <3>2 DEF InMap, TypeOK
    <3>3. CASE x # o /\ ~InMap(x)
      BY <1>0, <2>1, <2>2, <3>3 DEF PeerInv, NobodyForgotten, TypeOK
    <3> QED
      BY <3>1, <3>2, <3>3
  <2>7. CountIsRight' /\ BornHaveIds' /\ PendingAreBorn'
    BY DEF PeerInv, CountIsRight, UsesNow, BornHaveIds, PendingAreBorn
  <2>8. EndedAreIdle' /\ NothingLeaks'
    <3>1. step["user"] # "stopped" /\ step'["user"] # "stopped"
      BY <1>0, <2>2 DEF EndedAreIdle, TypeOK
    <3> QED
      BY <1>0, <2>2, <3>1 DEF EndedAreIdle, NothingLeaks, TypeOK
  <2> QED
    BY <2>3, <2>4, <2>5, <2>6, <2>7, <2>8 DEF PeerInv
<1> QED
  BY <1>1, <1>2

LEMMA TakeOutTypes ==
  ASSUME NEW t \in Threads, NEW i \in Ids, TypeOK, TakeOut(t, i)
  PROVE  /\ peers' \in [Ids -> Peers \cup {None}]
         /\ step' \in [Threads -> {"loop", "tell", "drop", "free", "stopping", "stopped"}]
         /\ deleting' \in [Threads -> Peers \cup {None}]
<1>1. CASE peers[i] = None
  BY <1>1 DEF TakeOut, TypeOK
<1>2. CASE peers[i] # None
  <2>1. peers[i] \in Peers
    BY <1>2 DEF TypeOK
  <2>2. /\ peers' = [peers EXCEPT ![i] = None] /\ step' = [step EXCEPT ![t] = "tell"]
        /\ deleting' = [deleting EXCEPT ![t] = peers[i]]
    BY <1>2 DEF TakeOut
  <2> QED
    BY <2>1, <2>2 DEF TypeOK
<1> QED
  BY <1>1, <1>2

LEMMA DiscoInv ==
  ASSUME PeerInv, Disco
  PROVE  PeerInv'
<1> DEFINE i == id[uses["receive"]]
<1>0. TypeOK /\ NoUseAfterFree /\ BornHaveIds
  BY DEF PeerInv
<1>1. i \in Ids /\ step["receive"] = "loop" /\ TakeOut("receive", i)
  BY <1>0 DEF Disco, Runs, HoldsNone, TypeOK, NoUseAfterFree, BornHaveIds
<1>2. UNCHANGED <<objectVars, uses, sendVars, programVars>>
  BY DEF Disco
<1>3. TypeOK'
  BY <1>0, <1>1, <1>2, TakeOutTypes DEF TypeOK, objectVars, sendVars, programVars
<1> QED
  BY <1>1, <1>2, <1>3, TakeOutInv DEF objectVars

LEMMA SweepInv ==
  ASSUME PeerInv, Sweep
  PROVE  PeerInv'
<1> DEFINE i == Head(condemned).id
<1>0. TypeOK
  BY DEF PeerInv
<1>1. condemned # <<>> /\ Head(condemned) \in [id : Ids, marked : BOOLEAN]
  <2>1. condemned # <<>>
    BY DEF Sweep, NextCondemned
  <2>2. \A S, s : s \in Seq(S) /\ s # <<>> => Head(s) \in S
    OBVIOUS
  <2> QED
    BY <1>0, <2>1, <2>2 DEF TypeOK
<1>2. i \in Ids /\ step["send"] = "loop" /\ TakeOut("send", i)
  BY <1>1 DEF Sweep, NextCondemned, Runs
<1>3. condemned' = Tail(condemned) /\ UNCHANGED <<objectVars, uses, requests, programVars>>
      /\ sweeping' \in BOOLEAN
  BY DEF Sweep, NextCondemned
<1>4. TypeOK'
  <2>1. condemned' \in Seq([id : Ids, marked : BOOLEAN])
    BY <1>0, <1>1, <1>3 DEF TypeOK
  <2> QED
    BY <1>0, <1>2, <1>3, <2>1, TakeOutTypes DEF TypeOK, objectVars, programVars
<1> QED
  BY <1>2, <1>3, <1>4, TakeOutInv DEF objectVars

(***************************************************************************)
(* The steps that leave the peers and the threads' places alone.           *)
(***************************************************************************)
LEMMA FrameInv ==
  ASSUME PeerInv, TypeOK',
         UNCHANGED <<peers, id, memory, usage, pendingDeletion, threadVars>>
  PROVE  PeerInv'
<1>1. UNCHANGED <<peers, id, memory, usage, pendingDeletion, uses, step, deleting>>
  BY DEF threadVars
<1>2. NoUseAfterFree' /\ NothingLeaks' /\ InMapIsUsable' /\ DeletersInStage'
  BY <1>1 DEF PeerInv, NoUseAfterFree, NothingLeaks, InMapIsUsable, DeletersInStage, Created
<1>3. CountIsRight' /\ BornHaveIds' /\ PendingAreBorn' /\ NobodyForgotten' /\ EndedAreIdle'
  BY <1>1 DEF PeerInv, CountIsRight, UsesNow, BornHaveIds, PendingAreBorn,
    NobodyForgotten, InMap, EndedAreIdle
<1> QED
  BY <1>2, <1>3 DEF PeerInv

LEMMA SendAndProgramInv ==
  ASSUME PeerInv,
         \/ Condemn \/ PutOff \/ HandleEvent
         \/ \E i \in Ids : RequestDisconnect(i) \/ DisconnectPeer(i)
  PROVE  PeerInv'
<1>0. TypeOK /\ NoUseAfterFree /\ BornHaveIds
  BY DEF PeerInv
<1>1. CASE Condemn
  <2>1. id[uses["send"]] \in Ids
    BY <1>0, <1>1 DEF Condemn, HoldsNone, TypeOK, NoUseAfterFree, BornHaveIds
  <2>2. condemned' \in Seq([id : Ids, marked : BOOLEAN])
    BY <1>0, <1>1, <2>1 DEF Condemn, TypeOK
  <2>3. TypeOK'
    BY <1>0, <1>1, <2>2 DEF Condemn, TypeOK, objectVars, threadVars, programVars
  <2> QED
    BY <1>1, <2>3, FrameInv DEF Condemn, objectVars
<1>2. CASE PutOff
  <2>1. condemned' \in Seq([id : Ids, marked : BOOLEAN]) /\ sweeping' \in BOOLEAN
    BY <1>0, <1>2 DEF PutOff, NextCondemned, TypeOK
  <2>2. TypeOK'
    BY <1>0, <1>2, <2>1 DEF PutOff, NextCondemned, TypeOK, objectVars, programVars
  <2> QED
    BY <1>2, <2>2, FrameInv DEF PutOff, NextCondemned, objectVars, threadVars
<1>3. CASE HandleEvent
  <2>1. events # <<>>
    BY <1>3 DEF HandleEvent
  <2>2. \A S, s : s \in Seq(S) /\ s # <<>> => Head(s) \in S /\ Tail(s) \in Seq(S)
    OBVIOUS
  <2>3. Head(events) \in {"added", "removed"} \X Ids /\ events' \in Seq({"added", "removed"} \X Ids)
    BY <1>0, <1>3, <2>1, <2>2 DEF HandleEvent, TypeOK
  <2>4. clients' \subseteq Ids
    BY <1>0, <1>3, <2>3 DEF HandleEvent, TypeOK
  <2>5. TypeOK'
    BY <1>0, <1>3, <2>3, <2>4 DEF HandleEvent, TypeOK, objectVars, threadVars, sendVars
  <2> QED
    BY <1>3, <2>5, FrameInv DEF HandleEvent, objectVars
<1>4. ASSUME NEW i \in Ids, RequestDisconnect(i) PROVE PeerInv'
  <2>1. TypeOK'
    BY <1>0, <1>4 DEF RequestDisconnect, TypeOK, objectVars, threadVars, programVars
  <2> QED
    BY <1>4, <2>1, FrameInv DEF RequestDisconnect, objectVars
<1>5. ASSUME NEW i \in Ids, DisconnectPeer(i) PROVE PeerInv'
  <2>1. peers[i] \in Peers \cup {None}
    BY <1>0 DEF TypeOK
  <2>2. pendingDisconnect' \subseteq Peers /\ requests' \subseteq Ids
    BY <1>0, <1>5, <2>1 DEF DisconnectPeer, TypeOK
  <2>3. TypeOK'
    BY <1>0, <1>5, <2>2 DEF DisconnectPeer, TypeOK, threadVars, programVars
  <2> QED
    BY <1>5, <2>3, FrameInv DEF DisconnectPeer
<1> QED
  BY <1>1, <1>2, <1>3, <1>4, <1>5

LEMMA ShutdownInv ==
  ASSUME PeerInv, Shutdown \/ \E t \in Threads : ThreadEnds(t)
  PROVE  PeerInv'
<1>0. TypeOK /\ NoUseAfterFree /\ DeletersInStage /\ EndedAreIdle
  BY DEF PeerInv
<1>1. PICK t \in Threads, s \in {"stopping", "stopped"} :
        /\ step[t] = "loop" /\ uses[t] = None /\ step' = [step EXCEPT ![t] = s]
        /\ t = "user" => s = "stopping"
        /\ step["user"] # "stopped"
  BY <1>0 DEF Shutdown, ThreadEnds, Runs, HoldsNone, EndedAreIdle
<1>2. UNCHANGED <<peers, objectVars, uses, deleting, sendVars, programVars>>
  BY DEF Shutdown, ThreadEnds
<1>3. TypeOK'
  BY <1>0, <1>1, <1>2 DEF TypeOK, objectVars, sendVars, programVars
<1>4. NoUseAfterFree' /\ InMapIsUsable'
  BY <1>2 DEF PeerInv, NoUseAfterFree, InMapIsUsable, objectVars
<1>5. CountIsRight' /\ BornHaveIds' /\ PendingAreBorn' /\ NobodyForgotten'
  BY <1>2 DEF PeerInv, CountIsRight, UsesNow, BornHaveIds, PendingAreBorn,
    NobodyForgotten, InMap, objectVars
<1>6. DeletersInStage'
  BY <1>0, <1>1, <1>2 DEF DeletersInStage, TypeOK, objectVars
<1>7. EndedAreIdle' /\ NothingLeaks'
  <2>1. step'["user"] # "stopped"
    BY <1>0, <1>1 DEF TypeOK
  <2> QED
    BY <1>0, <1>1, <1>2, <2>1 DEF EndedAreIdle, NothingLeaks, TypeOK
<1> QED
  BY <1>3, <1>4, <1>5, <1>6, <1>7 DEF PeerInv

(***************************************************************************)
(* ~Connection: no thread has a helper or is deleting, so that every peer  *)
(* that lives is in the map, where it is freed.                            *)
(***************************************************************************)
LEMMA DestroyInv ==
  ASSUME PeerInv, Destroy
  PROVE  PeerInv'
<1>0. TypeOK /\ CountIsRight /\ DeletersInStage /\ EndedAreIdle
  BY DEF PeerInv
<1>1. /\ \A t \in Threads : uses[t] = None /\ deleting[t] = None
      /\ \A o \in Peers : usage[o] = 0
  <2>1. \A t \in Threads : uses[t] = None /\ deleting[t] = None
    BY <1>0 DEF Destroy, EndedAreIdle, DeletersInStage
  <2> QED
    BY <1>0, <2>1 DEF CountIsRight, UsesNow
<1>2. /\ memory' = [o \in Peers |-> IF InMap(o) THEN "freed" ELSE memory[o]]
      /\ peers' = [i \in Ids |-> None] /\ step' = [step EXCEPT !["user"] = "stopped"]
      /\ UNCHANGED <<id, usage, pendingDeletion, pendingDisconnect, uses, deleting,
                    sendVars, programVars>>
      /\ step["send"] = "stopped" /\ step["receive"] = "stopped"
  BY DEF Destroy
<1>3. \A o \in Peers : memory'[o] # "live"
  <2>1. \A o \in Peers : memory[o] = "live" => InMap(o)
    BY <1>1 DEF PeerInv, NobodyForgotten
  <2>2. \A o \in Peers : memory'[o] = IF InMap(o) THEN "freed" ELSE memory[o]
    BY <1>2
  <2> QED
    BY <2>1, <2>2
<1>4. TypeOK'
  <2>1. memory' \in [Peers -> {"unborn", "live", "freed"}]
    BY <1>0, <1>2 DEF TypeOK
  <2> QED
    BY <1>0, <1>2, <2>1 DEF TypeOK, sendVars, programVars
<1>5. NoUseAfterFree' /\ InMapIsUsable' /\ DeletersInStage'
  BY <1>0, <1>1, <1>2 DEF NoUseAfterFree, InMapIsUsable, DeletersInStage, TypeOK
<1>6. NobodyForgotten' /\ NothingLeaks'
  BY <1>3, <1>4 DEF NobodyForgotten, NothingLeaks, Created, TypeOK
<1>7. BornHaveIds' /\ PendingAreBorn'
  <2>1. \A o \in Peers : memory'[o] # "unborn" <=> memory[o] # "unborn"
    BY <1>0, <1>2 DEF PeerInv, InMap, NoUseAfterFree
  <2> QED
    BY <1>0, <1>2, <2>1 DEF PeerInv, BornHaveIds, PendingAreBorn, TypeOK
<1>8. CountIsRight' /\ EndedAreIdle'
  BY <1>0, <1>1, <1>2 DEF CountIsRight, UsesNow, EndedAreIdle, TypeOK
<1> QED
  BY <1>4, <1>5, <1>6, <1>7, <1>8 DEF PeerInv

-----------------------------------------------------------------------------
LEMMA NextInv == PeerInv /\ [Next]_vars => PeerInv'
<1> SUFFICES ASSUME PeerInv, [Next]_vars PROVE PeerInv'
  OBVIOUS
<1>1. ASSUME NEW t \in Threads, NEW i \in Ids, Acquire(t, i) PROVE PeerInv'
  BY <1>1, AcquireInv
<1>2. ASSUME NEW t \in Threads,
             Release(t) \/ TellRemoved(t) \/ Drop(t) \/ FreePeer(t) \/ ThreadEnds(t)
      PROVE  PeerInv'
  BY <1>2, ReleaseInv, TellRemovedInv, DropInv, FreePeerInv, ShutdownInv
<1>3. ASSUME NEW o \in Peers, NEW i \in Ids, CreatePeer(o, i) PROVE PeerInv'
  BY <1>3, CreatePeerInv
<1>4. CASE \/ Condemn \/ PutOff \/ HandleEvent
           \/ \E i \in Ids : RequestDisconnect(i) \/ DisconnectPeer(i)
  BY <1>4, SendAndProgramInv
<1>5. CASE Disco \/ Sweep \/ Shutdown \/ Destroy
  BY <1>5, DiscoInv, SweepInv, ShutdownInv, DestroyInv
<1>6. CASE UNCHANGED vars
  <2>1. TypeOK'
    BY <1>6 DEF PeerInv, TypeOK, vars, objectVars, threadVars, sendVars, programVars
  <2> QED
    BY <1>6, <2>1, FrameInv DEF vars, objectVars
<1> QED
  BY <1>1, <1>2, <1>3, <1>4, <1>5, <1>6 DEF Next

-----------------------------------------------------------------------------
(***************************************************************************)
(* What the program is told.  That it follows is inductive on top of       *)
(* PeerInv: each event is about one peer, as long as its id was given to   *)
(* one only.                                                               *)
(***************************************************************************)
Events == {"added", "removed"} \X Ids

\* Being told of by a thread, or in the map.
Present(i) == \/ peers[i] # None
              \/ \E t \in Threads : step[t] = "tell" /\ id[deleting[t]] = i

\* The newest event says what the program will believe.
LEMMA TellTells ==
  ASSUME events \in Seq(Events), NEW e \in Events, NEW i \in Ids,
         events' = Append(events, e), clients' = clients
  PROVE  ClientAfterEvents(i)' <=> IF e[2] = i THEN e[1] = "added" ELSE ClientAfterEvents(i)
<1> DEFINE len == Len(events)
<1>1. /\ len \in Nat /\ DOMAIN events = 1 .. len /\ DOMAIN events' = 1 .. len + 1
      /\ events'[len + 1] = e /\ \A n \in 1 .. len : events'[n] = events[n]
  OBVIOUS
<1>2. e = <<e[1], e[2]>> /\ e[1] \in {"added", "removed"}
  BY DEF Events
<1> HIDE DEF len
<1>3. CASE e[2] = i
  <2>1. ~(\A n \in DOMAIN events' : events'[n][2] # i)
    BY <1>1, <1>3
  <2>2. ASSUME e[1] = "added" PROVE ClientAfterEvents(i)'
    <3>1. events'[len + 1] = <<"added", i>> /\ len + 1 \in DOMAIN events'
      BY <1>1, <1>2, <1>3, <2>2
    <3>2. \A m \in DOMAIN events' : ~(m > len + 1)
      BY <1>1
    <3> QED
      BY <3>1, <3>2 DEF ClientAfterEvents
  <2>3. ASSUME ClientAfterEvents(i)' PROVE e[1] = "added"
    <3>1. PICK n \in DOMAIN events' : /\ events'[n] = <<"added", i>>
                                      /\ \A m \in DOMAIN events' : m > n => events'[m][2] # i
      BY <2>1, <2>3 DEF ClientAfterEvents
    <3>2. n = len + 1
      BY <1>1, <1>3, <3>1
    <3> QED
      BY <1>1, <1>2, <3>1, <3>2
  <2> QED
    BY <1>3, <2>2, <2>3
<1>4. CASE e[2] # i
  <2>1. (\A n \in DOMAIN events' : events'[n][2] # i) <=> \A n \in DOMAIN events : events[n][2] # i
    BY <1>1, <1>4
  <2>2. \A n \in DOMAIN events : events'[n] = events[n] /\ n \in DOMAIN events'
    BY <1>1
  <2>3. \A m \in DOMAIN events' : m \in DOMAIN events \/ events'[m][2] # i
    BY <1>1, <1>4
  <2>4. events'[len + 1] # <<"added", i>>
    BY <1>1, <1>4
  <2>5. \A m \in DOMAIN events' : m \in DOMAIN events \/ m = len + 1
    BY <1>1
  <2> DEFINE newest(n) == /\ events[n] = <<"added", i>>
                          /\ \A m \in DOMAIN events : m > n => events[m][2] # i
             newestNext(n) == /\ events'[n] = <<"added", i>>
                              /\ \A m \in DOMAIN events' : m > n => events'[m][2] # i
  <2>6. \A n \in DOMAIN events : newestNext(n) <=> newest(n)
    BY <2>2, <2>3
  <2>7. \A n \in DOMAIN events' : newestNext(n) => n \in DOMAIN events
    BY <2>4, <2>5
  <2>8. ClientAfterEvents(i)' <=> \/ i \in clients /\ \A n \in DOMAIN events' : events'[n][2] # i
                                  \/ \E n \in DOMAIN events' : newestNext(n)
    BY DEF ClientAfterEvents
  <2>9. ClientAfterEvents(i) <=> \/ i \in clients /\ \A n \in DOMAIN events : events[n][2] # i
                                 \/ \E n \in DOMAIN events : newest(n)
    BY DEF ClientAfterEvents
  <2> HIDE DEF newest, newestNext
  <2> QED
    BY <1>4, <2>1, <2>2, <2>6, <2>7, <2>8, <2>9
<1> QED
  BY <1>3, <1>4

\* An event that is handled was counted with already.
LEMMA HandleTells ==
  ASSUME events \in Seq(Events), NEW i \in Ids, HandleEvent
  PROVE  ClientAfterEvents(i)' <=> ClientAfterEvents(i)
<1> DEFINE e == events[1]
           len == Len(events)
<1>0. events # <<>> /\ events' = Tail(events) /\ Head(events) = e
  BY DEF HandleEvent
<1>1. /\ events # <<>> /\ events' = Tail(events)
      /\ clients' = IF e[1] = "added" THEN clients \cup {e[2]} ELSE clients \ {e[2]}
  BY <1>0 DEF HandleEvent
<1>2. /\ len \in Nat \ {0} /\ DOMAIN events = 1 .. len /\ DOMAIN events' = 1 .. len - 1
      /\ \A n \in 1 .. len - 1 : events'[n] = events[n + 1]
      /\ e \in Events
  BY <1>1
<1>3. e = <<e[1], e[2]>> /\ e[1] \in {"added", "removed"}
  BY <1>2 DEF Events
<1> HIDE DEF len
<1>4. \A n \in DOMAIN events : n # 1 => n - 1 \in DOMAIN events' /\ events'[n - 1] = events[n]
  BY <1>2
<1>5. \A n \in DOMAIN events' : n + 1 \in DOMAIN events /\ events'[n] = events[n + 1] /\ n >= 1
  BY <1>2
<1> DEFINE quiet == \A n \in DOMAIN events : n # 1 => events[n][2] # i
<1>6. quiet <=> \A n \in DOMAIN events' : events'[n][2] # i
  <2>1. ASSUME quiet, NEW n \in DOMAIN events' PROVE events'[n][2] # i
    BY <1>2, <1>5, <2>1
  <2>2. ASSUME \A n \in DOMAIN events' : events'[n][2] # i, NEW n \in DOMAIN events, n # 1
        PROVE  events[n][2] # i
    BY <1>4, <2>2
  <2> QED
    BY <2>1, <2>2
<1>7. CASE quiet
  <2>1. ClientAfterEvents(i)' <=> i \in clients'
    BY <1>6, <1>7 DEF ClientAfterEvents
  <2>2. ClientAfterEvents(i) <=> IF e[2] = i THEN e[1] = "added" ELSE i \in clients
    <3>1. 1 \in DOMAIN events
      BY <1>2
    <3>2. \A m \in DOMAIN events : m > 1 => m # 1
      BY <1>2
    <3>3. CASE e[2] = i
      <4>1. ASSUME e[1] = "added" PROVE ClientAfterEvents(i)
        BY <1>3, <1>7, <3>1, <3>2, <3>3, <4>1 DEF ClientAfterEvents
      <4>2. ASSUME ClientAfterEvents(i) PROVE e[1] = "added"
        BY <1>3, <1>7, <3>1, <3>3, <4>2 DEF ClientAfterEvents
      <4> QED
        BY <3>3, <4>1, <4>2
    <3>4. CASE e[2] # i
      BY <1>3, <1>7, <3>4 DEF ClientAfterEvents
    <3> QED
      BY <3>3, <3>4
  <2> HIDE DEF quiet
  <2> QED
    BY <1>1, <1>3, <2>1, <2>2
<1>8. CASE ~quiet
  <2>1. /\ ClientAfterEvents(i) <=>
             \E n \in DOMAIN events : /\ events[n] = <<"added", i>>
                                      /\ \A m \in DOMAIN events : m > n => events[m][2] # i
        /\ ClientAfterEvents(i)' <=>
             \E n \in DOMAIN events' : /\ events'[n] = <<"added", i>>
                                       /\ \A m \in DOMAIN events' : m > n => events'[m][2] # i
    BY <1>6, <1>8 DEF ClientAfterEvents
  <2>2. ASSUME NEW n \in DOMAIN events, events[n] = <<"added", i>>,
               \A m \in DOMAIN events : m > n => events[m][2] # i
        PROVE  \E k \in DOMAIN events' : /\ events'[k] = <<"added", i>>
                                         /\ \A m \in DOMAIN events' : m > k => events'[m][2] # i
    <3>1. n # 1
      BY <1>2, <1>8, <2>2
    <3>2. n - 1 \in DOMAIN events' /\ events'[n - 1] = <<"added", i>>
      BY <1>4, <2>2, <3>1
    <3>3. \A m \in DOMAIN events' : m > n - 1 => m + 1 > n
      BY <1>2
    <3>4. \A m \in DOMAIN events' : m > n - 1 => events'[m][2] # i
      BY <1>5, <2>2, <3>3
    <3> QED
      BY <3>2, <3>4
  <2>3. ASSUME NEW k \in DOMAIN events', events'[k] = <<"added", i>>,
               \A m \in DOMAIN events' : m > k => events'[m][2] # i
        PROVE  \E n \in DOMAIN events : /\ events[n] = <<"added", i>>
                                        /\ \A m \in DOMAIN events : m > n => events[m][2] # i
    <3>1. k + 1 \in DOMAIN events /\ events[k + 1] = <<"added", i>>
      BY <1>5, <2>3
    <3>2. \A m \in DOMAIN events : m > k + 1 => m # 1 /\ m - 1 > k
      BY <1>2
    <3>3. \A m \in DOMAIN events : m > k + 1 => events[m][2] # i
      BY <1>4, <2>3, <3>2
    <3> QED
      BY <3>1, <3>3
  <2> QED
    BY <2>1, <2>2, <2>3
<1> QED
  BY <1>7, <1>8

\* What is given twice stays so.
LEMMA GivenStays ==
  ASSUME NEW i \in Ids, GivenTwice(i),
         \A o \in Created : o \in Created' /\ id'[o] = id[o]
  PROVE  GivenTwice(i)'
  BY DEF GivenTwice

\* Steps that neither tell nor take out.
LEMMA NothingTold ==
  ASSUME ProgramFollows, UNCHANGED <<peers, events, clients>>,
         ShuttingDown => ShuttingDown',
         \A o \in Created : o \in Created' /\ id'[o] = id[o],
         \A t \in Threads : step'[t] = "tell" <=> step[t] = "tell",
         \A t \in Threads : step[t] = "tell" => id'[deleting'[t]] = id[deleting[t]]
  PROVE  ProgramFollows'
<1> SUFFICES ASSUME ~ShuttingDown', NEW i \in Ids, ~GivenTwice(i)'
             PROVE  ClientAfterEvents(i)' <=> Present(i)'
  BY DEF ProgramFollows, Present
<1>1. ClientAfterEvents(i) <=> Present(i)
  BY GivenStays DEF ProgramFollows, Present
<1>2. ClientAfterEvents(i)' <=> ClientAfterEvents(i)
  BY DEF ClientAfterEvents
<1>3. Present(i)' <=> Present(i)
  BY DEF Present
<1> QED
  BY <1>1, <1>2, <1>3

\* deletePeer takes the peer out of the map and has yet to tell.
LEMMA TakeOutFollows ==
  ASSUME PeerInv, ProgramFollows, NEW t \in Threads, NEW i \in Ids, Runs(t), TakeOut(t, i),
         UNCHANGED <<id, memory, events, clients>>
  PROVE  ProgramFollows'
<1>0. TypeOK /\ InMapIsUsable /\ DeletersInStage
  BY DEF PeerInv
<1>1. CASE peers[i] = None
  BY <1>1, NothingTold DEF TakeOut, ShuttingDown, Created
<1>2. CASE peers[i] # None
  <2>1. /\ peers' = [peers EXCEPT ![i] = None]
        /\ step' = [step EXCEPT ![t] = "tell"]
        /\ deleting' = [deleting EXCEPT ![t] = peers[i]]
    BY <1>2 DEF TakeOut
  <2>2. id[peers[i]] = i /\ step[t] = "loop"
    BY <1>0, <1>2 DEF InMapIsUsable, Runs
  <2>3. \A j \in Ids : Present(j)' <=> Present(j)
    <3> SUFFICES ASSUME NEW j \in Ids PROVE Present(j)' <=> Present(j)
      OBVIOUS
    <3>1. /\ peers'[j] = IF j = i THEN None ELSE peers[j]
          /\ step'[t] = "tell" /\ deleting'[t] = peers[i]
          /\ \A u \in Threads \ {t} : step'[u] = step[u] /\ deleting'[u] = deleting[u]
      BY <1>0, <2>1 DEF TypeOK
    <3>2. CASE j = i
      BY <1>2, <2>2, <3>1, <3>2 DEF Present
    <3>3. CASE j # i
      BY <2>2, <3>1, <3>3 DEF Present
    <3> QED
      BY <3>2, <3>3
  <2>4. ShuttingDown => ShuttingDown'
    BY <1>0, <2>1, <2>2 DEF ShuttingDown, TypeOK
  <2> SUFFICES ASSUME ~ShuttingDown', NEW j \in Ids, ~GivenTwice(j)'
               PROVE  ClientAfterEvents(j)' <=> Present(j)'
    BY DEF ProgramFollows, Present
  <2>5. ClientAfterEvents(j) <=> Present(j)
    BY <2>4, GivenStays DEF ProgramFollows, Present, Created
  <2>6. ClientAfterEvents(j)' <=> ClientAfterEvents(j)
    BY DEF ClientAfterEvents
  <2> QED
    BY <2>3, <2>5, <2>6
<1> QED
  BY <1>1, <1>2

\* The event for a peer that is taken out: an id that was not given twice is
\* neither in the map any more nor with another thread.
LEMMA TellRemovedFollows ==
  ASSUME PeerInv, ProgramFollows, NEW t \in Threads, TellRemoved(t)
  PROVE  ProgramFollows'
<1> DEFINE o == deleting[t]
           i == id[o]
<1>0. TypeOK /\ InMapIsUsable /\ DeletersInStage /\ NoUseAfterFree /\ BornHaveIds
  BY DEF PeerInv
<1>1. /\ step[t] = "tell" /\ step' = [step EXCEPT ![t] = "drop"]
      /\ events' = Append(events, <<"removed", i>>)
      /\ UNCHANGED <<peers, id, memory, deleting, clients>>
  BY DEF TellRemoved, objectVars
<1>2. o \in Peers /\ memory[o] = "live" /\ i \in Ids
  BY <1>0, <1>1 DEF DeletersInStage, NoUseAfterFree, BornHaveIds, TypeOK
<1>3. /\ step'[t] = "drop" /\ \A u \in Threads \ {t} : step'[u] = step[u]
      /\ Created' = Created
  BY <1>0, <1>1 DEF TypeOK, Created
<1>4. ShuttingDown => ShuttingDown'
  BY <1>1, <1>3 DEF ShuttingDown
<1> SUFFICES ASSUME ~ShuttingDown', NEW j \in Ids, ~GivenTwice(j)'
             PROVE  ClientAfterEvents(j)' <=> Present(j)'
  BY DEF ProgramFollows, Present
<1>5. ~GivenTwice(j) /\ (ClientAfterEvents(j) <=> Present(j))
  BY <1>1, <1>3, <1>4, GivenStays DEF ProgramFollows, Present
<1> DEFINE e == <<"removed", i>>
<1>6. e \in Events /\ e[1] = "removed" /\ e[2] = i
  BY <1>2 DEF Events
<1>7. events \in Seq(Events)
  BY <1>0 DEF TypeOK, Events
<1>8. events' = Append(events, e)
  BY <1>1
<1>o. o \in Created /\ id[o] = i
  BY <1>2 DEF Created
<1>p. o = deleting[t]
  OBVIOUS
<1> HIDE DEF o, i, e
<1>9. ClientAfterEvents(j)' <=> IF e[2] = j THEN e[1] = "added" ELSE ClientAfterEvents(j)
  BY <1>1, <1>6, <1>7, <1>8, TellTells
<1>10. CASE i = j
  <2>1. peers[j] = None
    <3> SUFFICES ASSUME peers[j] # None PROVE FALSE
      OBVIOUS
    <3>1. peers[j] \in Created /\ id[peers[j]] = j /\ o # peers[j]
      BY <1>0, <1>p DEF InMapIsUsable, NoUseAfterFree, Created, TypeOK
    <3> QED
      BY <1>5, <1>10, <1>o, <3>1 DEF GivenTwice
  <2>2. \A u \in Threads : ~(step'[u] = "tell" /\ id[deleting[u]] = j)
    <3> SUFFICES ASSUME NEW u \in Threads, step'[u] = "tell", id[deleting[u]] = j PROVE FALSE
      OBVIOUS
    <3>1. u # t /\ step[u] = "tell"
      BY <1>3
    <3>2. deleting[u] \in Created /\ deleting[u] # o
      BY <1>0, <1>2, <1>p, <3>1 DEF DeletersInStage, NoUseAfterFree, Created, TypeOK
    <3> QED
      BY <1>5, <1>10, <1>o, <3>2 DEF GivenTwice
  <2>3. ~Present(j)'
    BY <1>1, <2>1, <2>2 DEF Present
  <2> QED
    BY <1>6, <1>9, <1>10, <2>3
<1>11. CASE i # j
  <2>1. Present(j)' <=> Present(j)
    BY <1>1, <1>3, <1>11, <1>o, <1>p DEF Present
  <2> QED
    BY <1>5, <1>6, <1>9, <1>11, <2>1
<1> QED
  BY <1>10, <1>11

LEMMA CreatePeerFollows ==
  ASSUME PeerInv, ProgramFollows, NEW o \in Peers, NEW i \in Ids, CreatePeer(o, i)
  PROVE  ProgramFollows'
<1>0. TypeOK /\ DeletersInStage /\ NoUseAfterFree
  BY DEF PeerInv
<1>1. /\ peers' = [peers EXCEPT ![i] = o] /\ id' = [id EXCEPT ![o] = i]
      /\ memory' = [memory EXCEPT ![o] = "live"]
      /\ events' = Append(events, <<"added", i>>)
      /\ UNCHANGED <<step, deleting, clients>> /\ Created = 1 .. o - 1
  BY DEF CreatePeer, threadVars
<1>2. \A u \in Created : u \in Created' /\ id'[u] = id[u]
  <2> SUFFICES ASSUME NEW u \in Created PROVE u \in Created' /\ id'[u] = id[u]
    OBVIOUS
  <2>0. u # o
    BY <1>1
  <2>1. u \in Peers /\ memory[u] # "unborn"
    BY DEF Created
  <2>2. memory'[u] = memory[u] /\ id'[u] = id[u]
    BY <1>0, <1>1, <2>0, <2>1 DEF TypeOK
  <2> QED
    BY <2>1, <2>2 DEF Created
<1>3. o \notin Created
  BY <1>1
<1>4. \A t \in Threads : step[t] = "tell" => id'[deleting[t]] = id[deleting[t]]
  <2> SUFFICES ASSUME NEW t \in Threads, step[t] = "tell" PROVE id'[deleting[t]] = id[deleting[t]]
    OBVIOUS
  <2>1. deleting[t] \in Created
    BY <1>0 DEF DeletersInStage, NoUseAfterFree, Created, TypeOK
  <2> QED
    BY <1>2, <2>1
<1> SUFFICES ASSUME ~ShuttingDown', NEW j \in Ids, ~GivenTwice(j)'
             PROVE  ClientAfterEvents(j)' <=> Present(j)'
  BY DEF ProgramFollows, Present
<1>5. ClientAfterEvents(j) <=> Present(j)
  BY <1>1, <1>2, GivenStays DEF ProgramFollows, Present, ShuttingDown
<1> DEFINE e == <<"added", i>>
<1>6. e \in Events /\ e[1] = "added" /\ e[2] = i /\ events' = Append(events, e)
  BY <1>1 DEF Events
<1>7. events \in Seq(Events)
  BY <1>0 DEF TypeOK, Events
<1> HIDE DEF e
<1>8. ClientAfterEvents(j)' <=> IF e[2] = j THEN e[1] = "added" ELSE ClientAfterEvents(j)
  BY <1>1, <1>6, <1>7, TellTells
<1>9. /\ peers'[i] = o /\ \A k \in Ids \ {i} : peers'[k] = peers[k]
      /\ o # None
  <2>1. peers \in [Ids -> Peers \cup {None}]
    BY <1>0 DEF TypeOK
  <2> QED
    BY <1>1, <2>1
<1>10. CASE i = j
  BY <1>6, <1>8, <1>9, <1>10 DEF Present
<1>11. CASE i # j
  <2>1. Present(j)' <=> Present(j)
    BY <1>1, <1>4, <1>9, <1>11 DEF Present
  <2> QED
    BY <1>5, <1>6, <1>8, <1>11, <2>1
<1> QED
  BY <1>10, <1>11

LEMMA FollowsNext ==
  ASSUME PeerInv, ProgramFollows, [Next]_vars
  PROVE  ProgramFollows'
<1>0. TypeOK /\ DeletersInStage
  BY DEF PeerInv
<1>1. ASSUME NEW t \in Threads, \E i \in Ids : Acquire(t, i)
      PROVE  ProgramFollows'
  BY <1>1, NothingTold DEF Acquire, programVars, ShuttingDown, Created
<1>2. ASSUME NEW t \in Threads, Release(t)
      PROVE  ProgramFollows'
  <2>1. /\ \A u \in Threads : step'[u] = "tell" <=> step[u] = "tell"
        /\ \A u \in Threads : step[u] = "tell" => deleting'[u] = deleting[u]
        /\ ShuttingDown => ShuttingDown'
    <3>1. step \in [Threads -> {"loop", "tell", "drop", "free", "stopping", "stopped"}]
      BY <1>0 DEF TypeOK
    <3>2. CASE UNCHANGED <<step, deleting>>
      BY <3>2 DEF ShuttingDown
    <3>3. CASE /\ step' = [step EXCEPT ![t] = "free"]
               /\ deleting' = [deleting EXCEPT ![t] = uses[t]] /\ step[t] = "loop"
      BY <1>0, <3>1, <3>3 DEF ShuttingDown, TypeOK
    <3> QED
      BY <1>2, <3>2, <3>3 DEF Release, Runs
  <2> QED
    BY <1>2, <2>1, NothingTold DEF Release, programVars, Created
<1>3. ASSUME NEW t \in Threads, TellRemoved(t)
      PROVE  ProgramFollows'
  BY <1>3, TellRemovedFollows
<1>4. ASSUME NEW t \in Threads, Drop(t) \/ FreePeer(t)
      PROVE  ProgramFollows'
  <2>1. /\ \A u \in Threads : step'[u] = "tell" <=> step[u] = "tell"
        /\ \A u \in Threads : step[u] = "tell" => deleting'[u] = deleting[u]
        /\ ShuttingDown => ShuttingDown'
    <3>1. /\ step \in [Threads -> {"loop", "tell", "drop", "free", "stopping", "stopped"}]
          /\ deleting \in [Threads -> Peers \cup {None}]
      BY <1>0 DEF TypeOK
    <3>2. /\ step[t] \in {"drop", "free"}
          /\ step' = [step EXCEPT ![t] = "free"] \/ step' = [step EXCEPT ![t] = "loop"]
          /\ deleting' = deleting \/ deleting' = [deleting EXCEPT ![t] = None]
      BY <1>4 DEF Drop, FreePeer
    <3>3. \A u \in Threads : /\ u # t => step'[u] = step[u] /\ deleting'[u] = deleting[u]
                             /\ u = t => step'[u] \in {"free", "loop"}
      BY <3>1, <3>2
    <3> QED
      BY <3>2, <3>3 DEF ShuttingDown
  <2>2. Created \subseteq Created'
    BY <1>0, <1>4 DEF Drop, FreePeer, TypeOK, Created
  <2> QED
    BY <1>4, <2>1, <2>2, NothingTold DEF Drop, FreePeer, programVars
<1>5. ASSUME NEW t \in Threads, ThreadEnds(t)
      PROVE  ProgramFollows'
  <2>1. ShuttingDown'
    BY <1>0, <1>5 DEF ThreadEnds, ShuttingDown, TypeOK
  <2> QED
    BY <2>1 DEF ProgramFollows
<1>6. ASSUME NEW o \in Peers, NEW i \in Ids, CreatePeer(o, i)
      PROVE  ProgramFollows'
  BY <1>6, CreatePeerFollows
<1>7. ASSUME NEW i \in Ids, RequestDisconnect(i) \/ DisconnectPeer(i)
      PROVE  ProgramFollows'
  BY <1>7, NothingTold DEF RequestDisconnect, DisconnectPeer, programVars, threadVars, objectVars,
    ShuttingDown, Created
<1>8. CASE Disco
  <2> DEFINE i == id[uses["receive"]]
  <2>1. uses["receive"] # None /\ uses["receive"] \in Peers
    BY <1>0, <1>8 DEF Disco, HoldsNone, TypeOK
  <2>2. memory[uses["receive"]] = "live"
    BY <2>1 DEF PeerInv, NoUseAfterFree
  <2>3. i \in Ids
    BY <2>1, <2>2 DEF PeerInv, BornHaveIds
  <2>4. /\ Runs("receive") /\ TakeOut("receive", i)
        /\ UNCHANGED <<id, memory, events, clients>>
    BY <1>8 DEF Disco, objectVars, programVars
  <2> HIDE DEF i
  <2> QED
    BY <2>3, <2>4, TakeOutFollows
<1>9. CASE Sweep
  <2> DEFINE i == Head(condemned).id
  <2>1. condemned # <<>> /\ condemned \in Seq([id : Ids, marked : BOOLEAN])
    BY <1>0, <1>9 DEF Sweep, NextCondemned, TypeOK
  <2>0. \A S, s : s \in Seq(S) /\ s # <<>> => Head(s) \in S
    OBVIOUS
  <2>2. Head(condemned) \in [id : Ids, marked : BOOLEAN]
    BY <2>0, <2>1
  <2>3. i \in Ids
    BY <2>2
  <2>4. Runs("send") /\ TakeOut("send", i) /\ UNCHANGED <<id, memory, events, clients>>
    BY <1>9 DEF Sweep, NextCondemned, objectVars, programVars
  <2> HIDE DEF i
  <2> QED
    BY <2>3, <2>4, TakeOutFollows
<1>10. CASE Condemn \/ PutOff \/ UNCHANGED vars
  BY <1>10, NothingTold DEF Condemn, PutOff, NextCondemned, vars, programVars, threadVars, objectVars,
    ShuttingDown, Created
<1>11. CASE HandleEvent
  <2>1. UNCHANGED <<peers, id, memory, step, deleting>>
    BY <1>11 DEF HandleEvent, objectVars, threadVars
  <2>2. \A i \in Ids : ClientAfterEvents(i)' <=> ClientAfterEvents(i)
    BY <1>0, <1>11, HandleTells DEF TypeOK, Events
  <2>3. \A i \in Ids : GivenTwice(i) => GivenTwice(i)'
    BY <2>1, GivenStays DEF Created
  <2> QED
    BY <2>1, <2>2, <2>3 DEF ProgramFollows, ShuttingDown
<1>12. CASE Shutdown \/ Destroy
  <2>1. ShuttingDown'
    <3>1. \/ step' = [step EXCEPT !["user"] = "stopping"]
          \/ step' = [step EXCEPT !["user"] = "stopped"]
      BY <1>12 DEF Shutdown, Destroy
    <3>2. step'["user"] \in {"stopping", "stopped"}
      BY <1>0, <3>1 DEF TypeOK
    <3> QED
      BY <3>2 DEF ShuttingDown
  <2> QED
    BY <2>1 DEF ProgramFollows
<1> QED
  BY <1>1, <1>2, <1>3, <1>4, <1>5, <1>6, <1>7, <1>8, <1>9, <1>10, <1>11, <1>12 DEF Next

-----------------------------------------------------------------------------
(***************************************************************************)
(* The invariant of the peers' life holds in every reachable state         *)
(* (getPeerNoEx, IncUseCount, DecUseCount, createPeer, deletePeer, Drop).  *)
(***************************************************************************)
THEOREM PeersInvariant == Spec => []PeerInv
<1>1. Init => PeerInv
  BY InitInv
<1>2. PeerInv /\ [Next]_vars => PeerInv'
  BY NextInv
<1> QED
  BY <1>1, <1>2, PTL DEF Spec

\* Every reachable state is well typed; a use count, too, which DecUseCount lowers.
THEOREM PeersTyped == Spec => []TypeOK
<1>1. PeerInv => TypeOK
  BY DEF PeerInv
<1> QED
  BY <1>1, PeersInvariant, PTL

\* No thread ever reaches a freed peer, and none is freed twice (PeerHelper,
\* deletePeer, Drop, DecUseCount).
THEOREM NeverUsedAfterFree == Spec => []NoUseAfterFree
<1>1. PeerInv => NoUseAfterFree
  BY DEF PeerInv
<1> QED
  BY <1>1, PeersInvariant, PTL

\* ~Connection leaves no peer behind.
THEOREM EveryPeerFreed == Spec => []NothingLeaks
<1>1. PeerInv => NothingLeaks
  BY DEF PeerInv
<1> QED
  BY <1>1, PeersInvariant, PTL

(***************************************************************************)
(* The program's clients are the peers of the map once it has handled the  *)
(* events that wait, but for a peer that is taken out and not told of yet, *)
(* for any number of peers (createPeer, deletePeer, Server::peerAdded,     *)
(* Server::deletingPeer).                                                  *)
(***************************************************************************)
THEOREM ProgramIsTold == Spec => []ProgramFollows
<1>1. Init => PeerInv /\ ProgramFollows
  <2>1. Init => ProgramFollows
    BY DEF Init, ProgramFollows, ClientAfterEvents
  <2> QED
    BY <2>1, InitInv
<1>2. (PeerInv /\ ProgramFollows) /\ [Next]_vars => (PeerInv /\ ProgramFollows)'
  BY NextInv, FollowsNext
<1> QED
  BY <1>1, <1>2, PTL DEF Spec

=============================================================================
