------------------------ MODULE Coordination_proofs ------------------------
(***************************************************************************)
(* What Coordination promises, for any finite number of processes and       *)
(* caches and any bounds on opens, fills and crashes.                       *)
(***************************************************************************)
EXTENDS Coordination, FiniteSetTheorems, TLAPS

(* Where a thread is, by what it has in hand.                               *)
Opening == Sweeping \cup {"sweep", "mkdir"}       \* no directory of its own yet
Recovering == Probing \cup {"rv_list", "recover"}
Marking == {"ow_open", "ow_lock"}                 \* a directory, not yet locked
Living == {"se_get", "se_lock", "writer", "open"} \cup Recovering
Dropping == {"dr_writer", "dr_dir"}
Leaving == {"dr_proc", "dr_unlock", "dr_unlink", "dr_owner"}
Referring == Recovering \cup Dropping \cup {"writer", "open", "dr_proc"}
Locked == Living \cup Dropping \cup Leaving

(* The mutex of the registry is held through the lock of the sentinel, and  *)
(* nobody has a reference meanwhile.                                        *)
MutexHeld ==
  \A i \in Instances : At(i, "se_lock") =>
    registry[Self(i)] = i /\ sentinel[Self(i)].refs = 0

(* The strong count of Arc<CacheProcess>.                                   *)
RefHolders(p) == {i \in Instances : Self(i) = p /\ pc[i] \in Referring}
RefsCounted == \A p \in Procs : sentinel[p].refs = Cardinality(RefHolders(p))

(* Directory names are used in order, and one is left for each open that    *)
(* has still to make its own.                                               *)
Pending == {i \in Instances : pc[i] \in Opening}
NamesLeft ==
  \E k \in Nat : /\ \A d \in Dirs : dirs[d].pid # None <=> d <= k
                 /\ k + Cardinality(Pending) <= opens

(* What a sweep looks at exists or did exist.                               *)
NamesUsed ==
  /\ \A d \in Dirs : dirs[d].there => dirs[d].pid # None
  /\ \A i \in Instances : pc[i] \in Opening => \A d \in todo[i] : d \in Dirs /\ dirs[d].pid # None
  /\ \A i \in Instances : pc[i] \in Sweeping => at[i] \in Dirs /\ dirs[at[i]].pid # None

(* Every cache has its own directory, from its creation until the owner     *)
(* lock goes, and has it locked from then on.                               *)
OwnDir ==
  /\ \A i \in Instances : pc[i] \in Marking \cup Locked => dir[i] \in Dirs /\ dirs[dir[i]].pid # None
  /\ \A i \in Instances : pc[i] \notin Marking \cup Locked => dir[i] = None
  /\ \A i, j \in Instances : dir[i] = dir[j] => i = j \/ dir[i] = None
  /\ \A i \in Instances : pc[i] \in Locked => dir[i] \in owned
  /\ \A d \in owned : \E i \in Instances : dir[i] = d /\ pc[i] \in Locked

(* A probe holds only what no cache has locked.                             *)
ProbeFree == \A j \in Instances : At(j, "sw_held") => at[j] \notin owned

(* The directory of a cache that is up has its .owner file, and nobody is   *)
(* about to remove it, unless it was condemned too early.                   *)
Spared ==
  \A i \in Instances :
    /\ pc[i] \in Living \cup {"ow_lock"} => dirs[dir[i]].owner \/ i \in early
    /\ pc[i] \in Marking \cup Living =>
         \A j \in Instances : At(j, "sw_reap") /\ at[j] = dir[i] => i \in early

FillsUp == \A i \in Instances : filling[i] => At(i, "open")

(* What is left of the debris that an open met is in its own list or in the *)
(* hands of a sweep; a cache that opens later does not touch it.            *)
DebrisDead ==
  \A i \in Instances : \A d \in dead[i] :
    /\ dirs[d].pid # None /\ (dirs[d].there => dirs[d].owner)
    /\ \A j \in Instances : dir[j] # d
DebrisListed ==
  /\ \A i \in Instances : At(i, "mkdir") => todo[i] = {}
  /\ \A i \in Instances : pc[i] \in Opening =>
       \A d \in dead[i] \cap There :
         d \in todo[i] \/ \E j \in Instances : pc[j] \in Sweeping /\ at[j] = d

DirMade == \A i \in Instances : pc[i] \in Marking => dir[i] \in Dirs
TypeInv == TypeOK /\ MutexHeld /\ RefsCounted /\ NamesLeft /\ DirMade
FillInv == NamesUsed /\ OwnDir /\ ProbeFree /\ Spared /\ FillsUp /\ FillKept
DebrisInv == DebrisDead /\ DebrisListed
-----------------------------------------------------------------------------
(* A name is left for an open that has still to make its directory.         *)
LEMMA NextDirFresh ==
  ASSUME TypeInv, NEW i \in Instances, At(i, "mkdir")
  PROVE  NextDir \in Dirs /\ dirs[NextDir].pid = None /\ \A e \in Dirs : e < NextDir => dirs[e].pid # None
<1>1. PICK k \in Nat : /\ \A d \in Dirs : dirs[d].pid # None <=> d <= k
                       /\ k + Cardinality(Pending) <= opens
  BY DEF TypeInv, NamesLeft
<1>2. IsFiniteSet(Pending)
  BY FS_Subset, FiniteAssumption DEF Pending
<1>3. i \in Pending
  BY DEF At, Pending, Opening
<1>4. Cardinality(Pending) \in Nat /\ Cardinality(Pending) # 0
  <2>1. Cardinality(Pending) \in Nat
    BY <1>2, FS_CardinalityType
  <2>2. Cardinality(Pending) = 0 => Pending = {}
    BY <1>2, FS_EmptySet
  <2> QED BY <1>3, <2>1, <2>2
<1>5. k + 1 \in Dirs
  <2>1. opens \in Nat /\ opens <= MaxOpens /\ MaxOpens \in Nat
    BY BoundsAssumption DEF TypeInv, TypeOK
  <2>2. k + Cardinality(Pending) <= opens
    BY <1>1
  <2>3. k + 1 <= MaxOpens
    BY <1>4, <2>1, <2>2
  <2> QED BY <2>1, <2>3 DEF Dirs
<1>6. dirs[k + 1].pid = None /\ \A e \in Dirs : e < k + 1 => dirs[e].pid # None
  BY <1>1, <1>5, BoundsAssumption DEF Dirs
<1>7. \E d \in Dirs : dirs[d].pid = None /\ \A e \in Dirs : e < d => dirs[e].pid # None
  BY <1>5, <1>6
<1> QED BY <1>7, Zenon DEF NextDir

(* The image of a finite set under a function is no larger.                 *)
LEMMA ImageBound ==
  ASSUME NEW S, IsFiniteSet(S), NEW f, DOMAIN f = S
  PROVE  /\ IsFiniteSet({f[x] : x \in S})
         /\ Cardinality({f[x] : x \in S}) <= Cardinality(S)
<1> DEFINE T == {f[x] : x \in S}
<1> DEFINE g == [x \in S |-> f[x]]
<1>1. g \in Surjection(S, T)
  BY DEF Surjection
<1> QED BY <1>1, FS_Surjection

(* A sentinel that has to be created gets an inode that nobody uses.        *)
LEMMA FreshInodeType ==
  ASSUME TypeInv, NEW p \in Procs, path[p] = None
  PROVE  FreshInode \in Inodes /\ FreshInode \notin InUse
<1> DEFINE inode == [q \in Procs |-> sentinel[q].inode]
           A == {path[q] : q \in Procs}
           B == {fd[i] : i \in Instances}
           C == {inode[q] : q \in Procs}
<1>1. IsFiniteSet(A) /\ Cardinality(A) <= Cardinality(Procs)
  BY ImageBound, FiniteAssumption DEF TypeInv, TypeOK
<1>2. IsFiniteSet(B) /\ Cardinality(B) <= Cardinality(Instances)
  BY ImageBound, FiniteAssumption DEF TypeInv, TypeOK
<1>3. IsFiniteSet(C) /\ Cardinality(C) <= Cardinality(Procs)
  <2>1. DOMAIN inode = Procs
    OBVIOUS
  <2> HIDE DEF inode
  <2> QED BY <2>1, ImageBound, FiniteAssumption
<1>4. InUse = A \cup B \cup C
  BY DEF InUse
<1>5. /\ Cardinality(A) \in Nat /\ Cardinality(B) \in Nat /\ Cardinality(C) \in Nat
      /\ Cardinality(Procs) \in Nat /\ Cardinality(Instances) \in Nat
  BY <1>1, <1>2, <1>3, FS_CardinalityType, FiniteAssumption
<1> HIDE DEF A, B, C
<1>6. IsFiniteSet(A \cup B) /\ Cardinality(A \cup B) <= Cardinality(A) + Cardinality(B)
  <2>1. IsFiniteSet(A \cap B)
    BY <1>1, FS_Intersection, <1>2
  <2>2. Cardinality(A \cap B) \in Nat
    BY <2>1, FS_CardinalityType
  <2>3. Cardinality(A \cup B) = Cardinality(A) + Cardinality(B) - Cardinality(A \cap B)
    BY <1>1, <1>2, FS_Union
  <2> QED BY <1>1, <1>2, <1>5, <2>2, <2>3, FS_Union
<1>7. /\ IsFiniteSet(InUse)
      /\ Cardinality(InUse) <= Cardinality(A) + Cardinality(B) + Cardinality(C)
  <2>1. IsFiniteSet((A \cup B) \cap C)
    BY <1>3, FS_Intersection, <1>6
  <2>2. Cardinality(A \cup B) \in Nat /\ Cardinality((A \cup B) \cap C) \in Nat
    BY <1>6, <2>1, FS_CardinalityType
  <2> QED BY <1>3, <1>4, <1>5, <1>6, <2>1, <2>2, FS_Union
<1>8. None \in InUse /\ None \notin Inodes
  BY ShapeAssumption DEF InUse
<1>9. ~(Inodes \subseteq InUse)
  <2> SUFFICES ASSUME Inodes \subseteq InUse PROVE FALSE
    OBVIOUS
  <2> DEFINE n == 2 * Cardinality(Procs) + Cardinality(Instances)
  <2>1. n \in Nat
    BY <1>5
  <2>2. Cardinality(Inodes) = n
    <3>1. Cardinality(1 .. n) = IF 1 > n THEN 0 ELSE n - 1 + 1
      BY <2>1, FS_Interval
    <3> QED BY <2>1, <3>1 DEF Inodes
  <2>3. Inodes \subseteq InUse \ {None} /\ IsFiniteSet(InUse \ {None})
        /\ Cardinality(InUse \ {None}) = Cardinality(InUse) - 1
    BY <1>7, <1>8, FS_RemoveElement
  <2>4. Cardinality(Inodes) <= Cardinality(InUse) - 1
    BY <2>3, FS_Subset
  <2>5. Cardinality(InUse) \in Nat
    BY <1>7, FS_CardinalityType
  <2> QED BY <1>1, <1>2, <1>3, <1>5, <1>7, <2>1, <2>2, <2>4, <2>5
<1>10. \E n \in Inodes : n \notin InUse
  BY <1>9
<1> QED BY <1>10, Zenon DEF FreshInode

-----------------------------------------------------------------------------
(* The steps that neither take nor give back a reference to CacheProcess.   *)
Quiet(i) ==
  \/ Open(i) \/ (\E d \in Dirs : SwOpen(i, d))
  \/ SwTry(i) \/ SwClose(i) \/ SwReap(i) \/ SwEnd(i)
  \/ MakeDir(i) \/ OwOpen(i) \/ OwLock(i)
  \/ IndexFails(i) \/ AcquireWriter(i) \/ RvList(i)
  \/ (\E p \in Procs : RvOpen(i, p))
  \/ RvTry(i) \/ RvUnlock(i) \/ RvUnlink(i) \/ RvEnd(i)
  \/ DrWriter(i) \/ DrDir(i) \/ DrUnlock(i) \/ DrUnlink(i) \/ DrOwner(i)
  \/ BeginFill(i) \/ EndFill(i) \/ Close(i)

(* A step is a quiet one, one of the three that count, or a crash.          *)
LEMMA StepCases ==
  ASSUME [Next]_vars
  PROVE  \/ UNCHANGED vars
         \/ \E i \in Instances : Quiet(i) \/ SeGet(i) \/ SeLock(i) \/ DrProc(i)
         \/ \E p \in Procs : Crash(p)
  BY Zenon DEF Next, Step, Quiet

LEMMA QuietStep ==
  ASSUME TypeInv, NEW i \in Instances, Quiet(i)
  PROVE  /\ pc' \in [Instances -> Labels]
         /\ \A j \in Instances : pc'[j] \in Referring <=> pc[j] \in Referring
         /\ \A j \in Instances : pc'[j] = "se_lock" <=> pc[j] = "se_lock"
         /\ UNCHANGED <<sentinel, registry, dep>>
<1>1. pc \in [Instances -> Labels]
  BY DEF TypeInv, TypeOK
<1> USE <1>1 DEF At, Goto, Labels, Referring, Recovering, Dropping, Probing, Sweeping, Condemn,
          staging, sentinels, rendezvous, bounds
<1>2. CASE Open(i)
  BY <1>2 DEF Open
<1>3. CASE \E d \in Dirs : SwOpen(i, d)
  BY <1>3 DEF SwOpen, SwOpenAs
<1>4. CASE SwTry(i) \/ SwClose(i) \/ SwReap(i) \/ SwEnd(i)
  BY <1>4 DEF SwTry, SwClose, SwReap, SwEnd
<1>5. CASE MakeDir(i) \/ OwOpen(i) \/ OwLock(i) \/ IndexFails(i)
  BY <1>5 DEF MakeDir, OwOpen, OwOpenAs, OwLock, OwLockWith, IndexFails
<1>6. CASE AcquireWriter(i) \/ RvList(i) \/ \E p \in Procs : RvOpen(i, p)
  BY <1>6 DEF AcquireWriter, AcquireAs, RvList, RvOpen
<1>7. CASE RvTry(i) \/ RvUnlock(i) \/ RvUnlink(i) \/ RvEnd(i)
  BY <1>7 DEF RvTry, RvUnlock, RvUnlink, RvEnd
<1>8. CASE DrWriter(i) \/ DrDir(i) \/ DrUnlock(i) \/ DrUnlink(i) \/ DrOwner(i)
  BY <1>8 DEF DrWriter, DrDir, DrUnlock, DrUnlockAs, DrUnlink, DrOwner
<1>9. CASE BeginFill(i) \/ EndFill(i) \/ Close(i)
  BY <1>9 DEF BeginFill, EndFill, Close
<1> QED BY <1>2, <1>3, <1>4, <1>5, <1>6, <1>7, <1>8, <1>9 DEF Quiet

(* A cache with a reference is counted.                                     *)
LEMMA RefsPositive ==
  ASSUME TypeInv, NEW i \in Instances, pc[i] \in Referring
  PROVE  Self(i) \in Procs /\ sentinel[Self(i)].refs \in Nat /\ sentinel[Self(i)].refs > 0
<1>1. Self(i) \in Procs
  BY ShapeAssumption DEF TypeInv, TypeOK, Self
<1>2. IsFiniteSet(RefHolders(Self(i))) /\ i \in RefHolders(Self(i))
  BY FS_Subset, FiniteAssumption DEF RefHolders
<1>3. Cardinality(RefHolders(Self(i))) \in Nat /\ Cardinality(RefHolders(Self(i))) # 0
  <2>1. Cardinality(RefHolders(Self(i))) \in Nat
    BY <1>2, FS_CardinalityType
  <2>2. Cardinality(RefHolders(Self(i))) = 0 => RefHolders(Self(i)) = {}
    BY <1>2, FS_EmptySet
  <2> QED BY <1>2, <2>1, <2>2
<1> QED BY <1>1, <1>3 DEF TypeInv, RefsCounted

(* The mutex of the registry keeps a second open of the process out.        *)
LEMMA MutexStep ==
  ASSUME TypeInv, [Next]_vars
  PROVE  MutexHeld'
<1>1. /\ pc \in [Instances -> Labels] /\ registry \in [Procs -> Instances \cup {None}]
      /\ \A i \in Instances : Self(i) \in Procs
      /\ DOMAIN sentinel = Procs
      /\ MutexHeld
  BY ShapeAssumption DEF TypeInv, TypeOK, Self
<1>2. CASE UNCHANGED vars
  BY <1>1, <1>2 DEF vars, sentinels, bounds, MutexHeld, At, Self
<1>3. ASSUME NEW i \in Instances, Quiet(i) PROVE MutexHeld'
  BY <1>1, <1>3, QuietStep DEF MutexHeld, At, Self
<1>4. ASSUME NEW i \in Instances, SeGet(i) PROVE MutexHeld'
  <2>1. registry[Self(i)] = None /\ UNCHANGED dep
    BY <1>4 DEF SeGet, bounds
  <2>2. \A j \in Instances : At(j, "se_lock") => Self(j) # Self(i)
    BY <1>1, <2>1, ShapeAssumption DEF MutexHeld
  <2>3. CASE sentinel[Self(i)].refs > 0
    <3>1. /\ pc' = [pc EXCEPT ![i] = "writer"] /\ UNCHANGED registry
          /\ sentinel' = [sentinel EXCEPT ![Self(i)].refs = @ + 1]
      BY <1>1, <1>4, <2>3 DEF SeGet, Goto, TypeInv, TypeOK
    <3> QED BY <1>1, <2>1, <2>2, <3>1 DEF MutexHeld, At, Self
  <2>4. CASE sentinel[Self(i)].refs = 0
    <3>1. /\ pc' = [pc EXCEPT ![i] = "se_lock"] /\ UNCHANGED sentinel
          /\ registry' = [registry EXCEPT ![Self(i)] = i]
      BY <1>1, <1>4, <2>4 DEF SeGet, Goto, TypeInv, TypeOK
    <3> QED BY <1>1, <2>1, <2>2, <2>4, <3>1 DEF MutexHeld, At, Self
  <2> QED BY <1>4, <2>3, <2>4 DEF SeGet
<1>5. ASSUME NEW i \in Instances, SeLock(i) PROVE MutexHeld'
  BY <1>1, <1>5, ShapeAssumption DEF MutexHeld, SeLock, At, Goto, Self, bounds
<1>6. ASSUME NEW i \in Instances, DrProc(i) PROVE MutexHeld'
  <2>1. /\ pc[i] = "dr_proc" /\ UNCHANGED <<registry, dep>>
        /\ pc'[i] \in {"dr_unlock", "dr_owner"}
        /\ \A j \in Instances : j # i => pc'[j] = pc[j]
        /\ \A q \in Procs : q # Self(i) => sentinel'[q] = sentinel[q]
    BY <1>1, <1>6 DEF DrProc, At, Goto, bounds
  <2>2. sentinel[Self(i)].refs > 0 /\ sentinel[Self(i)].refs \in Nat
    BY <2>1, RefsPositive DEF Referring
  <2>3. \A j \in Instances : At(j, "se_lock") => Self(j) # Self(i)
    BY <1>1, <2>2 DEF MutexHeld
  <2> QED BY <1>1, <2>1, <2>3 DEF MutexHeld, At, Self
<1>7. ASSUME NEW p \in Procs, Crash(p) PROVE MutexHeld'
  BY <1>1, <1>7 DEF MutexHeld, Crash, At, Self
<1> QED BY <1>2, <1>3, <1>4, <1>5, <1>6, <1>7, StepCases

(* The count of the references is the number of caches that hold one: a     *)
(* failing open, a drop and a crash each give back what they took, once.    *)
LEMMA RefsStep ==
  ASSUME TypeInv, [Next]_vars
  PROVE  RefsCounted'
<1>1. /\ pc \in [Instances -> Labels]
      /\ \A i \in Instances : Self(i) \in Procs
      /\ sentinel \in [Procs -> [inode : Inodes \cup {None}, refs : 0 .. Cardinality(Instances)]]
      /\ RefsCounted
  BY ShapeAssumption DEF TypeInv, TypeOK, Self
<1>2. \A p \in Procs : IsFiniteSet(RefHolders(p)) /\ Cardinality(RefHolders(p)) \in Nat
  BY FS_Subset, FiniteAssumption, FS_CardinalityType DEF RefHolders
<1>3. CASE UNCHANGED vars
  BY <1>1, <1>3 DEF vars, sentinels, bounds, RefsCounted, RefHolders, Self
<1>4. ASSUME NEW i \in Instances, Quiet(i) PROVE RefsCounted'
  <2>1. /\ \A j \in Instances : pc'[j] \in Referring <=> pc[j] \in Referring
        /\ UNCHANGED <<sentinel, dep>>
    BY <1>4, QuietStep
  <2>2. \A p \in Procs : RefHolders(p)' = RefHolders(p)
    BY <2>1 DEF RefHolders, Self
  <2> QED BY <1>1, <2>1, <2>2 DEF RefsCounted
<1>5. ASSUME NEW i \in Instances, SeGet(i) PROVE RefsCounted'
  <2>0. PICK s \in Procs : s = Self(i)
    BY <1>1
  <2>1. At(i, "se_get") /\ UNCHANGED dep
    BY <1>5, <2>0 DEF SeGet, bounds
  <2>2. CASE sentinel[s].refs > 0
    <3>1. /\ pc' = [pc EXCEPT ![i] = "writer"]
          /\ sentinel' = [sentinel EXCEPT ![s].refs = @ + 1]
      BY <1>1, <1>5, <2>0, <2>2 DEF SeGet, Goto
    <3>2. /\ RefHolders(s)' = RefHolders(s) \cup {i} /\ i \notin RefHolders(s)
          /\ \A p \in Procs : p # s => RefHolders(p)' = RefHolders(p)
      BY <1>1, <2>1, <3>1, <2>0 DEF RefHolders, Self, At, Referring, Recovering, Dropping, Probing
    <3>3. Cardinality(RefHolders(s) \cup {i}) = Cardinality(RefHolders(s)) + 1
      BY <1>1, <1>2, <3>2, FS_AddElement
    <3>4. /\ sentinel'[s].refs = sentinel[s].refs + 1
          /\ \A p \in Procs : p # s => sentinel'[p] = sentinel[p]
      BY <1>1, <3>1
    <3>5. ASSUME NEW p \in Procs PROVE sentinel'[p].refs = Cardinality(RefHolders(p)')
      <4>1. CASE p = s
        BY <1>1, <3>2, <3>3, <3>4, <4>1 DEF RefsCounted
      <4>2. CASE p # s
        BY <1>1, <3>2, <3>4, <4>2 DEF RefsCounted
      <4> QED BY <4>1, <4>2
    <3> QED BY <3>5 DEF RefsCounted
  <2>3. CASE sentinel[s].refs = 0
    <3>1. pc' = [pc EXCEPT ![i] = "se_lock"] /\ UNCHANGED sentinel
      BY <1>1, <1>5, <2>0, <2>3 DEF SeGet, Goto
    <3>2. \A p \in Procs : RefHolders(p)' = RefHolders(p)
      BY <1>1, <2>1, <3>1, <2>0 DEF RefHolders, Self, At, Referring, Recovering, Dropping, Probing
    <3> QED BY <1>1, <3>1, <3>2 DEF RefsCounted
  <2> QED BY <1>5, <2>0, <2>2, <2>3 DEF SeGet
<1>6. ASSUME NEW i \in Instances, SeLock(i) PROVE RefsCounted'
  <2>0. PICK s \in Procs : s = Self(i)
    BY <1>1
  <2>1. /\ At(i, "se_lock") /\ UNCHANGED dep
        /\ pc' = [pc EXCEPT ![i] = "writer"]
        /\ sentinel'[s].refs = 1
        /\ \A p \in Procs : p # s => sentinel'[p] = sentinel[p]
    BY <1>1, <1>6, <2>0 DEF SeLock, Goto, bounds
  <2>2. sentinel[s].refs = 0
    BY <2>0, <2>1 DEF TypeInv, MutexHeld
  <2>3. RefHolders(s) = {}
    BY <1>1, <1>2, <2>2, FS_EmptySet DEF RefsCounted
  <2>4. /\ RefHolders(s)' = {i}
        /\ \A p \in Procs : p # s => RefHolders(p)' = RefHolders(p)
    BY <1>1, <2>1, <2>3, <2>0 DEF RefHolders, Self, At, Referring, Recovering, Dropping, Probing
  <2>5. Cardinality({i}) = 1
    BY FS_Singleton
  <2> QED BY <1>1, <2>1, <2>4, <2>5 DEF RefsCounted
<1>7. ASSUME NEW i \in Instances, DrProc(i) PROVE RefsCounted'
  <2>0. PICK s \in Procs : s = Self(i)
    BY <1>1
  <2>1. /\ pc[i] = "dr_proc" /\ UNCHANGED dep
        /\ pc'[i] \in {"dr_unlock", "dr_owner"}
        /\ \A j \in Instances : j # i => pc'[j] = pc[j]
        /\ \A q \in Procs : q # s => sentinel'[q] = sentinel[q]
    BY <1>1, <1>7, <2>0 DEF DrProc, At, Goto, bounds
  <2>2. sentinel'[s].refs = sentinel[s].refs - 1
    <3>1. CASE sentinel[s].refs = 1
      <4>1. sentinel' = [sentinel EXCEPT ![s] = [inode |-> None, refs |-> 0]]
        BY <1>7, <2>0, <3>1 DEF DrProc
      <4>2. sentinel'[s].refs = 0
        BY <1>1, <4>1
      <4> QED BY <3>1, <4>2
    <3>2. CASE sentinel[s].refs # 1
      BY <1>1, <1>7, <2>0, <3>2 DEF DrProc
    <3> QED BY <3>1, <3>2
  <2>3. /\ RefHolders(s)' = RefHolders(s) \ {i} /\ i \in RefHolders(s)
        /\ \A p \in Procs : p # s => RefHolders(p)' = RefHolders(p)
    BY <1>1, <2>0, <2>1 DEF RefHolders, Self, Referring, Recovering, Dropping, Probing
  <2>4. Cardinality(RefHolders(s) \ {i}) = Cardinality(RefHolders(s)) - 1
    BY <1>1, <1>2, <2>3, FS_RemoveElement
  <2>5. ASSUME NEW p \in Procs PROVE sentinel'[p].refs = Cardinality(RefHolders(p)')
    <3>1. CASE p = s
      BY <1>1, <2>2, <2>3, <2>4, <3>1 DEF RefsCounted
    <3>2. CASE p # s
      BY <1>1, <2>1, <2>3, <3>2 DEF RefsCounted
    <3> QED BY <3>1, <3>2
  <2> QED BY <2>5 DEF RefsCounted
<1>8. ASSUME NEW p \in Procs, Crash(p) PROVE RefsCounted'
  <2>1. /\ \A i \in Instances : pc'[i] = IF Self(i) = p THEN "closed" ELSE pc[i]
        /\ sentinel'[p].refs = 0 /\ UNCHANGED dep
        /\ \A q \in Procs : q # p => sentinel'[q] = sentinel[q]
    BY <1>1, <1>8 DEF Crash
  <2>2. RefHolders(p)' = {} /\ \A q \in Procs : q # p => RefHolders(q)' = RefHolders(q)
    BY <2>1 DEF RefHolders, Self, Referring, Recovering, Dropping, Probing
  <2> QED BY <1>1, <2>1, <2>2, FS_EmptySet DEF RefsCounted
<1> QED BY <1>3, <1>4, <1>5, <1>6, <1>7, <1>8, StepCases

(* Only an open makes a cache pending, and only MakeDir uses a name.        *)
LEMMA NamesKept ==
  ASSUME TypeInv, [Next]_vars,
         \A i \in Instances : ~Open(i) /\ ~MakeDir(i)
  PROVE  /\ \A d \in Dirs : dirs'[d].pid = dirs[d].pid
         /\ opens' = opens
         /\ Pending' \subseteq Pending
<1>1. /\ pc \in [Instances -> Labels]
      /\ dirs \in [Dirs -> [there : BOOLEAN, owner : BOOLEAN, work : BOOLEAN, pid : Procs \cup {None}]]
  BY DEF TypeInv, TypeOK
<1> USE <1>1 DEF At, Goto, Pending, Opening, Sweeping, Condemn, Remove, NoDir,
          staging, sentinels, rendezvous, bounds
<1>2. CASE UNCHANGED vars
  BY <1>2 DEF vars
<1>3. ASSUME NEW i \in Instances,
             (\E d \in Dirs : SwOpen(i, d)) \/ SwTry(i) \/ SwClose(i) \/ SwReap(i) \/ SwEnd(i)
      PROVE  /\ \A d \in Dirs : dirs'[d].pid = dirs[d].pid
             /\ opens' = opens /\ Pending' \subseteq Pending
  BY <1>3 DEF SwOpen, SwOpenAs, SwTry, SwClose, SwReap, SwEnd
<1>4. ASSUME NEW i \in Instances,
             OwOpen(i) \/ OwLock(i) \/ IndexFails(i) \/ SeGet(i) \/ SeLock(i) \/ AcquireWriter(i)
      PROVE  /\ \A d \in Dirs : dirs'[d].pid = dirs[d].pid
             /\ opens' = opens /\ Pending' \subseteq Pending
  BY <1>4 DEF OwOpen, OwOpenAs, OwLock, OwLockWith, IndexFails, SeGet, SeLock, AcquireWriter, AcquireAs
<1>5. ASSUME NEW i \in Instances,
             RvList(i) \/ (\E p \in Procs : RvOpen(i, p)) \/ RvTry(i) \/ RvUnlock(i) \/ RvUnlink(i) \/ RvEnd(i)
      PROVE  /\ \A d \in Dirs : dirs'[d].pid = dirs[d].pid
             /\ opens' = opens /\ Pending' \subseteq Pending
  BY <1>5 DEF RvList, RvOpen, RvTry, RvUnlock, RvUnlink, RvEnd
<1>6. ASSUME NEW i \in Instances,
             DrWriter(i) \/ DrDir(i) \/ DrProc(i) \/ DrUnlock(i) \/ DrUnlink(i) \/ DrOwner(i)
      PROVE  /\ \A d \in Dirs : dirs'[d].pid = dirs[d].pid
             /\ opens' = opens /\ Pending' \subseteq Pending
  BY <1>6 DEF DrWriter, DrDir, DrProc, DrUnlock, DrUnlockAs, DrUnlink, DrOwner
<1>7. ASSUME NEW i \in Instances, BeginFill(i) \/ EndFill(i) \/ Close(i)
      PROVE  /\ \A d \in Dirs : dirs'[d].pid = dirs[d].pid
             /\ opens' = opens /\ Pending' \subseteq Pending
  BY <1>7 DEF BeginFill, EndFill, Close
<1>8. ASSUME NEW p \in Procs, Crash(p)
      PROVE  /\ \A d \in Dirs : dirs'[d].pid = dirs[d].pid
             /\ opens' = opens /\ Pending' \subseteq Pending
  BY <1>8 DEF Crash
<1> QED BY <1>2, <1>3, <1>4, <1>5, <1>6, <1>7, <1>8 DEF Next, Step

LEMMA NamesStep ==
  ASSUME TypeInv, [Next]_vars
  PROVE  NamesLeft'
<1>1. PICK k \in Nat : /\ \A d \in Dirs : dirs[d].pid # None <=> d <= k
                       /\ k + Cardinality(Pending) <= opens
  BY DEF TypeInv, NamesLeft
<1>2. IsFiniteSet(Pending) /\ Cardinality(Pending) \in Nat
  BY FS_Subset, FiniteAssumption, FS_CardinalityType DEF Pending
<1>3. /\ opens \in Nat /\ pc \in [Instances -> Labels]
      /\ dirs \in [Dirs -> [there : BOOLEAN, owner : BOOLEAN, work : BOOLEAN, pid : Procs \cup {None}]]
      /\ \A i \in Instances : Self(i) \in Procs
  BY BoundsAssumption, ShapeAssumption DEF TypeInv, TypeOK, Self
<1>4. ASSUME NEW i \in Instances, Open(i) PROVE NamesLeft'
  <2>1. opens' = opens + 1 /\ UNCHANGED dirs /\ Pending' = Pending \cup {i}
    BY <1>3, <1>4 DEF Open, At, Goto, Pending, Opening
  <2>2. Cardinality(Pending \cup {i}) <= Cardinality(Pending) + 1
        /\ Cardinality(Pending \cup {i}) \in Nat
    <3>1. IsFiniteSet(Pending \cup {i})
      BY <1>2, FS_AddElement
    <3>2. Cardinality(Pending \cup {i}) \in Nat
      BY <3>1, FS_CardinalityType
    <3>3. \/ Cardinality(Pending \cup {i}) = Cardinality(Pending)
          \/ Cardinality(Pending \cup {i}) = Cardinality(Pending) + 1
      BY <1>2, FS_AddElement
    <3> QED BY <1>2, <3>2, <3>3
  <2> QED BY <1>1, <1>2, <1>3, <2>1, <2>2 DEF NamesLeft
<1>5. ASSUME NEW i \in Instances, MakeDir(i) PROVE NamesLeft'
  <2>1. /\ NextDir \in Dirs /\ dirs[NextDir].pid = None
        /\ \A e \in Dirs : e < NextDir => dirs[e].pid # None
    BY <1>5, NextDirFresh DEF MakeDir
  <2>2. /\ dirs' = [dirs EXCEPT ![NextDir] = [NoDir EXCEPT !.there = TRUE, !.pid = Self(i)]]
        /\ UNCHANGED opens /\ Pending' = Pending \ {i} /\ i \in Pending
    BY <1>3, <1>5 DEF MakeDir, At, Goto, Pending, Opening, Sweeping, bounds
  <2>3. Cardinality(Pending \ {i}) = Cardinality(Pending) - 1
    BY <1>2, <2>2, FS_RemoveElement
  <2>4. \A d \in Dirs : dirs'[d].pid # None <=> d <= k + 1
    <3>1. NextDir = k + 1
      <4>1. k \in Dirs \/ k = 0
        BY <1>1, <2>1, BoundsAssumption DEF Dirs
      <4> QED BY <1>1, <2>1, <4>1, BoundsAssumption DEF Dirs
    <3>2. dirs'[NextDir].pid = Self(i) /\ Self(i) # None
      BY <1>3, <2>1, <2>2, ShapeAssumption DEF NoDir
    <3>3. \A d \in Dirs : d # NextDir => dirs'[d] = dirs[d]
      BY <1>3, <2>2
    <3> QED BY <1>1, <3>1, <3>2, <3>3, BoundsAssumption DEF Dirs
  <2> QED BY <1>1, <1>2, <1>3, <2>2, <2>3, <2>4 DEF NamesLeft
<1>6. CASE \A i \in Instances : ~Open(i) /\ ~MakeDir(i)
  <2>1. /\ \A d \in Dirs : dirs'[d].pid = dirs[d].pid
        /\ opens' = opens /\ Pending' \subseteq Pending
    BY <1>6, NamesKept
  <2>2. Cardinality(Pending') <= Cardinality(Pending) /\ Cardinality(Pending') \in Nat
    BY <1>2, <2>1, FS_Subset, FS_CardinalityType
  <2> QED BY <1>1, <1>2, <1>3, <2>1, <2>2 DEF NamesLeft
<1> QED BY <1>4, <1>5, <1>6

(* The count of a sentinel stays within the number of caches.               *)
LEMMA SentinelType ==
  ASSUME RefsCounted', sentinel' \in [Procs -> [inode : Inodes \cup {None}, refs : Int]]
  PROVE  sentinel' \in [Procs -> [inode : Inodes \cup {None}, refs : 0 .. Cardinality(Instances)]]
<1>1. ASSUME NEW p \in Procs PROVE sentinel'[p].refs \in 0 .. Cardinality(Instances)
  <2>1. /\ IsFiniteSet(RefHolders(p)') /\ Cardinality(Instances) \in Nat
        /\ Cardinality(RefHolders(p)') <= Cardinality(Instances)
    BY FS_Subset, FiniteAssumption, FS_CardinalityType DEF RefHolders
  <2>2. Cardinality(RefHolders(p)') \in Nat
    BY <2>1, FS_CardinalityType
  <2> QED BY <2>1, <2>2 DEF RefsCounted
<1> QED BY <1>1

(* The fields of a directory that the steps set.                            *)
DirShape == [there : BOOLEAN, owner : BOOLEAN, work : BOOLEAN, pid : Procs \cup {None}]

LEMMA DirsType ==
  ASSUME NEW D \in [Dirs -> DirShape], NEW x, NEW b \in BOOLEAN
  PROVE  /\ [D EXCEPT ![x].owner = b] \in [Dirs -> DirShape]
         /\ [D EXCEPT ![x].work = b] \in [Dirs -> DirShape]
         /\ [D EXCEPT ![x].there = b] \in [Dirs -> DirShape]
<1>1. \A d \in Dirs : /\ [D[d] EXCEPT !.owner = b] \in DirShape
                      /\ [D[d] EXCEPT !.work = b] \in DirShape
                      /\ [D[d] EXCEPT !.there = b] \in DirShape
  BY DEF DirShape
<1> QED BY <1>1

LEMMA TypeStep ==
  ASSUME TypeInv, [Next]_vars
  PROVE  TypeOK'
<1>1. TypeOK /\ \A i \in Instances : Self(i) \in Procs
  BY ShapeAssumption DEF TypeInv, TypeOK, Self
<1>2. RefsCounted'
  BY RefsStep
<1>3. ASSUME NEW i \in Instances, Open(i) PROVE TypeOK'
  BY <1>1, <1>3, BoundsAssumption DEF Open, TypeOK, Goto, Labels, Debris, There, sentinels, rendezvous
<1>4. ASSUME NEW i \in Instances, NEW d \in Dirs, SwOpen(i, d) PROVE TypeOK'
  BY <1>1, <1>4 DEF SwOpen, SwOpenAs, Condemn, Examine, TypeOK, Goto, Labels, Sweeping, sentinels, rendezvous, bounds
<1>5. ASSUME NEW i \in Instances, SwTry(i) \/ SwClose(i) \/ SwEnd(i) PROVE TypeOK'
  BY <1>1, <1>5 DEF SwTry, SwClose, SwEnd, Condemn, Leave, TypeOK, Goto, Labels, Sweeping, staging, sentinels, rendezvous, bounds
<1>6. ASSUME NEW i \in Instances, SwReap(i) PROVE TypeOK'
  BY <1>1, <1>6 DEF SwReap, Remove, NoDir, Leave, TypeOK, Goto, Labels, sentinels, rendezvous, bounds
<1>7. ASSUME NEW i \in Instances, MakeDir(i) PROVE TypeOK'
  <2>1. NextDir \in Dirs
    BY <1>7, NextDirFresh DEF MakeDir
  <2> QED BY <1>1, <1>7, <2>1 DEF MakeDir, NoDir, TypeOK, Goto, Labels, sentinels, rendezvous, bounds
<1>8. ASSUME NEW i \in Instances, OwOpen(i) PROVE TypeOK'
  <2>1. dirs' \in [Dirs -> [there : BOOLEAN, owner : BOOLEAN, work : BOOLEAN, pid : Procs \cup {None}]]
    <3>1. dirs \in [Dirs -> DirShape]
      BY <1>1 DEF TypeOK, DirShape
    <3>2. dirs' = [dirs EXCEPT ![dir[i]].owner = TRUE] \/ dirs' = dirs
      BY <1>8 DEF OwOpen, OwOpenAs
    <3>3. dirs' \in [Dirs -> DirShape]
      <4>1. CASE dirs' = dirs
        BY <3>1, <4>1
      <4>2. CASE dirs' = [dirs EXCEPT ![dir[i]].owner = TRUE]
        BY <3>1, <4>2, DirsType
      <4> QED BY <3>2, <4>1, <4>2
    <3> QED BY <3>3 DEF DirShape
  <2>2. dir' \in [Instances -> Dirs \cup {None}] /\ pc' \in [Instances -> Labels]
    BY <1>1, <1>8 DEF OwOpen, OwOpenAs, TypeOK, Goto, Labels
  <2> QED BY <1>1, <1>8, <2>1, <2>2 DEF OwOpen, OwOpenAs, TypeOK, sentinels, rendezvous, bounds
<1>9. ASSUME NEW i \in Instances, IndexFails(i) \/ AcquireWriter(i) \/ RvList(i) PROVE TypeOK'
  <2>1. CASE IndexFails(i)
    BY <1>1, <2>1 DEF IndexFails, TypeOK, Goto, Labels, staging, sentinels, rendezvous, bounds
  <2>2. CASE AcquireWriter(i)
    <3>1. writer' \in BOOLEAN /\ pc' \in [Instances -> Labels]
      BY <1>1, <2>2 DEF AcquireWriter, AcquireAs, TypeOK, Goto, Labels
    <3> QED BY <1>1, <2>2, <3>1 DEF AcquireWriter, AcquireAs, TypeOK, staging, sentinels, bounds
  <2>3. CASE RvList(i)
    <3>1. todo' \in [Instances -> SUBSET (Dirs \cup Procs)] /\ pc' \in [Instances -> Labels]
      BY <1>1, <2>3 DEF RvList, TypeOK, Goto, Labels
    <3> QED BY <1>1, <2>3, <3>1 DEF RvList, TypeOK, staging, sentinels, rendezvous, bounds
  <2> QED BY <1>9, <2>1, <2>2, <2>3
<1>10. ASSUME NEW i \in Instances, OwLock(i) PROVE TypeOK'
  <2>1. dir[i] \in Dirs
    BY <1>10 DEF OwLock, OwLockWith, At, TypeInv, DirMade, Marking
  <2> QED BY <1>1, <1>10, <2>1 DEF OwLock, OwLockWith, TypeOK, Goto, Labels, sentinels, rendezvous, bounds
<1>11. ASSUME NEW i \in Instances, SeGet(i) PROVE TypeOK'
  <2>1. path[Self(i)] = None => FreshInode \in Inodes
    BY <1>1, FreshInodeType
  <2>2. sentinel' \in [Procs -> [inode : Inodes \cup {None}, refs : Int]]
    <3>1. \A p \in Procs : sentinel[p] \in [inode : Inodes \cup {None}, refs : Int]
      BY <1>1 DEF TypeOK
    <3>2. \/ sentinel' = [sentinel EXCEPT ![Self(i)].refs = @ + 1]
          \/ sentinel' = sentinel
      BY <1>11 DEF SeGet
    <3>3. DOMAIN sentinel = Procs /\ sentinel = [p \in Procs |-> sentinel[p]]
      BY <1>1 DEF TypeOK
    <3> QED BY <1>1, <3>1, <3>2, <3>3
  <2>3. sentinel' \in [Procs -> [inode : Inodes \cup {None}, refs : 0 .. Cardinality(Instances)]]
    BY <1>2, <2>2, SentinelType
  <2>4. /\ path' \in [Procs -> Inodes \cup {None}]
        /\ fd' \in [Instances -> Inodes \cup {None}]
        /\ registry' \in [Procs -> Instances \cup {None}]
    <3> DEFINE n == IF path[Self(i)] = None THEN FreshInode ELSE path[Self(i)]
    <3>1. n \in Inodes
      BY <1>1, <2>1 DEF TypeOK
    <3>2. \/ UNCHANGED <<path, registry, fd>>
          \/ /\ registry' = [registry EXCEPT ![Self(i)] = i]
             /\ path' = [path EXCEPT ![Self(i)] = n] /\ fd' = [fd EXCEPT ![i] = n]
      BY <1>11 DEF SeGet
    <3> HIDE DEF n
    <3>3. CASE UNCHANGED <<path, registry, fd>>
      BY <1>1, <3>3 DEF TypeOK
    <3>4. CASE /\ registry' = [registry EXCEPT ![Self(i)] = i]
               /\ path' = [path EXCEPT ![Self(i)] = n] /\ fd' = [fd EXCEPT ![i] = n]
      BY <1>1, <3>1, <3>4 DEF TypeOK
    <3> QED BY <3>2, <3>3, <3>4
  <2>5. pc' \in [Instances -> Labels]
    BY <1>1, <1>11 DEF SeGet, TypeOK, Goto, Labels
  <2> QED BY <1>1, <1>11, <2>3, <2>4, <2>5 DEF SeGet, TypeOK, staging, rendezvous, bounds
<1>12. ASSUME NEW i \in Instances, SeLock(i) PROVE TypeOK'
  <2>1. sentinel' \in [Procs -> [inode : Inodes \cup {None}, refs : Int]]
    BY <1>1, <1>12 DEF SeLock, TypeOK
  <2>2. sentinel' \in [Procs -> [inode : Inodes \cup {None}, refs : 0 .. Cardinality(Instances)]]
    BY <1>2, <2>1, SentinelType
  <2> QED BY <1>1, <1>12, <2>2 DEF SeLock, TypeOK, Goto, Labels, staging, rendezvous, bounds
<1>13. ASSUME NEW i \in Instances, NEW p \in Procs, RvOpen(i, p) PROVE TypeOK'
  BY <1>1, <1>13 DEF RvOpen, Examine, TypeOK, Goto, Labels, Probing, staging, rendezvous, bounds
<1>14. ASSUME NEW i \in Instances, RvTry(i) \/ RvUnlock(i) PROVE TypeOK'
  <2>1. /\ flock' \in [Inodes -> Procs \cup Instances \cup {None}]
        /\ fd' \in [Instances -> Inodes \cup {None}]
    BY <1>1, <1>14 DEF RvTry, RvUnlock, TypeOK
  <2>2. at' \in [Instances -> Dirs \cup Procs \cup {None}] /\ pc' \in [Instances -> Labels]
    BY <1>1, <1>14 DEF RvTry, RvUnlock, TypeOK, Leave, Goto, Labels, Probing
  <2> QED BY <1>1, <1>14, <2>1, <2>2 DEF RvTry, RvUnlock, TypeOK, staging, rendezvous, bounds
<1>15. ASSUME NEW i \in Instances, RvUnlink(i) \/ RvEnd(i) PROVE TypeOK'
  <2>1. CASE RvUnlink(i)
    BY <1>1, <2>1 DEF RvUnlink, Leave, TypeOK, Goto, Labels, staging, rendezvous, bounds
  <2>2. CASE RvEnd(i)
    BY <1>1, <2>2 DEF RvEnd, TypeOK, Goto, Labels, staging, sentinels, rendezvous, bounds
  <2> QED BY <1>15, <2>1, <2>2
<1>16. ASSUME NEW i \in Instances, BeginFill(i) PROVE TypeOK'
  <2>1. dirs' \in [Dirs -> [there : BOOLEAN, owner : BOOLEAN, work : BOOLEAN, pid : Procs \cup {None}]]
    <3> DEFINE there == [dirs EXCEPT ![dir[i]].there = TRUE]
    <3>1. dirs \in [Dirs -> DirShape]
      BY <1>1 DEF TypeOK, DirShape
    <3>2. dirs' = [there EXCEPT ![dir[i]].work = TRUE]
      BY <1>16 DEF BeginFill
    <3>3. there \in [Dirs -> DirShape]
      BY <3>1, DirsType
    <3> HIDE DEF there
    <3> QED BY <3>2, <3>3, DirsType DEF DirShape
  <2>2. fills' \in 0 .. MaxFills /\ filling' \in [Instances -> BOOLEAN]
    BY <1>1, <1>16, BoundsAssumption DEF BeginFill, TypeOK
  <2> QED BY <1>1, <1>16, <2>1, <2>2 DEF BeginFill, TypeOK, sentinels, rendezvous
<1>17. ASSUME NEW i \in Instances, EndFill(i) PROVE TypeOK'
  <2>1. dirs' \in [Dirs -> [there : BOOLEAN, owner : BOOLEAN, work : BOOLEAN, pid : Procs \cup {None}]]
    <3>1. dirs \in [Dirs -> DirShape]
      BY <1>1 DEF TypeOK, DirShape
    <3>2. dirs' = [dirs EXCEPT ![dir[i]].work = FALSE]
      BY <1>17 DEF EndFill
    <3> QED BY <3>1, <3>2, DirsType DEF DirShape
  <2>2. filling' \in [Instances -> BOOLEAN]
    BY <1>1, <1>17 DEF EndFill, TypeOK
  <2> QED BY <1>1, <1>17, <2>1, <2>2 DEF EndFill, TypeOK, sentinels, rendezvous, bounds
<1>18. ASSUME NEW i \in Instances, Close(i) \/ DrWriter(i) PROVE TypeOK'
  BY <1>1, <1>18 DEF Close, DrWriter, TypeOK, Goto, Labels, staging, sentinels, rendezvous, bounds
<1>19. ASSUME NEW i \in Instances, DrDir(i) PROVE TypeOK'
  BY <1>1, <1>19 DEF DrDir, Remove, NoDir, TypeOK, Goto, Labels, sentinels, rendezvous, bounds
<1>20. ASSUME NEW i \in Instances, DrProc(i) PROVE TypeOK'
  <2>1. sentinel' \in [Procs -> [inode : Inodes \cup {None}, refs : Int]]
    BY <1>1, <1>20 DEF DrProc, TypeOK
  <2>2. sentinel' \in [Procs -> [inode : Inodes \cup {None}, refs : 0 .. Cardinality(Instances)]]
    BY <1>2, <2>1, SentinelType
  <2> QED BY <1>1, <1>20, <2>2 DEF DrProc, TypeOK, Goto, Labels, staging, rendezvous, bounds
<1>21. ASSUME NEW i \in Instances, DrUnlock(i) \/ DrUnlink(i) \/ DrOwner(i) PROVE TypeOK'
  BY <1>1, <1>21 DEF DrUnlock, DrUnlockAs, DrUnlink, DrOwner, TypeOK, Goto, Labels, staging, sentinels, rendezvous, bounds
<1>22. ASSUME NEW p \in Procs, Crash(p) PROVE TypeOK'
  <2>1. sentinel' \in [Procs -> [inode : Inodes \cup {None}, refs : 0 .. Cardinality(Instances)]]
    <3>1. sentinel' \in [Procs -> [inode : Inodes \cup {None}, refs : Int]]
      BY <1>1, <1>22 DEF Crash, TypeOK
    <3> QED BY <1>2, <3>1, SentinelType
  <2>2. /\ pc' \in [Instances -> Labels] /\ todo' \in [Instances -> SUBSET (Dirs \cup Procs)]
        /\ at' \in [Instances -> Dirs \cup Procs \cup {None}]
    BY <1>1, <1>22 DEF Crash, TypeOK, Labels
  <2>3. /\ fd' \in [Instances -> Inodes \cup {None}] /\ dir' \in [Instances -> Dirs \cup {None}]
        /\ filling' \in [Instances -> BOOLEAN]
    BY <1>1, <1>22 DEF Crash, TypeOK
  <2>4. /\ flock' \in [Inodes -> Procs \cup Instances \cup {None}]
        /\ registry' \in [Procs -> Instances \cup {None}]
        /\ owned' \subseteq Dirs
    BY <1>1, <1>22 DEF Crash, TypeOK
  <2>5. crashes' \in 0 .. MaxCrashes /\ dead' \in [Instances -> SUBSET Dirs]
    BY <1>1, <1>22, BoundsAssumption DEF Crash, TypeOK
  <2>6. abandoned' \in BOOLEAN
    BY <1>22 DEF Crash
  <2> QED BY <1>1, <1>22, <2>1, <2>2, <2>3, <2>4, <2>5, <2>6 DEF Crash, TypeOK
<1>23. CASE UNCHANGED vars
  BY <1>1, <1>23 DEF vars, TypeOK, staging, sentinels, rendezvous, bounds
<1> QED BY <1>3, <1>4, <1>5, <1>6, <1>7, <1>8, <1>9, <1>10, <1>11, <1>12, <1>13, <1>14, <1>15,
           <1>16, <1>17, <1>18, <1>19, <1>20, <1>21, <1>22, <1>23 DEF Next, Step

LEMMA DirMadeStep ==
  ASSUME TypeInv, [Next]_vars
  PROVE  DirMade'
<1>1. /\ pc \in [Instances -> Labels] /\ dir \in [Instances -> Dirs \cup {None}] /\ DirMade
  BY DEF TypeInv, TypeOK
<1> USE <1>1 DEF At, Goto, DirMade, Marking, Condemn
<1>2. ASSUME NEW i \in Instances, MakeDir(i) PROVE DirMade'
  <2>1. NextDir \in Dirs
    BY <1>2, NextDirFresh DEF MakeDir
  <2> QED BY <1>2, <2>1 DEF MakeDir
<1>3. ASSUME NEW i \in Instances, OwOpen(i) \/ OwLock(i) PROVE DirMade'
  BY <1>3 DEF OwOpen, OwOpenAs, OwLock, OwLockWith
<1>4. ASSUME NEW i \in Instances,
             Open(i) \/ (\E d \in Dirs : SwOpen(i, d)) \/ SwTry(i) \/ SwClose(i) \/ SwReap(i) \/ SwEnd(i)
      PROVE  DirMade'
  BY <1>4 DEF Open, SwOpen, SwOpenAs, SwTry, SwClose, SwReap, SwEnd
<1>5. ASSUME NEW i \in Instances,
             IndexFails(i) \/ SeGet(i) \/ SeLock(i) \/ AcquireWriter(i) \/ RvList(i)
             \/ (\E p \in Procs : RvOpen(i, p)) \/ RvTry(i) \/ RvUnlock(i) \/ RvUnlink(i) \/ RvEnd(i)
      PROVE  DirMade'
  BY <1>5 DEF IndexFails, SeGet, SeLock, AcquireWriter, AcquireAs, RvList, RvOpen, RvTry, RvUnlock, RvUnlink, RvEnd
<1>6. ASSUME NEW i \in Instances,
             BeginFill(i) \/ EndFill(i) \/ Close(i) \/ DrWriter(i) \/ DrDir(i) \/ DrProc(i)
             \/ DrUnlock(i) \/ DrUnlink(i) \/ DrOwner(i)
      PROVE  DirMade'
  BY <1>6 DEF BeginFill, EndFill, Close, DrWriter, DrDir, DrProc, DrUnlock, DrUnlockAs, DrUnlink, DrOwner
<1>7. ASSUME NEW p \in Procs, Crash(p) PROVE DirMade'
  BY <1>7 DEF Crash
<1>8. CASE UNCHANGED vars
  BY <1>8 DEF vars
<1> QED BY <1>2, <1>3, <1>4, <1>5, <1>6, <1>7, <1>8 DEF Next, Step

(* Type correctness of the threads, the directories and the sentinels of    *)
(* open_with_options, for every deployment: a directory name and an inode   *)
(* are left whenever one is taken, and the references of CacheProcess never *)
(* go below zero or above the number of caches.                             *)
LEMMA TypeInvariant == Spec => []TypeInv
<1>1. Init => TypeInv
  <2> SUFFICES ASSUME Init PROVE TypeInv
    OBVIOUS
  <2>1. Cardinality(Instances) \in Nat
    BY FiniteAssumption, FS_CardinalityType
  <2>2. TypeOK
    <3>1. /\ dirs \in [Dirs -> [there : BOOLEAN, owner : BOOLEAN, work : BOOLEAN,
                                pid : Procs \cup {None}]]
          /\ sentinel \in [Procs -> [inode : Inodes \cup {None}, refs : 0 .. Cardinality(Instances)]]
      BY <2>1 DEF Init, NoDir
    <3>2. pc \in [Instances -> Labels] /\ filling \in [Instances -> BOOLEAN]
      BY DEF Init, Labels
    <3>3. opens \in 0 .. MaxOpens /\ fills \in 0 .. MaxFills /\ crashes \in 0 .. MaxCrashes
      BY BoundsAssumption DEF Init
    <3> QED BY <3>1, <3>2, <3>3 DEF Init, TypeOK
  <2>3. MutexHeld /\ DirMade
    BY DEF Init, MutexHeld, DirMade, Marking, At
  <2>4. RefsCounted
    <3>1. \A p \in Procs : RefHolders(p) = {}
      BY DEF Init, RefHolders, Referring, Recovering, Dropping, Probing
    <3> QED BY <3>1, FS_EmptySet DEF RefsCounted, Init
  <2>5. NamesLeft
    <3>1. Pending = {}
      BY DEF Init, Pending, Opening, Sweeping
    <3>2. Cardinality(Pending) = 0
      BY <3>1, FS_EmptySet
    <3>3. \A d \in Dirs : dirs[d].pid # None <=> d <= 0
      BY BoundsAssumption DEF Init, NoDir, Dirs
    <3> QED BY <3>2, <3>3 DEF Init, NamesLeft
  <2> QED BY <2>2, <2>3, <2>4, <2>5 DEF TypeInv
<1>2. TypeInv /\ [Next]_vars => TypeInv'
  BY TypeStep, MutexStep, RefsStep, NamesStep, DirMadeStep DEF TypeInv
<1> QED BY <1>1, <1>2, PTL DEF Spec

(* Type correctness, for any finite number of processes and caches.         *)
THEOREM TypeCorrect == Spec => []TypeOK
<1>1. TypeInv => TypeOK
  BY DEF TypeInv
<1> QED BY <1>1, TypeInvariant, PTL

-----------------------------------------------------------------------------
(* SharedSingleWriter.                                                     *)

(* Only acquire_writer_rendezvous, the release in the drop and a crash      *)
(* change who is the writer.                                                *)
LEMMA WritersKept ==
  ASSUME TypeOK, [Next]_vars,
         \A i \in Instances : ~AcquireWriter(i) /\ ~DrWriter(i),
         \A p \in Procs : ~Crash(p)
  PROVE  /\ \A j \in Instances : HoldsWriter(j)' <=> HoldsWriter(j)
         /\ UNCHANGED <<writer, abandoned>>
<1> DEFINE Kept == /\ \A j \in Instances : HoldsWriter(j)' <=> HoldsWriter(j)
                   /\ UNCHANGED <<writer, abandoned>>
<1>1. pc \in [Instances -> Labels]
  BY DEF TypeOK
<1> USE <1>1 DEF At, Goto, HoldsWriter, Condemn, staging, sentinels, rendezvous, bounds
<1>2. CASE UNCHANGED vars
  BY <1>2 DEF vars
<1>3. ASSUME NEW i \in Instances,
             Open(i) \/ (\E d \in Dirs : SwOpen(i, d)) \/ SwTry(i) \/ SwClose(i) \/ SwReap(i) \/ SwEnd(i)
      PROVE  Kept
  BY <1>3 DEF Open, SwOpen, SwOpenAs, SwTry, SwClose, SwReap, SwEnd
<1>4. ASSUME NEW i \in Instances,
             MakeDir(i) \/ OwOpen(i) \/ OwLock(i) \/ IndexFails(i) \/ SeGet(i) \/ SeLock(i)
      PROVE  Kept
  BY <1>4 DEF MakeDir, OwOpen, OwOpenAs, OwLock, OwLockWith, IndexFails, SeGet, SeLock
<1>5. ASSUME NEW i \in Instances,
             RvList(i) \/ (\E p \in Procs : RvOpen(i, p)) \/ RvTry(i) \/ RvUnlock(i) \/ RvUnlink(i) \/ RvEnd(i)
      PROVE  Kept
  BY <1>5 DEF RvList, RvOpen, RvTry, RvUnlock, RvUnlink, RvEnd
<1>6. ASSUME NEW i \in Instances,
             BeginFill(i) \/ EndFill(i) \/ Close(i) \/ DrDir(i) \/ DrProc(i)
             \/ DrUnlock(i) \/ DrUnlink(i) \/ DrOwner(i)
      PROVE  Kept
  BY <1>6 DEF BeginFill, EndFill, Close, DrDir, DrProc, DrUnlock, DrUnlockAs, DrUnlink, DrOwner
<1> QED BY <1>2, <1>3, <1>4, <1>5, <1>6 DEF Next, Step

LEMMA WriterStep ==
  ASSUME TypeOK, WriterExclusive, [Next]_vars
  PROVE  WriterExclusive'
<1>1. pc \in [Instances -> Labels] /\ writer \in BOOLEAN /\ abandoned \in BOOLEAN
  BY DEF TypeOK
<1>2. ASSUME NEW i \in Instances, AcquireWriter(i) PROVE WriterExclusive'
  <2>1. /\ At(i, "writer") /\ UNCHANGED <<dep, abandoned>>
        /\ writer' = (writer \/ i \in dep.writers)
        /\ pc' = [pc EXCEPT ![i] = IF i \in dep.writers /\ writer THEN "dr_proc" ELSE "rv_list"]
    BY <1>2 DEF AcquireWriter, AcquireAs, Goto, bounds
  <2>2. /\ ~HoldsWriter(i)
        /\ \A j \in Instances : j # i => (HoldsWriter(j)' <=> HoldsWriter(j))
    BY <1>1, <2>1 DEF HoldsWriter, At
  <2>3. CASE i \in dep.writers /\ ~writer
    <3>1. HoldsWriter(i)' /\ writer'
      BY <1>1, <2>1, <2>3 DEF HoldsWriter
    <3>2. ~abandoned /\ \A j \in Instances : ~HoldsWriter(j)
      BY <2>3 DEF WriterExclusive
    <3> QED BY <2>1, <2>2, <3>1, <3>2, Zenon DEF WriterExclusive
  <2>4. CASE ~(i \in dep.writers /\ ~writer)
    <3>1. ~HoldsWriter(i)' /\ (writer' <=> writer)
      BY <1>1, <2>1, <2>4 DEF HoldsWriter
    <3> QED BY <2>1, <2>2, <3>1, Zenon DEF WriterExclusive
  <2> QED BY <2>3, <2>4
<1>3. ASSUME NEW i \in Instances, DrWriter(i) PROVE WriterExclusive'
  <2>1. /\ At(i, "dr_writer") /\ UNCHANGED <<dep, abandoned>>
        /\ writer' = (writer /\ i \notin dep.writers)
        /\ pc' = [pc EXCEPT ![i] = "dr_dir"]
    BY <1>3 DEF DrWriter, Goto, bounds
  <2>2. /\ HoldsWriter(i) <=> i \in dep.writers
        /\ ~HoldsWriter(i)'
        /\ \A j \in Instances : j # i => (HoldsWriter(j)' <=> HoldsWriter(j))
    BY <1>1, <2>1 DEF HoldsWriter, At
  <2>3. CASE i \in dep.writers
    <3>1. ~writer' /\ ~abandoned /\ \A j \in Instances : j # i => ~HoldsWriter(j)
      BY <2>1, <2>2, <2>3, Zenon DEF WriterExclusive
    <3> QED BY <2>1, <2>2, <3>1, Zenon DEF WriterExclusive
  <2>4. CASE i \notin dep.writers
    <3>1. (writer' <=> writer) /\ ~HoldsWriter(i)
      BY <2>1, <2>2, <2>4, Zenon
    <3> QED BY <2>1, <2>2, <3>1, Zenon DEF WriterExclusive
  <2> QED BY <2>3, <2>4
<1>4. ASSUME NEW p \in Procs, Crash(p) PROVE WriterExclusive'
  <2>1. /\ UNCHANGED <<dep, writer>>
        /\ \A i \in Instances : pc'[i] = IF Self(i) = p THEN "closed" ELSE pc[i]
        /\ abandoned' = (abandoned \/ \E i \in {i \in Instances : Self(i) = p} : HoldsWriter(i))
    BY <1>4, Zenon DEF Crash
  <2>2. \A i \in Instances : HoldsWriter(i)' <=> HoldsWriter(i) /\ Self(i) # p
    BY <2>1 DEF HoldsWriter
  <2>3. abandoned' <=> (abandoned \/ \E i \in Instances : Self(i) = p /\ HoldsWriter(i))
    BY <2>1
  <2> QED BY <2>1, <2>2, <2>3, Zenon DEF WriterExclusive
<1>5. CASE /\ \A i \in Instances : ~AcquireWriter(i) /\ ~DrWriter(i)
           /\ \A p \in Procs : ~Crash(p)
  <2>1. /\ \A j \in Instances : HoldsWriter(j)' <=> HoldsWriter(j)
        /\ writer' = writer /\ abandoned' = abandoned
    BY <1>5, WritersKept
  <2> QED BY <2>1, Zenon DEF WriterExclusive
<1> QED BY <1>2, <1>3, <1>4, <1>5

(* SharedSingleWriter, for any number of processes and caches: the          *)
(* create_new of .writer in acquire_writer_rendezvous, the refusal and the  *)
(* release in the drop never let two writers in, and .writer is there       *)
(* exactly while one is or after one has crashed.                           *)
THEOREM WriterSafe == Spec => []WriterExclusive
<1>1. Init => WriterExclusive
  BY DEF Init, WriterExclusive, HoldsWriter
<1>2. TypeOK /\ WriterExclusive /\ [Next]_vars => WriterExclusive'
  BY WriterStep
<1> QED BY <1>1, <1>2, TypeCorrect, PTL DEF Spec

-----------------------------------------------------------------------------
(* The staging directories.                                                *)

(* The steps of a cache that has its directory locked and leaves the        *)
(* directories alone.                                                       *)
Inner(i) ==
  \/ IndexFails(i) \/ SeGet(i) \/ SeLock(i) \/ AcquireWriter(i) \/ RvList(i)
  \/ (\E p \in Procs : RvOpen(i, p))
  \/ RvTry(i) \/ RvUnlock(i) \/ RvUnlink(i) \/ RvEnd(i)
  \/ Close(i) \/ DrWriter(i) \/ DrProc(i) \/ DrUnlock(i) \/ DrUnlink(i)

LEMMA InnerStep ==
  ASSUME TypeOK, NEW i \in Instances, Inner(i)
  PROVE  /\ UNCHANGED <<dir, filling, dirs, owned, early, dead>>
         /\ \A j \in Instances : j # i => pc'[j] = pc[j] /\ at'[j] = at[j] /\ todo'[j] = todo[j]
         /\ pc[i] \in Locked /\ pc'[i] \in Locked
         /\ pc'[i] \in Living => pc[i] \in Living
         /\ filling[i] => pc[i] # "open"
<1>1. /\ pc \in [Instances -> Labels] /\ at \in [Instances -> Dirs \cup Procs \cup {None}]
      /\ todo \in [Instances -> SUBSET (Dirs \cup Procs)]
  BY DEF TypeOK
<1> USE <1>1 DEF At, Goto, Examine, Leave, Locked, Living, Recovering, Probing, Dropping, Leaving, staging
<1>2. CASE IndexFails(i) \/ SeGet(i) \/ SeLock(i) \/ AcquireWriter(i)
  BY <1>2 DEF IndexFails, SeGet, SeLock, AcquireWriter, AcquireAs
<1>3. CASE RvList(i) \/ (\E p \in Procs : RvOpen(i, p)) \/ RvTry(i)
  BY <1>3 DEF RvList, RvOpen, RvTry
<1>4. CASE RvUnlock(i) \/ RvUnlink(i) \/ RvEnd(i) \/ Close(i)
  BY <1>4 DEF RvUnlock, RvUnlink, RvEnd, Close
<1>5. CASE DrWriter(i) \/ DrProc(i) \/ DrUnlock(i) \/ DrUnlink(i)
  BY <1>5 DEF DrWriter, DrProc, DrUnlock, DrUnlockAs, DrUnlink
<1> QED BY <1>2, <1>3, <1>4, <1>5 DEF Inner

(* The steps by what they do to the directories.                            *)
LEMMA DirCases ==
  ASSUME [Next]_vars
  PROVE  \/ UNCHANGED vars
         \/ \E i \in Instances :
              \/ Open(i) \/ (\E d \in Dirs : SwOpen(i, d)) \/ SwTry(i) \/ SwClose(i) \/ SwReap(i)
              \/ SwEnd(i) \/ MakeDir(i) \/ OwOpen(i) \/ OwLock(i) \/ Inner(i)
              \/ BeginFill(i) \/ EndFill(i) \/ DrDir(i) \/ DrOwner(i)
         \/ \E p \in Procs : Crash(p)
  BY Zenon DEF Next, Step, Inner

(* What the three steps that set single fields leave alone.                 *)
LEMMA FieldsSet ==
  ASSUME TypeOK, NEW i \in Instances
  PROVE  /\ OwOpen(i) =>
              \A d \in Dirs : /\ dirs'[d].pid = dirs[d].pid
                              /\ dirs'[d].there = dirs[d].there /\ dirs'[d].work = dirs[d].work
                              /\ d # dir[i] => dirs'[d] = dirs[d]
                              /\ d = dir[i] => dirs' = dirs \/ dirs'[d].owner = TRUE
         /\ BeginFill(i) =>
              \A d \in Dirs : /\ dirs'[d].pid = dirs[d].pid /\ dirs'[d].owner = dirs[d].owner
                              /\ d # dir[i] => dirs'[d] = dirs[d]
                              /\ d = dir[i] => dirs'[d].work = TRUE
         /\ EndFill(i) =>
              \A d \in Dirs : /\ dirs'[d].pid = dirs[d].pid /\ dirs'[d].owner = dirs[d].owner
                              /\ dirs'[d].there = dirs[d].there
                              /\ d # dir[i] => dirs'[d] = dirs[d]
<1>1. dirs \in [Dirs -> DirShape]
  BY DEF TypeOK, DirShape
<1>2. ASSUME OwOpen(i), NEW d \in Dirs
      PROVE  /\ dirs'[d].pid = dirs[d].pid
             /\ dirs'[d].there = dirs[d].there /\ dirs'[d].work = dirs[d].work
             /\ d # dir[i] => dirs'[d] = dirs[d]
             /\ d = dir[i] => dirs' = dirs \/ dirs'[d].owner = TRUE
  <2>1. CASE dirs' = dirs
    BY <2>1
  <2>2. CASE dirs' = [dirs EXCEPT ![dir[i]].owner = TRUE]
    <3>1. dirs'[d] = IF d = dir[i] THEN [dirs[d] EXCEPT !.owner = TRUE] ELSE dirs[d]
      BY <1>1, <2>2
    <3> QED BY <1>1, <3>1 DEF DirShape
  <2> QED BY <1>2, <2>1, <2>2 DEF OwOpen, OwOpenAs
<1>3. ASSUME BeginFill(i), NEW d \in Dirs
      PROVE  /\ dirs'[d].pid = dirs[d].pid /\ dirs'[d].owner = dirs[d].owner
             /\ d # dir[i] => dirs'[d] = dirs[d]
             /\ d = dir[i] => dirs'[d].work = TRUE
  <2>1. dirs' = [dirs EXCEPT ![dir[i]].there = TRUE, ![dir[i]].work = TRUE]
    BY <1>3 DEF BeginFill
  <2>2. dirs'[d] = IF d = dir[i] THEN [dirs[d] EXCEPT !.there = TRUE, !.work = TRUE] ELSE dirs[d]
    BY <1>1, <2>1
  <2> QED BY <1>1, <2>2 DEF DirShape
<1>4. ASSUME EndFill(i), NEW d \in Dirs
      PROVE  /\ dirs'[d].pid = dirs[d].pid /\ dirs'[d].owner = dirs[d].owner
             /\ dirs'[d].there = dirs[d].there
             /\ d # dir[i] => dirs'[d] = dirs[d]
  <2>1. dirs' = [dirs EXCEPT ![dir[i]].work = FALSE]
    BY <1>4 DEF EndFill
  <2>2. dirs'[d] = IF d = dir[i] THEN [dirs[d] EXCEPT !.work = FALSE] ELSE dirs[d]
    BY <1>1, <2>1
  <2> QED BY <1>1, <2>2 DEF DirShape
<1> QED BY <1>2, <1>3, <1>4

LEMMA NamesUsedStep ==
  ASSUME TypeInv, FillInv, [Next]_vars
  PROVE  NamesUsed'
<1>1. /\ pc \in [Instances -> Labels] /\ at \in [Instances -> Dirs \cup Procs \cup {None}]
      /\ todo \in [Instances -> SUBSET (Dirs \cup Procs)]
      /\ dirs \in [Dirs -> DirShape]
      /\ \A i \in Instances : Self(i) \in Procs
      /\ None \notin Procs
      /\ NamesUsed
  BY ShapeAssumption DEF TypeInv, TypeOK, Self, DirShape, FillInv
<1> USE <1>1 DEF NamesUsed, At, Goto, Examine, Leave, Opening, Sweeping, Remove, NoDir, DirShape, Condemn
<1>2. CASE UNCHANGED vars
  BY <1>2 DEF vars, staging
<1>3. ASSUME NEW i \in Instances, Open(i) \/ SwEnd(i) PROVE NamesUsed'
  BY <1>3 DEF Open, SwEnd, There, staging
<1>4. ASSUME NEW i \in Instances, NEW d \in Dirs, SwOpen(i, d) PROVE NamesUsed'
  BY <1>4 DEF SwOpen, SwOpenAs
<1>5. ASSUME NEW i \in Instances, SwTry(i) \/ SwClose(i) PROVE NamesUsed'
  BY <1>5 DEF SwTry, SwClose, staging
<1>6. ASSUME NEW i \in Instances, SwReap(i) PROVE NamesUsed'
  BY <1>6 DEF SwReap
<1>7. ASSUME NEW i \in Instances, MakeDir(i) PROVE NamesUsed'
  BY <1>7 DEF MakeDir
<1>8. ASSUME NEW i \in Instances, OwOpen(i) \/ OwLock(i) PROVE NamesUsed'
  <2>1. CASE OwOpen(i)
    <3>1. \A d \in Dirs : dirs'[d].pid = dirs[d].pid /\ dirs'[d].there = dirs[d].there
      BY <2>1, FieldsSet DEF TypeInv
    <3>2. /\ UNCHANGED <<at, todo>>
          /\ \A j \in Instances : pc'[j] \in Opening => pc'[j] = pc[j]
      BY <2>1 DEF OwOpen, OwOpenAs
    <3> QED BY <3>1, <3>2
  <2>2. CASE OwLock(i)
    BY <2>2 DEF OwLock, OwLockWith
  <2> QED BY <1>8, <2>1, <2>2
<1>9. ASSUME NEW i \in Instances, Inner(i) PROVE NamesUsed'
  BY <1>9, InnerStep DEF TypeInv, Locked, Living, Recovering, Probing, Dropping, Leaving
<1>10. ASSUME NEW i \in Instances, BeginFill(i) \/ EndFill(i) PROVE NamesUsed'
  <2>1. \A d \in Dirs : dirs'[d].pid = dirs[d].pid /\ (dirs'[d].there => dirs[d].there \/ d = dir[i])
    <3>1. TypeOK
      BY DEF TypeInv
    <3>2. CASE BeginFill(i)
      BY <3>1, <3>2, FieldsSet
    <3>3. CASE EndFill(i)
      BY <3>1, <3>3, FieldsSet
    <3> QED BY <1>10, <3>2, <3>3
  <2>2. UNCHANGED <<at, todo, pc>> /\ pc[i] \in Marking \cup Locked
    BY <1>10 DEF BeginFill, EndFill, FillInv, FillsUp, Locked, Living
  <2>3. dirs[dir[i]].pid # None
    BY <2>2 DEF FillInv, OwnDir
  <2> QED BY <2>1, <2>2, <2>3
<1>11. ASSUME NEW i \in Instances, DrDir(i) \/ DrOwner(i) PROVE NamesUsed'
  <2>1. \A d \in Dirs : dirs'[d].pid = dirs[d].pid /\ (dirs'[d].there => dirs[d].there)
    BY <1>11 DEF DrDir, DrOwner
  <2>2. UNCHANGED <<at, todo>> /\ \A j \in Instances : pc'[j] \in Opening => pc'[j] = pc[j]
    BY <1>11 DEF DrDir, DrOwner
  <2> QED BY <2>1, <2>2
<1>12. ASSUME NEW p \in Procs, Crash(p) PROVE NamesUsed'
  BY <1>12 DEF Crash
<1> QED BY <1>2, <1>3, <1>4, <1>5, <1>6, <1>7, <1>8, <1>9, <1>10, <1>11, <1>12, DirCases

LEMMA OwnDirStep ==
  ASSUME TypeInv, FillInv, [Next]_vars
  PROVE  OwnDir'
<1>1. /\ pc \in [Instances -> Labels] /\ dir \in [Instances -> Dirs \cup {None}]
      /\ owned \subseteq Dirs /\ None \notin Dirs
      /\ dirs \in [Dirs -> DirShape]
      /\ \A i \in Instances : Self(i) \in Procs
      /\ None \notin Procs
      /\ OwnDir
  BY ShapeAssumption DEF TypeInv, TypeOK, FillInv, DirShape, Self
<1> USE <1>1 DEF OwnDir, At, Goto, Marking, Locked, Living, Recovering, Probing, Dropping, Leaving, Condemn
<1>2. CASE UNCHANGED vars
  BY <1>2 DEF vars, staging
<1>3. ASSUME NEW i \in Instances,
             Open(i) \/ (\E d \in Dirs : SwOpen(i, d)) \/ SwTry(i) \/ SwClose(i) \/ SwEnd(i)
      PROVE  OwnDir'
  <2>1. /\ UNCHANGED <<dir, dirs, owned>>
        /\ \A j \in Instances : j # i => pc'[j] = pc[j]
        /\ pc[i] \notin Marking \cup Locked /\ pc'[i] \notin Marking \cup Locked
    BY <1>3 DEF Open, SwOpen, SwOpenAs, SwTry, SwClose, SwEnd, staging
  <2> QED BY <2>1
<1>4. ASSUME NEW i \in Instances, SwReap(i) PROVE OwnDir'
  <2>1. \A d \in Dirs : dirs'[d].pid = dirs[d].pid
    BY <1>4 DEF SwReap, Remove, NoDir, DirShape
  <2> QED BY <1>4, <2>1 DEF SwReap
<1>5. ASSUME NEW i \in Instances, MakeDir(i) PROVE OwnDir'
  <2>1. NextDir \in Dirs /\ dirs[NextDir].pid = None
    BY <1>5, NextDirFresh DEF MakeDir
  <2>2. \A j \in Instances : dir[j] # NextDir
    BY <2>1
  <2>3. \A d \in Dirs : (d = NextDir \/ dirs[d].pid # None) => dirs'[d].pid # None
    BY <1>5, <2>1 DEF MakeDir, NoDir, DirShape
  <2>4. /\ pc[i] = "mkdir" /\ pc' = [pc EXCEPT ![i] = "ow_open"] /\ UNCHANGED owned
        /\ dir' = [dir EXCEPT ![i] = NextDir]
    BY <1>5 DEF MakeDir
  <2>5. \A d \in owned : \E j \in Instances : dir'[j] = d /\ pc'[j] \in Locked
    <3> SUFFICES ASSUME NEW d \in owned PROVE \E j \in Instances : dir'[j] = d /\ pc'[j] \in Locked
      OBVIOUS
    <3>1. PICK j \in Instances : dir[j] = d /\ pc[j] \in Locked
      OBVIOUS
    <3>2. j # i
      BY <2>4, <3>1
    <3> QED BY <2>4, <3>1, <3>2
  <2> QED BY <2>1, <2>2, <2>3, <2>4, <2>5
<1>6. ASSUME NEW i \in Instances, OwOpen(i) PROVE OwnDir'
  <2>1. \A d \in Dirs : dirs'[d].pid = dirs[d].pid
    BY <1>6, FieldsSet DEF TypeInv
  <2>2. dir[i] \notin owned
    BY <1>6 DEF OwOpen, OwOpenAs
  <2>3. /\ pc[i] = "ow_open" /\ UNCHANGED owned
        /\ \/ pc' = [pc EXCEPT ![i] = "ow_lock"] /\ UNCHANGED dir
           \/ pc' = [pc EXCEPT ![i] = "closed"] /\ dir' = [dir EXCEPT ![i] = None]
    BY <1>6 DEF OwOpen, OwOpenAs
  <2> QED BY <2>1, <2>2, <2>3
<1>7. ASSUME NEW i \in Instances, OwLock(i) PROVE OwnDir'
  <2>1. /\ pc[i] = "ow_lock" /\ pc' = [pc EXCEPT ![i] = "se_get"] /\ UNCHANGED <<dir, dirs>>
        /\ owned' = owned \cup {dir[i]}
    BY <1>7 DEF OwLock, OwLockWith
  <2> QED BY <2>1
<1>8. ASSUME NEW i \in Instances, Inner(i) PROVE OwnDir'
  <2>1. /\ UNCHANGED <<dir, dirs, owned>> /\ \A j \in Instances : j # i => pc'[j] = pc[j]
        /\ pc[i] \in Locked /\ pc'[i] \in Locked
    BY <1>8, InnerStep DEF TypeInv
  <2> QED BY <2>1
<1>9. ASSUME NEW i \in Instances, BeginFill(i) \/ EndFill(i) PROVE OwnDir'
  <2>1. \A d \in Dirs : dirs'[d].pid = dirs[d].pid
    BY <1>9, FieldsSet DEF TypeInv
  <2>2. UNCHANGED <<pc, dir, owned>>
    BY <1>9 DEF BeginFill, EndFill
  <2> QED BY <2>1, <2>2
<1>10. ASSUME NEW i \in Instances, DrDir(i) PROVE OwnDir'
  <2>1. \A d \in Dirs : dirs'[d].pid = dirs[d].pid
    BY <1>10 DEF DrDir, Remove, NoDir, DirShape
  <2> QED BY <1>10, <2>1 DEF DrDir
<1>11. ASSUME NEW i \in Instances, DrOwner(i) PROVE OwnDir'
  <2>1. /\ pc[i] = "dr_owner" /\ pc' = [pc EXCEPT ![i] = "closed"] /\ UNCHANGED dirs
        /\ dir' = [dir EXCEPT ![i] = None] /\ owned' = owned \ {dir[i]}
    BY <1>11 DEF DrOwner
  <2> QED BY <2>1
<1>12. ASSUME NEW p \in Procs, Crash(p) PROVE OwnDir'
  <2>1. /\ UNCHANGED dirs
        /\ \A i \in Instances : pc'[i] = IF Self(i) = p THEN "closed" ELSE pc[i]
        /\ \A i \in Instances : dir'[i] = IF Self(i) = p THEN None ELSE dir[i]
        /\ \A d : d \in owned' <=> d \in owned /\ \A i \in Instances : Self(i) = p => dir[i] # d
    BY <1>12 DEF Crash
  <2> QED BY <2>1
<1> QED BY <1>2, <1>3, <1>4, <1>5, <1>6, <1>7, <1>8, <1>9, <1>10, <1>11, <1>12, DirCases

(* A cache can lock .owner only while no probe holds it, and a probe gets   *)
(* it only while no cache does.                                             *)
LEMMA ProbeFreeStep ==
  ASSUME TypeInv, FillInv, [Next]_vars
  PROVE  ProbeFree'
<1>1. /\ pc \in [Instances -> Labels] /\ at \in [Instances -> Dirs \cup Procs \cup {None}]
      /\ dir \in [Instances -> Dirs \cup {None}]
      /\ ProbeFree
  BY DEF TypeInv, TypeOK, FillInv
<1> USE <1>1 DEF ProbeFree, At, Goto, Condemn, Examine, Leave
<1>2. CASE UNCHANGED vars
  BY <1>2 DEF vars, staging
<1>3. ASSUME NEW i \in Instances, Open(i) \/ (\E d \in Dirs : SwOpen(i, d)) \/ SwEnd(i) PROVE ProbeFree'
  BY <1>3 DEF Open, SwOpen, SwOpenAs, SwEnd, staging
<1>4. ASSUME NEW i \in Instances, SwTry(i) \/ SwClose(i) \/ SwReap(i) PROVE ProbeFree'
  BY <1>4 DEF SwTry, SwClose, SwReap, staging
<1>5. ASSUME NEW i \in Instances, MakeDir(i) \/ OwOpen(i) PROVE ProbeFree'
  BY <1>5 DEF MakeDir, OwOpen, OwOpenAs
<1>6. ASSUME NEW i \in Instances, OwLock(i) PROVE ProbeFree'
  BY <1>6 DEF OwLock, OwLockWith, Probed
<1>7. ASSUME NEW i \in Instances, Inner(i) PROVE ProbeFree'
  BY <1>7, InnerStep DEF TypeInv, Locked, Living, Recovering, Probing, Dropping, Leaving
<1>8. ASSUME NEW i \in Instances, BeginFill(i) \/ EndFill(i) \/ DrDir(i) \/ DrOwner(i) PROVE ProbeFree'
  BY <1>8 DEF BeginFill, EndFill, DrDir, DrOwner
<1>9. ASSUME NEW p \in Procs, Crash(p) PROVE ProbeFree'
  BY <1>9 DEF Crash
<1> QED BY <1>2, <1>3, <1>4, <1>5, <1>6, <1>7, <1>8, <1>9, DirCases

(* A sweep condemns the directory of a cache that is up only if it looked   *)
(* before the cache had locked .owner.                                      *)
LEMMA SparedStep ==
  ASSUME TypeInv, FillInv, [Next]_vars
  PROVE  Spared'
<1>1. /\ pc \in [Instances -> Labels] /\ dir \in [Instances -> Dirs \cup {None}]
      /\ at \in [Instances -> Dirs \cup Procs \cup {None}] /\ early \subseteq Instances
      /\ dirs \in [Dirs -> DirShape] /\ None \notin Dirs
      /\ NamesUsed /\ OwnDir /\ ProbeFree /\ Spared
  BY ShapeAssumption DEF TypeInv, TypeOK, FillInv, DirShape
<1>2. /\ \A i \in Instances : pc[i] \in Living => dir[i] \in owned
      /\ \A i \in Instances : pc[i] \in Marking \cup Living \cup Dropping => dir[i] \in Dirs
      /\ \A i, j \in Instances : dir[i] = dir[j] /\ dir[i] # None => i = j
  BY <1>1 DEF OwnDir, Locked
<1> USE <1>1, <1>2 DEF Spared, At, Goto, Examine, Leave, Marking, Living, Recovering, Probing
<1>3. CASE UNCHANGED vars
  BY <1>3 DEF vars, staging
<1>4. ASSUME NEW i \in Instances, Open(i) \/ SwTry(i) \/ SwEnd(i) PROVE Spared'
  <2>1. /\ UNCHANGED <<dir, dirs>> /\ pc[i] \notin Marking \cup Living /\ early \ {i} \subseteq early'
        /\ pc'[i] \notin Marking \cup Living \cup {"sw_reap"}
        /\ \A j \in Instances : j # i => pc'[j] = pc[j] /\ at'[j] = at[j]
    BY <1>4 DEF Open, SwTry, SwEnd, staging
  <2> QED BY <2>1
<1>5. ASSUME NEW i \in Instances, NEW d \in Dirs, SwOpen(i, d) PROVE Spared'
  <2>1. /\ UNCHANGED <<dir, dirs>> /\ At(i, "sweep")
        /\ \A j \in Instances : j # i => pc'[j] = pc[j] /\ at'[j] = at[j]
    BY <1>5 DEF SwOpen, SwOpenAs, Condemn
  <2>2. CASE UNCHANGED early /\ pc'[i] \in {"sweep", "sw_try"}
    BY <2>1, <2>2
  <2>3. CASE ~dirs[d].owner /\ Condemn(i, d) /\ at'[i] = d
    <3>1. /\ pc'[i] = "sw_reap" /\ early \subseteq early'
          /\ \A j \in Instances : dir[j] = d /\ pc[j] \in Marking => j \in early'
      BY <2>3 DEF Condemn
    <3> QED BY <2>1, <2>3, <3>1
  <2> QED BY <1>5, <2>2, <2>3 DEF SwOpen, SwOpenAs, Condemn
<1>6. ASSUME NEW i \in Instances, SwClose(i) PROVE Spared'
  <2>1. /\ pc[i] = "sw_held" /\ UNCHANGED <<dir, dirs, at>> /\ pc' = [pc EXCEPT ![i] = "sw_reap"]
        /\ early \subseteq early'
        /\ \A j \in Instances : dir[j] = at[i] /\ pc[j] \in Marking => j \in early'
    BY <1>6 DEF SwClose, Condemn
  <2>2. at[i] \notin owned
    BY <2>1 DEF ProbeFree
  <2> QED BY <2>1, <2>2
<1>7. ASSUME NEW i \in Instances, SwReap(i) PROVE Spared'
  <2>1. /\ At(i, "sw_reap") /\ UNCHANGED <<dir, early>>
        /\ \A d \in Dirs : d # at[i] => dirs'[d] = dirs[d]
        /\ \A j \in Instances : j # i => pc'[j] = pc[j] /\ at'[j] = at[j]
        /\ pc'[i] = "sweep"
    BY <1>7 DEF SwReap, Remove
  <2> QED BY <2>1
<1>8. ASSUME NEW i \in Instances, MakeDir(i) PROVE Spared'
  <2>1. NextDir \in Dirs /\ dirs[NextDir].pid = None
    BY <1>8, NextDirFresh DEF MakeDir
  <2>2. /\ At(i, "mkdir") /\ UNCHANGED <<early, at>> /\ dir' = [dir EXCEPT ![i] = NextDir]
        /\ \A d \in Dirs : d # NextDir => dirs'[d] = dirs[d]
        /\ pc' = [pc EXCEPT ![i] = "ow_open"]
    BY <1>8 DEF MakeDir
  <2>3. \A j \in Instances : At(j, "sw_reap") => at[j] # NextDir
    BY <2>1 DEF NamesUsed, Sweeping
  <2>4. \A j \in Instances : pc[j] \in Marking \cup Living => dir[j] # NextDir
    BY <2>1 DEF OwnDir, Locked
  <2> QED BY <2>1, <2>2, <2>3, <2>4
<1>9. ASSUME NEW i \in Instances, OwOpen(i) PROVE Spared'
  <2>1. \A d \in Dirs : (d # dir[i] => dirs'[d] = dirs[d])
    BY <1>9, FieldsSet DEF TypeInv
  <2>2. /\ pc[i] = "ow_open" /\ UNCHANGED <<early, at>>
        /\ \/ pc' = [pc EXCEPT ![i] = "ow_lock"] /\ UNCHANGED dir
              /\ dirs' = [dirs EXCEPT ![dir[i]].owner = TRUE]
           \/ pc' = [pc EXCEPT ![i] = "closed"] /\ dir' = [dir EXCEPT ![i] = None]
    BY <1>9 DEF OwOpen, OwOpenAs
  <2>3. pc'[i] = "ow_lock" => dirs'[dir[i]].owner
    BY <2>2 DEF DirShape
  <2> QED BY <2>1, <2>2, <2>3
<1>10. ASSUME NEW i \in Instances, OwLock(i) PROVE Spared'
  BY <1>10 DEF OwLock, OwLockWith
<1>11. ASSUME NEW i \in Instances, Inner(i) PROVE Spared'
  <2>1. /\ UNCHANGED <<dir, dirs, early>>
        /\ \A j \in Instances : j # i => pc'[j] = pc[j] /\ at'[j] = at[j]
        /\ pc'[i] \in Living => pc[i] \in Living
        /\ pc'[i] \notin Marking \cup {"sw_reap"}
    BY <1>11, InnerStep DEF TypeInv, Locked, Dropping, Leaving
  <2> QED BY <2>1
<1>12. ASSUME NEW i \in Instances, BeginFill(i) \/ EndFill(i) PROVE Spared'
  <2>1. \A d \in Dirs : dirs'[d].owner = dirs[d].owner
    BY <1>12, FieldsSet DEF TypeInv
  <2>2. UNCHANGED <<pc, dir, at, early>>
    BY <1>12 DEF BeginFill, EndFill
  <2> QED BY <2>1, <2>2
<1>13. ASSUME NEW i \in Instances, DrDir(i) PROVE Spared'
  <2>1. /\ pc[i] = "dr_dir" /\ pc' = [pc EXCEPT ![i] = "dr_proc"] /\ UNCHANGED <<dir, at, early>>
        /\ \A d \in Dirs : d # dir[i] => dirs'[d] = dirs[d]
    BY <1>13 DEF DrDir, Remove
  <2> QED BY <2>1 DEF Dropping
<1>14. ASSUME NEW i \in Instances, DrOwner(i) PROVE Spared'
  BY <1>14 DEF DrOwner
<1>15. ASSUME NEW p \in Procs, Crash(p) PROVE Spared'
  <2>1. /\ UNCHANGED <<dirs, early>>
        /\ \A i \in Instances : pc'[i] = IF Self(i) = p THEN "closed" ELSE pc[i]
        /\ \A i \in Instances : dir'[i] = IF Self(i) = p THEN None ELSE dir[i]
        /\ \A i \in Instances : at'[i] = IF Self(i) = p THEN None ELSE at[i]
    BY <1>15 DEF Crash
  <2> QED BY <2>1
<1> QED BY <1>3, <1>4, <1>5, <1>6, <1>7, <1>8, <1>9, <1>10, <1>11, <1>12, <1>13, <1>14, <1>15, DirCases

(* A fill keeps its cache open.                                             *)
LEMMA FillsUpStep ==
  ASSUME TypeInv, FillInv, [Next]_vars
  PROVE  FillsUp'
<1>1. pc \in [Instances -> Labels] /\ filling \in [Instances -> BOOLEAN] /\ FillsUp
  BY DEF TypeInv, TypeOK, FillInv
<1> USE <1>1 DEF FillsUp, At, Goto, Condemn
<1>2. CASE UNCHANGED vars
  BY <1>2 DEF vars
<1>3. ASSUME NEW i \in Instances,
             Open(i) \/ (\E d \in Dirs : SwOpen(i, d)) \/ SwTry(i) \/ SwClose(i) \/ SwReap(i) \/ SwEnd(i)
      PROVE  FillsUp'
  BY <1>3 DEF Open, SwOpen, SwOpenAs, SwTry, SwClose, SwReap, SwEnd
<1>4. ASSUME NEW i \in Instances, MakeDir(i) \/ OwOpen(i) \/ OwLock(i) \/ DrDir(i) \/ DrOwner(i)
      PROVE  FillsUp'
  BY <1>4 DEF MakeDir, OwOpen, OwOpenAs, OwLock, OwLockWith, DrDir, DrOwner
<1>5. ASSUME NEW i \in Instances, Inner(i) PROVE FillsUp'
  BY <1>5, InnerStep DEF TypeInv
<1>6. ASSUME NEW i \in Instances, BeginFill(i) \/ EndFill(i) PROVE FillsUp'
  BY <1>6 DEF BeginFill, EndFill
<1>7. ASSUME NEW p \in Procs, Crash(p) PROVE FillsUp'
  <2>1. /\ \A i \in Instances : pc'[i] = IF Self(i) = p THEN "closed" ELSE pc[i]
        /\ \A i \in Instances : filling'[i] = IF Self(i) = p THEN FALSE ELSE filling[i]
    BY <1>7 DEF Crash
  <2> QED BY <2>1
<1> QED BY <1>2, <1>3, <1>4, <1>5, <1>6, <1>7, DirCases

LEMMA FillKeptStep ==
  ASSUME TypeInv, FillInv, [Next]_vars
  PROVE  FillKept'
<1>1. /\ pc \in [Instances -> Labels] /\ dir \in [Instances -> Dirs \cup {None}]
      /\ filling \in [Instances -> BOOLEAN] /\ early \subseteq Instances
      /\ dirs \in [Dirs -> DirShape] /\ None \notin Dirs
      /\ FillsUp /\ FillKept
  BY ShapeAssumption DEF TypeInv, TypeOK, FillInv, DirShape
<1>2. /\ \A i \in Instances : filling[i] => pc[i] = "open" /\ dir[i] \in Dirs
      /\ \A i \in Instances : pc[i] = "open" => dir[i] \in Dirs
      /\ \A i, j \in Instances : dir[i] = dir[j] /\ dir[i] # None => i = j
  BY <1>1 DEF FillInv, FillsUp, At, OwnDir, Locked, Living
<1> USE <1>1, <1>2 DEF FillKept, At, Goto
<1>3. CASE UNCHANGED vars
  BY <1>3 DEF vars, staging
<1>4. ASSUME NEW i \in Instances,
             Open(i) \/ (\E d \in Dirs : SwOpen(i, d)) \/ SwTry(i) \/ SwClose(i) \/ SwEnd(i)
      PROVE  FillKept'
  <2>1. UNCHANGED <<dirs, dir, filling>> /\ early \ {i} \subseteq early' /\ pc[i] # "open"
    BY <1>4 DEF Open, SwOpen, SwOpenAs, SwTry, SwClose, SwEnd, Condemn, staging
  <2> QED BY <2>1
<1>5. ASSUME NEW i \in Instances, SwReap(i) PROVE FillKept'
  <2>1. /\ At(i, "sw_reap") /\ UNCHANGED <<dir, filling, early>>
        /\ \A d \in Dirs : d # at[i] => dirs'[d] = dirs[d]
    BY <1>5 DEF SwReap, Remove
  <2>2. \A j \in Instances : pc[j] = "open" /\ dir[j] = at[i] => j \in early
    BY <2>1 DEF FillInv, Spared, Living
  <2> QED BY <2>1, <2>2
<1>6. ASSUME NEW i \in Instances, MakeDir(i) PROVE FillKept'
  <2>1. NextDir \in Dirs /\ dirs[NextDir].pid = None
    BY <1>6, NextDirFresh DEF MakeDir
  <2>2. \A j \in Instances : pc[j] = "open" => dir[j] # NextDir
    BY <2>1 DEF FillInv, OwnDir, Locked, Living
  <2>3. /\ pc[i] # "open" /\ UNCHANGED <<filling, early>> /\ dir' = [dir EXCEPT ![i] = NextDir]
        /\ \A d \in Dirs : d # NextDir => dirs'[d] = dirs[d]
    BY <1>6 DEF MakeDir
  <2> QED BY <2>1, <2>2, <2>3
<1>7. ASSUME NEW i \in Instances, OwOpen(i) PROVE FillKept'
  <2>1. \A d \in Dirs : dirs'[d].work = dirs[d].work
    BY <1>7, FieldsSet DEF TypeInv
  <2>2. /\ pc[i] # "open" /\ UNCHANGED <<filling, early>>
        /\ \A j \in Instances : j # i => dir'[j] = dir[j]
    BY <1>7 DEF OwOpen, OwOpenAs
  <2> QED BY <2>1, <2>2
<1>8. ASSUME NEW i \in Instances, OwLock(i) \/ DrOwner(i) PROVE FillKept'
  <2>1. /\ pc[i] # "open" /\ UNCHANGED <<filling, early, dirs>>
        /\ \A j \in Instances : j # i => dir'[j] = dir[j]
    BY <1>8 DEF OwLock, OwLockWith, DrOwner
  <2> QED BY <2>1
<1>9. ASSUME NEW i \in Instances, Inner(i) PROVE FillKept'
  BY <1>9, InnerStep DEF TypeInv
<1>10. ASSUME NEW i \in Instances, BeginFill(i) PROVE FillKept'
  <2>1. \A d \in Dirs : /\ d # dir[i] => dirs'[d] = dirs[d]
                        /\ d = dir[i] => dirs'[d].work = TRUE
    BY <1>10, FieldsSet DEF TypeInv
  <2>2. /\ UNCHANGED <<dir, early>> /\ pc[i] = "open"
        /\ \A j \in Instances : j # i => filling'[j] = filling[j]
    BY <1>10 DEF BeginFill
  <2> QED BY <2>1, <2>2
<1>11. ASSUME NEW i \in Instances, EndFill(i) PROVE FillKept'
  <2>1. \A d \in Dirs : d # dir[i] => dirs'[d] = dirs[d]
    BY <1>11, FieldsSet DEF TypeInv
  <2>2. UNCHANGED <<dir, early>> /\ filling[i] /\ filling' = [filling EXCEPT ![i] = FALSE]
    BY <1>11 DEF EndFill
  <2> QED BY <2>1, <2>2
<1>12. ASSUME NEW i \in Instances, DrDir(i) PROVE FillKept'
  <2>1. /\ pc[i] = "dr_dir" /\ UNCHANGED <<dir, filling, early>>
        /\ \A d \in Dirs : d # dir[i] => dirs'[d] = dirs[d]
    BY <1>12 DEF DrDir, Remove
  <2> QED BY <2>1
<1>13. ASSUME NEW p \in Procs, Crash(p) PROVE FillKept'
  <2>1. /\ UNCHANGED <<dirs, early>>
        /\ \A i \in Instances : dir'[i] = IF Self(i) = p THEN None ELSE dir[i]
        /\ \A i \in Instances : filling'[i] = IF Self(i) = p THEN FALSE ELSE filling[i]
    BY <1>13 DEF Crash
  <2> QED BY <2>1
<1> QED BY <1>3, <1>4, <1>5, <1>6, <1>7, <1>8, <1>9, <1>10, <1>11, <1>12, <1>13, DirCases

LEMMA FillInvariant == Spec => []FillInv
<1>1. Init => FillInv
  <2> SUFFICES ASSUME Init PROVE FillInv
    OBVIOUS
  <2>1. NamesUsed
    BY DEF Init, NamesUsed, NoDir, Opening, Sweeping
  <2>2. OwnDir
    BY DEF Init, OwnDir, Marking, Locked, Living, Recovering, Probing, Dropping, Leaving
  <2>3. ProbeFree /\ Spared /\ FillsUp /\ FillKept
    BY DEF Init, ProbeFree, Spared, FillsUp, FillKept, At, Marking, Living, Recovering, Probing
  <2> QED BY <2>1, <2>2, <2>3 DEF FillInv
<1>2. TypeInv /\ FillInv /\ [Next]_vars => FillInv'
  BY NamesUsedStep, OwnDirStep, ProbeFreeStep, SparedStep, FillsUpStep, FillKeptStep DEF FillInv
<1> QED BY <1>1, <1>2, TypeInvariant, PTL DEF Spec

(* The file of a streaming fill survives every other cache's sweep, for any *)
(* number of caches, processes, opens and crashes: try_lock_exclusive and   *)
(* the lock of acquire_staging_owner_lock exclude each other, so only a     *)
(* sweep that looked at the directory before it was locked removes it.      *)
THEOREM FillsSafe == Spec => []FillKept
<1>1. FillInv => FillKept
  BY DEF FillInv
<1> QED BY <1>1, FillInvariant, PTL

(* What the steps do to the directories that no cache owns: nobody takes    *)
(* such a name again, and only a reap removes one.                          *)
LEMMA DeadKept ==
  ASSUME TypeInv, FillInv, [Next]_vars, NEW d \in Dirs,
         dirs[d].pid # None, \A j \in Instances : dir[j] # d
  PROVE  /\ dirs'[d].pid # None /\ \A j \in Instances : dir'[j] # d
         /\ (\A i \in Instances : ~(SwReap(i) /\ at[i] = d)) => dirs'[d] = dirs[d]
         /\ dirs'[d].there => dirs'[d] = dirs[d]
<1> DEFINE Kept == /\ dirs'[d].pid # None /\ \A j \in Instances : dir'[j] # d
                   /\ (\A i \in Instances : ~(SwReap(i) /\ at[i] = d)) => dirs'[d] = dirs[d]
                   /\ dirs'[d].there => dirs'[d] = dirs[d]
<1>1. /\ pc \in [Instances -> Labels] /\ dir \in [Instances -> Dirs \cup {None}]
      /\ at \in [Instances -> Dirs \cup Procs \cup {None}]
      /\ dirs \in [Dirs -> DirShape] /\ None \notin Dirs
      /\ \A i \in Instances : pc[i] \in Marking \cup Locked => dir[i] \in Dirs
      /\ \A i \in Instances : filling[i] => pc[i] = "open"
  BY ShapeAssumption DEF TypeInv, TypeOK, FillInv, DirShape, OwnDir, FillsUp, At
<1>2. CASE UNCHANGED vars
  BY <1>2 DEF vars, staging
<1>3. ASSUME NEW i \in Instances,
             Open(i) \/ (\E e \in Dirs : SwOpen(i, e)) \/ SwTry(i) \/ SwClose(i) \/ SwEnd(i) \/ OwLock(i)
      PROVE  Kept
  BY <1>3 DEF Open, SwOpen, SwOpenAs, SwTry, SwClose, SwEnd, OwLock, OwLockWith, staging
<1>4. ASSUME NEW i \in Instances, SwReap(i) PROVE Kept
  <2>1. UNCHANGED dir /\ dirs' = [dirs EXCEPT ![at[i]] = [NoDir EXCEPT !.pid = dirs[at[i]].pid]]
    BY <1>4 DEF SwReap, Remove
  <2>2. CASE at[i] = d
    <3>1. dirs'[d].pid = dirs[d].pid /\ dirs'[d].there = FALSE
      BY <1>1, <2>1, <2>2 DEF NoDir
    <3> QED BY <1>4, <2>1, <2>2, <3>1
  <2>3. CASE at[i] # d
    BY <1>1, <2>1, <2>3
  <2> QED BY <2>2, <2>3
<1>5. ASSUME NEW i \in Instances, MakeDir(i) PROVE Kept
  <2>1. NextDir \in Dirs /\ dirs[NextDir].pid = None
    BY <1>5, NextDirFresh DEF MakeDir
  <2> QED BY <1>1, <1>5, <2>1 DEF MakeDir
<1>6. ASSUME NEW i \in Instances, OwOpen(i) \/ BeginFill(i) \/ EndFill(i) PROVE Kept
  <2>1. dirs'[d] = dirs[d]
    BY <1>6, FieldsSet DEF TypeInv
  <2>2. \A j \in Instances : dir'[j] \in {dir[j], None}
    BY <1>1, <1>6 DEF OwOpen, OwOpenAs, BeginFill, EndFill
  <2> QED BY <1>1, <2>1, <2>2
<1>7. ASSUME NEW i \in Instances, Inner(i) PROVE Kept
  BY <1>7, InnerStep DEF TypeInv
<1>8. ASSUME NEW i \in Instances, DrDir(i) \/ DrOwner(i) PROVE Kept
  BY <1>1, <1>8 DEF DrDir, Remove, DrOwner
<1>9. ASSUME NEW p \in Procs, Crash(p) PROVE Kept
  BY <1>1, <1>9 DEF Crash
<1> QED BY <1>2, <1>3, <1>4, <1>5, <1>6, <1>7, <1>8, <1>9, DirCases

(* The debris of an open only shrinks until the next open of that cache.    *)
LEMMA DeadShrinks ==
  ASSUME TypeOK, [Next]_vars, NEW i \in Instances
  PROVE  Open(i) \/ dead'[i] \subseteq dead[i]
<1>1. dead \in [Instances -> SUBSET Dirs]
  BY DEF TypeOK
<1> USE <1>1
<1>2. CASE UNCHANGED vars
  BY <1>2 DEF vars, staging
<1>3. ASSUME NEW j \in Instances,
             Open(j) \/ (\E e \in Dirs : SwOpen(j, e)) \/ SwTry(j) \/ SwClose(j) \/ SwReap(j) \/ SwEnd(j)
      PROVE  Open(i) \/ dead'[i] \subseteq dead[i]
  BY <1>3 DEF Open, SwOpen, SwOpenAs, SwTry, SwClose, SwReap, SwEnd, staging
<1>4. ASSUME NEW j \in Instances,
             MakeDir(j) \/ OwOpen(j) \/ OwLock(j) \/ BeginFill(j) \/ EndFill(j) \/ DrDir(j) \/ DrOwner(j)
      PROVE  Open(i) \/ dead'[i] \subseteq dead[i]
  BY <1>4 DEF MakeDir, OwOpen, OwOpenAs, OwLock, OwLockWith, BeginFill, EndFill, DrDir, DrOwner
<1>5. ASSUME NEW j \in Instances, Inner(j) PROVE Open(i) \/ dead'[i] \subseteq dead[i]
  BY <1>5, InnerStep
<1>6. ASSUME NEW p \in Procs, Crash(p) PROVE Open(i) \/ dead'[i] \subseteq dead[i]
  BY <1>6 DEF Crash
<1> QED BY <1>2, <1>3, <1>4, <1>5, <1>6, DirCases

LEMMA DebrisDeadStep ==
  ASSUME TypeInv, FillInv, DebrisDead, [Next]_vars
  PROVE  DebrisDead'
<1> SUFFICES ASSUME NEW i \in Instances, NEW d \in dead'[i]
             PROVE  /\ dirs'[d].pid # None /\ (dirs'[d].there => dirs'[d].owner)
                    /\ \A j \in Instances : dir'[j] # d
  BY DEF DebrisDead
<1>1. dead \in [Instances -> SUBSET Dirs]
  BY DEF TypeInv, TypeOK
<1>2. CASE Open(i)
  <2>1. UNCHANGED <<dirs, dir>> /\ d \in Debris
    BY <1>1, <1>2 DEF Open
  <2> QED BY <2>1 DEF Debris, There, FillInv, NamesUsed
<1>3. CASE ~Open(i)
  <2>1. d \in dead[i] /\ d \in Dirs
    BY <1>1, <1>3, DeadShrinks DEF TypeInv
  <2>2. dirs[d].pid # None /\ (dirs[d].there => dirs[d].owner) /\ \A j \in Instances : dir[j] # d
    BY <2>1 DEF DebrisDead
  <2> QED BY <2>1, <2>2, DeadKept
<1> QED BY <1>2, <1>3

(* A sweep loses sight of nothing that was dead when it began.              *)
LEMMA DebrisListedStep ==
  ASSUME TypeInv, FillInv, DebrisDead, DebrisListed, [Next]_vars
  PROVE  DebrisListed'
<1>1. /\ pc \in [Instances -> Labels] /\ at \in [Instances -> Dirs \cup Procs \cup {None}]
      /\ todo \in [Instances -> SUBSET (Dirs \cup Procs)]
      /\ dead \in [Instances -> SUBSET Dirs]
  BY DEF TypeInv, TypeOK
<1> DEFINE Held(d) == \E j \in Instances : pc[j] \in Sweeping /\ at[j] = d
           Held1(d) == \E j \in Instances : pc'[j] \in Sweeping /\ at'[j] = d
           Goal == /\ \A i \in Instances : pc'[i] = "mkdir" => todo'[i] = {}
                   /\ \A i \in Instances : pc'[i] \in Opening =>
                        \A d \in dead'[i] : dirs'[d].there => d \in todo'[i] \/ Held1(d)
(* A name that was dead stays so, and is still there only if it was.        *)
<1>2. /\ \A i \in Instances : At(i, "mkdir") => todo[i] = {}
      /\ \A i \in Instances : pc[i] \in Opening =>
           \A d \in dead[i] : dirs[d].there => d \in todo[i] \/ Held(d)
  BY <1>1 DEF DebrisListed, There
<1>3. \A i \in Instances : \A d \in dead[i] :
        /\ dirs[d].there => dirs[d].owner
        /\ d \notin owned
        /\ dirs'[d].there => dirs[d].there /\ dirs'[d] = dirs[d]
  <2> SUFFICES ASSUME NEW i \in Instances, NEW d \in dead[i]
               PROVE  /\ dirs[d].there => dirs[d].owner
                      /\ d \notin owned
                      /\ dirs'[d].there => dirs[d].there /\ dirs'[d] = dirs[d]
    OBVIOUS
  <2>1. /\ d \in Dirs /\ dirs[d].pid # None /\ (dirs[d].there => dirs[d].owner)
        /\ \A j \in Instances : dir[j] # d
    BY <1>1 DEF DebrisDead
  <2>2. d \notin owned
    BY <2>1 DEF FillInv, OwnDir
  <2>3. dirs'[d].there => dirs'[d] = dirs[d]
    BY <2>1, DeadKept
  <2> QED BY <2>1, <2>2, <2>3
<1> HIDE DEF Held, Held1, Goal
(* A step of one thread that keeps every other, and what it sweeps.         *)
<1>4. ASSUME NEW i \in Instances,
             \A j \in Instances : j # i => pc'[j] = pc[j] /\ at'[j] = at[j] /\ todo'[j] = todo[j],
             \A j \in Instances : dead'[j] \subseteq dead[j],
             pc'[i] = "mkdir" => todo'[i] = {},
             pc'[i] \in Opening => pc[i] \in Opening,
             \A d \in Dirs : d \in todo[i] /\ dirs[d].owner /\ pc'[i] \in Opening =>
                               d \in todo'[i] \/ Held1(d),
             \A d \in Dirs : pc[i] \in Sweeping /\ at[i] = d /\ d \notin owned /\ dirs'[d].there => Held1(d)
      PROVE  Goal
  <2>1. ASSUME NEW d \in Dirs, Held(d), d \notin owned, dirs'[d].there PROVE Held1(d)
    BY <1>4, <2>1 DEF Held, Held1
  <2>2. ASSUME NEW j \in Instances, pc'[j] \in Opening, NEW d \in dead'[j], dirs'[d].there
        PROVE  d \in todo'[j] \/ Held1(d)
    <3>1. d \in dead[j] /\ d \in Dirs /\ pc[j] \in Opening
      BY <1>1, <1>4, <2>2
    <3>2. dirs[d].there /\ dirs[d].owner /\ d \notin owned
      BY <1>3, <2>2, <3>1
    <3>3. d \in todo[j] \/ Held(d)
      BY <1>2, <3>1, <3>2
    <3>4. CASE Held(d)
      BY <2>1, <2>2, <3>1, <3>2, <3>4
    <3>5. CASE d \in todo[j]
      BY <1>4, <2>2, <3>1, <3>2, <3>5
    <3> QED BY <3>3, <3>4, <3>5
  <2>3. \A j \in Instances : pc'[j] = "mkdir" => todo'[j] = {}
    BY <1>2, <1>4 DEF At
  <2> QED BY <2>2, <2>3 DEF Goal
<1> USE <1>1 DEF At, Goto, Opening, Sweeping
<1>5. ASSUME UNCHANGED vars PROVE Goal
  <2>1. UNCHANGED <<pc, at, todo, dead, dirs>>
    BY <1>5 DEF vars, staging
  <2>2. ASSUME NEW i \in Instances, pc'[i] \in Opening, NEW d \in dead'[i], dirs'[d].there
        PROVE  d \in todo'[i] \/ Held1(d)
    <3>1. d \in todo[i] \/ Held(d)
      BY <1>2, <2>1, <2>2
    <3> QED BY <2>1, <3>1 DEF Held, Held1
  <2>3. \A i \in Instances : pc'[i] = "mkdir" => todo'[i] = {}
    BY <1>2, <2>1
  <2> QED BY <2>2, <2>3 DEF Goal
<1>6. ASSUME NEW i \in Instances, Open(i) PROVE Goal
  <2>1. /\ UNCHANGED <<dirs, at>> /\ pc[i] = "closed" /\ pc' = [pc EXCEPT ![i] = "sweep"]
        /\ todo' = [todo EXCEPT ![i] = There] /\ dead' = [dead EXCEPT ![i] = Debris]
    BY <1>6 DEF Open
  <2>2. \A d \in Dirs : Held(d) => Held1(d)
    BY <2>1 DEF Held, Held1
  <2>3. Debris \subseteq There /\ There \subseteq Dirs
    BY DEF Debris, There
  <2> QED BY <1>2, <2>1, <2>2, <2>3 DEF Goal, There
<1>7. ASSUME NEW i \in Instances, NEW e \in Dirs, SwOpen(i, e) PROVE Goal
  <2>1. /\ pc[i] = "sweep" /\ UNCHANGED dead
        /\ \A j \in Instances : j # i => pc'[j] = pc[j] /\ at'[j] = at[j] /\ todo'[j] = todo[j]
        /\ todo'[i] = todo[i] \ {e} /\ pc'[i] # "mkdir"
        /\ dirs[e].owner => pc'[i] = "sw_try" /\ at'[i] = e
    BY <1>7 DEF SwOpen, SwOpenAs, Condemn, Examine
  <2>2. dirs[e].owner => Held1(e)
    BY <2>1 DEF Held1
  <2> QED BY <1>4, <2>1, <2>2
<1>8. ASSUME NEW i \in Instances, SwTry(i) PROVE Goal
  <2>1. /\ pc[i] = "sw_try" /\ UNCHANGED <<dead, todo>> /\ pc'[i] \in {"sweep", "sw_held"}
        /\ \A j \in Instances : j # i => pc'[j] = pc[j] /\ at'[j] = at[j]
        /\ \/ at[i] \in owned \/ \E j \in Instances : pc[j] = "sw_held" /\ at[j] = at[i]
           \/ pc'[i] = "sw_held" /\ at'[i] = at[i]
    BY <1>8 DEF SwTry, Probed, Leave, staging
  <2>2. at[i] \in Dirs /\ at[i] \notin owned => Held1(at[i])
    BY <2>1 DEF Held1
  <2> QED BY <1>4, <2>1, <2>2
<1>9. ASSUME NEW i \in Instances, SwClose(i) PROVE Goal
  <2>1. /\ pc[i] = "sw_held" /\ UNCHANGED <<dead, todo, at>> /\ pc' = [pc EXCEPT ![i] = "sw_reap"]
    BY <1>9 DEF SwClose, Condemn
  <2>2. Held1(at[i])
    BY <2>1 DEF Held1
  <2> QED BY <1>4, <2>1, <2>2
<1>10. ASSUME NEW i \in Instances, SwReap(i) PROVE Goal
  <2>1. /\ pc[i] = "sw_reap" /\ UNCHANGED <<dead, todo>> /\ pc' = [pc EXCEPT ![i] = "sweep"]
        /\ \A j \in Instances : j # i => at'[j] = at[j]
        /\ dirs' = [dirs EXCEPT ![at[i]] = [NoDir EXCEPT !.pid = dirs[at[i]].pid]]
    BY <1>10 DEF SwReap, Remove, Leave
  <2>2. at[i] \in Dirs => ~dirs'[at[i]].there
    BY <2>1 DEF NoDir, TypeInv, TypeOK
  <2> QED BY <1>4, <2>1, <2>2
<1>11. ASSUME NEW i \in Instances, SwEnd(i) PROVE Goal
  <2>1. /\ pc[i] = "sweep" /\ todo[i] = {} /\ UNCHANGED <<dead, todo, at>>
        /\ pc' = [pc EXCEPT ![i] = "mkdir"]
    BY <1>11 DEF SwEnd, staging
  <2> QED BY <1>4, <2>1
<1>12. ASSUME NEW i \in Instances,
              MakeDir(i) \/ OwOpen(i) \/ OwLock(i) \/ BeginFill(i) \/ EndFill(i) \/ DrDir(i) \/ DrOwner(i)
       PROVE  Goal
  <2>1. /\ pc[i] \notin Sweeping /\ pc'[i] \notin Opening /\ UNCHANGED <<todo, at>>
        /\ \A j \in Instances : j # i => pc'[j] = pc[j]
        /\ \A j \in Instances : dead'[j] \subseteq dead[j]
    BY <1>12 DEF MakeDir, OwOpen, OwOpenAs, OwLock, OwLockWith, BeginFill, EndFill, DrDir, DrOwner, FillInv, FillsUp
  <2> QED BY <1>4, <2>1
<1>13. ASSUME NEW i \in Instances, Inner(i) PROVE Goal
  <2>1. /\ \A j \in Instances : j # i => pc'[j] = pc[j] /\ at'[j] = at[j] /\ todo'[j] = todo[j]
        /\ pc[i] \notin Sweeping /\ pc'[i] \notin Opening /\ UNCHANGED dead
    BY <1>13, InnerStep DEF TypeInv, Locked, Living, Recovering, Probing, Dropping, Leaving
  <2> QED BY <1>4, <2>1
<1>14. ASSUME NEW p \in Procs, Crash(p) PROVE Goal
  <2>1. /\ UNCHANGED dirs
        /\ \A i \in Instances : pc'[i] = IF Self(i) = p THEN "closed" ELSE pc[i]
        /\ \A i \in Instances : at'[i] = IF Self(i) = p THEN None ELSE at[i]
        /\ \A i \in Instances : todo'[i] = IF Self(i) = p THEN {} ELSE todo[i]
        /\ \A i \in Instances : Self(i) # p => dead'[i] = dead[i] \ {at[j] : j \in {j \in Instances : Self(j) = p}}
    BY <1>14 DEF Crash
  <2>2. ASSUME NEW i \in Instances, pc'[i] \in Opening, NEW d \in dead'[i], dirs'[d].there
        PROVE  d \in todo'[i] \/ Held1(d)
    <3>1. /\ Self(i) # p /\ d \in dead[i] /\ pc[i] \in Opening
          /\ \A j \in Instances : Self(j) = p => at[j] # d
      BY <2>1, <2>2
    <3>2. d \in todo[i] \/ Held(d)
      BY <1>2, <2>1, <2>2, <3>1
    <3>3. Held(d) => Held1(d)
      BY <2>1, <3>1 DEF Held, Held1
    <3> QED BY <2>1, <3>1, <3>2, <3>3
  <2>3. \A i \in Instances : pc'[i] = "mkdir" => todo'[i] = {}
    BY <1>2, <2>1
  <2> QED BY <2>2, <2>3 DEF Goal
<1>15. Goal
  <2>1. ASSUME NEW i \in Instances,
               \/ Open(i) \/ (\E d \in Dirs : SwOpen(i, d)) \/ SwTry(i) \/ SwClose(i) \/ SwReap(i)
               \/ SwEnd(i) \/ MakeDir(i) \/ OwOpen(i) \/ OwLock(i) \/ Inner(i)
               \/ BeginFill(i) \/ EndFill(i) \/ DrDir(i) \/ DrOwner(i)
        PROVE  Goal
    BY <2>1, <1>6, <1>7, <1>8, <1>9, <1>10, <1>11, <1>12, <1>13
  <2> QED BY <2>1, <1>5, <1>14, DirCases
<1> QED BY <1>15 DEF Goal, Held1, DebrisListed, There

(* An open leaves none of the debris it met, for any number of caches,      *)
(* processes, opens and crashes: sweep_orphan_staging either removes a      *)
(* directory whose owner was dead when it listed the root, or a concurrent  *)
(* sweep has that directory in hand.                                        *)
THEOREM DebrisReclaimed == Spec => []Reclaimed
<1>1. Init => DebrisInv
  BY DEF Init, DebrisInv, DebrisDead, DebrisListed, At, Opening, Sweeping
<1>2. TypeInv /\ FillInv /\ DebrisInv /\ [Next]_vars => DebrisInv'
  BY DebrisDeadStep, DebrisListedStep DEF DebrisInv
<1>3. DebrisInv => Reclaimed
  <2> SUFFICES ASSUME DebrisInv PROVE Reclaimed
    OBVIOUS
  <2> QED BY DEF DebrisInv, DebrisListed, Reclaimed, At, Opening
<1> QED BY <1>1, <1>2, <1>3, TypeInvariant, FillInvariant, PTL DEF Spec

=============================================================================
