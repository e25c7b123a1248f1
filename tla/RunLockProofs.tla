--------------------------- MODULE RunLockProofs ---------------------------
(***************************************************************************)
(* The lock of module RunLock for any threads, processes, paths and        *)
(* nesting: types, exact depths, balanced re-entrant locks and mutual      *)
(* exclusion, from one inductive invariant.                                *)
(***************************************************************************)
EXTENDS RunLock, FiniteSetTheorems, TLAPS

(* The positions of the open bodies of p in a stack of frames.              *)
Positions(s, p) == {i \in DOMAIN s : s[i].path = p}
Pop(s) == SubSeq(s, 1, Len(s) - 1)

(* The thread has taken the RLock of p for a body that is not open: it is   *)
(* about to be, or it has just ended.                                       *)
InFlight(t, p) == want[t] = p /\ pc[t] \in {"branch", "flock", "unflock", "rrelease"}
Taken(t, p) == depth[t][p] + (IF InFlight(t, p) THEN 1 ELSE 0)

DepthIsBodies ==
    \A t \in Thread, p \in Path : depth[t][p] = Cardinality(Positions(frames[t], p))
OuterIsFirst ==
    \A t \in Thread : \A i, j \in DOMAIN frames[t] :
        i < j /\ frames[t][i].path = frames[t][j].path => frames[t][j].branch = "inner"
RLockOwned ==
    \A t \in Thread, p \in Path : Taken(t, p) > 0 => rowner[ProcOf[t]][p] = t
RLockFree ==
    \A q \in Process, p \in Path : rowner[q][p] = NoThread => rcount[q][p] = 0
RLockCounts ==
    \A t \in Thread, p \in Path :
        rowner[ProcOf[t]][p] = t => rcount[ProcOf[t]][p] = Taken(t, p)
FileLocked ==
    \A t \in Thread, p \in Path : depth[t][p] > 0 => flock[p] = t
FileOpening ==
    \A t \in Thread : pc[t] = "flock" => depth[t][want[t]] = 0
FileClosing ==
    \A t \in Thread : pc[t] = "unflock" => flock[want[t]] = t /\ depth[t][want[t]] = 0

BodyInv == DepthIsBodies /\ OuterIsFirst
RLockInv == RLockOwned /\ RLockFree /\ RLockCounts
FileInv == FileLocked /\ FileOpening /\ FileClosing

IInv == TypeOK /\ BodyInv /\ RLockInv /\ FileInv

-----------------------------------------------------------------------------
(* A stack has finitely many bodies of a path; none exactly when their      *)
(* number is zero.                                                          *)
LEMMA PositionsCount ==
    ASSUME NEW s \in Seq(Frame), NEW p
    PROVE  /\ IsFiniteSet(Positions(s, p))
           /\ Cardinality(Positions(s, p)) \in Nat
           /\ Cardinality(Positions(s, p)) = 0 <=> Positions(s, p) = {}
<1>1. IsFiniteSet(1..Len(s))
  BY FS_Interval
<1>2. Positions(s, p) \subseteq 1..Len(s)
  BY DEF Positions
<1>3. IsFiniteSet(Positions(s, p))
  BY <1>1, <1>2, FS_Subset
<1>4. QED
  BY <1>3, FS_CardinalityType, FS_EmptySet

(* Entering a body adds it to the bodies of its path and to no other.       *)
LEMMA PositionsEnter ==
    ASSUME NEW s \in Seq(Frame), NEW f \in Frame, NEW p
    PROVE  Cardinality(Positions(Append(s, f), p)) =
               Cardinality(Positions(s, p)) + (IF f.path = p THEN 1 ELSE 0)
<1>1. CASE f.path = p
  <2>1. Positions(Append(s, f), p) = Positions(s, p) \cup {Len(s) + 1}
    BY <1>1 DEF Positions
  <2>2. Len(s) + 1 \notin Positions(s, p)
    BY DEF Positions
  <2>3. /\ IsFiniteSet(Positions(s, p))
        /\ Cardinality(Positions(s, p)) \in Nat
    BY PositionsCount
  <2>4. Cardinality(Positions(Append(s, f), p)) = Cardinality(Positions(s, p)) + 1
    BY <2>1, <2>2, <2>3, FS_AddElement
  <2>5. QED
    BY <1>1, <2>4
<1>2. CASE f.path # p
  <2>1. Positions(Append(s, f), p) = Positions(s, p)
    BY <1>2 DEF Positions
  <2>2. QED
    BY <1>2, <2>1, PositionsCount
<1>3. QED
  BY <1>1, <1>2

(* Leaving the innermost body takes it from the bodies of its path.         *)
LEMMA PositionsLeave ==
    ASSUME NEW s \in Seq(Frame), s # <<>>, NEW p
    PROVE  /\ Pop(s) \in Seq(Frame)
           /\ Cardinality(Positions(Pop(s), p)) =
                  Cardinality(Positions(s, p)) - (IF s[Len(s)].path = p THEN 1 ELSE 0)
<1>1. /\ Pop(s) \in Seq(Frame)
      /\ DOMAIN Pop(s) = 1..(Len(s) - 1)
      /\ \A i \in 1..(Len(s) - 1) : Pop(s)[i] = s[i]
      /\ Len(s) \in DOMAIN s /\ Len(s) \in Nat \ {0}
  BY DEF Pop
<1>2. CASE s[Len(s)].path = p
  <2>1. Positions(Pop(s), p) = Positions(s, p) \ {Len(s)}
    BY <1>1, <1>2 DEF Positions
  <2>2. Len(s) \in Positions(s, p)
    BY <1>1, <1>2 DEF Positions
  <2>3. IsFiniteSet(Positions(s, p))
    BY PositionsCount
  <2>4. Cardinality(Positions(Pop(s), p)) = Cardinality(Positions(s, p)) - 1
    BY <2>1, <2>2, <2>3, FS_RemoveElement
  <2>5. QED
    BY <1>1, <1>2, <2>4
<1>3. CASE s[Len(s)].path # p
  <2>1. Positions(Pop(s), p) = Positions(s, p)
    BY <1>1, <1>3 DEF Positions
  <2>2. QED
    BY <1>1, <1>3, <2>1, PositionsCount
<1>4. QED
  BY <1>2, <1>3

(* The outermost body of a path, when it is the innermost of all, is the    *)
(* only one.                                                                *)
LEMMA OuterIsOnly ==
    ASSUME NEW s \in Seq(Frame), s # <<>>, s[Len(s)].branch = "outer",
           \A i, j \in DOMAIN s :
               i < j /\ s[i].path = s[j].path => s[j].branch = "inner"
    PROVE  Cardinality(Positions(s, s[Len(s)].path)) = 1
<1>1. Positions(s, s[Len(s)].path) = {Len(s)}
  BY DEF Positions
<1>2. QED
  BY <1>1, FS_Singleton

-----------------------------------------------------------------------------
LEMMA InitEstablishes == Init => IInv
<1> SUFFICES ASSUME Init PROVE IInv
  OBVIOUS
<1> USE RunLockAssumption
<1>1. TypeOK
  BY DEF Init, TypeOK, Location
<1>2. BodyInv
  <2>1. \A p \in Path : Positions(<<>>, p) = {}
    BY DEF Positions
  <2>2. QED
    <3>1. Cardinality({}) = 0
      BY FS_EmptySet
    <3>2. DepthIsBodies
      BY <2>1, <3>1 DEF Init, DepthIsBodies
    <3>3. OuterIsFirst
      BY DEF Init, OuterIsFirst
    <3>4. QED
      BY <3>2, <3>3 DEF BodyInv
<1>3. RLockInv
  BY DEF Init, RLockInv, RLockOwned, RLockFree, RLockCounts, Taken, InFlight
<1>4. FileInv
  BY DEF Init, FileInv, FileLocked, FileOpening, FileClosing
<1>5. QED
  BY <1>1, <1>2, <1>3, <1>4 DEF IInv

(* What an update of one place of a two-level table leaves behind.          *)
LEMMA Update ==
    ASSUME NEW A, NEW B, NEW V, NEW f \in [A -> [B -> V]],
           NEW a \in A, NEW b \in B, NEW v \in V
    PROVE  /\ [f EXCEPT ![a][b] = v] \in [A -> [B -> V]]
           /\ \A x \in A, y \in B :
                  [f EXCEPT ![a][b] = v][x][y] = IF x = a /\ y = b THEN v ELSE f[x][y]
OBVIOUS

(* A step that changes neither the RLocks nor what each thread has taken of *)
(* them keeps the invariant on RLocks.                                      *)
LEMMA SameRLocks ==
    ASSUME RLockInv, UNCHANGED <<rowner, rcount>>,
           \A u \in Thread, p \in Path : Taken(u, p)' = Taken(u, p)
    PROVE  RLockInv'
BY DEF RLockInv, RLockOwned, RLockFree, RLockCounts

(* A step that changes no depth and no frame leaves the bodies as they are. *)
LEMMA SameBodies ==
    ASSUME BodyInv, UNCHANGED <<depth, frames>>
    PROVE  BodyInv'
BY DEF BodyInv, DepthIsBodies, OuterIsFirst

LEMMA CallPreserves ==
    ASSUME IInv, NEW t \in Thread, NEW p \in Path, Call(t, p)
    PROVE  IInv'
<1> USE RunLockAssumption
<1>1. TypeOK'
  BY DEF IInv, TypeOK, Call, Goto, Location
<1>2. BodyInv'
  BY SameBodies DEF IInv, Call
<1>3. RLockInv'
  BY DEF IInv, TypeOK, Call, Goto, RLockInv, RLockOwned, RLockFree, RLockCounts,
         Taken, InFlight
<1>4. FileInv'
  BY DEF IInv, TypeOK, Call, Goto, FileInv, FileLocked, FileOpening, FileClosing
<1>5. QED
  BY <1>1, <1>2, <1>3, <1>4 DEF IInv

LEMMA AcquireRLockPreserves ==
    ASSUME IInv, NEW t \in Thread, AcquireRLock(t)
    PROVE  IInv'
<1> USE RunLockAssumption
<1> DEFINE q == ProcOf[t]
           p == want[t]
<1>0. /\ q \in Process /\ p \in Path /\ pc[t] = "rlock"
      /\ rowner[q][p] \in {NoThread, t}
      /\ rowner' \in [Process -> [Path -> Thread \cup {NoThread}]]
      /\ rcount' \in [Process -> [Path -> Nat]]
      /\ \A r \in Process, b \in Path :
            /\ rowner'[r][b] = IF r = q /\ b = p THEN t ELSE rowner[r][b]
            /\ rcount'[r][b] = IF r = q /\ b = p THEN rcount[q][p] + 1 ELSE rcount[r][b]
  <2>1. q \in Process /\ p \in Path /\ rcount[q][p] + 1 \in Nat
    BY DEF IInv, TypeOK
  <2>2. /\ rowner \in [Process -> [Path -> Thread \cup {NoThread}]]
        /\ rcount \in [Process -> [Path -> Nat]]
        /\ rowner' = [rowner EXCEPT ![q][p] = t]
        /\ rcount' = [rcount EXCEPT ![q][p] = rcount[q][p] + 1]
    BY DEF IInv, TypeOK, AcquireRLock
  <2>3. /\ rowner' \in [Process -> [Path -> Thread \cup {NoThread}]]
        /\ \A r \in Process, b \in Path :
              rowner'[r][b] = IF r = q /\ b = p THEN t ELSE rowner[r][b]
    BY <2>1, <2>2, Update
  <2>4. /\ rcount' \in [Process -> [Path -> Nat]]
        /\ \A r \in Process, b \in Path :
              rcount'[r][b] = IF r = q /\ b = p THEN rcount[q][p] + 1 ELSE rcount[r][b]
    BY <2>1, <2>2, Update
  <2>5. QED
    BY <2>1, <2>3, <2>4 DEF AcquireRLock, Goto
<1>1. TypeOK'
  BY <1>0 DEF IInv, TypeOK, AcquireRLock, Goto, Location
<1>2. BodyInv'
  BY SameBodies DEF IInv, AcquireRLock
<1>3. RLockInv'
  <2>1. \A u \in Thread, b \in Path :
            /\ Taken(u, b) \in Nat
            /\ Taken(u, b)' = Taken(u, b) + (IF u = t /\ b = p THEN 1 ELSE 0)
    <3>1. \A u \in Thread :
              /\ pc[t] = "rlock"
              /\ pc'[u] = IF u = t THEN "branch" ELSE pc[u]
      BY DEF IInv, TypeOK, AcquireRLock, Goto
    <3>2. /\ depth \in [Thread -> [Path -> Nat]]
          /\ depth' = depth /\ want' = want
      BY DEF IInv, TypeOK, AcquireRLock
    <3>3. QED
      BY <3>1, <3>2 DEF Taken, InFlight
  <2>2. rcount[q][p] = Taken(t, p)
    <3>1. rowner[q][p] = NoThread \/ rowner[q][p] = t
      BY <1>0
    <3>2. CASE rowner[q][p] = t
      BY <1>0, <3>2 DEF IInv, RLockInv, RLockCounts
    <3>3. CASE rowner[q][p] = NoThread
      <4>1. rcount[q][p] = 0
        BY <1>0, <3>3 DEF IInv, RLockInv, RLockFree
      <4>2. ~(Taken(t, p) > 0)
        BY <1>0, <3>3 DEF IInv, RLockInv, RLockOwned
      <4> QED
        BY <1>0, <2>1, <4>1, <4>2
    <3> QED
      BY <3>1, <3>2, <3>3
  <2>3. \A u \in Thread : u # t /\ ProcOf[u] = q => Taken(u, p) = 0
    BY <1>0, <2>1 DEF IInv, RLockInv, RLockOwned
  <2>4. RLockOwned'
    <3> SUFFICES ASSUME NEW u \in Thread, NEW b \in Path, Taken(u, b)' > 0
                 PROVE  rowner'[ProcOf[u]][b] = u
      BY DEF RLockOwned
    <3>0. ProcOf[u] \in Process
      OBVIOUS
    <3>1. CASE u = t /\ b = p
      BY <1>0, <3>1
    <3>2. CASE ~(u = t /\ b = p)
      <4>1. Taken(u, b) > 0 /\ ~(ProcOf[u] = q /\ b = p)
        BY <2>1, <2>3, <3>2
      <4> QED
        BY <1>0, <3>0, <4>1 DEF IInv, RLockInv, RLockOwned
    <3> QED
      BY <3>1, <3>2
  <2>5. RLockFree'
    BY <1>0 DEF IInv, RLockInv, RLockFree
  <2>6. RLockCounts'
    <3> SUFFICES ASSUME NEW u \in Thread, NEW b \in Path, rowner'[ProcOf[u]][b] = u
                 PROVE  rcount'[ProcOf[u]][b] = Taken(u, b)'
      BY DEF RLockCounts
    <3>0. ProcOf[u] \in Process
      OBVIOUS
    <3>1. CASE ProcOf[u] = q /\ b = p
      BY <1>0, <2>1, <2>2, <3>0, <3>1
    <3>2. CASE ~(ProcOf[u] = q /\ b = p)
      <4>1. /\ rowner[ProcOf[u]][b] = u
            /\ rcount'[ProcOf[u]][b] = rcount[ProcOf[u]][b]
            /\ Taken(u, b)' = Taken(u, b)
        BY <1>0, <2>1, <3>0, <3>2
      <4>2. QED
        BY <4>1 DEF IInv, RLockInv, RLockCounts
    <3>3. QED
      BY <3>1, <3>2
  <2>7. QED
    BY <2>4, <2>5, <2>6 DEF RLockInv
<1>4. FileInv'
  BY DEF IInv, TypeOK, AcquireRLock, Goto, FileInv, FileLocked, FileOpening, FileClosing
<1>5. QED
  BY <1>1, <1>2, <1>3, <1>4 DEF IInv

(* Entering a body, by counting or by taking the file lock.                 *)
LEMMA EnterPreservesBodies ==
    ASSUME TypeOK, BodyInv, NEW t \in Thread, NEW branch \in Branch, Enter(t, branch),
           depth' = [depth EXCEPT ![t][want[t]] = @ + 1],
           branch = "outer" => depth[t][want[t]] = 0
    PROVE  BodyInv'
<1> DEFINE f == [path |-> want[t], branch |-> branch]
<1>1. f \in Frame /\ frames[t] \in Seq(Frame)
  BY DEF TypeOK, Frame
<1>2. frames' = [frames EXCEPT ![t] = Append(frames[t], f)]
  BY DEF Enter
<1>3. DepthIsBodies'
  <2> SUFFICES ASSUME NEW u \in Thread, NEW p \in Path
               PROVE  depth'[u][p] = Cardinality(Positions(frames'[u], p))
    BY DEF DepthIsBodies
  <2>1. depth[u][p] = Cardinality(Positions(frames[u], p))
    BY DEF BodyInv, DepthIsBodies
  <2>2. CASE u = t
    <3>1. frames'[u] = Append(frames[t], f)
      BY <1>2, <2>2 DEF TypeOK
    <3>2. Cardinality(Positions(frames'[u], p)) =
              Cardinality(Positions(frames[t], p)) + (IF f.path = p THEN 1 ELSE 0)
      BY <1>1, <3>1, PositionsEnter
    <3>3. depth'[u][p] = depth[t][p] + (IF want[t] = p THEN 1 ELSE 0)
      BY <2>2 DEF TypeOK
    <3>4. QED
      BY <2>1, <2>2, <3>2, <3>3
  <2>3. CASE u # t
    BY <1>2, <2>1, <2>3 DEF TypeOK
  <2>4. QED
    BY <2>2, <2>3
<1>4. OuterIsFirst'
  <2> SUFFICES ASSUME NEW u \in Thread, NEW i \in DOMAIN frames'[u],
                      NEW j \in DOMAIN frames'[u],
                      i < j, frames'[u][i].path = frames'[u][j].path
               PROVE  frames'[u][j].branch = "inner"
    BY DEF OuterIsFirst
  <2>1. CASE u # t
    BY <1>2, <2>1 DEF TypeOK, BodyInv, OuterIsFirst
  <2>2. CASE u = t
    <3>1. frames'[u] = Append(frames[t], f)
      BY <1>2, <2>2 DEF TypeOK
    <3>2. i \in DOMAIN frames[t] /\ frames'[u][i] = frames[t][i]
      BY <1>1, <3>1
    <3>3. CASE j \in DOMAIN frames[t]
      <4>1. frames'[u][j] = frames[t][j]
        BY <1>1, <3>1, <3>3
      <4>2. QED
        BY <3>2, <3>3, <4>1 DEF BodyInv, OuterIsFirst
    <3>4. CASE j \notin DOMAIN frames[t]
      <4>1. frames'[u][j] = f
        BY <1>1, <3>1, <3>4
      <4>2. i \in Positions(frames[t], want[t])
        BY <3>2, <4>1 DEF Positions
      <4>3. depth[t][want[t]] # 0
        <5>1. depth[t][want[t]] = Cardinality(Positions(frames[t], want[t]))
          BY DEF TypeOK, BodyInv, DepthIsBodies
        <5>2. QED
          BY <1>1, <4>2, <5>1, PositionsCount
      <4>4. QED
        BY <4>1, <4>3 DEF Branch
    <3>5. QED
      BY <3>3, <3>4
  <2>3. QED
    BY <2>1, <2>2
<1>5. QED
  BY <1>3, <1>4 DEF BodyInv

LEMMA ReenterPreserves ==
    ASSUME IInv, NEW t \in Thread, Reenter(t)
    PROVE  IInv'
<1> USE RunLockAssumption
<1>0. /\ depth' \in [Thread -> [Path -> Nat]]
      /\ \A u \in Thread, b \in Path :
            depth'[u][b] = IF u = t /\ b = want[t] THEN depth[t][want[t]] + 1 ELSE depth[u][b]
  <2> DEFINE p == want[t]
             n == depth[t][p] + 1
  <2>1. depth \in [Thread -> [Path -> Nat]] /\ p \in Path
    BY DEF IInv, TypeOK
  <2>2. n \in Nat
    BY <2>1
  <2>3. depth' = [depth EXCEPT ![t][p] = n]
    BY DEF Reenter
  <2> HIDE DEF n, p
  <2>4. /\ depth' \in [Thread -> [Path -> Nat]]
        /\ \A u \in Thread, b \in Path :
              depth'[u][b] = IF u = t /\ b = p THEN n ELSE depth[u][b]
    BY <2>1, <2>2, <2>3, Update
  <2>5. QED
    BY <2>4 DEF n, p
<1>1. TypeOK'
  <2>1. [path |-> want[t], branch |-> "inner"] \in Frame
    BY DEF IInv, TypeOK, Frame, Branch
  <2>2. frames' \in [Thread -> Seq(Frame)]
    BY <2>1 DEF IInv, TypeOK, Reenter, Enter
  <2>3. QED
    BY <1>0, <2>2 DEF IInv, TypeOK, Reenter, Goto, Location
<1>2. BodyInv'
  BY EnterPreservesBodies DEF IInv, Reenter, Branch
<1>3. RLockInv'
  <2>1. \A u \in Thread, b \in Path : Taken(u, b)' = Taken(u, b)
    <3>1. /\ want' = want /\ want[t] \in Path
          /\ pc[t] = "branch"
          /\ \A u \in Thread : pc'[u] = IF u = t THEN "body" ELSE pc[u]
      BY DEF IInv, TypeOK, Reenter, Goto
    <3>2. depth \in [Thread -> [Path -> Nat]]
      BY DEF IInv, TypeOK
    <3> QED
      BY <1>0, <3>1, <3>2 DEF Taken, InFlight
  <2>2. QED
    BY <2>1, SameRLocks DEF IInv, Reenter
<1>4. FileInv'
  BY DEF IInv, TypeOK, Reenter, Goto, FileInv, FileLocked, FileOpening, FileClosing
<1>5. QED
  BY <1>1, <1>2, <1>3, <1>4 DEF IInv

LEMMA OpenLockFilePreserves ==
    ASSUME IInv, NEW t \in Thread, OpenLockFile(t)
    PROVE  IInv'
<1> USE RunLockAssumption
<1>1. TypeOK'
  BY DEF IInv, TypeOK, OpenLockFile, Goto, Location
<1>2. BodyInv'
  BY SameBodies DEF IInv, OpenLockFile
<1>3. RLockInv'
  <2>1. \A u \in Thread, b \in Path : Taken(u, b)' = Taken(u, b)
    BY DEF IInv, TypeOK, FileInv, FileOpening, OpenLockFile, Goto, Taken, InFlight
  <2>2. QED
    BY <2>1, SameRLocks DEF IInv, OpenLockFile
<1>4. FileInv'
  BY DEF IInv, TypeOK, OpenLockFile, Goto, FileInv, FileLocked, FileOpening, FileClosing
<1>5. QED
  BY <1>1, <1>2, <1>3, <1>4 DEF IInv

LEMMA LockFailsPreserves ==
    ASSUME IInv, NEW t \in Thread, LockFails(t)
    PROVE  IInv'
<1> USE RunLockAssumption
<1>0. depth' = depth
  BY DEF IInv, TypeOK, FileInv, FileOpening, LockFails, Goto
<1>1. TypeOK'
  BY <1>0 DEF IInv, TypeOK, LockFails, Goto, Location
<1>2. BodyInv'
  BY <1>0, SameBodies DEF IInv, LockFails
<1>3. RLockInv'
  <2>1. \A u \in Thread, b \in Path : Taken(u, b)' = Taken(u, b)
    BY <1>0 DEF IInv, TypeOK, FileInv, FileOpening, LockFails, Goto, Taken, InFlight
  <2>2. QED
    BY <2>1, SameRLocks DEF IInv, LockFails
<1>4. FileInv'
  BY <1>0 DEF IInv, TypeOK, LockFails, Goto, FileInv, FileLocked, FileOpening, FileClosing
<1>5. QED
  BY <1>1, <1>2, <1>3, <1>4 DEF IInv

LEMMA FlockPreserves ==
    ASSUME IInv, NEW t \in Thread, Flock(t)
    PROVE  IInv'
<1> USE RunLockAssumption
<1>0. /\ depth[t][want[t]] = 0
      /\ depth' = [depth EXCEPT ![t][want[t]] = depth[t][want[t]] + 1]
  <2>1. depth[t][want[t]] = 0
    BY DEF IInv, FileInv, FileOpening, Flock, Goto
  <2>2. QED
    BY <2>1 DEF Flock
<1>1. TypeOK'
  <2>1. [path |-> want[t], branch |-> "outer"] \in Frame
    BY DEF IInv, TypeOK, Frame, Branch
  <2>2. frames' \in [Thread -> Seq(Frame)]
    BY <2>1 DEF IInv, TypeOK, Flock, Enter
  <2>3. QED
    BY <2>2 DEF IInv, TypeOK, Flock, Goto, Location
<1>2. BodyInv'
  BY <1>0, EnterPreservesBodies DEF IInv, Flock, Branch
<1>3. RLockInv'
  <2>1. \A u \in Thread, b \in Path : Taken(u, b)' = Taken(u, b)
    <3>1. /\ want' = want /\ want[t] \in Path
          /\ pc[t] = "flock"
          /\ \A u \in Thread : pc'[u] = IF u = t THEN "body" ELSE pc[u]
      BY DEF IInv, TypeOK, Flock, Goto
    <3>2. depth \in [Thread -> [Path -> Nat]]
      BY DEF IInv, TypeOK
    <3>3. \A u \in Thread, b \in Path :
              depth'[u][b] = IF u = t /\ b = want[t] THEN 1 ELSE depth[u][b]
      BY <1>0, <3>1, <3>2
    <3> QED
      BY <1>0, <3>1, <3>2, <3>3 DEF Taken, InFlight
  <2>2. QED
    BY <2>1, SameRLocks DEF IInv, Flock
<1>4. FileInv'
  BY <1>0 DEF IInv, TypeOK, Flock, Goto, FileInv, FileLocked, FileOpening, FileClosing
<1>5. QED
  BY <1>1, <1>2, <1>3, <1>4 DEF IInv

(* Leaving the innermost body lowers its path's depth by one, also where    *)
(* the code sets it to zero.                                                *)
LEMMA LeavePreservesBodies ==
    ASSUME TypeOK, BodyInv, NEW t \in Thread, frames[t] # <<>>, Leave(t),
           depth' = [depth EXCEPT ![t][Top(t).path] = @ - 1]
    PROVE  BodyInv' /\ frames' \in [Thread -> Seq(Frame)]
<1>1. frames[t] \in Seq(Frame)
  BY DEF TypeOK
<1>2. frames' = [frames EXCEPT ![t] = Pop(frames[t])]
  BY DEF Leave, Pop
<1>3. Pop(frames[t]) \in Seq(Frame)
  BY <1>1, PositionsLeave
<1>4. Top(t) \in Frame
  BY <1>1 DEF Top
<1>5. DepthIsBodies'
  <2> SUFFICES ASSUME NEW u \in Thread, NEW p \in Path
               PROVE  depth'[u][p] = Cardinality(Positions(frames'[u], p))
    BY DEF DepthIsBodies
  <2>1. depth[u][p] = Cardinality(Positions(frames[u], p))
    BY DEF BodyInv, DepthIsBodies
  <2>2. CASE u = t
    <3>1. frames'[u] = Pop(frames[t])
      BY <1>2, <2>2 DEF TypeOK
    <3>2. Cardinality(Positions(frames'[u], p)) =
              Cardinality(Positions(frames[t], p)) - (IF Top(t).path = p THEN 1 ELSE 0)
      BY <1>1, <3>1, PositionsLeave DEF Top
    <3>3. depth'[u][p] = depth[t][p] - (IF Top(t).path = p THEN 1 ELSE 0)
      BY <2>2, <1>4 DEF TypeOK, Frame
    <3>4. QED
      BY <2>1, <2>2, <3>2, <3>3
  <2>3. CASE u # t
    BY <1>2, <2>1, <2>3 DEF TypeOK
  <2>4. QED
    BY <2>2, <2>3
<1>6. OuterIsFirst'
  <2> SUFFICES ASSUME NEW u \in Thread
               PROVE  \A i, j \in DOMAIN frames'[u] :
                          i < j /\ frames'[u][i].path = frames'[u][j].path
                              => frames'[u][j].branch = "inner"
    BY DEF OuterIsFirst
  <2>1. CASE u # t
    BY <1>2, <2>1 DEF TypeOK, BodyInv, OuterIsFirst
  <2>2. CASE u = t
    <3>1. frames'[u] = Pop(frames[t])
      BY <1>2, <2>2 DEF TypeOK
    <3>2. \A i \in DOMAIN Pop(frames[t]) :
              i \in DOMAIN frames[t] /\ Pop(frames[t])[i] = frames[t][i]
      BY <1>1 DEF Pop
    <3>3. QED
      BY <3>1, <3>2 DEF BodyInv, OuterIsFirst
  <2>3. QED
    BY <2>1, <2>2
<1>7. QED
  BY <1>2, <1>3, <1>5, <1>6 DEF BodyInv, TypeOK

(* The path of the innermost body is held.                                  *)
LEMMA TopIsHeld ==
    ASSUME TypeOK, BodyInv, NEW t \in Thread, frames[t] # <<>>
    PROVE  /\ Top(t) \in Frame
           /\ depth[t][Top(t).path] > 0
           /\ Top(t).branch = "outer" => depth[t][Top(t).path] = 1
<1>1. frames[t] \in Seq(Frame)
  BY DEF TypeOK
<1>2. Top(t) \in Frame /\ Top(t).path \in Path
  <2>1. Len(frames[t]) \in DOMAIN frames[t]
    BY <1>1
  <2>2. Top(t) \in Frame
    BY <1>1, <2>1 DEF Top
  <2>3. QED
    BY <2>2 DEF Frame
<1>3. depth[t][Top(t).path] = Cardinality(Positions(frames[t], Top(t).path))
  BY <1>2 DEF BodyInv, DepthIsBodies
<1>4. Len(frames[t]) \in Positions(frames[t], Top(t).path)
  BY <1>1 DEF Top, Positions
<1>5. depth[t][Top(t).path] > 0
  <2>1. /\ Cardinality(Positions(frames[t], Top(t).path)) \in Nat
        /\ Cardinality(Positions(frames[t], Top(t).path)) # 0
    BY <1>1, <1>4, PositionsCount
  <2>2. QED
    BY <1>3, <2>1
<1>6. ASSUME Top(t).branch = "outer" PROVE depth[t][Top(t).path] = 1
  <2>1. \A i, j \in DOMAIN frames[t] :
            i < j /\ frames[t][i].path = frames[t][j].path => frames[t][j].branch = "inner"
    BY DEF BodyInv, OuterIsFirst
  <2>2. QED
    BY <1>1, <1>3, <1>6, <2>1, OuterIsOnly DEF Top
<1>7. QED
  BY <1>2, <1>5, <1>6

LEMMA LeaveInnerPreserves ==
    ASSUME IInv, NEW t \in Thread, LeaveInner(t)
    PROVE  IInv'
<1> USE RunLockAssumption
<1> DEFINE p == Top(t).path
<1>0. /\ p \in Path /\ depth[t][p] > 0
      /\ depth' \in [Thread -> [Path -> Nat]]
      /\ \A u \in Thread, b \in Path :
            depth'[u][b] = IF u = t /\ b = p THEN depth[t][p] - 1 ELSE depth[u][b]
  <2>1. p \in Path /\ depth[t][p] > 0
    BY TopIsHeld DEF IInv, LeaveInner, Frame
  <2>2. /\ depth \in [Thread -> [Path -> Nat]] /\ depth[t][p] - 1 \in Nat
        /\ depth' = [depth EXCEPT ![t][p] = depth[t][p] - 1]
    BY <2>1 DEF IInv, TypeOK, LeaveInner
  <2>3. QED
    BY <2>1, <2>2, Update
<1>1. BodyInv' /\ frames' \in [Thread -> Seq(Frame)]
  BY LeavePreservesBodies DEF IInv, LeaveInner
<1>2. TypeOK'
  BY <1>0, <1>1 DEF IInv, TypeOK, LeaveInner, Goto, Location
<1>3. RLockInv'
  <2>1. \A u \in Thread :
            /\ pc[t] = "body"
            /\ pc'[u] = IF u = t THEN "rrelease" ELSE pc[u]
            /\ want'[u] = IF u = t THEN p ELSE want[u]
    BY DEF IInv, TypeOK, LeaveInner, Goto
  <2>2. depth \in [Thread -> [Path -> Nat]]
    BY DEF IInv, TypeOK
  <2>3. \A u \in Thread, b \in Path : Taken(u, b)' = Taken(u, b)
    <3> HIDE DEF p
    <3>1. QED
      BY <1>0, <2>1, <2>2 DEF Taken, InFlight
  <2>4. QED
    BY <2>3, SameRLocks DEF IInv, LeaveInner
<1>4. FileInv'
  BY <1>0 DEF IInv, TypeOK, LeaveInner, Goto, FileInv, FileLocked, FileOpening, FileClosing
<1>5. QED
  BY <1>1, <1>2, <1>3, <1>4 DEF IInv

LEMMA LeaveOuterPreserves ==
    ASSUME IInv, NEW t \in Thread, LeaveOuter(t)
    PROVE  IInv'
<1> USE RunLockAssumption
<1> DEFINE p == Top(t).path
<1>0. /\ p \in Path /\ depth[t][p] = 1
      /\ depth' \in [Thread -> [Path -> Nat]]
      /\ \A u \in Thread, b \in Path :
            depth'[u][b] = IF u = t /\ b = p THEN 0 ELSE depth[u][b]
  <2>1. p \in Path /\ depth[t][p] = 1
    BY TopIsHeld DEF IInv, LeaveOuter, Frame
  <2>2. /\ depth \in [Thread -> [Path -> Nat]]
        /\ depth' = [depth EXCEPT ![t][p] = 0]
    BY DEF IInv, TypeOK, LeaveOuter
  <2>3. QED
    BY <2>1, <2>2, Update
<1>1. depth' = [depth EXCEPT ![t][p] = depth[t][p] - 1]
  BY <1>0 DEF LeaveOuter
<1>2. BodyInv' /\ frames' \in [Thread -> Seq(Frame)]
  BY <1>1, LeavePreservesBodies DEF IInv, LeaveOuter
<1>3. TypeOK'
  BY <1>0, <1>2 DEF IInv, TypeOK, LeaveOuter, Goto, Location
<1>4. RLockInv'
  <2>1. \A u \in Thread :
            /\ pc[t] = "body"
            /\ pc'[u] = IF u = t THEN "unflock" ELSE pc[u]
            /\ want'[u] = IF u = t THEN p ELSE want[u]
    BY DEF IInv, TypeOK, LeaveOuter, Goto
  <2>2. depth \in [Thread -> [Path -> Nat]]
    BY DEF IInv, TypeOK
  <2>3. \A u \in Thread, b \in Path : Taken(u, b)' = Taken(u, b)
    <3> HIDE DEF p
    <3>1. QED
      BY <1>0, <2>1, <2>2 DEF Taken, InFlight
  <2>4. QED
    BY <2>3, SameRLocks DEF IInv, LeaveOuter
<1>5. FileInv'
  <2>1. /\ p \in Path
        /\ flock[p] = t /\ flock' = flock
        /\ \A u \in Thread : pc'[u] = IF u = t THEN "unflock" ELSE pc[u]
        /\ \A u \in Thread : want'[u] = IF u = t THEN p ELSE want[u]
        /\ \A u \in Thread, b \in Path :
              depth'[u][b] = IF u = t /\ b = p THEN 0 ELSE depth[u][b]
        /\ \A u \in Thread : want[u] \in Path
    BY <1>0 DEF IInv, TypeOK, LeaveOuter, Goto, FileInv, FileLocked
  <2> HIDE DEF p
  <2>2. FileLocked'
    BY <2>1 DEF IInv, FileInv, FileLocked
  <2>3. FileOpening'
    BY <2>1 DEF IInv, FileInv, FileOpening
  <2>4. FileClosing'
    BY <2>1 DEF IInv, FileInv, FileClosing
  <2> QED
    BY <2>2, <2>3, <2>4 DEF FileInv
<1>6. QED
  BY <1>2, <1>3, <1>4, <1>5 DEF IInv

LEMMA UnflockPreserves ==
    ASSUME IInv, NEW t \in Thread, Unflock(t)
    PROVE  IInv'
<1> USE RunLockAssumption
<1>1. TypeOK'
  BY DEF IInv, TypeOK, Unflock, Goto, Location
<1>2. BodyInv'
  BY SameBodies DEF IInv, Unflock
<1>3. RLockInv'
  <2>1. \A u \in Thread, b \in Path : Taken(u, b)' = Taken(u, b)
    BY DEF IInv, TypeOK, FileInv, FileOpening, Unflock, Goto, Taken, InFlight
  <2>2. QED
    BY <2>1, SameRLocks DEF IInv, Unflock
<1>4. FileInv'
  BY DEF IInv, TypeOK, Unflock, Goto, FileInv, FileLocked, FileOpening, FileClosing
<1>5. QED
  BY <1>1, <1>2, <1>3, <1>4 DEF IInv

LEMMA ReleaseRLockPreserves ==
    ASSUME IInv, NEW t \in Thread, ReleaseRLock(t)
    PROVE  IInv'
<1> USE RunLockAssumption
<1> DEFINE q == ProcOf[t]
           p == want[t]
<1> DEFINE owner == IF rcount[q][p] = 1 THEN NoThread ELSE t
<1>0. /\ q \in Process /\ p \in Path
      /\ Taken(t, p) \in Nat \ {0}
      /\ rowner[q][p] = t /\ rcount[q][p] = Taken(t, p)
  <2>1. q \in Process /\ p \in Path /\ depth[t][p] \in Nat
    BY DEF IInv, TypeOK
  <2>2. Taken(t, p) = depth[t][p] + 1
    BY DEF ReleaseRLock, Goto, Taken, InFlight
  <2>3. QED
    BY <2>1, <2>2 DEF IInv, RLockInv, RLockOwned, RLockCounts
<1>00. /\ rowner' \in [Process -> [Path -> Thread \cup {NoThread}]]
       /\ rcount' \in [Process -> [Path -> Nat]]
       /\ \A r \in Process, b \in Path :
             /\ rowner'[r][b] = IF r = q /\ b = p THEN owner ELSE rowner[r][b]
             /\ rcount'[r][b] = IF r = q /\ b = p THEN rcount[q][p] - 1 ELSE rcount[r][b]
  <2>1. /\ rowner \in [Process -> [Path -> Thread \cup {NoThread}]]
        /\ rcount \in [Process -> [Path -> Nat]]
        /\ rowner' = [rowner EXCEPT ![q][p] = owner]
        /\ rcount' = [rcount EXCEPT ![q][p] = rcount[q][p] - 1]
    BY DEF IInv, TypeOK, ReleaseRLock
  <2>2. rcount[q][p] - 1 \in Nat /\ owner \in Thread \cup {NoThread}
    BY <1>0
  <2>3. /\ rowner' \in [Process -> [Path -> Thread \cup {NoThread}]]
        /\ \A r \in Process, b \in Path :
              rowner'[r][b] = IF r = q /\ b = p THEN owner ELSE rowner[r][b]
    BY <1>0, <2>1, <2>2, Update
  <2>4. /\ rcount' \in [Process -> [Path -> Nat]]
        /\ \A r \in Process, b \in Path :
              rcount'[r][b] = IF r = q /\ b = p THEN rcount[q][p] - 1 ELSE rcount[r][b]
    BY <1>0, <2>1, <2>2, Update
  <2>5. QED
    BY <2>3, <2>4
<1>1. TypeOK'
  BY <1>0, <1>00 DEF IInv, TypeOK, ReleaseRLock, Goto, Location
<1>2. BodyInv'
  BY SameBodies DEF IInv, ReleaseRLock
<1>3. RLockInv'
  <2>1. \A u \in Thread, b \in Path :
            /\ Taken(u, b) \in Nat
            /\ Taken(u, b)' = Taken(u, b) - (IF u = t /\ b = p THEN 1 ELSE 0)
    <3>1. \A u \in Thread :
              /\ pc[t] = "rrelease"
              /\ pc'[u] = IF u = t THEN "body" ELSE pc[u]
      BY DEF IInv, TypeOK, ReleaseRLock, Goto
    <3>2. /\ depth \in [Thread -> [Path -> Nat]]
          /\ depth' = depth /\ want' = want
      BY DEF IInv, TypeOK, ReleaseRLock
    <3>3. QED
      BY <3>1, <3>2 DEF Taken, InFlight
  <2>2. \A u \in Thread : u # t /\ ProcOf[u] = q => Taken(u, p) = 0
    BY <1>0, <2>1 DEF IInv, RLockInv, RLockOwned
  <2>3. \A u \in Thread : ProcOf[u] \in Process
    OBVIOUS
  <2>4. RLockOwned'
    BY <1>0, <1>00, <2>1, <2>2, <2>3 DEF IInv, RLockInv, RLockOwned
  <2>5. RLockFree'
    <3> SUFFICES ASSUME NEW r \in Process, NEW b \in Path, rowner'[r][b] = NoThread
                 PROVE  rcount'[r][b] = 0
      BY DEF RLockFree
    <3>1. CASE r = q /\ b = p
      BY <1>0, <1>00, <3>1
    <3>2. CASE ~(r = q /\ b = p)
      <4>1. rowner[r][b] = NoThread /\ rcount'[r][b] = rcount[r][b]
        BY <1>00, <3>2
      <4>2. QED
        BY <4>1 DEF IInv, RLockInv, RLockFree
    <3>3. QED
      BY <3>1, <3>2
  <2>6. RLockCounts'
    BY <1>0, <1>00, <2>1, <2>2, <2>3 DEF IInv, RLockInv, RLockCounts
  <2>7. QED
    BY <2>4, <2>5, <2>6 DEF RLockInv
<1>4. FileInv'
  BY DEF IInv, TypeOK, ReleaseRLock, Goto, FileInv, FileLocked, FileOpening, FileClosing
<1>5. QED
  BY <1>1, <1>2, <1>3, <1>4 DEF IInv

LEMMA CrashPreserves ==
    ASSUME IInv, NEW q \in Process, Crash(q)
    PROVE  IInv'
<1> USE RunLockAssumption
<1>1. TypeOK'
  BY DEF IInv, TypeOK, Crash, Location
<1>2. BodyInv'
  <2>1. \A p \in Path : Cardinality(Positions(<<>>, p)) = 0
    BY FS_EmptySet DEF Positions
  <2>2. \A t \in Thread :
            IF ProcOf[t] = q
            THEN frames'[t] = <<>> /\ \A p \in Path : depth'[t][p] = 0
            ELSE frames'[t] = frames[t] /\ depth'[t] = depth[t]
    BY DEF Crash
  <2>3. QED
    BY <2>1, <2>2 DEF IInv, BodyInv, DepthIsBodies, OuterIsFirst
<1>3. RLockInv'
  BY DEF IInv, TypeOK, Crash, RLockInv, RLockOwned, RLockFree, RLockCounts, Taken, InFlight
<1>4. FileInv'
  BY DEF IInv, TypeOK, Crash, FileInv, FileLocked, FileOpening, FileClosing
<1>5. QED
  BY <1>1, <1>2, <1>3, <1>4 DEF IInv

LEMMA NextPreserves == IInv /\ [Next]_vars => IInv'
<1> SUFFICES ASSUME IInv, [Next]_vars PROVE IInv'
  OBVIOUS
<1>1. ASSUME NEW t \in Thread, Step(t) PROVE IInv'
  BY <1>1, AcquireRLockPreserves, ReenterPreserves, OpenLockFilePreserves, FlockPreserves,
     LeaveInnerPreserves, LeaveOuterPreserves, UnflockPreserves, ReleaseRLockPreserves
     DEF Step
<1>2. ASSUME NEW t \in Thread, LockFails(t) PROVE IInv'
  BY <1>2, LockFailsPreserves
<1>3. ASSUME NEW t \in Thread, NEW p \in Path, Call(t, p) PROVE IInv'
  BY <1>3, CallPreserves
<1>4. ASSUME NEW q \in Process, Crash(q) PROVE IInv'
  BY <1>4, CrashPreserves
<1>5. CASE UNCHANGED vars
  BY <1>5 DEF vars, IInv, TypeOK, BodyInv, DepthIsBodies, OuterIsFirst, RLockInv,
         RLockOwned, RLockFree, RLockCounts, Taken, InFlight, FileInv, FileLocked,
         FileOpening, FileClosing
<1>6. QED
  BY <1>1, <1>2, <1>3, <1>4, <1>5 DEF Next

(* A body of a path is open exactly while the depth of the path is above 0. *)
LEMMA HoldsIsDepth ==
    ASSUME IInv, NEW t \in Thread, NEW p \in Path
    PROVE  /\ depth[t][p] = Cardinality(Bodies(t, p))
           /\ Holds(t, p) => depth[t][p] > 0
<1>1. frames[t] \in Seq(Frame) /\ Bodies(t, p) = Positions(frames[t], p)
  BY DEF IInv, TypeOK, Bodies, Positions
<1>2. depth[t][p] = Cardinality(Bodies(t, p))
  BY <1>1 DEF IInv, BodyInv, DepthIsBodies
<1>3. Cardinality(Bodies(t, p)) \in Nat /\ (Cardinality(Bodies(t, p)) = 0 => ~Holds(t, p))
  BY <1>1, PositionsCount DEF Holds
<1>4. QED
  BY <1>2, <1>3

-----------------------------------------------------------------------------
(* Every reachable state satisfies the inductive invariant.                 *)
THEOREM Invariance == Spec => []IInv
BY InitEstablishes, NextPreserves, PTL DEF Spec

(* Types are kept: no recursion count and no depth drops below zero.        *)
THEOREM TypeCorrect == Spec => []TypeOK
<1>1. IInv => TypeOK
  BY DEF IInv
<1>2. QED
  BY <1>1, Invariance, PTL

(* For any number of threads, processes, paths and nested calls, with       *)
(* failures and crashes: bodies of one path belong to one thread.           *)
THEOREM Exclusive == Spec => []MutualExclusion
<1>1. IInv => MutualExclusion
  <2> SUFFICES ASSUME IInv, NEW t \in Thread, NEW u \in Thread, NEW p \in Path,
                      Holds(t, p), Holds(u, p)
               PROVE  t = u
    BY DEF MutualExclusion
  <2>1. depth[t][p] > 0 /\ depth[u][p] > 0
    BY HoldsIsDepth
  <2>2. QED
    BY <2>1 DEF IInv, FileInv, FileLocked
<1>2. QED
  BY <1>1, Invariance, PTL

(* assert_mutation_locked is never wrong, however the bodies are nested.    *)
THEOREM HeldExactly == Spec => []HeldIsExact
<1>1. IInv => HeldIsExact
  BY HoldsIsDepth DEF HeldIsExact
<1>2. QED
  BY <1>1, Invariance, PTL

(* The re-entrant lock is given back as often as it is taken.               *)
THEOREM Balanced == Spec => []RLockBalanced
<1>1. IInv => RLockBalanced
  <2> SUFFICES ASSUME IInv, NEW t \in Thread, NEW p \in Path, rowner[ProcOf[t]][p] = t
               PROVE  rcount[ProcOf[t]][p] =
                        Cardinality(Bodies(t, p)) +
                        (IF want[t] = p /\ pc[t] \in {"branch", "flock", "unflock", "rrelease"}
                         THEN 1 ELSE 0)
    BY DEF RLockBalanced
  <2>1. rcount[ProcOf[t]][p] = Taken(t, p)
    BY DEF IInv, RLockInv, RLockCounts
  <2>2. depth[t][p] = Cardinality(Bodies(t, p))
    BY HoldsIsDepth
  <2>3. QED
    BY <2>1, <2>2 DEF Taken, InFlight
<1>2. QED
  BY <1>1, Invariance, PTL
=============================================================================
