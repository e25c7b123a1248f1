------------------------------ MODULE RunLock ------------------------------
(***************************************************************************)
(* The two-level lock of unasked/locking.py: a re-entrant lock per process *)
(* and path, then one operating-system lock on the file at that path.      *)
(* Thread t runs in process ProcOf[t].  Below[p] are the locks a caller    *)
(* must already hold when it asks for p: a ledger lock is only ever taken  *)
(* inside its run's mutation lock (Project.append_event).                  *)
(***************************************************************************)
EXTENDS Naturals, Sequences, FiniteSets

CONSTANTS
    Thread,     \* the threads of all processes
    Process,    \* the cooperating processes
    ProcOf,     \* the process each thread runs in
    Path,       \* the lock files
    Below,      \* the paths that must be held before a path is asked for
    MaxCalls,   \* how many locks a thread may ask for per outermost body
    NoThread    \* the owner of a free lock

ASSUME RunLockAssumption ==
    /\ ProcOf \in [Thread -> Process]
    /\ Below \in [Path -> SUBSET Path]
    /\ MaxCalls \in Nat
    /\ NoThread \notin Thread

VARIABLES
    rowner,     \* owner of the RLock of a process and a path
    rcount,     \* recursion count of that RLock
    flock,      \* the thread whose descriptor holds the OS lock of a path
    depth,      \* the thread-local dictionary _LOCAL.depths
    frames,     \* the open "with" bodies of a thread, outermost first
    calls,      \* calls made since the thread last held nothing
    want,       \* the path the thread is locking or unlocking
    pc          \* where the thread is in exclusive_file_lock

vars == <<rowner, rcount, flock, depth, frames, calls, want, pc>>

Branch == {"outer", "inner"}
Frame == [path : Path, branch : Branch]
Location == {"body", "rlock", "branch", "flock", "unflock", "rrelease"}

Bodies(t, p) == {i \in DOMAIN frames[t] : frames[t][i].path = p}
Holds(t, p) == Bodies(t, p) # {}
Top(t) == frames[t][Len(frames[t])]
Enter(t, branch) ==
    frames' = [frames EXCEPT ![t] = Append(@, [path |-> want[t], branch |-> branch])]
Leave(t) ==
    frames' = [frames EXCEPT ![t] = SubSeq(@, 1, Len(@) - 1)]
Goto(t, from, to) == pc[t] = from /\ pc' = [pc EXCEPT ![t] = to]

(* file_lock_held_by_current_thread *)
HeldByCurrentThread(t, p) == depth[t][p] > 0

Init ==
    /\ rowner = [q \in Process |-> [p \in Path |-> NoThread]]
    /\ rcount = [q \in Process |-> [p \in Path |-> 0]]
    /\ flock = [p \in Path |-> NoThread]
    /\ depth = [t \in Thread |-> [p \in Path |-> 0]]
    /\ frames = [t \in Thread |-> <<>>]
    /\ calls = [t \in Thread |-> 0]
    /\ want \in [Thread -> Path]
    /\ pc = [t \in Thread |-> "body"]

(* Seeded bug: a ledger lock asked for outside the mutation lock.           *)
CallInAnyOrder(t, p) ==
    /\ Goto(t, "body", "rlock")
    /\ calls[t] < MaxCalls
    /\ want' = [want EXCEPT ![t] = p]
    /\ calls' = [calls EXCEPT ![t] = @ + 1]
    /\ UNCHANGED <<rowner, rcount, flock, depth, frames>>

(* A body opens "with exclusive_file_lock(p)"; asking for p without holding *)
(* what lies below it is refused by assert_mutation_locked.                 *)
Call(t, p) ==
    /\ Goto(t, "body", "rlock")
    /\ calls[t] < MaxCalls
    /\ \A b \in Below[p] : HeldByCurrentThread(t, b)
    /\ want' = [want EXCEPT ![t] = p]
    /\ calls' = [calls EXCEPT ![t] = @ + 1]
    /\ UNCHANGED <<rowner, rcount, flock, depth, frames>>

(* "with thread_lock": blocks while another thread of the process owns it.  *)
AcquireRLock(t) ==
    LET q == ProcOf[t] p == want[t] IN
    /\ Goto(t, "rlock", "branch")
    /\ rowner[q][p] \in {NoThread, t}
    /\ rowner' = [rowner EXCEPT ![q][p] = t]
    /\ rcount' = [rcount EXCEPT ![q][p] = @ + 1]
    /\ UNCHANGED <<flock, depth, frames, calls, want>>

(* The thread holds the path already: count, and run the body.              *)
Reenter(t) ==
    /\ Goto(t, "branch", "body")
    /\ depth[t][want[t]] > 0
    /\ depth' = [depth EXCEPT ![t][want[t]] = @ + 1]
    /\ Enter(t, "inner")
    /\ UNCHANGED <<rowner, rcount, flock, calls, want>>

OpenLockFile(t) ==
    /\ Goto(t, "branch", "flock")
    /\ depth[t][want[t]] = 0
    /\ UNCHANGED <<rowner, rcount, flock, depth, frames, calls, want>>

(* Seeded bug: the error path forgets the RLock.                            *)
FailKeepingRLock(t) ==
    /\ Goto(t, "flock", "body")
    /\ UNCHANGED <<rowner, rcount, flock, depth, frames, calls, want>>

(* Opening fails, the path is no regular file, or the OS lock call raises:  *)
(* depths.pop finds nothing, nothing is unlocked, the RLock is given back.  *)
LockFails(t) ==
    /\ Goto(t, "flock", "rrelease")
    /\ depth' = [depth EXCEPT ![t][want[t]] = 0]
    /\ UNCHANGED <<rowner, rcount, flock, frames, calls, want>>

(* Seeded bug: LOCK_NB, and its failure ignored.                            *)
FlockWithoutWaiting(t) ==
    /\ Goto(t, "flock", "body")
    /\ flock' = [flock EXCEPT ![want[t]] = t]
    /\ depth' = [depth EXCEPT ![t][want[t]] = 1]
    /\ Enter(t, "outer")
    /\ UNCHANGED <<rowner, rcount, calls, want>>

(* fcntl.flock(LOCK_EX): blocks while any other descriptor holds the lock.  *)
Flock(t) ==
    /\ Goto(t, "flock", "body")
    /\ flock[want[t]] = NoThread
    /\ flock' = [flock EXCEPT ![want[t]] = t]
    /\ depth' = [depth EXCEPT ![t][want[t]] = 1]
    /\ Enter(t, "outer")
    /\ UNCHANGED <<rowner, rcount, calls, want>>

(* Seeded bug: the inner "finally" pops the depth instead of lowering it.   *)
LeaveInnerPopping(t) ==
    /\ Goto(t, "body", "rrelease")
    /\ frames[t] # <<>> /\ Top(t).branch = "inner"
    /\ want' = [want EXCEPT ![t] = Top(t).path]
    /\ depth' = [depth EXCEPT ![t][Top(t).path] = 0]
    /\ Leave(t)
    /\ UNCHANGED <<rowner, rcount, flock, calls>>

(* The innermost body ends, normally or by an exception.                    *)
LeaveInner(t) ==
    /\ Goto(t, "body", "rrelease")
    /\ frames[t] # <<>> /\ Top(t).branch = "inner"
    /\ want' = [want EXCEPT ![t] = Top(t).path]
    /\ depth' = [depth EXCEPT ![t][Top(t).path] = @ - 1]
    /\ Leave(t)
    /\ UNCHANGED <<rowner, rcount, flock, calls>>

LeaveOuter(t) ==
    /\ Goto(t, "body", "unflock")
    /\ frames[t] # <<>> /\ Top(t).branch = "outer"
    /\ want' = [want EXCEPT ![t] = Top(t).path]
    /\ depth' = [depth EXCEPT ![t][Top(t).path] = 0]
    /\ Leave(t)
    /\ UNCHANGED <<rowner, rcount, flock, calls>>

Unflock(t) ==
    /\ Goto(t, "unflock", "rrelease")
    /\ flock' = [flock EXCEPT ![want[t]] = NoThread]
    /\ UNCHANGED <<rowner, rcount, depth, frames, calls, want>>

ReleaseRLock(t) ==
    LET q == ProcOf[t] p == want[t] IN
    /\ Goto(t, "rrelease", "body")
    /\ rcount' = [rcount EXCEPT ![q][p] = @ - 1]
    /\ rowner' = [rowner EXCEPT ![q][p] = IF rcount[q][p] = 1 THEN NoThread ELSE t]
    /\ calls' = [calls EXCEPT ![t] = IF frames[t] = <<>> THEN 0 ELSE @]
    /\ UNCHANGED <<flock, depth, frames, want>>

(* A process dies: its descriptors close, so the OS releases their locks;   *)
(* a process started in its place has fresh locks and fresh thread locals.  *)
Crash(q) ==
    LET dead == {t \in Thread : ProcOf[t] = q}
        Reset(f, v) == [t \in Thread |-> IF t \in dead THEN v ELSE f[t]]
    IN
    /\ rowner' = [rowner EXCEPT ![q] = [p \in Path |-> NoThread]]
    /\ rcount' = [rcount EXCEPT ![q] = [p \in Path |-> 0]]
    /\ flock' = [p \in Path |-> IF flock[p] \in dead THEN NoThread ELSE flock[p]]
    /\ depth' = Reset(depth, [p \in Path |-> 0])
    /\ frames' = Reset(frames, <<>>)
    /\ calls' = Reset(calls, 0)
    /\ pc' = Reset(pc, "body")
    /\ UNCHANGED want

(* What the interpreter and the OS keep scheduling: a call that was made    *)
(* goes on, a body ends.  Making a call, failing and dying are not promised.*)
Step(t) ==
    \/ AcquireRLock(t) \/ Reenter(t) \/ OpenLockFile(t) \/ Flock(t)
    \/ LeaveInner(t) \/ LeaveOuter(t) \/ Unflock(t) \/ ReleaseRLock(t)

Next ==
    \/ \E t \in Thread : Step(t) \/ LockFails(t) \/ \E p \in Path : Call(t, p)
    \/ \E q \in Process : Crash(q)

Spec == Init /\ [][Next]_vars
FairSpec == Spec /\ \A t \in Thread : WF_vars(Step(t))

-----------------------------------------------------------------------------
TypeOK ==
    /\ rowner \in [Process -> [Path -> Thread \cup {NoThread}]]
    /\ rcount \in [Process -> [Path -> Nat]]
    /\ flock \in [Path -> Thread \cup {NoThread}]
    /\ depth \in [Thread -> [Path -> Nat]]
    /\ frames \in [Thread -> Seq(Frame)]
    /\ calls \in [Thread -> 0..MaxCalls]
    /\ want \in [Thread -> Path]
    /\ pc \in [Thread -> Location]

(* The answer assert_mutation_locked relies on is exact whenever a body     *)
(* runs: the thread-local depth of a path is the number of its open bodies, *)
(* at any nesting, after failures and after crashes.                        *)
HeldIsExact ==
    \A t \in Thread, p \in Path :
        pc[t] = "body" => depth[t][p] = Cardinality(Bodies(t, p))

(* Two threads, of one process or of two, are never inside bodies of the    *)
(* same path: every read-then-write of a run rests on this.                 *)
MutualExclusion ==
    \A t, u \in Thread, p \in Path : Holds(t, p) /\ Holds(u, p) => t = u

(* The re-entrant lock is given back exactly as often as it was taken, on   *)
(* the path where the OS lock was refused too.                              *)
RLockBalanced ==
    \A t \in Thread, p \in Path :
        rowner[ProcOf[t]][p] = t =>
            rcount[ProcOf[t]][p] =
                Cardinality(Bodies(t, p)) +
                (IF want[t] = p /\ pc[t] \in {"branch", "flock", "unflock", "rrelease"}
                 THEN 1 ELSE 0)

(* No lock is held for ever: nested requests cannot wait on one another in  *)
(* a circle, because a path is asked for only while what is below it is     *)
(* held.                                                                    *)
EveryHoldEnds ==
    \A t \in Thread, p \in Path : Holds(t, p) ~> ~Holds(t, p)
=============================================================================
