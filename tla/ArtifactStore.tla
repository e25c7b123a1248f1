--------------------------- MODULE ArtifactStore ---------------------------
(***************************************************************************)
(* unasked/artifacts.py: put_bytes, put_file and verify of the content-    *)
(* addressed store, called by concurrent threads and processes.  The store *)
(* takes no lock, and an object is two files, content and metadata, each   *)
(* replaced atomically (util.atomic_write).  A content is its own digest,  *)
(* which is what collision freedom gives.  Faults: a call raises or dies   *)
(* at any point, a file is damaged from outside, and the machine loses     *)
(* power: directories are not fsynced, so a rename may be undone.          *)
(***************************************************************************)
EXTENDS Naturals

CONSTANTS
    Actor,          \* the threads that use the store
    Value,          \* contents, and their digests
    Media,          \* what the metadata says besides the digest and the size
    Absent,         \* there is no such file
    Bad,            \* metadata that does not parse or does not fit
    MaxFaults       \* bound on damaged files and power losses

ASSUME StoreAssumption ==
    /\ Absent \notin Value \cup Media /\ Bad \notin Media /\ Bad # Absent
    /\ MaxFaults \in Nat

VARIABLES
    object,     \* the file at each address
    meta,       \* the sidecar of each address
    kept,       \* what of both a power loss cannot undo
    pc,         \* where each actor is in its call
    task,       \* its call: the address, the bytes and the metadata it brings
    seen,       \* what held of its address since the call began
    damaged,    \* the addresses that had a file damaged
    faults

files == <<object, meta>>
vars == <<object, meta, kept, pc, task, seen, damaged, faults>>

Location == {"idle", "copy", "look", "write", "validate", "find", "store", "load",
             "v_look", "v_meta", "v_hash", "stored", "raised", "valid", "invalid"}
Answer == {"stored", "raised", "valid", "invalid"}
Task == [digest : Value \cup {Absent}, data : Value \cup {Absent},
         media : Media \cup {Absent}]
NoTask == [digest |-> Absent, data |-> Absent, media |-> Absent]

Init ==
    /\ object = [d \in Value |-> Absent]
    /\ meta = [d \in Value |-> Absent]
    /\ kept = files
    /\ pc = [a \in Actor |-> "idle"]
    /\ task = [a \in Actor |-> NoTask]
    /\ seen = [a \in Actor |-> {}]
    /\ damaged = {}
    /\ faults = 0

(* What verify looks for: both files, and content that has its address.     *)
Verifies(d) == object[d] = d /\ meta[d] \in Media

Goto(a, from, to) == pc[a] = from /\ pc' = [pc EXCEPT ![a] = to]
Leave(a) == pc' = [pc EXCEPT ![a] = "idle"] /\ task' = [task EXCEPT ![a] = NoTask]
Branch(a, from, condition, yes, no) == Goto(a, from, IF condition THEN yes ELSE no)
Mine(a) == task[a].digest

-----------------------------------------------------------------------------
(* put_bytes: the digest of the bytes in memory.                            *)
PutBytes(a, v, m) ==
    /\ Goto(a, "idle", "look")
    /\ task' = [task EXCEPT ![a] = [digest |-> v, data |-> v, media |-> m]]
    /\ UNCHANGED <<files, kept, damaged, faults>>

(* put_file copies the source, which may change meanwhile, to a temporary   *)
(* file and digests what it copies.                                         *)
PutFile(a, m) ==
    /\ Goto(a, "idle", "copy")
    /\ task' = [task EXCEPT ![a].media = m]
    /\ UNCHANGED <<files, kept, damaged, faults>>
(* Seeded bug: the source is digested before it is copied.                  *)
CopyAfterDigest(a) ==
    /\ Goto(a, "copy", "look")
    /\ \E v, u \in Value :
           task' = [task EXCEPT ![a] = [digest |-> v, data |-> u, media |-> @.media]]
    /\ UNCHANGED <<files, kept, damaged, faults>>
Copy(a) ==
    /\ Goto(a, "copy", "look")
    /\ \E v \in Value :
           task' = [task EXCEPT ![a] = [digest |-> v, data |-> v, media |-> @.media]]
    /\ UNCHANGED <<files, kept, damaged, faults>>

Look(a) ==
    /\ Branch(a, "look", object[Mine(a)] = Absent, "write", "validate")
    /\ UNCHANGED <<files, kept, task, damaged, faults>>

(* The file is moved to its address whatever is there by now.               *)
Write(a) ==
    /\ Goto(a, "write", "validate")
    /\ object' = [object EXCEPT ![Mine(a)] = task[a].data]
    /\ UNCHANGED <<meta, kept, task, damaged, faults>>

(* Seeded bug: of an existing content only the size is compared.            *)
ValidateSize(a) ==
    /\ Branch(a, "validate", object[Mine(a)] # Absent, "find", "raised")
    /\ UNCHANGED <<files, kept, task, damaged, faults>>
Validate(a) ==
    /\ Branch(a, "validate", object[Mine(a)] = Mine(a), "find", "raised")
    /\ UNCHANGED <<files, kept, task, damaged, faults>>

(* Seeded bug: the metadata is written whether or not there is any.         *)
FindNothing(a) ==
    /\ Goto(a, "find", "store")
    /\ UNCHANGED <<files, kept, task, damaged, faults>>
Find(a) ==
    /\ Branch(a, "find", meta[Mine(a)] = Absent, "store", "load")
    /\ UNCHANGED <<files, kept, task, damaged, faults>>

Store(a) ==
    /\ Goto(a, "store", "load")
    /\ meta' = [meta EXCEPT ![Mine(a)] = task[a].media]
    /\ UNCHANGED <<object, kept, task, damaged, faults>>

(* The metadata that put returns is the one that is there.                  *)
Load(a) ==
    /\ Branch(a, "load", meta[Mine(a)] \in Media, "stored", "raised")
    /\ UNCHANGED <<files, kept, task, damaged, faults>>

-----------------------------------------------------------------------------
(* verify: is there content, is there metadata, has the content its digest? *)
Verify(a, d) ==
    /\ Goto(a, "idle", "v_look")
    /\ task' = [task EXCEPT ![a].digest = d]
    /\ UNCHANGED <<files, kept, damaged, faults>>
VerifyLook(a) ==
    /\ Branch(a, "v_look", object[Mine(a)] = Absent, "invalid", "v_meta")
    /\ UNCHANGED <<files, kept, task, damaged, faults>>
VerifyMeta(a) ==
    /\ Branch(a, "v_meta", meta[Mine(a)] \in Media, "v_hash", "invalid")
    /\ UNCHANGED <<files, kept, task, damaged, faults>>
(* Seeded bug: the size is compared and the digest is not.                  *)
VerifySize(a) ==
    /\ Branch(a, "v_hash", object[Mine(a)] # Absent, "valid", "invalid")
    /\ UNCHANGED <<files, kept, task, damaged, faults>>
VerifyHash(a) ==
    /\ Branch(a, "v_hash", object[Mine(a)] = Mine(a), "valid", "invalid")
    /\ UNCHANGED <<files, kept, task, damaged, faults>>

(* The caller takes the answer.                                             *)
Return(a) ==
    /\ pc[a] \in Answer
    /\ Leave(a)
    /\ UNCHANGED <<files, kept, damaged, faults>>

-----------------------------------------------------------------------------
(* Seeded bug: a put that fails removes what is at its address.             *)
FailCleaningUp(a) ==
    /\ pc[a] \notin Answer \cup {"idle"} /\ Leave(a)
    /\ object' = IF pc[a] \in {"validate", "find", "store", "load"}
                 THEN [object EXCEPT ![Mine(a)] = Absent] ELSE object
    /\ UNCHANGED <<meta, kept, damaged, faults>>
(* A call raises, or its thread dies, before its next step.                 *)
Fail(a) ==
    /\ pc[a] \notin Answer \cup {"idle"}
    /\ Leave(a)
    /\ UNCHANGED <<files, kept, damaged, faults>>

Fault == faults < MaxFaults /\ faults' = faults + 1

Damage(d) ==
    /\ Fault
    /\ \/ \E x \in (Value \cup {Absent}) \ {d} :
              object' = [object EXCEPT ![d] = x] /\ UNCHANGED meta
       \/ \E x \in {Absent, Bad} :
              meta' = [meta EXCEPT ![d] = x] /\ UNCHANGED object
    /\ damaged' = damaged \cup {d}
    /\ UNCHANGED <<kept, pc, task>>

(* The operating system writes the directories out.                         *)
Flush ==
    /\ kept # files
    /\ kept' = files
    /\ UNCHANGED <<files, pc, task, damaged, faults>>

(* Of the renames since then any may be undone.                             *)
PowerLoss ==
    /\ Fault
    /\ object' \in [Value -> Value \cup {Absent}]
    /\ meta' \in [Value -> Media \cup {Absent, Bad}]
    /\ \A d \in Value : /\ object'[d] \in {object[d], kept[1][d]}
                        /\ meta'[d] \in {meta[d], kept[2][d]}
    /\ kept' = files'
    /\ pc' = [a \in Actor |-> "idle"]
    /\ task' = [a \in Actor |-> NoTask]
    /\ UNCHANGED damaged

(* What an observer of the address notes from the call's first look on.     *)
Noted(d) ==
    {IF object'[d] = d /\ meta'[d] \in Media THEN "yes" ELSE "no"}
    \cup (IF faults' # faults /\ <<object'[d], meta'[d]>> # <<object[d], meta[d]>>
          THEN {"damaged"} ELSE {})
Observe ==
    seen' = [a \in Actor |->
        IF pc'[a] \in {"idle", "copy"} THEN {}
        ELSE Noted(task'[a].digest)
             \cup (IF pc'[a] \in {"look", "v_look"} THEN {} ELSE seen[a])]

Call(a) ==
    \/ \E m \in Media : PutFile(a, m) \/ \E v \in Value : PutBytes(a, v, m)
    \/ \E d \in Value : Verify(a, d)
Step(a) ==
    \/ Copy(a) \/ Look(a) \/ Write(a) \/ Validate(a) \/ Find(a) \/ Store(a) \/ Load(a)
    \/ VerifyLook(a) \/ VerifyMeta(a) \/ VerifyHash(a) \/ Return(a)

Next ==
    /\ \/ \E a \in Actor : Call(a) \/ Step(a) \/ Fail(a)
       \/ \E d \in Value : Damage(d)
       \/ Flush \/ PowerLoss
    /\ Observe

Spec == Init /\ [][Next]_vars

-----------------------------------------------------------------------------
TypeOK ==
    /\ object \in [Value -> Value \cup {Absent}]
    /\ meta \in [Value -> Media \cup {Absent, Bad}]
    /\ kept \in [Value -> Value \cup {Absent}] \X [Value -> Media \cup {Absent, Bad}]
    /\ pc \in [Actor -> Location]
    /\ task \in [Actor -> Task]
    /\ seen \in [Actor -> SUBSET {"yes", "no", "damaged"}]
    /\ damaged \subseteq Value
    /\ faults \in 0..MaxFaults

(* Unless somebody damaged it, a file has the content of its address: no    *)
(* race of puts, no changing source, no death and no power loss puts        *)
(* another there.                                                           *)
AddressIsDigest ==
    \A d \in Value : object[d] \in {Absent, d} \/ d \in damaged

(* A put returns only for an object that was complete at some moment of the *)
(* call, although it looks at the two files one after the other: also when  *)
(* it finds the content another put left without metadata.                  *)
PutIsSound ==
    \A a \in Actor : pc[a] = "stored" => seen[a] \cap {"yes", "damaged"} # {}

(* What verify says of an object was so at some moment of the call.         *)
VerdictIsSound ==
    \A a \in Actor :
        /\ pc[a] = "valid" => seen[a] \cap {"yes", "damaged"} # {}
        /\ pc[a] = "invalid" => seen[a] \cap {"no", "damaged"} # {}

(* An object that verifies goes on verifying, whatever calls fail, until it *)
(* is damaged or the power is lost.                                         *)
CompleteStaysComplete ==
    [][\A d \in Value :
          Verifies(d) => Verifies(d)' \/ faults' # faults]_vars

(* A put whose call began when the object was complete never touches its    *)
(* metadata, although it brings its own: only puts that overlap with the    *)
(* first one can.                                                           *)
LatePutKeepsMetadata ==
    [][\A d \in Value :
          meta[d] \in Media /\ meta'[d] # meta[d] =>
              \/ faults' # faults
              \/ \E a \in Actor : Mine(a) = d /\ pc[a] = "store" /\ "no" \in seen[a]]_vars
=============================================================================
