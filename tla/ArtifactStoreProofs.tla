------------------------ MODULE ArtifactStoreProofs ------------------------
(***************************************************************************)
(* Theorems about ArtifactStore for any actors, contents, metadata and     *)
(* number of faults.                                                       *)
(***************************************************************************)
EXTENDS ArtifactStore, TLAPS

Putting == {"look", "write", "validate", "find", "store", "load", "stored"}

(* A put past its copy brings the bytes of its address and some metadata.   *)
TaskOf(a) ==
    /\ pc[a] \notin {"idle", "copy"} => Mine(a) \in Value
    /\ pc[a] \in Putting \cup {"copy"} => task[a].media \in Media
    /\ pc[a] \in Putting => task[a].data = Mine(a)
TaskInv == \A a \in Actor : TaskOf(a)

(* What is at an address, and what a power loss brings back there.          *)
AddressInv ==
    \A d \in Value :
        \/ object[d] \in {Absent, d} /\ kept[1][d] \in {Absent, d}
        \/ d \in damaged

(* What a call has found holds still, or a fault undid it in its sight.     *)
FoundOf(a) ==
    /\ pc[a] \in {"find", "store", "load"} =>
           object[Mine(a)] = Mine(a) \/ "damaged" \in seen[a]
    /\ pc[a] = "store" => "no" \in seen[a]
    /\ pc[a] = "v_hash" => meta[Mine(a)] \in Media \/ "damaged" \in seen[a]
    /\ pc[a] \in {"stored", "valid"} => seen[a] \cap {"yes", "damaged"} # {}
    /\ pc[a] = "invalid" => seen[a] \cap {"no", "damaged"} # {}
FoundInv == \A a \in Actor : FoundOf(a)

IInv == TypeOK /\ TaskInv /\ AddressInv /\ FoundInv

-----------------------------------------------------------------------------
(* The invariant holds at first.                                            *)
LEMMA InitIInv == ASSUME Init PROVE IInv
<1>1. TypeOK
  BY StoreAssumption DEF Init, TypeOK, Location, Task, NoTask, files
<1>2. AddressInv
  BY DEF Init, AddressInv, files
<1>3. \A a \in Actor : pc[a] = "idle"
  BY DEF Init
<1> QED
  BY <1>1, <1>2, <1>3
  DEF IInv, TaskInv, TaskOf, FoundInv, FoundOf, Putting

(* What a step does to the files, faults apart: an address keeps its        *)
(* content, or gets it, and good metadata stays good.                       *)
FileStep ==
    \A d \in Value :
        /\ object'[d] \in {object[d], d} \/ faults' # faults
        /\ meta'[d] \in {meta[d]} \cup Media \/ faults' # faults
QuietActor(b) == pc'[b] = pc[b] /\ task'[b] = task[b]

(* A step of a call keeps the types.                                        *)
LEMMA ActorTypes ==
    ASSUME IInv, NEW a \in Actor, Call(a) \/ Step(a) \/ Fail(a), Observe
    PROVE  /\ TypeOK' /\ FileStep /\ UNCHANGED <<kept, damaged, faults>>
           /\ \A b \in Actor \ {a} : QuietActor(b)
<1> USE DEF IInv, TypeOK, Goto, Branch, Leave, Mine, QuietActor
<1>1. FileStep /\ object' \in [Value -> Value \cup {Absent}]
               /\ meta' \in [Value -> Media \cup {Absent, Bad}]
  <2>1. CASE Write(a)
    BY <2>1 DEF Write, TaskInv, TaskOf, Putting, FileStep
  <2>2. CASE Store(a)
    BY <2>2 DEF Store, TaskInv, TaskOf, Putting, FileStep
  <2>3. CASE ~Write(a) /\ ~Store(a)
    <3>1. UNCHANGED files
      BY <2>3 DEF Call, Step, Fail, PutFile, PutBytes, Verify, Copy, Look, Validate,
         Find, Load, VerifyLook, VerifyMeta, VerifyHash, Return
    <3> QED
      BY <3>1 DEF files, FileStep
  <2> QED
    BY <2>1, <2>2, <2>3
<1>2. UNCHANGED <<kept, damaged, faults>>
  BY DEF Call, Step, Fail, PutFile, PutBytes, Verify, Copy, Look, Write, Validate,
     Find, Store, Load, VerifyLook, VerifyMeta, VerifyHash, Return
<1>3. /\ pc' \in [Actor -> Location]
      /\ \A b \in Actor \ {a} : pc'[b] = pc[b]
  BY DEF Call, Step, Fail, PutFile, PutBytes, Verify, Copy, Look, Write, Validate,
     Find, Store, Load, VerifyLook, VerifyMeta, VerifyHash, Return, Location
<1>4. \E t \in Task : task' = [task EXCEPT ![a] = t]
  <2>1. ASSUME NEW m \in Media, PutFile(a, m)
        PROVE  \E t \in Task : task' = [task EXCEPT ![a] = t]
    <3>1. [task[a] EXCEPT !.media = m] \in Task
      BY DEF Task
    <3> QED
      BY <2>1, <3>1 DEF PutFile
  <2>2. ASSUME NEW m \in Media, NEW v \in Value, PutBytes(a, v, m)
        PROVE  \E t \in Task : task' = [task EXCEPT ![a] = t]
    <3>1. [digest |-> v, data |-> v, media |-> m] \in Task
      BY DEF Task
    <3> QED
      BY <2>2, <3>1 DEF PutBytes
  <2>3. ASSUME NEW d \in Value, Verify(a, d)
        PROVE  \E t \in Task : task' = [task EXCEPT ![a] = t]
    <3>1. [task[a] EXCEPT !.digest = d] \in Task
      BY DEF Task
    <3> QED
      BY <2>3, <3>1 DEF Verify
  <2>4. CASE Copy(a)
    <3>1. PICK v \in Value :
              task' = [task EXCEPT ![a] = [digest |-> v, data |-> v, media |-> @.media]]
      BY <2>4 DEF Copy
    <3>2. [digest |-> v, data |-> v, media |-> task[a].media] \in Task
      BY DEF Task
    <3> QED
      BY <3>1, <3>2
  <2>5. CASE Return(a) \/ Fail(a)
    <3>1. NoTask \in Task
      BY DEF Task, NoTask
    <3> QED
      BY <2>5, <3>1 DEF Return, Fail
  <2>6. CASE UNCHANGED task
    <3>1. task[a] \in Task /\ task = [task EXCEPT ![a] = task[a]]
      OBVIOUS
    <3> QED
      BY <2>6, <3>1
  <2> QED
    BY <2>1, <2>2, <2>3, <2>4, <2>5, <2>6
    DEF Call, Step, Look, Write, Validate, Find, Store, Load, VerifyLook, VerifyMeta, VerifyHash
<1>5. seen' \in [Actor -> SUBSET {"yes", "no", "damaged"}]
  BY DEF Observe, Noted
<1> QED
  BY <1>1, <1>2, <1>3, <1>4, <1>5

(* A call that goes on adds to what it has noted.                           *)
LEMMA Noting ==
    ASSUME TypeOK, Observe, NEW b \in Actor,
           pc'[b] \notin {"idle", "copy", "look", "v_look"}
    PROVE  seen'[b] = Noted(task'[b].digest) \cup seen[b]
BY DEF Observe

(* A step of a call keeps TaskInv.                                          *)
LEMMA ActorTask ==
    ASSUME IInv, NEW a \in Actor, Call(a) \/ Step(a) \/ Fail(a), Observe
    PROVE  TaskInv'
<1> USE DEF IInv, TypeOK, Goto, Branch, Leave, Mine, QuietActor, TaskInv, TaskOf
<1>1. TypeOK' /\ \A b \in Actor \ {a} : QuietActor(b)
  BY ActorTypes
<1>2. ASSUME NEW b \in Actor, b # a PROVE TaskOf(b)'
  BY <1>1, <1>2
<1>3. TaskOf(a)'
  <2> USE DEF Putting
  <2>1. ASSUME NEW m \in Media, PutFile(a, m) PROVE TaskOf(a)'
    BY <2>1 DEF PutFile
  <2>2. ASSUME NEW m \in Media, NEW v \in Value, PutBytes(a, v, m) PROVE TaskOf(a)'
    BY <2>2 DEF PutBytes
  <2>3. ASSUME NEW d \in Value, Verify(a, d) PROVE TaskOf(a)'
    BY <2>3 DEF Verify
  <2>4. CASE Copy(a)
    BY <2>4 DEF Copy
  <2>5. CASE Look(a)
    BY <2>5 DEF Look
  <2>6. CASE Write(a)
    BY <2>6 DEF Write
  <2>7. CASE Validate(a)
    BY <2>7 DEF Validate
  <2>8. CASE Find(a)
    BY <2>8 DEF Find
  <2>9. CASE Store(a)
    BY <2>9 DEF Store
  <2>10. CASE Load(a)
    BY <2>10 DEF Load
  <2>11. CASE VerifyLook(a)
    BY <2>11 DEF VerifyLook
  <2>12. CASE VerifyMeta(a)
    BY <2>12 DEF VerifyMeta
  <2>13. CASE VerifyHash(a)
    BY <2>13 DEF VerifyHash
  <2>14. CASE Return(a)
    BY <2>14 DEF Return, Answer
  <2>15. CASE Fail(a)
    BY <2>15 DEF Fail, Answer
  <2> QED
    BY <2>1, <2>2, <2>3, <2>4, <2>5, <2>6, <2>7, <2>8, <2>9, <2>10, <2>11, <2>12, <2>13, <2>14, <2>15 DEF Call, Step
<1> QED
  BY <1>2, <1>3

(* A step of a call keeps FoundInv, its own and the one of the others.      *)
LEMMA ActorFound ==
    ASSUME IInv, NEW a \in Actor, Call(a) \/ Step(a) \/ Fail(a), Observe
    PROVE  FoundInv'
<1> USE DEF IInv, TypeOK, Mine, FoundInv, FoundOf
<1>1. /\ TypeOK' /\ FileStep /\ UNCHANGED <<kept, damaged, faults>>
      /\ \A b \in Actor \ {a} : QuietActor(b)
  BY ActorTypes
<1>2. ASSUME NEW b \in Actor, b # a PROVE FoundOf(b)'
  <2>1. pc'[b] = pc[b] /\ task'[b] = task[b]
    BY <1>1, <1>2 DEF QuietActor
  <2>2. CASE pc[b] \in {"idle", "copy", "look", "v_look"}
    BY <2>1, <2>2
  <2>3. CASE pc[b] \notin {"idle", "copy", "look", "v_look"}
    <3>1. seen[b] \subseteq seen'[b]
      BY <2>1, <2>3, Noting
    <3>2. Mine(b) \in Value
      BY <2>3 DEF TaskInv, TaskOf
    <3> QED
      BY <1>1, <2>1, <3>1, <3>2 DEF FileStep
  <2> QED
    BY <2>2, <2>3
<1>3. FoundOf(a)'
  <2> USE DEF Goto, Branch, Leave
  <2>0. ASSUME UNCHANGED <<files, task, faults>>,
               pc'[a] \notin {"idle", "copy", "look", "v_look"}
        PROVE  seen'[a] = seen[a] \cup {IF Verifies(Mine(a)) THEN "yes" ELSE "no"}
    BY <2>0, Noting DEF Noted, Verifies, files
  <2>1. ASSUME NEW m \in Media, PutFile(a, m) PROVE FoundOf(a)'
    BY <2>1 DEF PutFile
  <2>2. ASSUME NEW m \in Media, NEW v \in Value, PutBytes(a, v, m) PROVE FoundOf(a)'
    BY <2>2 DEF PutBytes
  <2>3. ASSUME NEW d \in Value, Verify(a, d) PROVE FoundOf(a)'
    BY <2>3 DEF Verify
  <2>4. CASE Copy(a)
    BY <2>4, <1>1 DEF Copy
  <2>5. CASE Look(a)
    BY <2>5, <1>1 DEF Look
  <2>6. CASE Write(a)
    BY <2>6, <1>1 DEF Write
  <2>7. CASE Validate(a)
    BY <2>7, <2>0, <1>1 DEF Validate, Verifies, files, TaskInv, TaskOf, Putting
  <2>8. CASE Find(a)
    BY <2>8, <2>0, <1>1, StoreAssumption DEF Find, Verifies, files, TaskInv, TaskOf, Putting
  <2>9. CASE Store(a)
    BY <2>9, <1>1, Noting DEF Store
  <2>10. CASE Load(a)
    BY <2>10, <2>0, <1>1 DEF Load, Verifies, files, TaskInv, TaskOf, Putting
  <2>11. CASE VerifyLook(a)
    <3>1. /\ UNCHANGED <<files, task, faults>>
          /\ pc[a] = "v_look" /\ pc'[a] \in {"invalid", "v_meta"}
          /\ pc'[a] = "invalid" <=> object[Mine(a)] = Absent
      BY <2>11, <1>1 DEF VerifyLook
    <3>2. seen'[a] = seen[a] \cup {IF Verifies(Mine(a)) THEN "yes" ELSE "no"}
      BY <3>1, <2>0
    <3>3. Mine(a) \in Value
      BY <3>1 DEF TaskInv, TaskOf
    <3>4. pc'[a] = "invalid" => "no" \in seen'[a]
      BY <3>1, <3>2, <3>3, StoreAssumption DEF Verifies
    <3> QED
      BY <3>1, <3>4 DEF FoundOf
  <2>12. CASE VerifyMeta(a)
    BY <2>12, <2>0, <1>1 DEF VerifyMeta, Verifies, files, TaskInv, TaskOf, Putting
  <2>13. CASE VerifyHash(a)
    BY <2>13, <2>0, <1>1 DEF VerifyHash, Verifies, files, TaskInv, TaskOf, Putting
  <2>14. CASE Return(a)
    BY <2>14, <1>1 DEF Return, Answer
  <2>15. CASE Fail(a)
    BY <2>15, <1>1 DEF Fail, Answer
  <2> QED
    BY <2>1, <2>2, <2>3, <2>4, <2>5, <2>6, <2>7, <2>8, <2>9, <2>10, <2>11, <2>12, <2>13, <2>14, <2>15 DEF Call, Step
<1> QED
  BY <1>2, <1>3

(* Of the steps of the system only Damage and Flush touch AddressInv.       *)
LEMMA ActorAddress ==
    ASSUME IInv, NEW a \in Actor, Call(a) \/ Step(a) \/ Fail(a), Observe
    PROVE  AddressInv'
<1>1. FileStep /\ UNCHANGED <<kept, damaged, faults>>
  BY ActorTypes
<1> QED
  BY <1>1 DEF IInv, AddressInv, FileStep

(* Damage is seen by every call that looks.                                 *)
LEMMA DamageStep ==
    ASSUME IInv, NEW d \in Value, Damage(d), Observe
    PROVE  IInv'
<1> USE DEF IInv, TypeOK, Damage, Fault, Mine
<1>1. TypeOK'
  <2>1. seen' \in [Actor -> SUBSET {"yes", "no", "damaged"}]
    BY DEF Observe, Noted
  <2>2. faults' \in 0..MaxFaults
    BY StoreAssumption
  <2>3. object' \in [Value -> Value \cup {Absent}] /\ damaged' \subseteq Value
    OBVIOUS
  <2>4. meta' \in [Value -> Media \cup {Absent, Bad}]
    OBVIOUS
  <2>5. UNCHANGED <<kept, pc, task>>
    OBVIOUS
  <2> HIDE DEF Damage, Fault
  <2> QED
    BY <2>1, <2>2, <2>3, <2>4, <2>5
<1>2. TaskInv'
  <2>1. TaskInv /\ pc' = pc /\ task' = task
    OBVIOUS
  <2> HIDE DEF IInv, TypeOK, Damage, Fault
  <2> QED
    BY <2>1 DEF TaskInv, TaskOf
<1>3. AddressInv'
  BY DEF AddressInv
<1>4. ASSUME NEW a \in Actor PROVE FoundOf(a)'
  <2>1. CASE pc[a] \in {"idle", "copy", "look", "v_look"}
    BY <2>1 DEF FoundOf
  <2>2. CASE pc[a] \notin {"idle", "copy", "look", "v_look"}
    <3>1. seen'[a] = Noted(Mine(a)) \cup seen[a]
      BY <2>2, Noting DEF Noted
    <3>2. Mine(a) \in Value
      BY <2>2 DEF TaskInv, TaskOf
    <3>3. \/ "damaged" \in seen'[a]
          \/ object'[Mine(a)] = object[Mine(a)] /\ meta'[Mine(a)] = meta[Mine(a)]
      BY <3>1 DEF Noted
    <3> QED
      BY <3>1, <3>2, <3>3 DEF FoundInv, FoundOf
  <2> QED
    BY <2>1, <2>2
<1> QED
  BY <1>1, <1>2, <1>3, <1>4 DEF FoundInv

(* What reaches the disk was in the files.                                  *)
LEMMA FlushStep ==
    ASSUME IInv, Flush, Observe
    PROVE  IInv'
<1> USE DEF IInv, TypeOK, Flush, files, Mine
<1>1. TypeOK'
  <2>1. seen' \in [Actor -> SUBSET {"yes", "no", "damaged"}]
    BY DEF Observe, Noted
  <2> QED
    BY <2>1
<1>2. TaskInv'
  BY DEF TaskInv, TaskOf
<1>3. AddressInv'
  BY DEF AddressInv
<1>4. ASSUME NEW a \in Actor PROVE FoundOf(a)'
  <2>1. CASE pc[a] \in {"idle", "copy", "look", "v_look"}
    BY <2>1 DEF FoundOf
  <2>2. CASE pc[a] \notin {"idle", "copy", "look", "v_look"}
    <3>1. seen[a] \subseteq seen'[a]
      BY <2>2, Noting
    <3> QED
      BY <3>1 DEF FoundInv, FoundOf
  <2> QED
    BY <2>1, <2>2
<1> QED
  BY <1>1, <1>2, <1>3, <1>4 DEF FoundInv

(* A power loss ends every call.                                            *)
LEMMA PowerLossStep ==
    ASSUME IInv, PowerLoss, Observe
    PROVE  IInv'
<1> USE DEF IInv, TypeOK, PowerLoss, Fault, files
<1>1. TypeOK'
  <2>1. seen' \in [Actor -> SUBSET {"yes", "no", "damaged"}]
    BY DEF Observe, Noted
  <2>2. faults' \in 0..MaxFaults
    BY StoreAssumption
  <2>3. task' \in [Actor -> Task] /\ pc' \in [Actor -> Location]
    BY DEF Task, NoTask, Location
  <2> QED
    BY <2>1, <2>2, <2>3
<1>2. \A a \in Actor : pc'[a] = "idle"
  OBVIOUS
<1>3. TaskInv' /\ FoundInv'
  BY <1>2 DEF TaskInv, TaskOf, FoundInv, FoundOf, Putting
<1>4. AddressInv'
  BY DEF AddressInv
<1> QED
  BY <1>1, <1>3, <1>4

(* A step that changes nothing keeps the invariant.                         *)
LEMMA Stuttering == ASSUME IInv, UNCHANGED vars PROVE IInv'
BY DEF IInv, vars, TypeOK, TaskInv, TaskOf, AddressInv, FoundInv, FoundOf, Mine

(* Every step keeps the invariant.                                          *)
LEMMA NextIInv == ASSUME IInv, [Next]_vars PROVE IInv'
<1>1. ASSUME NEW a \in Actor, Call(a) \/ Step(a) \/ Fail(a), Observe PROVE IInv'
  BY <1>1, ActorTypes, ActorTask, ActorFound, ActorAddress DEF IInv
<1>2. ASSUME NEW d \in Value, Damage(d), Observe PROVE IInv'
  BY <1>2, DamageStep
<1> QED
  BY <1>1, <1>2, FlushStep, PowerLossStep, Stuttering DEF Next

(* The invariant of the specification.                                      *)
LEMMA Invariant == Spec => []IInv
<1>1. Init => IInv
  BY InitIInv
<1>2. IInv /\ [Next]_vars => IInv'
  BY NextIInv
<1> QED
  BY <1>1, <1>2, PTL DEF Spec

-----------------------------------------------------------------------------
(* The type invariant of the store, its history variables included.         *)
THEOREM TypeCorrect == Spec => []TypeOK
<1>1. IInv => TypeOK
  BY DEF IInv
<1> QED
  BY <1>1, Invariant, PTL

(* Unless it was damaged, an address holds nothing or the content whose     *)
(* digest it is: over races, changing sources, deaths and power losses.     *)
THEOREM AddressesHold == Spec => []AddressIsDigest
<1>1. IInv => AddressIsDigest
  BY DEF IInv, AddressInv, AddressIsDigest
<1> QED
  BY <1>1, Invariant, PTL

(* put_bytes and put_file return only for an object that was complete at    *)
(* some moment of the call, or was spoiled under their eyes.                *)
THEOREM PutsAreSound == Spec => []PutIsSound
<1>1. IInv => PutIsSound
  BY DEF IInv, FoundInv, FoundOf, PutIsSound
<1> QED
  BY <1>1, Invariant, PTL

(* verify answers what was so at some moment of the call.                   *)
THEOREM VerdictsAreSound == Spec => []VerdictIsSound
<1>1. IInv => VerdictIsSound
  BY DEF IInv, FoundInv, FoundOf, VerdictIsSound
<1> QED
  BY <1>1, Invariant, PTL

(* No call, complete, failing or dying, spoils an object that verifies.     *)
THEOREM CompleteStays == Spec => CompleteStaysComplete
<1>1. ASSUME IInv, Next
      PROVE  \A d \in Value : Verifies(d) => Verifies(d)' \/ faults' # faults
  <2>1. ASSUME NEW a \in Actor, Call(a) \/ Step(a) \/ Fail(a), Observe
        PROVE  \A d \in Value : Verifies(d) => Verifies(d)'
    <3>1. FileStep /\ UNCHANGED faults
      BY <1>1, <2>1, ActorTypes
    <3> QED
      BY <3>1 DEF FileStep, Verifies
  <2>2. ASSUME NEW d \in Value, Damage(d) \/ PowerLoss PROVE faults' # faults
    BY <1>1, <2>2 DEF Damage, PowerLoss, Fault, IInv, TypeOK
  <2>3. CASE Flush
    BY <2>3 DEF Flush, Verifies, files
  <2> QED
    BY <1>1, <2>1, <2>2, <2>3 DEF Next
<1>2. IInv /\ [Next]_vars =>
        [\A d \in Value : Verifies(d) => Verifies(d)' \/ faults' # faults]_vars
  BY <1>1
<1> QED
  BY <1>2, Invariant, PTL DEF Spec, CompleteStaysComplete

(* Metadata is replaced only by a put that has seen the object incomplete.  *)
THEOREM LatePutsKeep == Spec => LatePutKeepsMetadata
<1>1. ASSUME IInv, Next, NEW d \in Value, meta[d] \in Media, meta'[d] # meta[d],
             faults' = faults
      PROVE  \E a \in Actor : Mine(a) = d /\ pc[a] = "store" /\ "no" \in seen[a]
  <2>1. PICK a \in Actor : Call(a) \/ Step(a) \/ Fail(a)
    BY <1>1 DEF Next, Damage, PowerLoss, Fault, Flush, files, IInv, TypeOK
  <2>2. Store(a)
    BY <1>1, <2>1
    DEF Call, Step, Fail, PutFile, PutBytes, Verify, Copy, Look, Write, Validate,
        Find, Load, VerifyLook, VerifyMeta, VerifyHash, Return, files
  <2>3. pc[a] = "store" /\ Mine(a) = d
    BY <1>1, <2>2 DEF Store, Goto, IInv, TypeOK
  <2> QED
    BY <1>1, <2>3 DEF IInv, FoundInv, FoundOf
<1>2. IInv /\ [Next]_vars =>
        [\A d \in Value :
            meta[d] \in Media /\ meta'[d] # meta[d] =>
                \/ faults' # faults
                \/ \E a \in Actor : Mine(a) = d /\ pc[a] = "store" /\ "no" \in seen[a]]_vars
  BY <1>1
<1> QED
  BY <1>2, Invariant, PTL DEF Spec, LatePutKeepsMetadata
=============================================================================
