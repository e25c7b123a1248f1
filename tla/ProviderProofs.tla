-------------------------- MODULE ProviderProofs --------------------------
(***************************************************************************)
(* The safety of one call of a provider, for every number of descendants,  *)
(* every limit and every size of a read.  The invariants are layered: the  *)
(* types and sizes, then what a signal to the group leaves behind, then    *)
(* how the leader ended, then what the readers have seen.                  *)
(***************************************************************************)
EXTENDS Provider, TLAPS

USE ProviderAssumption

(* What is buffered fits the limit, what was copied was buffered, what was  *)
(* read was written.                                                        *)
Sizes ==
    /\ Buffered <= Limit
    /\ response.stdout <= kept["stdout"] /\ response.stderr <= kept["stderr"]
    /\ \A s \in Stream : taken[s] <= wrote[s]
SizeInv == TypeOK /\ Sizes

Past == main \notin {"verifying", "waiting", "closing"}
TreeInv ==
    /\ main = "verifying" =>
          /\ ~terminated /\ \A s \in Stream : reader[s] = "idle"
          /\ \A p \in Process : place[p] = "unborn"
    /\ terminated /\ ~refused => Group = {}
    /\ Past /\ ~refused => Group = {}

Answering == {"checking", "copying", "copying stderr", "returned"}
LeaderInv ==
    /\ code = "killed" => overflow \/ late
    /\ \A s \in Stream : reader[s] = "killing" => overflow
    /\ main \notin {"verifying", "waiting"} /\ ~late => ~Alive("leader")
    /\ main \in {"verifying", "waiting"} \cup Answering => ~late
    /\ KilledIsFlagged

(* What a reader that ended without a failure or an overflow has seen.      *)
Complete(s) ==
    /\ \A p \in Process : ~Alive(p)
    /\ kept[s] = wrote[s]
Ended(s) == reader[s] = "done"
Seen(s) ==
    /\ reader[s] \in {"reading", "counting"} => overflow \/ kept[s] + chunk[s] = taken[s]
    /\ reader[s] # "counting" => chunk[s] = 0
    /\ Ended(s) => overflow \/ s \in broken \/ Complete(s)
    /\ reader[s] = "idle" => kept[s] = 0 /\ taken[s] = 0
ReaderInv == \A s \in Stream : Seen(s)

JoinInv ==
    /\ main \in {"joining stderr"} \cup Answering => Ended("stdout") \/ "stdout" \in lapsed
    /\ main \in Answering => Ended("stderr") \/ "stderr" \in lapsed

ResponseInv ==
    main \in {"copying", "copying stderr", "returned"} /\ lapsed \cap Stream = {} =>
        /\ overflow => response.exit = "75"
        /\ main # "copying" => response.stdout = kept["stdout"]
        /\ main = "returned" => response.stderr = kept["stderr"]

Inv == SizeInv /\ TreeInv /\ LeaderInv /\ ReaderInv /\ JoinInv /\ ResponseInv

-----------------------------------------------------------------------------
(* Terminating the tree kills at most; what is left of the group is nothing *)
(* unless the signal was refused, and a leader that changes how it ended    *)
(* was alive.                                                               *)
LEMMA TerminateEffects ==
    ASSUME TypeOK, Terminate, terminated /\ ~refused => Group = {}
    PROVE  /\ terminated'
           /\ place' \in [Process -> Place] /\ code' \in {"running", "exited", "killed"}
           /\ refused' \in BOOLEAN
           /\ ~refused' => Group' = {}
           /\ \A p \in Process : place'[p] = place[p] \/ place'[p] = "dead"
           /\ code' = code \/ (code' = "killed" /\ Alive("leader"))
           /\ UNCHANGED <<intact, wrote>>
  <1>1. CASE terminated /\ UNCHANGED <<place, code, refused>>
    BY <1>1 DEF Terminate, TypeOK, Group
  <1>2. CASE KillGroup
    <2>1. /\ place' = [p \in Process |-> IF p \in Group THEN "dead" ELSE place[p]]
          /\ code' = IF "leader" \in Group /\ code = "running" THEN "killed" ELSE code
          /\ UNCHANGED refused
      BY <1>2 DEF KillGroup, Killed, CodeAfter
    <2>2. Group' = {}
      BY <2>1 DEF Group
    <2> QED  BY <2>1, <2>2 DEF Terminate, TypeOK, Group, Place, Alive
  <1>3. CASE GroupRefused
    <2> DEFINE leader == {"leader"} \cap Group
    <2>1. /\ place' = [p \in Process |-> IF p \in leader THEN "dead" ELSE place[p]]
          /\ code' = IF "leader" \in leader /\ code = "running" THEN "killed" ELSE code
          /\ refused' = TRUE
      BY <1>3 DEF GroupRefused, Killed, CodeAfter
    <2> QED  BY <2>1 DEF Terminate, TypeOK, Group, Place, Alive
  <1> QED  BY <1>1, <1>2, <1>3 DEF Terminate

(* The provider's processes start no group again once it is gone, write     *)
(* nothing once none is alive, and never bring the leader back.             *)
LEMMA ProgramEffects ==
    ASSUME TypeOK, ProgramStep
    PROVE  /\ place' \in [Process -> Place] /\ code' \in {code, "exited"} /\ intact' \in BOOLEAN
           /\ wrote' \in [Stream -> Nat]
           /\ Group = {} => Group' = {}
           /\ (\A p \in Process : ~Alive(p)) =>
                 (\A p \in Process : ~Alive(p)') /\ wrote' = wrote
           /\ ~Alive("leader") => ~Alive("leader")'
           /\ \A s \in Stream : wrote[s] <= wrote'[s]
           /\ main = "verifying" => \E p \in Process : place[p] # "unborn"
           /\ UNCHANGED <<readerVars, request, mainVars, treeVars>>
  <1> DEFINE Effects ==
               /\ place' \in [Process -> Place] /\ code' \in {code, "exited"}
               /\ intact' \in BOOLEAN /\ wrote' \in [Stream -> Nat]
               /\ Group = {} => Group' = {}
               /\ (\A p \in Process : ~Alive(p)) =>
                     (\A p \in Process : ~Alive(p)') /\ wrote' = wrote
               /\ ~Alive("leader") => ~Alive("leader")'
               /\ \A s \in Stream : wrote[s] <= wrote'[s]
               /\ main = "verifying" => \E p \in Process : place[p] # "unborn"
  <1>1. UNCHANGED <<readerVars, request, mainVars, treeVars>>
    BY DEF ProgramStep
  <1>2. (wrote' = wrote) => \A s \in Stream : wrote[s] <= wrote'[s]
    <2> SUFFICES ASSUME NEW s \in Stream  PROVE wrote[s] <= wrote[s]
      OBVIOUS
    <2>1. wrote[s] \in Nat
      BY DEF TypeOK
    <2> QED  BY <2>1
  <1>3. ASSUME NEW p \in Process, Exit(p)  PROVE Effects
    <2>1. wrote \in [Stream -> Nat] /\ wrote' = wrote /\ intact' = intact
      BY <1>3 DEF Exit, TypeOK
    <2> QED  BY <1>2, <1>3, <2>1 DEF TypeOK, Exit, Running, Place, Group, Alive, Process
  <1>4. ASSUME NEW p \in Process, Tamper(p)  PROVE Effects
    <2>1. place' = place /\ code' = code /\ wrote' = wrote /\ intact' = FALSE
      BY <1>4 DEF Tamper
    <2>2. Group' = Group
      BY <2>1 DEF Group
    <2>3. \A q \in Process : Alive(q)' = Alive(q)
      BY <2>1 DEF Alive
    <2>4. place \in [Process -> Place] /\ wrote \in [Stream -> Nat]
      BY DEF TypeOK
    <2>5. main # "verifying"
      BY <1>4 DEF Tamper, Running
    <2>6. "leader" \in Process
      BY DEF Process
    <2> QED  BY <1>2, <2>1, <2>2, <2>3, <2>4, <2>5, <2>6
  <1>5. ASSUME NEW p \in Process, NEW s \in Stream, Write(p, s)  PROVE Effects
    <2>1. wrote' = [wrote EXCEPT ![s] = @ + 1] /\ wrote \in [Stream -> Nat]
      BY <1>5 DEF Write, TypeOK
    <2>2. \A t \in Stream : wrote[t] <= wrote'[t]
      BY <2>1
    <2>3. wrote' \in [Stream -> Nat]
      BY <2>1
    <2> QED  BY <2>2, <2>3, <1>5 DEF TypeOK, Write, Running, Group, Alive
  <1>6. ASSUME NEW d \in Descendant, Escape(d)  PROVE Effects
    BY <1>2, <1>6 DEF TypeOK, Escape, Place, Group, Alive, Process
  <1>7. ASSUME NEW d \in Descendant, NEW p \in Process, Fork(p, d)  PROVE Effects
    BY <1>2, <1>7 DEF TypeOK, Fork, Running, Place, Group, Alive, Process
  <1> QED  BY <1>1, <1>3, <1>4, <1>5, <1>6, <1>7 DEF ProgramStep

(* The joins only move on; what they note is which thread was not done.     *)
LEMMA JoinsEffects ==
    ASSUME TypeOK, Joins
    PROVE  /\ UNCHANGED <<place, code, intact, wrote, taken, kept, chunk, reader, broken, overflow,
                          request, terminated, refused, late, response>>
           /\ lapsed' \in SUBSET (Stream \cup {"request"})
           /\ main = "joining request" => main' = "joining stdout"
           /\ main = "joining stdout" =>
                 main' = "joining stderr" /\ (Ended("stdout") \/ "stdout" \in lapsed')
           /\ main = "joining stderr" =>
                 /\ main' = IF late THEN "raised" ELSE "checking"
                 /\ Ended("stderr") \/ "stderr" \in lapsed'
           /\ main \in {"joining request", "joining stdout", "joining stderr"}
           /\ lapsed \subseteq lapsed'
  <1>1. CASE Join("joining request", "request", request = "done", "joining stdout")
    BY <1>1 DEF Join, TypeOK, processVars, readerVars, treeVars
  <1>2. CASE Join("joining stdout", "stdout", reader["stdout"] = "done", "joining stderr")
    BY <1>2 DEF Join, TypeOK, Stream, Ended, processVars, readerVars, treeVars
  <1>3. CASE Join("joining stderr", "stderr", reader["stderr"] = "done",
                  IF late THEN "raised" ELSE "checking")
    BY <1>3 DEF Join, TypeOK, Stream, Ended, processVars, readerVars, treeVars
  <1> QED  BY <1>1, <1>2, <1>3 DEF Joins

(* The copies change the response alone.                                    *)
LEMMA CopyEffects ==
    ASSUME TypeOK, Copy
    PROVE  /\ UNCHANGED <<place, code, intact, wrote, taken, kept, chunk, reader, broken, overflow,
                          request, terminated, refused, late, lapsed>>
           /\ response' \in [exit : {"none", "75", "running", "exited", "killed"},
                              stdout : Nat, stderr : Nat]
           /\ response'.exit = response.exit
           /\ \/ /\ main = "copying" /\ main' = "copying stderr"
                 /\ response'.stdout = kept["stdout"] /\ response'.stderr = response.stderr
              \/ /\ main = "copying stderr" /\ main' = "returned"
                 /\ response'.stdout = response.stdout /\ response'.stderr = kept["stderr"]
  <1>1. response \in [exit : {"none", "75", "running", "exited", "killed"},
                      stdout : Nat, stderr : Nat]
    BY DEF TypeOK
  <1>2. kept["stdout"] \in Nat /\ kept["stderr"] \in Nat
    BY DEF TypeOK, Stream
  <1>3. UNCHANGED <<place, code, intact, wrote, taken, kept, chunk, reader, broken, overflow,
                    request, terminated, refused, late, lapsed>>
    BY DEF Copy, processVars, readerVars, treeVars
  <1>4. \/ main = "copying" /\ main' = "copying stderr"
           /\ response' = [response EXCEPT !.stdout = kept["stdout"]]
        \/ main = "copying stderr" /\ main' = "returned"
           /\ response' = [response EXCEPT !.stderr = kept["stderr"]]
    BY DEF Copy
  <1> QED  BY <1>1, <1>2, <1>3, <1>4

(* A step of a reader alone keeps the types when it keeps the readers'.      *)
LEMMA ReaderTypes ==
    ASSUME TypeOK, UNCHANGED <<processVars, request, mainVars, treeVars>>,
           taken' \in [Stream -> Nat], kept' \in [Stream -> Nat], chunk' \in [Stream -> Nat],
           reader' \in [Stream -> {"idle", "reading", "counting", "flagging", "killing", "done"}],
           broken' \in SUBSET Stream, overflow' \in BOOLEAN
    PROVE  TypeOK'
  <1>1. /\ place' \in [Process -> Place] /\ code' \in {"running", "exited", "killed"}
        /\ intact' \in BOOLEAN /\ wrote' \in [Stream -> Nat]
    BY DEF TypeOK, processVars
  <1>2. /\ request' \in {"idle", "writing", "done"}
        /\ terminated' \in BOOLEAN /\ refused' \in BOOLEAN
    BY DEF TypeOK, treeVars
  <1>3. /\ late' \in BOOLEAN /\ lapsed' \in SUBSET (Stream \cup {"request"})
        /\ main' \in {"verifying", "waiting", "closing", "reaping", "joining request",
                       "joining stdout", "joining stderr", "checking", "copying",
                       "copying stderr", "returned", "raised"}
    BY DEF TypeOK, mainVars
  <1>4. response' \in [exit : {"none", "75", "running", "exited", "killed"},
                       stdout : Nat, stderr : Nat]
    BY DEF TypeOK, mainVars
  <1> QED  BY <1>1, <1>2, <1>3, <1>4 DEF TypeOK

(* Every step keeps the types.                                             *)
LEMMA TypeStep ==
    ASSUME SizeInv, TreeInv
    PROVE  [Next]_vars => TypeOK'
  <1>1. CASE Start
    BY <1>1 DEF Start, SizeInv, TypeOK, Stream, Place, Process, treeVars
  <1>2. CASE Waited
    BY <1>2 DEF Waited, SizeInv, TypeOK, Alive, processVars, readerVars,
       treeVars, Quiet
  <1>3. CASE Close
    <2>1. TypeOK /\ Terminate /\ (terminated /\ ~refused => Group = {})
      BY <1>3 DEF Close, SizeInv, TreeInv
    <2>2. /\ place' \in [Process -> Place] /\ code' \in {"running", "exited", "killed"}
          /\ refused' \in BOOLEAN /\ UNCHANGED <<intact, wrote>>
      BY <2>1, TerminateEffects
    <2>3. terminated' = TRUE
      BY <2>1 DEF Terminate
    <2> QED  BY <2>1, <2>2, <2>3, <1>3 DEF Close, TypeOK, Quiet, readerVars
  <1>4. CASE Reap
    BY <1>4 DEF Reap, SizeInv, TypeOK, processVars, readerVars, treeVars,
       Quiet
  <1>5. CASE Joins
    <2>1. TypeOK  BY DEF SizeInv
    <2>2. main' \in {"joining stdout", "joining stderr", "raised", "checking"}
      BY <2>1, <1>5, JoinsEffects
    <2> QED  BY <2>1, <2>2, <1>5, JoinsEffects DEF TypeOK
  <1>6. CASE Check
    BY <1>6 DEF Check, SizeInv, TypeOK, processVars, readerVars, treeVars
  <1>7. CASE Copy
    <2>1. TypeOK  BY DEF SizeInv
    <2> QED  BY <2>1, <1>7, CopyEffects DEF TypeOK
  <1>8. ASSUME NEW s \in Stream, Read(s)  PROVE TypeOK'
    <2>1. taken \in [Stream -> Nat] /\ wrote \in [Stream -> Nat] /\ chunk \in [Stream -> Nat]
          /\ taken[s] <= wrote[s] /\ Chunk \in Nat
      BY DEF SizeInv, TypeOK, Sizes
    <2>2. Smaller(Chunk, wrote[s] - taken[s]) \in Nat
      BY <2>1 DEF Smaller
    <2>3. taken' \in [Stream -> Nat] /\ chunk' \in [Stream -> Nat]
      BY <2>1, <2>2, <1>8 DEF Read
    <2>4. reader' \in [Stream -> {"idle", "reading", "counting", "flagging", "killing", "done"}]
      BY <1>8 DEF Read, SizeInv, TypeOK
    <2>5. /\ UNCHANGED <<processVars, request, mainVars, treeVars>>
          /\ UNCHANGED <<kept, broken, overflow>>
      BY <1>8 DEF Read
    <2> QED  BY <2>3, <2>4, <2>5, ReaderTypes DEF SizeInv, TypeOK
  <1>9. ASSUME NEW s \in Stream, Count(s)  PROVE TypeOK'
    <2>1. kept \in [Stream -> Nat] /\ chunk \in [Stream -> Nat] /\ Limit \in Nat
      BY DEF SizeInv, TypeOK
    <2>2. Limit - Buffered \in Nat
      BY <2>1 DEF SizeInv, Sizes, Buffered, Stream
    <2>3. Smaller(chunk[s], Limit - Buffered) \in Nat
      BY <2>1, <2>2 DEF Smaller
    <2>4. kept' \in [Stream -> Nat] /\ chunk' \in [Stream -> Nat]
      BY <2>1, <2>3, <1>9 DEF Count
    <2>5. reader' \in [Stream -> {"idle", "reading", "counting", "flagging", "killing", "done"}]
      BY <1>9 DEF Count, SizeInv, TypeOK
    <2>6. /\ UNCHANGED <<processVars, request, mainVars, treeVars>>
          /\ UNCHANGED <<taken, broken, overflow>>
      BY <1>9 DEF Count
    <2> QED  BY <2>4, <2>5, <2>6, ReaderTypes DEF SizeInv, TypeOK
  <1>10. ASSUME NEW s \in Stream, GiveUp(s)  PROVE TypeOK'
    <2>1. /\ taken' = taken /\ kept' = kept /\ chunk' = chunk /\ broken' = broken
          /\ request' = request /\ main' = main /\ late' = late /\ lapsed' = lapsed
          /\ response' = response
      BY <1>10 DEF GiveUp, mainVars
    <2>2. reader' \in [Stream -> {"idle", "reading", "counting", "flagging", "killing", "done"}]
      <3>1. \E next \in {"killing", "done"} : reader' = [reader EXCEPT ![s] = next]
        BY <1>10 DEF GiveUp
      <3> QED  BY <3>1 DEF SizeInv, TypeOK
    <2>0. overflow' \in BOOLEAN
      BY <1>10 DEF GiveUp, SizeInv, TypeOK
    <2>3. CASE UNCHANGED <<processVars, treeVars>>
      <3>1. UNCHANGED <<processVars, request, mainVars, treeVars>>
        BY <2>1, <2>3 DEF mainVars
      <3> QED  BY <2>0, <2>1, <2>2, <3>1, ReaderTypes DEF SizeInv, TypeOK
    <2>4. CASE Terminate
      <3>1. /\ place' \in [Process -> Place] /\ code' \in {"running", "exited", "killed"}
            /\ refused' \in BOOLEAN /\ UNCHANGED <<intact, wrote>>
        BY <2>4, TerminateEffects DEF SizeInv, TreeInv
      <3>2. terminated' = TRUE
        BY <2>4 DEF Terminate
      <3> QED  BY <2>0, <2>1, <2>2, <3>1, <3>2 DEF SizeInv, TypeOK
    <2> QED  BY <2>3, <2>4, <1>10 DEF GiveUp
  <1>11. ASSUME NEW s \in Stream, ReadFails(s)  PROVE TypeOK'
    <2>1. reader' \in [Stream -> {"idle", "reading", "counting", "flagging", "killing", "done"}]
      BY <1>11 DEF ReadFails, SizeInv, TypeOK
    <2>2. broken' \in SUBSET Stream
      BY <1>11 DEF ReadFails, SizeInv, TypeOK
    <2>3. /\ UNCHANGED <<processVars, request, mainVars, treeVars>>
          /\ UNCHANGED <<taken, kept, chunk, overflow>>
      BY <1>11 DEF ReadFails
    <2> QED  BY <2>1, <2>2, <2>3, ReaderTypes DEF SizeInv, TypeOK
  <1>12. CASE WriteRequest
    BY <1>12 DEF WriteRequest, SizeInv, TypeOK, processVars, readerVars,
       mainVars, treeVars
  <1>13. CASE ProgramStep
    BY <1>13, ProgramEffects DEF SizeInv, TypeOK, readerVars, mainVars,
       treeVars
  <1>14. CASE UNCHANGED vars
    BY <1>14 DEF SizeInv, TypeOK, processVars, readerVars, mainVars, treeVars,
       vars
  <1> QED
    BY <1>1, <1>2, <1>3, <1>4, <1>5, <1>6, <1>7, <1>8, <1>9, <1>10, <1>11, <1>12,
       <1>13, <1>14 DEF Next, MainStep, Drain

(* Every step keeps the sizes: a reader adds what fits, the caller copies   *)
(* what is there.                                                           *)
LEMMA SizesStep ==
    ASSUME SizeInv, TreeInv
    PROVE  [Next]_vars => Sizes'
  <1>1. CASE Start
    BY <1>1 DEF Start, SizeInv, Sizes, Buffered, treeVars
  <1>2. CASE Waited
    BY <1>2 DEF Waited, SizeInv, Sizes, Buffered, processVars, readerVars,
       treeVars, Quiet
  <1>3. CASE Close
    BY <1>3, TerminateEffects DEF Close, SizeInv, Sizes, Buffered, TreeInv,
       processVars, readerVars, treeVars, Quiet
  <1>4. CASE Reap
    BY <1>4 DEF Reap, SizeInv, Sizes, Buffered, processVars, readerVars,
       treeVars, Quiet
  <1>5. CASE Joins
    BY <1>5, JoinsEffects DEF SizeInv, Sizes, Buffered
  <1>6. CASE Check
    BY <1>6 DEF Check, SizeInv, TypeOK, Sizes, Buffered, processVars,
       readerVars, treeVars
  <1>7. CASE Copy
    <2>1. kept["stdout"] \in Nat /\ kept["stderr"] \in Nat
      BY DEF SizeInv, TypeOK, Stream
    <2>2. UNCHANGED <<taken, kept, wrote>>
      BY <1>7, CopyEffects DEF SizeInv
    <2>3. /\ response'.stdout \in {response.stdout, kept["stdout"]}
          /\ response'.stderr \in {response.stderr, kept["stderr"]}
      BY <1>7, CopyEffects DEF SizeInv
    <2>4. response'.stdout <= kept["stdout"] /\ response'.stderr <= kept["stderr"]
      BY <2>1, <2>3 DEF SizeInv, Sizes
    <2> QED  BY <2>2, <2>4 DEF SizeInv, Sizes, Buffered
  <1>8. ASSUME NEW s \in Stream, Read(s)  PROVE Sizes'
    <2>1. taken \in [Stream -> Nat] /\ wrote \in [Stream -> Nat] /\ Chunk \in Nat
          /\ \A t \in Stream : taken[t] <= wrote[t]
      BY DEF SizeInv, TypeOK, Sizes
    <2>2. taken' = [taken EXCEPT ![s] = @ + Smaller(Chunk, wrote[s] - taken[s])]
      BY <1>8 DEF Read
    <2>3. /\ Smaller(Chunk, wrote[s] - taken[s]) \in Nat
          /\ Smaller(Chunk, wrote[s] - taken[s]) <= wrote[s] - taken[s]
      BY <2>1 DEF Smaller
    <2>4. ASSUME NEW t \in Stream  PROVE taken'[t] <= wrote[t]
      BY <2>1, <2>2, <2>3
    <2>5. wrote' = wrote /\ kept' = kept /\ response' = response
      BY <1>8 DEF Read, processVars, mainVars
    <2> QED  BY <2>4, <2>5 DEF SizeInv, Sizes, Buffered
  <1>9. ASSUME NEW s \in Stream, Count(s)  PROVE Sizes'
    <2>1. kept \in [Stream -> Nat] /\ chunk \in [Stream -> Nat] /\ Limit \in Nat
          /\ "stdout" \in Stream /\ "stderr" \in Stream
      BY DEF SizeInv, TypeOK, Stream
    <2>2. Limit - Buffered \in Nat
      BY <2>1 DEF SizeInv, Sizes, Buffered
    <2> DEFINE n == Smaller(chunk[s], Limit - Buffered)
    <2>3. n \in Nat /\ n <= Limit - Buffered
      BY <2>1, <2>2 DEF Smaller
    <2>4. kept' = [kept EXCEPT ![s] = @ + n]
      BY <1>9 DEF Count
    <2>5. s = "stdout" \/ s = "stderr"
      BY DEF Stream
    <2>6. Buffered' <= Limit
      BY <2>1, <2>3, <2>4, <2>5 DEF Buffered
    <2>7. kept["stdout"] <= kept'["stdout"] /\ kept["stderr"] <= kept'["stderr"]
          /\ kept'["stdout"] \in Nat /\ kept'["stderr"] \in Nat
      BY <2>1, <2>3, <2>4
    <2>8. response.stdout <= kept["stdout"] /\ response.stderr <= kept["stderr"]
          /\ response.stdout \in Nat /\ response.stderr \in Nat
      BY DEF SizeInv, Sizes, TypeOK
    <2>9. wrote' = wrote /\ taken' = taken /\ response' = response
      BY <1>9 DEF Count, processVars, mainVars
    <2> QED  BY <2>1, <2>6, <2>7, <2>8, <2>9 DEF SizeInv, Sizes
  <1>10. ASSUME NEW s \in Stream, GiveUp(s)  PROVE Sizes'
    BY <1>10, TerminateEffects DEF GiveUp, SizeInv, Sizes, Buffered, TreeInv,
       processVars, mainVars, treeVars
  <1>11. ASSUME NEW s \in Stream, ReadFails(s)  PROVE Sizes'
    BY <1>11 DEF ReadFails, SizeInv, Sizes, Buffered, processVars, mainVars,
       treeVars
  <1>12. CASE WriteRequest
    BY <1>12 DEF WriteRequest, SizeInv, Sizes, Buffered, processVars,
       readerVars, mainVars, treeVars
  <1>13. CASE ProgramStep
    <2>1. taken' = taken /\ kept' = kept /\ response' = response
      BY <1>13 DEF ProgramStep, readerVars, mainVars
    <2>2. ASSUME NEW t \in Stream  PROVE taken[t] <= wrote'[t]
      <3>1. taken[t] \in Nat /\ wrote[t] \in Nat /\ taken[t] <= wrote[t]
        BY DEF SizeInv, TypeOK, Sizes
      <3>2. wrote[t] <= wrote'[t] /\ wrote'[t] \in Nat
        BY <1>13, ProgramEffects DEF SizeInv
      <3> QED  BY <3>1, <3>2
    <2> QED  BY <2>1, <2>2 DEF SizeInv, Sizes, Buffered
  <1>14. CASE UNCHANGED vars
    BY <1>14 DEF SizeInv, Sizes, Buffered, processVars, readerVars, mainVars,
       treeVars, vars
  <1> QED
    BY <1>1, <1>2, <1>3, <1>4, <1>5, <1>6, <1>7, <1>8, <1>9, <1>10, <1>11, <1>12,
       <1>13, <1>14 DEF Next, MainStep, Drain

(* Every step keeps the group empty once the signal was sent.              *)
LEMMA TreeStep ==
    ASSUME SizeInv, TreeInv
    PROVE  [Next]_vars => TreeInv'
  <1>1. CASE Start
    <2>1. ~terminated /\ ~terminated' /\ \A p \in Process : place[p] = "unborn"
      BY <1>1 DEF Start, TreeInv, treeVars
    <2>2. CASE main' = "waiting"
      BY <2>1, <2>2 DEF TreeInv, Past
    <2>3. CASE main' = "raised" /\ UNCHANGED place
      <3>1. Group' = {}
        BY <2>1, <2>3 DEF Group
      <3> QED  BY <2>3, <3>1 DEF TreeInv, Past
    <2> QED  BY <2>2, <2>3, <1>1 DEF Start
  <1>2. CASE Waited
    BY <1>2 DEF Waited, SizeInv, TypeOK, TreeInv, Past, Group, processVars,
       readerVars, treeVars, Quiet
  <1>3. CASE Close
    BY <1>3, TerminateEffects DEF Close, SizeInv, TreeInv, Past, processVars,
       readerVars, treeVars, Quiet
  <1>4. CASE Reap
    <2>1. Group' = Group
      BY <1>4 DEF Reap, Group, processVars
    <2>2. Past /\ main' # "verifying" /\ terminated' = terminated /\ refused' = refused
      BY <1>4 DEF Reap, Past, treeVars
    <2> QED  BY <2>1, <2>2 DEF TreeInv
  <1>5. CASE Joins
    <2>1. Group' = Group
      BY <1>5, JoinsEffects DEF SizeInv, Group
    <2>2. Past /\ main' # "verifying" /\ terminated' = terminated /\ refused' = refused
      BY <1>5, JoinsEffects DEF SizeInv, Past
    <2> QED  BY <2>1, <2>2 DEF TreeInv
  <1>6. CASE Check
    BY <1>6 DEF Check, SizeInv, TypeOK, TreeInv, Past, Group, processVars,
       readerVars, treeVars
  <1>7. CASE Copy
    <2>1. Group' = Group
      BY <1>7, CopyEffects DEF SizeInv, Group
    <2>2. Past /\ main' # "verifying" /\ terminated' = terminated /\ refused' = refused
      BY <1>7, CopyEffects DEF SizeInv, Past
    <2> QED  BY <2>1, <2>2 DEF TreeInv
  <1>8. ASSUME NEW s \in Stream, Read(s)  PROVE TreeInv'
    BY <1>8 DEF Read, SizeInv, TypeOK, TreeInv, Past, Group, processVars,
       mainVars, treeVars
  <1>9. ASSUME NEW s \in Stream, Count(s)  PROVE TreeInv'
    BY <1>9 DEF Count, SizeInv, TypeOK, TreeInv, Past, Group, processVars,
       mainVars, treeVars
  <1>10. ASSUME NEW s \in Stream, GiveUp(s)  PROVE TreeInv'
    <2>1. main' = main /\ main # "verifying"
      BY <1>10 DEF GiveUp, TreeInv, mainVars
    <2>2. CASE UNCHANGED <<processVars, treeVars>>
      BY <2>1, <2>2 DEF TreeInv, Past, Group, processVars, treeVars
    <2>3. CASE Terminate
      <3>1. ~refused' => Group' = {}
        BY <2>3, TerminateEffects DEF SizeInv, TreeInv
      <3> QED  BY <2>1, <3>1 DEF TreeInv, Past
    <2> QED  BY <2>2, <2>3, <1>10 DEF GiveUp
  <1>11. ASSUME NEW s \in Stream, ReadFails(s)  PROVE TreeInv'
    BY <1>11 DEF ReadFails, SizeInv, TypeOK, TreeInv, Past, Group,
       processVars, mainVars, treeVars
  <1>12. CASE WriteRequest
    BY <1>12 DEF WriteRequest, SizeInv, TypeOK, TreeInv, Past, Group,
       processVars, readerVars, mainVars, treeVars
  <1>13. CASE ProgramStep
    BY <1>13, ProgramEffects DEF SizeInv, TreeInv, Past, readerVars, mainVars,
       treeVars
  <1>14. CASE UNCHANGED vars
    BY <1>14 DEF SizeInv, TypeOK, TreeInv, Past, Group, processVars,
       readerVars, mainVars, treeVars, vars
  <1> QED
    BY <1>1, <1>2, <1>3, <1>4, <1>5, <1>6, <1>7, <1>8, <1>9, <1>10, <1>11, <1>12,
       <1>13, <1>14 DEF Next, MainStep, Drain

(* Every step keeps the account of how the leader ended: only a reader that *)
(* has set the event, or a caller that is late, can have killed it.         *)
LEMMA LeaderStep ==
    ASSUME SizeInv, TreeInv, LeaderInv
    PROVE  [Next]_vars => LeaderInv'
  <1>1. CASE Start
    BY <1>1 DEF Start, SizeInv, TypeOK, TreeInv, LeaderInv, KilledIsFlagged,
       Answering, Alive, Process, Stream, treeVars
  <1>2. CASE Waited
    BY <1>2 DEF Waited, SizeInv, TypeOK, LeaderInv, KilledIsFlagged,
       Answering, Alive, processVars, readerVars, treeVars, Quiet
  <1>3. CASE Close
    BY <1>3, TerminateEffects DEF Close, SizeInv, TypeOK, TreeInv, LeaderInv,
       KilledIsFlagged, Answering, Alive, Process, processVars, readerVars,
       treeVars, Quiet
  <1>4. CASE Reap
    BY <1>4 DEF Reap, SizeInv, TypeOK, LeaderInv, KilledIsFlagged, Answering,
       Alive, processVars, readerVars, treeVars, Quiet
  <1>5. CASE Joins
    <2>1. /\ UNCHANGED <<code, overflow, reader, place, late, response>>
          /\ main \notin {"verifying", "waiting"}
          /\ main' \notin {"verifying", "waiting", "copying", "copying stderr", "returned"}
          /\ main' \in Answering => ~late
      BY <1>5, JoinsEffects DEF SizeInv, Answering
    <2>2. Alive("leader")' = Alive("leader")
      BY <2>1 DEF Alive
    <2> QED  BY <2>1, <2>2 DEF LeaderInv, KilledIsFlagged
  <1>6. CASE Check
    BY <1>6 DEF Check, SizeInv, TypeOK, LeaderInv, KilledIsFlagged, Answering,
       Alive, processVars, readerVars, treeVars
  <1>7. CASE Copy
    BY <1>7, CopyEffects DEF SizeInv, LeaderInv, KilledIsFlagged, Answering,
       Alive
  <1>8. ASSUME NEW s \in Stream, Read(s)  PROVE LeaderInv'
    BY <1>8 DEF Read, SizeInv, TypeOK, LeaderInv, KilledIsFlagged, Answering,
       Alive, processVars, mainVars, treeVars
  <1>9. ASSUME NEW s \in Stream, Count(s)  PROVE LeaderInv'
    BY <1>9 DEF Count, SizeInv, TypeOK, LeaderInv, KilledIsFlagged, Answering,
       Alive, processVars, mainVars, treeVars
  <1>10. ASSUME NEW s \in Stream, GiveUp(s)  PROVE LeaderInv'
    BY <1>10, TerminateEffects DEF GiveUp, SizeInv, TypeOK, TreeInv,
       LeaderInv, KilledIsFlagged, Answering, Alive, Process, processVars,
       mainVars, treeVars
  <1>11. ASSUME NEW s \in Stream, ReadFails(s)  PROVE LeaderInv'
    BY <1>11 DEF ReadFails, SizeInv, TypeOK, LeaderInv, KilledIsFlagged,
       Answering, Alive, processVars, mainVars, treeVars
  <1>12. CASE WriteRequest
    BY <1>12 DEF WriteRequest, SizeInv, TypeOK, LeaderInv, KilledIsFlagged,
       Answering, Alive, processVars, readerVars, mainVars, treeVars
  <1>13. CASE ProgramStep
    <2>1. /\ code' = "killed" => code = "killed"
          /\ ~Alive("leader") => ~Alive("leader")'
      BY <1>13, ProgramEffects DEF SizeInv
    <2>2. UNCHANGED <<overflow, late, reader, main, response>>
      BY <1>13 DEF ProgramStep, readerVars, mainVars
    <2> QED  BY <2>1, <2>2 DEF LeaderInv, KilledIsFlagged
  <1>14. CASE UNCHANGED vars
    BY <1>14 DEF SizeInv, TypeOK, LeaderInv, KilledIsFlagged, Answering,
       Alive, processVars, readerVars, mainVars, treeVars, vars
  <1> QED
    BY <1>1, <1>2, <1>3, <1>4, <1>5, <1>6, <1>7, <1>8, <1>9, <1>10, <1>11, <1>12,
       <1>13, <1>14 DEF Next, MainStep, Drain

(* Every step keeps what a reader has seen: all that was written, unless    *)
(* something was dropped and noticed.                                       *)
LEMMA ReaderStep ==
    ASSUME SizeInv, TreeInv, LeaderInv, ReaderInv
    PROVE  [Next]_vars => ReaderInv'
  <1>1. CASE Start
    BY <1>1 DEF Start, SizeInv, TypeOK, TreeInv, ReaderInv, Seen, Complete,
       Ended
  <1>2. CASE Waited
    BY <1>2 DEF Waited, SizeInv, TypeOK, ReaderInv, Seen, Complete, Ended,
       Alive, processVars, readerVars, treeVars, Quiet
  <1>3. CASE Close
    <2>1. UNCHANGED <<wrote, taken, kept, chunk, reader, broken, overflow>>
      BY <1>3 DEF Close, Terminate, Quiet, readerVars
    <2>2. \A p \in Process : ~Alive(p) => ~Alive(p)'
      BY <1>3, TerminateEffects DEF Close, SizeInv, TreeInv, Alive
    <2>3. \A t \in Stream : Complete(t) => Complete(t)'
      BY <2>1, <2>2 DEF Complete
    <2> QED  BY <2>1, <2>3 DEF ReaderInv, Seen, Ended
  <1>4. CASE Reap
    BY <1>4 DEF Reap, SizeInv, TypeOK, ReaderInv, Seen, Complete, Ended,
       Alive, processVars, readerVars, treeVars, Quiet
  <1>5. CASE Joins
    <2>1. UNCHANGED <<place, wrote, taken, kept, chunk, reader, broken, overflow>>
      BY <1>5, JoinsEffects DEF SizeInv
    <2> QED  BY <2>1 DEF ReaderInv, Seen, Complete, Ended, Alive
  <1>6. CASE Check
    BY <1>6 DEF Check, SizeInv, TypeOK, ReaderInv, Seen, Complete, Ended,
       Alive, processVars, readerVars, treeVars
  <1>7. CASE Copy
    <2>1. UNCHANGED <<place, wrote, taken, kept, chunk, reader, broken, overflow>>
      BY <1>7, CopyEffects DEF SizeInv
    <2> QED  BY <2>1 DEF ReaderInv, Seen, Complete, Ended, Alive
  <1>8. ASSUME NEW s \in Stream, Read(s)  PROVE ReaderInv'
    <2> DEFINE n == Smaller(Chunk, wrote[s] - taken[s])
    <2>1. /\ taken \in [Stream -> Nat] /\ wrote \in [Stream -> Nat] /\ chunk \in [Stream -> Nat]
          /\ kept \in [Stream -> Nat] /\ taken[s] <= wrote[s] /\ Chunk \in Nat \ {0}
      BY DEF SizeInv, TypeOK, Sizes
    <2>2. n \in Nat /\ (n = 0 => taken[s] = wrote[s])
      BY <2>1 DEF Smaller
    <2>3. /\ reader[s] = "reading" /\ (wrote[s] - taken[s] >= Chunk \/ ~OpenEnd)
          /\ taken' = [taken EXCEPT ![s] = @ + n] /\ chunk' = [chunk EXCEPT ![s] = n]
          /\ reader' = [reader EXCEPT ![s] = IF n = 0 THEN "done" ELSE "counting"]
          /\ UNCHANGED <<place, wrote, kept, broken, overflow>>
      BY <1>8 DEF Read, processVars
    <2>4. \A t \in Stream : Complete(t) => Complete(t)'
      BY <2>3 DEF Complete, Alive
    <2>5. Seen(s)'
      <3>1. chunk[s] = 0 /\ (overflow \/ kept[s] = taken[s])
        BY <2>1, <2>3 DEF ReaderInv, Seen
      <3>2. CASE n = 0
        <4>1. ~OpenEnd /\ taken[s] = wrote[s]
          BY <2>1, <2>2, <2>3, <3>2
        <4>2. overflow \/ Complete(s)
          BY <4>1, <3>1 DEF OpenEnd, Complete
        <4>3. reader'[s] = "done" /\ chunk'[s] = 0
          BY <3>2, <2>1, <2>3 DEF SizeInv, TypeOK
        <4> QED  BY <4>2, <4>3, <2>3, <2>4 DEF Seen, Ended
      <3>3. CASE n # 0
        <4>1. reader'[s] = "counting" /\ chunk'[s] = n /\ taken'[s] = taken[s] + n
          BY <3>3, <2>1, <2>3 DEF SizeInv, TypeOK
        <4> QED  BY <4>1, <3>1, <2>1, <2>2, <2>3 DEF Seen, Ended
      <3> QED  BY <3>2, <3>3
    <2>6. ASSUME NEW t \in Stream, t # s  PROVE Seen(t)'
      <3>1. reader'[t] = reader[t] /\ chunk'[t] = chunk[t] /\ taken'[t] = taken[t]
        BY <2>1, <2>3, <2>6 DEF SizeInv, TypeOK
      <3> QED  BY <3>1, <2>3, <2>4 DEF ReaderInv, Seen, Ended
    <2> QED  BY <2>5, <2>6 DEF ReaderInv
  <1>9. ASSUME NEW s \in Stream, Count(s)  PROVE ReaderInv'
    <2> DEFINE remaining == Limit - Buffered
    <2>1. /\ taken \in [Stream -> Nat] /\ chunk \in [Stream -> Nat] /\ kept \in [Stream -> Nat]
          /\ Buffered <= Limit /\ Limit \in Nat
      BY DEF SizeInv, TypeOK, Sizes
    <2>2. remaining \in Nat
      BY <2>1 DEF Buffered, Stream
    <2>3. /\ reader[s] = "counting" /\ chunk' = [chunk EXCEPT ![s] = 0]
          /\ kept' = [kept EXCEPT ![s] = @ + Smaller(chunk[s], remaining)]
          /\ reader' = [reader EXCEPT
                          ![s] = IF chunk[s] > remaining THEN "flagging" ELSE "reading"]
          /\ UNCHANGED <<place, wrote, taken, broken, overflow>>
      BY <1>9 DEF Count, processVars
    <2>4. Seen(s)'
      <3>1. chunk'[s] = 0 /\ reader'[s] \in {"flagging", "reading"}
        BY <2>1, <2>3 DEF SizeInv, TypeOK
      <3>2. ASSUME reader'[s] = "reading"  PROVE overflow \/ kept'[s] = taken[s]
        <4>1. chunk[s] <= remaining
          <5>1. reader'[s] = IF chunk[s] > remaining THEN "flagging" ELSE "reading"
            BY <2>3 DEF SizeInv, TypeOK
          <5>2. ~(chunk[s] > remaining)
            BY <5>1, <3>2
          <5> QED  BY <5>2, <2>1, <2>2
        <4>2. kept'[s] = kept[s] + chunk[s]
          BY <4>1, <2>1, <2>2, <2>3 DEF Smaller
        <4> QED  BY <4>2, <2>3 DEF ReaderInv, Seen
      <3>3. kept'[s] \in Nat
        BY <2>1, <2>2, <2>3 DEF Smaller
      <3> QED  BY <3>1, <3>2, <3>3, <2>3 DEF Seen, Ended
    <2>5. ASSUME NEW t \in Stream, t # s  PROVE Seen(t)'
      <3>1. reader'[t] = reader[t] /\ chunk'[t] = chunk[t] /\ kept'[t] = kept[t]
        BY <2>1, <2>3, <2>5 DEF SizeInv, TypeOK
      <3>2. Complete(t) => Complete(t)'
        BY <3>1, <2>3 DEF Complete, Alive
      <3> QED  BY <3>1, <3>2, <2>3 DEF ReaderInv, Seen, Ended
    <2> QED  BY <2>4, <2>5 DEF ReaderInv
  <1>10. ASSUME NEW s \in Stream, GiveUp(s)  PROVE ReaderInv'
    <2>1. /\ UNCHANGED <<taken, kept, chunk, broken>> /\ wrote' = wrote
          /\ overflow => overflow'
          /\ reader[s] \in {"flagging", "killing"} /\ reader'[s] \in {"killing", "done"}
          /\ reader'[s] = "done" => overflow'
          /\ \A t \in Stream : t # s => reader'[t] = reader[t]
      <3>1. UNCHANGED <<taken, kept, chunk, broken>> /\ wrote' = wrote
        BY <1>10 DEF GiveUp, Terminate, processVars
      <3>2. reader \in [Stream -> {"idle", "reading", "counting", "flagging", "killing", "done"}]
        BY DEF SizeInv, TypeOK
      <3>3. CASE reader[s] = "flagging" /\ overflow' = TRUE
                 /\ reader' = [reader EXCEPT ![s] = "killing"]
        BY <3>1, <3>2, <3>3
      <3>4. CASE reader[s] = "killing" /\ overflow' = overflow
                 /\ reader' = [reader EXCEPT ![s] = "done"]
        BY <3>1, <3>2, <3>4 DEF LeaderInv
      <3> QED  BY <3>3, <3>4, <1>10 DEF GiveUp
    <2>2. \A p \in Process : ~Alive(p) => ~Alive(p)'
      <3>1. CASE UNCHANGED place
        BY <3>1 DEF Alive
      <3>2. CASE Terminate
        BY <3>2, TerminateEffects DEF SizeInv, TreeInv, Alive
      <3> QED  BY <3>1, <3>2, <1>10 DEF GiveUp, processVars
    <2>3. \A t \in Stream : Complete(t) => Complete(t)'
      BY <2>1, <2>2 DEF Complete
    <2>4. ASSUME NEW t \in Stream  PROVE Seen(t)'
      BY <2>1, <2>3 DEF ReaderInv, Seen, Ended
    <2> QED  BY <2>4 DEF ReaderInv
  <1>11. ASSUME NEW s \in Stream, ReadFails(s)  PROVE ReaderInv'
    BY <1>11 DEF ReadFails, SizeInv, TypeOK, ReaderInv, Seen, Complete, Ended,
       Alive, processVars, mainVars, treeVars
  <1>12. CASE WriteRequest
    BY <1>12 DEF WriteRequest, SizeInv, TypeOK, ReaderInv, Seen, Complete,
       Ended, Alive, processVars, readerVars, mainVars, treeVars
  <1>13. CASE ProgramStep
    BY <1>13, ProgramEffects DEF SizeInv, ReaderInv, Seen, Complete, Ended,
       readerVars, mainVars, treeVars
  <1>14. CASE UNCHANGED vars
    BY <1>14 DEF SizeInv, TypeOK, ReaderInv, Seen, Complete, Ended, Alive,
       processVars, readerVars, mainVars, treeVars, vars
  <1> QED
    BY <1>1, <1>2, <1>3, <1>4, <1>5, <1>6, <1>7, <1>8, <1>9, <1>10, <1>11, <1>12,
       <1>13, <1>14 DEF Next, MainStep, Drain

(* Every step keeps the account of the joins.                               *)
LEMMA JoinStep ==
    ASSUME SizeInv, TreeInv, JoinInv
    PROVE  [Next]_vars => JoinInv'
  <1>1. CASE Start
    BY <1>1 DEF Start, SizeInv, TypeOK, JoinInv, Ended, Answering, Stream,
       treeVars
  <1>2. CASE Waited
    BY <1>2 DEF Waited, SizeInv, TypeOK, JoinInv, Ended, Answering, Stream,
       processVars, readerVars, treeVars, Quiet
  <1>3. CASE Close
    BY <1>3 DEF Close, SizeInv, TypeOK, JoinInv, Ended, Answering, Stream,
       processVars, readerVars, treeVars, Quiet
  <1>4. CASE Reap
    BY <1>4 DEF Reap, SizeInv, TypeOK, JoinInv, Ended, Answering, Stream,
       processVars, readerVars, treeVars, Quiet
  <1>5. CASE Joins
    BY <1>5, JoinsEffects DEF SizeInv, JoinInv, Ended, Answering
  <1>6. CASE Check
    BY <1>6 DEF Check, SizeInv, TypeOK, JoinInv, Ended, Answering, Stream,
       processVars, readerVars, treeVars
  <1>7. CASE Copy
    BY <1>7, CopyEffects DEF SizeInv, JoinInv, Ended, Answering
  <1>8. ASSUME NEW s \in Stream, Read(s)  PROVE JoinInv'
    BY <1>8 DEF Read, SizeInv, TypeOK, JoinInv, Ended, Answering, Stream,
       processVars, mainVars, treeVars
  <1>9. ASSUME NEW s \in Stream, Count(s)  PROVE JoinInv'
    BY <1>9 DEF Count, SizeInv, TypeOK, JoinInv, Ended, Answering, Stream,
       processVars, mainVars, treeVars
  <1>10. ASSUME NEW s \in Stream, GiveUp(s)  PROVE JoinInv'
    <2>1. /\ UNCHANGED <<main, lapsed>> /\ reader[s] # "done"
          /\ \E next \in {"killing", "done"} : reader' = [reader EXCEPT ![s] = next]
      BY <1>10 DEF GiveUp, mainVars
    <2>2. \A r \in Stream : Ended(r) => Ended(r)'
      BY <2>1 DEF SizeInv, TypeOK, Ended
    <2> QED  BY <2>1, <2>2 DEF JoinInv, Answering, Stream
  <1>11. ASSUME NEW s \in Stream, ReadFails(s)  PROVE JoinInv'
    BY <1>11 DEF ReadFails, SizeInv, TypeOK, JoinInv, Ended, Answering,
       Stream, processVars, mainVars, treeVars
  <1>12. CASE WriteRequest
    BY <1>12 DEF WriteRequest, SizeInv, TypeOK, JoinInv, Ended, Answering,
       Stream, processVars, readerVars, mainVars, treeVars
  <1>13. CASE ProgramStep
    BY <1>13, ProgramEffects DEF SizeInv, JoinInv, Ended, Answering,
       readerVars, mainVars, treeVars
  <1>14. CASE UNCHANGED vars
    BY <1>14 DEF SizeInv, TypeOK, JoinInv, Ended, Answering, Stream,
       processVars, readerVars, mainVars, treeVars, vars
  <1> QED
    BY <1>1, <1>2, <1>3, <1>4, <1>5, <1>6, <1>7, <1>8, <1>9, <1>10, <1>11, <1>12,
       <1>13, <1>14 DEF Next, MainStep, Drain

(* Every step keeps the response true to the buffers: with both readers     *)
(* ended, nothing changes under the caller's hands.                         *)
LEMMA ResponseStep ==
    ASSUME SizeInv, TreeInv, JoinInv, ResponseInv
    PROVE  [Next]_vars => ResponseInv'
  <1>1. CASE Start
    BY <1>1 DEF Start, SizeInv, TypeOK, JoinInv, ResponseInv, Ended,
       Answering, Stream, treeVars
  <1>2. CASE Waited
    BY <1>2 DEF Waited, SizeInv, TypeOK, JoinInv, ResponseInv, Ended,
       Answering, Stream, processVars, readerVars, treeVars, Quiet
  <1>3. CASE Close
    BY <1>3 DEF Close, SizeInv, TypeOK, JoinInv, ResponseInv, Ended,
       Answering, Stream, processVars, readerVars, treeVars, Quiet
  <1>4. CASE Reap
    BY <1>4 DEF Reap, SizeInv, TypeOK, JoinInv, ResponseInv, Ended, Answering,
       Stream, processVars, readerVars, treeVars, Quiet
  <1>5. CASE Joins
    BY <1>5, JoinsEffects DEF SizeInv, ResponseInv
  <1>6. CASE Check
    BY <1>6 DEF Check, SizeInv, TypeOK, JoinInv, ResponseInv, Ended,
       Answering, Stream, processVars, readerVars, treeVars
  <1>7. CASE Copy
    BY <1>7, CopyEffects DEF SizeInv, ResponseInv
  <1>8. ASSUME NEW s \in Stream, Read(s)  PROVE ResponseInv'
    BY <1>8 DEF Read, SizeInv, TypeOK, JoinInv, ResponseInv, Ended, Answering,
       Stream, processVars, mainVars, treeVars
  <1>9. ASSUME NEW s \in Stream, Count(s)  PROVE ResponseInv'
    BY <1>9 DEF Count, SizeInv, TypeOK, JoinInv, ResponseInv, Ended,
       Answering, Stream, processVars, mainVars, treeVars
  <1>10. ASSUME NEW s \in Stream, GiveUp(s)  PROVE ResponseInv'
    BY <1>10 DEF GiveUp, SizeInv, TypeOK, JoinInv, ResponseInv, Ended,
       Answering, Stream, processVars, mainVars, treeVars
  <1>11. ASSUME NEW s \in Stream, ReadFails(s)  PROVE ResponseInv'
    BY <1>11 DEF ReadFails, SizeInv, TypeOK, JoinInv, ResponseInv, Ended,
       Answering, Stream, processVars, mainVars, treeVars
  <1>12. CASE WriteRequest
    BY <1>12 DEF WriteRequest, SizeInv, TypeOK, JoinInv, ResponseInv, Ended,
       Answering, Stream, processVars, readerVars, mainVars, treeVars
  <1>13. CASE ProgramStep
    BY <1>13, ProgramEffects DEF SizeInv, ResponseInv, readerVars, mainVars,
       treeVars
  <1>14. CASE UNCHANGED vars
    BY <1>14 DEF SizeInv, TypeOK, JoinInv, ResponseInv, Ended, Answering,
       Stream, processVars, readerVars, mainVars, treeVars, vars
  <1> QED
    BY <1>1, <1>2, <1>3, <1>4, <1>5, <1>6, <1>7, <1>8, <1>9, <1>10, <1>11, <1>12,
       <1>13, <1>14 DEF Next, MainStep, Drain

LEMMA Always == Spec => []Inv
  <1>1. Init => Inv
    <2> SUFFICES ASSUME Init  PROVE Inv
      OBVIOUS
    <2>1. /\ wrote = [s \in Stream |-> 0] /\ taken = [s \in Stream |-> 0]
          /\ kept = [s \in Stream |-> 0] /\ chunk = [s \in Stream |-> 0]
          /\ place = [p \in Process |-> "unborn"] /\ reader = [s \in Stream |-> "idle"]
          /\ response = [exit |-> "none", stdout |-> 0, stderr |-> 0]
          /\ main = "verifying" /\ ~terminated /\ ~late /\ code = "running"
      BY DEF Init, NoResponse
    <2>2. TypeOK
      <3>1. /\ wrote \in [Stream -> Nat] /\ taken \in [Stream -> Nat]
            /\ kept \in [Stream -> Nat] /\ chunk \in [Stream -> Nat]
        BY <2>1
      <3>2. /\ place \in [Process -> Place]
            /\ reader \in [Stream ->
                            {"idle", "reading", "counting", "flagging", "killing", "done"}]
        BY <2>1 DEF Place
      <3>3. response \in [exit : {"none", "75", "running", "exited", "killed"},
                          stdout : Nat, stderr : Nat]
        BY <2>1
      <3> QED  BY <2>1, <3>1, <3>2, <3>3 DEF Init, TypeOK
    <2>3. Sizes
      BY <2>1 DEF Sizes, Buffered, Stream
    <2>4. TreeInv
      BY <2>1 DEF TreeInv, Past
    <2>5. LeaderInv
      BY <2>1 DEF LeaderInv, KilledIsFlagged, Answering
    <2>6. ReaderInv
      BY <2>1 DEF ReaderInv, Seen, Ended
    <2>7. JoinInv /\ ResponseInv
      BY <2>1 DEF JoinInv, ResponseInv, Answering
    <2> QED  BY <2>2, <2>3, <2>4, <2>5, <2>6, <2>7 DEF Inv, SizeInv
  <1>2. Inv /\ [Next]_vars => Inv'
    BY TypeStep, SizesStep, TreeStep, LeaderStep, ReaderStep, JoinStep, ResponseStep DEF Inv, SizeInv
  <1> QED  BY <1>1, <1>2, PTL DEF Spec

-----------------------------------------------------------------------------
(* Every variable keeps its type.                                           *)
THEOREM TypeCorrect == Spec => []TypeOK
  <1>1. Inv => TypeOK
    BY DEF Inv, SizeInv
  <1> QED  BY Always, <1>1, PTL

(* The two streams share one limit: the buffers never exceed it, nor does   *)
(* the response that the caller copies from them one after the other.       *)
THEOREM OutputBounded == Spec => []OutputWithinLimit
  <1>1. Inv => OutputWithinLimit
    <2> SUFFICES ASSUME Inv  PROVE OutputWithinLimit
      OBVIOUS
    <2>1. kept["stdout"] \in Nat /\ kept["stderr"] \in Nat /\ Limit \in Nat
      BY DEF Inv, SizeInv, TypeOK, Stream
    <2>2. response.stdout \in Nat /\ response.stderr \in Nat
      BY DEF Inv, SizeInv, TypeOK
    <2> QED  BY <2>1, <2>2 DEF Inv, SizeInv, Sizes, OutputWithinLimit, Buffered
  <1> QED  BY Always, <1>1, PTL

(* Past its wait invoke leaves no process of the group behind, whichever    *)
(* thread signalled it first, unless the system refused the signal.         *)
THEOREM GroupGone == Spec => []NoDescendantOutlives
  <1>1. Inv => NoDescendantOutlives
    BY DEF Inv, TreeInv, Past, NoDescendantOutlives
  <1> QED  BY Always, <1>1, PTL

(* A leader that was signalled has set the overflow event before, or its    *)
(* caller raises: no response shows its exit as one of its own.             *)
THEOREM NoKillPassesForAnExit == Spec => []KilledIsFlagged
  <1>1. Inv => KilledIsFlagged
    BY DEF Inv, LeaderInv
  <1> QED  BY Always, <1>1, PTL

(* A response that does not say 75, of readers that ended in time and       *)
(* without an error, holds all that was written.                            *)
THEOREM NothingDroppedSilently == Spec => []WholeOrFlagged
  <1>1. Inv => WholeOrFlagged
    <2> SUFFICES ASSUME Inv, main = "returned", response.exit # "75", broken = {},
                        lapsed \cap Stream = {}
                 PROVE  response.stdout = wrote["stdout"] /\ response.stderr = wrote["stderr"]
      BY DEF WholeOrFlagged
    <2>1. Ended("stdout") /\ Ended("stderr")
      BY DEF Inv, JoinInv, Answering, Stream
    <2>2. /\ ~overflow
          /\ response.stdout = kept["stdout"] /\ response.stderr = kept["stderr"]
      BY DEF Inv, ResponseInv
    <2>3. Complete("stdout") /\ Complete("stderr")
      BY <2>1, <2>2 DEF Inv, ReaderInv, Seen, Stream
    <2> QED  BY <2>2, <2>3 DEF Complete
  <1> QED  BY Always, <1>1, PTL
=============================================================================
