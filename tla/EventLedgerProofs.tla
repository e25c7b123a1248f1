------------------------- MODULE EventLedgerProofs -------------------------
(***************************************************************************)
(* The event ledger for any writers, payloads, runs and bounds: the lines  *)
(* are one chain of one run, an acknowledged entry is never replaced, and  *)
(* the durable lines implement the append-only log.                        *)
(*                                                                         *)
(* The inductive invariant adds to these what makes them survive a step:   *)
(* who is past the lock holds it; who is about to write scanned the very   *)
(* lines that are there, of its own run, behind no durable torn tail; what *)
(* was acknowledged was fsynced, so a power loss keeps it.                 *)
(***************************************************************************)
EXTENDS EventLedger, TLAPS

Critical == {"scan", "write", "rest", "sync", "unlock"}
Recorded(e) == e.sequence < Len(lines) /\ lines[e.sequence + 1] = e

LockInv == \A w \in Writer : pc[w] \in Critical => holder = w

WriterInv ==
    \A w \in Writer :
        /\ pc[w] \in {"write", "rest"} =>
              /\ entry[w] = NewEntry(lines, entry[w].event)
              /\ SameRun(entry[w].event)
        /\ pc[w] = "rest" => torn
        /\ pc[w] \in {"write", "rest", "sync"} => ~tornSynced
        /\ pc[w] = "sync" =>
              \/ Recorded(entry[w])
              \/ torn /\ entry[w].sequence = Len(lines)

SyncInv ==
    /\ synced <= Len(lines)
    /\ tornSynced => torn /\ synced = Len(lines)
AckedInv ==
    \A e \in acked :
        \/ e.sequence < synced /\ lines[e.sequence + 1] = e
        \/ tornSynced /\ e.sequence = Len(lines)

LinesInv == ChainIntact /\ OneRun
DiskInv == SyncInv /\ AckedInv
IInv == TypeOK /\ LockInv /\ WriterInv /\ LinesInv /\ DiskInv

-----------------------------------------------------------------------------
(* The entry that a scan of s builds is an entry, and the next of s.        *)
LEMMA NewEntryFields ==
    ASSUME NEW s \in Seq(Entry), NEW e \in Event
    PROVE  /\ NewEntry(s, e) \in Entry
           /\ NewEntry(s, e).sequence = Len(s)
           /\ NewEntry(s, e).previous = (IF s = <<>> THEN <<>> ELSE s[Len(s)].hash)
           /\ NewEntry(s, e).event = e
           /\ NewEntry(s, e).hash =
                Digest(NewEntry(s, e).sequence, NewEntry(s, e).previous, e)
<1>1. LastHash(s) \in Hash
  <2>1. CASE s = <<>>
    BY <2>1 DEF LastHash, Hash
  <2>2. CASE s # <<>>
    <3>1. s[Len(s)] \in Entry
      BY <2>2
    <3>2. QED
      BY <2>2, <3>1 DEF LastHash, Entry
  <2>3. QED
    BY <2>1, <2>2
<1>2. Digest(Len(s), LastHash(s), e) \in Hash
  BY <1>1 DEF Digest, Hash
<1>3. QED
  BY <1>1, <1>2 DEF NewEntry, Entry, LastHash

(* Appending the next entry keeps a chain a chain.                          *)
LEMMA AppendChained ==
    ASSUME NEW s \in Seq(Entry), NEW e \in Event, Chained(s)
    PROVE  Chained(Append(s, NewEntry(s, e)))
<1> DEFINE t == Append(s, NewEntry(s, e))
<1>1. NewEntry(s, e) \in Entry
  BY NewEntryFields
<1>2. /\ t \in Seq(Entry) /\ Len(t) = Len(s) + 1
      /\ t[Len(s) + 1] = NewEntry(s, e)
      /\ \A i \in 1..Len(s) : t[i] = s[i]
  BY <1>1
<1>3. SUFFICES ASSUME NEW i \in 1..(Len(s) + 1) PROVE LineValid(t, i)
  BY <1>2 DEF Chained
<1>4. CASE i \in 1..Len(s)
  <2>1. LineValid(s, i)
    BY <1>4 DEF Chained
  <2>2. t[i] = s[i] /\ (i # 1 => t[i - 1] = s[i - 1])
    BY <1>2, <1>4
  <2>3. QED
    BY <2>1, <2>2 DEF LineValid
<1>5. CASE i = Len(s) + 1
  <2>1. t[i] = NewEntry(s, e)
    BY <1>2, <1>5
  <2>2. i # 1 => t[i - 1] = s[Len(s)] /\ s # <<>>
    BY <1>2, <1>5
  <2>3. i = 1 => s = <<>>
    BY <1>5
  <2>4. QED
    BY <1>5, <2>1, <2>2, <2>3, NewEntryFields DEF LineValid
<1>6. QED
  BY <1>4, <1>5

(* A prefix of a chain is a chain.                                          *)
LEMMA PrefixChained ==
    ASSUME NEW s \in Seq(Entry), NEW n \in 0..Len(s), Chained(s)
    PROVE  /\ SubSeq(s, 1, n) \in Seq(Entry)
           /\ Len(SubSeq(s, 1, n)) = n
           /\ \A i \in 1..n : SubSeq(s, 1, n)[i] = s[i]
           /\ Chained(SubSeq(s, 1, n))
<1> DEFINE t == SubSeq(s, 1, n)
<1>1. t \in Seq(Entry) /\ Len(t) = n /\ \A i \in 1..n : t[i] = s[i]
  OBVIOUS
<1>2. ASSUME NEW i \in 1..n PROVE LineValid(t, i)
  <2>1. LineValid(s, i)
    BY DEF Chained
  <2>2. t[i] = s[i] /\ (i # 1 => t[i - 1] = s[i - 1])
    BY <1>1
  <2>3. QED
    BY <2>1, <2>2 DEF LineValid
<1>3. QED
  BY <1>1, <1>2 DEF Chained

-----------------------------------------------------------------------------
LEMMA InitEstablishes == Init => IInv
<1> SUFFICES ASSUME Init PROVE IInv
  OBVIOUS
<1> USE LedgerAssumption
<1>1. <<>> \in Seq(Entry) /\ Len(<<>>) = 0
  OBVIOUS
<1>2. entry \in [Writer -> Entry]
  <2>1. \A e \in Event : NewEntry(<<>>, e) \in Entry
    BY <1>1, NewEntryFields
  <2>2. {NewEntry(<<>>, e) : e \in Event} \subseteq Entry
    BY <2>1
  <2>3. entry \in [Writer -> {NewEntry(<<>>, e) : e \in Event}]
    BY DEF Init
  <2>4. QED
    BY <2>2, <2>3
<1>3. TypeOK
  <2>1. pc \in [Writer -> Location]
    BY DEF Init, Location
  <2>2. lines \in Seq(Entry) /\ synced \in Nat /\ acked \subseteq Entry
    BY <1>1 DEF Init
  <2>3. holder \in Writer \cup {NoWriter} /\ torn \in BOOLEAN /\ tornSynced \in BOOLEAN
    BY DEF Init
  <2>4. faults \in 0..MaxFaults
    BY DEF Init
  <2>5. QED
    BY <1>2, <2>1, <2>2, <2>3, <2>4 DEF TypeOK
<1>4. pc = [w \in Writer |-> "idle"] /\ lines = <<>> /\ acked = {} /\ synced = 0
      /\ holder = NoWriter /\ tornSynced = FALSE
  BY DEF Init
<1>5. LockInv /\ WriterInv
  BY <1>4 DEF LockInv, WriterInv, Critical
<1>6. DOMAIN lines = {}
  BY <1>4
<1>7. LinesInv
  BY <1>6 DEF LinesInv, ChainIntact, Chained, OneRun
<1>8. DiskInv
  <2>1. SyncInv
    BY <1>1, <1>4 DEF SyncInv
  <2>2. AckedInv
    BY <1>4 DEF AckedInv
  <2>3. QED
    BY <2>1, <2>2 DEF DiskInv
<1>9. QED
  BY <1>3, <1>5, <1>7, <1>8 DEF IInv

(* What the disk holds and what was acknowledged does not change: the lines *)
(* and their durability stay as they are.                                   *)
LEMMA SameDisk ==
    ASSUME LinesInv, DiskInv, UNCHANGED <<disk, acked>>
    PROVE  LinesInv' /\ DiskInv'
BY DEF disk, LinesInv, ChainIntact, OneRun, DiskInv, SyncInv, AckedInv

LEMMA BeginPreserves ==
    ASSUME IInv, NEW w \in Writer, NEW e \in Event, Begin(w, e)
    PROVE  IInv'
<1>1. entry' \in [Writer -> Entry]
  BY DEF IInv, TypeOK, Begin, Entry
<1>2. TypeOK'
  BY <1>1 DEF IInv, TypeOK, Begin, Goto, disk, Location
<1>3. LockInv'
  BY DEF IInv, TypeOK, LockInv, Begin, Goto, Critical
<1>4. WriterInv'
  BY DEF IInv, TypeOK, WriterInv, Begin, Goto, disk, Recorded, SameRun
<1>5. LinesInv' /\ DiskInv'
  BY SameDisk DEF IInv, Begin
<1>6. QED
  BY <1>2, <1>3, <1>4, <1>5 DEF IInv

LEMMA LockPreserves ==
    ASSUME IInv, NEW w \in Writer, Lock(w)
    PROVE  IInv'
<1> USE LedgerAssumption
<1>1. TypeOK'
  BY DEF IInv, TypeOK, Lock, Goto, disk, Location
<1>2. LockInv'
  BY DEF IInv, TypeOK, LockInv, Lock, Goto, Critical
<1>3. WriterInv'
  BY DEF IInv, TypeOK, WriterInv, Lock, Goto, disk, Recorded, SameRun
<1>4. LinesInv' /\ DiskInv'
  BY SameDisk DEF IInv, Lock
<1>5. QED
  BY <1>1, <1>2, <1>3, <1>4 DEF IInv

LEMMA ScanPreserves ==
    ASSUME IInv, NEW w \in Writer, Scan(w)
    PROVE  IInv'
<1> DEFINE n == NewEntry(lines, entry[w].event)
<1>1. /\ lines \in Seq(Entry) /\ entry[w].event \in Event
      /\ n \in Entry /\ n.event = entry[w].event
  <2>1. lines \in Seq(Entry) /\ entry[w].event \in Event
    BY DEF IInv, TypeOK, Entry
  <2>2. QED
    BY <2>1, NewEntryFields
<1>2. entry' = [entry EXCEPT ![w] = n]
  BY DEF Scan
<1> HIDE DEF n
<1>3. TypeOK'
  BY <1>1, <1>2 DEF IInv, TypeOK, Scan, Goto, disk, Location
<1>4. LockInv'
  BY DEF IInv, TypeOK, LockInv, Scan, Goto, Critical
<1>5. WriterInv'
  <2> SUFFICES ASSUME NEW u \in Writer
               PROVE  /\ pc'[u] \in {"write", "rest"} =>
                            /\ entry'[u] = NewEntry(lines, entry'[u].event)
                            /\ SameRun(entry'[u].event)
                      /\ pc'[u] = "rest" => torn
                      /\ pc'[u] \in {"write", "rest", "sync"} => ~tornSynced
                      /\ pc'[u] = "sync" =>
                            \/ Recorded(entry'[u])
                            \/ torn /\ entry'[u].sequence = Len(lines)
    BY DEF WriterInv, Scan, disk, Recorded, SameRun
  <2>1. CASE u = w
    <3>1. entry'[u] = n /\ pc'[u] = "write"
      BY <1>2, <2>1 DEF IInv, TypeOK, Scan, Goto
    <3>2. ~tornSynced
      BY DEF IInv, DiskInv, SyncInv, Scan, ScanValid
    <3>3. QED
      BY <1>1, <3>1, <3>2 DEF Scan, n
  <2>2. CASE u # w
    BY <1>2, <2>2 DEF IInv, TypeOK, WriterInv, Scan, Goto
  <2>3. QED
    BY <2>1, <2>2
<1>6. LinesInv' /\ DiskInv'
  BY SameDisk DEF IInv, Scan
<1>7. QED
  BY <1>3, <1>4, <1>5, <1>6 DEF IInv

(* Refusing, raising and giving the lock back move one writer out.          *)
LEMMA ScanRefusesPreserves ==
    ASSUME IInv, NEW w \in Writer, ScanRefuses(w)
    PROVE  IInv'
<1>1. TypeOK'
  BY DEF IInv, TypeOK, ScanRefuses, Goto, disk, Location
<1>2. LockInv'
  BY DEF IInv, TypeOK, LockInv, ScanRefuses, Goto, Critical
<1>3. WriterInv'
  BY DEF IInv, TypeOK, WriterInv, ScanRefuses, Goto, disk, Recorded, SameRun
<1>4. LinesInv' /\ DiskInv'
  BY SameDisk DEF IInv, ScanRefuses
<1>5. QED
  BY <1>1, <1>2, <1>3, <1>4 DEF IInv

LEMMA WriteRaisesPreserves ==
    ASSUME IInv, NEW w \in Writer, WriteRaises(w)
    PROVE  IInv'
<1>1. TypeOK'
  BY DEF IInv, TypeOK, WriteRaises, Goto, disk, Location
<1>2. LockInv'
  BY DEF IInv, TypeOK, LockInv, WriteRaises, Goto, Critical
<1>3. WriterInv'
  BY DEF IInv, TypeOK, WriterInv, WriteRaises, Goto, disk, Recorded, SameRun
<1>4. LinesInv' /\ DiskInv'
  BY SameDisk DEF IInv, WriteRaises
<1>5. QED
  BY <1>1, <1>2, <1>3, <1>4 DEF IInv

LEMMA UnlockPreserves ==
    ASSUME IInv, NEW w \in Writer, Unlock(w)
    PROVE  IInv'
<1>1. TypeOK'
  BY DEF IInv, TypeOK, Unlock, Goto, disk, Location
<1>2. LockInv'
  BY DEF IInv, TypeOK, LockInv, Unlock, Goto, Critical
<1>3. WriterInv'
  BY DEF IInv, TypeOK, WriterInv, Unlock, Goto, disk, Recorded, SameRun
<1>4. LinesInv' /\ DiskInv'
  BY SameDisk DEF IInv, Unlock
<1>5. QED
  BY <1>1, <1>2, <1>3, <1>4 DEF IInv

LEMMA CrashPreserves ==
    ASSUME IInv, NEW w \in Writer, Crash(w)
    PROVE  IInv'
<1> USE LedgerAssumption
<1>1. TypeOK'
  BY DEF IInv, TypeOK, Crash, disk, Location
<1>2. LockInv'
  BY DEF IInv, TypeOK, LockInv, Crash, Critical
<1>3. WriterInv'
  BY DEF IInv, TypeOK, WriterInv, Crash, disk, Recorded, SameRun
<1>4. LinesInv' /\ DiskInv'
  BY SameDisk DEF IInv, Crash
<1>5. QED
  BY <1>1, <1>2, <1>3, <1>4 DEF IInv

(* The first bytes of a line: only the writer that holds the lock is there. *)
LEMMA WriteFirstPreserves ==
    ASSUME IInv, NEW w \in Writer, WriteFirst(w)
    PROVE  IInv'
<1>1. TypeOK'
  BY DEF IInv, TypeOK, WriteFirst, Goto, Location
<1>2. LockInv'
  BY DEF IInv, TypeOK, LockInv, WriteFirst, Goto, Critical
<1>3. WriterInv'
  BY DEF IInv, TypeOK, LockInv, Critical, WriterInv, WriteFirst, Goto, Recorded, SameRun
<1>4. LinesInv'
  BY DEF IInv, LinesInv, ChainIntact, OneRun, WriteFirst
<1>5. DiskInv'
  BY DEF IInv, DiskInv, SyncInv, AckedInv, WriteFirst
<1>6. QED
  BY <1>1, <1>2, <1>3, <1>4, <1>5 DEF IInv

(* The whole line: nobody else is writing, so nobody else's view is stale.  *)
LEMMA WriteRestPreserves ==
    ASSUME IInv, NEW w \in Writer, WriteRest(w)
    PROVE  IInv'
<1> DEFINE e == entry[w].event
<1>1. /\ lines \in Seq(Entry) /\ e \in Event /\ entry[w] \in Entry
      /\ entry[w] = NewEntry(lines, e) /\ SameRun(e) /\ ~tornSynced
      /\ pc[w] = "rest"
  BY DEF IInv, TypeOK, Entry, WriterInv, WriteRest, Goto
<1>2. /\ lines' \in Seq(Entry) /\ Len(lines') = Len(lines) + 1
      /\ lines'[Len(lines) + 1] = entry[w]
      /\ \A i \in 1..Len(lines) : lines'[i] = lines[i]
      /\ entry[w].sequence = Len(lines)
  <2>1. lines' = Append(lines, entry[w])
    BY DEF WriteRest
  <2>2. entry[w].sequence = Len(lines)
    BY <1>1, NewEntryFields
  <2>3. QED
    BY <1>1, <2>1, <2>2
<1>3. TypeOK'
  BY <1>2 DEF IInv, TypeOK, WriteRest, Goto, Location
<1>4. LockInv'
  BY DEF IInv, TypeOK, LockInv, WriteRest, Goto, Critical
<1>5. WriterInv'
  <2>1. /\ pc' = [pc EXCEPT ![w] = "sync"] /\ pc \in [Writer -> Location]
        /\ entry' = entry /\ tornSynced' = tornSynced
    BY DEF IInv, TypeOK, WriteRest, Goto
  <2>2. \A u \in Writer : u # w => pc[u] \notin Critical
    BY <1>1 DEF IInv, LockInv, Critical
  <2>3. Recorded(entry[w])'
    BY <1>2, <2>1 DEF Recorded
  <2>4. QED
    BY <1>1, <2>1, <2>2, <2>3 DEF WriterInv, Critical
<1>6. LinesInv'
  <2>1. ChainIntact'
    <3>1. Chained(lines)
      BY DEF IInv, LinesInv, ChainIntact
    <3>2. lines' = Append(lines, NewEntry(lines, e))
      BY <1>1 DEF WriteRest
    <3>3. QED
      BY <1>1, <3>1, <3>2, AppendChained DEF ChainIntact
  <2>2. OneRun'
    <3>1. \A i \in 1..Len(lines) : RunOf[lines[i].event] = RunOf[e]
      BY <1>1 DEF SameRun
    <3>2. \A i \in 1..(Len(lines) + 1) : RunOf[lines'[i].event] = RunOf[e]
      BY <1>1, <1>2, <3>1
    <3>3. QED
      BY <1>2, <3>2 DEF OneRun
  <2>3. QED
    BY <2>1, <2>2 DEF LinesInv
<1>7. DiskInv'
  <2>1. /\ synced \in Nat /\ synced <= Len(lines)
        /\ synced' = synced /\ tornSynced' = tornSynced /\ acked' = acked
        /\ acked \subseteq Entry
    BY DEF IInv, TypeOK, DiskInv, SyncInv, WriteRest
  <2>2. SyncInv'
    BY <1>1, <1>2, <2>1 DEF SyncInv
  <2>3. AckedInv'
    <3> SUFFICES ASSUME NEW a \in acked
                 PROVE  a.sequence < synced /\ lines'[a.sequence + 1] = a
      BY <2>1 DEF AckedInv
    <3>1. a.sequence \in Nat
      BY <2>1 DEF Entry
    <3>2. a.sequence < synced /\ lines[a.sequence + 1] = a
      BY <1>1 DEF IInv, DiskInv, AckedInv
    <3>3. QED
      BY <1>1, <1>2, <2>1, <3>1, <3>2
  <2>4. QED
    BY <2>2, <2>3 DEF DiskInv
<1>8. QED
  BY <1>3, <1>4, <1>5, <1>6, <1>7 DEF IInv

(* The OS took the first bytes only: the tail stays torn.                   *)
LEMMA ShortWritePreserves ==
    ASSUME IInv, NEW w \in Writer, ShortWrite(w)
    PROVE  IInv'
<1> USE LedgerAssumption
<1>1. TypeOK'
  BY DEF IInv, TypeOK, ShortWrite, Goto, disk, Location
<1>2. LockInv'
  BY DEF IInv, TypeOK, LockInv, ShortWrite, Goto, Critical
<1>3. WriterInv'
  <2>1. torn /\ ~tornSynced /\ entry[w].sequence = Len(lines)
    <3>1. /\ lines \in Seq(Entry) /\ entry[w].event \in Event
          /\ entry[w] = NewEntry(lines, entry[w].event)
          /\ torn /\ ~tornSynced
      BY DEF IInv, TypeOK, Entry, WriterInv, ShortWrite, Goto
    <3>2. QED
      BY <3>1, NewEntryFields
  <2>2. QED
    BY <2>1 DEF IInv, TypeOK, WriterInv, ShortWrite, Goto, disk, Recorded, SameRun
<1>4. LinesInv' /\ DiskInv'
  BY SameDisk DEF IInv, ShortWrite
<1>5. QED
  BY <1>1, <1>2, <1>3, <1>4 DEF IInv

(* fsync makes what is there durable, so it may be acknowledged.            *)
LEMMA SyncPreserves ==
    ASSUME IInv, NEW w \in Writer, Sync(w)
    PROVE  IInv'
<1>1. TypeOK'
  BY DEF IInv, TypeOK, Sync, Goto, Location
<1>2. LockInv'
  BY DEF IInv, TypeOK, LockInv, Sync, Goto, Critical
<1>3. WriterInv'
  <2>1. /\ pc' = [pc EXCEPT ![w] = "unlock"] /\ pc \in [Writer -> Location]
        /\ entry' = entry /\ lines' = lines /\ torn' = torn
    BY DEF IInv, TypeOK, Sync, Goto
  <2>2. \A u \in Writer : u # w => pc[u] \notin Critical
    BY DEF IInv, LockInv, Critical, Sync, Goto
  <2>3. QED
    BY <2>1, <2>2 DEF WriterInv, Critical
<1>4. LinesInv'
  BY DEF IInv, LinesInv, ChainIntact, OneRun, Sync
<1>5. DiskInv'
  <2>1. /\ synced \in Nat /\ Len(lines) \in Nat /\ synced <= Len(lines)
        /\ tornSynced => torn
        /\ synced' = Len(lines) /\ tornSynced' = torn /\ lines' = lines /\ torn' = torn
        /\ acked' = acked \cup {entry[w]}
        /\ \A e \in acked' : e.sequence \in Nat
    BY DEF IInv, TypeOK, Entry, DiskInv, SyncInv, Sync
  <2>2. SyncInv'
    BY <2>1 DEF SyncInv
  <2>3. ASSUME NEW e \in acked'
        PROVE  \/ e.sequence < Len(lines) /\ lines[e.sequence + 1] = e
               \/ torn /\ e.sequence = Len(lines)
    <3>1. CASE e \in acked
      BY <2>1, <3>1 DEF IInv, DiskInv, AckedInv
    <3>2. CASE e = entry[w]
      BY <3>2 DEF IInv, WriterInv, Sync, Goto, Recorded
    <3>3. QED
      BY <2>1, <3>1, <3>2
  <2>4. AckedInv'
    BY <2>1, <2>3 DEF AckedInv
  <2>5. QED
    BY <2>2, <2>4 DEF DiskInv
<1>6. QED
  BY <1>1, <1>2, <1>3, <1>4, <1>5 DEF IInv

(* A power loss keeps every fsynced line, and an fsynced torn tail.         *)
LEMMA PowerLossPreserves ==
    ASSUME IInv, PowerLoss
    PROVE  IInv'
<1> USE LedgerAssumption
<1>1. PICK n \in synced..Len(lines) :
        /\ lines' = SubSeq(lines, 1, n)
        /\ torn' \in IF tornSynced THEN {TRUE}
                     ELSE IF n < Len(lines) \/ torn THEN BOOLEAN ELSE {FALSE}
  BY DEF PowerLoss
<1>2. /\ lines \in Seq(Entry) /\ Len(lines) \in Nat /\ synced \in Nat
      /\ synced <= Len(lines) /\ Chained(lines) /\ n \in 0..Len(lines)
      /\ (tornSynced => synced = Len(lines)) /\ tornSynced \in BOOLEAN
  BY <1>1 DEF IInv, TypeOK, DiskInv, SyncInv, LinesInv, ChainIntact
<1>3. /\ lines' \in Seq(Entry) /\ Len(lines') = n
      /\ \A i \in 1..n : lines'[i] = lines[i]
      /\ Chained(lines')
  BY <1>1, <1>2, PrefixChained
<1>4. TypeOK'
  <2>1. torn' \in BOOLEAN
    BY <1>1
  <2>2. QED
    BY <1>3, <2>1 DEF IInv, TypeOK, PowerLoss, Location
<1>5. LockInv' /\ WriterInv'
  BY DEF LockInv, WriterInv, PowerLoss, Critical
<1>6. LinesInv'
  <2>1. OneRun'
    BY <1>2, <1>3 DEF IInv, LinesInv, OneRun
  <2>2. QED
    BY <1>3, <2>1 DEF LinesInv, ChainIntact
<1>7. DiskInv'
  <2>1. synced' = synced /\ tornSynced' = tornSynced /\ acked' = acked
    BY DEF PowerLoss
  <2>2. tornSynced => torn' /\ n = Len(lines)
    BY <1>1, <1>2
  <2>3. SyncInv'
    BY <1>1, <1>2, <1>3, <2>1, <2>2 DEF SyncInv
  <2>4. AckedInv'
    <3> SUFFICES ASSUME NEW a \in acked
                 PROVE  \/ a.sequence < synced /\ lines'[a.sequence + 1] = a
                        \/ tornSynced /\ a.sequence = Len(lines')
      BY <2>1 DEF AckedInv
    <3>1. a.sequence \in Nat
      BY DEF IInv, TypeOK, Entry
    <3>2. \/ a.sequence < synced /\ lines[a.sequence + 1] = a
          \/ tornSynced /\ a.sequence = Len(lines)
      BY DEF IInv, DiskInv, AckedInv
    <3>3. QED
      BY <1>1, <1>2, <1>3, <2>2, <3>1, <3>2
  <2>5. QED
    BY <2>3, <2>4 DEF DiskInv
<1>8. QED
  BY <1>4, <1>5, <1>6, <1>7 DEF IInv

LEMMA NextPreserves == IInv /\ [Next]_vars => IInv'
<1> SUFFICES ASSUME IInv, [Next]_vars PROVE IInv'
  OBVIOUS
<1>1. CASE UNCHANGED vars
  BY <1>1 DEF vars, disk, IInv, TypeOK, LockInv, WriterInv, Recorded, SameRun, LinesInv,
         ChainIntact, OneRun, DiskInv, SyncInv, AckedInv
<1>2. CASE PowerLoss
  BY <1>2, PowerLossPreserves
<1>3. ASSUME NEW w \in Writer, NEW e \in Event, Begin(w, e) PROVE IInv'
  BY <1>3, BeginPreserves
<1>4. ASSUME NEW w \in Writer,
             \/ Lock(w) \/ Scan(w) \/ ScanRefuses(w)
             \/ WriteFirst(w) \/ WriteRest(w) \/ ShortWrite(w) \/ WriteRaises(w)
             \/ Sync(w) \/ Unlock(w) \/ Crash(w)
      PROVE  IInv'
  BY <1>4, LockPreserves, ScanPreserves, ScanRefusesPreserves, WriteFirstPreserves,
     WriteRestPreserves, ShortWritePreserves, WriteRaisesPreserves, SyncPreserves,
     UnlockPreserves, CrashPreserves
<1>5. QED
  BY <1>1, <1>2, <1>3, <1>4 DEF Next

-----------------------------------------------------------------------------
(* Every reachable state satisfies the inductive invariant.                 *)
THEOREM Invariance == Spec => []IInv
BY InitEstablishes, NextPreserves, PTL DEF Spec

(* Types are kept, whatever dies and whatever is lost.                      *)
THEOREM TypeCorrect == Spec => []TypeOK
<1>1. IInv => TypeOK
  BY DEF IInv
<1>2. QED
  BY <1>1, Invariance, PTL

(* The lines of the ledger are one contiguous hash chain, for any number of *)
(* writers and any number of crashes, power losses and short writes.        *)
THEOREM AlwaysChained == Spec => []ChainIntact
<1>1. IInv => ChainIntact
  BY DEF IInv, LinesInv
<1>2. QED
  BY <1>1, Invariance, PTL

(* All lines belong to one run.                                             *)
THEOREM AlwaysOneRun == Spec => []OneRun
<1>1. IInv => OneRun
  BY DEF IInv, LinesInv
<1>2. QED
  BY <1>1, Invariance, PTL

(* A writer appends behind the line it scanned.                             *)
THEOREM SawLastLine == Spec => []WriterSawLastLine
<1>1. IInv => WriterSawLastLine
  BY DEF IInv, WriterInv, WriterSawLastLine
<1>2. QED
  BY <1>1, Invariance, PTL

(* What append returned stays at its place, or seals the ledger.            *)
THEOREM NeverReplaced == Spec => []AcknowledgedNotReplaced
<1>1. IInv => AcknowledgedNotReplaced
  <2> SUFFICES ASSUME IInv, NEW e \in acked
               PROVE  \/ e.sequence < Len(lines) /\ lines[e.sequence + 1] = e
                      \/ torn /\ e.sequence = Len(lines)
    BY DEF AcknowledgedNotReplaced
  <2>1. /\ e.sequence \in Nat /\ synced \in Nat /\ Len(lines) \in Nat
        /\ synced <= Len(lines) /\ (tornSynced => torn)
    BY DEF IInv, TypeOK, Entry, DiskInv, SyncInv
  <2>2. QED
    BY <2>1 DEF IInv, DiskInv, AckedInv
<1>2. QED
  BY <1>1, Invariance, PTL

-----------------------------------------------------------------------------
(* The durable lines, as the log of AppendOnlyLog.                          *)
LEMMA DurableLines ==
    ASSUME IInv
    PROVE  /\ SubSeq(lines, 1, synced) \in Seq(Entry)
           /\ Len(SubSeq(lines, 1, synced)) = synced
           /\ \A i \in 1..synced : SubSeq(lines, 1, synced)[i] = lines[i]
<1>1. lines \in Seq(Entry) /\ synced \in 0..Len(lines) /\ Chained(lines)
  BY DEF IInv, TypeOK, DiskInv, SyncInv, LinesInv, ChainIntact
<1>2. QED
  BY <1>1, PrefixChained

(* Two sequences of the same length and elements are one.                   *)
LEMMA SameSequence ==
    ASSUME NEW s \in Seq(Entry), NEW t \in Seq(Entry), Len(s) = Len(t),
           \A i \in 1..Len(s) : s[i] = t[i]
    PROVE  s = t
OBVIOUS

(* Every step is a step of the log, or leaves it alone.                     *)
LEMMA StepRefines ==
    ASSUME IInv, IInv', [Next]_vars
    PROVE  [Durable!Next]_(Durable!logVars)
<1> DEFINE log == SubSeq(lines, 1, synced)
<1>1. /\ log \in Seq(Entry) /\ Len(log) = synced
      /\ \A i \in 1..synced : log[i] = lines[i]
  BY DurableLines
<1>2. /\ log' \in Seq(Entry) /\ Len(log') = synced'
      /\ \A i \in 1..synced' : log'[i] = lines'[i]
  <2>1. lines' \in Seq(Entry) /\ synced' \in 0..Len(lines') /\ Chained(lines')
    BY DEF IInv, TypeOK, DiskInv, SyncInv, LinesInv, ChainIntact
  <2>2. QED
    BY <2>1, PrefixChained
<1>3. ASSUME synced' = synced, tornSynced' = tornSynced,
             \A i \in 1..synced : lines'[i] = lines[i]
      PROVE  UNCHANGED Durable!logVars
  <2>1. log' = log
    BY <1>1, <1>2, <1>3, SameSequence
  <2>2. QED
    BY <1>3, <2>1 DEF Durable!logVars
<1>4. ASSUME NEW w \in Writer, Sync(w) PROVE Durable!Next
  <2>1. /\ ~tornSynced /\ synced' = Len(lines) /\ lines' = lines
        /\ tornSynced' \in BOOLEAN
    BY <1>4 DEF IInv, TypeOK, WriterInv, Sync, Goto
  <2>2. /\ synced \in Nat /\ synced <= Len(lines) /\ lines \in Seq(Entry)
        /\ Chained(lines)
    BY DEF IInv, TypeOK, DiskInv, SyncInv, LinesInv, ChainIntact
  <2>3. Len(log') >= Len(log)
    BY <1>1, <1>2, <2>1, <2>2
  <2>4. SubSeq(log', 1, Len(log)) = log
    <3>1. /\ SubSeq(log', 1, synced) \in Seq(Entry)
          /\ Len(SubSeq(log', 1, synced)) = synced
          /\ \A i \in 1..synced : SubSeq(log', 1, synced)[i] = lines[i]
      BY <1>2, <2>1, <2>2
    <3>2. QED
      BY <1>1, <3>1, SameSequence
  <2>5. Durable!Linked(log')
    <3>1. log' = lines
      BY <1>2, <2>1, <2>2, SameSequence
    <3>2. QED
      BY <2>2, <3>1 DEF Chained, LineValid, Durable!Linked
  <2>6. QED
    BY <2>1, <2>3, <2>4, <2>5 DEF Durable!Next, Durable!Persist
<1>5. ASSUME NEW w \in Writer, WriteRest(w) PROVE UNCHANGED Durable!logVars
  <2>1. /\ lines \in Seq(Entry) /\ entry[w] \in Entry /\ synced \in 0..Len(lines)
    BY DEF IInv, TypeOK, DiskInv, SyncInv
  <2>2. \A i \in 1..synced : lines'[i] = lines[i]
    BY <1>5, <2>1 DEF WriteRest
  <2>3. QED
    BY <1>3, <1>5, <2>2 DEF WriteRest
<1>6. CASE PowerLoss
  <2>1. PICK n \in synced..Len(lines) : lines' = SubSeq(lines, 1, n)
    BY <1>6 DEF PowerLoss
  <2>2. lines \in Seq(Entry) /\ synced \in 0..Len(lines)
    BY DEF IInv, TypeOK, DiskInv, SyncInv
  <2>3. \A i \in 1..synced : lines'[i] = lines[i]
    BY <2>1, <2>2
  <2>4. QED
    BY <1>3, <1>6, <2>3 DEF PowerLoss
<1>7. ASSUME UNCHANGED <<lines, synced, tornSynced>> PROVE UNCHANGED Durable!logVars
  BY <1>3, <1>7
<1>8. QED
  BY <1>4, <1>5, <1>6, <1>7 DEF Next, vars, disk, Begin, Lock, Scan, ScanRefuses,
     WriteFirst, ShortWrite, WriteRaises, Unlock, Crash

(* The event ledger implements the log it promises: what is durable only    *)
(* grows, stays linked, and is sealed by a durable torn tail.               *)
THEOREM Implements == Spec => ImplementsAppendOnlyLog
<1>1. Init => Durable!Init
  BY DEF Init, Durable!Init
<1>2. IInv /\ IInv' /\ [Next]_vars => [Durable!Next]_(Durable!logVars)
  BY StepRefines
<1>3. QED
  BY <1>1, <1>2, Invariance, PTL DEF Spec, ImplementsAppendOnlyLog, Durable!Spec
=============================================================================
