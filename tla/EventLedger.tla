---------------------------- MODULE EventLedger ----------------------------
(***************************************************************************)
(* unasked/ledger.py: EventLedger.append by concurrent writers, and the    *)
(* scan every append and every verification makes.  The file is a sequence *)
(* of complete lines and possibly a torn tail, a last line without its     *)
(* newline.  A digest is modelled by the whole chain it commits to, which  *)
(* is what collision freedom gives.  Faults: a writer dies at any point,   *)
(* the machine loses power (what was not fsynced may be lost), and the OS  *)
(* accepts fewer bytes than were given to it, which append does not check. *)
(***************************************************************************)
EXTENDS Naturals, Sequences

CONSTANTS
    Writer,         \* threads that append to the ledger of one run
    Event,          \* the payloads
    Run,            \* run identifiers
    RunOf,          \* the run_id each payload is appended under
    MaxEntries,     \* bound on the number of lines
    MaxFaults,      \* bound on crashes, power losses and short writes
    NoWriter        \* the holder of a free ledger lock

ASSUME LedgerAssumption ==
    /\ RunOf \in [Event -> Run]
    /\ MaxEntries \in Nat /\ MaxFaults \in Nat
    /\ NoWriter \notin Writer

VARIABLES
    lines,      \* the complete lines of events.jsonl
    torn,       \* bytes follow the last newline
    synced,     \* how many lines were fsynced
    tornSynced, \* the torn tail was fsynced
    holder,     \* who holds events.jsonl.lock
    pc,         \* where each writer is in append
    entry,      \* the entry a writer builds and writes
    acked,      \* the entries that append returned
    faults

vars == <<lines, torn, synced, tornSynced, holder, pc, entry, acked, faults>>
disk == <<lines, torn, synced, tornSynced>>

Hash == Seq(Nat \X Event)
Entry == [sequence : Nat, previous : Hash, event : Event, hash : Hash]
Location == {"idle", "lock", "scan", "write", "rest", "sync", "unlock"}

Digest(sequence, previous, event) == Append(previous, <<sequence, event>>)
LastHash(s) == IF s = <<>> THEN <<>> ELSE s[Len(s)].hash
NewEntry(s, e) ==
    [sequence |-> Len(s), previous |-> LastHash(s), event |-> e,
     hash |-> Digest(Len(s), LastHash(s), e)]

(* _scan: the places, the links and the digests of all lines, no torn tail. *)
LineValid(s, i) ==
    /\ s[i].sequence = i - 1
    /\ s[i].previous = IF i = 1 THEN <<>> ELSE s[i - 1].hash
    /\ s[i].hash = Digest(s[i].sequence, s[i].previous, s[i].event)
Chained(s) == \A i \in DOMAIN s : LineValid(s, i)
(* Seeded bug: a missing last newline is tolerated.                         *)
ScanOfLines == Chained(lines)
ScanValid == ~torn /\ Chained(lines)
SameRun(e) == \A i \in DOMAIN lines : RunOf[lines[i].event] = RunOf[e]

Init ==
    /\ lines = <<>> /\ torn = FALSE
    /\ synced = 0 /\ tornSynced = FALSE
    /\ holder = NoWriter
    /\ pc = [w \in Writer |-> "idle"]
    /\ entry \in [Writer -> {NewEntry(<<>>, e) : e \in Event}]
    /\ acked = {}
    /\ faults = 0

Goto(w, from, to) == pc[w] = from /\ pc' = [pc EXCEPT ![w] = to]

(* append is called with a payload; its arguments are valid.                *)
Begin(w, e) ==
    /\ Goto(w, "idle", "lock")
    /\ entry' = [entry EXCEPT ![w].event = e]
    /\ UNCHANGED <<disk, holder, acked, faults>>

(* Seeded bug: the lock is asked for without waiting.                       *)
LockWithoutWaiting(w) ==
    /\ Goto(w, "lock", "scan")
    /\ holder' = w
    /\ UNCHANGED <<disk, entry, acked, faults>>

Lock(w) ==
    /\ Goto(w, "lock", "scan")
    /\ holder = NoWriter
    /\ holder' = w
    /\ UNCHANGED <<disk, entry, acked, faults>>

(* The whole file is read and checked, and the next entry is built from it. *)
Scan(w) ==
    /\ Goto(w, "scan", "write")
    /\ ScanValid /\ SameRun(entry[w].event)
    /\ entry' = [entry EXCEPT ![w] = NewEntry(lines, @.event)]
    /\ UNCHANGED <<disk, holder, acked, faults>>

ScanRefuses(w) ==
    /\ Goto(w, "scan", "unlock")
    /\ ~(ScanValid /\ SameRun(entry[w].event))
    /\ UNCHANGED <<disk, holder, entry, acked, faults>>

(* The write reaches the file: its first bytes, then the rest.              *)
WriteFirst(w) ==
    /\ Goto(w, "write", "rest")
    /\ Len(lines) < MaxEntries
    /\ torn' = TRUE
    /\ UNCHANGED <<lines, synced, tornSynced, holder, entry, acked, faults>>

(* Seeded bug: the file is opened for writing, not for appending.           *)
WriteRestTruncating(w) ==
    /\ Goto(w, "rest", "sync")
    /\ lines' = <<entry[w]>>
    /\ torn' = FALSE
    /\ UNCHANGED <<synced, tornSynced, holder, entry, acked, faults>>

WriteRest(w) ==
    /\ Goto(w, "rest", "sync")
    /\ lines' = Append(lines, entry[w])
    /\ torn' = FALSE
    /\ UNCHANGED <<synced, tornSynced, holder, entry, acked, faults>>

(* The OS takes only the first bytes; write() says so and is not asked.     *)
ShortWrite(w) ==
    /\ Goto(w, "rest", "sync")
    /\ faults < MaxFaults /\ faults' = faults + 1
    /\ UNCHANGED <<disk, holder, entry, acked>>

(* The write or its open raises before a byte is written.                   *)
WriteRaises(w) ==
    /\ Goto(w, "write", "unlock")
    /\ UNCHANGED <<disk, holder, entry, acked, faults>>

(* fsync, and append returns the entry.                                     *)
Sync(w) ==
    /\ Goto(w, "sync", "unlock")
    /\ synced' = Len(lines)
    /\ tornSynced' = torn
    /\ acked' = acked \cup {entry[w]}
    /\ UNCHANGED <<lines, torn, holder, entry, faults>>

Unlock(w) ==
    /\ Goto(w, "unlock", "idle")
    /\ holder' = NoWriter
    /\ UNCHANGED <<disk, entry, acked, faults>>

Crash(w) ==
    /\ pc[w] # "idle"
    /\ faults < MaxFaults /\ faults' = faults + 1
    /\ pc' = [pc EXCEPT ![w] = "idle"]
    /\ holder' = IF holder = w THEN NoWriter ELSE holder
    /\ UNCHANGED <<disk, entry, acked>>

(* Every process dies; of what was not fsynced any prefix survives, cut     *)
(* between two lines or inside one.                                         *)
PowerLoss ==
    /\ faults < MaxFaults /\ faults' = faults + 1
    /\ \E n \in synced..Len(lines) :
        /\ lines' = SubSeq(lines, 1, n)
        /\ torn' \in IF tornSynced THEN {TRUE}
                     ELSE IF n < Len(lines) \/ torn THEN BOOLEAN ELSE {FALSE}
    /\ pc' = [w \in Writer |-> "idle"]
    /\ holder' = NoWriter
    /\ UNCHANGED <<synced, tornSynced, entry, acked>>

Next ==
    \/ \E w \in Writer :
        \/ \E e \in Event : Begin(w, e)
        \/ Lock(w) \/ Scan(w) \/ ScanRefuses(w)
        \/ WriteFirst(w) \/ WriteRest(w) \/ ShortWrite(w) \/ WriteRaises(w)
        \/ Sync(w) \/ Unlock(w) \/ Crash(w)
    \/ PowerLoss

Spec == Init /\ [][Next]_vars

-----------------------------------------------------------------------------
TypeOK ==
    /\ lines \in Seq(Entry) /\ torn \in BOOLEAN
    /\ synced \in Nat /\ tornSynced \in BOOLEAN
    /\ holder \in Writer \cup {NoWriter}
    /\ pc \in [Writer -> Location]
    /\ entry \in [Writer -> Entry]
    /\ acked \subseteq Entry
    /\ faults \in 0..MaxFaults

(* Whatever dies, whenever: the complete lines are one contiguous chain.    *)
ChainIntact == Chained(lines)

(* All lines belong to the run of the first one.                            *)
OneRun ==
    \A i, j \in DOMAIN lines : RunOf[lines[i].event] = RunOf[lines[j].event]

(* A line is appended by the writer that holds the lock, to the file it     *)
(* scanned: its parent is the last line at the moment of the write.         *)
WriterSawLastLine ==
    \A w \in Writer :
        pc[w] \in {"write", "rest"} => entry[w] = NewEntry(lines, entry[w].event)

(* An entry that append returned is in the ledger, at its place, for ever;  *)
(* or it was cut short, and then no other entry takes its place: the ledger *)
(* refuses every further append.                                            *)
AcknowledgedNotReplaced ==
    \A e \in acked :
        \/ e.sequence < Len(lines) /\ lines[e.sequence + 1] = e
        \/ torn /\ e.sequence = Len(lines)

(* CHANGELOG.md: a "durable append".  What append returned is recorded.     *)
AcknowledgedIsRecorded ==
    \A e \in acked : e.sequence < Len(lines) /\ lines[e.sequence + 1] = e

(* The durable part of the ledger implements the log it promises to be.     *)
Durable == INSTANCE AppendOnlyLog
    WITH log <- SubSeq(lines, 1, synced), sealed <- tornSynced
ImplementsAppendOnlyLog == Durable!Spec
=============================================================================
