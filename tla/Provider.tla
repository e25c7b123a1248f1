------------------------------ MODULE Provider ------------------------------
(***************************************************************************)
(* providers.py: one call of SubprocessProvider.invoke on POSIX.  The      *)
(* caller's thread waits with a time-out, two reader threads drain stdout  *)
(* and stderr into buffers that share one limit, a writer thread sends the *)
(* request, and the provider's processes do what they like: write, fork,   *)
(* leave the process group, exit, or change the files they were made of.   *)
(* Bytes are counted, not told apart.                                      *)
(***************************************************************************)
EXTENDS Naturals, FiniteSets

CONSTANTS
    Descendant,     \* processes the provider's program may start
    Limit,          \* max_output_bytes
    Chunk,          \* bytes that one read of a stream asks for
    MaxWrites       \* bound: bytes written to one stream

ASSUME ProviderAssumption ==
    /\ Limit \in Nat \ {0} /\ Chunk \in Nat \ {0} /\ MaxWrites \in Nat
    /\ "leader" \notin Descendant

Stream == {"stdout", "stderr"}
Process == {"leader"} \cup Descendant

VARIABLES
    place,          \* where each process is: unborn, in the group, escaped from it, dead
    code,           \* how the leader ended: not yet, by itself, by a signal
    intact,         \* the executable and the bound files are as frozen
    wrote,          \* bytes the processes have written to each stream
    taken,          \* bytes a reader has read from each stream
    kept,           \* bytes in the buffers stdout and stderr
    chunk,          \* the bytes of the read in progress
    reader,         \* where each drain thread is
    broken,         \* streams whose read raised
    request,        \* the writer thread: writing or done
    overflow,       \* the event of that name
    terminated,     \* _terminated of the process tree
    refused,        \* killpg raised something else than ProcessLookupError
    main,           \* where the caller's thread is
    late,           \* it is on its way to raise ProviderTimeoutError
    lapsed,         \* threads that were still running when their join gave up
    response        \* what invoke returns

processVars == <<place, code, intact, wrote>>
readerVars == <<taken, kept, chunk, reader, broken, overflow>>
mainVars == <<main, late, lapsed, response>>
treeVars == <<terminated, refused>>
vars == <<processVars, readerVars, request, mainVars, treeVars>>

Alive(p) == place[p] \in {"group", "escaped"}
OpenEnd == \E p \in Process : Alive(p)     \* somebody holds the pipes open
Smaller(m, n) == IF m < n THEN m ELSE n
NoResponse == [exit |-> "none", stdout |-> 0, stderr |-> 0]

Init ==
    /\ place = [p \in Process |-> "unborn"]
    /\ code = "running"
    /\ intact \in BOOLEAN
    /\ wrote = [s \in Stream |-> 0] /\ taken = wrote /\ kept = wrote /\ chunk = wrote
    /\ reader = [s \in Stream |-> "idle"]
    /\ broken = {}
    /\ request = "idle"
    /\ overflow = FALSE /\ terminated = FALSE /\ refused = FALSE
    /\ main = "verifying" /\ late = FALSE /\ lapsed = {}
    /\ response = NoResponse

-----------------------------------------------------------------------------
(* _ProviderProcessTree.terminate: whoever calls it holds the lock of the   *)
(* tree until the signal is sent, and only the first call sends one.        *)

Killed(ps) == [p \in Process |-> IF p \in ps THEN "dead" ELSE place[p]]
Group == {p \in Process : place[p] = "group"}
CodeAfter(ps) == IF "leader" \in ps /\ code = "running" THEN "killed" ELSE code
KillGroup ==
    /\ place' = Killed(Group)
    /\ code' = CodeAfter(Group)
    /\ UNCHANGED refused
(* Seeded bug: the leader is left alone when its group cannot be signalled. *)
GroupRefusedQuietly == refused' = TRUE /\ UNCHANGED <<place, code>>
GroupRefused ==
    /\ Group # {}
    /\ refused' = TRUE
    /\ LET leader == {"leader"} \cap Group IN
        place' = Killed(leader) /\ code' = CodeAfter(leader)
Terminate ==
    /\ terminated' = TRUE
    /\ \/ terminated /\ UNCHANGED <<place, code, refused>>
       \/ ~terminated /\ (KillGroup \/ GroupRefused)
    /\ UNCHANGED <<intact, wrote>>

-----------------------------------------------------------------------------
(* drain: one thread for each stream.                                       *)

(* BufferedReader.read returns the bytes it was asked for, or what is left  *)
(* when no process holds the other end.                                     *)
Read(s) ==
    /\ reader[s] = "reading"
    /\ LET there == wrote[s] - taken[s]
           n == Smaller(Chunk, there) IN
        /\ there >= Chunk \/ ~OpenEnd
        /\ taken' = [taken EXCEPT ![s] = @ + n]
        /\ chunk' = [chunk EXCEPT ![s] = n]
        /\ reader' = [reader EXCEPT ![s] = IF n = 0 THEN "done" ELSE "counting"]
    /\ UNCHANGED <<processVars, kept, broken, overflow, request, mainVars, treeVars>>

ReadFails(s) ==
    /\ reader[s] = "reading"
    /\ reader' = [reader EXCEPT ![s] = "done"]
    /\ broken' = broken \cup {s}
    /\ UNCHANGED <<processVars, taken, kept, chunk, overflow, request, mainVars, treeVars>>

Buffered == kept["stdout"] + kept["stderr"]
(* Seeded bugs: each stream has the limit for itself; a chunk that does not *)
(* fit by one byte is not noticed.                                          *)
CountPerStream(s) ==
    /\ reader[s] = "counting"
    /\ LET remaining == IF kept[s] < Limit THEN Limit - kept[s] ELSE 0 IN
        /\ kept' = [kept EXCEPT ![s] = @ + Smaller(chunk[s], remaining)]
        /\ reader' = [reader EXCEPT ![s] = IF chunk[s] > remaining THEN "flagging" ELSE "reading"]
        /\ chunk' = [chunk EXCEPT ![s] = 0]
    /\ UNCHANGED <<processVars, taken, broken, overflow, request, mainVars, treeVars>>
CountOffByOne(s) ==
    /\ reader[s] = "counting"
    /\ LET remaining == Limit - Buffered IN
        /\ kept' = [kept EXCEPT ![s] = @ + Smaller(chunk[s], remaining)]
        /\ reader' = [reader EXCEPT
                        ![s] = IF chunk[s] > remaining + 1 THEN "flagging" ELSE "reading"]
        /\ chunk' = [chunk EXCEPT ![s] = 0]
    /\ UNCHANGED <<processVars, taken, broken, overflow, request, mainVars, treeVars>>

(* Under output_lock: what still fits is kept, the rest is dropped.         *)
Count(s) ==
    /\ reader[s] = "counting"
    /\ LET remaining == Limit - Buffered IN
        /\ kept' = [kept EXCEPT ![s] = @ + Smaller(chunk[s], remaining)]
        /\ reader' = [reader EXCEPT ![s] = IF chunk[s] > remaining THEN "flagging" ELSE "reading"]
        /\ chunk' = [chunk EXCEPT ![s] = 0]
    /\ UNCHANGED <<processVars, taken, broken, overflow, request, mainVars, treeVars>>

(* Seeded bug: the tree is terminated before the event is set.              *)
GiveUpKillingFirst(s) ==
    /\ \/ /\ reader[s] = "flagging"
          /\ Terminate
          /\ reader' = [reader EXCEPT ![s] = "killing"]
          /\ UNCHANGED overflow
       \/ /\ reader[s] = "killing"
          /\ overflow' = TRUE
          /\ reader' = [reader EXCEPT ![s] = "done"]
          /\ UNCHANGED <<processVars, treeVars>>
    /\ UNCHANGED <<taken, kept, chunk, broken, request, mainVars>>
(* overflow.set(), then process_tree.terminate().                           *)
GiveUp(s) ==
    /\ \/ /\ reader[s] = "flagging"
          /\ overflow' = TRUE
          /\ reader' = [reader EXCEPT ![s] = "killing"]
          /\ UNCHANGED <<processVars, treeVars>>
       \/ /\ reader[s] = "killing"
          /\ Terminate
          /\ reader' = [reader EXCEPT ![s] = "done"]
          /\ UNCHANGED overflow
    /\ UNCHANGED <<taken, kept, chunk, broken, request, mainVars>>

Drain(s) == Read(s) \/ Count(s) \/ GiveUp(s)

(* write_request: ends when the request was read, or nobody can read it.    *)
WriteRequest ==
    /\ request = "writing"
    /\ request' = "done"
    /\ UNCHANGED <<processVars, readerVars, mainVars, treeVars>>

-----------------------------------------------------------------------------
(* The processes of the provider.                                           *)

Running(p) == main # "verifying" /\ Alive(p)
Write(p, s) ==
    /\ Running(p) /\ wrote[s] < MaxWrites
    /\ wrote' = [wrote EXCEPT ![s] = @ + 1]
    /\ UNCHANGED <<place, code, intact>>
Fork(p, d) ==
    /\ Running(p) /\ place[d] = "unborn"
    /\ place' = [place EXCEPT ![d] = place[p]]
    /\ UNCHANGED <<code, intact, wrote>>
(* A descendant may start a session of its own; the leader of one cannot.   *)
Escape(d) ==
    /\ place[d] = "group"
    /\ place' = [place EXCEPT ![d] = "escaped"]
    /\ UNCHANGED <<code, intact, wrote>>
Exit(p) ==
    /\ Running(p)
    /\ place' = [place EXCEPT ![p] = "dead"]
    /\ code' = IF p = "leader" THEN "exited" ELSE code
    /\ UNCHANGED <<intact, wrote>>
Tamper(p) ==
    /\ Running(p) /\ intact
    /\ intact' = FALSE
    /\ UNCHANGED <<place, code, wrote>>
ProgramStep ==
    /\ \/ \E p \in Process : Exit(p) \/ Tamper(p) \/ \E s \in Stream : Write(p, s)
       \/ \E d \in Descendant : Escape(d) \/ \E p \in Process : Fork(p, d)
    /\ UNCHANGED <<readerVars, request, mainVars, treeVars>>

-----------------------------------------------------------------------------
(* invoke, in the caller's thread.                                          *)

Quiet == UNCHANGED <<readerVars, request, lapsed, response>>

Start ==
    /\ main = "verifying"
    /\ \/ /\ intact
          /\ main' = "waiting"
          /\ place' = [place EXCEPT !["leader"] = "group"]
          /\ reader' = [s \in Stream |-> "reading"]
          /\ request' = "writing"
       \/ main' = "raised" /\ UNCHANGED <<place, reader, request>>
    /\ UNCHANGED <<code, intact, wrote, taken, kept, chunk, broken, overflow,
                   late, lapsed, response, treeVars>>

(* process.wait: the leader ended, or the time-out passed before it did.    *)
Waited ==
    /\ main = "waiting"
    /\ main' = "closing"
    /\ late' = Alive("leader")
    /\ Quiet /\ UNCHANGED <<processVars, treeVars>>

(* Seeded bug: the tree is closed only when the time-out passed.            *)
CloseWhenLate ==
    /\ main = "closing"
    /\ IF late THEN Terminate ELSE UNCHANGED <<processVars, treeVars>>
    /\ main' = IF late THEN "reaping" ELSE "joining request"
    /\ Quiet /\ UNCHANGED late
Close ==
    /\ main = "closing"
    /\ Terminate
    /\ main' = IF late THEN "reaping" ELSE "joining request"
    /\ Quiet /\ UNCHANGED late

(* The second wait has no time-out.                                         *)
Reap ==
    /\ main = "reaping" /\ ~Alive("leader")
    /\ main' = "joining request"
    /\ Quiet /\ UNCHANGED <<processVars, treeVars, late>>

(* Every join gives up after a second.                                      *)
Join(at, thread, ended, next) ==
    /\ main = at
    /\ main' = next
    /\ lapsed' = IF ended THEN lapsed ELSE lapsed \cup {thread}
    /\ UNCHANGED <<processVars, readerVars, request, treeVars, late, response>>
Joins ==
    \/ Join("joining request", "request", request = "done", "joining stdout")
    \/ Join("joining stdout", "stdout", reader["stdout"] = "done", "joining stderr")
    \/ Join("joining stderr", "stderr", reader["stderr"] = "done",
            IF late THEN "raised" ELSE "checking")

Check ==
    /\ main = "checking"
    /\ main' = IF intact THEN "copying" ELSE "raised"
    /\ response' = [response EXCEPT
                       !.exit = IF ~intact THEN "none" ELSE IF overflow THEN "75" ELSE code]
    /\ UNCHANGED <<processVars, readerVars, request, treeVars, late, lapsed>>

(* bytes(stdout), then bytes(stderr): a reader may still be at work.        *)
Copy ==
    \/ /\ main = "copying" /\ main' = "copying stderr"
       /\ response' = [response EXCEPT !.stdout = kept["stdout"]]
       /\ UNCHANGED <<processVars, readerVars, request, treeVars, late, lapsed>>
    \/ /\ main = "copying stderr" /\ main' = "returned"
       /\ response' = [response EXCEPT !.stderr = kept["stderr"]]
       /\ UNCHANGED <<processVars, readerVars, request, treeVars, late, lapsed>>

MainStep == Start \/ Waited \/ Close \/ Reap \/ Joins \/ Check \/ Copy

Finished == main \in {"returned", "raised"}
Next ==
    \/ MainStep
    \/ \E s \in Stream : Drain(s) \/ ReadFails(s)
    \/ WriteRequest
    \/ ProgramStep

(* The caller's thread runs and time passes; the reader threads run.        *)
Fairness == WF_vars(MainStep) /\ \A s \in Stream : WF_vars(Drain(s))
Spec == Init /\ [][Next]_vars /\ Fairness
-----------------------------------------------------------------------------
Place == {"unborn", "group", "escaped", "dead"}
TypeOK ==
    /\ place \in [Process -> Place] /\ code \in {"running", "exited", "killed"}
    /\ intact \in BOOLEAN
    /\ wrote \in [Stream -> Nat] /\ taken \in [Stream -> Nat]
    /\ kept \in [Stream -> Nat] /\ chunk \in [Stream -> Nat]
    /\ reader \in [Stream -> {"idle", "reading", "counting", "flagging", "killing", "done"}]
    /\ broken \in SUBSET Stream /\ request \in {"idle", "writing", "done"}
    /\ overflow \in BOOLEAN /\ terminated \in BOOLEAN /\ refused \in BOOLEAN
    /\ late \in BOOLEAN /\ lapsed \in SUBSET (Stream \cup {"request"})
    /\ main \in {"verifying", "waiting", "closing", "reaping", "joining request",
                 "joining stdout", "joining stderr", "checking", "copying",
                 "copying stderr", "returned", "raised"}
    /\ response \in [exit : {"none", "75", "running", "exited", "killed"},
                     stdout : Nat, stderr : Nat]

(* max_output_bytes bounds both streams together, although two threads fill *)
(* the buffers and the caller copies them one after the other.              *)
OutputWithinLimit ==
    /\ Buffered <= Limit
    /\ response.stdout + response.stderr <= Limit

(* A response that does not say 75 holds every byte the processes wrote,    *)
(* unless a read failed or a reader outlived its join, which only a process *)
(* outside the group or a second without processor time can bring about.    *)
WholeOrFlagged ==
    main = "returned" /\ response.exit # "75" /\ broken = {} /\ lapsed \cap Stream = {} =>
        response.stdout = wrote["stdout"] /\ response.stderr = wrote["stderr"]

(* "Descendants may not outlive either a successful parent exit or a failed *)
(* call": once invoke is past its wait, no process of the group is left,    *)
(* whoever of the three threads sent the signal, unless it was refused.     *)
NoDescendantOutlives ==
    main \notin {"verifying", "waiting", "closing"} /\ ~refused => Group = {}

(* A leader that was signalled is never passed off as one that exited: its  *)
(* response says 75, even when the caller did not wait for the reader that  *)
(* sent the signal.                                                         *)
KilledIsFlagged ==
    main \in {"copying", "copying stderr", "returned"} /\ code = "killed" =>
        response.exit = "75"

(* invoke comes back whatever the processes do, with a descendant that      *)
(* keeps the pipes open and with a group that cannot be signalled.          *)
InvokeReturns == <>Finished
=============================================================================
