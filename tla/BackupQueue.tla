---------------------------- MODULE BackupQueue ----------------------------
(***************************************************************************)
(* The privileged backup queue of control-center/backup/queue-admission.mjs *)
(* as the file system sees it: four status directories, an admission        *)
(* ledger, a directory of scheduler leases and one mkdir lock, worked on by  *)
(* several processes (the portal, scheduler replicas, the root consumer, an  *)
(* operator's shell) that may stop between any two writes.                   *)
(*                                                                           *)
(* One action is one durable write of the code, with the reads before it.   *)
(* Only the holder of the lock writes, so the reads of a locked section see  *)
(* one state and need no steps of their own.                                 *)
(***************************************************************************)
EXTENDS Integers, FiniteSets

CONSTANTS
    Procs,            \* processes that call the queue
    NoProc,           \* "nobody holds the lock"
    Jobs,             \* job identifiers; their order is the order of names
    KeyOf,            \* canonicalBackupActiveKey of a job
    PrincipalOf,      \* the requester of a job
    LeaseIds,         \* scheduler lease handles (identifier and token)
    MaxOutstanding, MaxPerPrincipal, Window, MaxConcurrency,
    MaxTerminal, MaxAge, MaxLedger, MaxScan,
    MaxClock          \* bound on the clock

ASSUME PolicyAssumption ==
    /\ MaxOutstanding \in Nat \ {0}
    /\ MaxPerPrincipal \in Nat \ {0}
    /\ MaxConcurrency \in Nat \ {0}
    /\ MaxTerminal \in Nat \ {0}
    /\ Window \in Nat \ {0}
    /\ MaxAge \in Nat
    /\ MaxLedger \in Nat
    /\ MaxScan \in Nat
    /\ MaxClock \in Nat
    /\ MaxConcurrency =< MaxOutstanding

ASSUME DomainAssumption ==
    /\ Jobs \subseteq Nat
    /\ Jobs # {}
    /\ LeaseIds # {}
    /\ IsFiniteSet(Jobs)
    /\ IsFiniteSet(LeaseIds)
    /\ DOMAIN KeyOf = Jobs
    /\ DOMAIN PrincipalOf = Jobs
    /\ NoProc \notin Procs

VARIABLES
    dir,        \* which job files each status directory holds
    doc,        \* the document in a job's file
    ledger,     \* .admission-ledger.json
    leases,     \* .scheduler-leases
    lock,       \* the process that made .admission.lock, or NoProc
    pc,         \* where a process stands in its queue call
    call,       \* the arguments of that call
    res,        \* what the call returned or threw, until the lock is released
    clock,
    admissions  \* history: every admission that became durable, with the clock
                \* its caller had read (at) and the instant of the job write (done)

vars == <<dir, doc, ledger, leases, lock, pc, call, res, clock, admissions>>

-----------------------------------------------------------------------------
Statuses == {"queued", "running", "done", "failed"}
TerminalStatuses == {"done", "failed"}
Ops == {"admit", "claim", "acquire", "release", "finish", "unknown", "prune"}
PruningOps == {"admit", "claim", "acquire", "prune"}

\* Control points that exist only inside withQueueLock's action.
Held == {"locked", "pruned", "reserved", "renamed",
         "finWritten", "finRenamed", "unlock"}
Time == 0 .. MaxClock

Docs == [status : Statuses, created : Time, finished : Time, unknown : BOOLEAN]
Events == [job : Jobs, at : Time]
Admissions == [job : Jobs, at : Time, done : Time]
Calls == [op : Ops, job : Jobs, status : TerminalStatuses,
          lease : LeaseIds, now : Time]

\* The results that callers tell apart.
Codes == {"none", "ok", "empty", "refused", "error"}

NoDoc == [status |-> "queued", created |-> 0, finished |-> 0, unknown |-> FALSE]

Active == dir["queued"] \cup dir["running"]
Principal(e) == PrincipalOf[e.job]

\* The ledger event that was written for an admission.
Stamp(a) == [job |-> a.job, at |-> a.at]

\* Fillers for the arguments a call does not have.
AnyJob == CHOOSE j \in Jobs : TRUE
AnyLease == CHOOSE l \in LeaseIds : TRUE
NoCall == [op |-> "prune", job |-> AnyJob, status |-> "done",
           lease |-> AnyLease, now |-> 0]

Init ==
    /\ dir = [s \in Statuses |-> {}]
    /\ doc = [j \in Jobs |-> NoDoc]
    /\ ledger = {}
    /\ leases = {}
    /\ lock = NoProc
    /\ pc = [p \in Procs |-> "idle"]
    /\ call = [p \in Procs |-> NoCall]
    /\ res = [p \in Procs |-> "none"]
    /\ clock = 0
    /\ admissions = {}

-----------------------------------------------------------------------------
(* Calls and the lock                                                        *)

\* A caller enters an exported function: the default argument now = Date.now()
\* is evaluated here, before the lock is even asked for.
Request(p, op, j, st, l) ==
    /\ pc[p] = "idle"
    /\ pc' = [pc EXCEPT ![p] = "waiting"]
    /\ call' = [call EXCEPT ![p] = [op |-> op, job |-> j, status |-> st,
                                    lease |-> l, now |-> clock]]
    /\ UNCHANGED <<dir, doc, ledger, leases, lock, res, clock, admissions>>

\* The call is over, for whatever reason: its locals are gone.
Return(p) ==
    /\ pc' = [pc EXCEPT ![p] = "idle"]
    /\ call' = [call EXCEPT ![p] = NoCall]
    /\ res' = [res EXCEPT ![p] = "none"]

\* withQueueLock: mkdir succeeds and owner.json is written.
TakeLock(p) ==
    /\ pc[p] = "waiting"
    /\ lock = NoProc
    /\ lock' = p
    /\ pc' = [pc EXCEPT ![p] = "locked"]
    /\ UNCHANGED <<dir, doc, ledger, leases, call, res, clock, admissions>>

\* withQueueLock: EEXIST for lockTimeoutMs, then queue_busy.
LockTimeout(p) ==
    /\ pc[p] = "waiting"
    /\ lock # NoProc
    /\ Return(p)
    /\ UNCHANGED <<dir, doc, ledger, leases, lock, clock, admissions>>

\* The finally block: the owner token matches, owner.json and the lock go.
ReleaseLock(p) ==
    /\ pc[p] = "unlock"
    /\ lock = p
    /\ lock' = NoProc
    /\ Return(p)
    /\ UNCHANGED <<dir, doc, ledger, leases, clock, admissions>>

\* The locked action returned or threw: only the release is left.
Leave(p, code) ==
    /\ pc' = [pc EXCEPT ![p] = "unlock"]
    /\ res' = [res EXCEPT ![p] = code]

At(p, where, op) == pc[p] = where /\ call[p].op = op

-----------------------------------------------------------------------------
(* Reading and pruning                                                       *)

Entries == {e \in Statuses \X Jobs : e[2] \in dir[e[1]]}

\* readQueueEntry refuses a document whose status is not its directory's.
Readable(S) == \A s \in S : \A j \in dir[s] : doc[j].status = s

\* Mutant: the snapshot trusts the directory of a running file.
SnapshotTrustsRunning ==
    /\ Readable(Statuses \ {"running"})
    /\ Cardinality(Entries) + Cardinality(leases) =< MaxScan

\* readQueueSnapshot returns: no mismatch, and the scan bound is not exceeded.
SnapshotOK ==
    /\ Readable(Statuses)
    /\ Cardinality(Entries) + Cardinality(leases) =< MaxScan

\* Newest first by terminal time, then by name.
SortsBefore(k, j) ==
    \/ doc[k].finished > doc[j].finished
    \/ doc[k].finished = doc[j].finished /\ k > j

Expired(s, now) ==
    {j \in dir[s] :
        \/ now - doc[j].finished > MaxAge
        \/ Cardinality({k \in dir[s] : SortsBefore(k, j)}) >= MaxTerminal}

PruneOK ==
    /\ Readable(TerminalStatuses)
    /\ \A s \in TerminalStatuses : Cardinality(dir[s]) =< MaxScan

\* Mutant: retention runs over every status directory.
PruneEverything(now, left) ==
    /\ dir' = [s \in Statuses |-> dir[s] \ (Expired(s, now) \ left)]
    /\ doc' = [j \in Jobs |->
                 IF \E s \in Statuses : j \in Expired(s, now) \ left
                 THEN NoDoc ELSE doc[j]]

\* pruneTerminalJobsUnlocked: unlinks, one by one, what retention no longer
\* keeps; "left" are the files it did not come to.
PruneExcept(now, left) ==
    /\ dir' = [s \in Statuses |->
                 IF s \in TerminalStatuses THEN dir[s] \ (Expired(s, now) \ left)
                                           ELSE dir[s]]
    /\ doc' = [j \in Jobs |->
                 IF \E s \in TerminalStatuses : j \in Expired(s, now) \ left
                 THEN NoDoc ELSE doc[j]]
PruneTerminal(now) == PruneExcept(now, {})

\* The first thing a locked admit, claim, lease acquisition or prune does.
Prune(p) ==
    /\ pc[p] = "locked"
    /\ call[p].op \in PruningOps
    /\ PruneOK
    /\ PruneTerminal(call[p].now)
    /\ IF call[p].op = "prune" THEN Leave(p, "ok")
       ELSE pc' = [pc EXCEPT ![p] = "pruned"] /\ UNCHANGED res
    /\ UNCHANGED <<ledger, leases, lock, call, clock, admissions>>

\* A mismatch or a scan bound throws out of prune or of the snapshot.
Unreadable(p) ==
    /\ \/ pc[p] = "locked" /\ call[p].op \in PruningOps /\ ~PruneOK
       \/ pc[p] = "pruned" /\ ~SnapshotOK
    /\ Leave(p, "error")
    /\ UNCHANGED <<dir, doc, ledger, leases, lock, call, clock, admissions>>

-----------------------------------------------------------------------------
(* admitBackupJob                                                            *)

\* Mutant: only queued work counts as equivalent work.
AdmissionIgnoresRunning(j) ==
    /\ leases = {}
    /\ \A k \in dir["queued"] : KeyOf[k] # KeyOf[j]
    /\ \A s \in Statuses : j \notin dir[s]
    /\ Cardinality(Active) < MaxOutstanding

\* The checks on the snapshot, in the order of the code.
AdmissionClear(j) ==
    /\ leases = {}
    /\ \A k \in Active : KeyOf[k] # KeyOf[j]
    /\ \A s \in Statuses : j \notin dir[s]
    /\ Cardinality(dir["queued"]) + Cardinality(dir["running"])
         + Cardinality(leases) < MaxOutstanding

\* Mutant: the window ends at the caller's clock and newer events fall out of it.
CompactedUpTo(now) == {e \in ledger : e.at =< now /\ now - e.at < Window}

\* readAdmissionLedger drops (and persists the drop of) events out of window.
Compacted(now) == {e \in ledger : now - e.at < Window}

LedgerReadable == Cardinality(ledger) =< MaxLedger

LedgerClear(j, now) ==
    /\ Cardinality({e \in Compacted(now) : Principal(e) = PrincipalOf[j]})
         < MaxPerPrincipal
    /\ Cardinality(Compacted(now)) < MaxLedger

\* Rejections before the ledger is read leave no trace.
AdmitRefused(p) ==
    LET j == call[p].job IN
    /\ At(p, "pruned", "admit")
    /\ SnapshotOK
    /\ ~AdmissionClear(j) \/ ~LedgerReadable
    /\ Leave(p, "refused")
    /\ UNCHANGED <<dir, doc, ledger, leases, lock, call, clock, admissions>>

\* Rate and ledger bounds are checked after the compaction was written.
AdmitRateLimited(p) ==
    LET j == call[p].job now == call[p].now IN
    /\ At(p, "pruned", "admit")
    /\ SnapshotOK /\ AdmissionClear(j) /\ LedgerReadable
    /\ ~LedgerClear(j, now)
    /\ ledger' = Compacted(now)
    /\ Leave(p, "refused")
    /\ UNCHANGED <<dir, doc, leases, lock, call, clock, admissions>>

\* All checks pass: the reservation is written before the job.
AdmitReserve(p) ==
    LET j == call[p].job now == call[p].now IN
    /\ At(p, "pruned", "admit")
    /\ SnapshotOK /\ AdmissionClear(j) /\ LedgerReadable
    /\ LedgerClear(j, now)
    /\ ledger' = Compacted(now) \cup {[job |-> j, at |-> now]}
    /\ pc' = [pc EXCEPT ![p] = "reserved"]
    /\ UNCHANGED <<dir, doc, leases, lock, call, res, clock, admissions>>

\* writeJsonExclusiveAtomic succeeds: the job is durable.
AdmitWriteJob(p) ==
    LET j == call[p].job now == call[p].now IN
    /\ At(p, "reserved", "admit")
    /\ dir' = [dir EXCEPT !["queued"] = @ \cup {j}]
    /\ doc' = [doc EXCEPT ![j] = [NoDoc EXCEPT !.created = now]]
    /\ admissions' = admissions \cup {[job |-> j, at |-> now, done |-> clock]}
    /\ Leave(p, "ok")
    /\ UNCHANGED <<ledger, leases, lock, call, clock>>

\* The job write fails; the ledger write that takes the event back may too.
\* The ledger is a list in the code: the equal event of an earlier admission
\* (same identifier, same instant) is not the one taken back.
AdmitWriteFails(p) ==
    LET e == [job |-> call[p].job, at |-> call[p].now] IN
    /\ At(p, "reserved", "admit")
    /\ \/ ledger' = ledger \ ({e} \ {Stamp(a) : a \in admissions})
       \/ UNCHANGED ledger
    /\ Leave(p, "error")
    /\ UNCHANGED <<dir, doc, leases, lock, call, clock, admissions>>

-----------------------------------------------------------------------------
(* claimNextBackupJob                                                        *)

Executing == Cardinality(dir["running"]) + Cardinality(leases)

\* Oldest creation time first, then name.
ClaimsBefore(j, k) ==
    \/ doc[j].created < doc[k].created
    \/ doc[j].created = doc[k].created /\ j =< k

ClaimNothing(p) ==
    /\ At(p, "pruned", "claim")
    /\ SnapshotOK
    /\ Executing >= MaxConcurrency \/ dir["queued"] = {}
    /\ Leave(p, "empty")
    /\ UNCHANGED <<dir, doc, ledger, leases, lock, call, clock, admissions>>

\* renameSync(queued, running): the document still says "queued".
ClaimRename(p) ==
    /\ At(p, "pruned", "claim")
    /\ SnapshotOK
    /\ Executing < MaxConcurrency
    /\ \E j \in dir["queued"] :
        /\ \A k \in dir["queued"] : ClaimsBefore(j, k)
        /\ dir' = [dir EXCEPT !["queued"] = @ \ {j}, !["running"] = @ \cup {j}]
        /\ call' = [call EXCEPT ![p].job = j]
    /\ pc' = [pc EXCEPT ![p] = "renamed"]
    /\ UNCHANGED <<doc, ledger, leases, lock, res, clock, admissions>>

ClaimWrite(p) ==
    /\ At(p, "renamed", "claim")
    /\ doc' = [doc EXCEPT ![call[p].job].status = "running"]
    /\ Leave(p, "ok")
    /\ UNCHANGED <<dir, ledger, leases, lock, call, clock, admissions>>

\* The write fails; the rename back may fail as well and strands the file.
ClaimWriteFails(p) ==
    LET j == call[p].job IN
    /\ At(p, "renamed", "claim")
    /\ \/ dir' = [dir EXCEPT !["queued"] = @ \cup {j}, !["running"] = @ \ {j}]
       \/ UNCHANGED dir
    /\ Leave(p, "error")
    /\ UNCHANGED <<doc, ledger, leases, lock, call, clock, admissions>>

-----------------------------------------------------------------------------
(* acquireBackupSchedulerLease, releaseBackupSchedulerLease                  *)

AcquireNothing(p) ==
    /\ At(p, "pruned", "acquire")
    /\ SnapshotOK
    /\ Executing >= MaxConcurrency
    /\ Leave(p, "empty")
    /\ UNCHANGED <<dir, doc, ledger, leases, lock, call, clock, admissions>>

\* Mutant: a lease is counted against other leases only.
AcquireIgnoresJobs(p) ==
    /\ At(p, "pruned", "acquire")
    /\ SnapshotOK
    /\ Cardinality(leases) < MaxConcurrency
    /\ \E l \in LeaseIds \ leases :
        /\ leases' = leases \cup {l}
        /\ call' = [call EXCEPT ![p].lease = l]
    /\ Leave(p, "ok")
    /\ UNCHANGED <<dir, doc, ledger, lock, clock, admissions>>

\* A fresh random handle is written to the lease directory.
AcquireLease(p) ==
    /\ At(p, "pruned", "acquire")
    /\ SnapshotOK
    /\ Executing < MaxConcurrency
    /\ \E l \in LeaseIds \ leases :
        /\ leases' = leases \cup {l}
        /\ call' = [call EXCEPT ![p].lease = l]
    /\ Leave(p, "ok")
    /\ UNCHANGED <<dir, doc, ledger, lock, clock, admissions>>

ReleaseLease(p) ==
    /\ At(p, "locked", "release")
    /\ leases' = leases \ {call[p].lease}
    /\ Leave(p, IF call[p].lease \in leases THEN "ok" ELSE "error")
    /\ UNCHANGED <<dir, doc, ledger, lock, call, clock, admissions>>

-----------------------------------------------------------------------------
(* finishBackupJob, markBackupJobOutcomeUnknown                              *)

\* readQueueEntry on the running path: present and with status running.
RunningEntry(j) == j \in dir["running"] /\ doc[j].status = "running"

FinishRefused(p) ==
    LET j == call[p].job IN
    /\ pc[p] = "locked"
    /\ \/ call[p].op \in {"finish", "unknown"} /\ ~RunningEntry(j)
       \/ call[p].op = "finish" /\ j \in dir[call[p].status]
    /\ Leave(p, "error")
    /\ UNCHANGED <<dir, doc, ledger, leases, lock, call, clock, admissions>>

\* Mutant: the document gets a status that no directory has.
FinishWritesOther(p) ==
    /\ At(p, "locked", "finish")
    /\ RunningEntry(call[p].job)
    /\ doc' = [doc EXCEPT ![call[p].job].status = "completed"]
    /\ pc' = [pc EXCEPT ![p] = "finWritten"]
    /\ UNCHANGED <<dir, ledger, leases, lock, call, res, clock, admissions>>

\* The terminal document is written over the running path.
FinishWrite(p) ==
    LET j == call[p].job IN
    /\ At(p, "locked", "finish")
    /\ RunningEntry(j)
    /\ j \notin dir[call[p].status]
    /\ doc' = [doc EXCEPT ![j] = [@ EXCEPT !.status = call[p].status,
                                           !.finished = call[p].now,
                                           !.unknown = FALSE]]
    /\ pc' = [pc EXCEPT ![p] = "finWritten"]
    /\ UNCHANGED <<dir, ledger, leases, lock, call, res, clock, admissions>>

FinishRename(p) ==
    LET j == call[p].job IN
    /\ At(p, "finWritten", "finish")
    /\ dir' = [dir EXCEPT !["running"] = @ \ {j},
                          ![call[p].status] = @ \cup {j}]
    /\ pc' = [pc EXCEPT ![p] = "finRenamed"]
    /\ UNCHANGED <<doc, ledger, leases, lock, call, res, clock, admissions>>

\* renameSync throws: the terminal document stays in running.
FinishRenameFails(p) ==
    /\ At(p, "finWritten", "finish")
    /\ Leave(p, "error")
    /\ UNCHANGED <<dir, doc, ledger, leases, lock, call, clock, admissions>>

FinishPrune(p) ==
    /\ At(p, "finRenamed", "finish")
    /\ IF PruneOK
       THEN PruneTerminal(call[p].now) /\ Leave(p, "ok")
       ELSE UNCHANGED <<dir, doc>> /\ Leave(p, "error")
    /\ UNCHANGED <<ledger, leases, lock, call, clock, admissions>>

\* The job stays in running with exit code 74.
MarkUnknown(p) ==
    /\ At(p, "locked", "unknown")
    /\ RunningEntry(call[p].job)
    /\ doc' = [doc EXCEPT ![call[p].job].unknown = TRUE]
    /\ Leave(p, "ok")
    /\ UNCHANGED <<dir, ledger, leases, lock, call, clock, admissions>>

-----------------------------------------------------------------------------
(* The environment                                                           *)

\* A process is killed inside a queue call; the lock directory stays behind. A
\* call that cannot write owner.json, or cannot remove it at the end, leaves the
\* same state: it throws and its lock directory stays.
Crash(p) ==
    /\ pc[p] # "idle"
    /\ Return(p)
    /\ UNCHANGED <<dir, doc, ledger, leases, lock, clock, admissions>>

\* The contract's only way out of an abandoned lock: an operator who has
\* proved that its owner is gone removes it.
OperatorClearsLock ==
    /\ lock # NoProc
    /\ pc[lock] \notin Held
    /\ lock' = NoProc
    /\ UNCHANGED <<dir, doc, ledger, leases, pc, call, res, clock, admissions>>

Tick ==
    /\ clock < MaxClock
    /\ clock' = clock + 1
    /\ UNCHANGED <<dir, doc, ledger, leases, lock, pc, call, res, admissions>>

\* An unlink of the retention pass fails after some others were done.
PruneStops(p) ==
    /\ \/ pc[p] = "locked" /\ call[p].op \in PruningOps
       \/ At(p, "finRenamed", "finish")
    /\ PruneOK
    /\ \E left \in SUBSET Jobs : PruneExcept(call[p].now, left)
    /\ Leave(p, "error")
    /\ UNCHANGED <<ledger, leases, lock, call, clock, admissions>>

\* A read or the first write of a call throws; an admission may have written
\* the compacted ledger by then, and no call has written anything else.
Throws(p) ==
    LET j == call[p].job now == call[p].now IN
    /\ pc[p] \in {"locked", "pruned"}
    /\ \/ UNCHANGED ledger
       \/ /\ At(p, "pruned", "admit")
          /\ SnapshotOK /\ AdmissionClear(j) /\ LedgerReadable
          /\ ledger' = Compacted(now)
    /\ Leave(p, "error")
    /\ UNCHANGED <<dir, doc, leases, lock, call, clock, admissions>>

\* A read or write fails (disk full, I/O error) and the code's rollback runs.
IOFailure(p) ==
    \/ AdmitWriteFails(p) \/ ClaimWriteFails(p) \/ FinishRenameFails(p)
    \/ PruneStops(p) \/ Throws(p)

\* The steps of a call between taking the lock and releasing it.
LockedStep(p) ==
    \/ Prune(p) \/ Unreadable(p)
    \/ AdmitRefused(p) \/ AdmitRateLimited(p) \/ AdmitReserve(p) \/ AdmitWriteJob(p)
    \/ ClaimNothing(p) \/ ClaimRename(p) \/ ClaimWrite(p)
    \/ AcquireNothing(p) \/ AcquireLease(p) \/ ReleaseLease(p)
    \/ FinishRefused(p) \/ FinishWrite(p) \/ FinishRename(p) \/ FinishPrune(p)
    \/ MarkUnknown(p)

\* What a process does inside a call it has made.
Inside(p) ==
    \/ TakeLock(p) \/ LockTimeout(p) \/ ReleaseLock(p)
    \/ LockedStep(p)
    \/ IOFailure(p)

RequestAdmit(p) == \E j \in Jobs : Request(p, "admit", j, "done", AnyLease)
RequestClaim(p) == Request(p, "claim", AnyJob, "done", AnyLease)
RequestAcquire(p) == Request(p, "acquire", AnyJob, "done", AnyLease)
RequestRelease(p) == \E l \in LeaseIds : Request(p, "release", AnyJob, "done", l)
RequestFinish(p) ==
    \E j \in Jobs, st \in TerminalStatuses : Request(p, "finish", j, st, AnyLease)
RequestUnknown(p) == \E j \in Jobs : Request(p, "unknown", j, "done", AnyLease)
RequestPrune(p) == Request(p, "prune", AnyJob, "done", AnyLease)

\* The most general client: any process, any call, any arguments.
Next ==
    \/ \E p \in Procs :
        \/ RequestAdmit(p) \/ RequestClaim(p) \/ RequestAcquire(p)
        \/ RequestRelease(p) \/ RequestFinish(p) \/ RequestUnknown(p)
        \/ RequestPrune(p)
        \/ Inside(p)
        \/ Crash(p)
    \/ OperatorClearsLock
    \/ Tick

Spec == Init /\ [][Next]_vars

-----------------------------------------------------------------------------
(* Properties                                                                *)

TypeOK ==
    /\ dir \in [Statuses -> SUBSET Jobs]
    /\ doc \in [Jobs -> Docs]
    /\ ledger \subseteq Events
    /\ leases \subseteq LeaseIds
    /\ lock \in Procs \cup {NoProc}
    /\ pc \in [Procs -> {"idle", "waiting"} \cup Held]
    /\ call \in [Procs -> Calls]
    /\ res \in [Procs -> Codes]
    /\ clock \in Time
    /\ admissions \subseteq Admissions

\* A job file is in at most one status directory, whatever process died
\* between the writes of an admission, a claim or a finish.
SingleHome ==
    \A s, t \in Statuses : s # t => dir[s] \cap dir[t] = {}

\* Two owners never have equivalent privileged work queued or running at the
\* same time (the duplicate check of admitBackupJob, over its two writes).
NoDuplicateActive ==
    \A j, k \in Active : KeyOf[j] = KeyOf[k] => j = k

\* Claimed jobs and scheduler leases together stay within maxConcurrency,
\* also when claims fail half way and processes die and come back.
ConcurrencyBudget == Executing =< MaxConcurrency

\* queued and running together stay within maxOutstanding.
OutstandingBound == Cardinality(Active) =< MaxOutstanding

\* "fails closed rather than undercounting an admission": every durable
\* admission whose own time stamp is inside the rate window is in the ledger,
\* although callers read the clock before they wait for the lock and compact
\* with it.  Of an admission that waited longer the ledger knows nothing any
\* more (SlidingWindow).
LedgerNeverUndercounts ==
    \A a \in admissions : clock - a.at < Window => Stamp(a) \in ledger

\* The admissions of a requester whose callers had waited at most d ticks since
\* they read the clock, and that became durable in the n ticks up to t.  Each is
\* told by its event: the portal draws a new identifier for every request.
MadeDurable(P, d, t, n) ==
    {Stamp(a) : a \in {b \in admissions : /\ Principal(b) = P /\ b.done - b.at =< d
                                          /\ b.done =< t /\ t - b.done < n}}

\* By the instants at which jobs become durable, in no stretch of Window - d
\* ticks, now or in the past, were more than maxPerPrincipal jobs of a requester
\* admitted for callers that waited at most d ticks: the wait is all that old
\* clock readings can take from the window.
RateBound ==
    \A j \in Jobs, d \in Time, t \in Time :
        t =< clock =>
            Cardinality(MadeDurable(PrincipalOf[j], d, t, Window - d)) =< MaxPerPrincipal

\* BACKUP-JOB-CONTRACT.md: "One locked transaction performs the [...]
\* per-principal sliding-window check": no more than maxPerPrincipal jobs of a
\* requester become durable in the last window, however long callers waited.
SlidingWindow ==
    \A j \in Jobs :
        Cardinality({a \in admissions : /\ Principal(a) = PrincipalOf[j]
                                        /\ clock - a.done < Window})
            =< MaxPerPrincipal

\* Only a live holder of the lock changes the durable queue: after a crash
\* nothing moves until an operator has removed the abandoned lock.
OnlyHolderWrites ==
    [][<<dir, doc, ledger, leases>>' # <<dir, doc, ledger, leases>>
        => lock # NoProc /\ pc[lock] \in Held]_vars

\* While some document disagrees with its directory (a claim or a finish that
\* stopped half way) no job starts running and none is admitted.
StrandedFailsClosed ==
    [][~Readable(Statuses)
        => /\ dir'["running"] \subseteq dir["running"]
           /\ admissions' = admissions]_vars

\* A job leaves queued and running only into done or failed: active jobs are
\* never retention candidates and no crash loses one.
ActiveNeverLost ==
    [][\A j \in Active : j \notin Active' =>
          \E s \in TerminalStatuses : j \in dir'[s] /\ doc'[j].status = s]_vars

-----------------------------------------------------------------------------
(* What holds between the writes of one call: the strengthening that makes   *)
(* the invariants above inductive.                                           *)

\* A process inside a locked section is the maker of the lock directory.
LockDiscipline == \A p \in Procs : pc[p] \in Held => lock = p

\* No call carries a time of the future.
CallTimes == \A p \in Procs : call[p].now =< clock

\* What the check of the ledger can see of a requester: stamps, not instants.
InWindow(P) ==
    {Stamp(a) : a \in {b \in admissions : Principal(b) = P /\ clock - b.at < Window}}

\* Between the ledger write and the job write of an admission, what was checked
\* still holds, the reservation is in the ledger and a rate slot is free.
Reservation(p) ==
    /\ Readable(Statuses)
    /\ AdmissionClear(call[p].job)
    /\ [job |-> call[p].job, at |-> call[p].now] \in ledger
    /\ Cardinality(InWindow(PrincipalOf[call[p].job])) < MaxPerPrincipal

\* Between rename and write a claimed file is in running; between write and
\* rename a finished one still is, with its terminal status.
HalfWay(p) ==
    /\ call[p].job \in dir["running"]
    /\ pc[p] = "finWritten" => doc[call[p].job].status = call[p].status

CallProgress ==
    \A p \in Procs :
        /\ pc[p] = "reserved" => Reservation(p)
        /\ pc[p] \in {"renamed", "finWritten"} => HalfWay(p)

RateInWindow ==
    \A P \in {PrincipalOf[j] : j \in Jobs} :
        Cardinality(InWindow(P)) =< MaxPerPrincipal

DirectoryInv ==
    SingleHome /\ NoDuplicateActive /\ ConcurrencyBudget /\ OutstandingBound

QueueInv ==
    /\ LockDiscipline
    /\ CallTimes
    /\ CallProgress
    /\ DirectoryInv
    /\ LedgerNeverUndercounts
    /\ RateInWindow
=============================================================================
