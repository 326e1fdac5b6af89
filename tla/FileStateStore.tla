--------------------------- MODULE FileStateStore ---------------------------
(* The Control Center's state store, control-center/state/file-store.mjs: one *)
(* file per dataset, a metadata file with revision and digest beside it, and  *)
(* a lock file per dataset created with O_EXCL.  A step is one file operation *)
(* of one process; processes are the server and the scripts that share its    *)
(* state directory.  A lock older than staleLockMs is removed by whoever      *)
(* meets it, after a look that is a step of its own.                          *)
(*                                                                            *)
(* Contents are sequences of records, each named by the call that wrote it; a *)
(* digest is the contents themselves.  Byte limits are not modelled.          *)
EXTENDS Naturals, SequencesExt, FiniteSets

CONSTANTS
    StoreProcs,     \* processes that use the store
    JsonSets,       \* datasets of kind json
    LogSets,        \* datasets of kind jsonl
    Calls,          \* calls of the store, each made once
    Kinds,          \* what each call may be
    StaleLock,      \* staleLockMs
    LockTimeout,    \* lockTimeoutMs
    RecordLimit,    \* maxRecords of appendRetained
    MaxStoreTime,   \* bound of the clock
    MaxStoreFaults, \* bound of crashes and I/O errors
    NoCall, NoProc

ASSUME StoreLimits ==
    /\ StaleLock \in Nat /\ LockTimeout \in Nat \ {0}
    /\ MaxStoreTime \in Nat /\ MaxStoreFaults \in Nat
    /\ RecordLimit \in Nat \ {0, 1}
    /\ Kinds \in [Calls -> SUBSET {"update", "put", "append", "retain", "import"}]
    /\ JsonSets \cap LogSets = {} /\ NoCall \notin Calls /\ NoProc \notin StoreProcs
    /\ IsFiniteSet(JsonSets) /\ IsFiniteSet(LogSets) /\ JsonSets \cup LogSets # {}

VARIABLES
    file,       \* contents of each dataset: its records and how its last line ends
    meta,       \* the metadata file: revision, digest and record count
    lockFile,   \* the lock file of each dataset: its owner and its mtime
    caller,     \* what each process is doing
    outcome,    \* of each call: new, open, done, refused or lost in a crash
    rollback,   \* the rollback snapshot of importSnapshot
    storeTime, storeFaults,
    crowded     \* history: two callers have been inside one lock

storeVars == <<file, meta, lockFile, caller, outcome, rollback, storeTime,
               storeFaults, crowded>>

DataSets == JsonSets \cup LogSets
NoLockFile == [owner |-> NoProc, at |-> 0]
NoToken == [rev |-> 0, recs |-> <<NoCall>>]
Resting == [pc |-> "rest", kind |-> "none", call |-> NoCall, ds |-> CHOOSE d \in DataSets : TRUE,
            since |-> 0, cur |-> NoToken, expect |-> NoToken, tidy |-> FALSE, count |-> 0,
            phase |-> "none", todo |-> <<>>, alone |-> FALSE, ok |-> TRUE]

\* Between openSync(lockPath, "wx") and the finally clause of withLock.
LockedSteps == {"load", "loadMeta", "check", "checkMeta", "retainMeta", "retain",
                "data", "meta", "back", "unlock"}

StoreInit ==
    /\ file = [d \in DataSets |-> [recs |-> <<>>, tail |-> "whole"]]
    /\ meta = [d \in DataSets |-> [rev |-> 0, recs |-> <<>>, count |-> 0]]
    /\ lockFile = [d \in DataSets |-> NoLockFile]
    /\ caller = [p \in StoreProcs |-> Resting]
    /\ outcome = [c \in Calls |-> "new"]
    /\ rollback = [d \in DataSets |-> <<>>]
    /\ storeTime = 0 /\ storeFaults = 0 /\ crowded = FALSE

At(p, step) == caller[p].pc = step
Goto(p, step) == caller' = [caller EXCEPT ![p].pc = step]
Set(p, c) == caller' = [caller EXCEPT ![p] = c]

\* A process inside the lock of dataset d.
Inside(p, d) == caller[p].pc \in LockedSteps /\ caller[p].ds = d

\* Several datasets, in the order of Object.entries.
InOrder(S) == CHOOSE s \in [1 .. Cardinality(S) -> S] : {s[i] : i \in DOMAIN s} = S

----------------------------------------------------------------------------
(* Beginning a call.  An import is alone until another call begins.           *)

FirstStep(kind) ==
    CASE kind = "put" -> "peek"
      [] kind = "import" -> "export"
      [] OTHER -> "wait"

BeginCall(p, c, kind, d) ==
    /\ At(p, "rest") /\ outcome[c] = "new"
    /\ kind \in {"update", "put"} => d \in JsonSets
    /\ kind \in {"append", "retain"} => d \in LogSets
    /\ kind = "import" => /\ d = Head(InOrder(DataSets))
                          /\ \A q \in StoreProcs : caller[q].kind # "import"
    /\ caller' = [q \in StoreProcs |->
          IF q = p
          THEN [Resting EXCEPT !.pc = FirstStep(kind), !.kind = kind, !.call = c,
                               !.ds = d, !.since = storeTime,
                               !.todo = IF kind = "import" THEN Tail(InOrder(DataSets)) ELSE <<>>,
                               !.alone = \A r \in StoreProcs : At(r, "rest")]
          ELSE [caller[q] EXCEPT !.alone = FALSE]]
    /\ outcome' = [outcome EXCEPT ![c] = "open"]
    /\ UNCHANGED <<file, meta, lockFile, rollback, storeTime, storeFaults, crowded>>

----------------------------------------------------------------------------
(* withLock                                                                   *)

Acquired(kind) ==
    CASE kind \in {"update", "append"} -> "load"
      [] kind \in {"put", "import"} -> "check"
      [] kind = "retain" -> "retainMeta"

Acquire(p) ==
    LET d == caller[p].ds IN
    /\ At(p, "wait") /\ lockFile[d] = NoLockFile
    /\ lockFile' = [lockFile EXCEPT ![d] = [owner |-> p, at |-> storeTime]]
    /\ Goto(p, Acquired(caller[p].kind))
    /\ UNCHANGED <<file, meta, outcome, rollback, storeTime, storeFaults, crowded>>

IsStale(d) == storeTime - lockFile[d].at > StaleLock

JudgeStale(p) ==
    LET d == caller[p].ds IN
    /\ At(p, "wait") /\ lockFile[d] # NoLockFile /\ IsStale(d)
    /\ Goto(p, "steal")
    /\ UNCHANGED <<file, meta, lockFile, outcome, rollback, storeTime, storeFaults, crowded>>

\* rmSync removes whatever lock file is there now, also that of another process.
RemoveLock(p, d) ==
    /\ lockFile' = [lockFile EXCEPT ![d] = NoLockFile]
    /\ crowded' = (crowded \/ \E q \in StoreProcs \ {p} : lockFile[d].owner = q /\ Inside(q, d))

RemoveStale(p) ==
    /\ At(p, "steal")
    /\ RemoveLock(p, caller[p].ds)
    /\ Goto(p, "wait")
    /\ UNCHANGED <<file, meta, outcome, rollback, storeTime, storeFaults>>

\* Mutant: the rollback restores the first dataset only.
RejectedFirstOnly(c) ==
    IF c.phase = "apply"
    THEN [c EXCEPT !.pc = "wait", !.phase = "undo", !.todo = <<>>,
                   !.ds = Head(InOrder(DataSets)), !.since = storeTime, !.ok = TRUE]
    ELSE Resting

\* What follows an error: an import whose write failed rolls back, a rollback
\* that fails is given up, any other call is refused.
Rejected(c) ==
    IF c.phase = "apply"
    THEN [c EXCEPT !.pc = "wait", !.phase = "undo", !.todo = Tail(InOrder(DataSets)),
                   !.ds = Head(InOrder(DataSets)), !.since = storeTime, !.ok = TRUE]
    ELSE Resting

Reject(p) ==
    /\ Set(p, Rejected(caller[p]))
    /\ outcome' = IF caller[p].phase = "apply" THEN outcome
                  ELSE [outcome EXCEPT ![caller[p].call] = "refused"]

TimeOut(p) ==
    LET d == caller[p].ds IN
    /\ At(p, "wait") /\ lockFile[d] # NoLockFile /\ ~IsStale(d)
    /\ storeTime - caller[p].since >= LockTimeout
    /\ Reject(p)
    /\ UNCHANGED <<file, meta, lockFile, rollback, storeTime, storeFaults, crowded>>

\* The lock file is created and writing the owner into it fails: the error is
\* thrown before the try block whose finally clause would remove the file.
AcquireFails(p) ==
    LET d == caller[p].ds IN
    /\ At(p, "wait") /\ lockFile[d] = NoLockFile /\ storeFaults < MaxStoreFaults
    /\ lockFile' = [lockFile EXCEPT ![d] = [owner |-> p, at |-> storeTime]]
    /\ storeFaults' = storeFaults + 1
    /\ Reject(p)
    /\ UNCHANGED <<file, meta, rollback, storeTime, crowded>>

\* The next dataset of an import or of its rollback; done after the last.
Proceed(c) ==
    CASE ~c.ok -> Rejected(c)
      [] c.ok /\ c.todo # <<>> ->
           [c EXCEPT !.pc = "wait", !.ds = Head(c.todo), !.todo = Tail(c.todo),
                     !.since = storeTime, !.cur = NoToken, !.expect = NoToken]
      [] c.ok /\ c.todo = <<>> /\ c.phase = "undo" -> [c EXCEPT !.pc = "undone"]
      [] OTHER -> Resting

\* The finally clause; the call returns or throws.
Unlock(p) ==
    LET c == caller[p] IN
    /\ At(p, "unlock")
    /\ RemoveLock(p, c.ds)
    /\ Set(p, Proceed(c))
    /\ outcome' = IF Proceed(c) = Resting
                  THEN [outcome EXCEPT ![c.call] = IF c.ok THEN "done" ELSE "refused"]
                  ELSE outcome
    /\ UNCHANGED <<file, meta, rollback, storeTime, storeFaults>>

\* importSnapshot throws the error that made it roll back.
ImportThrows(p) ==
    /\ At(p, "undone")
    /\ Set(p, Resting)
    /\ outcome' = [outcome EXCEPT ![caller[p].call] = "refused"]
    /\ UNCHANGED <<file, meta, lockFile, rollback, storeTime, storeFaults, crowded>>

----------------------------------------------------------------------------
(* Reading.  read(strict) takes the data file, then the metadata file, and    *)
(* throws if the data does not parse.                                         *)

\* Mutant: the read is not strict.
ReadRawLenient(p) ==
    LET c == caller[p] IN
    /\ c.pc \in {"peek", "load", "check"}
    /\ Set(p, [c EXCEPT !.cur.recs = file[c.ds].recs,
                        !.pc = CASE c.pc = "peek" -> "peekMeta"
                                 [] c.pc = "load" -> "loadMeta"
                                 [] c.pc = "check" -> "checkMeta"])
    /\ UNCHANGED <<file, meta, lockFile, outcome, rollback, storeTime, storeFaults, crowded>>

ReadRaw(p) ==
    LET c == caller[p] IN
    /\ c.pc \in {"peek", "load", "check"}
    /\ IF file[c.ds].tail = "half"
       THEN Set(p, [c EXCEPT !.pc = "unlock", !.ok = FALSE])
       ELSE Set(p, [c EXCEPT !.cur.recs = file[c.ds].recs,
                             !.pc = CASE c.pc = "peek" -> "peekMeta"
                                      [] c.pc = "load" -> "loadMeta"
                                      [] c.pc = "check" -> "checkMeta"])
    /\ UNCHANGED <<file, meta, lockFile, outcome, rollback, storeTime, storeFaults, crowded>>

\* Mutant: write computes from the value the caller has read.
ReadMetaTrusts(p) ==
    LET c == caller[p]
        token == [c.cur EXCEPT !.rev = meta[c.ds].rev]
    IN
    /\ c.pc \in {"peekMeta", "loadMeta", "checkMeta"}
    /\ Set(p, CASE c.pc = "peekMeta" ->
                     [c EXCEPT !.pc = "wait", !.expect = token, !.since = storeTime]
                [] c.pc = "loadMeta" /\ c.kind = "append" -> [c EXCEPT !.pc = "data", !.cur = token]
                [] c.pc = "loadMeta" /\ c.kind # "append" -> [c EXCEPT !.pc = "check", !.expect = token]
                [] OTHER -> [c EXCEPT !.pc = "data", !.cur = IF c.kind = "put" THEN [token EXCEPT !.recs = c.expect.recs] ELSE token])
    /\ UNCHANGED <<file, meta, lockFile, outcome, rollback, storeTime, storeFaults, crowded>>

\* The caller of write with expectedToken has read before it took the lock;
\* update takes the token of its own read; a token that changed is a conflict.
ReadMeta(p) ==
    LET c == caller[p]
        token == [c.cur EXCEPT !.rev = meta[c.ds].rev]
    IN
    /\ c.pc \in {"peekMeta", "loadMeta", "checkMeta"}
    /\ Set(p, CASE c.pc = "peekMeta" ->
                     [c EXCEPT !.pc = "wait", !.expect = token, !.since = storeTime]
                [] c.pc = "loadMeta" /\ c.kind = "append" -> [c EXCEPT !.pc = "data", !.cur = token]
                [] c.pc = "loadMeta" /\ c.kind # "append" -> [c EXCEPT !.pc = "check", !.expect = token]
                [] c.pc = "checkMeta" /\ c.expect \in {NoToken, token} ->
                     [c EXCEPT !.pc = "data", !.cur = token]
                [] OTHER -> [c EXCEPT !.pc = "unlock", !.ok = FALSE])
    /\ UNCHANGED <<file, meta, lockFile, outcome, rollback, storeTime, storeFaults, crowded>>

\* appendRetained reads the metadata first.  It appends when the metadata
\* describes a file with room, and rewrites the tail otherwise.
RetainMeta(p) ==
    LET c == caller[p] IN
    /\ At(p, "retainMeta")
    /\ Set(p, [c EXCEPT !.pc = "retain", !.cur = [rev |-> meta[c.ds].rev, recs |-> meta[c.ds].recs],
                        !.count = meta[c.ds].count,
                        !.tidy = meta[c.ds].count \in 1 .. RecordLimit - 1])
    /\ UNCHANGED <<file, meta, lockFile, outcome, rollback, storeTime, storeFaults, crowded>>

RetainLook(p) ==
    LET c == caller[p]
        f == file[c.ds]
        tidy == c.tidy /\ Len(f.recs) = Len(c.cur.recs) /\ f.tail = "whole"
    IN
    /\ At(p, "retain")
    /\ Set(p, IF f.tail = "half" \/ (tidy /\ f.recs # c.cur.recs)
              THEN [c EXCEPT !.pc = "unlock", !.ok = FALSE]
              ELSE [c EXCEPT !.pc = "data", !.cur.recs = f.recs, !.tidy = tidy])
    /\ UNCHANGED <<file, meta, lockFile, outcome, rollback, storeTime, storeFaults, crowded>>

----------------------------------------------------------------------------
(* Writing: the data file, then the metadata file that describes it.          *)

Appends(c) == c.kind = "append" \/ (c.kind = "retain" /\ c.tidy)

LastRecords(s, n) == IF Len(s) =< n THEN s ELSE SubSeq(s, Len(s) - n + 1, Len(s))

\* Mutant: the tail that is kept leaves no room for the new record.
NewRecordsOneMore(c) ==
    CASE c.kind = "append" -> Append(file[c.ds].recs, c.call)
      [] c.kind = "retain" /\ c.tidy -> Append(file[c.ds].recs, c.call)
      [] c.kind = "retain" /\ ~c.tidy -> Append(LastRecords(c.cur.recs, RecordLimit), c.call)
      [] c.kind \in {"update", "put"} -> Append(c.cur.recs, c.call)
      [] c.phase = "apply" -> <<c.call>>
      [] c.phase = "undo" -> rollback[c.ds]

\* An append goes to the file as it is now, everything else replaces the file
\* by what was computed from the read.
NewRecords(c) ==
    CASE c.kind = "append" -> Append(file[c.ds].recs, c.call)
      [] c.kind = "retain" /\ c.tidy -> Append(file[c.ds].recs, c.call)
      [] c.kind = "retain" /\ ~c.tidy -> Append(LastRecords(c.cur.recs, RecordLimit - 1), c.call)
      [] c.kind \in {"update", "put"} -> Append(c.cur.recs, c.call)
      [] c.phase = "apply" -> <<c.call>>
      [] c.phase = "undo" -> rollback[c.ds]

\* A line appended to one that has no newline makes both unreadable.
Written(c) ==
    IF Appends(c) /\ file[c.ds].tail = "open"
    THEN [recs |-> Front(file[c.ds].recs), tail |-> "half"]
    ELSE [recs |-> NewRecords(c), tail |-> "whole"]

WriteData(p) ==
    LET c == caller[p] IN
    /\ At(p, "data")
    /\ c.kind = "retain" /\ c.tidy => file[c.ds].recs = c.cur.recs
    /\ file' = [file EXCEPT ![c.ds] = Written(c)]
    /\ Set(p, [c EXCEPT !.pc = "meta",
                        !.count = CASE c.kind = "retain" /\ c.tidy -> c.count + 1
                                    [] c.kind = "retain" /\ ~c.tidy -> Len(NewRecords(c))
                                    [] OTHER -> 0])
    /\ UNCHANGED <<meta, lockFile, outcome, rollback, storeTime, storeFaults, crowded>>

\* appendPrivateJsonLine finds another file than the one it looked at.
RetainMoved(p) ==
    LET c == caller[p] IN
    /\ At(p, "data") /\ c.kind = "retain" /\ c.tidy /\ file[c.ds].recs # c.cur.recs
    /\ Set(p, [c EXCEPT !.pc = "unlock", !.ok = FALSE])
    /\ UNCHANGED <<file, meta, lockFile, outcome, rollback, storeTime, storeFaults, crowded>>

\* writeMetadata digests the file as it finds it; only appendRetained counts.
WriteMeta(p) ==
    LET c == caller[p] IN
    /\ At(p, "meta")
    /\ meta' = [meta EXCEPT ![c.ds] =
          [rev |-> c.cur.rev + 1, recs |-> file[c.ds].recs,
           count |-> c.count]]
    /\ Goto(p, IF c.kind = "retain" THEN "unlock" ELSE "back")
    /\ UNCHANGED <<file, lockFile, outcome, rollback, storeTime, storeFaults, crowded>>

\* The strict read that ends writeMetadata.
ReadBack(p) ==
    LET c == caller[p] IN
    /\ At(p, "back")
    /\ Set(p, [c EXCEPT !.pc = "unlock", !.ok = file[c.ds].tail # "half"])
    /\ UNCHANGED <<file, meta, lockFile, outcome, rollback, storeTime, storeFaults, crowded>>

----------------------------------------------------------------------------
(* importSnapshot: export the rollback snapshot, then write every dataset.    *)
(* planImport only reads before that.                                         *)

ExportSet(p) ==
    LET c == caller[p] IN
    /\ At(p, "export")
    /\ IF file[c.ds].tail = "half"
       THEN /\ Reject(p)
            /\ UNCHANGED rollback
       ELSE /\ rollback' = [rollback EXCEPT ![c.ds] = file[c.ds].recs]
            /\ Set(p, IF c.todo # <<>>
                      THEN [c EXCEPT !.ds = Head(c.todo), !.todo = Tail(c.todo)]
                      ELSE [c EXCEPT !.pc = "wait", !.phase = "apply", !.since = storeTime,
                                     !.ds = Head(InOrder(DataSets)),
                                     !.todo = Tail(InOrder(DataSets))])
            /\ UNCHANGED outcome
    /\ UNCHANGED <<file, meta, lockFile, storeTime, storeFaults, crowded>>

----------------------------------------------------------------------------
(* Faults.  A failed atomicWrite leaves the old file, a failed append may     *)
(* leave part of a line; either ends in the finally clause.                   *)

\* Nothing, part of the line, or all of it but the newline was written.
Cut(c) == file' \in {file, [file EXCEPT ![c.ds].tail = "half"]}
                   \cup IF file[c.ds].tail = "open" THEN {}
                        ELSE {[file EXCEPT ![c.ds] = [recs |-> NewRecords(c), tail |-> "open"]]}

WriteFails(p) ==
    LET c == caller[p] IN
    /\ c.pc \in {"data", "meta"} /\ storeFaults < MaxStoreFaults
    /\ IF c.pc = "data" /\ Appends(c) THEN Cut(c) ELSE UNCHANGED file
    /\ Set(p, [c EXCEPT !.pc = "unlock", !.ok = FALSE])
    /\ storeFaults' = storeFaults + 1
    /\ UNCHANGED <<meta, lockFile, outcome, rollback, storeTime, crowded>>

\* The process dies; what it was writing is cut, its lock file stays.
StoreCrash(p) ==
    LET c == caller[p] IN
    /\ ~At(p, "rest") /\ storeFaults < MaxStoreFaults
    /\ IF c.pc = "data" /\ Appends(c) THEN Cut(c) ELSE UNCHANGED file
    /\ Set(p, Resting)
    /\ outcome' = [outcome EXCEPT ![c.call] = "crashed"]
    /\ storeFaults' = storeFaults + 1
    /\ UNCHANGED <<meta, lockFile, rollback, storeTime, crowded>>

StoreTick ==
    /\ storeTime < MaxStoreTime
    /\ storeTime' = storeTime + 1
    /\ UNCHANGED <<file, meta, lockFile, caller, outcome, rollback, storeFaults, crowded>>

CallStep(p) ==
    \/ Acquire(p) \/ JudgeStale(p) \/ RemoveStale(p) \/ TimeOut(p) \/ Unlock(p)
    \/ ReadRaw(p) \/ ReadMeta(p) \/ RetainMeta(p) \/ RetainLook(p)
    \/ WriteData(p) \/ RetainMoved(p) \/ WriteMeta(p) \/ ReadBack(p)
    \/ ExportSet(p) \/ ImportThrows(p)

StoreNext ==
    \/ \E p \in StoreProcs :
          \/ \E c \in Calls, d \in DataSets : \E kind \in Kinds[c] : BeginCall(p, c, kind, d)
          \/ CallStep(p)
          \/ AcquireFails(p) \/ WriteFails(p) \/ StoreCrash(p)
    \/ StoreTick

StoreSpec == StoreInit /\ [][StoreNext]_storeVars

----------------------------------------------------------------------------
(* Properties                                                                 *)

\* The files of file-store.mjs: logs hold records of calls, the retained count of
\* the metadata never exceeds the limit of appendRetained.
StoreTypeOK ==
    /\ \A d \in DataSets :
          /\ file[d].recs \in Seq(Calls) /\ file[d].tail \in {"whole", "open", "half"}
          /\ meta[d].rev \in Nat /\ meta[d].recs \in Seq(Calls) /\ meta[d].count \in 0 .. RecordLimit
          /\ lockFile[d].owner \in StoreProcs \cup {NoProc}
    /\ outcome \in [Calls -> {"new", "open", "done", "refused", "crashed"}]
    /\ storeTime \in 0 .. MaxStoreTime /\ storeFaults \in 0 .. MaxStoreFaults

Atomic == INSTANCE AtomicStore WITH
    Sets <- DataSets, Records <- Calls, Limit <- RecordLimit,
    value <- [d \in DataSets |-> file[d].recs], saved <- rollback, exclusive <- ~crowded,
    failed <- {c \in Calls : outcome[c] \in {"refused", "crashed"}}

\* The lock, the second read under it and the rename make every call of the
\* store one atomic change of its dataset, as long as no lock that is in use
\* was taken for a stale one: file-store.mjs implements AtomicStore.
StoreIsAtomic == Atomic!AtomicSpec

\* appendPrivateJsonLine and append leave half a line when they are cut.  No
\* later call builds on such a log: every write begins with a strict read.  (A
\* cut that loses the newline only is read as a record, and the next append
\* spoils that line: it is half a line from then on.)
TornFailsClosed ==
    [][\A d \in DataSets : file[d].tail = "half" /\ ~crowded' => file'[d] = file[d]]_storeVars

\* importSnapshot "restores the in-memory rollback snapshot automatically if a
\* write fails" (STATE-STORE-MIGRATION.md): when the rollback has ended and no
\* other call came between, every dataset is what it was before.
ImportRestores ==
    \A p \in StoreProcs :
        At(p, "undone") /\ caller[p].alone => \A d \in DataSets : file[d].recs = rollback[d]

=============================================================================
