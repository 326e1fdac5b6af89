------------------------- MODULE DockerActionLease -------------------------
(***************************************************************************)
(* The lease of the Docker action broker, scripts/docker-action-broker.mjs: *)
(* a replay ledger that admits a signed request once, an active.lock file    *)
(* that lets one action run at a time and heads a write-ahead journal, the   *)
(* executor that creates, starts and deletes worker containers between       *)
(* journal entries, the settlement of the response, and the recovery that a  *)
(* restarted broker runs before it listens.                                  *)
(*                                                                           *)
(* One action is one durable write, one Engine call or one decision of the   *)
(* code.  An action of the broker is a plan of workers, run in order; the    *)
(* helpers of a phase appear as one helper, and scratch directories and      *)
(* sealed helper results, which are journalled like the claimed-job          *)
(* snapshot, do not appear.                                                  *)
(***************************************************************************)
EXTENDS Integers, Sequences, FiniteSets

CONSTANTS
    Requests,      \* signed requests (requestId and nonce)
    NoRequest,     \* "there is no active.lock"
    Plan,          \* the kinds of the workers a request runs, in order
    PhaseEnds,     \* the workers after which a phase of the request ends
    Claims,        \* the requests that seal a snapshot of a claimed job
    Issued,        \* the issue time of a request
    Lifetime,      \* MAX_REQUEST_LIFETIME_MS
    Retention,     \* how long the replay ledger remembers a request
    MaxReplay,     \* MAX_REPLAY_ENTRIES
    MaxClock,      \* bound on the clock
    MaxFaults      \* bound on crashes and failed calls

\* A role worker is plain or has mutationClass local-nonidempotent; a helper
\* has a remote effect when it is the offsite restic one.
Kinds == {"plain", "local", "helper", "remote"}

ASSUME LeaseAssumption ==
    /\ NoRequest \notin Requests
    /\ Plan \in [Requests -> Seq(Kinds)]
    /\ PhaseEnds \in [Requests -> SUBSET Nat]
    /\ Claims \subseteq Requests
    /\ Issued \in [Requests -> Nat]
    /\ Lifetime \in Nat
    /\ Retention \in Nat
    /\ Lifetime =< Retention
    /\ MaxReplay \in Nat
    /\ MaxClock \in Nat
    /\ MaxFaults \in Nat
    /\ \A r \in Claims : Len(Plan[r]) > 0 /\ PhaseEnds[r] = {}

VARIABLES
    replay,      \* the replay directory: requests and their expiry
    replayTorn,  \* a replay file was created and never written
    lock,        \* whose active.lock is on disk
    head,        \* its journalEntryCount, or -1 when it was never written
    intent,      \* it carries a recoveryIntent
    journal,     \* the entry files of its journal directory
    boxes,       \* the containers the Engine has
    sealed,      \* the requests whose claimed-job snapshot is on disk
    broker,      \* the broker process
    pc,          \* where its one operation, or its recovery, stands
    op,          \* the locals of that operation
    clock,
    faults,
    ran,         \* history: how often a request was executed
    effects,     \* history: non-idempotent workers that may have run
    settled,     \* history: requests whose lease ended as completed
    delivered,   \* history: requests whose response reached the peer
    timedOut     \* history: requests answered with 504

disk == <<replay, replayTorn, lock, head, intent, journal>>
world == <<boxes, sealed, effects>>
told == <<ran, settled, delivered, timedOut>>
vars == <<disk, world, told, broker, pc, op, clock, faults>>

-----------------------------------------------------------------------------
Events == {"recorded", "created", "attempted", "started", "result", "deleted",
           "snapshot", "unsnapshot", "finished", "completed", "undelivered",
           "localUnknown", "remoteUnknown"}
Terminal == {"completed", "undelivered", "localUnknown", "remoteUnknown"}
Manual == Terminal \ {"completed"}

\* The in-memory record (count, intent), the worker under way and whether its
\* id is known, the append half done, the failures caught so far, the phase's
\* localMutationAttempt and journalStarted, and the two ways to lose the peer.
NoOp == [count |-> 0, intent |-> FALSE, worker |-> 0, hasId |-> FALSE,
         written |-> FALSE, failed |-> FALSE, preserve |-> FALSE,
         attempt |-> 0, cleaned |-> FALSE, started |-> FALSE,
         snapshot |-> FALSE, abandoned |-> FALSE, lost |-> FALSE]

Kind(i) == Plan[lock][i]
IsHelper(i) == Kind(i) \in {"helper", "remote"}
NonIdempotent(i) == Kind(i) \in {"local", "remote"}
Workers == 1 .. Len(Plan[lock])
Box(i) == <<lock, i>>

Entries == {journal[n] : n \in 1 .. Len(journal)}
Logged(e, i) == <<e, i>> \in Entries
Last == IF journal = <<>> THEN "none" ELSE journal[Len(journal)][1]
HasSnapshot == Logged("snapshot", 0) /\ ~Logged("unsnapshot", 0)
Ended == \E e \in Terminal, i \in 0 .. Len(Plan[lock]) : Logged(e, i)

Init ==
    /\ replay = {}
    /\ replayTorn = FALSE
    /\ lock = NoRequest
    /\ head = 0
    /\ intent = FALSE
    /\ journal = <<>>
    /\ boxes = {}
    /\ sealed = {}
    /\ effects = {}
    /\ broker = "down"
    /\ pc = "idle"
    /\ op = NoOp
    /\ clock = 0
    /\ faults = 0
    /\ ran = [r \in Requests |-> 0]
    /\ settled = {}
    /\ delivered = {}
    /\ timedOut = {}

Goto(p, o) == pc' = p /\ op' = o
Fault == faults < MaxFaults /\ faults' = faults + 1
NoFault == faults' = faults

-----------------------------------------------------------------------------
(* Admission                                                                 *)

\* Mutant: the purge drops an entry at the instant it expires.
RememberedTooShort == {e \in replay : e.expires > clock}

\* purgeExpired: the entries that are still there when a request is consumed.
Remembered == {e \in replay : ~(e.expires < clock)}

\* normalizeActionRequest's time window, then the checks of consume.
Admissible(r) ==
    /\ broker = "serving"
    /\ Issued[r] =< clock
    /\ clock =< Issued[r] + Lifetime
    /\ ~replayTorn
    /\ Cardinality(Remembered) < MaxReplay
    /\ \A e \in Remembered : e.req # r

\* Mutant: the retention is subtracted.
ConsumedBackwards(r) ==
    Remembered \cup {[req |-> r, expires |-> clock - Retention]}

Consumed(r) == Remembered \cup {[req |-> r, expires |-> clock + Retention]}

\* The request is new and nothing runs: it gets the lease and is executed.
Acquire(r) ==
    /\ Admissible(r)
    /\ lock = NoRequest
    /\ replay' = Consumed(r)
    /\ lock' = r
    /\ head' = 0
    /\ intent' = FALSE
    /\ journal' = <<>>
    /\ ran' = [ran EXCEPT ![r] = @ + 1]
    /\ Goto("phase", [NoOp EXCEPT !.worker = 1])
    /\ NoFault
    /\ UNCHANGED <<replayTorn, world, settled, delivered, timedOut, broker, clock>>

\* The request is consumed, and refused because a lease is active or preserved.
Busy(r) ==
    /\ Admissible(r)
    /\ lock # NoRequest
    /\ replay' = Consumed(r)
    /\ NoFault
    /\ UNCHANGED <<replayTorn, lock, head, intent, journal, world, told,
                   broker, pc, op, clock>>

\* Admission stops half way, by a crash or a failed write: in the replay file,
\* between the two files, or with an active.lock that was never written.
AdmissionStops(r) ==
    /\ Admissible(r)
    /\ lock = NoRequest
    /\ Fault
    /\ replay' = Consumed(r)
    /\ \/ replayTorn' = TRUE /\ UNCHANGED <<lock, head, intent, journal>>
       \/ UNCHANGED <<replayTorn, lock, head, intent, journal>>
       \/ /\ lock' = r
          /\ head' = -1
          /\ intent' = FALSE
          /\ journal' = <<>>
          /\ UNCHANGED replayTorn
    /\ broker' \in {"serving", "down"}
    /\ UNCHANGED <<world, told, pc, op, clock>>

-----------------------------------------------------------------------------
(* The journal                                                               *)

\* Mutant: a terminal entry does not close the journal.
ProgressesPastTheEnd(e, i) ==
    /\ e = "localUnknown" => Kind(i) = "local" /\ Logged("deleted", i)
    /\ e = "remoteUnknown" => Kind(i) = "remote" /\ Logged("deleted", i)
    /\ e \in {"attempted", "deleted"} => Logged("created", i)

\* validateLeaseEventProgression, for one entry after the ones on disk.
Progresses(e, i) ==
    /\ ~Ended
    /\ Logged("finished", 0) => e \in {"completed", "undelivered"}
    /\ e \notin {"recorded", "localUnknown", "remoteUnknown"} /\ i > 0
          => Logged("recorded", i) /\ ~Logged("deleted", i) /\ ~Logged(e, i)
    /\ e = "recorded" => ~Logged(e, i)
    /\ e \in {"attempted", "deleted"} => Logged("created", i)
    /\ e = "started" => Logged("attempted", i)
    /\ e = "result" => Logged(IF IsHelper(i) THEN "started" ELSE "attempted", i)
    /\ e = "snapshot" => ~HasSnapshot
    /\ e = "unsnapshot" => HasSnapshot \/ journal = <<>>
    /\ e = "localUnknown" =>
          Kind(i) = "local" /\ Logged("attempted", i) /\ Logged("deleted", i)
    /\ e = "remoteUnknown" =>
          Kind(i) = "remote" /\ Logged("attempted", i) /\ Logged("deleted", i)
    /\ e \in {"finished", "completed", "undelivered"} =>
          /\ ~HasSnapshot
          /\ \A k \in Workers : Logged("recorded", k) =>
                Logged("deleted", k) /\ Logged("result", k)

\* Where the code appends, what it appends, and where it goes on.
EventAt == [sealed |-> "snapshot", record |-> "recorded", created |-> "created",
            found |-> "created", attempt |-> "attempted", started |-> "started",
            result |-> "result", deleted |-> "deleted",
            remote |-> "remoteUnknown", unsealed |-> "unsnapshot",
            local |-> "localUnknown", finish |-> "finished",
            complete |-> "completed", undeliver |-> "undelivered",
            salvage |-> "undelivered", rDeleted |-> "deleted",
            rUnsealed |-> "unsnapshot", rRemote |-> "remoteUnknown",
            rLocal |-> "localUnknown", rUndeliver |-> "undelivered"]
GoOn == [sealed |-> "record", record |-> "create", created |-> "inspect",
         found |-> "erase", attempt |-> "start", started |-> "wait",
         result |-> "cleanup", deleted |-> "leave", remote |-> "unwind",
         unsealed |-> "settle", local |-> "idle", finish |-> "respond",
         complete |-> "unlock", undeliver |-> "idle", salvage |-> "idle",
         rDeleted |-> "rSnapshot", rUnsealed |-> "rSettle",
         rRemote |-> "halt", rLocal |-> "halt", rUndeliver |-> "halt"]
Appends == DOMAIN EventAt
Recovering == {"rDelete", "rDeleted", "rSnapshot", "rUnsealed", "rSettle",
               "rRemote", "rLocal", "rUndeliver", "rUnlink", "halt"}

\* The journal worker an entry is about: 0 for an entry about the lease.
Subject(p) ==
    CASE EventAt[p] \in {"snapshot", "unsnapshot", "finished", "completed",
                         "undelivered"} -> 0
      [] p = "local" -> op.attempt
      [] OTHER -> op.worker
Entry(p) == <<EventAt[p], Subject(p)>>

\* appendLeaseEvent re-reads the journal against the in-memory record first.
Accepted(p) == Len(journal) = op.count /\ Progresses(EventAt[p], Subject(p))

\* What the code notes in memory once an append has returned.
Noted(p, o) ==
    CASE p = "attempt" /\ Kind(o.worker) = "local" ->
            [o EXCEPT !.attempt = o.worker, !.cleaned = FALSE]
      [] p = "deleted" /\ o.attempt = o.worker -> [o EXCEPT !.cleaned = TRUE]
      [] OTHER -> o

WriteEntry ==
    /\ pc \in Appends
    /\ ~op.written
    /\ Accepted(pc)
    /\ journal' = Append(journal, Entry(pc))
    /\ op' = [op EXCEPT !.written = TRUE]
    /\ NoFault
    /\ UNCHANGED <<replay, replayTorn, lock, head, intent, world, told,
                   broker, pc, clock>>

InstallLeaseHead ==
    /\ pc \in Appends
    /\ op.written
    /\ head' = op.count + 1
    /\ intent' = (op.intent /\ EventAt[pc] \notin {"snapshot", "unsnapshot"})
    /\ LET o == Noted(pc, [op EXCEPT !.written = FALSE, !.count = @ + 1,
                                     !.intent = intent'])
           lost == pc = "finish" /\ (op.abandoned \/ op.lost)
       IN Goto(IF lost THEN "undeliver" ELSE GoOn[pc],
               IF GoOn[pc] = "idle" THEN NoOp ELSE o)
    /\ NoFault
    /\ UNCHANGED <<replay, replayTorn, lock, journal, world, told, broker, clock>>

\* Where an exception raised at p is caught, and what the handlers note.
Raise(p, o) ==
    CASE p \in {"create", "created", "inspect", "attempt", "start",
                "started", "wait", "result"} ->
            Goto("cleanup", [o EXCEPT !.failed = TRUE])
      [] p = "record" ->
            Goto("unwind", [o EXCEPT !.failed = TRUE,
                                     !.preserve = @ \/ IsHelper(o.worker)])
      [] p \in {"phase", "intent", "seal", "sealed"} ->
            Goto("unwind", [o EXCEPT !.failed = TRUE])
      [] p \in {"cleanup", "found", "erase", "deleted", "remote"} ->
            Goto("unwind", [o EXCEPT !.failed = TRUE, !.preserve = TRUE])
      [] p = "finish" -> Goto("salvage", o)
      [] p \in Recovering -> Goto("halt", NoOp)
      [] OTHER -> Goto("idle", NoOp)

\* The journal is not what the record says, or the event does not progress.
AppendRejected ==
    /\ pc \in Appends
    /\ ~op.written
    /\ ~Accepted(pc)
    /\ Raise(pc, op)
    /\ NoFault
    /\ UNCHANGED <<disk, world, told, broker, clock>>

\* A write of the append fails, perhaps after it took effect.
AppendFails ==
    /\ pc \in Appends
    /\ Fault
    /\ IF op.written
       THEN /\ head' \in {head, op.count + 1}
            /\ intent' = IF head' = head THEN intent
                         ELSE op.intent /\ EventAt[pc] \notin {"snapshot", "unsnapshot"}
            /\ UNCHANGED journal
       ELSE /\ Accepted(pc)
            /\ journal' \in {journal, Append(journal, Entry(pc))}
            /\ UNCHANGED <<head, intent>>
    /\ Raise(pc, [op EXCEPT !.written = FALSE])
    /\ UNCHANGED <<replay, replayTorn, lock, world, told, broker, clock>>

-----------------------------------------------------------------------------
(* The executor: phases, workers and the claimed-job snapshot                *)

\* Steps that write neither the journal nor its head.
Quiet == /\ NoFault
         /\ UNCHANGED <<disk, told, broker, clock>>
Step(p, o) == Goto(p, o) /\ Quiet

\* Capture and preflight of a phase are done; a request without workers is the
\* runtime snapshot, which goes straight to its result.
PhaseBegins ==
    /\ pc = "phase"
    /\ ~op.abandoned
    /\ Step(CASE Plan[lock] = <<>> -> "finish"
              [] lock \in Claims -> "intent"
              [] OTHER -> "record", op)
    /\ UNCHANGED world

\* recordRecoveryIntent rewrites the head before the snapshot is sealed.
RecordIntent ==
    /\ pc = "intent"
    /\ intent' = TRUE
    /\ Goto("seal", [op EXCEPT !.intent = TRUE, !.started = TRUE])
    /\ NoFault
    /\ UNCHANGED <<replay, replayTorn, lock, head, journal, world, told,
                   broker, clock>>

Seal ==
    /\ pc = "seal"
    /\ sealed' = sealed \cup {lock}
    /\ Step("sealed", [op EXCEPT !.snapshot = TRUE])
    /\ UNCHANGED <<boxes, effects>>

\* The Engine calls made with the operation's abort signal.
Create ==
    /\ pc = "create"
    /\ ~op.abandoned
    /\ boxes' = boxes \cup {Box(op.worker)}
    /\ Step("created", [op EXCEPT !.hasId = TRUE])
    /\ UNCHANGED <<sealed, effects>>

Inspect ==
    /\ pc = "inspect"
    /\ ~op.abandoned
    /\ Step("attempt", op)
    /\ UNCHANGED world

Ran(i) == IF NonIdempotent(i) THEN effects \cup {Box(i)} ELSE effects

Start ==
    /\ pc = "start"
    /\ ~op.abandoned
    /\ effects' = Ran(op.worker)
    /\ Step(IF IsHelper(op.worker) THEN "started" ELSE "wait", op)
    /\ UNCHANGED <<boxes, sealed>>

WaitAndRead ==
    /\ pc = "wait"
    /\ ~op.abandoned
    /\ Step("result", op)
    /\ UNCHANGED world

\* A call throws: the Engine refused it, timed out after doing it, was aborted,
\* or the container is not what was asked for.
CallFails ==
    /\ pc \in {"phase", "intent", "seal", "create", "inspect", "start", "wait"}
    /\ IF op.abandoned THEN NoFault ELSE Fault
    /\ Raise(pc, op)
    /\ boxes' \in {boxes, IF pc = "create" THEN boxes \cup {Box(op.worker)} ELSE boxes}
    /\ effects' \in {effects, IF pc = "start" THEN Ran(op.worker) ELSE effects}
    /\ sealed' \in {sealed, IF pc = "seal" THEN sealed \cup {lock} ELSE sealed}
    /\ intent' \in {intent, intent \/ pc = "intent"}
    /\ UNCHANGED <<replay, replayTorn, lock, head, journal, told, broker, clock>>

\* Cleanup of a worker: by its id, or by its name when create did not return.
Cleanup ==
    /\ pc = "cleanup"
    /\ IF op.hasId \/ (Box(op.worker) \in boxes /\ ~IsHelper(op.worker))
       THEN boxes' = boxes \ {Box(op.worker)} /\ Step("deleted", op)
       ELSE /\ Step(IF Box(op.worker) \in boxes THEN "found" ELSE "leave", op)
            /\ UNCHANGED boxes
    /\ UNCHANGED <<sealed, effects>>

Erase ==
    /\ pc = "erase"
    /\ boxes' = boxes \ {Box(op.worker)}
    /\ Step("deleted", op)
    /\ UNCHANGED <<sealed, effects>>

\* Inspecting or deleting the container fails, perhaps after it is gone.
CleanupFails ==
    /\ pc \in {"cleanup", "erase", "rDelete"}
    /\ Fault
    /\ boxes' \in {boxes, boxes \ {Box(op.worker)}}
    /\ Raise(pc, op)
    /\ UNCHANGED <<disk, sealed, effects, told, broker, clock>>

\* Mutant: the next worker is created before it is journalled.
WorkerReturnsUnrecorded ==
    /\ pc = "leave"
    /\ LET i == op.worker
           clean == [op EXCEPT !.hasId = FALSE]
       IN CASE op.failed -> Step("unwind", [clean EXCEPT !.preserve = TRUE])
            [] ~op.failed /\ i = Len(Plan[lock]) -> Step("unwind", clean)
            [] OTHER -> Step("create", [clean EXCEPT !.worker = i + 1])
    /\ UNCHANGED world

\* executeSemanticRoleWorker or executeSemanticHelpers is done with a worker.
\* A helper group that failed after a remote attempt ends the journal; a
\* failure inside a worker always preserves the lease.
WorkerReturns ==
    /\ pc = "leave"
    /\ LET i == op.worker
           clean == [op EXCEPT !.hasId = FALSE]
           spent == Kind(i) = "remote" /\ Logged("attempted", i)
       IN CASE op.failed ->
                 Step(IF spent THEN "remote" ELSE "unwind", [clean EXCEPT !.preserve = TRUE])
            [] ~op.failed /\ (i \in PhaseEnds[lock] \/ i = Len(Plan[lock])) ->
                 Step("unwind", clean)
            [] OTHER -> Step("record", [clean EXCEPT !.worker = i + 1,
                                                     !.started = TRUE])
    /\ UNCHANGED world

\* The end of a phase, reached on success and on failure.
Unwind ==
    /\ pc = "unwind"
    /\ IF op.snapshot
       THEN sealed' = sealed \ {lock} /\ Step("unsealed", [op EXCEPT !.snapshot = FALSE])
       ELSE Step("settle", op) /\ UNCHANGED sealed
    /\ UNCHANGED <<boxes, effects>>

\* Removing the snapshot fails: the phase throws with the lease preserved.
UnwindFails ==
    /\ pc = "unwind"
    /\ op.snapshot
    /\ Fault
    /\ sealed' \in {sealed, sealed \ {lock}}
    /\ Goto("idle", NoOp)
    /\ UNCHANGED <<disk, boxes, effects, told, broker, clock>>

\* The phase returns or throws: the next phase, the result, the terminal entry
\* for a local mutation whose worker is gone, or the caller's catch block.
Settle ==
    /\ pc = "settle"
    /\ CASE op.failed /\ op.attempt # 0 ->
              IF op.cleaned THEN Step("local", op) ELSE Step("idle", NoOp)
         [] op.failed /\ op.attempt = 0 /\ (op.preserve \/ op.started) ->
              Step("idle", NoOp)
         [] op.failed /\ op.attempt = 0 /\ ~op.preserve /\ ~op.started ->
              Step("release", op)
         [] ~op.failed /\ op.worker < Len(Plan[lock]) ->
              Step("phase", [op EXCEPT !.worker = @ + 1, !.attempt = 0,
                                       !.cleaned = FALSE, !.started = FALSE])
         [] OTHER -> Step("finish", op)
    /\ UNCHANGED world

-----------------------------------------------------------------------------
(* Settlement and release                                                    *)

\* The operation waits for something, so a timer or a socket event can run.
Awaiting == pc \in {"phase", "create", "inspect", "start", "wait",
                   "cleanup", "erase"}

\* operationTimeoutMs passes: the caller gets 504 and the signal is aborted,
\* but the operation goes on to its end.
Timeout ==
    /\ Awaiting
    /\ ~op.abandoned
    /\ Fault
    /\ timedOut' = timedOut \cup {lock}
    /\ Goto(pc, [op EXCEPT !.abandoned = TRUE])
    /\ UNCHANGED <<disk, world, ran, settled, delivered, broker, clock>>

\* The peer's socket closes or fails, during the operation or before the
\* response is flushed.
PeerLost ==
    /\ Awaiting \/ pc = "respond"
    /\ ~op.lost
    /\ Fault
    /\ Goto(IF pc = "respond" THEN "undeliver" ELSE pc, [op EXCEPT !.lost = TRUE])
    /\ UNCHANGED <<disk, world, told, broker, clock>>

\* The response is flushed; the end callback settles the lease.
Flushed ==
    /\ pc = "respond"
    /\ delivered' = delivered \cup {lock}
    /\ Goto("complete", op)
    /\ NoFault
    /\ UNCHANGED <<disk, world, ran, settled, timedOut, broker, clock>>

\* The write fails: Node calls the end callback with the error, before the
\* error event that would mark the peer lost, and the callback ignores it.
WriteFails ==
    /\ pc = "respond"
    /\ Fault
    /\ Goto("complete", op)
    /\ UNCHANGED <<disk, world, told, broker, clock>>

\* The lock file goes, and with it the lease.
Unlink ==
    /\ lock' = NoRequest
    /\ settled' = IF Last = "completed" THEN settled \cup {lock} ELSE settled
    /\ UNCHANGED <<replay, replayTorn, head, intent, journal, ran, delivered,
                   timedOut, world, clock>>

\* lease.release() after action-completed, or after an operation that left no
\* trace; otherwise it throws and the lock stays.
Releasable == Last = "completed" \/ (op.count = 0 /\ ~op.intent)

Release ==
    /\ pc \in {"release", "unlock"}
    /\ Releasable
    /\ Unlink
    /\ Goto("idle", NoOp)
    /\ NoFault
    /\ UNCHANGED broker

ReleaseRefused ==
    /\ pc \in {"release", "unlock"}
    /\ IF Releasable THEN Fault ELSE NoFault
    /\ Goto("idle", NoOp)
    /\ UNCHANGED <<disk, world, told, broker, clock>>

-----------------------------------------------------------------------------
(* Crash and recovery                                                        *)

Crash ==
    /\ broker # "down"
    /\ Fault
    /\ broker' = "down"
    /\ Goto("idle", NoOp)
    /\ UNCHANGED <<disk, world, told, clock>>

\* recover() throws and the process exits.
Halt ==
    /\ pc = "halt"
    /\ broker' = "down"
    /\ Goto("idle", NoOp)
    /\ NoFault
    /\ UNCHANGED <<disk, world, told, clock>>

\* Workers whose container may still be there, by the journal.
Pending == {i \in Workers : Logged("recorded", i) /\ ~Logged("deleted", i)}
\* Mutant: a worker that was never created must be found, too.
InspectedAll == \A i \in Pending : Box(i) \in boxes

\* Every created worker must still be found.
Inspected == \A i \in Pending : Logged("created", i) => Box(i) \in boxes
HasWorkers == \E i \in Workers : Logged("recorded", i)
Attempted(k) == {i \in Workers : Kind(i) = k /\ Logged("attempted", i)}
Newest(S) == CHOOSE i \in S : \A j \in S : j =< i

\* Where recover() goes; the process exits at once for the remaining cases (an
\* unreadable lock, a journal that differs from its head, a manual terminal,
\* a created container that is gone).
RecoveryEntry ==
    CASE Last = "finished" -> "rUndeliver"
      [] Last = "completed" \/ (journal = <<>> /\ ~intent) -> "rUnlink"
      [] OTHER -> IF \E i \in Pending : Box(i) \in boxes THEN "rDelete" ELSE "rSnapshot"

Restart ==
    /\ broker = "down"
    /\ \/ /\ lock = NoRequest
          /\ broker' = "serving"
          /\ Goto("idle", NoOp)
       \/ /\ lock # NoRequest
          /\ head = Len(journal)
          /\ Last \notin Manual
          /\ Inspected \/ Last \in {"finished", "completed"}
          /\ broker' = "recovering"
          /\ Goto(RecoveryEntry,
                  [NoOp EXCEPT !.count = head, !.intent = intent,
                               !.worker = IF Pending = {} THEN 0
                                          ELSE Newest(Pending)])
    /\ NoFault
    /\ UNCHANGED <<disk, world, told, clock>>

RecoverDelete ==
    /\ pc = "rDelete"
    /\ boxes' = boxes \ {Box(op.worker)}
    /\ Step("rDeleted", op)
    /\ UNCHANGED <<sealed, effects>>

\* The snapshot to clean: the journalled one, or before any worker the one of
\* the recovery intent.  Cleaning a snapshot that is not there throws.
RecoverSnapshot ==
    /\ pc = "rSnapshot"
    /\ LET due == HasSnapshot \/ (op.intent /\ ~HasWorkers)
       IN IF due /\ lock \notin sealed
          THEN Step("halt", NoOp) /\ UNCHANGED sealed
          ELSE /\ sealed' = IF due THEN sealed \ {lock} ELSE sealed
               /\ Step(IF due THEN "rUnsealed" ELSE "rSettle", op)
    /\ UNCHANGED <<boxes, effects>>

\* Mutant: recovery deletes the containers and asks nobody.
RecoverSettleForgets ==
    /\ pc = "rSettle"
    /\ Step("rUnlink", op)
    /\ UNCHANGED world

\* An effect that was attempted cannot be taken back: it ends the journal.
RecoverSettle ==
    /\ pc = "rSettle"
    /\ CASE Attempted("remote") # {} ->
              Step("rRemote", [op EXCEPT !.worker = Newest(Attempted("remote"))])
         [] Attempted("remote") = {} /\ Attempted("local") # {} ->
              Step("rLocal", [op EXCEPT !.worker = Newest(Attempted("local"))])
         [] OTHER -> Step("rUnlink", op)
    /\ UNCHANGED world

RecoverUnlink ==
    /\ pc = "rUnlink"
    /\ Unlink
    /\ broker' = "serving"
    /\ Goto("idle", NoOp)
    /\ NoFault

Tick ==
    /\ clock < MaxClock
    /\ clock' = clock + 1
    /\ UNCHANGED <<disk, world, told, broker, pc, op, faults>>

-----------------------------------------------------------------------------
Journalling == WriteEntry \/ InstallLeaseHead \/ AppendRejected

Executing ==
    \/ PhaseBegins \/ RecordIntent \/ Seal \/ Create \/ Inspect \/ Start \/ WaitAndRead
    \/ Cleanup \/ Erase \/ WorkerReturns \/ Unwind \/ Settle
    \/ Flushed \/ Release

RecoverySteps ==
    \/ RecoverDelete \/ RecoverSnapshot \/ RecoverSettle \/ RecoverUnlink \/ Halt

Faulty ==
    \/ AppendFails \/ CallFails \/ CleanupFails \/ UnwindFails
    \/ Timeout \/ PeerLost \/ WriteFails \/ ReleaseRefused \/ Crash

Next ==
    \/ \E r \in Requests : Acquire(r) \/ Busy(r) \/ AdmissionStops(r)
    \/ Journalling \/ Executing \/ RecoverySteps \/ Restart
    \/ Faulty
    \/ Tick

Spec == Init /\ [][Next]_vars

-----------------------------------------------------------------------------
(* Properties                                                                *)

Points == Appends \cup Recovering \cup
          {"idle", "phase", "intent", "seal", "create", "inspect", "start",
           "wait", "cleanup", "erase", "leave", "unwind", "settle", "respond",
           "release", "unlock"}
OpType == [count : Nat, intent : BOOLEAN, worker : Nat, hasId : BOOLEAN,
           written : BOOLEAN, failed : BOOLEAN, preserve : BOOLEAN,
           attempt : Nat, cleaned : BOOLEAN, started : BOOLEAN,
           snapshot : BOOLEAN, abandoned : BOOLEAN, lost : BOOLEAN]

\* Every variable has its type.
TypeOK ==
    /\ replay \subseteq [req : Requests, expires : Nat]
    /\ replayTorn \in BOOLEAN
    /\ lock \in Requests \cup {NoRequest}
    /\ head \in Nat \cup {-1}
    /\ intent \in BOOLEAN
    /\ journal \in Seq(Events \X Nat)
    /\ boxes \subseteq Requests \X Nat
    /\ sealed \subseteq Requests
    /\ effects \subseteq Requests \X Nat
    /\ broker \in {"down", "recovering", "serving"}
    /\ pc \in Points
    /\ op \in OpType
    /\ clock \in 0 .. MaxClock
    /\ faults \in 0 .. MaxFaults
    /\ ran \in [Requests -> Nat]
    /\ settled \subseteq Requests
    /\ delivered \subseteq Requests
    /\ timedOut \subseteq Requests

\* A signed request is executed at most once, however often it is sent again:
\* not while the ledger remembers it, not after purgeExpired has dropped it,
\* and not after a crash during its admission (consume, acquire).
AtMostOnce == \A r \in Requests : ran[r] =< 1

\* The entries of the journal that its head vouches for.
Durable == {journal[n] : n \in 1 .. (IF head < Len(journal) THEN head ELSE Len(journal))}

\* The write-ahead rule that recovery rests on: a container exists only under
\* the active lease, whose headed journal has recorded it; a sealed snapshot
\* only under a lease that says so; and a non-idempotent worker of the active
\* lease can have run only after its start attempt was durable.
WriteAhead ==
    /\ \A b \in boxes : b[1] = lock /\ <<"recorded", b[2]>> \in Durable
    /\ \A r \in sealed : r = lock /\ (intent \/ <<"snapshot", 0>> \in Durable)
    /\ \A b \in effects : b[1] = lock => <<"attempted", b[2]>> \in Durable

\* A non-idempotent worker that may have run is never forgotten: its lease is
\* still on disk, or it was released by a durable action-completed of an
\* operation whose caller had not been answered 504.  Neither release() nor
\* recover() removes the lock of an effect of unknown outcome.
EffectAccounted == \A b \in effects : b[1] = lock \/ b[1] \in settled \ timedOut

\* A lease whose journal ended with an unknown effect or an undelivered
\* response is left to an operator: no step of a running or restarted broker
\* removes its lock, adds to its journal or executes another request.
ManualStays ==
    [][lock # NoRequest /\ Last \in Manual =>
          lock' = lock /\ journal' = journal /\ ran' = ran]_vars

\* "undelivered terminal lease was released for replay" must not happen: a
\* lease that is released as completed had its response delivered.
CompletedMeansDelivered == settled \subseteq delivered

-----------------------------------------------------------------------------
(* Liveness                                                                  *)

\* The broker's own steps: Engine calls return (operationTimeoutMs and the
\* cleanup timeouts see to it), promises resolve, and an aborted call throws.
Progress == \/ Journalling \/ Executing \/ RecoverySteps
            \/ op.abandoned /\ CallFails
            \/ ~Releasable /\ ReleaseRefused

FairSpec == Spec /\ WF_vars(Progress) /\ WF_vars(Restart)

\* Disk and Engine agree on what the journal says.
Reconcilable ==
    /\ lock # NoRequest
    /\ head = Len(journal)
    /\ \A i \in Pending : Logged("created", i) <=> Box(i) \in boxes
    /\ HasSnapshot \/ (intent /\ ~HasWorkers) => lock \in sealed

\* Once no more faults happen, a broker that went down with disk and Engine in
\* agreement comes back: it serves again, or recovery has ended the journal
\* with the entry that asks for an operator.
RecoveryConverges ==
    broker = "down" /\ Reconcilable /\ faults = MaxFaults
        ~> broker = "serving" \/ (lock # NoRequest /\ Last \in Manual)

=============================================================================
