---------------------- MODULE DockerActionLeaseProofs ----------------------
(***************************************************************************)
(* Theorems about the lease of the Docker action broker.                    *)
(***************************************************************************)
EXTENDS DockerActionLease, WellFoundedInduction, TLAPS

\* What the admission variables range over.
LedgerType ==
    /\ replay \in SUBSET [req : Requests, expires : Nat]
    /\ clock \in Nat
    /\ ran \in [Requests -> Nat]

\* Request r has been executed and the ledger will still know of it whenever
\* its time window would admit it, or that window is over.
Spent(r) ==
    \/ \E e \in replay : e.req = r /\ e.expires >= Issued[r] + Lifetime
    \/ clock > Issued[r] + Lifetime

\* The inductive invariant: at most one execution, and none that is not spent.
LedgerInv ==
    /\ LedgerType
    /\ \A r \in Requests : ran[r] =< 1 /\ (ran[r] = 1 => Spent(r))

\* The variables the invariant speaks of.
ledgerVars == <<replay, clock, ran>>

\* Every step other than an admission or a tick leaves the ledger alone.
LEMMA LedgerSteps ==
    ASSUME [Next]_vars
    PROVE  \/ UNCHANGED ledgerVars
           \/ Tick
           \/ \E r \in Requests : Acquire(r) \/ Busy(r) \/ AdmissionStops(r)
<1> USE DEF ledgerVars, disk, world, told, Quiet, Step
<1>1. CASE UNCHANGED vars
  BY <1>1 DEF vars
<1>2. CASE Journalling
  BY <1>2 DEF Journalling, WriteEntry, InstallLeaseHead, AppendRejected
<1>3. CASE Executing
  <2>1. CASE PhaseBegins \/ RecordIntent \/ Seal \/ Create \/ Inspect \/ Start
    BY <2>1 DEF PhaseBegins, RecordIntent, Seal, Create, Inspect, Start
  <2>2. CASE WaitAndRead \/ Cleanup \/ Erase \/ Unwind \/ Flushed
    BY <2>2 DEF WaitAndRead, Cleanup, Erase, Unwind, Flushed
  <2>3. CASE WorkerReturns
    BY <2>3 DEF WorkerReturns
  <2>4. CASE Settle
    BY <2>4 DEF Settle
  <2>5. CASE Release
    BY <2>5 DEF Release, Unlink
  <2> QED
    BY <1>3, <2>1, <2>2, <2>3, <2>4, <2>5 DEF Executing
<1>4. CASE RecoverySteps
  <2>1. CASE RecoverDelete \/ RecoverSnapshot \/ Halt
    BY <2>1 DEF RecoverDelete, RecoverSnapshot, Halt
  <2>2. CASE RecoverSettle
    BY <2>2 DEF RecoverSettle
  <2>3. CASE RecoverUnlink
    BY <2>3 DEF RecoverUnlink, Unlink
  <2> QED
    BY <1>4, <2>1, <2>2, <2>3 DEF RecoverySteps
<1>5. CASE Restart
  BY <1>5 DEF Restart
<1>6. CASE Faulty
  <2>1. CASE AppendFails \/ CallFails \/ CleanupFails \/ UnwindFails
    BY <2>1 DEF AppendFails, CallFails, CleanupFails, UnwindFails
  <2>2. CASE Timeout \/ PeerLost \/ WriteFails \/ ReleaseRefused \/ Crash
    BY <2>2 DEF Timeout, PeerLost, WriteFails, ReleaseRefused, Crash
  <2> QED
    BY <1>6, <2>1, <2>2 DEF Faulty
<1> QED
  BY <1>1, <1>2, <1>3, <1>4, <1>5, <1>6 DEF Next

\* What consume leaves in the ledger: purging and recording a request keeps
\* every request spent that was, and makes the recorded one spent.
LEMMA ConsumeKeepsSpent ==
    ASSUME LedgerInv, NEW r \in Requests, Admissible(r),
           replay' = Consumed(r), clock' = clock
    PROVE  /\ replay' \in SUBSET [req : Requests, expires : Nat]
           /\ \A s \in Requests : Spent(s) => Spent(s)'
           /\ Spent(r)'
<1> USE LeaseAssumption
<1>1. clock \in Nat /\ Issued[r] \in Nat /\ Lifetime \in Nat /\ Retention \in Nat
  BY DEF LedgerInv, LedgerType
<1>2. replay' \in SUBSET [req : Requests, expires : Nat]
  BY <1>1 DEF LedgerInv, LedgerType, Consumed, Remembered
<1>3. \A s \in Requests : Spent(s) => Spent(s)'
  <2> SUFFICES ASSUME NEW s \in Requests, Spent(s)
               PROVE  Spent(s)'
    OBVIOUS
  <2>1. Issued[s] \in Nat
    OBVIOUS
  <2>2. CASE clock > Issued[s] + Lifetime
    BY <2>2 DEF Spent
  <2>3. CASE \E e \in replay : e.req = s /\ e.expires >= Issued[s] + Lifetime
    <3>1. PICK e \in replay : e.req = s /\ e.expires >= Issued[s] + Lifetime
      BY <2>3
    <3>2. e.expires \in Nat
      BY DEF LedgerInv, LedgerType
    <3>3. CASE e \in Remembered
      BY <3>1, <3>3 DEF Spent, Consumed
    <3>4. CASE e \notin Remembered
      BY <1>1, <2>1, <3>1, <3>2, <3>4 DEF Spent, Remembered
    <3> QED
      BY <3>3, <3>4
  <2> QED
    BY <2>2, <2>3 DEF Spent
<1>4. Spent(r)'
  <2> DEFINE n == [req |-> r, expires |-> clock + Retention]
  <2>1. n \in replay' /\ n.req = r
    BY DEF Consumed
  <2>2. n.expires >= Issued[r] + Lifetime
    BY <1>1 DEF Admissible
  <2> QED
    BY Zenon, <2>1, <2>2 DEF Spent
<1> QED
  BY <1>2, <1>3, <1>4

\* A request that is admitted was never executed.
LEMMA AdmittedIsNew ==
    ASSUME LedgerInv, NEW r \in Requests, Admissible(r)
    PROVE  ran[r] = 0
<1>1. ~Spent(r)
  <2>1. clock \in Nat /\ Issued[r] + Lifetime \in Nat
    BY LeaseAssumption DEF LedgerInv, LedgerType
  <2>2. clock =< Issued[r] + Lifetime
    BY DEF Admissible
  <2>3. ASSUME NEW e \in replay, e.req = r, e.expires >= Issued[r] + Lifetime
        PROVE  FALSE
    <3>1. e.expires \in Nat
      BY DEF LedgerInv, LedgerType
    <3>2. e \in Remembered
      BY <2>1, <2>2, <2>3, <3>1 DEF Remembered
    <3> QED
      BY <2>3, <3>2 DEF Admissible
  <2> QED
    BY <2>1, <2>2, <2>3 DEF Spent
<1>2. ran[r] \in Nat
  BY DEF LedgerInv, LedgerType
<1>3. ran[r] =< 1 /\ ran[r] # 1
  BY <1>1 DEF LedgerInv
<1> QED
  BY <1>2, <1>3

\* The invariant is inductive.
LEMMA LedgerStep ==
    ASSUME LedgerInv, [Next]_vars
    PROVE  LedgerInv'
<1> USE LeaseAssumption
<1>1. CASE UNCHANGED ledgerVars
  BY <1>1 DEF LedgerInv, LedgerType, Spent, ledgerVars
<1>2. CASE Tick
  <2>1. replay' = replay /\ ran' = ran /\ clock' = clock + 1 /\ clock \in Nat
    BY <1>2 DEF Tick, disk, told, LedgerInv, LedgerType
  <2>2. \A s \in Requests : Issued[s] + Lifetime \in Nat
    OBVIOUS
  <2>3. \A s \in Requests : Spent(s) => Spent(s)'
    BY <2>1, <2>2 DEF Spent
  <2> QED
    BY <2>1, <2>3 DEF LedgerInv, LedgerType
<1>3. ASSUME NEW r \in Requests, Acquire(r) \/ Busy(r) \/ AdmissionStops(r)
      PROVE  LedgerInv'
  <2>1. /\ Admissible(r)
        /\ replay' = Consumed(r)
        /\ clock' = clock
        /\ ran' = ran \/ ran' = [ran EXCEPT ![r] = @ + 1]
    BY <1>3 DEF Acquire, Busy, AdmissionStops, told
  <2>2. /\ replay' \in SUBSET [req : Requests, expires : Nat]
        /\ \A s \in Requests : Spent(s) => Spent(s)'
        /\ Spent(r)'
    BY <2>1, ConsumeKeepsSpent
  <2>3. ran \in [Requests -> Nat]
    BY DEF LedgerInv, LedgerType
  <2>4. ran[r] = 0
    BY <2>1, AdmittedIsNew
  <2>5. /\ ran' \in [Requests -> Nat]
        /\ \A s \in Requests : s # r => ran'[s] = ran[s]
        /\ ran'[r] \in {0, 1}
    <3>1. CASE ran' = ran
      BY <2>3, <2>4, <3>1
    <3>2. CASE ran' = [ran EXCEPT ![r] = @ + 1]
      BY <2>3, <2>4, <3>2
    <3> QED
      BY <2>1, <3>1, <3>2
  <2>6. \A s \in Requests : ran'[s] =< 1 /\ (ran'[s] = 1 => Spent(s)')
    <3>1. \A s \in Requests : ran[s] =< 1 /\ (ran[s] = 1 => Spent(s))
      BY DEF LedgerInv
    <3>2. ASSUME NEW s \in Requests, s # r
          PROVE  ran'[s] =< 1 /\ (ran'[s] = 1 => Spent(s)')
      BY Zenon, <2>2, <2>5, <3>1, <3>2
    <3>3. ran'[r] =< 1
      BY <2>5
    <3> QED
      BY <2>2, <3>2, <3>3
  <2> QED
    BY <2>1, <2>2, <2>5, <2>6 DEF LedgerInv, LedgerType
<1> QED
  BY <1>1, <1>2, <1>3, LedgerSteps

\* No signed request is executed twice: consume's replay file outlives the
\* window in which normalizeActionRequest accepts the request.
THEOREM AtMostOnceHolds == Spec => []AtMostOnce
<1>1. Init => LedgerInv
  BY LeaseAssumption DEF Init, LedgerInv, LedgerType
<1>2. LedgerInv /\ [Next]_vars => LedgerInv'
  BY LedgerStep
<1>3. LedgerInv => AtMostOnce
  BY DEF LedgerInv, AtMostOnce
<1> QED
  BY <1>1, <1>2, <1>3, PTL DEF Spec

-----------------------------------------------------------------------------
(* The lease: disk and Engine                                                *)

(* The points of an operation: before the container of the worker is asked    *)
(* for, with the container, behind the workers of a phase, at the end.        *)
Early == {"phase", "intent", "seal", "sealed", "record"}
AtWorker == {"create", "created", "inspect", "attempt", "start", "started",
             "wait", "result", "cleanup", "found", "erase", "deleted", "leave"}
Closing == {"remote", "unwind", "unsealed", "settle"}
Ending == {"finish", "respond", "complete", "unlock", "undeliver", "salvage",
           "release", "local"}
Operating == Early \cup AtWorker \cup Closing \cup Ending
Reconciling == {"rDelete", "rDeleted", "rSnapshot", "rUnsealed", "rSettle"}

\* No entry closes the journal.
Open == \A e \in Terminal, i \in Nat : ~Logged(e, i)
\* Entry <<e, i>> is in the part of the journal its head vouches for.
Kept(e, i) == <<e, i>> \in Durable

\* Nothing happens without a lease, and an operation is that of a request
\* which was executed.
LockOK ==
    /\ lock = NoRequest => pc = "idle" /\ boxes = {} /\ sealed = {}
    /\ pc \in Operating => ran[lock] >= 1
    /\ \A b \in effects : ran[b[1]] >= 1
    /\ \A r \in timedOut : ran[r] >= 1

\* The worker under way is one of the plan; the phase of a claimed job is its
\* only one.
WorkerOK ==
    /\ pc \in {"rDelete", "rDeleted", "rRemote", "rLocal"} => op.worker \in Workers
    /\ pc \in Operating =>
          /\ op.attempt =< Len(Plan[lock])
          /\ pc \in {"phase", "intent", "seal", "sealed"} => op.attempt = 0
          /\ pc = "phase" => op.worker \in Workers \/ Plan[lock] = <<>>
          /\ pc \in (Early \cup AtWorker \cup {"remote"}) \ {"phase"} => op.worker \in Workers
          /\ pc \in {"intent", "seal", "sealed"} => lock \in Claims
          /\ pc \in {"phase", "intent", "seal"} /\ lock \in Claims => journal = <<>>
          /\ pc = "sealed" => op.count = 0
          /\ pc \in {"seal", "sealed"} => intent /\ op.started
          /\ pc \in {"unwind", "unsealed", "settle"} /\ lock \in Claims /\ ~op.failed
                => op.worker = Len(Plan[lock])

\* The record in memory, the head and the entries agree, or an append failed
\* with its effect and no other will be accepted.
SyncOK == pc \in Operating \cup Reconciling \cup {"rRemote", "rLocal", "rUndeliver", "rUnlink"} =>
    \/ op.written /\ pc \in Appends /\ head = op.count /\ Len(journal) = op.count + 1
       /\ journal[Len(journal)] = Entry(pc)
    \/ ~op.written /\ head = op.count /\ Len(journal) = op.count
    \/ /\ ~op.written /\ (op.failed \/ pc = "salvage") /\ pc \notin Recovering
       /\ head \in {op.count, op.count + 1} /\ Len(journal) = op.count + 1

\* What the entries of an active lease say of each other.
JournalOK == lock # NoRequest =>
    /\ head =< Len(journal)
    /\ \A n \in 1 .. Len(journal) :
          /\ journal[n][2] =< Len(Plan[lock])
          /\ n < Len(journal) => journal[n][1] \notin Terminal
    /\ \A i \in Nat : Logged("attempted", i) => Logged("created", i)

\* A container is that of the last worker recorded, which is not deleted yet.
BoxesOK ==
    /\ \A b \in boxes :
          /\ b[1] = lock /\ b[2] \in Workers
          /\ Kept("recorded", b[2]) /\ ~Logged("deleted", b[2])
          /\ \A k \in Nat : Logged("recorded", k) => k =< b[2]
    /\ pc \in Early =>
          /\ boxes = {}
          /\ \A k \in Nat : Logged("deleted", k) => k < op.worker
          /\ \A k \in Nat : Logged("recorded", k) =>
                k < op.worker \/ (pc = "record" /\ op.written /\ k = op.worker)
    /\ pc \in AtWorker \cup Closing =>
          /\ boxes \subseteq {Box(op.worker)}
          /\ \A k \in Nat : Logged("recorded", k) \/ Logged("deleted", k) => k =< op.worker
    /\ pc = "create" => Kept("recorded", op.worker) /\ ~Logged("deleted", op.worker)
    /\ pc \in {"deleted", "leave", "remote"} => boxes = {}
    /\ pc \in {"unwind", "unsealed", "settle"} /\ ~op.preserve => boxes = {}
    /\ pc \in Ending \ {"local"} => boxes = {}
    /\ pc = "rDelete" => boxes \subseteq {Box(op.worker)}
    /\ pc \in {"rDeleted", "rSnapshot", "rUnsealed", "rSettle", "rUnlink"} => boxes = {}

\* A sealed snapshot is journalled, or its intent is all there is.
SealedOK ==
    /\ \A r \in sealed :
          /\ r = lock
          /\ \/ Kept("snapshot", 0) /\ ~Logged("unsnapshot", 0)
             \/ /\ intent /\ head = 0 /\ \A i \in Nat : ~Logged("recorded", i)
                /\ pc \in {"sealed", "unwind", "settle", "idle", "rSnapshot", "halt"}
    /\ pc \in Operating /\ sealed # {} =>
          /\ op.started
          /\ op.snapshot \/ (pc \in {"unwind", "settle"} /\ op.failed /\ op.attempt = 0)
    /\ pc \in Operating /\ op.snapshot =>
          pc \in {"sealed", "record", "unwind", "remote"} \cup AtWorker
    /\ pc \in {"rUnsealed", "rSettle", "rUnlink"} => sealed = {}
    /\ pc \in Reconciling => op.intent = intent

\* A non-idempotent worker was started under a durable attempt.
EffectsOK ==
    /\ \A b \in effects :
          /\ b[2] \in 1 .. Len(Plan[b[1]]) /\ Plan[b[1]][b[2]] \in {"local", "remote"}
          /\ b[1] = lock => Kept("attempted", b[2])
          /\ b[1] = lock \/ b[1] \in settled \ timedOut
    /\ pc = "start" => Kept("attempted", op.worker)
    /\ pc = "rUnlink" => Last = "completed" \/ \A b \in effects : b[1] # lock

\* Where the journal is open, and what a completed one vouches for.
EndOK ==
    /\ op.preserve => op.failed
    /\ pc \in Early \cup AtWorker \cup Reconciling \cup {"release", "finish", "respond"} => Open
    /\ pc \in {"unwind", "unsealed", "settle"} /\ ~op.preserve => Open
    /\ pc = "remote" => op.preserve
    /\ pc = "unlock" => Last = "completed"
    /\ pc = "rUnlink" => Last = "completed" \/ Open
    /\ lock # NoRequest /\ Last = "completed" => boxes = {} /\ sealed = {} /\ lock \notin timedOut
    /\ pc \in Operating /\ lock \in timedOut => op.abandoned
    /\ pc \in {"respond", "complete", "unlock"} => lock \notin timedOut

LeaseParts ==
    /\ LockOK /\ WorkerOK /\ SyncOK /\ JournalOK
    /\ BoxesOK /\ SealedOK /\ EffectsOK /\ EndOK

\* The inductive invariant of the lease; it needs LedgerInv beside it.
LeaseInv == TypeOK /\ LeaseParts

\* The points at which an entry is appended.
LEMMA AppendPoints ==
    Appends = {"sealed", "record", "created", "found", "attempt", "started", "result",
               "deleted", "remote", "unsealed", "local", "finish", "complete",
               "undeliver", "salvage", "rDeleted", "rUnsealed", "rRemote", "rLocal",
               "rUndeliver"}
BY DEF Appends, EventAt

\* What is read from the lease while lock, head and journal stay.
LEMMA Still ==
    ASSUME UNCHANGED <<lock, head, journal>>
    PROVE  /\ Workers' = Workers /\ Last' = Last /\ (Open <=> Open') /\ HasSnapshot' = HasSnapshot
           /\ \A e, i : (Logged(e, i))' = Logged(e, i) /\ (Kept(e, i))' = Kept(e, i)
BY DEF Workers, Last, Open, HasSnapshot, Logged, Entries, Kept, Durable

\* An entry of the journal is logged.
LEMMA EntryIsLogged ==
    ASSUME NEW n \in 1 .. Len(journal), journal[n] \in Events \X Nat
    PROVE  Logged(journal[n][1], journal[n][2])
BY DEF Logged, Entries

\* A journal of one snapshot entry has the snapshot and nothing that cleans it.
LEMMA OnlySnapshot ==
    ASSUME Len(journal) = 1, journal[1] = <<"snapshot", 0>>
    PROVE  Logged("snapshot", 0) /\ ~Logged("unsnapshot", 0)
BY DEF Logged, Entries

\* An open journal does not end with a terminal entry.
LEMMA OpenLast ==
    ASSUME journal \in Seq(Events \X Nat), Open
    PROVE  Last \notin Terminal
<1>1. CASE journal = <<>>
  BY <1>1 DEF Last, Terminal
<1>2. CASE journal # <<>>
  <2>1. Len(journal) \in 1 .. Len(journal) /\ journal[Len(journal)] \in Events \X Nat
    BY <1>2
  <2>2. Logged(journal[Len(journal)][1], journal[Len(journal)][2])
    BY <2>1 DEF Logged, Entries
  <2> QED BY <1>2, <2>1, <2>2 DEF Last, Open
<1> QED BY <1>1, <1>2

\* The head vouches for entries of the journal only.
LEMMA KeptLogged ==
    ASSUME LeaseInv, lock # NoRequest, NEW e, NEW i, Kept(e, i)
    PROVE  Logged(e, i)
<1>1. head \in Int /\ Len(journal) \in Nat /\ head =< Len(journal)
  BY DEF LeaseInv, LeaseParts, TypeOK, JournalOK
<1> QED BY <1>1 DEF Kept, Durable, Logged, Entries

\* What every step may use that leaves lock, head and journal alone.
LEMMA QuietFacts ==
    ASSUME LeaseInv, UNCHANGED <<lock, head, journal>>
    PROVE  /\ op \in OpType /\ lock \in Requests \cup {NoRequest} /\ NoRequest \notin Requests
           /\ lock # NoRequest => Plan[lock] \in Seq(Kinds) /\ Len(Plan[lock]) \in Nat
           /\ Workers' = Workers /\ Last' = Last /\ (Open <=> Open') /\ HasSnapshot' = HasSnapshot
           /\ \A e, i : (Logged(e, i))' = Logged(e, i) /\ (Kept(e, i))' = Kept(e, i)
           /\ Open => Last # "completed"
<1>a. op \in OpType /\ lock \in Requests \cup {NoRequest} /\ NoRequest \notin Requests
  BY LeaseAssumption DEF LeaseInv, LeaseParts, TypeOK
<1>l. lock # NoRequest => Plan[lock] \in Seq(Kinds) /\ Len(Plan[lock]) \in Nat
  BY <1>a, LeaseAssumption
<1>o. Open => Last # "completed"
  BY OpenLast DEF LeaseInv, LeaseParts, TypeOK, Terminal
<1> QED BY <1>a, <1>l, <1>o, Still

\* Where an exception is caught.
LEMMA RaiseFacts ==
    ASSUME NEW p, NEW o \in OpType, Raise(p, o)
    PROVE  \/ /\ p \in {"create", "created", "inspect", "attempt", "start", "started", "wait", "result"}
              /\ pc' = "cleanup" /\ op' = [o EXCEPT !.failed = TRUE]
           \/ /\ p \in {"phase", "intent", "seal", "sealed", "record"}
              /\ pc' = "unwind"
              /\ \/ op' = [o EXCEPT !.failed = TRUE]
                 \/ p = "record" /\ op' = [o EXCEPT !.failed = TRUE, !.preserve = TRUE]
           \/ /\ p \in {"cleanup", "found", "erase", "deleted", "remote"}
              /\ pc' = "unwind" /\ op' = [o EXCEPT !.failed = TRUE, !.preserve = TRUE]
           \/ p = "finish" /\ pc' = "salvage" /\ op' = o
           \/ p \in Recovering /\ pc' = "halt" /\ op' = NoOp
           \/ /\ p \notin {"create", "created", "inspect", "attempt", "start", "started", "wait", "result",
                          "phase", "intent", "seal", "sealed", "record",
                          "cleanup", "found", "erase", "deleted", "remote", "finish"} \cup Recovering
              /\ pc' = "idle" /\ op' = NoOp
<1>1. CASE p = "record"
  <2> DEFINE keep == o.preserve \/ IsHelper(o.worker)
  <2>0. Goto("unwind", [o EXCEPT !.failed = TRUE, !.preserve = @ \/ IsHelper(o.worker)])
    BY <1>1 DEF Raise, Recovering
  <2>1. op' = [[o EXCEPT !.failed = TRUE] EXCEPT !.preserve = keep] /\ pc' = "unwind"
    BY <2>0 DEF Goto, OpType
  <2>2. keep = TRUE \/ keep = FALSE
    OBVIOUS
  <2>3. ~keep => o.preserve = FALSE
    BY DEF OpType
  <2> HIDE DEF keep
  <2>4. CASE keep = FALSE
    BY Zenon, <1>1, <2>1, <2>3, <2>4 DEF OpType
  <2> QED BY Zenon, <1>1, <2>1, <2>2, <2>4
<1>2. CASE p # "record"
  BY <1>2 DEF Raise, Goto, Recovering
<1> QED BY <1>1, <1>2

\* What is appended at each point.
LEMMA EntryFacts ==
    ASSUME pc \in Appends
    PROVE  \/ pc = "sealed" /\ Entry(pc) = <<"snapshot", 0>>
           \/ pc = "record" /\ Entry(pc) = <<"recorded", op.worker>>
           \/ pc \in {"created", "found"} /\ Entry(pc) = <<"created", op.worker>>
           \/ pc = "attempt" /\ Entry(pc) = <<"attempted", op.worker>>
           \/ pc = "started" /\ Entry(pc) = <<"started", op.worker>>
           \/ pc = "result" /\ Entry(pc) = <<"result", op.worker>>
           \/ pc \in {"deleted", "rDeleted"} /\ Entry(pc) = <<"deleted", op.worker>>
           \/ pc \in {"remote", "rRemote"} /\ Entry(pc) = <<"remoteUnknown", op.worker>>
           \/ pc \in {"unsealed", "rUnsealed"} /\ Entry(pc) = <<"unsnapshot", 0>>
           \/ pc = "local" /\ Entry(pc) = <<"localUnknown", op.attempt>>
           \/ pc = "finish" /\ Entry(pc) = <<"finished", 0>>
           \/ pc = "complete" /\ Entry(pc) = <<"completed", 0>>
           \/ pc \in {"undeliver", "salvage", "rUndeliver"} /\ Entry(pc) = <<"undelivered", 0>>
           \/ pc = "rLocal" /\ Entry(pc) = <<"localUnknown", op.worker>>
<1>1. pc \in {"sealed", "record", "created", "found", "attempt", "started", "result", "deleted",
              "remote", "unsealed", "local", "finish", "complete", "undeliver", "salvage",
              "rDeleted", "rUnsealed", "rRemote", "rLocal", "rUndeliver"}
  BY AppendPoints
<1>2. CASE pc = "sealed"
  BY <1>2 DEF Entry, EventAt, Subject
<1>3. CASE pc = "record"
  BY <1>3 DEF Entry, EventAt, Subject
<1>4. CASE pc \in {"created", "found"}
  BY <1>4 DEF Entry, EventAt, Subject
<1>5. CASE pc = "attempt"
  BY <1>5 DEF Entry, EventAt, Subject
<1>6. CASE pc = "started"
  BY <1>6 DEF Entry, EventAt, Subject
<1>7. CASE pc = "result"
  BY <1>7 DEF Entry, EventAt, Subject
<1>8. CASE pc \in {"deleted", "rDeleted"}
  BY <1>8 DEF Entry, EventAt, Subject
<1>9. CASE pc \in {"remote", "rRemote"}
  BY <1>9 DEF Entry, EventAt, Subject
<1>10. CASE pc \in {"unsealed", "rUnsealed"}
  BY <1>10 DEF Entry, EventAt, Subject
<1>11. CASE pc = "local"
  BY <1>11 DEF Entry, EventAt, Subject
<1>12. CASE pc = "finish"
  BY <1>12 DEF Entry, EventAt, Subject
<1>13. CASE pc = "complete"
  BY <1>13 DEF Entry, EventAt, Subject
<1>14. CASE pc \in {"undeliver", "salvage", "rUndeliver"}
  BY <1>14 DEF Entry, EventAt, Subject
<1>15. CASE pc = "rLocal"
  BY <1>15 DEF Entry, EventAt, Subject
<1> QED BY <1>1, <1>2, <1>3, <1>4, <1>5, <1>6, <1>7, <1>8, <1>9, <1>10, <1>11, <1>12, <1>13,
    <1>14, <1>15

\* The newest of some workers is one of them, and the greatest.
LEMMA NewestIsGreatest ==
    ASSUME NEW n \in Nat, NEW S \in SUBSET (1 .. n), S # {}
    PROVE  Newest(S) \in S /\ \A j \in S : j =< Newest(S)
<1> DEFINE T == {m \in 0 .. n : n - m \in S}
<1>1. T \subseteq Nat /\ T # {}
  <2>1. PICK i \in S : TRUE
    BY Zenon
  <2>2. n - i \in T
    BY <2>1
  <2>3. T \subseteq Nat
    OBVIOUS
  <2>4. T # {}
    <3> HIDE DEF T
    <3> QED BY <2>2
  <2> HIDE DEF T
  <2> QED BY <2>3, <2>4
<1>2. OpToRel(<, Nat) = {p \in Nat \X Nat : p[1] < p[2]}
  BY DEF OpToRel
<1>3. PICK m \in T : \A k \in T : ~(<<k, m>> \in OpToRel(<, Nat))
  <2> HIDE DEF T
  <2> QED BY Zenon, <1>1, NatLessThanWellFounded, WFMin
<1>4. \A k \in T : m =< k
  <2> HIDE DEF T
  <2> SUFFICES ASSUME NEW k \in T PROVE m =< k
    OBVIOUS
  <2>1. k \in Nat /\ m \in Nat
    BY <1>1
  <2>2. ~(<<k, m>> \in {p \in Nat \X Nat : p[1] < p[2]})
    BY <1>2, <1>3, Zenon
  <2> QED BY <2>1, <2>2
<1>5. m \in 0 .. n /\ n - m \in S
  BY Zenon, <1>3
<1>6. \A j \in S : j =< n - m
  <2> SUFFICES ASSUME NEW j \in S PROVE j =< n - m
    OBVIOUS
  <2>1. n - j \in T
    OBVIOUS
  <2> QED BY <1>4, <1>5, <2>1
<1> QED BY Zenon, <1>5, <1>6 DEF Newest

\* The recorded and the attempted workers are workers of the plan.
LEMMA NewestWorker ==
    ASSUME LeaseInv, lock # NoRequest, NEW S \in SUBSET Workers, S # {}
    PROVE  Newest(S) \in Workers /\ Newest(S) \in S /\ \A j \in S : j =< Newest(S)
<1>1. Len(Plan[lock]) \in Nat
  BY LeaseAssumption DEF LeaseInv, LeaseParts, TypeOK
<1> QED BY Zenon, <1>1, NewestIsGreatest DEF Workers

\* The subject of an entry is 0 or a worker of the plan.
LEMMA EntryTyped ==
    ASSUME LeaseInv, pc \in Appends
    PROVE  /\ lock # NoRequest /\ Entry(pc) = <<EventAt[pc], Subject(pc)>>
           /\ EventAt[pc] \in Events /\ Subject(pc) \in 0 .. Len(Plan[lock])
<1>1. lock # NoRequest /\ Len(Plan[lock]) \in Nat /\ op \in OpType
  BY AppendPoints, LeaseAssumption DEF LeaseInv, LeaseParts, LockOK, TypeOK
<1>2. op.attempt \in Nat /\ op.worker \in Nat
  BY <1>1 DEF OpType
<1>3. pc \in {"record", "created", "found", "attempt", "started", "result", "deleted",
               "remote", "rDeleted", "rRemote", "rLocal"} => op.worker \in 1 .. Len(Plan[lock])
  BY DEF LeaseInv, LeaseParts, WorkerOK, Workers, Operating, Early, AtWorker, Closing
<1>4. pc = "local" => op.attempt =< Len(Plan[lock])
  BY DEF LeaseInv, LeaseParts, WorkerOK, Operating, Ending
<1> QED BY <1>1, <1>2, <1>3, <1>4, EntryFacts DEF Entry, Events

\* An entry that is accepted finds the journal open, as long as its head says
\* and as long as the record in memory says.
LEMMA AcceptedFacts ==
    ASSUME LeaseInv, pc \in Appends, ~op.written, Accepted(pc)
    PROVE  /\ Open /\ head = op.count /\ Len(journal) = op.count
           /\ Progresses(EventAt[pc], Subject(pc))
<1>1. Len(journal) = op.count /\ op.count \in Nat /\ ~Ended
  BY DEF Accepted, Progresses, LeaseInv, LeaseParts, TypeOK, OpType
<1>2. head = op.count
  BY <1>1, AppendPoints DEF LeaseInv, LeaseParts, SyncOK, Operating, Early, AtWorker, Closing,
      Ending, Reconciling
<1>3. lock # NoRequest /\ Len(Plan[lock]) \in Nat
  <2>1. lock # NoRequest
    BY EntryTyped
  <2> QED BY <2>1, LeaseAssumption DEF LeaseInv, LeaseParts, TypeOK
<1>4. ASSUME NEW e \in Terminal, NEW i \in Nat, Logged(e, i)
      PROVE  FALSE
  <2>1. i =< Len(Plan[lock])
    BY <1>3, <1>4 DEF LeaseInv, LeaseParts, JournalOK, Logged, Entries
  <2> QED BY <1>1, <1>3, <1>4, <2>1 DEF Ended
<1> QED BY <1>1, <1>2, <1>4 DEF Open, Accepted

\* What an appended entry changes in what is read of the journal.
LEMMA Appended ==
    ASSUME LeaseInv, pc \in Appends, ~op.written, Accepted(pc), lock' = lock,
           journal' = Append(journal, Entry(pc)), head' = head
    PROVE  /\ Len(journal') = Len(journal) + 1 /\ journal'[Len(journal) + 1] = Entry(pc)
           /\ \A n \in 1 .. Len(journal) : journal'[n] = journal[n]
           /\ \A e, i : (Logged(e, i))' <=> Logged(e, i) \/ Entry(pc) = <<e, i>>
           /\ \A e, i : (Kept(e, i))' <=> Kept(e, i)
           /\ Last' = EventAt[pc] /\ Workers' = Workers
<1>1. journal \in Seq(Events \X Nat) /\ Entry(pc) \in Events \X Nat /\ Len(journal) \in Nat
  BY EntryTyped DEF LeaseInv, LeaseParts, TypeOK
<1>2. /\ Len(journal') = Len(journal) + 1 /\ journal'[Len(journal) + 1] = Entry(pc)
      /\ \A n \in 1 .. Len(journal) : journal'[n] = journal[n]
  BY <1>1
<1>3. \A e, i : (Logged(e, i))' <=> Logged(e, i) \/ Entry(pc) = <<e, i>>
  <2>1. Entries' = {journal'[n] : n \in 1 .. Len(journal) + 1}
    BY <1>2 DEF Entries
  <2>2. 1 .. Len(journal) + 1 = (1 .. Len(journal)) \cup {Len(journal) + 1}
    BY <1>1
  <2>3. Entries' = Entries \cup {Entry(pc)}
    BY <1>2, <2>1, <2>2 DEF Entries
  <2> QED BY <2>3 DEF Logged
<1>4. head = Len(journal)
  BY AcceptedFacts
<1>5. Durable' = Durable
  <2>1. Durable = {journal[n] : n \in 1 .. Len(journal)}
    BY <1>1, <1>4 DEF Durable
  <2>2. Durable' = {journal'[n] : n \in 1 .. Len(journal)}
    BY <1>1, <1>2, <1>4 DEF Durable
  <2> QED BY <1>2, <2>1, <2>2
<1>6. Last' = EventAt[pc]
  BY <1>1, <1>2, EntryTyped DEF Last
<1> QED BY <1>2, <1>3, <1>5, <1>6 DEF Kept, Workers

\* What the head vouches for once it is rewritten.
LEMMA Installed ==
    ASSUME LeaseInv, pc \in Appends, op.written, lock' = lock, journal' = journal,
           head' = op.count + 1
    PROVE  /\ head' = Len(journal) /\ Last' = Last /\ Workers' = Workers
           /\ Last = EventAt[pc] /\ journal[Len(journal)] = Entry(pc) /\ head = op.count
           /\ \A e, i : (Logged(e, i))' = Logged(e, i)
           /\ \A e, i : (Kept(e, i))' <=> Logged(e, i)
           /\ \A e, i : Logged(e, i) <=> Kept(e, i) \/ Entry(pc) = <<e, i>>
<1>1. /\ head = op.count /\ Len(journal) = op.count + 1 /\ journal[Len(journal)] = Entry(pc)
      /\ op.count \in Nat
  BY AppendPoints DEF LeaseInv, LeaseParts, SyncOK, Operating, Early, AtWorker, Closing, Ending,
      Reconciling,
     TypeOK, OpType
<1>2. Last = EventAt[pc] /\ Last' = Last /\ Workers' = Workers
  BY <1>1, EntryTyped DEF Last, Workers
<1>3. \A e, i : (Logged(e, i))' = Logged(e, i)
  BY DEF Logged, Entries
<1>4. Durable' = Entries
  BY <1>1 DEF Durable, Entries
<1>5. Entries = Durable \cup {Entry(pc)}
  <2>1. Durable = {journal[n] : n \in 1 .. op.count}
    BY <1>1 DEF Durable
  <2>2. 1 .. Len(journal) = (1 .. op.count) \cup {Len(journal)}
    BY <1>1
  <2> QED BY <1>1, <2>1, <2>2 DEF Entries
<1> QED BY <1>1, <1>2, <1>3, <1>4, <1>5 DEF Kept, Logged

\* A change of one local keeps the locals typed.
LEMMA OpEdit ==
    ASSUME NEW o \in OpType
    PROVE  /\ \A x \in Nat : [o EXCEPT !.count = x] \in OpType
           /\ \A x \in BOOLEAN : [o EXCEPT !.intent = x] \in OpType
           /\ \A x \in Nat : [o EXCEPT !.worker = x] \in OpType
           /\ \A x \in BOOLEAN : [o EXCEPT !.hasId = x] \in OpType
           /\ \A x \in BOOLEAN : [o EXCEPT !.written = x] \in OpType
           /\ \A x \in BOOLEAN : [o EXCEPT !.failed = x] \in OpType
           /\ \A x \in BOOLEAN : [o EXCEPT !.preserve = x] \in OpType
           /\ \A x \in Nat : [o EXCEPT !.attempt = x] \in OpType
           /\ \A x \in BOOLEAN : [o EXCEPT !.cleaned = x] \in OpType
           /\ \A x \in BOOLEAN : [o EXCEPT !.started = x] \in OpType
           /\ \A x \in BOOLEAN : [o EXCEPT !.snapshot = x] \in OpType
           /\ \A x \in BOOLEAN : [o EXCEPT !.abandoned = x] \in OpType
           /\ \A x \in BOOLEAN : [o EXCEPT !.lost = x] \in OpType
BY DEF OpType

\* Where an operation goes on after an append, and what it knows then.
AppendMoves ==
           /\ \/ pc = "sealed" /\ pc' = "record"
              \/ pc = "record" /\ pc' = "create"
              \/ pc = "created" /\ pc' = "inspect"
              \/ pc = "found" /\ pc' = "erase"
              \/ pc = "attempt" /\ pc' = "start"
              \/ pc = "started" /\ pc' = "wait"
              \/ pc = "result" /\ pc' = "cleanup"
              \/ pc = "deleted" /\ pc' = "leave"
              \/ pc = "remote" /\ pc' = "unwind"
              \/ pc = "unsealed" /\ pc' = "settle"
              \/ pc \in {"local", "undeliver", "salvage"} /\ pc' = "idle"
              \/ pc = "complete" /\ pc' = "unlock"
              \/ pc = "rDeleted" /\ pc' = "rSnapshot"
              \/ pc = "rUnsealed" /\ pc' = "rSettle"
              \/ pc \in {"rRemote", "rLocal", "rUndeliver"} /\ pc' = "halt"
              \/ pc = "finish" /\ pc' = "respond" /\ ~op.abandoned
              \/ pc = "finish" /\ pc' = "undeliver"
           /\ pc' = "idle" => op' = NoOp
           /\ pc' # "idle" =>
                 /\ op'.worker = op.worker /\ op'.count = op.count + 1 /\ ~op'.written
                 /\ op'.failed = op.failed /\ op'.preserve = op.preserve /\ op'.started = op.started
                 /\ op'.snapshot = op.snapshot /\ op'.abandoned = op.abandoned
                 /\ op'.intent = intent' /\ op'.attempt \in {op.attempt, op.worker}
                 /\ pc # "attempt" => op'.attempt = op.attempt
           /\ op' \in OpType

\* The table GoOn and Noted say just that.
LEMMA AppendGoesOn ==
    ASSUME op \in OpType, intent \in BOOLEAN, pc \in Appends, InstallLeaseHead
    PROVE  AppendMoves
<1> DEFINE o == [op EXCEPT !.written = FALSE, !.count = op.count + 1, !.intent = intent']
           lost == pc = "finish" /\ (op.abandoned \/ op.lost)
<1>1. intent' \in BOOLEAN
  BY Zenon DEF InstallLeaseHead
<1>2. Goto(IF lost THEN "undeliver" ELSE GoOn[pc], IF GoOn[pc] = "idle" THEN NoOp ELSE Noted(pc, o))
  BY DEF InstallLeaseHead
<1>3. o \in OpType
  <2>1. op.count + 1 \in Nat
    BY DEF OpType
  <2>2. [op EXCEPT !.written = FALSE] \in OpType
    BY Zenon, OpEdit
  <2>3. [op EXCEPT !.written = FALSE, !.count = op.count + 1] \in OpType
    BY Zenon, <2>1, <2>2, OpEdit
  <2> QED BY Zenon, <1>1, <2>3, OpEdit
<1>4. /\ o.worker = op.worker /\ o.count = op.count + 1 /\ ~o.written
      /\ o.failed = op.failed /\ o.preserve = op.preserve /\ o.started = op.started
      /\ o.snapshot = op.snapshot /\ o.abandoned = op.abandoned
      /\ o.intent = intent' /\ o.attempt = op.attempt
  BY <1>1 DEF OpType
<1>5. \/ Noted(pc, o) = o
      \/ pc = "attempt" /\ Noted(pc, o) = [o EXCEPT !.attempt = o.worker, !.cleaned = FALSE]
      \/ Noted(pc, o) = [o EXCEPT !.cleaned = TRUE]
  <2> HIDE DEF o
  <2> QED BY DEF Noted
<1> HIDE DEF o
<1>6. /\ Noted(pc, o) \in OpType
      /\ LET n == Noted(pc, o) IN
            /\ n.worker = op.worker /\ n.count = op.count + 1 /\ ~n.written
            /\ n.failed = op.failed /\ n.preserve = op.preserve /\ n.started = op.started
            /\ n.snapshot = op.snapshot /\ n.abandoned = op.abandoned
            /\ n.intent = intent' /\ n.attempt \in {op.attempt, op.worker}
            /\ pc # "attempt" => n.attempt = op.attempt
  BY ZenonT(60), <1>3, <1>4, <1>5 DEF OpType
<1>7. NoOp \in OpType
  BY DEF NoOp, OpType
<1>8. \/ pc = "sealed" /\ GoOn[pc] = "record"
      \/ pc = "record" /\ GoOn[pc] = "create"
      \/ pc = "created" /\ GoOn[pc] = "inspect"
      \/ pc = "found" /\ GoOn[pc] = "erase"
      \/ pc = "attempt" /\ GoOn[pc] = "start"
      \/ pc = "started" /\ GoOn[pc] = "wait"
      \/ pc = "result" /\ GoOn[pc] = "cleanup"
      \/ pc = "deleted" /\ GoOn[pc] = "leave"
      \/ pc = "remote" /\ GoOn[pc] = "unwind"
      \/ pc = "unsealed" /\ GoOn[pc] = "settle"
      \/ pc \in {"local", "undeliver", "salvage"} /\ GoOn[pc] = "idle"
      \/ pc = "complete" /\ GoOn[pc] = "unlock"
      \/ pc = "rDeleted" /\ GoOn[pc] = "rSnapshot"
      \/ pc = "rUnsealed" /\ GoOn[pc] = "rSettle"
      \/ pc \in {"rRemote", "rLocal", "rUndeliver"} /\ GoOn[pc] = "halt"
      \/ pc = "finish" /\ GoOn[pc] = "respond"
  BY AppendPoints DEF GoOn
<1> QED BY <1>2, <1>6, <1>7, <1>8 DEF Goto, AppendMoves

\* Where a failed append is caught, and what the operation knows then.
AppendRaises ==
    /\ \/ pc \in {"created", "attempt", "started", "result"} /\ pc' = "cleanup" /\ op'.failed
       \/ pc \in {"sealed", "record"} /\ pc' = "unwind" /\ op'.failed
       \/ pc \in {"found", "deleted", "remote"} /\ pc' = "unwind" /\ op'.failed /\ op'.preserve
       \/ pc = "finish" /\ pc' = "salvage" /\ op'.failed = op.failed /\ op'.preserve = op.preserve
       \/ pc' \in {"halt", "idle"} /\ op' = NoOp
    /\ pc' \notin {"halt", "idle"} =>
          /\ op'.worker = op.worker /\ op'.count = op.count /\ ~op'.written
          /\ op'.started = op.started /\ op'.snapshot = op.snapshot /\ op'.abandoned = op.abandoned
          /\ op'.attempt = op.attempt
    /\ op' \in OpType

\* The handlers of Raise say just that.
LEMMA AppendIsCaught ==
    ASSUME op \in OpType, pc \in Appends, Raise(pc, [op EXCEPT !.written = FALSE])
    PROVE  AppendRaises
<1> DEFINE o == [op EXCEPT !.written = FALSE]
<1>1. /\ o \in OpType
      /\ o.worker = op.worker /\ o.count = op.count /\ ~o.written
      /\ o.started = op.started /\ o.snapshot = op.snapshot /\ o.abandoned = op.abandoned
      /\ o.attempt = op.attempt /\ o.failed = op.failed /\ o.preserve = op.preserve
  <2>1. o \in OpType
    BY Zenon, OpEdit
  <2> QED BY <2>1 DEF OpType
<1>2. Raise(pc, o)
  OBVIOUS
<1> HIDE DEF o
<1>3. \/ /\ pc \in {"created", "attempt", "started", "result"} /\ pc' = "cleanup"
         /\ op' = [o EXCEPT !.failed = TRUE]
      \/ /\ pc \in {"sealed", "record"} /\ pc' = "unwind"
         /\ \/ op' = [o EXCEPT !.failed = TRUE]
            \/ op' = [o EXCEPT !.failed = TRUE, !.preserve = TRUE]
      \/ /\ pc \in {"found", "deleted", "remote"} /\ pc' = "unwind"
         /\ op' = [o EXCEPT !.failed = TRUE, !.preserve = TRUE]
      \/ pc = "finish" /\ pc' = "salvage" /\ op' = o
      \/ pc' \in {"halt", "idle"} /\ op' = NoOp
  BY Zenon, <1>1, <1>2, AppendPoints, RaiseFacts DEF Recovering
<1>4. NoOp \in OpType
  BY DEF NoOp, OpType
<1> QED BY ZenonT(60), <1>1, <1>3, <1>4 DEF AppendRaises, OpType

\* What a restarted broker finds: a container belongs to the newest worker
\* that is pending, and an empty journal to nothing but a sealed intent.
LEMMA RestartFinds ==
    ASSUME LeaseInv, lock # NoRequest, head = Len(journal)
    PROVE  /\ Pending # {} => Newest(Pending) \in Workers /\ boxes \subseteq {Box(Newest(Pending))}
           /\ \A b \in boxes : b[2] \in Pending /\ b = Box(b[2])
           /\ journal = <<>> => /\ boxes = {} /\ Last = "none" /\ Open
                                /\ \A b \in effects : b[1] # lock
                                /\ ~intent => sealed = {}
           /\ Last \notin Terminal => Open
<1>1. \A b \in boxes : b[2] \in Pending /\ b = Box(b[2]) /\ \A k \in Pending : k =< b[2]
  <2> SUFFICES ASSUME NEW b \in boxes
               PROVE  b[2] \in Pending /\ b = Box(b[2]) /\ \A k \in Pending : k =< b[2]
    OBVIOUS
  <2>1. b \in Requests \X Nat
    BY DEF LeaseInv, LeaseParts, TypeOK
  <2>2. /\ b[1] = lock /\ b[2] \in Workers /\ Kept("recorded", b[2]) /\ ~Logged("deleted", b[2])
        /\ \A k \in Nat : Logged("recorded", k) => k =< b[2]
    BY DEF LeaseInv, LeaseParts, BoxesOK
  <2>3. Logged("recorded", b[2])
    BY <2>2, KeptLogged
  <2>4. \A k \in Pending : k \in Nat /\ Logged("recorded", k)
    BY DEF Pending, Workers
  <2> QED BY <2>1, <2>2, <2>3, <2>4 DEF Pending, Box
<1>2. ASSUME Pending # {}
      PROVE  Newest(Pending) \in Workers /\ boxes \subseteq {Box(Newest(Pending))}
  <2>1. /\ Newest(Pending) \in Workers /\ Newest(Pending) \in Pending
        /\ \A j \in Pending : j =< Newest(Pending)
    BY <1>2, NewestWorker DEF Pending
  <2>2. \A b \in boxes : b[2] = Newest(Pending)
    <3>1. ASSUME NEW b \in boxes PROVE b[2] = Newest(Pending)
      <4>1. b[2] \in Int /\ Newest(Pending) \in Int /\ b[2] =< Newest(Pending)
                         /\ Newest(Pending) =< b[2]
        BY <1>1, <2>1 DEF Pending, Workers
      <4> QED BY <4>1
    <3> QED BY <3>1
  <2> QED BY <1>1, <2>1, <2>2
<1>3. ASSUME journal = <<>>
      PROVE  /\ boxes = {} /\ Last = "none" /\ Open /\ \A b \in effects : b[1] # lock
             /\ ~intent => sealed = {}
  <2>1. \A e, i : ~Logged(e, i) /\ ~Kept(e, i)
    BY <1>3 DEF Logged, Entries, Kept, Durable
  <2> QED BY <1>3, <2>1 DEF LeaseInv, LeaseParts, BoxesOK, EffectsOK, SealedOK, Last, Open
<1>4. ASSUME Last \notin Terminal
      PROVE  Open
  <2>1. Len(journal) \in Nat
    BY DEF LeaseInv, LeaseParts, TypeOK
  <2>2. ASSUME NEW n \in 1 .. Len(journal), journal[n][1] \in Terminal
        PROVE  FALSE
    <3>1. n = Len(journal)
      BY <2>1, <2>2 DEF LeaseInv, LeaseParts, JournalOK
    <3>2. Last = journal[n][1]
      BY <2>1, <3>1 DEF Last
    <3> QED BY <1>4, <2>2, <3>2
  <2> QED BY <2>2 DEF Open, Logged, Entries
<1> QED BY <1>1, <1>2, <1>3, <1>4

\* The points an operation or a recovery can be at.
LEMMA PointSet ==
    Points = {"sealed", "record", "created", "found", "attempt", "started", "result",
              "deleted", "remote", "unsealed", "local", "finish", "complete",
              "undeliver", "salvage", "rDeleted", "rUnsealed", "rRemote", "rLocal",
              "rUndeliver", "rDelete", "rSnapshot", "rSettle", "rUnlink", "halt",
              "idle", "phase", "intent", "seal", "create", "inspect", "start",
              "wait", "cleanup", "erase", "leave", "unwind", "settle", "respond",
              "release", "unlock"}
BY AppendPoints DEF Points, Recovering

\* An exception keeps the point and the locals typed.
LEMMA RaiseTyped ==
    ASSUME NEW p, NEW o \in OpType, Raise(p, o)
    PROVE  pc' \in Points /\ op' \in OpType
<1>1. pc' \in {"cleanup", "unwind", "salvage", "halt", "idle"}
  BY Zenon, RaiseFacts
<1>2. op' \in {o, NoOp, [o EXCEPT !.failed = TRUE], [o EXCEPT !.failed = TRUE, !.preserve = TRUE]}
  BY Zenon, RaiseFacts
<1>3. NoOp \in OpType
  BY DEF NoOp, OpType
<1>4. [o EXCEPT !.failed = TRUE] \in OpType
  BY Zenon, OpEdit
<1>5. [o EXCEPT !.failed = TRUE, !.preserve = TRUE] \in OpType
  BY Zenon, <1>4, OpEdit
<1> QED BY Zenon, <1>1, <1>2, <1>3, <1>4, <1>5, PointSet

LEMMA UnlinkKeeps ==
    ASSUME LeaseInv, lock # NoRequest, Unlink, Goto("idle", NoOp), boxes = {}, sealed = {},
           Last = "completed" \/ \A b \in effects : b[1] # lock
    PROVE  LeaseParts'
<1>a. /\ lock' = NoRequest /\ pc' = "idle" /\ op' = NoOp /\ boxes' = {} /\ sealed' = {}
      /\ UNCHANGED <<effects, ran, timedOut>>
      /\ \A r \in settled : r \in settled'
      /\ Last = "completed" => lock \in settled'
  BY DEF Unlink, world, Goto
<1>b. /\ \A b \in effects : b[1] \in Requests
      /\ NoRequest \notin Requests
  BY LeaseAssumption DEF LeaseInv, TypeOK
<1> USE <1>a, <1>b
        DEF Early, AtWorker, Closing, Ending, Operating, Reconciling, Recovering,
        NoOp, Box, LeaseInv, LeaseParts
<1>1. LockOK'
  BY DEF LockOK
<1>2. WorkerOK'
  BY DEF WorkerOK, LockOK
<1>3. SyncOK'
  BY DEF SyncOK, LockOK
<1>4. JournalOK'
  BY DEF JournalOK, LockOK
<1>5. BoxesOK'
  BY DEF BoxesOK, WorkerOK, LockOK
<1>6. SealedOK'
  BY DEF SealedOK, WorkerOK, SyncOK, LockOK
<1>7. EffectsOK'
  BY DEF EffectsOK, WorkerOK, EndOK, LockOK
<1>8. EndOK'
  BY DEF EndOK, BoxesOK, SealedOK, LockOK
<1> QED BY <1>1, <1>2, <1>3, <1>4, <1>5, <1>6, <1>7, <1>8 DEF LeaseParts

\* release(): a completed journal vouches for its effects, and an operation
\* without a trace had none, since an attempt follows a created entry and the
\* record holds at most one.
LEMMA ReleaseKeeps ==
    ASSUME LeaseInv, Release
    PROVE  LeaseParts'
<1>1. pc \in {"release", "unlock"} /\ Releasable /\ Unlink /\ Goto("idle", NoOp)
  BY DEF Release
<1>2. lock # NoRequest /\ boxes = {} /\ sealed = {}
  BY <1>1 DEF LeaseInv, LeaseParts, LockOK, BoxesOK, SealedOK, Operating, Ending, AtWorker, Closing
<1>3. ASSUME Last # "completed", NEW b \in effects, b[1] = lock
      PROVE  FALSE
  <2>1. Kept("attempted", b[2]) /\ b[2] \in Nat
    BY <1>3 DEF LeaseInv, LeaseParts, EffectsOK, TypeOK
  <2>2. Logged("attempted", b[2]) /\ Logged("created", b[2])
    BY <1>2, <2>1, KeptLogged DEF LeaseInv, LeaseParts, JournalOK
  <2>3. op.count = 0 /\ Len(journal) \in Nat /\ head \in Int
    BY <1>1, <1>3 DEF Releasable, LeaseInv, LeaseParts, TypeOK
  <2>4. Len(journal) =< 1
    <3>1. pc \notin Appends /\ pc \in Operating
      BY <1>1, AppendPoints DEF Operating, Ending
    <3>2. Len(journal) = op.count \/ Len(journal) = op.count + 1
      BY <3>1 DEF LeaseInv, LeaseParts, SyncOK
    <3>3. Len(journal) = 0 \/ Len(journal) = 0 + 1
      BY <2>3, <3>2
    <3> QED BY <3>3
  <2>5. PICK n \in 1 .. Len(journal), k \in 1 .. Len(journal) :
            journal[n] = <<"attempted", b[2]>> /\ journal[k] = <<"created", b[2]>>
    BY <2>2 DEF Logged, Entries
  <2>6. n = k
    BY <2>3, <2>4, <2>5
  <2> QED BY <2>5, <2>6
<1> QED BY <1>1, <1>2, <1>3, UnlinkKeeps

\* recover() removes the lock only when nothing is left to account for.
LEMMA RecoverUnlinkKeeps ==
    ASSUME LeaseInv, RecoverUnlink
    PROVE  LeaseParts'
<1>1. pc = "rUnlink" /\ Unlink /\ Goto("idle", NoOp)
  BY DEF RecoverUnlink
<1>2. /\ lock # NoRequest /\ boxes = {} /\ sealed = {}
      /\ Last = "completed" \/ \A b \in effects : b[1] # lock
  BY <1>1 DEF LeaseInv, LeaseParts, LockOK, BoxesOK, SealedOK, EffectsOK
<1> QED BY <1>1, <1>2, UnlinkKeeps

\* A phase begins: nothing of the coming worker is recorded or deleted yet.
LEMMA PhaseBeginsKeeps ==
    ASSUME LeaseInv, PhaseBegins
    PROVE  LeaseParts'
<1> USE DEF PhaseBegins, Step, Quiet, Goto, disk, world, told, vars, NoOp, OpType, Box, LeaseInv,
        LeaseParts, Early, AtWorker, Closing, Ending, Operating, Reconciling, Recovering
<1>q. UNCHANGED <<lock, head, journal>>
  OBVIOUS
<1> USE <1>q, QuietFacts, AppendPoints
<1>d. /\ pc = "phase" /\ op' = op
      /\ \/ pc' = "finish" /\ Plan[lock] = <<>>
         \/ pc' = "intent" /\ Plan[lock] # <<>> /\ lock \in Claims
         \/ pc' = "record" /\ Plan[lock] # <<>> /\ lock \notin Claims
  <2>1. lock \in Claims => Plan[lock] # <<>>
    BY LeaseAssumption
  <2> QED BY <2>1
<1>1. LockOK'
  BY <1>d DEF LockOK
<1>2. WorkerOK'
  BY <1>d DEF WorkerOK, LockOK
<1>3. SyncOK'
  BY <1>d DEF SyncOK, LockOK
<1>4. JournalOK'
  BY <1>d DEF JournalOK, LockOK
<1>5. BoxesOK'
  BY <1>d DEF BoxesOK, WorkerOK, LockOK
<1>6. SealedOK'
  BY <1>d DEF SealedOK, WorkerOK, SyncOK, LockOK
<1>7. EffectsOK'
  BY <1>d DEF EffectsOK, WorkerOK, EndOK, LockOK
<1>8. EndOK'
  BY <1>d DEF EndOK, BoxesOK, SealedOK, LockOK
<1> QED BY <1>1, <1>2, <1>3, <1>4, <1>5, <1>6, <1>7, <1>8

\* The intent is written before anything is sealed.
LEMMA RecordIntentKeeps ==
    ASSUME LeaseInv, RecordIntent
    PROVE  LeaseParts'
<1> USE DEF RecordIntent, Step, Quiet, Goto, disk, world, told, vars, NoOp, OpType, Box, LeaseInv,
        LeaseParts, Early, AtWorker, Closing, Ending, Operating, Reconciling, Recovering
<1>q. UNCHANGED <<lock, head, journal>>
  OBVIOUS
<1> USE <1>q, QuietFacts, AppendPoints
<1>1. LockOK'
  BY DEF LockOK
<1>2. WorkerOK'
  BY DEF WorkerOK, LockOK
<1>3. SyncOK'
  BY DEF SyncOK, LockOK
<1>4. JournalOK'
  BY DEF JournalOK, LockOK
<1>5. BoxesOK'
  BY DEF BoxesOK, WorkerOK, LockOK
<1>6. SealedOK'
  BY DEF SealedOK, WorkerOK, SyncOK, LockOK
<1>7. EffectsOK'
  BY DEF EffectsOK, WorkerOK, EndOK, LockOK
<1>8. EndOK'
  BY DEF EndOK, BoxesOK, SealedOK, LockOK
<1> QED BY <1>1, <1>2, <1>3, <1>4, <1>5, <1>6, <1>7, <1>8

\* The snapshot is sealed under an intent, with an empty journal.
LEMMA SealKeeps ==
    ASSUME LeaseInv, Seal
    PROVE  LeaseParts'
<1> USE DEF Seal, Step, Quiet, Goto, disk, world, told, vars, NoOp, OpType, Box, LeaseInv,
        LeaseParts, Early, AtWorker, Closing, Ending, Operating, Reconciling, Recovering
<1>q. UNCHANGED <<lock, head, journal>>
  OBVIOUS
<1> USE <1>q, QuietFacts, AppendPoints
<1>1. LockOK'
  BY DEF LockOK
<1>2. WorkerOK'
  BY DEF WorkerOK, SyncOK, LockOK
<1>3. SyncOK'
  BY DEF SyncOK, LockOK
<1>4. JournalOK'
  BY DEF JournalOK, LockOK
<1>5. BoxesOK'
  BY DEF BoxesOK, WorkerOK, LockOK
<1>6. SealedOK'
  <2>1. journal = <<>> /\ head = 0 /\ intent /\ op.started
    BY DEF WorkerOK, SyncOK
  <2>2. \A i \in Nat : ~Logged("recorded", i)
    BY <2>1 DEF Logged, Entries
  <2> QED
    BY <2>1, <2>2 DEF SealedOK
<1>7. EffectsOK'
  BY DEF EffectsOK, WorkerOK, EndOK, LockOK
<1>8. EndOK'
  BY DEF EndOK, BoxesOK, SealedOK, LockOK
<1> QED BY <1>1, <1>2, <1>3, <1>4, <1>5, <1>6, <1>7, <1>8

\* A container is created under the durable entry of its worker.
LEMMA CreateKeeps ==
    ASSUME LeaseInv, Create
    PROVE  LeaseParts'
<1> USE DEF Create, Step, Quiet, Goto, disk, world, told, vars, NoOp, OpType, Box, LeaseInv,
        LeaseParts, Early, AtWorker, Closing, Ending, Operating, Reconciling, Recovering
<1>q. UNCHANGED <<lock, head, journal>>
  OBVIOUS
<1> USE <1>q, QuietFacts, AppendPoints
<1>1. LockOK'
  BY DEF LockOK
<1>2. WorkerOK'
  BY DEF WorkerOK, LockOK
<1>3. SyncOK'
  BY DEF SyncOK, LockOK
<1>4. JournalOK'
  BY DEF JournalOK, LockOK
<1>5. BoxesOK'
  BY DEF BoxesOK, WorkerOK, LockOK
<1>6. SealedOK'
  BY DEF SealedOK, WorkerOK, SyncOK, LockOK
<1>7. EffectsOK'
  BY DEF EffectsOK, WorkerOK, EndOK, LockOK
<1>8. EndOK'
  BY DEF EndOK, BoxesOK, SealedOK, LockOK
<1> QED BY <1>1, <1>2, <1>3, <1>4, <1>5, <1>6, <1>7, <1>8

\* Inspecting a container changes nothing on disk.
LEMMA InspectKeeps ==
    ASSUME LeaseInv, Inspect
    PROVE  LeaseParts'
<1> USE DEF Inspect, Step, Quiet, Goto, disk, world, told, vars, NoOp, OpType, Box, LeaseInv,
        LeaseParts, Early, AtWorker, Closing, Ending, Operating, Reconciling, Recovering
<1>q. UNCHANGED <<lock, head, journal>>
  OBVIOUS
<1> USE <1>q, QuietFacts, AppendPoints
<1>1. LockOK'
  BY DEF LockOK
<1>2. WorkerOK'
  BY DEF WorkerOK, LockOK
<1>3. SyncOK'
  BY DEF SyncOK, LockOK
<1>4. JournalOK'
  BY DEF JournalOK, LockOK
<1>5. BoxesOK'
  BY DEF BoxesOK, WorkerOK, LockOK
<1>6. SealedOK'
  BY DEF SealedOK, WorkerOK, SyncOK, LockOK
<1>7. EffectsOK'
  BY DEF EffectsOK, WorkerOK, EndOK, LockOK
<1>8. EndOK'
  BY DEF EndOK, BoxesOK, SealedOK, LockOK
<1> QED BY <1>1, <1>2, <1>3, <1>4, <1>5, <1>6, <1>7, <1>8

\* A worker is started under its durable attempt, which accounts for its
\* effect.
LEMMA StartKeeps ==
    ASSUME LeaseInv, Start
    PROVE  LeaseParts'
<1> USE DEF Start, Step, Quiet, Goto, disk, world, told, vars, NoOp, OpType, Box, LeaseInv,
        LeaseParts, Early, AtWorker, Closing, Ending, Operating, Reconciling, Recovering
<1>q. UNCHANGED <<lock, head, journal>>
  OBVIOUS
<1> USE <1>q, QuietFacts, AppendPoints
<1>1. LockOK'
  BY DEF LockOK, Ran, NonIdempotent, Kind, Workers
<1>2. WorkerOK'
  BY DEF WorkerOK, LockOK, Ran, NonIdempotent, Kind, Workers
<1>3. SyncOK'
  BY DEF SyncOK, LockOK, Ran, NonIdempotent, Kind, Workers
<1>4. JournalOK'
  BY DEF JournalOK, LockOK, Ran, NonIdempotent, Kind, Workers
<1>5. BoxesOK'
  BY DEF BoxesOK, WorkerOK, LockOK, Ran, NonIdempotent, Kind, Workers
<1>6. SealedOK'
  BY DEF SealedOK, WorkerOK, SyncOK, LockOK, Ran, NonIdempotent, Kind, Workers
<1>7. EffectsOK'
  BY DEF EffectsOK, WorkerOK, EndOK, LockOK, Ran, NonIdempotent, Kind, Workers
<1>8. EndOK'
  BY DEF EndOK, BoxesOK, SealedOK, LockOK, Ran, NonIdempotent, Kind, Workers
<1> QED BY <1>1, <1>2, <1>3, <1>4, <1>5, <1>6, <1>7, <1>8

\* Reading a result changes nothing on disk.
LEMMA WaitAndReadKeeps ==
    ASSUME LeaseInv, WaitAndRead
    PROVE  LeaseParts'
<1> USE DEF WaitAndRead, Step, Quiet, Goto, disk, world, told, vars, NoOp, OpType, Box, LeaseInv,
        LeaseParts, Early, AtWorker, Closing, Ending, Operating, Reconciling, Recovering
<1>q. UNCHANGED <<lock, head, journal>>
  OBVIOUS
<1> USE <1>q, QuietFacts, AppendPoints
<1>1. LockOK'
  BY DEF LockOK
<1>2. WorkerOK'
  BY DEF WorkerOK, LockOK
<1>3. SyncOK'
  BY DEF SyncOK, LockOK
<1>4. JournalOK'
  BY DEF JournalOK, LockOK
<1>5. BoxesOK'
  BY DEF BoxesOK, WorkerOK, LockOK
<1>6. SealedOK'
  BY DEF SealedOK, WorkerOK, SyncOK, LockOK
<1>7. EffectsOK'
  BY DEF EffectsOK, WorkerOK, EndOK, LockOK
<1>8. EndOK'
  BY DEF EndOK, BoxesOK, SealedOK, LockOK
<1> QED BY <1>1, <1>2, <1>3, <1>4, <1>5, <1>6, <1>7, <1>8

\* Cleanup takes the container of the worker under way, the only one.
LEMMA CleanupKeeps ==
    ASSUME LeaseInv, Cleanup
    PROVE  LeaseParts'
<1> USE DEF Cleanup, Step, Quiet, Goto, disk, world, told, vars, NoOp, OpType, Box, LeaseInv,
        LeaseParts, Early, AtWorker, Closing, Ending, Operating, Reconciling, Recovering
<1>q. UNCHANGED <<lock, head, journal>>
  OBVIOUS
<1> USE <1>q, QuietFacts, AppendPoints
<1>1. LockOK'
  BY DEF LockOK
<1>2. WorkerOK'
  BY DEF WorkerOK, LockOK
<1>3. SyncOK'
  BY DEF SyncOK, LockOK
<1>4. JournalOK'
  BY DEF JournalOK, LockOK
<1>5. BoxesOK'
  BY SMTT(60) DEF BoxesOK, WorkerOK, LockOK
<1>6. SealedOK'
  BY DEF SealedOK, WorkerOK, SyncOK, LockOK
<1>7. EffectsOK'
  BY DEF EffectsOK, WorkerOK, EndOK, LockOK
<1>8. EndOK'
  BY DEF EndOK, BoxesOK, SealedOK, LockOK
<1> QED BY <1>1, <1>2, <1>3, <1>4, <1>5, <1>6, <1>7, <1>8

\* Erasing by name takes the same container.
LEMMA EraseKeeps ==
    ASSUME LeaseInv, Erase
    PROVE  LeaseParts'
<1> USE DEF Erase, Step, Quiet, Goto, disk, world, told, vars, NoOp, OpType, Box, LeaseInv,
        LeaseParts, Early, AtWorker, Closing, Ending, Operating, Reconciling, Recovering
<1>q. UNCHANGED <<lock, head, journal>>
  OBVIOUS
<1> USE <1>q, QuietFacts, AppendPoints
<1>1. LockOK'
  BY DEF LockOK
<1>2. WorkerOK'
  BY DEF WorkerOK, LockOK
<1>3. SyncOK'
  BY DEF SyncOK, LockOK
<1>4. JournalOK'
  BY DEF JournalOK, LockOK
<1>5. BoxesOK'
  BY DEF BoxesOK, WorkerOK, LockOK
<1>6. SealedOK'
  BY DEF SealedOK, WorkerOK, SyncOK, LockOK
<1>7. EffectsOK'
  BY DEF EffectsOK, WorkerOK, EndOK, LockOK
<1>8. EndOK'
  BY DEF EndOK, BoxesOK, SealedOK, LockOK
<1> QED BY <1>1, <1>2, <1>3, <1>4, <1>5, <1>6, <1>7, <1>8

\* After a worker comes the next one, a new worker of the plan, or the end of
\* the phase.
LEMMA WorkerReturnsKeeps ==
    ASSUME LeaseInv, WorkerReturns
    PROVE  LeaseParts'
<1> USE DEF WorkerReturns, Step, Quiet, Goto, disk, world, told, vars, NoOp, OpType, Box, LeaseInv,
        LeaseParts, Early, AtWorker, Closing, Ending, Operating, Reconciling, Recovering
<1>q. UNCHANGED <<lock, head, journal>>
  OBVIOUS
<1> USE <1>q, QuietFacts, AppendPoints
<1>d. /\ pc = "leave"
      /\ \/ /\ op.failed /\ pc' \in {"remote", "unwind"}
            /\ op' = [op EXCEPT !.hasId = FALSE, !.preserve = TRUE]
         \/ ~op.failed /\ pc' = "unwind" /\ op' = [op EXCEPT !.hasId = FALSE] /\ (op.worker \in PhaseEnds[lock] \/ op.worker = Len(Plan[lock]))
         \/ /\ ~op.failed /\ pc' = "record" /\ op.worker # Len(Plan[lock])
            /\ op' = [op EXCEPT !.hasId = FALSE, !.worker = op.worker + 1, !.started = TRUE]
  OBVIOUS
<1>e. lock \in Claims => PhaseEnds[lock] = {}
  BY LeaseAssumption
<1>f. op.worker \in Workers /\ lock # NoRequest
  BY <1>d DEF WorkerOK, LockOK
<1>1. LockOK'
  BY <1>d, <1>e, <1>f DEF LockOK, Workers
<1>2. WorkerOK'
  <2>1. CASE /\ op.failed /\ pc' \in {"remote", "unwind"}
            /\ op' = [op EXCEPT !.hasId = FALSE, !.preserve = TRUE]
    BY <1>e, <1>f, <2>1, <1>d DEF WorkerOK, LockOK, Workers
  <2>2. CASE /\ ~op.failed /\ pc' = "unwind" /\ op' = [op EXCEPT !.hasId = FALSE]
            /\ (op.worker \in PhaseEnds[lock] \/ op.worker = Len(Plan[lock]))
    BY <1>e, <1>f, <2>2, <1>d DEF WorkerOK, LockOK, Workers
  <2>3. CASE /\ ~op.failed /\ pc' = "record" /\ op.worker # Len(Plan[lock])
            /\ op' = [op EXCEPT !.hasId = FALSE, !.worker = op.worker + 1, !.started = TRUE]
    BY <1>e, <1>f, <2>3, <1>d DEF WorkerOK, LockOK, Workers
  <2> QED BY <1>d, <2>1, <2>2, <2>3
<1>3. SyncOK'
  <2>1. CASE /\ op.failed /\ pc' \in {"remote", "unwind"}
            /\ op' = [op EXCEPT !.hasId = FALSE, !.preserve = TRUE]
    BY <1>e, <1>f, <2>1, <1>d DEF SyncOK, LockOK, Workers
  <2>2. CASE /\ ~op.failed /\ pc' = "unwind" /\ op' = [op EXCEPT !.hasId = FALSE]
            /\ (op.worker \in PhaseEnds[lock] \/ op.worker = Len(Plan[lock]))
    BY <1>e, <1>f, <2>2, <1>d DEF SyncOK, LockOK, Workers
  <2>3. CASE /\ ~op.failed /\ pc' = "record" /\ op.worker # Len(Plan[lock])
            /\ op' = [op EXCEPT !.hasId = FALSE, !.worker = op.worker + 1, !.started = TRUE]
    BY <1>e, <1>f, <2>3, <1>d DEF SyncOK, LockOK, Workers
  <2> QED BY <1>d, <2>1, <2>2, <2>3
<1>4. JournalOK'
  BY <1>d, <1>e, <1>f DEF JournalOK, LockOK, Workers
<1>5. BoxesOK'
  <2>1. CASE /\ op.failed /\ pc' \in {"remote", "unwind"}
            /\ op' = [op EXCEPT !.hasId = FALSE, !.preserve = TRUE]
    BY <1>e, <1>f, <2>1, <1>d DEF BoxesOK, WorkerOK, LockOK, Workers
  <2>2. CASE /\ ~op.failed /\ pc' = "unwind" /\ op' = [op EXCEPT !.hasId = FALSE]
            /\ (op.worker \in PhaseEnds[lock] \/ op.worker = Len(Plan[lock]))
    BY <1>e, <1>f, <2>2, <1>d DEF BoxesOK, WorkerOK, LockOK, Workers
  <2>3. CASE /\ ~op.failed /\ pc' = "record" /\ op.worker # Len(Plan[lock])
            /\ op' = [op EXCEPT !.hasId = FALSE, !.worker = op.worker + 1, !.started = TRUE]
    BY <1>e, <1>f, <2>3, <1>d DEF BoxesOK, WorkerOK, LockOK, Workers
  <2> QED BY <1>d, <2>1, <2>2, <2>3
<1>6. SealedOK'
  <2>1. CASE /\ op.failed /\ pc' \in {"remote", "unwind"}
            /\ op' = [op EXCEPT !.hasId = FALSE, !.preserve = TRUE]
    BY <1>e, <1>f, <2>1, <1>d DEF SealedOK, WorkerOK, SyncOK, LockOK, Workers
  <2>2. CASE /\ ~op.failed /\ pc' = "unwind" /\ op' = [op EXCEPT !.hasId = FALSE]
            /\ (op.worker \in PhaseEnds[lock] \/ op.worker = Len(Plan[lock]))
    BY <1>e, <1>f, <2>2, <1>d DEF SealedOK, WorkerOK, SyncOK, LockOK, Workers
  <2>3. CASE /\ ~op.failed /\ pc' = "record" /\ op.worker # Len(Plan[lock])
            /\ op' = [op EXCEPT !.hasId = FALSE, !.worker = op.worker + 1, !.started = TRUE]
    BY <1>e, <1>f, <2>3, <1>d DEF SealedOK, WorkerOK, SyncOK, LockOK, Workers
  <2> QED BY <1>d, <2>1, <2>2, <2>3
<1>7. EffectsOK'
  BY <1>d, <1>e, <1>f DEF EffectsOK, WorkerOK, EndOK, LockOK, Workers
<1>8. EndOK'
  BY Zenon, <1>d, <1>e, <1>f DEF EndOK, BoxesOK, SealedOK, LockOK, Workers
<1> QED BY <1>1, <1>2, <1>3, <1>4, <1>5, <1>6, <1>7, <1>8

\* The end of a phase removes the snapshot before it is journalled as cleaned.
LEMMA UnwindKeeps ==
    ASSUME LeaseInv, Unwind
    PROVE  LeaseParts'
<1> USE DEF Unwind, Step, Quiet, Goto, disk, world, told, vars, NoOp, OpType, Box, LeaseInv,
        LeaseParts, Early, AtWorker, Closing, Ending, Operating, Reconciling, Recovering
<1>q. UNCHANGED <<lock, head, journal>>
  OBVIOUS
<1> USE <1>q, QuietFacts, AppendPoints
<1>1. LockOK'
  BY DEF LockOK
<1>2. WorkerOK'
  BY DEF WorkerOK, LockOK
<1>3. SyncOK'
  BY DEF SyncOK, LockOK
<1>4. JournalOK'
  BY DEF JournalOK, LockOK
<1>5. BoxesOK'
  BY DEF BoxesOK, WorkerOK, LockOK
<1>6. SealedOK'
  BY DEF SealedOK, WorkerOK, SyncOK, LockOK
<1>7. EffectsOK'
  BY DEF EffectsOK, WorkerOK, EndOK, LockOK
<1>8. EndOK'
  BY DEF EndOK, BoxesOK, SealedOK, LockOK
<1> QED BY <1>1, <1>2, <1>3, <1>4, <1>5, <1>6, <1>7, <1>8

\* A phase returns to the next worker of the plan, to the response, or to a
\* catch block.
LEMMA SettleKeeps ==
    ASSUME LeaseInv, Settle
    PROVE  LeaseParts'
<1> USE DEF Settle, Step, Quiet, Goto, disk, world, told, vars, NoOp, OpType, Box, LeaseInv,
        LeaseParts, Early, AtWorker, Closing, Ending, Operating, Reconciling, Recovering
<1>q. UNCHANGED <<lock, head, journal>>
  OBVIOUS
<1> USE <1>q, QuietFacts, AppendPoints
<1>d. /\ pc = "settle"
      /\ \/ op.failed /\ pc' = "local" /\ op' = op /\ op.attempt # 0
         \/ pc' = "idle" /\ op' = NoOp
         \/ /\ op.failed /\ pc' = "release" /\ op' = op /\ op.attempt = 0 /\ ~op.preserve
            /\ ~op.started
         \/ ~op.failed /\ pc' = "finish" /\ op' = op
         \/ /\ ~op.failed /\ pc' = "phase" /\ op.worker < Len(Plan[lock])
            /\ op' = [op EXCEPT !.worker = op.worker + 1, !.attempt = 0,
                                !.cleaned = FALSE, !.started = FALSE]
  OBVIOUS
<1>f. lock # NoRequest
  BY <1>d DEF WorkerOK, LockOK
<1>1. LockOK'
  BY <1>d, <1>f DEF LockOK, Workers
<1>2. WorkerOK'
  <2>1. CASE pc' = "local"
    BY <1>f, <2>1, <1>d DEF WorkerOK, LockOK, Workers
  <2>2. CASE pc' = "idle"
    BY <1>f, <2>2, <1>d DEF WorkerOK, LockOK, Workers
  <2>3. CASE pc' = "release"
    BY <1>f, <2>3, <1>d DEF WorkerOK, LockOK, Workers
  <2>4. CASE pc' = "finish"
    BY <1>f, <2>4, <1>d DEF WorkerOK, LockOK, Workers
  <2>5. CASE /\ ~op.failed /\ pc' = "phase" /\ op.worker < Len(Plan[lock])
            /\ op' = [op EXCEPT !.worker = op.worker + 1, !.attempt = 0,
                                !.cleaned = FALSE, !.started = FALSE]
    BY <1>f, <2>5, <1>d DEF WorkerOK, LockOK, Workers
  <2> QED BY <1>d, <2>1, <2>2, <2>3, <2>4, <2>5
<1>3. SyncOK'
  <2>1. CASE pc' = "local"
    BY <1>f, <2>1, <1>d DEF SyncOK, LockOK, Workers
  <2>2. CASE pc' = "idle"
    BY <1>f, <2>2, <1>d DEF SyncOK, LockOK, Workers
  <2>3. CASE pc' = "release"
    BY <1>f, <2>3, <1>d DEF SyncOK, LockOK, Workers
  <2>4. CASE pc' = "finish"
    BY <1>f, <2>4, <1>d DEF SyncOK, LockOK, Workers
  <2>5. CASE /\ ~op.failed /\ pc' = "phase" /\ op.worker < Len(Plan[lock])
            /\ op' = [op EXCEPT !.worker = op.worker + 1, !.attempt = 0,
                                !.cleaned = FALSE, !.started = FALSE]
    BY <1>f, <2>5, <1>d DEF SyncOK, LockOK, Workers
  <2> QED BY <1>d, <2>1, <2>2, <2>3, <2>4, <2>5
<1>4. JournalOK'
  BY <1>d, <1>f DEF JournalOK, LockOK, Workers
<1>5. BoxesOK'
  <2>1. CASE pc' = "local"
    BY <1>f, <2>1, <1>d DEF BoxesOK, WorkerOK, LockOK, EndOK, Workers
  <2>2. CASE pc' = "idle"
    BY <1>f, <2>2, <1>d DEF BoxesOK, WorkerOK, LockOK, EndOK, Workers
  <2>3. CASE pc' = "release"
    BY <1>f, <2>3, <1>d DEF BoxesOK, WorkerOK, LockOK, EndOK, Workers
  <2>4. CASE pc' = "finish"
    BY <1>f, <2>4, <1>d DEF BoxesOK, WorkerOK, LockOK, EndOK, Workers
  <2>5. CASE /\ ~op.failed /\ pc' = "phase" /\ op.worker < Len(Plan[lock])
            /\ op' = [op EXCEPT !.worker = op.worker + 1, !.attempt = 0,
                                !.cleaned = FALSE, !.started = FALSE]
    BY <1>f, <2>5, <1>d DEF BoxesOK, WorkerOK, LockOK, EndOK, Workers
  <2> QED BY <1>d, <2>1, <2>2, <2>3, <2>4, <2>5
<1>6. SealedOK'
  <2>1. CASE pc' = "local"
    BY <1>f, <2>1, <1>d DEF SealedOK, WorkerOK, SyncOK, LockOK, Workers
  <2>2. CASE pc' = "idle"
    BY <1>f, <2>2, <1>d DEF SealedOK, WorkerOK, SyncOK, LockOK, Workers
  <2>3. CASE pc' = "release"
    BY <1>f, <2>3, <1>d DEF SealedOK, WorkerOK, SyncOK, LockOK, Workers
  <2>4. CASE pc' = "finish"
    BY <1>f, <2>4, <1>d DEF SealedOK, WorkerOK, SyncOK, LockOK, Workers
  <2>5. CASE /\ ~op.failed /\ pc' = "phase" /\ op.worker < Len(Plan[lock])
            /\ op' = [op EXCEPT !.worker = op.worker + 1, !.attempt = 0,
                                !.cleaned = FALSE, !.started = FALSE]
    BY <1>f, <2>5, <1>d DEF SealedOK, WorkerOK, SyncOK, LockOK, Workers
  <2> QED BY <1>d, <2>1, <2>2, <2>3, <2>4, <2>5
<1>7. EffectsOK'
  BY <1>d, <1>f DEF EffectsOK, WorkerOK, EndOK, LockOK, Workers
<1>8. EndOK'
  <2>1. CASE pc' = "local"
    BY <1>f, <2>1, <1>d DEF EndOK, BoxesOK, SealedOK, LockOK, Workers
  <2>2. CASE pc' = "idle"
    BY <1>f, <2>2, <1>d DEF EndOK, BoxesOK, SealedOK, LockOK, Workers
  <2>3. CASE pc' = "release"
    BY <1>f, <2>3, <1>d DEF EndOK, BoxesOK, SealedOK, LockOK, Workers
  <2>4. CASE pc' = "finish"
    BY <1>f, <2>4, <1>d DEF EndOK, BoxesOK, SealedOK, LockOK, Workers
  <2>5. CASE /\ ~op.failed /\ pc' = "phase" /\ op.worker < Len(Plan[lock])
            /\ op' = [op EXCEPT !.worker = op.worker + 1, !.attempt = 0,
                                !.cleaned = FALSE, !.started = FALSE]
    BY <1>f, <2>5, <1>d DEF EndOK, BoxesOK, SealedOK, LockOK, Workers
  <2> QED BY <1>d, <2>1, <2>2, <2>3, <2>4, <2>5
<1> QED BY <1>1, <1>2, <1>3, <1>4, <1>5, <1>6, <1>7, <1>8

\* A timeout abandons the operation that is under way.
LEMMA TimeoutKeeps ==
    ASSUME LeaseInv, Timeout
    PROVE  LeaseParts'
<1> USE DEF Timeout, Step, Quiet, Goto, disk, world, told, vars, NoOp, OpType, Box, LeaseInv,
        LeaseParts, Early, AtWorker, Closing, Ending, Operating, Reconciling, Recovering
<1>q. UNCHANGED <<lock, head, journal>>
  OBVIOUS
<1> USE <1>q, QuietFacts, AppendPoints
<1>1. LockOK'
  BY DEF LockOK, Awaiting
<1>2. WorkerOK'
  BY DEF WorkerOK, LockOK, Awaiting
<1>3. SyncOK'
  BY DEF SyncOK, LockOK, Awaiting
<1>4. JournalOK'
  BY DEF JournalOK, LockOK, Awaiting
<1>5. BoxesOK'
  BY DEF BoxesOK, WorkerOK, LockOK, Awaiting
<1>6. SealedOK'
  BY DEF SealedOK, WorkerOK, SyncOK, LockOK, Awaiting
<1>7. EffectsOK'
  BY DEF EffectsOK, WorkerOK, EndOK, LockOK, Awaiting
<1>8. EndOK'
  BY DEF EndOK, BoxesOK, SealedOK, LockOK, Awaiting
<1> QED BY <1>1, <1>2, <1>3, <1>4, <1>5, <1>6, <1>7, <1>8

\* A lost peer is noted, and nothing else.
LEMMA PeerLostKeeps ==
    ASSUME LeaseInv, PeerLost
    PROVE  LeaseParts'
<1> USE DEF PeerLost, Step, Quiet, Goto, disk, world, told, vars, NoOp, OpType, Box, LeaseInv,
        LeaseParts, Early, AtWorker, Closing, Ending, Operating, Reconciling, Recovering
<1>q. UNCHANGED <<lock, head, journal>>
  OBVIOUS
<1> USE <1>q, QuietFacts, AppendPoints
<1>1. LockOK'
  BY DEF LockOK, Awaiting
<1>2. WorkerOK'
  BY DEF WorkerOK, LockOK, Awaiting
<1>3. SyncOK'
  BY DEF SyncOK, LockOK, Awaiting
<1>4. JournalOK'
  BY DEF JournalOK, LockOK, Awaiting
<1>5. BoxesOK'
  BY DEF BoxesOK, WorkerOK, LockOK, Awaiting
<1>6. SealedOK'
  BY DEF SealedOK, WorkerOK, SyncOK, LockOK, Awaiting
<1>7. EffectsOK'
  BY DEF EffectsOK, WorkerOK, EndOK, LockOK, Awaiting
<1>8. EndOK'
  BY DEF EndOK, BoxesOK, SealedOK, LockOK, Awaiting
<1> QED BY <1>1, <1>2, <1>3, <1>4, <1>5, <1>6, <1>7, <1>8

\* A flushed response goes to the completed entry.
LEMMA FlushedKeeps ==
    ASSUME LeaseInv, Flushed
    PROVE  LeaseParts'
<1> USE DEF Flushed, Step, Quiet, Goto, disk, world, told, vars, NoOp, OpType, Box, LeaseInv,
        LeaseParts, Early, AtWorker, Closing, Ending, Operating, Reconciling, Recovering
<1>q. UNCHANGED <<lock, head, journal>>
  OBVIOUS
<1> USE <1>q, QuietFacts, AppendPoints
<1>1. LockOK'
  BY DEF LockOK
<1>2. WorkerOK'
  BY DEF WorkerOK, LockOK
<1>3. SyncOK'
  BY DEF SyncOK, LockOK
<1>4. JournalOK'
  BY DEF JournalOK, LockOK
<1>5. BoxesOK'
  BY DEF BoxesOK, WorkerOK, LockOK
<1>6. SealedOK'
  BY DEF SealedOK, WorkerOK, SyncOK, LockOK
<1>7. EffectsOK'
  BY DEF EffectsOK, WorkerOK, EndOK, LockOK
<1>8. EndOK'
  BY DEF EndOK, BoxesOK, SealedOK, LockOK
<1> QED BY <1>1, <1>2, <1>3, <1>4, <1>5, <1>6, <1>7, <1>8

\* So does one whose write failed.
LEMMA WriteFailsKeeps ==
    ASSUME LeaseInv, WriteFails
    PROVE  LeaseParts'
<1> USE DEF WriteFails, Step, Quiet, Goto, disk, world, told, vars, NoOp, OpType, Box, LeaseInv,
        LeaseParts, Early, AtWorker, Closing, Ending, Operating, Reconciling, Recovering
<1>q. UNCHANGED <<lock, head, journal>>
  OBVIOUS
<1> USE <1>q, QuietFacts, AppendPoints
<1>1. LockOK'
  BY DEF LockOK
<1>2. WorkerOK'
  BY DEF WorkerOK, LockOK
<1>3. SyncOK'
  BY DEF SyncOK, LockOK
<1>4. JournalOK'
  BY DEF JournalOK, LockOK
<1>5. BoxesOK'
  BY DEF BoxesOK, WorkerOK, LockOK
<1>6. SealedOK'
  BY DEF SealedOK, WorkerOK, SyncOK, LockOK
<1>7. EffectsOK'
  BY DEF EffectsOK, WorkerOK, EndOK, LockOK
<1>8. EndOK'
  BY DEF EndOK, BoxesOK, SealedOK, LockOK
<1> QED BY <1>1, <1>2, <1>3, <1>4, <1>5, <1>6, <1>7, <1>8

\* A refused release leaves the lease as it is.
LEMMA ReleaseRefusedKeeps ==
    ASSUME LeaseInv, ReleaseRefused
    PROVE  LeaseParts'
<1> USE DEF ReleaseRefused, Step, Quiet, Goto, disk, world, told, vars, NoOp, OpType, Box, LeaseInv,
        LeaseParts, Early, AtWorker, Closing, Ending, Operating, Reconciling, Recovering
<1>q. UNCHANGED <<lock, head, journal>>
  OBVIOUS
<1> USE <1>q, QuietFacts, AppendPoints
<1>1. LockOK'
  BY DEF LockOK
<1>2. WorkerOK'
  BY DEF WorkerOK, LockOK
<1>3. SyncOK'
  BY DEF SyncOK, LockOK
<1>4. JournalOK'
  BY DEF JournalOK, LockOK
<1>5. BoxesOK'
  BY DEF BoxesOK, WorkerOK, LockOK
<1>6. SealedOK'
  BY DEF SealedOK, WorkerOK, SyncOK, LockOK
<1>7. EffectsOK'
  BY DEF EffectsOK, WorkerOK, EndOK, LockOK
<1>8. EndOK'
  BY DEF EndOK, BoxesOK, SealedOK, LockOK
<1> QED BY <1>1, <1>2, <1>3, <1>4, <1>5, <1>6, <1>7, <1>8

\* A crash forgets the locals; what is on disk still accounts for the Engine.
LEMMA CrashKeeps ==
    ASSUME LeaseInv, Crash
    PROVE  LeaseParts'
<1> USE DEF Crash, Step, Quiet, Goto, disk, world, told, vars, NoOp, OpType, Box, LeaseInv,
        LeaseParts, Early, AtWorker, Closing, Ending, Operating, Reconciling, Recovering
<1>q. UNCHANGED <<lock, head, journal>>
  OBVIOUS
<1> USE <1>q, QuietFacts, AppendPoints
<1>1. LockOK'
  BY DEF LockOK, Entry, Subject
<1>2. WorkerOK'
  BY DEF WorkerOK, LockOK, Entry, Subject
<1>3. SyncOK'
  BY DEF SyncOK, LockOK, Entry, Subject
<1>4. JournalOK'
  BY DEF JournalOK, LockOK, Entry, Subject
<1>5. BoxesOK'
  BY DEF BoxesOK, WorkerOK, LockOK, Entry, Subject
<1>6. SealedOK'
  BY DEF SealedOK, WorkerOK, SyncOK, LockOK, Entry, Subject
<1>7. EffectsOK'
  BY DEF EffectsOK, WorkerOK, EndOK, LockOK, Entry, Subject
<1>8. EndOK'
  BY DEF EndOK, BoxesOK, SealedOK, LockOK, Entry, Subject
<1> QED BY <1>1, <1>2, <1>3, <1>4, <1>5, <1>6, <1>7, <1>8

\* Recovery gives up and leaves everything to the next one.
LEMMA HaltKeeps ==
    ASSUME LeaseInv, Halt
    PROVE  LeaseParts'
<1> USE DEF Halt, Step, Quiet, Goto, disk, world, told, vars, NoOp, OpType, Box, LeaseInv,
        LeaseParts, Early, AtWorker, Closing, Ending, Operating, Reconciling, Recovering
<1>q. UNCHANGED <<lock, head, journal>>
  OBVIOUS
<1> USE <1>q, QuietFacts, AppendPoints
<1>1. LockOK'
  BY DEF LockOK
<1>2. WorkerOK'
  BY DEF WorkerOK, LockOK
<1>3. SyncOK'
  BY DEF SyncOK, LockOK
<1>4. JournalOK'
  BY DEF JournalOK, LockOK
<1>5. BoxesOK'
  BY DEF BoxesOK, WorkerOK, LockOK
<1>6. SealedOK'
  BY DEF SealedOK, WorkerOK, SyncOK, LockOK
<1>7. EffectsOK'
  BY DEF EffectsOK, WorkerOK, EndOK, LockOK
<1>8. EndOK'
  BY DEF EndOK, BoxesOK, SealedOK, LockOK
<1> QED BY <1>1, <1>2, <1>3, <1>4, <1>5, <1>6, <1>7, <1>8

\* Recovery deletes the container of the newest pending worker, the only one.
LEMMA RecoverDeleteKeeps ==
    ASSUME LeaseInv, RecoverDelete
    PROVE  LeaseParts'
<1> USE DEF RecoverDelete, Step, Quiet, Goto, disk, world, told, vars, NoOp, OpType, Box, LeaseInv,
        LeaseParts, Early, AtWorker, Closing, Ending, Operating, Reconciling, Recovering
<1>q. UNCHANGED <<lock, head, journal>>
  OBVIOUS
<1> USE <1>q, QuietFacts, AppendPoints
<1>1. LockOK'
  BY DEF LockOK
<1>2. WorkerOK'
  BY DEF WorkerOK, LockOK
<1>3. SyncOK'
  BY DEF SyncOK, LockOK
<1>4. JournalOK'
  BY DEF JournalOK, LockOK
<1>5. BoxesOK'
  BY DEF BoxesOK, WorkerOK, LockOK
<1>6. SealedOK'
  BY DEF SealedOK, WorkerOK, SyncOK, LockOK
<1>7. EffectsOK'
  BY DEF EffectsOK, WorkerOK, EndOK, LockOK
<1>8. EndOK'
  BY DEF EndOK, BoxesOK, SealedOK, LockOK
<1> QED BY <1>1, <1>2, <1>3, <1>4, <1>5, <1>6, <1>7, <1>8

\* Recovery removes the snapshot, or goes on because none is due and none is
\* there.
LEMMA RecoverSnapshotKeeps ==
    ASSUME LeaseInv, RecoverSnapshot
    PROVE  LeaseParts'
<1> USE DEF RecoverSnapshot, Step, Quiet, Goto, disk, world, told, vars, NoOp, OpType, Box, LeaseInv,
        LeaseParts, Early, AtWorker, Closing, Ending, Operating, Reconciling, Recovering
<1>q. UNCHANGED <<lock, head, journal>>
  OBVIOUS
<1> USE <1>q, QuietFacts, AppendPoints
<1>1. LockOK'
  BY DEF LockOK
<1>2. WorkerOK'
  BY DEF WorkerOK, LockOK
<1>3. SyncOK'
  BY DEF SyncOK, LockOK
<1>4. JournalOK'
  BY DEF JournalOK, LockOK
<1>5. BoxesOK'
  BY DEF BoxesOK, WorkerOK, LockOK
<1>6. SealedOK'
  <2>1. \/ pc' = "halt" /\ sealed' = sealed /\ op' = NoOp
        \/ pc' = "rUnsealed" /\ sealed' = sealed \ {lock} /\ op' = op
        \/ /\ pc' = "rSettle" /\ sealed' = sealed /\ op' = op
           /\ ~HasSnapshot /\ ~(op.intent /\ ~HasWorkers)
    OBVIOUS
  <2>2. pc = "rSnapshot"
    OBVIOUS
  <2>3. CASE pc' = "rSettle"
    <3>1. ASSUME NEW r \in sealed PROVE FALSE
      <4>1. ~(Kept("snapshot", 0) /\ ~Logged("unsnapshot", 0))
        BY <2>1, <2>2, <2>3, KeptLogged DEF HasSnapshot, LockOK
      <4>2. intent /\ \A i \in Nat : ~Logged("recorded", i)
        BY <3>1, <4>1 DEF SealedOK
      <4>3. op.intent /\ ~HasWorkers
        <5>1. op.intent = intent
          BY <2>2 DEF SealedOK
        <5>2. op.intent
          BY Zenon, <4>2, <5>1
        <5>3. lock # NoRequest
          BY <2>2 DEF LockOK
        <5> QED BY <4>2, <5>2, <5>3 DEF HasWorkers, Workers
      <4> QED BY <2>1, <2>3, <4>3
    <3>2. sealed = {} /\ sealed' = {} /\ op' = op /\ intent' = intent
      BY <2>1, <2>3, <3>1
    <3> QED BY <2>2, <2>3, <3>2 DEF SealedOK
  <2>4. CASE pc' # "rSettle"
    BY <2>1, <2>2, <2>4 DEF SealedOK
  <2> QED BY <2>3, <2>4
<1>7. EffectsOK'
  BY DEF EffectsOK, WorkerOK, EndOK, LockOK
<1>8. EndOK'
  BY DEF EndOK, BoxesOK, SealedOK, LockOK
<1> QED BY <1>1, <1>2, <1>3, <1>4, <1>5, <1>6, <1>7, <1>8

\* Recovery reaches the unlink only when no effect was attempted.
LEMMA RecoverSettleKeeps ==
    ASSUME LeaseInv, RecoverSettle
    PROVE  LeaseParts'
<1> USE DEF RecoverSettle, Step, Quiet, Goto, disk, world, told, vars, NoOp, OpType, Box, LeaseInv,
        LeaseParts, Early, AtWorker, Closing, Ending, Operating, Reconciling, Recovering
<1>q. UNCHANGED <<lock, head, journal>>
  OBVIOUS
<1> USE <1>q, QuietFacts, AppendPoints
<1>h. head \in Int /\ Len(journal) \in Nat
  BY DEF TypeOK
<1>1. LockOK'
  BY DEF LockOK
<1>2. WorkerOK'
  <2>1. pc' \in {"rRemote", "rLocal", "rUnlink"} /\ (pc' # "rUnlink" => op'.worker \in Workers)
    <3>1. ASSUME NEW k, Attempted(k) # {} PROVE Newest(Attempted(k)) \in Workers
      <4>1. lock # NoRequest /\ Attempted(k) \subseteq Workers
        BY DEF LockOK, Attempted
      <4> QED BY <3>1, <4>1, NewestWorker
    <3> QED BY <3>1
  <2> QED BY <2>1 DEF WorkerOK
<1>3. SyncOK'
  BY DEF SyncOK, LockOK
<1>4. JournalOK'
  BY DEF JournalOK, LockOK
<1>5. BoxesOK'
  BY DEF BoxesOK, WorkerOK, LockOK
<1>6. SealedOK'
  BY DEF SealedOK, WorkerOK, SyncOK, LockOK
<1>7. EffectsOK'
  <2>1. pc' = "rUnlink" => Attempted("remote") = {} /\ Attempted("local") = {}
    OBVIOUS
  <2>2. /\ effects' = effects /\ settled' = settled /\ timedOut' = timedOut /\ pc' # "start"
    OBVIOUS
  <2>3. ASSUME NEW b \in effects, b[1] = lock
        PROVE  Attempted("remote") # {} \/ Attempted("local") # {}
    <3>1. /\ b[2] \in 1 .. Len(Plan[lock]) /\ Plan[lock][b[2]] \in {"local", "remote"}
          /\ Kept("attempted", b[2])
      BY <2>3 DEF EffectsOK
    <3>2. Logged("attempted", b[2])
      BY <3>1, <1>h DEF JournalOK, Kept, Durable, Logged, Entries
    <3> QED BY <3>1, <3>2 DEF Attempted, Kind, Workers
  <2> QED BY <2>1, <2>2, <2>3 DEF EffectsOK
<1>8. EndOK'
  BY DEF EndOK, BoxesOK, SealedOK, LockOK
<1> QED BY <1>1, <1>2, <1>3, <1>4, <1>5, <1>6, <1>7, <1>8

\* Time passes.
LEMMA TickKeeps ==
    ASSUME LeaseInv, Tick
    PROVE  LeaseParts'
<1> USE DEF Tick, Step, Quiet, Goto, disk, world, told, vars, NoOp, OpType, Box, LeaseInv,
        LeaseParts, Early, AtWorker, Closing, Ending, Operating, Reconciling, Recovering
<1>q. UNCHANGED <<lock, head, journal>>
  OBVIOUS
<1> USE <1>q, QuietFacts, AppendPoints
<1>1. LockOK'
  BY DEF LockOK, Entry, Subject
<1>2. WorkerOK'
  BY DEF WorkerOK, LockOK, Entry, Subject
<1>3. SyncOK'
  BY DEF SyncOK, LockOK, Entry, Subject
<1>4. JournalOK'
  BY DEF JournalOK, LockOK, Entry, Subject
<1>5. BoxesOK'
  BY DEF BoxesOK, WorkerOK, LockOK, Entry, Subject
<1>6. SealedOK'
  BY DEF SealedOK, WorkerOK, SyncOK, LockOK, Entry, Subject
<1>7. EffectsOK'
  BY DEF EffectsOK, WorkerOK, EndOK, LockOK, Entry, Subject
<1>8. EndOK'
  BY DEF EndOK, BoxesOK, SealedOK, LockOK, Entry, Subject
<1> QED BY <1>1, <1>2, <1>3, <1>4, <1>5, <1>6, <1>7, <1>8

\* A failed Engine call may have taken effect, under the entry it was made
\* under.
LEMMA CallFailsKeeps ==
    ASSUME LeaseInv, CallFails
    PROVE  LeaseParts'
<1> USE DEF CallFails, Step, Quiet, Goto, disk, world, told, vars, NoOp, OpType, Box, LeaseInv,
        LeaseParts, Early, AtWorker, Closing, Ending, Operating, Reconciling, Recovering
<1>q. UNCHANGED <<lock, head, journal>>
  OBVIOUS
<1> USE <1>q, QuietFacts, AppendPoints
<1>d. /\ pc \in {"phase", "intent", "seal", "create", "inspect", "start", "wait"}
      /\ boxes' \subseteq boxes \cup (IF pc = "create" THEN {Box(op.worker)} ELSE {})
      /\ effects' \subseteq effects \cup (IF pc = "start" /\ NonIdempotent(op.worker) THEN {Box(op.worker)} ELSE {})
      /\ sealed' \subseteq sealed \cup (IF pc = "seal" THEN {lock} ELSE {})
      /\ \/ /\ pc \in {"create", "inspect", "start", "wait"} /\ pc' = "cleanup"
            /\ op' = [op EXCEPT !.failed = TRUE]
         \/ /\ pc \in {"phase", "intent", "seal"} /\ pc' = "unwind"
            /\ op' = [op EXCEPT !.failed = TRUE]
  BY Zenon, RaiseFacts DEF Ran
<1>e. intent' \in BOOLEAN /\ (intent => intent') /\ (pc # "intent" => (intent' <=> intent))
  <2>1. intent \in BOOLEAN
    BY DEF TypeOK
  <2>2. intent' \in {intent, intent \/ pc = "intent"}
    OBVIOUS
  <2> QED BY <2>1, <2>2, Zenon
<1>g. pc = "seal" => head = 0 /\ \A i \in Nat : ~Logged("recorded", i)
  <2>1. pc = "seal" => journal = <<>> /\ head = 0
    BY DEF WorkerOK, SyncOK
  <2> QED BY <2>1 DEF Logged, Entries
<1>1. LockOK'
  <2>1. CASE pc' = "cleanup"
    BY <1>e, <1>g, <2>1, <1>d DEF LockOK, Kind, NonIdempotent, Workers
  <2>2. CASE pc' = "unwind"
    BY <1>e, <1>g, <2>2, <1>d DEF LockOK, Kind, NonIdempotent, Workers
  <2> QED BY <1>d, <2>1, <2>2
<1>2. WorkerOK'
  <2>1. CASE pc' = "cleanup"
    BY <1>e, <1>g, <2>1, <1>d DEF WorkerOK, LockOK, Kind, NonIdempotent, Workers
  <2>2. CASE pc' = "unwind"
    BY <1>e, <1>g, <2>2, <1>d DEF WorkerOK, LockOK, Kind, NonIdempotent, Workers
  <2> QED BY <1>d, <2>1, <2>2
<1>3. SyncOK'
  <2>1. CASE pc' = "cleanup"
    BY <1>e, <1>g, <2>1, <1>d DEF SyncOK, LockOK, Kind, NonIdempotent, Workers
  <2>2. CASE pc' = "unwind"
    BY <1>e, <1>g, <2>2, <1>d DEF SyncOK, LockOK, Kind, NonIdempotent, Workers
  <2> QED BY <1>d, <2>1, <2>2
<1>4. JournalOK'
  <2>1. CASE pc' = "cleanup"
    BY <1>e, <1>g, <2>1, <1>d DEF JournalOK, LockOK, Kind, NonIdempotent, Workers
  <2>2. CASE pc' = "unwind"
    BY <1>e, <1>g, <2>2, <1>d DEF JournalOK, LockOK, Kind, NonIdempotent, Workers
  <2> QED BY <1>d, <2>1, <2>2
<1>5. BoxesOK'
  <2>1. CASE pc' = "cleanup"
    BY <1>e, <1>g, <2>1, <1>d DEF BoxesOK, WorkerOK, LockOK, Kind, NonIdempotent, Workers
  <2>2. CASE pc' = "unwind"
    BY <1>e, <1>g, <2>2, <1>d DEF BoxesOK, WorkerOK, LockOK, Kind, NonIdempotent, Workers
  <2> QED BY <1>d, <2>1, <2>2
<1>6. SealedOK'
  <2>1. CASE pc' = "cleanup"
    BY <1>e, <1>g, <2>1, <1>d DEF SealedOK, WorkerOK, SyncOK, LockOK, Kind, NonIdempotent,
       Workers
  <2>2. CASE pc' = "unwind"
    BY <1>e, <1>g, <2>2, <1>d DEF SealedOK, WorkerOK, SyncOK, LockOK, Kind, NonIdempotent,
       Workers
  <2> QED BY <1>d, <2>1, <2>2
<1>7. EffectsOK'
  <2>1. CASE pc' = "cleanup"
    BY <1>e, <1>g, <2>1, <1>d DEF EffectsOK, WorkerOK, EndOK, LockOK, Kind, NonIdempotent,
       Workers
  <2>2. CASE pc' = "unwind"
    BY <1>e, <1>g, <2>2, <1>d DEF EffectsOK, WorkerOK, EndOK, LockOK, Kind, NonIdempotent,
       Workers
  <2> QED BY <1>d, <2>1, <2>2
<1>8. EndOK'
  <2>1. CASE pc' = "cleanup"
    BY <1>e, <1>g, <2>1, <1>d DEF EndOK, BoxesOK, SealedOK, LockOK, Kind, NonIdempotent, Workers
  <2>2. CASE pc' = "unwind"
    BY <1>e, <1>g, <2>2, <1>d DEF EndOK, BoxesOK, SealedOK, LockOK, Kind, NonIdempotent, Workers
  <2> QED BY <1>d, <2>1, <2>2
<1> QED BY <1>1, <1>2, <1>3, <1>4, <1>5, <1>6, <1>7, <1>8

\* A failed cleanup preserves the lease, whether the container is gone or not.
LEMMA CleanupFailsKeeps ==
    ASSUME LeaseInv, CleanupFails
    PROVE  LeaseParts'
<1> USE DEF CleanupFails, Step, Quiet, Goto, disk, world, told, vars, NoOp, OpType, Box, LeaseInv,
        LeaseParts, Early, AtWorker, Closing, Ending, Operating, Reconciling, Recovering
<1>q. UNCHANGED <<lock, head, journal>>
  OBVIOUS
<1> USE <1>q, QuietFacts, AppendPoints
<1>d. /\ boxes' \subseteq boxes
      /\ \/ /\ pc \in {"cleanup", "erase"} /\ pc' = "unwind"
            /\ op' = [op EXCEPT !.failed = TRUE, !.preserve = TRUE]
         \/ pc = "rDelete" /\ pc' = "halt" /\ op' = NoOp
  <2>1. boxes' \subseteq boxes /\ pc \in {"cleanup", "erase", "rDelete"} /\ Raise(pc, op)
    OBVIOUS
  <2>2. pc = "rDelete" => pc \in Recovering
    OBVIOUS
  <2> HIDE DEF OpType, NoOp, LeaseInv, CleanupFails, Goto
  <2>3. op \in OpType
    OBVIOUS
  <2> QED BY Zenon, <2>1, <2>2, <2>3, RaiseFacts
<1>1. LockOK'
  BY <1>d DEF LockOK
<1>2. WorkerOK'
  BY Zenon, <1>d DEF WorkerOK, LockOK
<1>3. SyncOK'
  <2>1. CASE /\ pc \in {"cleanup", "erase"} /\ pc' = "unwind"
            /\ op' = [op EXCEPT !.failed = TRUE, !.preserve = TRUE]
    BY <2>1, <1>d DEF SyncOK, LockOK
  <2>2. CASE pc' = "halt"
    BY <2>2, <1>d DEF SyncOK, LockOK
  <2> QED BY <1>d, <2>1, <2>2
<1>4. JournalOK'
  BY <1>d DEF JournalOK, LockOK
<1>5. BoxesOK'
  <2>1. CASE /\ pc \in {"cleanup", "erase"} /\ pc' = "unwind"
            /\ op' = [op EXCEPT !.failed = TRUE, !.preserve = TRUE]
    BY <2>1, <1>d DEF BoxesOK, WorkerOK, LockOK
  <2>2. CASE pc' = "halt"
    BY <2>2, <1>d DEF BoxesOK, WorkerOK, LockOK
  <2> QED BY <1>d, <2>1, <2>2
<1>6. SealedOK'
  <2>1. CASE /\ pc \in {"cleanup", "erase"} /\ pc' = "unwind"
            /\ op' = [op EXCEPT !.failed = TRUE, !.preserve = TRUE]
    BY <2>1, <1>d DEF SealedOK, WorkerOK, SyncOK, LockOK
  <2>2. CASE pc' = "halt"
    BY <2>2, <1>d DEF SealedOK, WorkerOK, SyncOK, LockOK
  <2> QED BY <1>d, <2>1, <2>2
<1>7. EffectsOK'
  BY <1>d DEF EffectsOK, WorkerOK, EndOK, LockOK
<1>8. EndOK'
  <2>1. CASE /\ pc \in {"cleanup", "erase"} /\ pc' = "unwind"
            /\ op' = [op EXCEPT !.failed = TRUE, !.preserve = TRUE]
    BY <2>1, <1>d DEF EndOK, BoxesOK, SealedOK, LockOK
  <2>2. CASE pc' = "halt"
    BY <2>2, <1>d DEF EndOK, BoxesOK, SealedOK, LockOK
  <2> QED BY <1>d, <2>1, <2>2
<1> QED BY <1>1, <1>2, <1>3, <1>4, <1>5, <1>6, <1>7, <1>8

\* A failed removal of the snapshot leaves the lease preserved.
LEMMA UnwindFailsKeeps ==
    ASSUME LeaseInv, UnwindFails
    PROVE  LeaseParts'
<1> USE DEF UnwindFails, Step, Quiet, Goto, disk, world, told, vars, NoOp, OpType, Box, LeaseInv,
        LeaseParts, Early, AtWorker, Closing, Ending, Operating, Reconciling, Recovering
<1>q. UNCHANGED <<lock, head, journal>>
  OBVIOUS
<1> USE <1>q, QuietFacts, AppendPoints
<1>1. LockOK'
  BY DEF LockOK
<1>2. WorkerOK'
  BY DEF WorkerOK, LockOK
<1>3. SyncOK'
  BY DEF SyncOK, LockOK
<1>4. JournalOK'
  BY DEF JournalOK, LockOK
<1>5. BoxesOK'
  BY DEF BoxesOK, WorkerOK, LockOK
<1>6. SealedOK'
  BY DEF SealedOK, WorkerOK, SyncOK, LockOK
<1>7. EffectsOK'
  BY DEF EffectsOK, WorkerOK, EndOK, LockOK
<1>8. EndOK'
  BY DEF EndOK, BoxesOK, SealedOK, LockOK
<1> QED BY <1>1, <1>2, <1>3, <1>4, <1>5, <1>6, <1>7, <1>8

\* A rejected entry goes where its exception is caught.
LEMMA AppendRejectedKeeps ==
    ASSUME LeaseInv, AppendRejected
    PROVE  LeaseParts'
<1> USE DEF AppendRejected, Step, Quiet, Goto, disk, world, told, vars, NoOp, OpType, Box, LeaseInv,
        LeaseParts, Early, AtWorker, Closing, Ending, Operating, Reconciling, Recovering
<1>q. UNCHANGED <<lock, head, journal>>
  OBVIOUS
<1> USE <1>q, QuietFacts, AppendPoints
<1>d. /\ pc \in Appends /\ ~op.written
      /\ \/ /\ pc \in {"created", "attempt", "started", "result"} /\ pc' = "cleanup"
            /\ op' = [op EXCEPT !.failed = TRUE]
         \/ pc \in {"sealed", "record"} /\ pc' = "unwind" /\ op' = [op EXCEPT !.failed = TRUE]
         \/ pc = "record" /\ pc' = "unwind" /\ op' = [op EXCEPT !.failed = TRUE, !.preserve = TRUE]
         \/ /\ pc \in {"found", "deleted", "remote"} /\ pc' = "unwind"
            /\ op' = [op EXCEPT !.failed = TRUE, !.preserve = TRUE]
         \/ pc = "finish" /\ pc' = "salvage" /\ op' = op
         \/ pc' \in {"halt", "idle"} /\ op' = NoOp
  BY ZenonT(60), RaiseFacts
<1>1. LockOK'
  BY <1>d DEF LockOK
<1>2. WorkerOK'
  BY Zenon, <1>d DEF WorkerOK, LockOK
<1>3. SyncOK'
  BY ZenonT(60), <1>d DEF SyncOK, LockOK
<1>4. JournalOK'
  BY <1>d DEF JournalOK, LockOK
<1>5. BoxesOK'
  <2>1. CASE pc' = "cleanup"
    BY <2>1, <1>d DEF BoxesOK, WorkerOK, LockOK
  <2>2. CASE /\ pc \in {"sealed", "record"} /\ pc' = "unwind"
            /\ op' = [op EXCEPT !.failed = TRUE]
    BY <2>2, <1>d DEF BoxesOK, WorkerOK, LockOK
  <2>3. CASE /\ pc = "record" /\ pc' = "unwind"
            /\ op' = [op EXCEPT !.failed = TRUE, !.preserve = TRUE]
    BY <2>3, <1>d DEF BoxesOK, WorkerOK, LockOK
  <2>4. CASE /\ pc \in {"found", "deleted", "remote"} /\ pc' = "unwind"
            /\ op' = [op EXCEPT !.failed = TRUE, !.preserve = TRUE]
    BY <2>4, <1>d DEF BoxesOK, WorkerOK, LockOK
  <2>5. CASE pc' = "salvage"
    BY <2>5, <1>d DEF BoxesOK, WorkerOK, LockOK
  <2>6. CASE pc' \in {"halt", "idle"}
    BY <2>6, <1>d DEF BoxesOK, WorkerOK, LockOK
  <2> QED BY <1>d, <2>1, <2>2, <2>3, <2>4, <2>5, <2>6
<1>6. SealedOK'
  <2>1. CASE pc' = "cleanup"
    BY <2>1, <1>d DEF SealedOK, WorkerOK, SyncOK, LockOK
  <2>2. CASE /\ pc \in {"sealed", "record"} /\ pc' = "unwind"
            /\ op' = [op EXCEPT !.failed = TRUE]
    BY <2>2, <1>d DEF SealedOK, WorkerOK, SyncOK, LockOK
  <2>3. CASE /\ pc = "record" /\ pc' = "unwind"
            /\ op' = [op EXCEPT !.failed = TRUE, !.preserve = TRUE]
    BY <2>3, <1>d DEF SealedOK, WorkerOK, SyncOK, LockOK
  <2>4. CASE /\ pc \in {"found", "deleted", "remote"} /\ pc' = "unwind"
            /\ op' = [op EXCEPT !.failed = TRUE, !.preserve = TRUE]
    BY <2>4, <1>d DEF SealedOK, WorkerOK, SyncOK, LockOK
  <2>5. CASE pc' = "salvage"
    BY <2>5, <1>d DEF SealedOK, WorkerOK, SyncOK, LockOK
  <2>6. CASE pc' \in {"halt", "idle"}
    <3>1. UNCHANGED <<sealed, intent, head>> /\ LeaseParts
      OBVIOUS
    <3> HIDE DEF AppendRejected, OpType, NoOp, LeaseInv
    <3> QED BY <2>6, <3>1 DEF SealedOK
  <2> QED BY <1>d, <2>1, <2>2, <2>3, <2>4, <2>5, <2>6
<1>7. EffectsOK'
  BY <1>d DEF EffectsOK, WorkerOK, EndOK, LockOK
<1>8. EndOK'
  <2>1. CASE pc' = "cleanup"
    BY <2>1, <1>d DEF EndOK, BoxesOK, SealedOK, LockOK
  <2>2. CASE /\ pc \in {"sealed", "record"} /\ pc' = "unwind"
            /\ op' = [op EXCEPT !.failed = TRUE]
    BY <2>2, <1>d DEF EndOK, BoxesOK, SealedOK, LockOK
  <2>3. CASE /\ pc = "record" /\ pc' = "unwind"
            /\ op' = [op EXCEPT !.failed = TRUE, !.preserve = TRUE]
    BY <2>3, <1>d DEF EndOK, BoxesOK, SealedOK, LockOK
  <2>4. CASE /\ pc \in {"found", "deleted", "remote"} /\ pc' = "unwind"
            /\ op' = [op EXCEPT !.failed = TRUE, !.preserve = TRUE]
    BY <2>4, <1>d DEF EndOK, BoxesOK, SealedOK, LockOK
  <2>5. CASE pc' = "salvage"
    BY <2>5, <1>d DEF EndOK, BoxesOK, SealedOK, LockOK
  <2>6. CASE pc' \in {"halt", "idle"}
    BY <2>6, <1>d DEF EndOK, BoxesOK, SealedOK, LockOK
  <2> QED BY <1>d, <2>1, <2>2, <2>3, <2>4, <2>5, <2>6
<1> QED BY <1>1, <1>2, <1>3, <1>4, <1>5, <1>6, <1>7, <1>8

\* Where recovery goes, and what it finds there.
LEMMA RestartGoes ==
    ASSUME LeaseInv, Restart
    PROVE  /\ op' \in OpType
           /\ \/ lock = NoRequest /\ pc' = "idle" /\ op' = NoOp
              \/ /\ pc' = "rUndeliver" /\ lock # NoRequest /\ head = Len(journal) /\ head # 0
                 /\ op'.count = head /\ ~op'.written /\ ~op'.preserve /\ op'.intent = intent
              \/ /\ pc' = "rUnlink" /\ lock # NoRequest /\ head = Len(journal) /\ boxes = {}
                 /\ sealed = {}
                 /\ Last = "completed" \/ (Open /\ \A b \in effects : b[1] # lock)
                 /\ op'.count = head /\ ~op'.written /\ ~op'.preserve /\ op'.intent = intent
              \/ /\ pc' = "rDelete" /\ lock # NoRequest /\ head = Len(journal) /\ Open
                 /\ op'.worker \in Workers /\ boxes \subseteq {Box(op'.worker)}
                 /\ ~(\A i \in Nat : ~Logged("recorded", i))
                 /\ op'.count = head /\ ~op'.written /\ ~op'.preserve /\ op'.intent = intent
              \/ /\ pc' = "rSnapshot" /\ lock # NoRequest /\ head = Len(journal) /\ Open
                 /\ boxes = {}
                 /\ op'.count = head /\ ~op'.written /\ ~op'.preserve /\ op'.intent = intent
<1>1. CASE lock = NoRequest
  <2>1. pc' = "idle" /\ op' = NoOp
    BY <1>1 DEF Restart, Goto
  <2>2. NoOp \in OpType
    BY DEF NoOp, OpType
  <2> QED BY <1>1, <2>1, <2>2
<1>2. CASE lock # NoRequest
  <2> DEFINE w == IF Pending = {} THEN 0 ELSE Newest(Pending)
  <2>1. /\ head = Len(journal) /\ Last \notin Manual /\ pc' = RecoveryEntry
        /\ op' = [NoOp EXCEPT !.count = head, !.intent = intent, !.worker = w]
    BY <1>2 DEF Restart, Goto
  <2>2. /\ Pending # {} => Newest(Pending) \in Workers /\ boxes \subseteq {Box(Newest(Pending))}
        /\ \A b \in boxes : b[2] \in Pending /\ b = Box(b[2])
        /\ journal = <<>> => /\ boxes = {} /\ Last = "none" /\ Open
                             /\ \A b \in effects : b[1] # lock
                             /\ ~intent => sealed = {}
        /\ Last \notin Terminal => Open
    BY <1>2, <2>1, RestartFinds
  <2>3. w \in Nat /\ head \in Nat /\ intent \in BOOLEAN
    BY <2>1, <2>2 DEF LeaseInv, LeaseParts, TypeOK, Workers
  <2> HIDE DEF w
  <2>4. /\ op'.count = head /\ ~op'.written /\ ~op'.preserve /\ op'.intent = intent
        /\ op'.worker = w
        /\ op' \in OpType
    BY Zenon, <2>1, <2>3 DEF NoOp, OpType
  <2>5. CASE pc' = "rUndeliver"
    <3>1. Last = "finished"
      BY <2>1, <2>5 DEF RecoveryEntry
    <3>2. journal # <<>>
      BY <2>2, <3>1
    <3>3. Len(journal) # 0
      BY <3>2 DEF LeaseInv, LeaseParts, TypeOK
    <3> QED BY <1>2, <2>1, <2>4, <2>5, <3>3
  <2>6. CASE pc' = "rUnlink"
    <3>1. Last = "completed" \/ (journal = <<>> /\ ~intent)
      BY <2>1, <2>6 DEF RecoveryEntry
    <3>2. Last = "completed" => boxes = {} /\ sealed = {}
      BY <1>2 DEF LeaseInv, LeaseParts, EndOK
    <3>3. CASE Last = "completed"
      BY <1>2, <2>1, <2>4, <2>6, <3>2, <3>3
    <3>4. CASE journal = <<>> /\ ~intent
      <4>1. boxes = {} /\ Open /\ sealed = {} /\ \A b \in effects : b[1] # lock
        BY <2>2, <3>4, Zenon
      <4> QED BY <1>2, <2>1, <2>4, <2>6, <4>1
    <3> QED BY <3>1, <3>3, <3>4
  <2>7. CASE pc' = "rDelete"
    <3>1. Last # "completed" /\ \E i \in Pending : Box(i) \in boxes
      BY <2>1, <2>7 DEF RecoveryEntry
    <3>2. \A i \in Pending : i \in Nat /\ Logged("recorded", i)
      BY DEF Pending, Workers
    <3> QED BY <1>2, <2>1, <2>2, <2>4, <2>7, <3>1, <3>2 DEF Manual, Terminal, w
  <2>8. CASE pc' = "rSnapshot"
    <3>1. Last # "completed" /\ \A i \in Pending : Box(i) \notin boxes
      BY <2>1, <2>8 DEF RecoveryEntry
    <3>2. boxes = {}
      BY <2>2, <3>1
    <3> QED BY <1>2, <2>1, <2>2, <2>4, <2>8, <3>1, <3>2 DEF Manual, Terminal
  <2> QED BY <2>1, <2>5, <2>6, <2>7, <2>8 DEF RecoveryEntry
<1> QED BY <1>1, <1>2

\* A restarted broker goes where the journal and the Engine lead it.
LEMMA RestartKeeps ==
    ASSUME LeaseInv, Restart
    PROVE  LeaseParts'
<1> USE DEF Early, AtWorker, Closing, Ending, Operating, Reconciling, Recovering,
        Box, LeaseInv, LeaseParts
<1>q. /\ UNCHANGED <<lock, head, intent, journal, boxes, sealed, effects, ran, settled, timedOut>>
      /\ Len(journal) \in Nat /\ head \in Int
  BY DEF Restart, disk, world, told, TypeOK
<1>d. /\ op' \in OpType
      /\ \/ lock = NoRequest /\ pc' = "idle" /\ op' = NoOp
         \/ /\ pc' = "rUndeliver" /\ lock # NoRequest /\ head = Len(journal) /\ head # 0
            /\ op'.count = head /\ ~op'.written /\ ~op'.preserve /\ op'.intent = intent
         \/ /\ pc' = "rUnlink" /\ lock # NoRequest /\ head = Len(journal) /\ boxes = {}
            /\ sealed = {}
            /\ Last = "completed" \/ (Open /\ \A b \in effects : b[1] # lock)
            /\ op'.count = head /\ ~op'.written /\ ~op'.preserve /\ op'.intent = intent
         \/ /\ pc' = "rDelete" /\ lock # NoRequest /\ head = Len(journal) /\ Open
            /\ op'.worker \in Workers /\ boxes \subseteq {Box(op'.worker)}
            /\ ~(\A i \in Nat : ~Logged("recorded", i))
            /\ op'.count = head /\ ~op'.written /\ ~op'.preserve /\ op'.intent = intent
         \/ /\ pc' = "rSnapshot" /\ lock # NoRequest /\ head = Len(journal) /\ Open /\ boxes = {}
            /\ op'.count = head /\ ~op'.written /\ ~op'.preserve /\ op'.intent = intent
  BY RestartGoes
<1> USE <1>q, QuietFacts, AppendPoints
<1>1. LockOK'
  BY <1>d DEF LockOK
<1>2. WorkerOK'
  <2>1. CASE pc' = "idle"
    BY <1>d, <2>1 DEF NoOp, WorkerOK, LockOK
  <2>2. CASE pc' = "rUndeliver"
    BY <1>d, <2>2 DEF NoOp, WorkerOK, LockOK
  <2>3. CASE pc' = "rUnlink"
    BY <1>d, <2>3 DEF NoOp, WorkerOK, LockOK
  <2>4. CASE pc' = "rDelete"
    BY <1>d, <2>4 DEF NoOp, WorkerOK, LockOK
  <2>5. CASE pc' = "rSnapshot"
    BY <1>d, <2>5 DEF NoOp, WorkerOK, LockOK
  <2> QED BY <1>d, <2>1, <2>2, <2>3, <2>4, <2>5
<1>3. SyncOK'
  <2>1. CASE pc' = "idle"
    BY <1>d, <2>1 DEF NoOp, SyncOK, LockOK
  <2>2. CASE pc' = "rUndeliver"
    BY <1>d, <2>2 DEF NoOp, SyncOK, LockOK
  <2>3. CASE pc' = "rUnlink"
    BY <1>d, <2>3 DEF NoOp, SyncOK, LockOK
  <2>4. CASE pc' = "rDelete"
    BY <1>d, <2>4 DEF NoOp, SyncOK, LockOK
  <2>5. CASE pc' = "rSnapshot"
    BY <1>d, <2>5 DEF NoOp, SyncOK, LockOK
  <2> QED BY <1>d, <2>1, <2>2, <2>3, <2>4, <2>5
<1>4. JournalOK'
  BY <1>d DEF JournalOK, LockOK
<1>5. BoxesOK'
  <2>1. CASE pc' = "idle"
    BY <1>d, <2>1 DEF NoOp, BoxesOK, WorkerOK, LockOK
  <2>2. CASE pc' = "rUndeliver"
    BY <1>d, <2>2 DEF NoOp, BoxesOK, WorkerOK, LockOK
  <2>3. CASE pc' = "rUnlink"
    BY <1>d, <2>3 DEF NoOp, BoxesOK, WorkerOK, LockOK
  <2>4. CASE pc' = "rDelete"
    BY <1>d, <2>4 DEF NoOp, BoxesOK, WorkerOK, LockOK
  <2>5. CASE pc' = "rSnapshot"
    BY <1>d, <2>5 DEF NoOp, BoxesOK, WorkerOK, LockOK
  <2> QED BY <1>d, <2>1, <2>2, <2>3, <2>4, <2>5
<1>6. SealedOK'
  <2>1. CASE pc' = "idle"
    BY <1>d, <2>1 DEF NoOp, SealedOK, WorkerOK, SyncOK, LockOK
  <2>2. CASE pc' = "rUndeliver"
    BY <1>d, <2>2 DEF NoOp, SealedOK, WorkerOK, SyncOK, LockOK
  <2>3. CASE pc' = "rUnlink"
    BY <1>d, <2>3 DEF NoOp, SealedOK, WorkerOK, SyncOK, LockOK
  <2>4. CASE pc' = "rDelete"
    BY <1>d, <2>4 DEF NoOp, SealedOK, WorkerOK, SyncOK, LockOK
  <2>5. CASE pc' = "rSnapshot"
    BY <1>d, <2>5 DEF NoOp, SealedOK, WorkerOK, SyncOK, LockOK
  <2> QED BY <1>d, <2>1, <2>2, <2>3, <2>4, <2>5
<1>7. EffectsOK'
  <2>1. CASE pc' = "idle"
    BY <1>d, <2>1 DEF NoOp, EffectsOK, WorkerOK, EndOK, LockOK
  <2>2. CASE pc' = "rUndeliver"
    BY <1>d, <2>2 DEF NoOp, EffectsOK, WorkerOK, EndOK, LockOK
  <2>3. CASE pc' = "rUnlink"
    BY <1>d, <2>3 DEF NoOp, EffectsOK, WorkerOK, EndOK, LockOK
  <2>4. CASE pc' = "rDelete"
    BY <1>d, <2>4 DEF NoOp, EffectsOK, WorkerOK, EndOK, LockOK
  <2>5. CASE pc' = "rSnapshot"
    BY <1>d, <2>5 DEF NoOp, EffectsOK, WorkerOK, EndOK, LockOK
  <2> QED BY <1>d, <2>1, <2>2, <2>3, <2>4, <2>5
<1>8. EndOK'
  <2>1. CASE pc' = "idle"
    BY <1>d, <2>1 DEF NoOp, EndOK, BoxesOK, SealedOK, LockOK
  <2>2. CASE pc' = "rUndeliver"
    BY <1>d, <2>2 DEF NoOp, EndOK, BoxesOK, SealedOK, LockOK
  <2>3. CASE pc' = "rUnlink"
    BY <1>d, <2>3 DEF NoOp, EndOK, BoxesOK, SealedOK, LockOK
  <2>4. CASE pc' = "rDelete"
    BY <1>d, <2>4 DEF NoOp, EndOK, BoxesOK, SealedOK, LockOK
  <2>5. CASE pc' = "rSnapshot"
    BY <1>d, <2>5 DEF NoOp, EndOK, BoxesOK, SealedOK, LockOK
  <2> QED BY <1>d, <2>1, <2>2, <2>3, <2>4, <2>5
<1> QED BY <1>1, <1>2, <1>3, <1>4, <1>5, <1>6, <1>7, <1>8

\* The entry file is written: the journal is one ahead of its head.
LEMMA WriteEntryKeeps ==
    ASSUME LeaseInv, WriteEntry
    PROVE  LeaseParts'
<1>b. /\ pc \in Appends /\ ~op.written /\ Accepted(pc) /\ lock' = lock /\ head' = head
      /\ intent' = intent
      /\ journal' = Append(journal, Entry(pc)) /\ op' = [op EXCEPT !.written = TRUE] /\ pc' = pc
      /\ UNCHANGED <<boxes, sealed, effects, ran, settled, timedOut>>
  BY DEF WriteEntry, world, told
<1>c. /\ Len(journal') = Len(journal) + 1 /\ journal'[Len(journal) + 1] = Entry(pc)
      /\ \A n \in 1 .. Len(journal) : journal'[n] = journal[n]
      /\ \A e, i : (Logged(e, i))' <=> Logged(e, i) \/ Entry(pc) = <<e, i>>
      /\ \A e, i : (Kept(e, i))' <=> Kept(e, i)
      /\ Last' = EventAt[pc] /\ Workers' = Workers
  BY <1>b, Appended
<1>d. /\ Open /\ head = op.count /\ Len(journal) = op.count
      /\ Progresses(EventAt[pc], Subject(pc))
  BY <1>b, AcceptedFacts
<1>e. /\ lock # NoRequest /\ Entry(pc) = <<EventAt[pc], Subject(pc)>>
      /\ EventAt[pc] \in Events /\ Subject(pc) \in 0 .. Len(Plan[lock])
  BY <1>b, EntryTyped
<1>f. op \in OpType /\ head \in Int /\ Len(journal) \in Nat /\ Len(Plan[lock]) \in Nat
  BY <1>e, LeaseAssumption DEF LeaseInv, LeaseParts, TypeOK
<1>g. /\ op'.worker = op.worker /\ op'.attempt = op.attempt /\ op'.count = op.count /\ op'.written
      /\ op'.failed = op.failed /\ op'.preserve = op.preserve /\ op'.started = op.started
      /\ op'.snapshot = op.snapshot /\ op'.abandoned = op.abandoned /\ op'.intent = op.intent
  BY <1>b, <1>f DEF OpType
<1>h. pc \in {"sealed", "record", "created", "found", "attempt", "started", "result", "deleted",
              "remote", "unsealed", "local", "finish", "complete", "undeliver", "salvage",
              "rDeleted", "rUnsealed", "rRemote", "rLocal", "rUndeliver"}
  BY <1>b, AppendPoints
<1>i. (Entry(pc))' = Entry(pc)
  BY <1>b, <1>g DEF Entry, Subject
<1>j. EventAt[pc] = "completed" => pc = "complete"
  BY <1>h DEF EventAt
<1>k. EventAt[pc] \in Terminal => pc \in {"remote", "rRemote", "local", "rLocal", "complete",
                                        "undeliver", "salvage", "rUndeliver"}
  BY <1>h DEF EventAt, Terminal
<1> USE <1>b, <1>c, <1>d, <1>e, <1>f, <1>g, <1>h, <1>i, <1>j, <1>k
        DEF Early, AtWorker, Closing, Ending, Operating, Reconciling, Recovering,
        NoOp, Box, LeaseInv, LeaseParts
<1>1. LockOK'
  BY EntryFacts DEF LockOK, Terminal
<1>2. WorkerOK'
  BY EntryFacts DEF WorkerOK, LockOK, Terminal
<1>3. SyncOK'
  BY EntryFacts DEF SyncOK, LockOK, Terminal
<1>4. JournalOK'
  <2>1. head' =< Len(journal')
    OBVIOUS
  <2>2. ASSUME NEW n \in 1 .. Len(journal')
        PROVE  journal'[n][2] =< Len(Plan[lock]) /\ (n < Len(journal') => journal'[n][1] \notin Terminal)
    <3>1. CASE n = Len(journal) + 1
      BY <3>1
    <3>2. CASE n # Len(journal) + 1
      <4>1. n \in 1 .. Len(journal) /\ journal'[n] = journal[n]
        BY <2>2, <3>2
      <4>2. journal[n] \in Events \X Nat
        BY <4>1 DEF TypeOK
      <4>3. Logged(journal[n][1], journal[n][2])
        BY <4>1, <4>2, EntryIsLogged
      <4>4. journal[n][2] =< Len(Plan[lock])
        BY <4>1 DEF JournalOK
      <4> QED BY Zenon, <4>1, <4>2, <4>3, <4>4 DEF Open
    <3> QED BY <3>1, <3>2
  <2>3. ASSUME NEW i \in Nat, (Logged("attempted", i))'
        PROVE  (Logged("created", i))'
    <3>1. CASE Logged("attempted", i)
      BY <3>1 DEF JournalOK
    <3>2. CASE Entry(pc) = <<"attempted", i>>
      BY <3>2 DEF Progresses
    <3> QED BY <2>3, <3>1, <3>2
  <2> QED BY <2>1, <2>2, <2>3 DEF JournalOK
<1>5. BoxesOK'
  BY EntryFacts DEF BoxesOK, WorkerOK, LockOK, Terminal
<1>6. SealedOK'
  BY EntryFacts DEF SealedOK, WorkerOK, SyncOK, LockOK, Terminal
<1>7. EffectsOK'
  BY EntryFacts DEF EffectsOK, WorkerOK, EndOK, LockOK, Terminal
<1>8. EndOK'
  <2>1. EventAt[pc] \notin Terminal => Open'
    BY DEF Open
  <2>2. Last' = "completed" => boxes' = {} /\ sealed' = {} /\ lock' \notin timedOut'
    <3>1. pc = "complete" => boxes = {} /\ sealed = {} /\ lock \notin timedOut
      BY DEF BoxesOK, SealedOK, EndOK
    <3> QED BY <3>1
  <2> QED
    BY <2>1, <2>2 DEF EndOK
<1> QED BY <1>1, <1>2, <1>3, <1>4, <1>5, <1>6, <1>7, <1>8 DEF LeaseParts

\* The head is rewritten: from now on it vouches for the entry.
LEMMA InstallLeaseHeadKeeps ==
    ASSUME LeaseInv, InstallLeaseHead
    PROVE  LeaseParts'
<1>b. /\ pc \in Appends /\ op.written /\ lock' = lock /\ journal' = journal /\ head' = op.count + 1
      /\ UNCHANGED <<boxes, sealed, effects, ran, settled, timedOut>>
  BY DEF InstallLeaseHead, world, told
<1>c. /\ head' = Len(journal) /\ Last' = Last /\ Workers' = Workers
      /\ Last = EventAt[pc] /\ journal[Len(journal)] = Entry(pc) /\ head = op.count
      /\ \A e, i : (Logged(e, i))' = Logged(e, i)
      /\ \A e, i : (Kept(e, i))' <=> Logged(e, i)
      /\ \A e, i : Logged(e, i) <=> Kept(e, i) \/ Entry(pc) = <<e, i>>
  BY <1>b, Installed
<1>e. lock # NoRequest
  BY <1>b, EntryTyped
<1>f. op \in OpType /\ intent \in BOOLEAN /\ head \in Int /\ Len(journal) \in Nat
  BY DEF LeaseInv, LeaseParts, TypeOK
<1>g. AppendMoves
  BY <1>b, <1>f, AppendGoesOn
<1>i. Open <=> Open'
  BY <1>c DEF Open
<1>j. op.worker \in Nat
  BY <1>f DEF OpType
<1> USE <1>b, <1>c, <1>e, <1>f, <1>g, <1>i, <1>j
        DEF Early, AtWorker, Closing, Ending, Operating, Reconciling, Recovering,
        NoOp, Box, LeaseInv, LeaseParts
<1>1. LockOK'
  BY EntryFacts DEF AppendMoves, LockOK
<1>2. WorkerOK'
  <2>1. CASE pc = "attempt"
    BY <2>1 DEF AppendMoves, WorkerOK, Workers
  <2>2. CASE ~(pc = "attempt")
    BY <2>2, EntryFacts DEF AppendMoves, WorkerOK, EndOK, LockOK
  <2> QED BY <2>1, <2>2
<1>3. SyncOK'
  BY EntryFacts DEF AppendMoves, SyncOK, LockOK
<1>4. JournalOK'
  BY EntryFacts DEF AppendMoves, JournalOK, LockOK
<1>5. BoxesOK'
  <2>1. CASE pc = "record"
    <3>1. /\ pc' = "create" /\ boxes = {} /\ Entry(pc) = <<"recorded", op.worker>>
          /\ op'.worker = op.worker
          /\ \A k \in Nat : Logged("deleted", k) => k < op.worker
          /\ \A k \in Nat : Logged("recorded", k) => k =< op.worker
      BY <2>1, EntryFacts DEF AppendMoves, BoxesOK
    <3> QED BY <2>1, <3>1 DEF BoxesOK
  <2>2. CASE ~(pc = "record")
    BY <2>2, EntryFacts DEF AppendMoves, BoxesOK, WorkerOK, LockOK
  <2> QED BY <2>1, <2>2
<1>6. SealedOK'
  <2>1. CASE pc = "sealed"
    <3>1. /\ pc' = "record" /\ Entry(pc) = <<"snapshot", 0>> /\ Len(journal) = 1 /\ op.started
          /\ op'.started = op.started /\ op'.snapshot = op.snapshot
      BY <2>1, EntryFacts DEF AppendMoves, WorkerOK, SyncOK, OpType
    <3>2. journal[1] = <<"snapshot", 0>>
      BY <3>1
    <3>3. Logged("snapshot", 0) /\ ~Logged("unsnapshot", 0)
      BY <3>1, <3>2, OnlySnapshot
    <3> QED BY <2>1, <3>1, <3>3 DEF SealedOK
  <2>2. CASE ~(pc = "sealed")
    BY <2>2, EntryFacts DEF AppendMoves, SealedOK, WorkerOK, SyncOK, LockOK
  <2> QED BY <2>1, <2>2
<1>7. EffectsOK'
  BY EntryFacts DEF AppendMoves, EffectsOK, WorkerOK, EndOK, LockOK
<1>8. EndOK'
  <2>1. CASE pc = "complete"
    <3>1. Last = "completed" /\ lock \notin timedOut /\ boxes = {} /\ sealed = {}
      BY <2>1 DEF EventAt, EndOK, BoxesOK, SealedOK
    <3> QED BY <2>1, <3>1 DEF AppendMoves, EndOK
  <2>2. CASE ~(pc = "complete")
    BY <2>2, EntryFacts DEF AppendMoves, EndOK, BoxesOK, SealedOK, LockOK
  <2> QED BY <2>1, <2>2
<1> QED BY <1>1, <1>2, <1>3, <1>4, <1>5, <1>6, <1>7, <1>8 DEF LeaseParts

\* An append that fails with no effect leaves the journal and the head.
LEMMA AppendFailsUnwritten ==
    ASSUME LeaseInv, AppendFails, UNCHANGED <<journal, head, intent>>
    PROVE  LeaseParts'
<1>a. op \in OpType /\ intent \in BOOLEAN /\ head \in Int /\ Len(journal) \in Nat
                    /\ op.worker \in Nat
  BY DEF LeaseInv, LeaseParts, TypeOK, OpType
<1>b. /\ pc \in Appends /\ lock' = lock
      /\ UNCHANGED <<boxes, sealed, effects, ran, settled, timedOut>>
  BY DEF AppendFails, world, told
<1>e. lock # NoRequest
  BY <1>b, EntryTyped
<1>g. AppendRaises
  BY <1>a, <1>b, AppendIsCaught DEF AppendFails
<1>c. /\ journal' = journal /\ head' = head /\ intent' = intent
      /\ Workers' = Workers /\ Last' = Last /\ (Open <=> Open')
      /\ \A e, i : (Logged(e, i))' = Logged(e, i) /\ (Kept(e, i))' = Kept(e, i)
      /\ Open => Last # "completed"
  BY <1>b, Still, OpenLast DEF LeaseInv, TypeOK, Terminal
<1> USE <1>a, <1>b, <1>c, <1>e, <1>g
        DEF Early, AtWorker, Closing, Ending, Operating, Reconciling, Recovering,
        NoOp, Box, LeaseInv, LeaseParts
<1>1. LockOK'
  BY DEF AppendRaises, LockOK
<1>2. WorkerOK'
  BY DEF AppendRaises, WorkerOK, LockOK
<1>3. SyncOK'
  BY DEF AppendRaises, SyncOK, LockOK
<1>4. JournalOK'
  BY DEF AppendRaises, JournalOK, LockOK
<1>5. BoxesOK'
  BY DEF AppendRaises, BoxesOK, WorkerOK, LockOK
<1>6. SealedOK'
  BY DEF AppendRaises, SealedOK, WorkerOK, SyncOK, LockOK
<1>7. EffectsOK'
  BY DEF AppendRaises, EffectsOK, WorkerOK, EndOK, LockOK
<1>8. EndOK'
  BY DEF AppendRaises, EndOK, BoxesOK, SealedOK, LockOK
<1> QED BY <1>1, <1>2, <1>3, <1>4, <1>5, <1>6, <1>7, <1>8 DEF LeaseParts

\* An append that fails after the head was rewritten.
LEMMA AppendFailsInstalled ==
    ASSUME LeaseInv, AppendFails, op.written, UNCHANGED journal, head' = op.count + 1, head' # head
    PROVE  LeaseParts'
<1>a. op \in OpType /\ intent \in BOOLEAN /\ head \in Int /\ Len(journal) \in Nat
                    /\ op.worker \in Nat
  BY DEF LeaseInv, LeaseParts, TypeOK, OpType
<1>b. /\ pc \in Appends /\ lock' = lock
      /\ UNCHANGED <<boxes, sealed, effects, ran, settled, timedOut>>
  BY DEF AppendFails, world, told
<1>e. lock # NoRequest
  BY <1>b, EntryTyped
<1>g. AppendRaises
  BY <1>a, <1>b, AppendIsCaught DEF AppendFails
<1>c. /\ head' = Len(journal) /\ journal' = journal /\ Last' = Last /\ Workers' = Workers
      /\ Last = EventAt[pc] /\ journal[Len(journal)] = Entry(pc) /\ head = op.count
      /\ head' = op.count + 1
      /\ \A e, i : (Logged(e, i))' = Logged(e, i)
      /\ \A e, i : (Kept(e, i))' <=> Logged(e, i)
      /\ \A e, i : Logged(e, i) <=> Kept(e, i) \/ Entry(pc) = <<e, i>>
  BY <1>b, Installed
<1>i. Open <=> Open'
  BY <1>c DEF Open
<1> USE <1>a, <1>b, <1>c, <1>e, <1>g, <1>i
        DEF Early, AtWorker, Closing, Ending, Operating, Reconciling, Recovering,
        NoOp, Box, LeaseInv, LeaseParts
<1>1. LockOK'
  BY EntryFacts DEF AppendRaises, LockOK
<1>2. WorkerOK'
  BY Zenon, EntryFacts DEF AppendRaises, WorkerOK, LockOK
<1>3. SyncOK'
  BY EntryFacts DEF AppendRaises, SyncOK, LockOK
<1>4. JournalOK'
  BY EntryFacts DEF AppendRaises, JournalOK, LockOK
<1>5. BoxesOK'
  BY EntryFacts DEF AppendRaises, BoxesOK, WorkerOK, LockOK
<1>6. SealedOK'
  <2>1. intent' = (op.intent /\ EventAt[pc] \notin {"snapshot", "unsnapshot"})
    BY DEF AppendFails
  <2>2. CASE pc = "sealed"
    <3>1. Entry(pc) = <<"snapshot", 0>> /\ Len(journal) = 1 /\ op.started
      BY <2>2, EntryFacts DEF WorkerOK, SyncOK, OpType
    <3>2. journal[1] = <<"snapshot", 0>>
      BY Zenon, <3>1
    <3>3. Logged("snapshot", 0) /\ ~Logged("unsnapshot", 0)
      BY Zenon, <3>1, <3>2, OnlySnapshot
    <3> QED BY Zenon, <2>2, <3>1, <3>3 DEF AppendRaises, SealedOK
  <2>3. CASE pc # "sealed"
    BY Zenon, <2>3, EntryFacts DEF AppendRaises, SealedOK, WorkerOK, SyncOK, LockOK
  <2> QED BY <2>2, <2>3
<1>7. EffectsOK'
  BY EntryFacts DEF AppendRaises, EffectsOK, WorkerOK, EndOK, LockOK
<1>8. EndOK'
  BY EntryFacts DEF AppendRaises, EndOK, BoxesOK, SealedOK, LockOK
<1> QED BY <1>1, <1>2, <1>3, <1>4, <1>5, <1>6, <1>7, <1>8 DEF LeaseParts

\* An append that fails after the entry file was written.
LEMMA AppendFailsWritten ==
    ASSUME LeaseInv, AppendFails, ~op.written, journal' = Append(journal, Entry(pc))
    PROVE  LeaseParts'
<1>a. op \in OpType /\ intent \in BOOLEAN /\ head \in Int /\ Len(journal) \in Nat
                    /\ op.worker \in Nat
  BY DEF LeaseInv, LeaseParts, TypeOK, OpType
<1>b. /\ pc \in Appends /\ lock' = lock /\ ~op.written /\ Accepted(pc) /\ head' = head
      /\ intent' = intent
      /\ journal' = Append(journal, Entry(pc))
      /\ UNCHANGED <<boxes, sealed, effects, ran, settled, timedOut>>
  BY DEF AppendFails, world, told
<1>e. /\ lock # NoRequest /\ Entry(pc) = <<EventAt[pc], Subject(pc)>>
      /\ EventAt[pc] \in Events /\ Subject(pc) \in 0 .. Len(Plan[lock])
  BY <1>b, EntryTyped
<1>f. op \in OpType /\ head \in Int /\ Len(journal) \in Nat /\ Len(Plan[lock]) \in Nat
  BY <1>e, LeaseAssumption DEF LeaseInv, LeaseParts, TypeOK
<1>g. AppendRaises
  BY <1>a, <1>b, AppendIsCaught DEF AppendFails
<1>c. /\ Len(journal') = Len(journal) + 1 /\ journal'[Len(journal) + 1] = Entry(pc)
      /\ \A n \in 1 .. Len(journal) : journal'[n] = journal[n]
      /\ \A e, i : (Logged(e, i))' <=> Logged(e, i) \/ Entry(pc) = <<e, i>>
      /\ \A e, i : (Kept(e, i))' <=> Kept(e, i)
      /\ Last' = EventAt[pc] /\ Workers' = Workers
  BY <1>b, Appended
<1>d. /\ Open /\ head = op.count /\ Len(journal) = op.count
      /\ Progresses(EventAt[pc], Subject(pc))
  BY <1>b, AcceptedFacts
<1>h. pc \in {"sealed", "record", "created", "found", "attempt", "started", "result", "deleted",
              "remote", "unsealed", "local", "finish", "complete", "undeliver", "salvage",
              "rDeleted", "rUnsealed", "rRemote", "rLocal", "rUndeliver"}
  BY <1>b, AppendPoints
<1>j. EventAt[pc] = "completed" => pc = "complete"
  BY <1>h DEF EventAt
<1>k. EventAt[pc] \in Terminal => pc \in {"remote", "rRemote", "local", "rLocal", "complete",
                                        "undeliver", "salvage", "rUndeliver"}
  BY <1>h DEF EventAt, Terminal
<1> USE <1>a, <1>b, <1>c, <1>d, <1>e, <1>f, <1>g, <1>h, <1>j, <1>k
        DEF Early, AtWorker, Closing, Ending, Operating, Reconciling, Recovering,
        NoOp, Box, LeaseInv, LeaseParts
<1>1. LockOK'
  BY EntryFacts DEF AppendRaises, LockOK, Terminal
<1>2. WorkerOK'
  BY Zenon, EntryFacts DEF AppendRaises, WorkerOK, LockOK, Terminal
<1>3. SyncOK'
  BY EntryFacts DEF AppendRaises, SyncOK, LockOK, Terminal
<1>4. JournalOK'
  <2>1. head' =< Len(journal')
    OBVIOUS
  <2>2. ASSUME NEW n \in 1 .. Len(journal')
        PROVE  journal'[n][2] =< Len(Plan[lock]) /\ (n < Len(journal') => journal'[n][1] \notin Terminal)
    <3>1. CASE n = Len(journal) + 1
      BY <3>1
    <3>2. CASE n # Len(journal) + 1
      <4>1. n \in 1 .. Len(journal) /\ journal'[n] = journal[n]
        BY <2>2, <3>2
      <4>2. journal[n] \in Events \X Nat
        BY <4>1 DEF TypeOK
      <4>3. Logged(journal[n][1], journal[n][2])
        BY <4>1, <4>2 DEF Logged, Entries
      <4>4. journal[n][2] =< Len(Plan[lock])
        BY <4>1 DEF JournalOK
      <4> QED BY Zenon, <4>1, <4>2, <4>3, <4>4 DEF Open
    <3> QED BY <3>1, <3>2
  <2>3. ASSUME NEW i \in Nat, (Logged("attempted", i))'
        PROVE  (Logged("created", i))'
    <3>1. CASE Logged("attempted", i)
      BY <3>1 DEF JournalOK
    <3>2. CASE Entry(pc) = <<"attempted", i>>
      BY <3>2 DEF Progresses
    <3> QED BY <2>3, <3>1, <3>2
  <2> QED BY <2>1, <2>2, <2>3 DEF JournalOK
<1>5. BoxesOK'
  <2>1. CASE pc \in {"created", "attempt", "started", "result"} /\ pc' = "cleanup" /\ op'.failed
    BY <2>1, EntryFacts DEF AppendRaises, BoxesOK, WorkerOK, LockOK
  <2>2. CASE pc \in {"sealed", "record"} /\ pc' = "unwind" /\ op'.failed
    BY <2>2, EntryFacts DEF AppendRaises, BoxesOK, WorkerOK, LockOK
  <2>3. CASE pc \in {"found", "deleted", "remote"} /\ pc' = "unwind" /\ op'.failed /\ op'.preserve
    BY <2>3, EntryFacts DEF AppendRaises, BoxesOK, WorkerOK, LockOK
  <2>4. CASE pc = "finish" /\ pc' = "salvage" /\ op'.failed = op.failed
                           /\ op'.preserve = op.preserve
    BY <2>4, EntryFacts DEF AppendRaises, BoxesOK, WorkerOK, LockOK
  <2>5. CASE pc' \in {"halt", "idle"} /\ op' = NoOp
    <3>1. boxes = {} \/ \A i : Entry(pc) # <<"recorded", i>> /\ Entry(pc) # <<"deleted", i>>
      BY EntryFacts DEF BoxesOK
    <3> QED BY <2>5, <3>1 DEF BoxesOK
  <2> QED BY <2>1, <2>2, <2>3, <2>4, <2>5 DEF AppendRaises
<1>6. SealedOK'
  BY SMTT(60), EntryFacts DEF AppendRaises, SealedOK, WorkerOK, SyncOK, LockOK, Terminal
<1>7. EffectsOK'
  BY Zenon, EntryFacts DEF AppendRaises, EffectsOK, WorkerOK, EndOK, LockOK, Terminal
<1>8. EndOK'
  <2>1. EventAt[pc] \notin Terminal => Open'
    BY DEF Open
  <2>2. Last' = "completed" => boxes' = {} /\ sealed' = {} /\ lock' \notin timedOut'
    <3>1. pc = "complete" => boxes = {} /\ sealed = {} /\ lock \notin timedOut
      BY DEF BoxesOK, SealedOK, EndOK
    <3> QED BY <3>1
  <2> QED
    BY SMTT(60), <2>1, <2>2 DEF AppendRaises, EndOK
<1> QED BY <1>1, <1>2, <1>3, <1>4, <1>5, <1>6, <1>7, <1>8 DEF LeaseParts

\* A failed append is one of the three.
LEMMA AppendFailsKeeps ==
    ASSUME LeaseInv, AppendFails
    PROVE  LeaseParts'
<1>1. CASE op.written
  <2>1. journal' = journal /\ head' \in {head, op.count + 1} /\ (head' = head => intent' = intent)
    BY <1>1 DEF AppendFails
  <2>2. CASE head' = head
    BY <2>1, <2>2, AppendFailsUnwritten
  <2>3. CASE head' # head
    BY <1>1, <2>1, <2>3, AppendFailsInstalled
  <2> QED BY <2>2, <2>3
<1>2. CASE ~op.written
  <2>1. /\ journal' = journal \/ journal' = Append(journal, Entry(pc))
        /\ head' = head /\ intent' = intent
    BY <1>2 DEF AppendFails
  <2> QED BY <1>2, <2>1, AppendFailsUnwritten, AppendFailsWritten
<1> QED BY <1>1, <1>2

\* A lease is acquired by a request that was never executed, so that none of
\* its effects is there.
LEMMA AcquireKeeps ==
    ASSUME LedgerInv, LeaseInv, NEW r \in Requests, Acquire(r)
    PROVE  LeaseParts'
<1>a. /\ lock = NoRequest /\ lock' = r /\ head' = 0 /\ journal' = <<>> /\ pc' = "phase"
      /\ ran' = [ran EXCEPT ![r] = @ + 1] /\ intent' = FALSE
      /\ op' = [NoOp EXCEPT !.worker = 1]
      /\ UNCHANGED <<boxes, sealed, effects, settled, timedOut>>
  BY DEF Acquire, Goto, world
<1>b. ran[r] = 0
  BY AdmittedIsNew DEF Acquire
<1>c. /\ boxes' = {} /\ sealed' = {} /\ r # NoRequest
      /\ \A b \in effects : b[1] # r /\ b[1] \in Requests /\ b[1] # NoRequest /\ ran[b[1]] >= 1
      /\ r \notin timedOut /\ \A t \in timedOut : t \in Requests /\ ran[t] >= 1
  BY SMTT(60), <1>a, <1>b, LeaseAssumption DEF LeaseInv, LeaseParts, LockOK, TypeOK
<1>d. ran'[r] = 1 /\ \A t \in Requests : t # r => ran'[t] = ran[t]
  BY <1>a, <1>b DEF LeaseInv, LeaseParts, TypeOK
<1>e. /\ op'.worker = 1 /\ op'.attempt = 0 /\ op'.count = 0 /\ ~op'.written /\ ~op'.failed
      /\ ~op'.preserve /\ ~op'.snapshot /\ ~op'.abandoned
  BY <1>a DEF NoOp
<1>f. Plan[r] \in Seq(Kinds) /\ Len(Plan[r]) \in Nat /\ (Plan[r] = <<>> \/ Len(Plan[r]) >= 1)
  BY LeaseAssumption
<1>g. /\ \A e, i : ~(Logged(e, i))' /\ ~(Kept(e, i))'
      /\ Open' /\ Last' = "none" /\ Workers' = 1 .. Len(Plan[r])
  BY <1>a DEF Logged, Entries, Kept, Durable, Open, Last, Workers
<1> USE <1>a, <1>c, <1>d, <1>e, <1>f, <1>g
        DEF Early, AtWorker, Closing, Ending, Operating, Reconciling, Recovering,
        NoOp, Box, LeaseInv, LeaseParts
<1>1. LockOK'
  BY DEF LockOK
<1>2. WorkerOK'
  BY DEF WorkerOK, LockOK
<1>3. SyncOK'
  BY DEF SyncOK, LockOK
<1>4. JournalOK'
  BY DEF JournalOK, LockOK
<1>5. BoxesOK'
  BY DEF BoxesOK, WorkerOK, LockOK
<1>6. SealedOK'
  BY DEF SealedOK, WorkerOK, SyncOK, LockOK
<1>7. EffectsOK'
  BY DEF EffectsOK, WorkerOK, EndOK, LockOK
<1>8. EndOK'
  BY DEF EndOK, BoxesOK, SealedOK, LockOK
<1> QED BY <1>1, <1>2, <1>3, <1>4, <1>5, <1>6, <1>7, <1>8 DEF LeaseParts

\* An admission that stops half way leaves no lease or an unreadable one, and
\* nothing under it.
LEMMA AdmissionStopsKeeps ==
    ASSUME LedgerInv, LeaseInv, NEW r \in Requests, AdmissionStops(r)
    PROVE  LeaseParts'
<1>a. /\ lock = NoRequest
      /\ UNCHANGED <<boxes, sealed, effects, ran, settled, timedOut, pc, op>>
      /\ \/ UNCHANGED <<lock, head, intent, journal>>
         \/ lock' = r /\ head' = -1 /\ intent' = FALSE /\ journal' = <<>>
  BY DEF AdmissionStops, world, told
<1>b. ran[r] = 0
  BY AdmittedIsNew DEF AdmissionStops
<1>f. NoRequest \notin Requests
  BY LeaseAssumption
<1>c. /\ pc = "idle" /\ boxes = {} /\ sealed = {} /\ r # NoRequest
      /\ \A b \in effects : b[1] # r /\ b[1] \in Requests /\ b[1] # NoRequest
  BY <1>a, <1>b, <1>f DEF LeaseParts, LeaseInv, LockOK, TypeOK
<1> USE <1>a, <1>c
        DEF Early, AtWorker, Closing, Ending, Operating, Reconciling, Recovering,
        NoOp, Box, LeaseInv, LeaseParts
<1>g. CASE UNCHANGED <<lock, head, intent, journal>>
  <2>1. LockOK'
    BY <1>g, AppendPoints DEF LockOK
  <2>2. WorkerOK'
    BY <1>g, AppendPoints DEF WorkerOK, LockOK
  <2>3. SyncOK'
    BY <1>g, AppendPoints DEF SyncOK, LockOK
  <2>4. JournalOK'
    BY <1>g, AppendPoints DEF JournalOK, LockOK
  <2>5. BoxesOK'
    BY <1>g, AppendPoints DEF BoxesOK, WorkerOK, LockOK
  <2>6. SealedOK'
    BY <1>g, AppendPoints DEF SealedOK, WorkerOK, SyncOK, LockOK
  <2>7. EffectsOK'
    BY <1>g, AppendPoints DEF EffectsOK, WorkerOK, EndOK, LockOK
  <2>8. EndOK'
    BY <1>g, AppendPoints DEF EndOK, BoxesOK, SealedOK, LockOK
  <2> QED BY <2>1, <2>2, <2>3, <2>4, <2>5, <2>6, <2>7, <2>8 DEF LeaseParts
<1>h. CASE lock' = r /\ head' = -1 /\ intent' = FALSE /\ journal' = <<>>
  <2>a. /\ \A e, i : ~(Logged(e, i))' /\ ~(Kept(e, i))'
        /\ Last' = "none"
    BY <1>h DEF Logged, Entries, Kept, Durable, Last
  <2>1. LockOK'
    BY <1>h, <2>a, AppendPoints DEF LockOK
  <2>2. WorkerOK'
    BY <1>h, <2>a, AppendPoints DEF WorkerOK, LockOK
  <2>3. SyncOK'
    BY <1>h, <2>a, AppendPoints DEF SyncOK, LockOK
  <2>4. JournalOK'
    BY <1>h, <2>a, AppendPoints DEF JournalOK, LockOK
  <2>5. BoxesOK'
    BY <1>h, <2>a, AppendPoints DEF BoxesOK, WorkerOK, LockOK
  <2>6. SealedOK'
    BY <1>h, <2>a, AppendPoints DEF SealedOK, WorkerOK, SyncOK, LockOK
  <2>7. EffectsOK'
    BY <1>h, <2>a, AppendPoints DEF EffectsOK, WorkerOK, EndOK, LockOK
  <2>8. EndOK'
    BY <1>h, <2>a, AppendPoints DEF EndOK, BoxesOK, SealedOK, LockOK
  <2> QED BY <2>1, <2>2, <2>3, <2>4, <2>5, <2>6, <2>7, <2>8 DEF LeaseParts
<1> QED BY Zenon, <1>g, <1>h

\* A step that changes the ledger only.
LEMMA BusyKeeps ==
    ASSUME LeaseInv, UNCHANGED <<lock, head, intent, journal, world, told, pc, op>>
    PROVE  LeaseParts'
<1>a. /\ UNCHANGED <<lock, head, intent, journal, pc, op, boxes, sealed, effects, ran, settled, timedOut>>
      /\ (Entry(pc))' = Entry(pc)
  BY DEF world, told, Entry, Subject
<1>b. /\ Workers' = Workers /\ Last' = Last /\ (Open <=> Open')
      /\ \A e, i : (Logged(e, i))' = Logged(e, i) /\ (Kept(e, i))' = Kept(e, i)
  BY <1>a, Still
<1>1. LockOK'
  BY <1>a, <1>b DEF LeaseInv, LeaseParts, LockOK
<1>2. WorkerOK'
  BY <1>a, <1>b DEF LeaseInv, LeaseParts, WorkerOK
<1>3. SyncOK'
  BY <1>a, <1>b DEF LeaseInv, LeaseParts, SyncOK
<1>4. JournalOK'
  BY <1>a, <1>b DEF LeaseInv, LeaseParts, JournalOK
<1>5. BoxesOK'
  BY <1>a, <1>b DEF LeaseInv, LeaseParts, BoxesOK, Box
<1>6. SealedOK'
  BY <1>a, <1>b DEF LeaseInv, LeaseParts, SealedOK
<1>7. EffectsOK'
  BY <1>a, <1>b DEF LeaseInv, LeaseParts, EffectsOK
<1>8. EndOK'
  BY <1>a, <1>b DEF LeaseInv, LeaseParts, EndOK
<1> QED BY <1>1, <1>2, <1>3, <1>4, <1>5, <1>6, <1>7, <1>8 DEF LeaseParts

\* Every step keeps the variables typed.
LEMMA LeaseTyped ==
    ASSUME LedgerInv', LeaseInv, Next
    PROVE  TypeOK'
<1>a. /\ lock \in Requests \cup {NoRequest} /\ head \in Nat \cup {-1} /\ intent \in BOOLEAN
      /\ journal \in Seq(Events \X Nat) /\ boxes \subseteq Requests \X Nat
      /\ sealed \subseteq Requests /\ effects \subseteq Requests \X Nat
      /\ replayTorn \in BOOLEAN /\ broker \in {"down", "recovering", "serving"}
      /\ clock \in 0 .. MaxClock /\ faults \in 0 .. MaxFaults
      /\ settled \subseteq Requests /\ delivered \subseteq Requests /\ timedOut \subseteq Requests
      /\ MaxClock \in Nat /\ MaxFaults \in Nat /\ pc \in Points /\ op \in OpType
      /\ op.worker \in Nat /\ op.count \in Nat /\ (pc # "idle" /\ pc # "halt" => lock \in Requests)
  BY Zenon, LeaseAssumption, PointSet DEF LeaseInv, LeaseParts, LockOK, TypeOK, OpType, Operating, Early,
      AtWorker, Closing, Ending, Reconciling
<1>c. NoOp \in OpType
  BY DEF NoOp, OpType
<1>b. replay' \subseteq [req : Requests, expires : Nat] /\ ran' \in [Requests -> Nat]
  BY DEF LedgerInv, LedgerType
<1> USE <1>a, PointSet DEF Step, Quiet, Goto, Fault, NoFault, disk, world, told, Box, Recovering
<1>1. CASE PhaseBegins
  <2>1. pc' \in Points /\ op' \in OpType
    BY <1>1 DEF PhaseBegins, NoOp, OpType
  <2> QED BY Zenon, <1>b, <1>1, <2>1 DEF PhaseBegins, TypeOK
<1>2. CASE RecordIntent
  <2>1. pc' \in Points /\ op' \in OpType
    BY Zenon, <1>2 DEF RecordIntent, NoOp, OpType
  <2> QED BY Zenon, <1>b, <1>2, <2>1 DEF RecordIntent, TypeOK
<1>3. CASE Seal
  <2>1. pc' \in Points /\ op' \in OpType
    BY Zenon, <1>3 DEF Seal, NoOp, OpType
  <2> QED BY Zenon, <1>b, <1>3, <2>1 DEF Seal, TypeOK
<1>4. CASE Create
  <2>1. pc' \in Points /\ op' \in OpType
    BY Zenon, <1>4 DEF Create, NoOp, OpType
  <2> QED BY <1>b, <1>4, <2>1 DEF Create, TypeOK
<1>5. CASE Inspect
  <2>1. pc' \in Points /\ op' \in OpType
    BY <1>5 DEF Inspect, NoOp, OpType
  <2> QED BY <1>b, <1>5, <2>1 DEF Inspect, TypeOK
<1>6. CASE Start
  <2>1. pc' \in Points /\ op' \in OpType
    BY <1>6 DEF Start, Ran, NoOp, OpType
  <2> QED BY <1>b, <1>6, <2>1 DEF Start, Ran, TypeOK
<1>7. CASE WaitAndRead
  <2>1. pc' \in Points /\ op' \in OpType
    BY <1>7 DEF WaitAndRead, NoOp, OpType
  <2> QED BY <1>b, <1>7, <2>1 DEF WaitAndRead, TypeOK
<1>8. CASE Cleanup
  <2>1. pc' \in Points /\ op' \in OpType
    BY <1>8 DEF Cleanup, NoOp, OpType
  <2> QED BY SMTT(60), <1>b, <1>8, <2>1 DEF Cleanup, TypeOK
<1>9. CASE Erase
  <2>1. pc' \in Points /\ op' \in OpType
    BY <1>9 DEF Erase, NoOp, OpType
  <2> QED BY <1>b, <1>9, <2>1 DEF Erase, TypeOK
<1>10. CASE WorkerReturns
  <2>1. pc' \in Points
    BY <1>10 DEF WorkerReturns
  <2>2. op' \in OpType
    <3>1. op.worker + 1 \in Nat
      BY <1>a
    <3>4. [op EXCEPT !.hasId = FALSE] \in OpType
      BY Zenon, <1>a, OpEdit
    <3>2. /\ [op EXCEPT !.hasId = FALSE, !.preserve = TRUE] \in OpType
          /\ [op EXCEPT !.hasId = FALSE, !.worker = op.worker + 1] \in OpType
      BY Zenon, <3>1, <3>4, OpEdit
    <3>3. [op EXCEPT !.hasId = FALSE, !.worker = op.worker + 1, !.started = TRUE] \in OpType
      BY Zenon, <3>2, OpEdit
    <3>5. op' \in {[op EXCEPT !.hasId = FALSE, !.preserve = TRUE], [op EXCEPT !.hasId = FALSE],
                   [op EXCEPT !.hasId = FALSE, !.worker = op.worker + 1, !.started = TRUE]}
      BY <1>10, <1>a DEF WorkerReturns, Step, Goto, OpType
    <3> QED BY Zenon, <3>2, <3>3, <3>4, <3>5
  <2> QED BY Zenon, <1>b, <1>10, <2>1, <2>2 DEF WorkerReturns, TypeOK
<1>11. CASE Unwind
  <2>1. pc' \in Points /\ op' \in OpType
    BY ZenonT(60), <1>11 DEF Unwind, NoOp, OpType
  <2> QED BY SMTT(60), <1>b, <1>11, <2>1 DEF Unwind, TypeOK
<1>12. CASE Settle
  <2>1. pc' \in Points
    BY <1>12 DEF Settle
  <2>2. op' \in OpType
    <3>1. op.worker + 1 \in Nat
      BY <1>a
    <3>2. [op EXCEPT !.worker = op.worker + 1] \in OpType
      BY <1>a, <3>1, OpEdit
    <3>3. [op EXCEPT !.worker = op.worker + 1, !.attempt = 0] \in OpType
      BY Zenon, <3>2, OpEdit
    <3>4. [op EXCEPT !.worker = op.worker + 1, !.attempt = 0, !.cleaned = FALSE] \in OpType
      BY Zenon, <3>3, OpEdit
    <3>5. [op EXCEPT !.worker = op.worker + 1, !.attempt = 0,
                     !.cleaned = FALSE, !.started = FALSE] \in OpType
      BY Zenon, <3>4, OpEdit
    <3> QED BY <1>12, <1>a, <1>c, <3>5 DEF Settle, Step, Goto
  <2> QED BY <1>b, <1>12, <2>1, <2>2 DEF Settle, TypeOK
<1>13. CASE Flushed
  <2>1. pc' \in Points /\ op' \in OpType
    BY <1>13 DEF Flushed, NoOp, OpType
  <2> QED BY <1>b, <1>13, <2>1 DEF Flushed, TypeOK
<1>14. CASE Release
  <2>1. pc' \in Points /\ op' \in OpType
    BY <1>14 DEF Release, Unlink, NoOp, OpType
  <2> QED BY Zenon, <1>b, <1>14, <2>1 DEF Release, Unlink, TypeOK
<1>15. CASE RecoverDelete
  <2>1. pc' \in Points /\ op' \in OpType
    BY <1>15 DEF RecoverDelete, NoOp, OpType
  <2> QED BY <1>b, <1>15, <2>1 DEF RecoverDelete, TypeOK
<1>16. CASE RecoverSnapshot
  <2>1. pc' \in Points
    BY <1>16 DEF RecoverSnapshot
  <2>2. op' \in OpType
    BY <1>a, <1>c, <1>16 DEF RecoverSnapshot, Step, Goto
  <2> QED BY Zenon, <1>b, <1>16, <2>1, <2>2 DEF RecoverSnapshot, TypeOK
<1>17. CASE RecoverSettle
  <2>1. pc' \in Points
    BY <1>17 DEF RecoverSettle
  <2>2. op' \in OpType
    <3>1. ASSUME NEW k, Attempted(k) # {}
          PROVE  [op EXCEPT !.worker = Newest(Attempted(k))] \in OpType
      <4>1. Attempted(k) \subseteq Workers /\ lock # NoRequest /\ Workers \subseteq Nat
        BY SMTT(60), <1>a, <1>17, LeaseAssumption DEF RecoverSettle, Attempted, Workers, Recovering
      <4>2. Newest(Attempted(k)) \in Nat
        BY Zenon, <3>1, <4>1, NewestWorker
      <4> QED BY <1>a, <4>2, OpEdit
    <3> QED BY Zenon, <1>a, <1>17, <3>1 DEF RecoverSettle, Step, Goto
  <2> QED BY Zenon, <1>b, <1>17, <2>1, <2>2 DEF RecoverSettle, TypeOK
<1>18. CASE RecoverUnlink
  <2>1. pc' \in Points /\ op' \in OpType
    BY <1>18 DEF RecoverUnlink, Unlink, NoOp, OpType
  <2> QED BY Zenon, <1>b, <1>18, <2>1 DEF RecoverUnlink, Unlink, TypeOK
<1>19. CASE Halt
  <2>1. pc' \in Points /\ op' \in OpType
    BY <1>19 DEF Halt, NoOp, OpType
  <2> QED BY Zenon, <1>b, <1>19, <2>1 DEF Halt, TypeOK
<1>20. CASE AppendFails
  <2>1. pc' \in Points
    BY Zenon, <1>a, <1>20, RaiseTyped, OpEdit DEF AppendFails
  <2>2. op' \in OpType
    BY Zenon, <1>a, <1>20, RaiseTyped, OpEdit DEF AppendFails
  <2>3. /\ lock' \in Requests \cup {NoRequest} /\ head' \in Nat \cup {-1} /\ intent' \in BOOLEAN
        /\ journal' \in Seq(Events \X Nat) /\ boxes' \subseteq Requests \X Nat
        /\ sealed' \subseteq Requests /\ effects' \subseteq Requests \X Nat
    <3>1. /\ lock' = lock /\ boxes' = boxes /\ sealed' = sealed /\ effects' = effects
      BY <1>20 DEF AppendFails, world
    <3>2. head' \in Nat \cup {-1}
      BY <1>a, <1>20 DEF AppendFails
    <3>3. intent' \in BOOLEAN
      BY <1>a, <1>20, Zenon DEF AppendFails
    <3>4. Entry(pc) \in Events \X Nat
      BY <1>20, EntryTyped DEF AppendFails
    <3>6. Append(journal, Entry(pc)) \in Seq(Events \X Nat)
      BY <1>a, <3>4
    <3>5. journal' \in Seq(Events \X Nat)
      BY Zenon, <1>a, <1>20, <3>6 DEF AppendFails
    <3> QED BY <1>a, <3>1, <3>2, <3>3, <3>5
  <2> QED BY SMTT(60), <1>b, <1>20, <2>1, <2>2, <2>3 DEF AppendFails, TypeOK
<1>21. CASE CallFails
  <2>1. pc' \in Points
    BY <1>a, <1>21, RaiseTyped DEF CallFails
  <2>2. op' \in OpType
    BY <1>a, <1>21, RaiseTyped DEF CallFails
  <2>3. /\ lock' \in Requests \cup {NoRequest} /\ head' \in Nat \cup {-1} /\ intent' \in BOOLEAN
        /\ journal' \in Seq(Events \X Nat) /\ boxes' \subseteq Requests \X Nat
        /\ sealed' \subseteq Requests /\ effects' \subseteq Requests \X Nat
    <3>1. lock' = lock /\ head' = head /\ journal' = journal /\ lock \in Requests
      BY <1>a, <1>21 DEF CallFails
    <3>2. intent' \in BOOLEAN
      BY <1>a, <1>21, Zenon DEF CallFails
    <3>3. /\ boxes' \subseteq boxes \cup {Box(op.worker)}
          /\ effects' \subseteq effects \cup {Box(op.worker)}
          /\ sealed' \subseteq sealed \cup {lock}
      BY <1>21 DEF CallFails, Ran
    <3>4. Box(op.worker) \in Requests \X Nat
      BY <1>a, <3>1 DEF Box
    <3> QED BY <1>a, <3>1, <3>2, <3>3, <3>4
  <2> QED BY <1>b, <1>21, <2>1, <2>2, <2>3 DEF CallFails, Ran, TypeOK
<1>22. CASE CleanupFails
  <2>1. pc' \in Points
    BY <1>a, <1>22, RaiseTyped DEF CleanupFails
  <2>2. op' \in OpType
    BY <1>a, <1>22, RaiseTyped DEF CleanupFails
  <2> QED BY <1>b, <1>22, <2>1, <2>2 DEF CleanupFails, TypeOK
<1>23. CASE UnwindFails
  <2>1. pc' \in Points /\ op' \in OpType
    BY <1>23 DEF UnwindFails, NoOp, OpType
  <2> QED BY <1>b, <1>23, <2>1 DEF UnwindFails, TypeOK
<1>24. CASE Timeout
  <2>1. pc' \in Points /\ op' \in OpType
    BY Zenon, <1>24 DEF Timeout, Awaiting, NoOp, OpType
  <2> QED BY <1>b, <1>24, <2>1 DEF Timeout, Awaiting, TypeOK
<1>25. CASE PeerLost
  <2>1. pc' \in Points /\ op' \in OpType
    BY Zenon, <1>25 DEF PeerLost, Awaiting, NoOp, OpType
  <2> QED BY SMTT(60), <1>b, <1>25, <2>1 DEF PeerLost, Awaiting, TypeOK
<1>26. CASE WriteFails
  <2>1. pc' \in Points /\ op' \in OpType
    BY <1>26 DEF WriteFails, NoOp, OpType
  <2> QED BY <1>b, <1>26, <2>1 DEF WriteFails, TypeOK
<1>27. CASE ReleaseRefused
  <2>1. pc' \in Points /\ op' \in OpType
    BY <1>27 DEF ReleaseRefused, NoOp, OpType
  <2> QED BY <1>b, <1>27, <2>1 DEF ReleaseRefused, TypeOK
<1>28. CASE Crash
  <2>1. pc' \in Points /\ op' \in OpType
    BY <1>28 DEF Crash, NoOp, OpType
  <2> QED BY <1>b, <1>28, <2>1 DEF Crash, TypeOK
<1>29. CASE WriteEntry
  <2>1. pc' \in Points /\ op' \in OpType
    BY Zenon, <1>29 DEF WriteEntry, NoOp, OpType
  <2>3. /\ lock' \in Requests \cup {NoRequest} /\ head' \in Nat \cup {-1} /\ intent' \in BOOLEAN
        /\ journal' \in Seq(Events \X Nat) /\ boxes' \subseteq Requests \X Nat
        /\ sealed' \subseteq Requests /\ effects' \subseteq Requests \X Nat
    <3>1. Entry(pc) \in Events \X Nat
      BY <1>29, EntryTyped DEF WriteEntry
    <3> QED BY <1>a, <1>29, <3>1 DEF WriteEntry, world
  <2> QED BY Zenon, <1>b, <1>29, <2>1, <2>3 DEF WriteEntry, TypeOK
<1>30. CASE InstallLeaseHead
  <2>1. pc' \in Points
    BY <1>a, <1>30, AppendGoesOn, PointSet DEF InstallLeaseHead, AppendMoves
  <2>2. op' \in OpType
    BY <1>a, <1>30, AppendGoesOn DEF InstallLeaseHead, AppendMoves
  <2> QED BY SMTT(60), <1>b, <1>30, <2>1, <2>2 DEF InstallLeaseHead, TypeOK
<1>31. CASE AppendRejected
  <2>1. pc' \in Points
    BY <1>a, <1>31, RaiseTyped DEF AppendRejected
  <2>2. op' \in OpType
    BY <1>a, <1>31, RaiseTyped DEF AppendRejected
  <2> QED BY <1>b, <1>31, <2>1, <2>2 DEF AppendRejected, TypeOK
<1>32. CASE Restart
  <2>1. pc' \in Points
    BY <1>32 DEF Restart, RecoveryEntry
  <2>2. op' \in OpType
    <3>1. op' = NoOp \/ \E w : /\ w = (IF Pending = {} THEN 0 ELSE Newest(Pending))
                              /\ lock # NoRequest /\ head = Len(journal)
                              /\ op' = [NoOp EXCEPT !.count = head, !.intent = intent, !.worker = w]
      BY Zenon, <1>32 DEF Restart, Goto
    <3>2. ASSUME NEW w, w = (IF Pending = {} THEN 0 ELSE Newest(Pending)), lock # NoRequest,
                 head = Len(journal)
          PROVE  [NoOp EXCEPT !.count = head, !.intent = intent, !.worker = w] \in OpType
      <4>1. w \in Nat /\ head \in Nat
        BY <1>a, <3>2, RestartFinds DEF Workers
      <4>2. [NoOp EXCEPT !.count = head] \in OpType
        BY <1>c, <4>1, OpEdit
      <4>3. [NoOp EXCEPT !.count = head, !.intent = intent] \in OpType
        BY Zenon, <1>a, <4>2, OpEdit
      <4> QED BY Zenon, <4>1, <4>3, OpEdit
    <3> QED BY Zenon, <1>c, <3>1, <3>2
  <2> QED BY Zenon, <1>b, <1>32, <2>1, <2>2 DEF Restart, RecoveryEntry, TypeOK
<1>33. CASE Tick
  <2>1. pc' \in Points /\ op' \in OpType
    BY <1>33 DEF Tick, NoOp, OpType
  <2> QED BY <1>b, <1>33, <2>1 DEF Tick, TypeOK
<1>34. ASSUME NEW r \in Requests, Acquire(r) \/ Busy(r) \/ AdmissionStops(r)
      PROVE  TypeOK'
  <2>1. pc' \in Points /\ op' \in OpType
    <3>1. [NoOp EXCEPT !.worker = 1] \in OpType
      BY Zenon, <1>c, OpEdit
    <3> QED BY <1>a, <1>34, <3>1, PointSet DEF Acquire, Busy, AdmissionStops, Goto
  <2>2. /\ lock' \in Requests \cup {NoRequest} /\ head' \in Nat \cup {-1} /\ intent' \in BOOLEAN
        /\ journal' \in Seq(Events \X Nat)
    <3>1. <<>> \in Seq(Events \X Nat)
      OBVIOUS
    <3>2. CASE Acquire(r)
      BY Zenon, <1>a, <3>1, <3>2 DEF Acquire
    <3>3. CASE Busy(r)
      BY <1>a, <3>3 DEF Busy
    <3>4. CASE AdmissionStops(r)
      BY Zenon, <1>a, <3>1, <3>4 DEF AdmissionStops
    <3> QED BY <1>34, <3>2, <3>3, <3>4
  <2>3. UNCHANGED <<boxes, sealed, effects, clock, settled, delivered, timedOut>>
    BY <1>34 DEF Acquire, Busy, AdmissionStops, world, told
  <2>4. /\ replayTorn' \in BOOLEAN /\ broker' \in {"down", "recovering", "serving"}
        /\ faults' \in 0 .. MaxFaults
    <3>2. CASE Acquire(r)
      BY <1>a, <3>2 DEF Acquire, NoFault
    <3>3. CASE Busy(r)
      BY <1>a, <3>3 DEF Busy, NoFault
    <3>4. CASE AdmissionStops(r)
      <4>1. replayTorn' \in BOOLEAN
        BY <1>a, <3>4, Zenon DEF AdmissionStops
      <4> QED BY <1>a, <3>4, <4>1 DEF AdmissionStops, Fault
    <3> QED BY <1>34, <3>2, <3>3, <3>4
  <2> QED BY Zenon, <1>a, <1>b, <2>1, <2>2, <2>3, <2>4 DEF TypeOK
<1> QED BY <1>1, <1>2, <1>3, <1>4, <1>5, <1>6, <1>7, <1>8, <1>9, <1>10, <1>11, <1>12, <1>13,
    <1>14, <1>15, <1>16, <1>17, <1>18, <1>19, <1>20, <1>21, <1>22, <1>23, <1>24, <1>25, <1>26,
    <1>27, <1>28, <1>29, <1>30, <1>31, <1>32, <1>33, <1>34 DEF Next, Journalling, Executing,
    RecoverySteps, Faulty

\* Every step keeps the parts of the invariant.
LEMMA LeasePartsStep ==
    ASSUME LedgerInv, LeaseInv, [Next]_vars
    PROVE  LeaseParts'
<1>1. CASE UNCHANGED vars
  BY <1>1, BusyKeeps DEF vars, disk
<1>2. CASE \E r \in Requests : Acquire(r) \/ Busy(r) \/ AdmissionStops(r)
  <2>1. ASSUME NEW r \in Requests, Acquire(r)
        PROVE  LeaseParts'
    BY <2>1, AcquireKeeps
  <2>2. ASSUME NEW r \in Requests, Busy(r)
        PROVE  LeaseParts'
    BY <2>2, BusyKeeps DEF Busy
  <2>3. ASSUME NEW r \in Requests, AdmissionStops(r)
        PROVE  LeaseParts'
    BY <2>3, AdmissionStopsKeeps
  <2> QED BY <1>2, <2>1, <2>2, <2>3
<1>3. CASE Journalling
  BY <1>3, WriteEntryKeeps, InstallLeaseHeadKeeps, AppendRejectedKeeps DEF Journalling
<1>4. CASE Executing
  BY <1>4, PhaseBeginsKeeps, RecordIntentKeeps, SealKeeps, CreateKeeps, InspectKeeps, StartKeeps,
     WaitAndReadKeeps, CleanupKeeps, EraseKeeps, WorkerReturnsKeeps, UnwindKeeps, SettleKeeps,
     FlushedKeeps, ReleaseKeeps DEF Executing
<1>5. CASE RecoverySteps \/ Restart
  BY <1>5, RecoverDeleteKeeps, RecoverSnapshotKeeps, RecoverSettleKeeps, RecoverUnlinkKeeps,
     HaltKeeps, RestartKeeps DEF RecoverySteps
<1>6. CASE Faulty
  BY <1>6, AppendFailsKeeps, CallFailsKeeps, CleanupFailsKeeps, UnwindFailsKeeps, TimeoutKeeps,
     PeerLostKeeps, WriteFailsKeeps, ReleaseRefusedKeeps, CrashKeeps DEF Faulty
<1>7. CASE Tick
  BY <1>7, TickKeeps
<1> QED BY <1>1, <1>2, <1>3, <1>4, <1>5, <1>6, <1>7 DEF Next

\* The invariant is inductive, together with the ledger's.
LEMMA LeaseStep ==
    ASSUME LedgerInv, LeaseInv, [Next]_vars
    PROVE  LedgerInv' /\ LeaseInv'
<1>1. LedgerInv'
  BY LedgerStep
<1>2. TypeOK'
  <2>1. CASE Next
    BY <1>1, <2>1, LeaseTyped
  <2>2. CASE UNCHANGED vars
    BY Zenon, <2>2 DEF LeaseInv, LeaseParts, TypeOK, vars, disk, world, told
  <2> QED BY <2>1, <2>2
<1> QED BY <1>1, <1>2, LeasePartsStep DEF LeaseInv, LeaseParts

\* It holds initially.
LEMMA LeaseInit == Init => LedgerInv /\ LeaseInv
<1> SUFFICES ASSUME Init PROVE LedgerInv /\ LeaseInv
  OBVIOUS
<1>0. LedgerInv
  BY LeaseAssumption DEF Init, LedgerInv, LedgerType
<1>a. /\ lock = NoRequest /\ pc = "idle" /\ op = NoOp /\ boxes = {} /\ sealed = {} /\ effects = {}
      /\ timedOut = {} /\ settled = {}
  BY DEF Init
<1>1. TypeOK
  <2>1. NoOp \in OpType
    BY DEF NoOp, OpType
  <2>2. <<>> \in Seq(Events \X Nat) /\ 0 \in 0 .. MaxClock /\ 0 \in 0 .. MaxFaults
    BY LeaseAssumption
  <2>3. pc \in Points
    BY <1>a, PointSet
  <2> QED BY Zenon, <2>1, <2>2, <2>3 DEF Init, TypeOK
<1>2. LockOK /\ WorkerOK /\ SyncOK /\ JournalOK
  BY <1>a DEF LockOK, WorkerOK, SyncOK, JournalOK, Early, AtWorker, Closing, Ending, Operating,
      Reconciling, Recovering
<1>3. BoxesOK /\ SealedOK /\ EffectsOK /\ EndOK
  BY <1>a DEF BoxesOK, SealedOK, EffectsOK, EndOK, NoOp, Early, AtWorker, Closing, Ending,
      Operating, Reconciling, Recovering
<1> QED BY <1>0, <1>1, <1>2, <1>3 DEF LeaseInv, LeaseParts

\* What is on disk accounts for the Engine at every moment: the broker's lease,
\* journal, containers, snapshot and effects agree as LeaseInv says.
THEOREM LeaseInvariant == Spec => [](LedgerInv /\ LeaseInv)
<1>1. Init => LedgerInv /\ LeaseInv
  BY LeaseInit
<1>2. LedgerInv /\ LeaseInv /\ [Next]_vars => (LedgerInv /\ LeaseInv)'
  BY LeaseStep
<1> QED BY <1>1, <1>2, PTL DEF Spec

\* Every variable of the lease keeps its type.
THEOREM TypeCorrect == Spec => []TypeOK
<1>1. LeaseInv => TypeOK
  BY DEF LeaseInv, LeaseParts
<1> QED BY <1>1, LeaseInvariant, PTL

\* The write-ahead rule: no container without its durable recorded entry, no
\* sealed snapshot without its intent or entry, no non-idempotent worker run
\* without its durable attempt, whatever crashes, failed or half-done calls and
\* timeouts come between.
THEOREM WriteAheadHolds == Spec => []WriteAhead
<1>1. LeaseInv => WriteAhead
  BY DEF LeaseInv, LeaseParts, BoxesOK, SealedOK, EffectsOK, Kept, WriteAhead
<1> QED BY <1>1, LeaseInvariant, PTL

\* An effect of unknown outcome is never forgotten by release() or recover().
THEOREM EffectAccountedHolds == Spec => []EffectAccounted
<1>1. LeaseInv => EffectAccounted
  BY DEF LeaseInv, LeaseParts, EffectsOK, EffectAccounted
<1> QED BY <1>1, LeaseInvariant, PTL

\* A terminal entry other than completed closes the journal (Open is what an
\* accepted entry needs), and no unlink is reached with it.
LEMMA ManualStaysStep ==
    ASSUME LeaseInv, [Next]_vars, lock # NoRequest, Last \in Manual
    PROVE  lock' = lock /\ journal' = journal /\ ran' = ran
<1> USE DEF disk, world, told, Quiet, Step
<1>a. ~Open /\ Last # "completed"
  BY OpenLast DEF LeaseInv, LeaseParts, TypeOK, Manual, Terminal
<1>1. CASE UNCHANGED vars
  BY <1>1 DEF vars
<1>2. CASE Journalling
  <2>1. CASE WriteEntry
    BY <1>a, <2>1, AcceptedFacts DEF WriteEntry
  <2> QED BY <1>2, <2>1 DEF Journalling, InstallLeaseHead, AppendRejected
<1>3. CASE Executing
  <2>1. CASE PhaseBegins \/ RecordIntent \/ Seal \/ Create \/ Inspect \/ Start
    BY <2>1 DEF PhaseBegins, RecordIntent, Seal, Create, Inspect, Start
  <2>2. CASE WaitAndRead \/ Cleanup \/ Erase \/ Unwind \/ Flushed
    BY <2>2 DEF WaitAndRead, Cleanup, Erase, Unwind, Flushed
  <2>3. CASE WorkerReturns
    BY <2>3 DEF WorkerReturns
  <2>4. CASE Settle
    BY <2>4 DEF Settle
  <2>5. ASSUME Release
        PROVE  FALSE
    BY <1>a, <2>5 DEF Release, LeaseInv, LeaseParts, EndOK
  <2> QED
    BY <1>3, <2>1, <2>2, <2>3, <2>4, <2>5 DEF Executing
<1>4. CASE RecoverySteps \/ Restart
  <2>1. CASE RecoverDelete \/ RecoverSnapshot \/ Halt \/ Restart
    BY <2>1 DEF RecoverDelete, RecoverSnapshot, Halt, Restart
  <2>2. CASE RecoverSettle
    BY <2>2 DEF RecoverSettle
  <2>3. ASSUME RecoverUnlink
        PROVE  FALSE
    BY <1>a, <2>3 DEF RecoverUnlink, LeaseInv, LeaseParts, EndOK
  <2> QED
    BY <1>4, <2>1, <2>2, <2>3 DEF RecoverySteps
<1>5. CASE Faulty
  <2>1. CASE AppendFails
    BY <1>a, <2>1, AcceptedFacts DEF AppendFails
  <2>2. CASE CallFails \/ CleanupFails \/ UnwindFails
    BY <2>2 DEF CallFails, CleanupFails, UnwindFails
  <2>3. CASE Timeout \/ PeerLost \/ WriteFails \/ ReleaseRefused \/ Crash
    BY <2>3 DEF Timeout, PeerLost, WriteFails, ReleaseRefused, Crash
  <2> QED
    BY <1>5, <2>1, <2>2, <2>3 DEF Faulty
<1>6. CASE Tick
  BY <1>6 DEF Tick
<1>7. ASSUME NEW r \in Requests, Acquire(r) \/ Busy(r) \/ AdmissionStops(r)
      PROVE  lock' = lock /\ journal' = journal /\ ran' = ran
  BY <1>7 DEF Acquire, Busy, AdmissionStops
<1> QED
  BY <1>1, <1>2, <1>3, <1>4, <1>5, <1>6, <1>7 DEF Next

\* A lease that asks for an operator stays as it is, whatever the broker does.
THEOREM ManualStaysHolds == Spec => ManualStays
<1>1. LeaseInv /\ [Next]_vars =>
          [lock # NoRequest /\ Last \in Manual =>
              lock' = lock /\ journal' = journal /\ ran' = ran]_vars
  BY ManualStaysStep
<1> QED BY <1>1, LeaseInvariant, PTL DEF Spec, ManualStays
=============================================================================
