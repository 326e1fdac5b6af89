------------------------- MODULE BackgroundProofs --------------------------
(* Safety of the backup queue for every policy and every set of processes,    *)
(* jobs and leases, and of the scheduler replicas, portals and operators that *)
(* call it; and of the status streams, for every set of runs, browsers and    *)
(* connections.                                                               *)
EXTENDS BackupScheduler, StatusStream, FiniteSetTheorems, SequenceTheorems, TLAPS

\* The fillers used for absent arguments are a job and a lease handle.
LEMMA NoCallTyped == NoCall \in Calls
<1>1. AnyJob \in Jobs
  BY DomainAssumption DEF AnyJob
<1>2. AnyLease \in LeaseIds
  BY DomainAssumption DEF AnyLease
<1>3. 0 \in Time
  BY PolicyAssumption DEF Time
<1> QED
  BY <1>1, <1>2, <1>3 DEF NoCall, Calls, Ops, TerminalStatuses

\* Entering a queue function (any caller, any arguments) keeps the types.
LEMMA RequestTyped ==
  ASSUME TypeOK, NEW p \in Procs, NEW op \in Ops, NEW j \in Jobs,
         NEW st \in TerminalStatuses, NEW l \in LeaseIds,
         Request(p, op, j, st, l)
  PROVE  TypeOK'
<1>1. call' \in [Procs -> Calls]
  BY DEF TypeOK, Request, Calls
<1>2. pc' \in [Procs -> {"idle", "waiting"} \cup Held]
  BY DEF TypeOK, Request
<1> QED
  BY <1>1, <1>2 DEF TypeOK, Request

\* Leaving a locked section keeps the types of the control state.
LEMMA LeaveTyped ==
  ASSUME TypeOK, NEW p \in Procs, NEW c \in Codes, Leave(p, c)
  PROVE  /\ pc' \in [Procs -> {"idle", "waiting"} \cup Held]
         /\ res' \in [Procs -> Codes]
BY DEF TypeOK, Leave, Held

\* Ending a call keeps the types of the control state.
LEMMA ReturnTyped ==
  ASSUME TypeOK, NEW p \in Procs, Return(p)
  PROVE  /\ pc' \in [Procs -> {"idle", "waiting"} \cup Held]
         /\ call' \in [Procs -> Calls]
         /\ res' \in [Procs -> Codes]
BY NoCallTyped DEF TypeOK, Return, Codes

\* Pruning keeps the types of the directories and documents.
LEMMA PruneTyped ==
  ASSUME TypeOK, NEW now \in Time, NEW left, PruneExcept(now, left)
  PROVE  /\ dir' \in [Statuses -> SUBSET Jobs]
         /\ doc' \in [Jobs -> Docs]
<1>1. NoDoc \in Docs
  BY PolicyAssumption DEF NoDoc, Docs, Statuses, Time
<1> QED
  BY <1>1 DEF TypeOK, PruneExcept

\* The queue starts in a typed state (empty directories, no lock).
LEMMA InitTyped == Init => TypeOK
<1>1. NoDoc \in Docs /\ 0 \in Time
  BY PolicyAssumption DEF NoDoc, Docs, Statuses, Time
<1> QED
  BY <1>1, NoCallTyped DEF Init, TypeOK, Held, Codes

\* Every step of every process, of the operator and of the clock keeps types.
LEMMA StepTyped == TypeOK /\ [Next]_vars => TypeOK'
<1> SUFFICES ASSUME TypeOK, [Next]_vars PROVE TypeOK'
  OBVIOUS
<1> USE DEF TypeOK
<1>n. NoDoc \in Docs
  BY PolicyAssumption DEF NoDoc, Docs, Statuses, Time
<1>c. {"none", "ok", "empty", "refused", "error"} \subseteq Codes
  BY DEF Codes
<1>h. \A p \in Procs : call[p] \in Calls /\ call[p].now \in Time /\ call[p].job \in Jobs
                       /\ call[p].status \in TerminalStatuses /\ call[p].lease \in LeaseIds
  BY DEF Calls
<1>1. CASE UNCHANGED vars
  BY <1>1 DEF vars
<1>2. ASSUME NEW p \in Procs,
             \/ RequestAdmit(p) \/ RequestClaim(p) \/ RequestAcquire(p)
             \/ RequestRelease(p) \/ RequestFinish(p) \/ RequestUnknown(p)
             \/ RequestPrune(p)
      PROVE TypeOK'
  <2>1. PICK op \in Ops, j \in Jobs, st \in TerminalStatuses, l \in LeaseIds :
           Request(p, op, j, st, l)
    <3>1. AnyJob \in Jobs /\ AnyLease \in LeaseIds
      BY DomainAssumption DEF AnyJob, AnyLease
    <3> QED
      BY <1>2, <3>1 DEF RequestAdmit, RequestClaim, RequestAcquire, RequestRelease,
         RequestFinish, RequestUnknown, RequestPrune, Ops, TerminalStatuses
  <2> QED
    BY <2>1, RequestTyped
<1>3. ASSUME NEW p \in Procs, Inside(p) PROVE TypeOK'
  <2>1. CASE TakeLock(p)
    BY <2>1 DEF TakeLock, Held
  <2>2. CASE LockTimeout(p)
    BY <2>2, ReturnTyped DEF LockTimeout
  <2>3. CASE ReleaseLock(p)
    BY <2>3, ReturnTyped DEF ReleaseLock
  <2>4. CASE Prune(p)
    <3>1. dir' \in [Statuses -> SUBSET Jobs] /\ doc' \in [Jobs -> Docs]
      BY <2>4, <1>h, PruneTyped DEF Prune, PruneTerminal
    <3>2. pc' \in [Procs -> {"idle", "waiting"} \cup Held] /\ res' \in [Procs -> Codes]
      BY <2>4, <1>c, LeaveTyped DEF Prune, Held
    <3> QED
      BY <2>4, <3>1, <3>2 DEF Prune
  <2>5. CASE Unreadable(p)
    BY <2>5, <1>c, LeaveTyped DEF Unreadable
  <2>6. CASE AdmitRefused(p)
    BY <2>6, <1>c, LeaveTyped DEF AdmitRefused
  <2>7. CASE AdmitRateLimited(p)
    BY <2>7, <1>c, LeaveTyped DEF AdmitRateLimited, Compacted
  <2>8. CASE AdmitReserve(p)
    <3>1. ledger' \subseteq Events
      BY <2>8, <1>h DEF AdmitReserve, Compacted, Events
    <3> QED
      BY <2>8, <3>1 DEF AdmitReserve, Held
  <2>9. CASE AdmitWriteJob(p)
    <3>1. admissions' \subseteq Admissions
      <4>1. [job |-> call[p].job, at |-> call[p].now, done |-> clock] \in Admissions
        BY <1>h DEF Admissions
      <4> QED
        BY <2>9, <4>1 DEF AdmitWriteJob
    <3>2. dir' \in [Statuses -> SUBSET Jobs]
      BY Zenon, <2>9, <1>h DEF AdmitWriteJob
    <3>3. [NoDoc EXCEPT !.created = call[p].now] \in Docs
      BY Zenon, <1>h, <1>n DEF NoDoc, Docs
    <3>4. doc' \in [Jobs -> Docs]
      BY Zenon, <2>9, <3>3 DEF AdmitWriteJob
    <3> QED
      BY <2>9, <3>1, <3>2, <3>4, <1>c, LeaveTyped DEF AdmitWriteJob
  <2>10. CASE AdmitWriteFails(p)
    BY <2>10, <1>c, LeaveTyped DEF AdmitWriteFails
  <2>11. CASE ClaimNothing(p)
    BY <2>11, <1>c, LeaveTyped DEF ClaimNothing
  <2>12. CASE ClaimRename(p)
    <3>1. PICK j \in dir["queued"] :
            /\ dir' = [dir EXCEPT !["queued"] = @ \ {j}, !["running"] = @ \cup {j}]
            /\ call' = [call EXCEPT ![p].job = j]
      BY Zenon, <2>12 DEF ClaimRename
    <3>2. j \in Jobs
      BY DEF Statuses
    <3>3. call' \in [Procs -> Calls]
      BY Zenon, <3>1, <3>2, <1>h DEF Calls
    <3> QED
      BY <2>12, <3>1, <3>2, <3>3 DEF ClaimRename, Held, Statuses
  <2>13. CASE ClaimWrite(p)
    <3>1. doc' \in [Jobs -> Docs]
      BY <2>13, <1>h DEF ClaimWrite, Docs, Statuses
    <3> QED
      BY <2>13, <3>1, <1>c, LeaveTyped DEF ClaimWrite
  <2>14. CASE ClaimWriteFails(p)
    <3>1. dir' \in [Statuses -> SUBSET Jobs]
      BY <2>14, <1>h DEF ClaimWriteFails, Statuses
    <3> QED
      BY <2>14, <3>1, <1>c, LeaveTyped DEF ClaimWriteFails
  <2>15. CASE AcquireNothing(p)
    BY <2>15, <1>c, LeaveTyped DEF AcquireNothing
  <2>16. CASE AcquireLease(p)
    <3>1. call' \in [Procs -> Calls] /\ leases' \subseteq LeaseIds
      BY <2>16, <1>h DEF AcquireLease, Calls
    <3> QED
      BY <2>16, <3>1, <1>c, LeaveTyped DEF AcquireLease
  <2>17. CASE ReleaseLease(p)
    <3>1. PICK c \in Codes : Leave(p, c)
      BY <2>17, <1>c DEF ReleaseLease
    <3> QED
      BY <2>17, <3>1, LeaveTyped DEF ReleaseLease
  <2>18. CASE FinishRefused(p)
    BY <2>18, <1>c, LeaveTyped DEF FinishRefused
  <2>19. CASE FinishWrite(p)
    <3> DEFINE d == [doc[call[p].job] EXCEPT !.status = call[p].status,
                                             !.finished = call[p].now,
                                             !.unknown = FALSE]
    <3>2. call[p].job \in Jobs /\ call[p].now \in Time /\ call[p].status \in Statuses
      BY <1>h DEF Statuses, TerminalStatuses
    <3>3. doc[call[p].job] \in Docs
      BY <3>2
    <3>4. d \in Docs
      BY Zenon, <3>2, <3>3 DEF Docs
    <3>5. doc' = [doc EXCEPT ![call[p].job] = d]
      BY <2>19 DEF FinishWrite
    <3> HIDE DEF d
    <3>1. doc' \in [Jobs -> Docs]
      BY <3>2, <3>4, <3>5
    <3> QED
      BY <2>19, <3>1 DEF FinishWrite, Held
  <2>20. CASE FinishRename(p)
    <3>1. dir' \in [Statuses -> SUBSET Jobs]
      BY <2>20, <1>h DEF FinishRename, Statuses, TerminalStatuses
    <3> QED
      BY <2>20, <3>1 DEF FinishRename, Held
  <2>21. CASE FinishRenameFails(p)
    BY <2>21, <1>c, LeaveTyped DEF FinishRenameFails
  <2>22. CASE FinishPrune(p)
    <3>1. dir' \in [Statuses -> SUBSET Jobs] /\ doc' \in [Jobs -> Docs]
      BY <2>22, <1>h, PruneTyped DEF FinishPrune, PruneTerminal
    <3> QED
      BY <2>22, <3>1, <1>c, LeaveTyped DEF FinishPrune
  <2>23. CASE MarkUnknown(p)
    <3>1. doc' \in [Jobs -> Docs]
      BY Zenon, <2>23, <1>h DEF MarkUnknown, Docs
    <3> QED
      BY <2>23, <3>1, <1>c, LeaveTyped DEF MarkUnknown
  <2>24. CASE PruneStops(p)
    <3>1. dir' \in [Statuses -> SUBSET Jobs] /\ doc' \in [Jobs -> Docs]
      BY <2>24, <1>h, PruneTyped DEF PruneStops
    <3> QED
      BY <2>24, <3>1, <1>c, LeaveTyped DEF PruneStops
  <2>25. CASE Throws(p)
    BY <2>25, <1>c, LeaveTyped DEF Throws, Compacted
  <2> QED
    BY <1>3, <2>1, <2>2, <2>3, <2>4, <2>5, <2>6, <2>7, <2>8, <2>9, <2>10, <2>11,
       <2>12, <2>13, <2>14, <2>15, <2>16, <2>17, <2>18, <2>19, <2>20, <2>21,
       <2>22, <2>23, <2>24, <2>25 DEF Inside, LockedStep, IOFailure
<1>4. ASSUME NEW p \in Procs, Crash(p) PROVE TypeOK'
  BY <1>4, ReturnTyped DEF Crash
<1>5. CASE OperatorClearsLock
  BY <1>5 DEF OperatorClearsLock
<1>6. CASE Tick
  BY <1>6, PolicyAssumption DEF Tick, Time
<1> QED
  BY <1>1, <1>2, <1>3, <1>4, <1>5, <1>6 DEF Next

\* The types of the queue's durable and process state hold in every behaviour.
THEOREM TypeCorrect == Spec => []TypeOK
BY InitTyped, StepTyped, PTL DEF Spec

-----------------------------------------------------------------------------
(* Finite sets                                                               *)

\* There are finitely many possible ledger events.
LEMMA EventsFinite == IsFiniteSet(Events)
<1> DEFINE f == [x \in Jobs \X Time |-> [job |-> x[1], at |-> x[2]]]
<1>1. IsFiniteSet(Time)
  BY FS_Interval, PolicyAssumption DEF Time
<1>2. IsFiniteSet(Jobs \X Time)
  BY <1>1, DomainAssumption, FS_Product
<1>3. f \in [Jobs \X Time -> Events]
  BY DEF Events
<1>4. \A e \in Events : \E x \in Jobs \X Time : f[x] = e
  <2> SUFFICES ASSUME NEW e \in Events PROVE \E x \in Jobs \X Time : f[x] = e
    OBVIOUS
  <2>1. <<e.job, e.at>> \in Jobs \X Time /\ e = [job |-> e.job, at |-> e.at]
    BY DEF Events
  <2> QED
    BY <2>1
<1>5. f \in Surjection(Jobs \X Time, Events)
  BY <1>3, <1>4 DEF Surjection
<1> QED
  BY <1>2, <1>5, FS_Surjection

\* Nor are there more admissions than events and instants at which they are made.
LEMMA AdmissionsFinite == IsFiniteSet(Admissions)
<1> DEFINE f == [x \in Events \X Time |-> [job |-> x[1].job, at |-> x[1].at, done |-> x[2]]]
<1>1. IsFiniteSet(Time)
  BY FS_Interval, PolicyAssumption DEF Time
<1>2. IsFiniteSet(Events \X Time)
  BY <1>1, EventsFinite, FS_Product
<1>3. f \in [Events \X Time -> Admissions]
  BY DEF Events, Admissions
<1>4. \A a \in Admissions : \E x \in Events \X Time : f[x] = a
  <2> SUFFICES ASSUME NEW a \in Admissions PROVE \E x \in Events \X Time : f[x] = a
    OBVIOUS
  <2>1. [job |-> a.job, at |-> a.at] \in Events /\ a.done \in Time
    BY DEF Events, Admissions
  <2>2. a = [job |-> a.job, at |-> a.at, done |-> a.done]
    BY DEF Admissions
  <2>3. <<[job |-> a.job, at |-> a.at], a.done>> \in Events \X Time
    BY <2>1
  <2> QED
    BY <2>2, <2>3
<1>5. f \in Surjection(Events \X Time, Admissions)
  BY <1>3, <1>4 DEF Surjection
<1> QED
  BY <1>2, <1>5, FS_Surjection

\* All the sets whose sizes the queue compares are finite.
LEMMA QueueFinite ==
  ASSUME TypeOK
  PROVE  /\ \A s \in Statuses : IsFiniteSet(dir[s]) /\ Cardinality(dir[s]) \in Nat
         /\ IsFiniteSet(leases) /\ Cardinality(leases) \in Nat
         /\ IsFiniteSet(Active) /\ Cardinality(Active) \in Nat
         /\ IsFiniteSet(admissions)
         /\ IsFiniteSet(ledger)
         /\ \A P : IsFiniteSet(InWindow(P)) /\ Cardinality(InWindow(P)) \in Nat
<1>1. \A s \in Statuses : IsFiniteSet(dir[s]) /\ Cardinality(dir[s]) \in Nat
  BY DomainAssumption, FS_Subset, FS_CardinalityType DEF TypeOK
<1>2. IsFiniteSet(leases) /\ Cardinality(leases) \in Nat
  BY DomainAssumption, FS_Subset, FS_CardinalityType DEF TypeOK
<1>3. Active \subseteq Jobs
  BY DEF TypeOK, Active, Statuses
<1>4. IsFiniteSet(Active) /\ Cardinality(Active) \in Nat
  BY Zenon, <1>3, DomainAssumption, FS_Subset, FS_CardinalityType
<1>5. IsFiniteSet(admissions) /\ IsFiniteSet(ledger)
  BY EventsFinite, AdmissionsFinite, FS_Subset DEF TypeOK
<1>6. ASSUME NEW P PROVE IsFiniteSet(InWindow(P)) /\ Cardinality(InWindow(P)) \in Nat
  <2>1. InWindow(P) \subseteq Events
    BY DEF InWindow, Stamp, Events, Admissions, TypeOK
  <2> QED
    BY <2>1, EventsFinite, FS_Subset, FS_CardinalityType
<1> QED
  BY <1>1, <1>2, <1>4, <1>5, <1>6

-----------------------------------------------------------------------------
(* The lock                                                                  *)

\* Two processes are never inside withQueueLock's action at once.
LEMMA Exclusive ==
  ASSUME LockDiscipline, NEW p \in Procs, NEW q \in Procs,
         pc[p] \in Held, pc[q] \in Held
  PROVE  p = q
BY DEF LockDiscipline

\* mkdir, the owner check of the release, a crash and the operator's removal
\* of an abandoned lock keep the lock with the process inside the section.
LEMMA LockStep ==
  ASSUME TypeOK, LockDiscipline, [Next]_vars
  PROVE  LockDiscipline'
<1> USE DEF LockDiscipline, TypeOK
<1>1. CASE UNCHANGED vars
  BY <1>1 DEF vars
<1>2. ASSUME NEW p \in Procs, NEW op, NEW j, NEW st, NEW l, Request(p, op, j, st, l)
      PROVE  LockDiscipline'
  BY <1>2 DEF Request, Held
<1>3. ASSUME NEW p \in Procs, Inside(p) PROVE LockDiscipline'
  <2>1. CASE TakeLock(p)
    BY <2>1, DomainAssumption DEF TakeLock
  <2>2. CASE LockTimeout(p) \/ ReleaseLock(p)
    BY <2>2 DEF LockTimeout, ReleaseLock, Return, Held
  <2>3. CASE ~(TakeLock(p) \/ LockTimeout(p) \/ ReleaseLock(p))
    <3>1. /\ lock' = lock
          /\ pc[p] \in Held
          /\ \A q \in Procs : q # p => pc'[q] = pc[q]
      BY <1>3, <2>3 DEF Inside, LockedStep, IOFailure, At, Leave, Prune, Unreadable, AdmitRefused,
         AdmitRateLimited, AdmitReserve, AdmitWriteJob, AdmitWriteFails,
         ClaimNothing, ClaimRename, ClaimWrite, ClaimWriteFails, AcquireNothing,
         AcquireLease, ReleaseLease, FinishRefused, FinishWrite, FinishRename,
         FinishRenameFails, FinishPrune, MarkUnknown, PruneStops, Throws, Held
    <3> QED
      BY <3>1
  <2> QED
    BY <2>1, <2>2, <2>3
<1>4. ASSUME NEW p \in Procs, Crash(p) PROVE LockDiscipline'
  BY <1>4 DEF Crash, Return, Held
<1>5. CASE OperatorClearsLock
  BY <1>5 DEF OperatorClearsLock
<1>6. CASE Tick
  BY <1>6 DEF Tick
<1> QED
  BY <1>1, <1>2, <1>3, <1>4, <1>5, <1>6 DEF Next, RequestAdmit, RequestClaim,
     RequestAcquire, RequestRelease, RequestFinish, RequestUnknown, RequestPrune

\* Calls take their time from the clock, which never goes back.
LEMMA TimesStep ==
  ASSUME TypeOK, CallTimes, [Next]_vars
  PROVE  CallTimes'
<1> USE DEF CallTimes, TypeOK
<1>0. clock \in Int /\ 0 =< clock /\ NoCall.now = 0
  BY PolicyAssumption DEF Time, NoCall
<1>1. CASE UNCHANGED vars
  BY <1>1 DEF vars
<1>2. ASSUME NEW p \in Procs, NEW op, NEW j, NEW st, NEW l, Request(p, op, j, st, l)
      PROVE  CallTimes'
  BY <1>0, <1>2 DEF Request
<1>3. ASSUME NEW p \in Procs, Inside(p) PROVE CallTimes'
  <2>1. CASE LockTimeout(p) \/ ReleaseLock(p)
    BY <2>1, <1>0 DEF LockTimeout, ReleaseLock, Return
  <2>2. CASE ClaimRename(p)
    <3>1. PICK j : call' = [call EXCEPT ![p].job = j]
      BY Zenon, <2>2 DEF ClaimRename
    <3> QED
      BY <2>2, <3>1 DEF ClaimRename, Calls
  <2>3. CASE AcquireLease(p)
    <3>1. PICK l : call' = [call EXCEPT ![p].lease = l]
      BY Zenon, <2>3 DEF AcquireLease
    <3> QED
      BY <2>3, <3>1 DEF AcquireLease, Calls
  <2>4. CASE ~(LockTimeout(p) \/ ReleaseLock(p) \/ ClaimRename(p) \/ AcquireLease(p))
    <3>1. call' = call /\ clock' = clock
      BY <1>3, <2>4 DEF Inside, LockedStep, IOFailure, TakeLock, Prune, Unreadable, AdmitRefused,
         AdmitRateLimited, AdmitReserve, AdmitWriteJob, AdmitWriteFails,
         ClaimNothing, ClaimWrite, ClaimWriteFails, AcquireNothing,
         ReleaseLease, FinishRefused, FinishWrite, FinishRename,
         FinishRenameFails, FinishPrune, MarkUnknown, PruneStops, Throws
    <3> QED
      BY <3>1
  <2> QED
    BY <2>1, <2>2, <2>3, <2>4
<1>4. ASSUME NEW p \in Procs, Crash(p) PROVE CallTimes'
  BY <1>4, <1>0 DEF Crash, Return
<1>5. CASE OperatorClearsLock
  BY <1>5 DEF OperatorClearsLock
<1>6. CASE Tick
  <2>1. \A q \in Procs : call[q].now \in Int
    BY DEF Calls, Time
  <2> QED
    BY <1>6, <1>0, <2>1 DEF Tick
<1> QED
  BY <1>1, <1>2, <1>3, <1>4, <1>5, <1>6 DEF Next, RequestAdmit, RequestClaim,
     RequestAcquire, RequestRelease, RequestFinish, RequestUnknown, RequestPrune

-----------------------------------------------------------------------------
(* The directories                                                           *)

\* Removing files or leases (retention, a release) or touching neither keeps
\* every bound on the directories.
LEMMA DirectoryShrink ==
  ASSUME TypeOK, TypeOK', DirectoryInv,
         \A s \in Statuses : dir'[s] \subseteq dir[s],
         leases' \subseteq leases
  PROVE  DirectoryInv'
<1>1. Active' \subseteq Active
  BY DEF Active, Statuses
<1>2. SingleHome' /\ NoDuplicateActive'
  BY <1>1 DEF DirectoryInv, SingleHome, NoDuplicateActive
<1>3. Cardinality(Active') =< Cardinality(Active) /\ Cardinality(Active') \in Nat
  BY <1>1, QueueFinite, FS_Subset, FS_CardinalityType
<1>4. Cardinality(dir'["running"]) =< Cardinality(dir["running"])
      /\ Cardinality(dir'["running"]) \in Nat
  BY QueueFinite, FS_Subset, FS_CardinalityType DEF Statuses
<1>5. Cardinality(leases') =< Cardinality(leases) /\ Cardinality(leases') \in Nat
  BY QueueFinite, FS_Subset, FS_CardinalityType
<1>6. Cardinality(Active) \in Nat /\ Cardinality(leases) \in Nat
      /\ Cardinality(dir["running"]) \in Nat
  BY QueueFinite DEF Statuses
<1>7. OutstandingBound'
  BY <1>3, <1>6, PolicyAssumption DEF DirectoryInv, OutstandingBound
<1>8. ConcurrencyBudget'
  BY <1>4, <1>5, <1>6, PolicyAssumption DEF DirectoryInv, ConcurrencyBudget, Executing
<1> QED
  BY <1>2, <1>7, <1>8 DEF DirectoryInv

\* The job write of an admission uses the room its checks found.
LEMMA AdmitDirectory ==
  ASSUME TypeOK, DirectoryInv, NEW p \in Procs, AdmitWriteJob(p), Reservation(p)
  PROVE  DirectoryInv'
<1> DEFINE j == call[p].job
<1>1. j \in Jobs
  BY DEF TypeOK, Calls
<1>2. /\ dir' = [dir EXCEPT !["queued"] = dir["queued"] \cup {j}]
      /\ leases' = leases
  BY DEF AdmitWriteJob
<1>3. /\ \A k \in Active : KeyOf[k] # KeyOf[j]
      /\ \A s \in Statuses : j \notin dir[s]
      /\ Cardinality(dir["queued"]) + Cardinality(dir["running"])
           + Cardinality(leases) < MaxOutstanding
  BY DEF Reservation, AdmissionClear
<1>4. dir'["queued"] = dir["queued"] \cup {j} /\ dir'["running"] = dir["running"]
      /\ dir'["done"] = dir["done"] /\ dir'["failed"] = dir["failed"]
  BY <1>2 DEF TypeOK, Statuses
<1>5. Active' = Active \cup {j}
  BY <1>4 DEF Active
<1>6. SingleHome'
  BY <1>3, <1>4 DEF DirectoryInv, SingleHome, Statuses
<1>7. NoDuplicateActive'
  BY <1>3, <1>5 DEF DirectoryInv, NoDuplicateActive
<1>8. ConcurrencyBudget'
  BY <1>2, <1>4 DEF DirectoryInv, ConcurrencyBudget, Executing
<1>9. Cardinality(Active) < MaxOutstanding
  <2>1. /\ IsFiniteSet(dir["queued"]) /\ IsFiniteSet(dir["running"])
        /\ Cardinality(dir["queued"]) \in Nat /\ Cardinality(dir["running"]) \in Nat
        /\ Cardinality(leases) \in Nat /\ Cardinality(Active) \in Nat
    BY QueueFinite DEF Statuses
  <2>2. Cardinality(dir["queued"] \cap dir["running"]) \in Nat
    BY <2>1, FS_Subset, FS_CardinalityType
  <2>3. Cardinality(Active) = Cardinality(dir["queued"]) + Cardinality(dir["running"])
                               - Cardinality(dir["queued"] \cap dir["running"])
    BY <2>1, FS_Union DEF Active
  <2> QED
    BY <2>1, <2>2, <2>3, <1>3, PolicyAssumption
<1>10. OutstandingBound'
  <2>1. IsFiniteSet(Active) /\ Cardinality(Active) \in Nat /\ j \notin Active
    BY <1>3, QueueFinite DEF Active, Statuses
  <2>2. Cardinality(Active \cup {j}) = Cardinality(Active) + 1
    BY Zenon, <2>1, FS_AddElement
  <2> QED
    BY <1>5, <1>9, <2>1, <2>2, PolicyAssumption DEF OutstandingBound
<1> QED
  BY <1>6, <1>7, <1>8, <1>10 DEF DirectoryInv

\* Moving a queued file to running takes the slot the claim saw free.
LEMMA ClaimDirectory ==
  ASSUME TypeOK, DirectoryInv, NEW p \in Procs, ClaimRename(p)
  PROVE  DirectoryInv'
<1>1. PICK j \in dir["queued"] :
        dir' = [dir EXCEPT !["queued"] = @ \ {j}, !["running"] = @ \cup {j}]
  BY Zenon DEF ClaimRename
<1>2. Executing < MaxConcurrency /\ leases' = leases
  BY DEF ClaimRename
<1>3. dir'["queued"] = dir["queued"] \ {j} /\ dir'["running"] = dir["running"] \cup {j}
      /\ dir'["done"] = dir["done"] /\ dir'["failed"] = dir["failed"]
  BY <1>1 DEF TypeOK, Statuses
<1>4. Active' = Active
  BY <1>3 DEF Active
<1>5. \A s \in Statuses : s # "queued" => j \notin dir[s]
  BY DEF DirectoryInv, SingleHome, Statuses
<1>6. SingleHome'
  BY <1>3, <1>5 DEF DirectoryInv, SingleHome, Statuses
<1>7. Cardinality(dir["running"] \cup {j}) = Cardinality(dir["running"]) + 1
  BY Zenon, <1>5, QueueFinite, FS_AddElement DEF Statuses
<1>8. Cardinality(dir["running"]) \in Nat /\ Cardinality(leases) \in Nat
  BY QueueFinite DEF Statuses
<1>9. ConcurrencyBudget'
  BY <1>2, <1>3, <1>7, <1>8, PolicyAssumption DEF ConcurrencyBudget, Executing
<1>10. NoDuplicateActive' /\ OutstandingBound'
  BY <1>4 DEF DirectoryInv, NoDuplicateActive, OutstandingBound
<1> QED
  BY <1>6, <1>9, <1>10 DEF DirectoryInv

\* A failed claim gives the slot back when it can rename the file back, and
\* keeps it occupied when it cannot.
LEMMA UnclaimDirectory ==
  ASSUME TypeOK, TypeOK', DirectoryInv, NEW p \in Procs, ClaimWriteFails(p), HalfWay(p)
  PROVE  DirectoryInv'
<1> DEFINE j == call[p].job
<1>0. j \in dir["running"] /\ leases' = leases
  BY DEF ClaimWriteFails, HalfWay
<1>1. CASE dir' = dir
  BY <1>0, <1>1, DirectoryShrink
<1>2. CASE dir' # dir
  <2>1. dir'["queued"] = dir["queued"] \cup {j} /\ dir'["running"] = dir["running"] \ {j}
        /\ dir'["done"] = dir["done"] /\ dir'["failed"] = dir["failed"]
    BY <1>2 DEF ClaimWriteFails, TypeOK, Statuses
  <2>2. Active' = Active
    BY <1>0, <2>1 DEF Active
  <2>3. \A s \in Statuses : s # "running" => j \notin dir[s]
    BY <1>0 DEF DirectoryInv, SingleHome, Statuses
  <2>4. SingleHome'
    BY <2>1, <2>3 DEF DirectoryInv, SingleHome, Statuses
  <2>5. IsFiniteSet(dir["running"]) /\ Cardinality(dir["running"]) \in Nat
        /\ Cardinality(leases) \in Nat
    BY QueueFinite DEF Statuses
  <2>6. Cardinality(dir["running"] \ {j}) = Cardinality(dir["running"]) - 1
    BY Zenon, <1>0, <2>5, FS_RemoveElement
  <2>7. ConcurrencyBudget'
    BY <1>0, <2>1, <2>5, <2>6, PolicyAssumption
       DEF DirectoryInv, ConcurrencyBudget, Executing
  <2>8. NoDuplicateActive' /\ OutstandingBound'
    BY <2>2 DEF DirectoryInv, NoDuplicateActive, OutstandingBound
  <2> QED
    BY <2>4, <2>7, <2>8 DEF DirectoryInv
<1> QED
  BY <1>1, <1>2

\* Moving a finished file out of running frees its slot.
LEMMA FinishDirectory ==
  ASSUME TypeOK, TypeOK', DirectoryInv, NEW p \in Procs, FinishRename(p), HalfWay(p)
  PROVE  DirectoryInv'
<1> DEFINE j == call[p].job
           t == call[p].status
<1>1. t \in {"done", "failed"} /\ j \in dir["running"] /\ leases' = leases
  BY DEF TypeOK, Calls, TerminalStatuses, FinishRename, HalfWay
<1>2. dir'["queued"] = dir["queued"] /\ dir'["running"] = dir["running"] \ {j}
      /\ dir'["done"] \subseteq dir["done"] \cup {j}
      /\ dir'["failed"] \subseteq dir["failed"] \cup {j}
      /\ (t = "done" => dir'["failed"] = dir["failed"])
      /\ (t = "failed" => dir'["done"] = dir["done"])
  BY <1>1 DEF TypeOK, Statuses, FinishRename
<1>3. \A s \in Statuses : s # "running" => j \notin dir[s]
  BY <1>1 DEF DirectoryInv, SingleHome, Statuses
<1>4. SingleHome'
  BY <1>1, <1>2, <1>3 DEF DirectoryInv, SingleHome, Statuses
<1>5. Active' \subseteq Active
  BY <1>2 DEF Active
<1>6. NoDuplicateActive'
  BY <1>5 DEF DirectoryInv, NoDuplicateActive
<1>7. Cardinality(Active') =< Cardinality(Active) /\ Cardinality(Active') \in Nat
      /\ Cardinality(Active) \in Nat
  <2>1. IsFiniteSet(Active) /\ Cardinality(Active) \in Nat
    BY QueueFinite
  <2> QED
    BY <1>5, <2>1, FS_Subset, FS_CardinalityType
<1>8. OutstandingBound'
  BY <1>7, PolicyAssumption DEF DirectoryInv, OutstandingBound
<1>9. Cardinality(dir["running"] \ {j}) = Cardinality(dir["running"]) - 1
      /\ Cardinality(dir["running"]) \in Nat /\ Cardinality(leases) \in Nat
  <2>1. IsFiniteSet(dir["running"]) /\ Cardinality(dir["running"]) \in Nat
        /\ Cardinality(leases) \in Nat
    BY QueueFinite DEF Statuses
  <2> QED
    BY Zenon, <1>1, <2>1, FS_RemoveElement
<1>10. ConcurrencyBudget'
  BY <1>1, <1>2, <1>9, PolicyAssumption DEF DirectoryInv, ConcurrencyBudget, Executing
<1> QED
  BY <1>4, <1>6, <1>8, <1>10 DEF DirectoryInv

\* A new lease takes the slot its acquisition saw free.
LEMMA LeaseDirectory ==
  ASSUME TypeOK, DirectoryInv, NEW p \in Procs, AcquireLease(p)
  PROVE  DirectoryInv'
<1>1. PICK l \in LeaseIds \ leases : leases' = leases \cup {l}
  BY DEF AcquireLease
<1>2. Executing < MaxConcurrency /\ dir' = dir
  BY DEF AcquireLease
<1>3. Cardinality(leases \cup {l}) = Cardinality(leases) + 1
  BY Zenon, <1>1, QueueFinite, FS_AddElement
<1>4. Cardinality(dir["running"]) \in Nat /\ Cardinality(leases) \in Nat
  BY QueueFinite DEF Statuses
<1>5. ConcurrencyBudget'
  BY <1>1, <1>2, <1>3, <1>4, PolicyAssumption DEF ConcurrencyBudget, Executing
<1> QED
  BY <1>2, <1>5 DEF DirectoryInv, SingleHome, NoDuplicateActive, OutstandingBound, Active

-----------------------------------------------------------------------------
(* The ledger                                                                *)

LedgerInv == LedgerNeverUndercounts /\ RateInWindow

\* The window slides on and the ledger only grows, or nothing changes: the
\* rate facts stay, and the admissions in the window are among the old ones.
LEMMA LedgerKeeps ==
  ASSUME TypeOK, TypeOK', LedgerInv, admissions' = admissions, clock =< clock',
         \A a \in admissions : Stamp(a) \in ledger => Stamp(a) \in ledger'
  PROVE  LedgerInv' /\ \A P : Cardinality(InWindow(P)') =< Cardinality(InWindow(P))
<1>1. \A a \in admissions : a.at \in Int
  BY DEF TypeOK, Admissions, Time
<1>2. clock \in Int /\ clock' \in Int /\ Window \in Int
  BY PolicyAssumption DEF TypeOK, Time
<1>3. LedgerNeverUndercounts'
  BY <1>1, <1>2 DEF LedgerInv, LedgerNeverUndercounts, Stamp
<1>4. ASSUME NEW P
      PROVE  /\ Cardinality(InWindow(P)') =< Cardinality(InWindow(P))
             /\ Cardinality(InWindow(P)') \in Nat
             /\ Cardinality(InWindow(P)) \in Nat
  <2>1. InWindow(P)' \subseteq InWindow(P)
    BY <1>1, <1>2 DEF InWindow, Principal, Stamp
  <2>2. IsFiniteSet(InWindow(P)) /\ Cardinality(InWindow(P)) \in Nat
    BY QueueFinite
  <2> QED
    BY <2>1, <2>2, FS_Subset, FS_CardinalityType
<1>5. RateInWindow'
  BY <1>4, PolicyAssumption DEF LedgerInv, RateInWindow
<1> QED
  BY <1>3, <1>4, <1>5 DEF LedgerInv

\* Compaction by a caller whose clock reading is old drops only events that
\* are out of the window for everybody.
LEMMA CompactionKeeps ==
  ASSUME TypeOK, CallTimes, LedgerInv, NEW p \in Procs,
         NEW a \in admissions, clock - a.at < Window
  PROVE  Stamp(a) \in Compacted(call[p].now)
<1>1. Stamp(a) \in ledger /\ Stamp(a).at = a.at
  BY DEF LedgerInv, LedgerNeverUndercounts, Stamp
<1>2. call[p].now =< clock /\ call[p].now \in Int /\ clock \in Int /\ a.at \in Int
  BY DEF CallTimes, TypeOK, Calls, Admissions, Time
<1>3. Window \in Int
  BY PolicyAssumption
<1> QED
  BY <1>1, <1>2, <1>3 DEF Compacted

\* Writing the reservation establishes what the job write will rely on.
LEMMA ReserveLedger ==
  ASSUME TypeOK, TypeOK', CallTimes, LedgerInv, NEW p \in Procs, AdmitReserve(p)
  PROVE  LedgerInv' /\ Reservation(p)'
<1> DEFINE j == call[p].job
           now == call[p].now
           P == PrincipalOf[j]
           mine == {e \in Compacted(now) : Principal(e) = P}
<1>1. /\ ledger' = Compacted(now) \cup {[job |-> j, at |-> now]}
      /\ UNCHANGED <<dir, doc, leases, call, clock, admissions>>
      /\ Readable(Statuses) /\ AdmissionClear(j)
      /\ Cardinality(mine) < MaxPerPrincipal
  BY DEF AdmitReserve, SnapshotOK, LedgerClear
<1>2. LedgerNeverUndercounts'
  BY <1>1, CompactionKeeps DEF LedgerNeverUndercounts, Stamp
<1>3. RateInWindow'
  BY Zenon, <1>1 DEF LedgerInv, RateInWindow, InWindow, Principal, Stamp
<1>4. InWindow(P) \subseteq mine
  <2> SUFFICES ASSUME NEW a \in admissions, Principal(a) = P, clock - a.at < Window
               PROVE  Stamp(a) \in mine
    BY DEF InWindow
  <2>1. Stamp(a) \in Compacted(now)
    BY CompactionKeeps
  <2>2. Principal(Stamp(a)) = P
    BY DEF Principal, Stamp
  <2> QED
    BY <2>1, <2>2
<1>5. IsFiniteSet(mine)
  <2>1. mine \subseteq ledger
    BY DEF Compacted
  <2> QED
    BY <2>1, QueueFinite, FS_Subset
<1>6. Cardinality(InWindow(P)) =< Cardinality(mine)
  BY <1>4, <1>5, FS_Subset
<1>7. Cardinality(InWindow(P)) < MaxPerPrincipal
  <2>1. Cardinality(InWindow(P)) \in Nat /\ Cardinality(mine) \in Nat
    BY <1>5, QueueFinite, FS_CardinalityType
  <2> QED
    BY <2>1, <1>1, <1>6, PolicyAssumption
<1>8. Readable(Statuses)' /\ AdmissionClear(j)'
  BY <1>1 DEF Readable, AdmissionClear, Active
<1>9. InWindow(P)' = InWindow(P) /\ call' = call
  BY <1>1 DEF InWindow, Principal, Stamp
<1> QED
  BY <1>1, <1>2, <1>3, <1>7, <1>8, <1>9 DEF LedgerInv, Reservation

\* The job write turns the reservation into an admission.
LEMMA AdmitLedger ==
  ASSUME TypeOK, TypeOK', LedgerInv, NEW p \in Procs, AdmitWriteJob(p), Reservation(p)
  PROVE  LedgerInv'
<1> DEFINE a == [job |-> call[p].job, at |-> call[p].now, done |-> clock]
           e == [job |-> call[p].job, at |-> call[p].now]
<1>1. admissions' = admissions \cup {a} /\ ledger' = ledger /\ clock' = clock
  BY DEF AdmitWriteJob
<1>s. Stamp(a) = e /\ Principal(a) = PrincipalOf[call[p].job]
  BY DEF Stamp, Principal
<1>2. e \in ledger /\ Cardinality(InWindow(PrincipalOf[call[p].job])) < MaxPerPrincipal
  BY DEF Reservation
<1> HIDE DEF a
<1>3. LedgerNeverUndercounts'
  BY <1>1, <1>2, <1>s DEF LedgerInv, LedgerNeverUndercounts, Stamp
<1>4. ASSUME NEW P \in {PrincipalOf[j] : j \in Jobs}
      PROVE  Cardinality(InWindow(P)') =< MaxPerPrincipal
  <2>0. IsFiniteSet(InWindow(P)) /\ Cardinality(InWindow(P)) \in Nat
    BY QueueFinite
  <2>1. CASE P = PrincipalOf[call[p].job]
    <3>1. InWindow(P)' \subseteq InWindow(P) \cup {e}
      <4> SUFFICES ASSUME NEW b \in admissions', Principal(b) = P, clock - b.at < Window
                   PROVE  Stamp(b) \in InWindow(P) \cup {e}
        BY <1>1 DEF InWindow, Principal, Stamp
      <4>1. CASE b = a
        BY <4>1, <1>s
      <4>2. CASE b \in admissions
        BY <4>2 DEF InWindow
      <4> QED
        BY <1>1, <4>1, <4>2
    <3>2. /\ IsFiniteSet(InWindow(P) \cup {e})
          /\ Cardinality(InWindow(P) \cup {e}) =< Cardinality(InWindow(P)) + 1
          /\ Cardinality(InWindow(P) \cup {e}) \in Nat
      <4> HIDE DEF e
      <4>1. /\ IsFiniteSet(InWindow(P) \cup {e})
            /\ Cardinality(InWindow(P) \cup {e}) =
                 IF e \in InWindow(P) THEN Cardinality(InWindow(P))
                                      ELSE Cardinality(InWindow(P)) + 1
        BY Zenon, <2>0, FS_AddElement
      <4> QED
        BY <2>0, <4>1
    <3>3. Cardinality(InWindow(P)') =< Cardinality(InWindow(P) \cup {e})
          /\ Cardinality(InWindow(P)') \in Nat
      BY <3>1, <3>2, FS_Subset, FS_CardinalityType
    <3> QED
      BY <2>0, <2>1, <1>2, <3>2, <3>3, PolicyAssumption
  <2>2. CASE P # PrincipalOf[call[p].job]
    <3>1. InWindow(P)' = InWindow(P)
      <4>1. \A b : b \in admissions' /\ Principal(b) = P <=> b \in admissions /\ Principal(b) = P
        BY <1>1, <1>s, <2>2
      <4> QED
        BY <4>1, <1>1 DEF InWindow, Principal, Stamp
    <3> QED
      BY <3>1 DEF LedgerInv, RateInWindow
  <2> QED
    BY <2>1, <2>2
<1>5. RateInWindow'
  BY <1>4 DEF RateInWindow
<1> QED
  BY <1>3, <1>5 DEF LedgerInv

-----------------------------------------------------------------------------
(* Between the writes of one call                                            *)

\* A step that leaves the durable queue alone and puts no process half way
\* through a call keeps what half-way calls rely on; so does the clock.
LEMMA ProgressFrame ==
  ASSUME TypeOK, TypeOK', LedgerInv, CallProgress, clock =< clock',
         UNCHANGED <<dir, doc, ledger, leases, admissions>>,
         \A q \in Procs : pc'[q] \in {"reserved", "renamed", "finWritten"}
                           => pc'[q] = pc[q] /\ call'[q] = call[q]
  PROVE  CallProgress'
<1> SUFFICES ASSUME NEW q \in Procs
             PROVE  /\ pc'[q] = "reserved" => Reservation(q)'
                    /\ pc'[q] \in {"renamed", "finWritten"} => HalfWay(q)'
  BY DEF CallProgress
<1>1. ASSUME pc'[q] = "reserved" PROVE Reservation(q)'
  <2>1. Reservation(q) /\ call'[q] = call[q]
    BY <1>1 DEF CallProgress
  <2>2. Readable(Statuses)' /\ AdmissionClear(call[q].job)'
        /\ [job |-> call[q].job, at |-> call[q].now] \in ledger'
    BY <2>1 DEF Reservation, Readable, AdmissionClear, Active
  <2>p. PICK P : P = PrincipalOf[call[q].job]
    OBVIOUS
  <2>3. Cardinality(InWindow(P)') =< Cardinality(InWindow(P))
    BY LedgerKeeps
  <2>4. Cardinality(InWindow(P)') \in Nat /\ Cardinality(InWindow(P)) \in Nat
    <3>1. InWindow(P)' \subseteq Events
      BY DEF InWindow, Stamp, Events, Admissions, TypeOK
    <3>2. IsFiniteSet(Events) /\ Cardinality(InWindow(P)) \in Nat
      BY QueueFinite, EventsFinite
    <3> QED
      BY <3>1, <3>2, FS_Subset, FS_CardinalityType
  <2>5. Cardinality(InWindow(P)') < MaxPerPrincipal
    BY <2>p, <2>1, <2>3, <2>4, PolicyAssumption DEF Reservation
  <2> QED
    BY <2>p, <2>1, <2>2, <2>5 DEF Reservation
<1>2. ASSUME pc'[q] \in {"renamed", "finWritten"} PROVE HalfWay(q)'
  BY <1>2 DEF CallProgress, HalfWay
<1> QED
  BY <1>1, <1>2

\* A step of the lock holder disturbs no other half-way call: there is none.
LEMMA ProgressHolder ==
  ASSUME LockDiscipline, NEW p \in Procs, pc[p] \in Held,
         \A q \in Procs : q # p => pc'[q] = pc[q],
         pc'[p] = "reserved" => Reservation(p)',
         pc'[p] \in {"renamed", "finWritten"} => HalfWay(p)'
  PROVE  CallProgress'
<1> SUFFICES ASSUME NEW q \in Procs, q # p
             PROVE  pc[q] \notin {"reserved", "renamed", "finWritten"}
  BY DEF CallProgress
<1> QED
  BY Exclusive DEF Held

\* The queue starts with the strengthened invariant.
LEMMA InitInv == Init => QueueInv
<1> SUFFICES ASSUME Init PROVE QueueInv
  OBVIOUS
<1>1. LockDiscipline /\ CallProgress
  BY DEF Init, LockDiscipline, CallProgress, Held
<1>2. CallTimes
  BY DEF Init, CallTimes, NoCall
<1>3. Active = {} /\ dir["running"] = {} /\ leases = {}
  BY DEF Init, Active, Statuses
<1>4. DirectoryInv
  <2>1. SingleHome
    BY DEF Init, SingleHome
  <2>2. NoDuplicateActive
    BY <1>3 DEF NoDuplicateActive
  <2>3. ConcurrencyBudget /\ OutstandingBound
    BY <1>3, FS_EmptySet, PolicyAssumption DEF ConcurrencyBudget, OutstandingBound, Executing
  <2> QED
    BY <2>1, <2>2, <2>3 DEF DirectoryInv
<1>5. LedgerNeverUndercounts
  BY DEF Init, LedgerNeverUndercounts
<1>6. RateInWindow
  <2>1. \A P : InWindow(P) = {}
    BY DEF Init, InWindow
  <2> QED
    BY <2>1, FS_EmptySet, PolicyAssumption DEF RateInWindow
<1> QED
  BY <1>1, <1>2, <1>4, <1>5, <1>6 DEF QueueInv

\* One step of any process, of the operator or of the clock keeps it.
LEMMA StepInv == TypeOK /\ TypeOK' /\ QueueInv /\ [Next]_vars => QueueInv'
<1> SUFFICES ASSUME TypeOK, TypeOK', QueueInv, [Next]_vars PROVE QueueInv'
  OBVIOUS
<1> USE DEF QueueInv
<1>l. LockDiscipline' /\ CallTimes'
  BY LockStep, TimesStep
<1>i. LedgerInv
  BY DEF LedgerInv
<1>t. clock \in Int /\ clock =< clock
  BY DEF TypeOK, Time
<1> SUFFICES CallProgress' /\ DirectoryInv' /\ LedgerInv'
  BY <1>l DEF LedgerInv
\* Steps that leave the durable queue alone.
<1>q. ASSUME UNCHANGED <<dir, doc, ledger, leases, admissions>>, clock =< clock',
             \A q \in Procs : pc'[q] \in {"reserved", "renamed", "finWritten"}
                               => pc'[q] = pc[q] /\ call'[q] = call[q]
      PROVE  CallProgress' /\ DirectoryInv' /\ LedgerInv'
  <2>1. CallProgress'
    BY <1>q, <1>i, ProgressFrame
  <2>2. DirectoryInv'
    BY <1>q, DirectoryShrink
  <2>3. LedgerInv'
    BY <1>q, <1>i, LedgerKeeps
  <2> QED
    BY <2>1, <2>2, <2>3
\* Steps of the lock holder that end its writes.
<1>w. ASSUME NEW p \in Procs, pc[p] \in Held, NEW c, Leave(p, c),
             DirectoryInv', LedgerInv'
      PROVE  CallProgress' /\ DirectoryInv' /\ LedgerInv'
  <2>1. pc'[p] = "unlock" /\ \A q \in Procs : q # p => pc'[q] = pc[q]
    BY <1>w DEF Leave, TypeOK
  <2> QED
    BY <1>w, <2>1, ProgressHolder
<1>1. CASE UNCHANGED vars
  BY <1>1, <1>q, <1>t DEF vars
<1>2. ASSUME NEW p \in Procs, NEW op, NEW j, NEW st, NEW l, Request(p, op, j, st, l)
      PROVE  CallProgress' /\ DirectoryInv' /\ LedgerInv'
  BY <1>2, <1>q, <1>t DEF Request, TypeOK
<1>3. ASSUME NEW p \in Procs, Inside(p)
      PROVE  CallProgress' /\ DirectoryInv' /\ LedgerInv'
  <2>1. CASE TakeLock(p)
    BY <2>1, <1>q, <1>t DEF TakeLock, TypeOK
  <2>2. CASE LockTimeout(p) \/ ReleaseLock(p)
    BY <2>2, <1>q, <1>t DEF LockTimeout, ReleaseLock, Return, TypeOK
  <2>3. CASE Unreadable(p) \/ AdmitRefused(p) \/ ClaimNothing(p) \/ AcquireNothing(p)
             \/ FinishRefused(p) \/ FinishRenameFails(p)
    BY <2>3, <1>q, <1>t DEF Unreadable, AdmitRefused, ClaimNothing, AcquireNothing,
       FinishRefused, FinishRenameFails, Leave, TypeOK
  <2>4. CASE Prune(p)
    <3>1. /\ \A s \in Statuses : dir'[s] \subseteq dir[s]
          /\ UNCHANGED <<ledger, leases, admissions, clock>>
          /\ pc[p] \in Held
      BY <2>4 DEF Prune, PruneTerminal, PruneExcept, Held
    <3>2. DirectoryInv'
      BY <3>1, DirectoryShrink
    <3>3. LedgerInv'
      BY <3>1, <1>i, <1>t, LedgerKeeps
    <3>4. pc'[p] \in {"unlock", "pruned"} /\ \A q \in Procs : q # p => pc'[q] = pc[q]
      BY <2>4 DEF Prune, Leave, TypeOK
    <3> QED
      BY <3>1, <3>2, <3>3, <3>4, ProgressHolder
  <2>5. CASE AdmitRateLimited(p)
    <3>1. /\ UNCHANGED <<dir, leases, admissions, clock>>
          /\ ledger' = Compacted(call[p].now)
          /\ pc[p] \in Held /\ Leave(p, "refused")
      BY <2>5 DEF AdmitRateLimited, At, Held
    <3>2. DirectoryInv'
      BY <3>1, DirectoryShrink
    <3>3. LedgerNeverUndercounts'
      BY <3>1, <1>i, CompactionKeeps DEF LedgerNeverUndercounts, Stamp
    <3>4. RateInWindow'
      BY Zenon, <3>1 DEF RateInWindow, InWindow, Principal, Stamp
    <3> QED
      BY <3>1, <3>2, <3>3, <3>4, <1>w DEF LedgerInv
  <2>6. CASE AdmitReserve(p)
    <3>1. /\ UNCHANGED <<dir, leases>>
          /\ pc[p] \in Held /\ pc'[p] = "reserved"
          /\ \A q \in Procs : q # p => pc'[q] = pc[q]
      BY <2>6 DEF AdmitReserve, At, Held, TypeOK
    <3>2. LedgerInv' /\ Reservation(p)'
      BY <2>6, <1>i, ReserveLedger
    <3>3. DirectoryInv'
      BY <3>1, DirectoryShrink
    <3>4. CallProgress'
      BY <3>1, <3>2, ProgressHolder
    <3> QED
      BY <3>2, <3>3, <3>4
  <2>7. CASE AdmitWriteJob(p)
    <3>1. Reservation(p) /\ pc[p] \in Held /\ Leave(p, "ok")
      BY <2>7 DEF AdmitWriteJob, At, CallProgress, Held
    <3> QED
      BY <2>7, <3>1, <1>i, <1>w, AdmitDirectory, AdmitLedger
  <2>8. CASE AdmitWriteFails(p)
    <3>1. /\ UNCHANGED <<dir, leases, admissions, clock>>
          /\ pc[p] \in Held /\ Leave(p, "error")
          /\ \A a \in admissions : Stamp(a) \in ledger => Stamp(a) \in ledger'
      BY <2>8 DEF AdmitWriteFails, At, Held
    <3>2. DirectoryInv' /\ LedgerInv'
      BY <3>1, <1>i, <1>t, DirectoryShrink, LedgerKeeps
    <3> QED
      BY <3>1, <3>2, <1>w
  <2>9. CASE ClaimRename(p)
    <3>1. PICK j \in dir["queued"] :
            /\ dir' = [dir EXCEPT !["queued"] = @ \ {j}, !["running"] = @ \cup {j}]
            /\ call' = [call EXCEPT ![p].job = j]
      BY Zenon, <2>9 DEF ClaimRename
    <3>2. call'[p].job = j /\ dir'["running"] = dir["running"] \cup {j}
      BY <3>1 DEF TypeOK, Calls, Statuses
    <3>3. /\ pc[p] \in Held /\ pc'[p] = "renamed"
          /\ \A q \in Procs : q # p => pc'[q] = pc[q]
          /\ UNCHANGED <<ledger, admissions, clock>>
      BY <2>9 DEF ClaimRename, At, Held, TypeOK
    <3>4. CallProgress'
      BY <3>2, <3>3, ProgressHolder DEF HalfWay
    <3>5. DirectoryInv' /\ LedgerInv'
      BY <2>9, <3>3, <1>i, <1>t, ClaimDirectory, LedgerKeeps
    <3> QED
      BY <3>4, <3>5
  <2>10. CASE ClaimWrite(p) \/ MarkUnknown(p)
    <3>1. /\ UNCHANGED <<dir, leases, ledger, admissions, clock>>
          /\ pc[p] \in Held /\ Leave(p, "ok")
      BY <2>10 DEF ClaimWrite, MarkUnknown, At, Held
    <3>2. DirectoryInv' /\ LedgerInv'
      BY <3>1, <1>i, <1>t, DirectoryShrink, LedgerKeeps
    <3> QED
      BY <3>1, <3>2, <1>w
  <2>11. CASE ClaimWriteFails(p)
    <3>1. HalfWay(p) /\ pc[p] \in Held /\ Leave(p, "error")
          /\ UNCHANGED <<ledger, admissions, clock>>
      BY <2>11 DEF ClaimWriteFails, At, CallProgress, Held
    <3>2. DirectoryInv' /\ LedgerInv'
      BY <2>11, <3>1, <1>i, <1>t, UnclaimDirectory, LedgerKeeps
    <3> QED
      BY <3>1, <3>2, <1>w
  <2>12. CASE AcquireLease(p)
    <3>1. pc[p] \in Held /\ Leave(p, "ok") /\ UNCHANGED <<ledger, admissions, clock>>
      BY <2>12 DEF AcquireLease, At, Held
    <3>2. DirectoryInv' /\ LedgerInv'
      BY <2>12, <3>1, <1>i, <1>t, LeaseDirectory, LedgerKeeps
    <3> QED
      BY <3>1, <3>2, <1>w
  <2>13. CASE ReleaseLease(p)
    <3>1. /\ pc[p] \in Held /\ UNCHANGED <<dir, ledger, admissions, clock>>
          /\ leases' \subseteq leases
      BY <2>13 DEF ReleaseLease, At, Held
    <3>2. PICK c : Leave(p, c)
      BY <2>13 DEF ReleaseLease
    <3>3. DirectoryInv' /\ LedgerInv'
      BY <3>1, <1>i, <1>t, DirectoryShrink, LedgerKeeps
    <3> QED
      BY <3>1, <3>2, <3>3, <1>w
  <2>14. CASE FinishWrite(p)
    <3>1. /\ UNCHANGED <<dir, leases, ledger, admissions, clock, call>>
          /\ pc[p] \in Held /\ pc'[p] = "finWritten"
          /\ \A q \in Procs : q # p => pc'[q] = pc[q]
          /\ call[p].job \in dir["running"]
      BY <2>14 DEF FinishWrite, RunningEntry, At, Held, TypeOK
    <3>4. doc'[call[p].job].status = call[p].status
      BY <2>14 DEF FinishWrite, TypeOK, Calls, Docs
    <3>2. CallProgress'
      BY <3>1, <3>4, ProgressHolder DEF HalfWay
    <3>3. DirectoryInv' /\ LedgerInv'
      BY <3>1, <1>i, <1>t, DirectoryShrink, LedgerKeeps
    <3> QED
      BY <3>2, <3>3
  <2>15. CASE FinishRename(p)
    <3>1. /\ UNCHANGED <<ledger, admissions, clock>>
          /\ pc[p] \in Held /\ pc'[p] = "finRenamed" /\ HalfWay(p)
          /\ \A q \in Procs : q # p => pc'[q] = pc[q]
      BY <2>15 DEF FinishRename, CallProgress, At, Held, TypeOK
    <3>2. CallProgress'
      BY <3>1, ProgressHolder
    <3>3. DirectoryInv' /\ LedgerInv'
      BY <2>15, <3>1, <1>i, <1>t, FinishDirectory, LedgerKeeps
    <3> QED
      BY <3>2, <3>3
  <2>16. CASE FinishPrune(p)
    <3>1. /\ \A s \in Statuses : dir'[s] \subseteq dir[s]
          /\ UNCHANGED <<ledger, leases, admissions, clock>>
          /\ pc[p] \in Held
      BY <2>16 DEF FinishPrune, PruneTerminal, PruneExcept, At, Held
    <3>2. PICK c : Leave(p, c)
      BY <2>16 DEF FinishPrune
    <3>3. DirectoryInv' /\ LedgerInv'
      BY <3>1, <1>i, <1>t, DirectoryShrink, LedgerKeeps
    <3> QED
      BY <3>1, <3>2, <3>3, <1>w
  <2>17. CASE PruneStops(p)
    <3>1. /\ \A s \in Statuses : dir'[s] \subseteq dir[s]
          /\ UNCHANGED <<ledger, leases, admissions, clock>>
          /\ pc[p] \in Held /\ Leave(p, "error")
      BY <2>17 DEF PruneStops, PruneExcept, At, Held
    <3>2. DirectoryInv' /\ LedgerInv'
      BY <3>1, <1>i, <1>t, DirectoryShrink, LedgerKeeps
    <3> QED
      BY <3>1, <3>2, <1>w
  <2>18. CASE Throws(p)
    <3>1. /\ UNCHANGED <<dir, leases, admissions, clock>>
          /\ ledger' \in {ledger, Compacted(call[p].now)}
          /\ pc[p] \in Held /\ Leave(p, "error")
      BY <2>18 DEF Throws, Held
    <3>2. DirectoryInv'
      BY <3>1, DirectoryShrink
    <3>3. LedgerNeverUndercounts'
      BY <3>1, <1>i, CompactionKeeps DEF LedgerNeverUndercounts, Stamp
    <3>4. RateInWindow'
      BY Zenon, <3>1 DEF RateInWindow, InWindow, Principal, Stamp
    <3> QED
      BY <3>1, <3>2, <3>3, <3>4, <1>w DEF LedgerInv
  <2> QED
    BY <1>3, <2>1, <2>2, <2>3, <2>4, <2>5, <2>6, <2>7, <2>8, <2>9, <2>10, <2>11,
       <2>12, <2>13, <2>14, <2>15, <2>16, <2>17, <2>18 DEF Inside, LockedStep, IOFailure
<1>4. ASSUME NEW p \in Procs, Crash(p)
      PROVE  CallProgress' /\ DirectoryInv' /\ LedgerInv'
  BY <1>4, <1>q, <1>t DEF Crash, Return, TypeOK
<1>5. CASE OperatorClearsLock
  BY <1>5, <1>q, <1>t DEF OperatorClearsLock
<1>6. CASE Tick
  BY <1>6, <1>q, <1>t DEF Tick
<1> QED
  BY <1>1, <1>2, <1>3, <1>4, <1>5, <1>6 DEF Next, RequestAdmit, RequestClaim,
     RequestAcquire, RequestRelease, RequestFinish, RequestUnknown, RequestPrune

\* The strengthened invariant holds in every behaviour of the queue.
THEOREM QueueInvariant == Spec => [](TypeOK /\ QueueInv)
<1>1. Init => TypeOK /\ QueueInv
  BY InitTyped, InitInv
<1>2. TypeOK /\ QueueInv /\ [Next]_vars => (TypeOK /\ QueueInv)'
  BY StepTyped, StepInv
<1> QED
  BY <1>1, <1>2, PTL DEF Spec

-----------------------------------------------------------------------------
(* The properties of the runs, for every policy                              *)

\* maxConcurrency bounds claimed jobs and scheduler leases together, over
\* crashes and half-failed claims.
THEOREM ConcurrencyBudgetHolds == Spec => []ConcurrencyBudget
<1>1. QueueInv => ConcurrencyBudget
  BY DEF QueueInv, DirectoryInv
<1> QED
  BY <1>1, QueueInvariant, PTL

\* maxOutstanding bounds the jobs that are queued or running.
THEOREM OutstandingBoundHolds == Spec => []OutstandingBound
<1>1. QueueInv => OutstandingBound
  BY DEF QueueInv, DirectoryInv
<1> QED
  BY <1>1, QueueInvariant, PTL

\* Equivalent privileged work is never active twice.
THEOREM NoDuplicateActiveHolds == Spec => []NoDuplicateActive
<1>1. QueueInv => NoDuplicateActive
  BY DEF QueueInv, DirectoryInv
<1> QED
  BY <1>1, QueueInvariant, PTL

\* A job file has at most one status directory.
THEOREM SingleHomeHolds == Spec => []SingleHome
<1>1. QueueInv => SingleHome
  BY DEF QueueInv, DirectoryInv
<1> QED
  BY <1>1, QueueInvariant, PTL

\* Every durable admission whose own time stamp is in the last window is in the
\* ledger, although callers compact it with old clock readings.
THEOREM LedgerHolds == Spec => []LedgerNeverUndercounts
<1>1. QueueInv => LedgerNeverUndercounts
  BY DEF QueueInv
<1> QED
  BY <1>1, QueueInvariant, PTL

\* No admission is made in the future.
MadeByNow == \A a \in admissions : a.done =< clock

\* What a step does to the clock and to the history of admissions: time does not
\* pass while one is made, and it is made now.
LEMMA HistoryStep ==
  ASSUME TypeOK, [Next]_vars
  PROVE  /\ clock' \in {clock, clock + 1}
         /\ \A a \in admissions : a \in admissions'
         /\ \A a \in admissions' : a \in admissions \/ (a.done = clock /\ clock' = clock)
<1>1. CASE \E p \in Procs : AdmitWriteJob(p)
  <2>1. PICK p \in Procs : AdmitWriteJob(p)
    BY <1>1
  <2> DEFINE e == [job |-> call[p].job, at |-> call[p].now, done |-> clock]
  <2>2. admissions' = admissions \cup {e} /\ clock' = clock /\ e.done = clock
    BY <2>1 DEF AdmitWriteJob
  <2> QED
    BY <2>2
<1>2. CASE ~\E p \in Procs : AdmitWriteJob(p)
  <2>1. admissions' = admissions /\ clock' \in {clock, clock + 1}
    BY <1>2 DEF Next, vars, Request, RequestAdmit, RequestClaim, RequestAcquire, RequestRelease,
       RequestFinish, RequestUnknown, RequestPrune, Crash, OperatorClearsLock, Tick,
       Inside, LockedStep, IOFailure, TakeLock, LockTimeout, ReleaseLock, Prune, Unreadable,
       AdmitRefused, AdmitRateLimited, AdmitReserve, AdmitWriteFails,
       ClaimNothing, ClaimRename, ClaimWrite, ClaimWriteFails, AcquireNothing,
       AcquireLease, ReleaseLease, FinishRefused, FinishWrite, FinishRename,
       FinishRenameFails, FinishPrune, MarkUnknown, PruneStops, Throws
  <2> QED
    BY <2>1
<1> QED
  BY <1>1, <1>2

\* Of the callers that waited at most d, those that were admitted in the last
\* Window - d ticks read a clock of the last Window ticks: the check counts them.
LEMMA RateNow ==
  ASSUME TypeOK', RateInWindow', NEW j \in Jobs, NEW d \in Time
  PROVE  Cardinality(MadeDurable(PrincipalOf[j], d, clock, Window - d)') =< MaxPerPrincipal
<1> DEFINE P == PrincipalOf[j]
           M == MadeDurable(P, d, clock, Window - d)'
           W == InWindow(P)'
<1>1. M \subseteq W
  <2> SUFFICES ASSUME NEW a \in admissions', Principal(a) = P,
                      a.done - a.at =< d, clock' - a.done < Window - d
               PROVE  Stamp(a) \in W
    BY DEF MadeDurable, Principal, Stamp
  <2>1. clock' \in Int /\ a.done \in Int /\ a.at \in Int /\ d \in Int /\ Window \in Int
    BY PolicyAssumption DEF TypeOK, Admissions, Time
  <2>2. clock' - a.at < Window
    BY <2>1
  <2> QED
    BY <2>2 DEF InWindow, Principal, Stamp
<1>2. IsFiniteSet(W) /\ Cardinality(W) \in Nat
  <2>1. W \subseteq Events
    BY DEF InWindow, Stamp, Events, Admissions, TypeOK
  <2> QED
    BY <2>1, EventsFinite, FS_Subset, FS_CardinalityType
<1>3. Cardinality(W) =< MaxPerPrincipal
  BY DEF RateInWindow
<1> HIDE DEF M, W
<1>4. Cardinality(M) =< Cardinality(W) /\ Cardinality(M) \in Nat
  BY <1>1, <1>2, FS_Subset, FS_CardinalityType
<1>5. Cardinality(M) =< MaxPerPrincipal
  BY <1>2, <1>3, <1>4, PolicyAssumption
<1> QED
  BY <1>5 DEF M

\* A stretch of time that is over gets no more admissions, and the stretch that
\* ends now is bounded by the check.
LEMMA RateStep ==
  ASSUME TypeOK, TypeOK', MadeByNow, RateBound, RateInWindow', [Next]_vars
  PROVE  MadeByNow' /\ RateBound'
<1>1. clock \in Int /\ \A a \in admissions' : a.done \in Int
  BY DEF TypeOK, Admissions, Time
<1>2. MadeByNow'
  BY <1>1, HistoryStep DEF MadeByNow
<1>3. SUFFICES ASSUME NEW j \in Jobs, NEW d \in Time, NEW t \in Time, t =< clock'
               PROVE  Cardinality(MadeDurable(PrincipalOf[j], d, t, Window - d)') =< MaxPerPrincipal
  BY <1>2 DEF RateBound
<1>4. CASE t = clock'
  <2>1. MadeDurable(PrincipalOf[j], d, t, Window - d)' = MadeDurable(PrincipalOf[j], d, clock, Window - d)'
    BY <1>4 DEF MadeDurable
  <2> QED
    BY <2>1, RateNow
<1>5. CASE t < clock'
  <2>1. t \in Int /\ t =< clock
    BY <1>1, <1>5, HistoryStep DEF Time
  <2>2. \A a \in admissions' : a.done =< t => a \in admissions
    BY <1>1, <1>5, <2>1, HistoryStep
  <2>3. MadeDurable(PrincipalOf[j], d, t, Window - d)' = MadeDurable(PrincipalOf[j], d, t, Window - d)
    BY <2>2, HistoryStep DEF MadeDurable, Stamp, Principal
  <2> QED
    BY <2>1, <2>3 DEF RateBound
<1> QED
  BY <1>1, <1>3, <1>4, <1>5 DEF TypeOK, Time

\* By the instants at which jobs become durable: in no stretch of Window - d
\* ticks were more than maxPerPrincipal jobs of a requester admitted for callers
\* that had waited at most d ticks.
THEOREM RateBoundHolds == Spec => []RateBound
<1>1. Init => MadeByNow /\ RateBound
  <2> SUFFICES ASSUME Init, NEW j \in Jobs, NEW d, NEW t, NEW n
               PROVE  MadeByNow /\ Cardinality(MadeDurable(PrincipalOf[j], d, t, n)) =< MaxPerPrincipal
    BY DEF RateBound, Init, MadeByNow
  <2>1. MadeDurable(PrincipalOf[j], d, t, n) = {}
    BY DEF Init, MadeDurable
  <2> QED
    BY <2>1, FS_EmptySet, PolicyAssumption DEF Init, MadeByNow
<1>2. /\ TypeOK /\ QueueInv /\ (TypeOK /\ QueueInv)' /\ MadeByNow /\ RateBound /\ [Next]_vars
      => (MadeByNow /\ RateBound)'
  BY RateStep DEF QueueInv
<1> QED
  BY <1>1, <1>2, QueueInvariant, PTL DEF Spec

\* Only a live lock holder changes the durable queue.
THEOREM OnlyHolderWritesHolds == Spec => OnlyHolderWrites
<1> DEFINE A == <<dir, doc, ledger, leases>>' # <<dir, doc, ledger, leases>>
                 => lock # NoProc /\ pc[lock] \in Held
<1>1. TypeOK /\ QueueInv /\ [Next]_vars => [A]_vars
  <2> SUFFICES ASSUME TypeOK, QueueInv, Next,
                      <<dir, doc, ledger, leases>>' # <<dir, doc, ledger, leases>>
               PROVE  lock # NoProc /\ pc[lock] \in Held
    OBVIOUS
  <2>1. PICK p \in Procs : Inside(p)
    BY DEF Next, Request, RequestAdmit, RequestClaim, RequestAcquire, RequestRelease,
       RequestFinish, RequestUnknown, RequestPrune, Crash, OperatorClearsLock, Tick
  <2>2. pc[p] \in Held
    BY <2>1 DEF Inside, LockedStep, IOFailure, TakeLock, LockTimeout, ReleaseLock, At, Prune, Unreadable,
       AdmitRefused, AdmitRateLimited, AdmitReserve, AdmitWriteJob, AdmitWriteFails,
       ClaimNothing, ClaimRename, ClaimWrite, ClaimWriteFails, AcquireNothing,
       AcquireLease, ReleaseLease, FinishRefused, FinishWrite, FinishRename,
       FinishRenameFails, FinishPrune, MarkUnknown, PruneStops, Throws, Held
  <2> QED
    BY <2>2, DomainAssumption DEF QueueInv, LockDiscipline
<1> QED
  BY <1>1, QueueInvariant, PTL DEF Spec, OnlyHolderWrites

\* While a document disagrees with its directory no job starts and none is
\* admitted.
THEOREM StrandedFailsClosedHolds == Spec => StrandedFailsClosed
<1> DEFINE A == ~Readable(Statuses)
                 => /\ dir'["running"] \subseteq dir["running"]
                    /\ admissions' = admissions
<1>1. TypeOK /\ QueueInv /\ [Next]_vars => [A]_vars
  <2> SUFFICES ASSUME TypeOK, QueueInv, Next, ~Readable(Statuses)
               PROVE  /\ dir'["running"] \subseteq dir["running"]
                      /\ admissions' = admissions
    OBVIOUS
  <2>1. CASE dir' = dir /\ admissions' = admissions
    BY <2>1
  <2>2. CASE ~(dir' = dir /\ admissions' = admissions)
    <3>1. PICK p \in Procs : Inside(p)
      BY <2>2 DEF Next, Request, RequestAdmit, RequestClaim, RequestAcquire,
         RequestRelease, RequestFinish, RequestUnknown, RequestPrune, Crash,
         OperatorClearsLock, Tick
    <3>2. CASE Prune(p) \/ FinishPrune(p) \/ PruneStops(p)
      BY <3>2 DEF Prune, FinishPrune, PruneStops, PruneTerminal, PruneExcept, Statuses
    <3>3. CASE AdmitWriteJob(p)
      BY <3>3 DEF AdmitWriteJob, At, QueueInv, CallProgress, Reservation
    <3>4. CASE ClaimRename(p)
      BY <3>4 DEF ClaimRename, SnapshotOK
    <3>5. CASE ClaimWriteFails(p)
      BY <3>5 DEF ClaimWriteFails, TypeOK, Statuses
    <3>6. CASE FinishRename(p)
      <4>1. call[p].status \in {"done", "failed"}
        BY DEF TypeOK, Calls, TerminalStatuses
      <4> QED
        BY <3>6, <4>1 DEF FinishRename, TypeOK, Statuses
    <3> QED
      BY <2>2, <3>1, <3>2, <3>3, <3>4, <3>5, <3>6 DEF Inside, LockedStep, IOFailure, TakeLock, LockTimeout,
         ReleaseLock, Unreadable, AdmitRefused, AdmitRateLimited, AdmitReserve,
         AdmitWriteFails, ClaimNothing, ClaimWrite, AcquireNothing, AcquireLease,
         ReleaseLease, FinishRefused, FinishWrite, FinishRenameFails, MarkUnknown, Throws
  <2> QED
    BY <2>1, <2>2
<1> QED
  BY <1>1, QueueInvariant, PTL DEF Spec, StrandedFailsClosed

\* A job leaves queued and running only by the rename of a finish, and its
\* document then has the status of the directory it arrives in.
THEOREM ActiveNeverLostHolds == Spec => ActiveNeverLost
<1> DEFINE A == \A j \in Active : j \notin Active' =>
                  \E s \in TerminalStatuses : j \in dir'[s] /\ doc'[j].status = s
<1>1. TypeOK /\ QueueInv /\ [Next]_vars => [A]_vars
  <2> SUFFICES ASSUME TypeOK, QueueInv, Next, NEW j \in Active, j \notin Active'
               PROVE  \E s \in TerminalStatuses : j \in dir'[s] /\ doc'[j].status = s
    OBVIOUS
  <2>1. dir' # dir
    BY DEF Active
  <2>2. PICK p \in Procs : Inside(p)
    BY <2>1 DEF Next, Request, RequestAdmit, RequestClaim, RequestAcquire,
       RequestRelease, RequestFinish, RequestUnknown, RequestPrune, Crash,
       OperatorClearsLock, Tick
  <2>3. ~(Prune(p) \/ FinishPrune(p) \/ PruneStops(p))
    <3>1. ASSUME Prune(p) \/ FinishPrune(p) \/ PruneStops(p)
          PROVE  dir'["queued"] = dir["queued"] /\ dir'["running"] = dir["running"]
      BY <3>1 DEF Prune, FinishPrune, PruneStops, PruneTerminal, PruneExcept,
         Statuses, TerminalStatuses
    <3> QED
      BY <3>1 DEF Active
  <2>4. ~(AdmitWriteJob(p) \/ ClaimRename(p) \/ ClaimWriteFails(p))
    BY DEF AdmitWriteJob, ClaimRename, ClaimWriteFails, Active, TypeOK, Statuses
  <2>5. FinishRename(p)
    BY <2>1, <2>2, <2>3, <2>4 DEF Inside, LockedStep, IOFailure, TakeLock, LockTimeout,
       ReleaseLock, Unreadable, AdmitRefused, AdmitRateLimited, AdmitReserve,
       AdmitWriteFails, ClaimNothing, ClaimWrite, AcquireNothing, AcquireLease,
       ReleaseLease, FinishRefused, FinishWrite, FinishRenameFails, MarkUnknown, Throws
  <2>6. call[p].status \in {"done", "failed"}
    BY DEF TypeOK, Calls, TerminalStatuses
  <2>7. j = call[p].job /\ j \in dir'[call[p].status]
    BY <2>5, <2>6 DEF FinishRename, Active, TypeOK, Statuses
  <2>8. doc'[j].status = call[p].status
    BY <2>5, <2>7 DEF FinishRename, At, QueueInv, CallProgress, HalfWay
  <2> QED
    BY <2>6, <2>7, <2>8 DEF TerminalStatuses
<1> QED
  BY <1>1, QueueInvariant, PTL DEF Spec, ActiveNeverLost

-----------------------------------------------------------------------------
(* The scheduler on top of the queue                                         *)

\* A job whose admission became durable.
Admitted(j) == \E a \in admissions : a.job = j

\* Replica r has claimed j and has not started it.
Holds(r, j) ==
    \/ /\ loop[r] = "claiming" /\ call[r].job = j
       /\ pc[r] = "renamed" \/ (pc[r] = "unlock" /\ res[r] = "ok")
    \/ loop[r] = "claimed" /\ work[r] = j

\* Which calls the roles make, and when a loop is inside one.
RolesOK ==
    /\ \A r \in Replicas :
          /\ loop[r] \in {"claiming", "settling"} <=> pc[r] # "idle"
          /\ loop[r] = "claiming" => call[r].op = "claim"
          /\ loop[r] = "settling" => call[r].op \in {"finish", "unknown"}
    /\ \A p \in Portals : pc[p] # "idle" => call[p].op = "admit"
    /\ \A p \in Operators : pc[p] # "idle" => call[p].op = "finish"
    /\ \A p \in Procs : pc[p] = "idle" => call[p].op = "prune"

\* An identifier is admitted by one call, once.
AdmitOK ==
    \A p \in Procs : call[p].op = "admit" =>
        /\ pc[p] \in {"waiting", "locked", "pruned", "reserved"} => ~Admitted(call[p].job)
        /\ \A q \in Procs \ {p} : call[q].op = "admit" => call[q].job # call[p].job

\* What waits in the queue has never been started.
WaitingOK == \A j \in dir["queued"] : Admitted(j) /\ started[j] = 0

\* What is claimed has left the queue, for one replica, which has not started it.
ClaimedOK ==
    \A r \in Replicas, j \in Jobs : Holds(r, j) =>
        /\ Admitted(j) /\ j \notin dir["queued"] /\ started[j] = 0
        /\ \A s \in Replicas \ {r} : ~Holds(s, j)

StartedOK == \A j \in Jobs : started[j] =< 1 /\ (started[j] = 1 => Admitted(j))

\* The inductive invariant of ExecutedAtMostOnce.
OnceInv == RolesOK /\ AdmitOK /\ WaitingOK /\ ClaimedOK /\ StartedOK

\* The calls of the processes but p stay where they are.
Others(p) == \A q \in Procs \ {p} : pc'[q] = pc[q] /\ call'[q] = call[q] /\ res'[q] = res[q]

\* An admission becomes durable.
Admits(p) ==
    /\ call[p].op = "admit" /\ pc[p] = "reserved" /\ pc'[p] = "unlock"
    /\ call'[p] = call[p]
    /\ dir'["queued"] = dir["queued"] \cup {call[p].job}
    /\ \A j \in Jobs : Admitted(j)' <=> Admitted(j) \/ j = call[p].job

\* A job leaves the queue.
Takes(p) ==
    /\ call[p].op = "claim" /\ call'[p].op = "claim" /\ pc'[p] = "renamed"
    /\ call'[p].job \in dir["queued"]
    /\ dir'["queued"] = dir["queued"] \ {call'[p].job}
    /\ \A j \in Jobs : Admitted(j)' <=> Admitted(j)

\* A claim ends, with the job or with an error after which it may be back.
Claimed(p) ==
    /\ call[p].op = "claim" /\ pc[p] = "renamed" /\ pc'[p] = "unlock"
    /\ call'[p] = call[p]
    /\ \/ dir'["queued"] = dir["queued"]
       \/ res'[p] = "error" /\ dir'["queued"] = dir["queued"] \cup {call[p].job}
    /\ \A j \in Jobs : Admitted(j)' <=> Admitted(j)

\* Every other step of a call.
Plain(p) ==
    /\ pc[p] # "idle" /\ pc'[p] \notin {"idle", "renamed"}
    /\ pc'[p] \in {"waiting", "locked", "pruned", "reserved"} =>
          pc[p] \in {"waiting", "locked", "pruned", "reserved"}
    /\ call'[p].op = call[p].op /\ call'[p].job = call[p].job
    /\ call[p].op = "claim" /\ pc'[p] = "unlock" => res'[p] # "ok"
    /\ dir'["queued"] = dir["queued"]
    /\ \A j \in Jobs : Admitted(j)' <=> Admitted(j)

\* What a step inside a call is to the scheduler.
LEMMA InsideKinds ==
  ASSUME TypeOK, NEW p \in Procs, TakeLock(p) \/ LockedStep(p) \/ IOFailure(p)
  PROVE  Others(p) /\ (Admits(p) \/ Takes(p) \/ Claimed(p) \/ Plain(p))
<1> USE DEF TypeOK, Others
<1>p. ASSUME NEW now, NEW left, PruneExcept(now, left)
      PROVE  dir'["queued"] = dir["queued"]
  BY <1>p DEF PruneExcept, Statuses, TerminalStatuses
<1>a. ASSUME admissions' = admissions  PROVE  \A j \in Jobs : Admitted(j)' <=> Admitted(j)
  BY <1>a DEF Admitted
<1>1. CASE TakeLock(p)
  BY <1>1, <1>a DEF TakeLock, Plain
<1>2. CASE Prune(p)
  <2>1. dir'["queued"] = dir["queued"]
    BY <1>2, <1>p DEF Prune, PruneTerminal
  <2> QED
    BY <1>2, <1>a, <2>1 DEF Prune, Leave, Plain, PruningOps
<1>3. CASE Unreadable(p)
  BY <1>3, <1>a DEF Unreadable, Leave, Plain
<1>4. CASE AdmitRefused(p) \/ AdmitRateLimited(p)
  BY <1>4, <1>a DEF AdmitRefused, AdmitRateLimited, At, Leave, Plain
<1>5. CASE AdmitReserve(p)
  BY <1>5, <1>a DEF AdmitReserve, At, Plain
<1>6. CASE AdmitWriteJob(p)
  <2>0. \E e : e.job = call[p].job /\ admissions' = admissions \cup {e}
    <3>1. admissions' = admissions \cup {[job |-> call[p].job, at |-> call[p].now, done |-> clock]}
      BY <1>6 DEF AdmitWriteJob
    <3> WITNESS [job |-> call[p].job, at |-> call[p].now, done |-> clock]
    <3> QED
      BY <3>1
  <2>1. \A j \in Jobs : Admitted(j)' <=> Admitted(j) \/ j = call[p].job
    BY <2>0 DEF Admitted
  <2>2. dir'["queued"] = dir["queued"] \cup {call[p].job}
    BY <1>6 DEF AdmitWriteJob, Statuses
  <2> QED
    BY <1>6, <2>1, <2>2 DEF AdmitWriteJob, At, Leave, Admits
<1>7. CASE ClaimNothing(p) \/ AcquireNothing(p)
  BY <1>7, <1>a DEF ClaimNothing, AcquireNothing, At, Leave, Plain
<1>8. CASE ClaimRename(p)
  <2>1. PICK j \in dir["queued"] :
           /\ dir' = [dir EXCEPT !["queued"] = @ \ {j}, !["running"] = @ \cup {j}]
           /\ call' = [call EXCEPT ![p].job = j]
    BY Zenon, <1>8 DEF ClaimRename
  <2>2. dir'["queued"] = dir["queued"] \ {j}
    BY <2>1 DEF Statuses
  <2>3. call'[p].job = j /\ call'[p].op = call[p].op
    BY <2>1 DEF Calls
  <2> QED
    BY Zenon, <1>8, <1>a, <2>1, <2>2, <2>3 DEF ClaimRename, At, Takes
<1>9. CASE ClaimWrite(p)
  BY <1>9, <1>a DEF ClaimWrite, At, Leave, Claimed
<1>10. CASE ClaimWriteFails(p)
  <2>1. \/ dir'["queued"] = dir["queued"]
        \/ dir'["queued"] = dir["queued"] \cup {call[p].job}
    BY <1>10 DEF ClaimWriteFails, Statuses
  <2> QED
    BY <1>10, <1>a, <2>1 DEF ClaimWriteFails, At, Leave, Claimed
<1>11. CASE AcquireLease(p)
  <2>1. call'[p].job = call[p].job /\ call'[p].op = call[p].op
    BY <1>11 DEF AcquireLease, Calls
  <2> QED
    BY <1>11, <1>a, <2>1 DEF AcquireLease, At, Leave, Plain
<1>12. CASE ReleaseLease(p) \/ FinishRefused(p) \/ MarkUnknown(p)
  BY <1>12, <1>a DEF ReleaseLease, FinishRefused, MarkUnknown, At, Leave, Plain
<1>13. CASE FinishWrite(p) \/ FinishRenameFails(p)
  BY <1>13, <1>a DEF FinishWrite, FinishRenameFails, At, Leave, Plain
<1>14. CASE FinishRename(p)
  <2>1. dir'["queued"] = dir["queued"]
    BY <1>14 DEF FinishRename, Calls, Statuses, TerminalStatuses
  <2> QED
    BY <1>14, <1>a, <2>1 DEF FinishRename, At, Plain
<1>15. CASE FinishPrune(p)
  <2>1. dir'["queued"] = dir["queued"]
    BY <1>15, <1>p DEF FinishPrune, PruneTerminal
  <2> QED
    BY <1>15, <1>a, <2>1 DEF FinishPrune, At, Leave, Plain
<1>16. CASE AdmitWriteFails(p)
  BY <1>16, <1>a DEF AdmitWriteFails, At, Leave, Plain
<1>17. CASE PruneStops(p)
  <2>1. dir'["queued"] = dir["queued"]
    BY <1>17, <1>p DEF PruneStops
  <2> QED
    BY <1>17, <1>a, <2>1 DEF PruneStops, At, Leave, Plain, PruningOps
<1>18. CASE Throws(p)
  BY <1>18, <1>a DEF Throws, Leave, Plain
<1> QED
  BY <1>1, <1>2, <1>3, <1>4, <1>5, <1>6, <1>7, <1>8, <1>9, <1>10, <1>11, <1>12, <1>13,
     <1>14, <1>15, <1>16, <1>17, <1>18 DEF LockedStep, IOFailure

\* The types the steps of the scheduler keep beside those of the queue.
LoopTypes ==
    /\ loop \in [Replicas -> LoopStates] /\ work \in [Replicas -> Jobs]
    /\ cron \in [Replicas -> BOOLEAN] /\ started \in [Jobs -> Nat]

\* A step inside a call keeps the invariant: it admits, takes or claims one job,
\* or does nothing of the kind.
LEMMA InsideKeepsOnce ==
  ASSUME TypeOK, TypeOK', LoopTypes, OnceInv, NEW p \in Procs,
         TakeLock(p) \/ LockedStep(p) \/ IOFailure(p), UNCHANGED <<loop, work, started>>
  PROVE  OnceInv'
<1>1. Others(p) /\ (Admits(p) \/ Takes(p) \/ Claimed(p) \/ Plain(p))
  BY InsideKinds
<1>2. pc[p] # "idle" /\ pc'[p] # "idle" /\ call'[p].op = call[p].op
  <2>1. call[p].op = "claim" => pc[p] # "idle"
    BY DEF OnceInv, RolesOK
  <2> QED
    BY <1>1, <2>1 DEF Admits, Takes, Claimed, Plain
<1>t. /\ \A q \in Procs : call[q].job \in Jobs /\ call'[q].job \in Jobs
      /\ dir["queued"] \subseteq Jobs /\ dir'["queued"] \subseteq Jobs
  BY DEF TypeOK, Calls, Statuses
<1>r. Replicas \subseteq Procs /\ Portals \subseteq Procs /\ Operators \subseteq Procs
  BY RolesAssumption
<1>3. RolesOK'
  BY <1>1, <1>2, <1>r DEF OnceInv, RolesOK, Others
<1>4. \A j \in Jobs : Admitted(j) => Admitted(j)'
  BY <1>1 DEF Admits, Takes, Claimed, Plain
<1>5. CASE Admits(p)
  <2>n. ~Admitted(call[p].job)
    BY <1>5 DEF Admits, OnceInv, AdmitOK
  <2>p. \A r \in Replicas : r # p
    BY <1>5, <1>2 DEF Admits, OnceInv, RolesOK, LoopTypes
  <2>h. \A r \in Replicas, j \in Jobs : Holds(r, j)' <=> Holds(r, j)
    BY <1>1, <1>r, <2>p DEF Holds, Others
  <2>1. AdmitOK'
    <3>1. \A q \in Procs : call'[q] = call[q]
      BY <1>1, <1>5 DEF Others, Admits
    <3> QED
      BY <1>1, <1>5, <1>t, <3>1 DEF OnceInv, AdmitOK, Others, Admits
  <2>2. started[call[p].job] = 0
    BY <2>n, <1>t DEF OnceInv, StartedOK, LoopTypes
  <2>3. WaitingOK'
    BY <1>5, <1>t, <2>2 DEF OnceInv, WaitingOK, Admits
  <2>4. ClaimedOK'
    BY <1>5, <1>t, <2>h, <2>n DEF OnceInv, ClaimedOK, Admits
  <2>5. StartedOK'
    BY <1>4 DEF OnceInv, StartedOK
  <2> QED
    BY <1>3, <2>1, <2>3, <2>4, <2>5 DEF OnceInv
<1>6. \A j \in Jobs : ~Admits(p) => (Admitted(j)' <=> Admitted(j))
  BY <1>1 DEF Takes, Claimed, Plain
<1>7. ASSUME ~Admits(p)
      PROVE  AdmitOK' /\ StartedOK'
  <2>1. \A q \in Procs : call'[q].op = "admit" =>
           /\ call[q].op = "admit" /\ call'[q].job = call[q].job
           /\ pc'[q] \in {"waiting", "locked", "pruned", "reserved"} =>
                 pc[q] \in {"waiting", "locked", "pruned", "reserved"}
    BY <1>1, <1>7 DEF Others, Takes, Claimed, Plain
  <2> QED
    BY <1>6, <1>7, <1>t, <2>1 DEF OnceInv, AdmitOK, StartedOK
<1>8. CASE Takes(p)
  <2>1. ~Admits(p)
    BY <1>8 DEF Takes, Admits
  <2> DEFINE k == call'[p].job
  <2>k. k \in dir["queued"] /\ k \in Jobs /\ Admitted(k) /\ started[k] = 0
    BY <1>8, <1>t DEF Takes, OnceInv, WaitingOK
  <2>2. \A r \in Replicas : ~Holds(r, k)
    BY <2>k DEF OnceInv, ClaimedOK
  <2>h. \A r \in Replicas, j \in Jobs : r # p => (Holds(r, j)' <=> Holds(r, j))
    BY <1>1, <1>r DEF Holds, Others
  <2>p. p \in Replicas => loop[p] \in {"claiming", "settling"}
    BY <1>2 DEF OnceInv, RolesOK
  <2>g. \A j \in Jobs : p \in Replicas /\ Holds(p, j)' => j = k
    BY <2>p DEF Holds
  <2>3. WaitingOK'
    BY <1>6, <1>8, <1>t, <2>1 DEF Takes, OnceInv, WaitingOK
  <2>4. ClaimedOK'
    <3> SUFFICES ASSUME NEW r \in Replicas, NEW j \in Jobs, Holds(r, j)'
                 PROVE  /\ Admitted(j)' /\ j \notin dir'["queued"] /\ started[j] = 0
                        /\ \A s \in Replicas \ {r} : ~Holds(s, j)'
      BY DEF ClaimedOK
    <3>1. CASE r = p
      <4>1. j = k
        BY <2>g, <3>1
      <4> QED
        BY <1>8, <2>k, <1>4, <2>h, <2>2, <3>1, <4>1 DEF Takes
    <3>2. CASE r # p
      <4>1. Holds(r, j)
        BY <2>h, <3>2
      <4>2. j # k
        BY <4>1, <2>2
      <4>3. ~(p \in Replicas /\ Holds(p, j)')
        BY <4>2, <2>g
      <4> QED
        BY <1>8, <1>4, <2>h, <4>1, <4>3 DEF Takes, OnceInv, ClaimedOK
    <3> QED
      BY <3>1, <3>2
  <2> QED
    BY <1>3, <1>7, <2>1, <2>3, <2>4 DEF OnceInv
<1>9. CASE Claimed(p)
  <2>1. ~Admits(p)
    BY <1>9 DEF Claimed, Admits
  <2> DEFINE k == call[p].job
  <2>p. p \in Replicas /\ loop[p] = "claiming"
    BY <1>9, <1>2, RolesAssumption DEF Claimed, OnceInv, RolesOK
  <2>k. k \in Jobs /\ Holds(p, k)
    BY <1>9, <1>t, <2>p DEF Claimed, Holds
  <2>h. \A r \in Replicas, j \in Jobs : Holds(r, j)' => Holds(r, j)
    BY <1>1, <1>r, <1>9, <2>p DEF Holds, Others, Claimed
  <2>e. \A j \in Jobs : res'[p] = "error" => ~Holds(p, j)'
    BY <1>9, <2>p DEF Holds, Claimed
  <2>4. Admitted(k) /\ started[k] = 0 /\ \A s \in Replicas \ {p} : ~Holds(s, k)
    BY <2>k, <2>p DEF OnceInv, ClaimedOK
  <2>3. WaitingOK'
    BY <1>6, <1>9, <1>t, <2>1, <2>4 DEF Claimed, OnceInv, WaitingOK
  <2>5. ClaimedOK'
    <3> SUFFICES ASSUME NEW r \in Replicas, NEW j \in Jobs, Holds(r, j)'
                 PROVE  /\ Admitted(j)' /\ j \notin dir'["queued"] /\ started[j] = 0
                        /\ \A s \in Replicas \ {r} : ~Holds(s, j)'
      BY DEF ClaimedOK
    <3>1. /\ Admitted(j) /\ j \notin dir["queued"] /\ started[j] = 0
          /\ \A s \in Replicas \ {r} : ~Holds(s, j)
      BY <2>h DEF OnceInv, ClaimedOK
    <3>2. res'[p] = "error" => j # k
      <4>1. j = k => r = p
        BY <3>1, <2>k, <2>p
      <4> QED
        BY <2>e, <4>1
    <3> QED
      BY <1>9, <1>4, <2>h, <3>1, <3>2 DEF Claimed
  <2> QED
    BY <1>3, <1>7, <2>1, <2>3, <2>5 DEF OnceInv
<1>10. CASE Plain(p) /\ ~Admits(p)
  <2>h. \A r \in Replicas, j \in Jobs : Holds(r, j)' => Holds(r, j)
    <3>1. p \in Replicas => loop[p] \in {"claiming", "settling"} /\
                            (loop[p] = "claiming" => call[p].op = "claim")
      BY <1>2 DEF OnceInv, RolesOK
    <3> QED
      BY <1>1, <1>r, <1>10, <3>1 DEF Holds, Others, Plain
  <2>3. WaitingOK'
    BY <1>6, <1>10, <1>t DEF Plain, OnceInv, WaitingOK
  <2>4. ClaimedOK'
    BY <1>4, <1>10, <2>h DEF Plain, OnceInv, ClaimedOK
  <2> QED
    BY <1>3, <1>7, <1>10, <2>3, <2>4 DEF OnceInv
<1> QED
  BY <1>1, <1>5, <1>8, <1>9, <1>10

\* A replica, a portal or an operator begins a call: a portal with an identifier
\* that no admission and no other call has.
LEMMA RequestKeepsOnce ==
  ASSUME TypeOK, TypeOK', LoopTypes, OnceInv, NEW p \in Procs, NEW op, NEW j \in Jobs,
         NEW st, NEW l, Request(p, op, j, st, l), UNCHANGED <<work, started>>,
         \/ /\ p \in Replicas
            /\ \/ op = "claim" /\ loop' = [loop EXCEPT ![p] = "claiming"]
               \/ op \in {"finish", "unknown"} /\ loop[p] # "claimed"
                  /\ loop' = [loop EXCEPT ![p] = "settling"]
         \/ p \in Portals /\ op = "admit" /\ loop' = loop /\ ~Admitted(j)
            /\ \A q \in Procs : call[q].op = "admit" => call[q].job # j
         \/ p \in Operators /\ op = "finish" /\ loop' = loop
  PROVE  OnceInv'
<1>r. /\ Replicas \subseteq Procs /\ Portals \subseteq Procs /\ Operators \subseteq Procs
      /\ Replicas \cap Portals = {} /\ Replicas \cap Operators = {} /\ Portals \cap Operators = {}
  BY RolesAssumption
<1>1. /\ pc[p] = "idle" /\ pc'[p] = "waiting" /\ call'[p].op = op /\ call'[p].job = j
      /\ \A q \in Procs \ {p} : pc'[q] = pc[q] /\ call'[q] = call[q]
      /\ res' = res /\ dir' = dir /\ admissions' = admissions
  BY DEF Request, TypeOK
<1>2. \A r \in Replicas \ {p} : loop'[r] = loop[r]
  BY <1>r DEF LoopTypes
<1>3. p \in Replicas =>
        \/ loop'[p] = "claiming" /\ op = "claim"
        \/ loop'[p] = "settling" /\ op \in {"finish", "unknown"}
  BY <1>r DEF LoopTypes
<1>a. \A k \in Jobs : Admitted(k)' <=> Admitted(k)
  BY <1>1 DEF Admitted
<1>h. \A r \in Replicas, k \in Jobs : Holds(r, k)' => Holds(r, k)
  BY <1>1, <1>2, <1>3, <1>r DEF Holds
<1>t. \A q \in Procs : call[q].job \in Jobs /\ call'[q].job \in Jobs
  BY DEF TypeOK, Calls
<1>4. RolesOK'
  BY <1>1, <1>2, <1>3, <1>r DEF OnceInv, RolesOK
<1>5. AdmitOK'
  <2>1. op = "admit" => ~Admitted(j) /\ \A q \in Procs : call[q].op = "admit" => call[q].job # j
    BY <1>r
  <2> QED
    BY <1>1, <1>a, <1>t, <2>1 DEF OnceInv, AdmitOK
<1>6. dir["queued"] \subseteq Jobs
  BY DEF TypeOK, Statuses
<1> QED
  BY <1>1, <1>4, <1>5, <1>6, <1>a, <1>h DEF OnceInv, WaitingOK, ClaimedOK, StartedOK

\* A call ends or its process dies; a loop may stay, go on with the job of its
\* claim, or be anywhere outside a call and without a job.
LEMMA ReturnKeepsOnce ==
  ASSUME TypeOK, TypeOK', LoopTypes, OnceInv, NEW p \in Procs, Return(p),
         UNCHANGED <<dir, admissions, started>>,
         \A q \in Replicas \ {p} : loop'[q] = loop[q] /\ work'[q] = work[q],
         p \in Replicas =>
            \/ loop'[p] \in LoopStates \ {"claiming", "settling", "claimed"}
            \/ loop'[p] = "claimed" /\ Holds(p, work'[p]) /\ work'[p] \in Jobs
  PROVE  OnceInv'
<1>r. Replicas \subseteq Procs /\ Portals \subseteq Procs /\ Operators \subseteq Procs
  BY RolesAssumption
<1>1. /\ pc'[p] = "idle" /\ call'[p].op = "prune"
      /\ \A q \in Procs \ {p} : pc'[q] = pc[q] /\ call'[q] = call[q] /\ res'[q] = res[q]
  BY DEF Return, TypeOK, NoCall
<1>a. \A k \in Jobs : Admitted(k)' <=> Admitted(k)
  BY DEF Admitted
<1>h. \A r \in Replicas, k \in Jobs : Holds(r, k)' => Holds(r, k)
  BY <1>1, <1>r DEF Holds
<1>t. \A q \in Procs : call[q].job \in Jobs /\ call'[q].job \in Jobs
  BY DEF TypeOK, Calls
<1>4. RolesOK'
  BY <1>1, <1>r DEF OnceInv, RolesOK
<1>5. AdmitOK'
  BY <1>1, <1>a, <1>t DEF OnceInv, AdmitOK
<1>6. dir["queued"] \subseteq Jobs
  BY DEF TypeOK, Statuses
<1> QED
  BY <1>4, <1>5, <1>6, <1>a, <1>h DEF OnceInv, WaitingOK, ClaimedOK, StartedOK

\* The executor is started with the job that was claimed.
LEMMA ExecuteKeepsOnce ==
  ASSUME TypeOK, LoopTypes, OnceInv, NEW r \in Replicas, LoopExecute(r)
  PROVE  OnceInv'
<1> DEFINE k == work[r]
<1>1. /\ loop[r] = "claimed" /\ loop'[r] = "executing" /\ work' = work
      /\ \A q \in Replicas \ {r} : loop'[q] = loop[q]
      /\ k \in Jobs /\ Holds(r, k)
      /\ UNCHANGED <<dir, pc, call, res, admissions>>
  BY DEF LoopExecute, LoopTypes, Holds, vars
<1>2. /\ started[k] = 0 /\ started'[k] = 1
      /\ \A j \in Jobs \ {k} : started'[j] = started[j]
      /\ Admitted(k) /\ k \notin dir["queued"] /\ \A s \in Replicas \ {r} : ~Holds(s, k)
  BY <1>1 DEF LoopExecute, LoopTypes, OnceInv, ClaimedOK
<1>a. \A j \in Jobs : Admitted(j)' <=> Admitted(j)
  BY <1>1 DEF Admitted
<1>h. \A s \in Replicas, j \in Jobs : Holds(s, j)' => s # r /\ Holds(s, j)
  BY <1>1 DEF Holds
<1>3. RolesOK' /\ AdmitOK'
  BY <1>1 DEF OnceInv, RolesOK, AdmitOK, Admitted
<1>6. dir["queued"] \subseteq Jobs
  BY DEF TypeOK, Statuses
<1>4. WaitingOK' /\ StartedOK'
  BY <1>1, <1>2, <1>6, <1>a DEF OnceInv, WaitingOK, StartedOK
<1>5. ClaimedOK'
  <2> SUFFICES ASSUME NEW s \in Replicas, NEW j \in Jobs, Holds(s, j)'
               PROVE  /\ Admitted(j)' /\ j \notin dir'["queued"] /\ started'[j] = 0
                      /\ \A q \in Replicas \ {s} : ~Holds(q, j)'
    BY DEF ClaimedOK
  <2>1. s # r /\ Holds(s, j)
    BY <1>h
  <2>2. j # k
    BY <1>2, <2>1
  <2> QED
    BY <1>1, <1>2, <1>a, <1>h, <2>1, <2>2 DEF OnceInv, ClaimedOK
<1> QED
  BY <1>3, <1>4, <1>5 DEF OnceInv

\* Steps that leave the queue, the calls and the executions alone.
LEMMA OutsideKeepsOnce ==
  ASSUME LoopTypes, OnceInv, UNCHANGED <<vars, work, started>>,
         \/ loop' = loop
         \/ \E r \in Replicas, to \in {"down", "poll"} :
               pc[r] = "idle" /\ loop' = [loop EXCEPT ![r] = to]
  PROVE  OnceInv'
<1>1. \A r \in Replicas :
         loop'[r] = loop[r] \/ (pc[r] = "idle" /\ loop'[r] \in {"down", "poll"})
  BY DEF LoopTypes
<1>2. \A r \in Replicas, j \in Jobs : Holds(r, j)' => Holds(r, j)
  BY <1>1 DEF Holds, vars
<1>3. RolesOK'
  BY <1>1 DEF OnceInv, RolesOK, vars
<1> QED
  BY <1>2, <1>3 DEF OnceInv, AdmitOK, WaitingOK, ClaimedOK, StartedOK, Admitted, vars

\* Every step of the scheduler is a step of the queue's most general client, and
\* keeps the types of the loops.
LEMMA SchedulerSteps ==
  ASSUME TypeOK, LoopTypes, [SchedulerNext]_svars
  PROVE  [Next]_vars /\ LoopTypes'
<1>r. /\ Replicas \subseteq Procs /\ Portals \subseteq Procs /\ Operators \subseteq Procs
  BY RolesAssumption
<1>t. /\ \A q \in Procs : call[q].job \in Jobs
      /\ \A r \in Replicas : work[r] \in Jobs
      /\ dir["running"] \subseteq Jobs
  BY DEF TypeOK, Calls, Statuses, LoopTypes
<1>n. \A p \in Procs :
         /\ (TakeLock(p) \/ LockTimeout(p) \/ ReleaseLock(p) \/ LockedStep(p) \/ IOFailure(p)
             \/ Crash(p)) => Next
         /\ \A j \in Jobs, st \in TerminalStatuses :
               /\ Request(p, "admit", j, "done", AnyLease) => Next
               /\ Request(p, "finish", j, st, AnyLease) => Next
               /\ Request(p, "unknown", j, "done", AnyLease) => Next
         /\ RequestClaim(p) => Next
  BY DEF Next, Inside, RequestAdmit, RequestFinish, RequestUnknown
<1> USE DEF LoopStates, LoopTypes
<1>0. CASE UNCHANGED svars
  BY <1>0 DEF svars
<1>1. ASSUME NEW r \in Replicas, LoopClaim(r)  PROVE Next /\ LoopTypes'
  BY <1>1, <1>n, <1>r DEF LoopClaim
<1>2. ASSUME NEW r \in Replicas, LoopClaimReturns(r)  PROVE Next /\ LoopTypes'
  <2>1. LockTimeout(r) \/ ReleaseLock(r)
    BY <1>2 DEF LoopClaimReturns
  <2>2. Next
    BY <2>1, <1>n, <1>r
  <2>3. /\ loop' = [loop EXCEPT ![r] = "claimed"] \/ loop' = [loop EXCEPT ![r] = "poll"]
        /\ work' = work \/ work' = [work EXCEPT ![r] = call[r].job]
        /\ UNCHANGED <<cron, started>>
    BY <1>2 DEF LoopClaimReturns
  <2> QED
    BY <2>2, <2>3, <1>t, <1>r
<1>3. ASSUME NEW r \in Replicas, LoopExecute(r)  PROVE UNCHANGED vars /\ LoopTypes'
  BY <1>3 DEF LoopExecute
<1>4. ASSUME NEW r \in Replicas, LoopSettle(r)  PROVE Next /\ LoopTypes'
  <2>1. PICK outcome \in Outcomes :
           IF outcome = "unknown"
           THEN Request(r, "unknown", work[r], "done", AnyLease)
           ELSE Request(r, "finish", work[r], outcome, AnyLease)
    BY <1>4 DEF LoopSettle
  <2>2. Next
    BY <2>1, <1>n, <1>t, <1>r DEF Outcomes, TerminalStatuses
  <2> QED
    BY <1>4, <2>2 DEF LoopSettle
<1>5. ASSUME NEW r \in Replicas, LoopSettled(r)  PROVE Next /\ LoopTypes'
  <2>1. LockTimeout(r) \/ ReleaseLock(r)
    BY <1>5 DEF LoopSettled
  <2>2. loop' = [loop EXCEPT ![r] = "dead"] \/ loop' = [loop EXCEPT ![r] = "poll"]
    BY <1>5 DEF LoopSettled
  <2>3. UNCHANGED <<work, cron, started>>
    BY <1>5 DEF LoopSettled
  <2> QED
    BY <2>1, <2>2, <2>3, <1>n, <1>r
<1>6. ASSUME NEW r \in Replicas, LoopInside(r) \/ LoopIOFailure(r)  PROVE Next /\ LoopTypes'
  BY <1>6, <1>n, <1>r DEF LoopInside, LoopIOFailure
<1>7. ASSUME NEW r \in Replicas, ChildKilled(r)  PROVE Next /\ LoopTypes'
  <2>1. loop' = [loop EXCEPT ![r] = "dead"] \/ loop' = [loop EXCEPT ![r] = "poll"]
    BY Zenon, <1>7 DEF ChildKilled
  <2> QED
    BY <1>7, <2>1, <1>n, <1>r DEF ChildKilled
<1>8. ASSUME NEW r \in Replicas, ContainerStops(r)  PROVE [Next]_vars /\ LoopTypes'
  <2>1. UNCHANGED vars \/ Crash(r)
    BY <1>8 DEF ContainerStops
  <2> QED
    BY <1>8, <2>1, <1>n, <1>r DEF ContainerStops
<1>9. ASSUME NEW r \in Replicas, ContainerStarts(r) \/ CronStarts(r) \/ CronEnds(r)
      PROVE  UNCHANGED vars /\ LoopTypes'
  BY Zenon, <1>9 DEF ContainerStarts, CronStarts, CronEnds
<1>10. ASSUME NEW p \in Portals, PortalAdmits(p)  PROVE Next /\ LoopTypes'
  <2>1. PICK j \in Jobs : Request(p, "admit", j, "done", AnyLease)
    BY <1>10 DEF PortalAdmits
  <2>2. Next
    BY <2>1, <1>n, <1>r DEF TerminalStatuses
  <2> QED
    BY <1>10, <2>2 DEF PortalAdmits
<1>11. ASSUME NEW p \in Operators, OperatorReconciles(p)  PROVE Next /\ LoopTypes'
  <2>1. PICK j \in dir["running"], st \in TerminalStatuses : Request(p, "finish", j, st, AnyLease)
    BY <1>11 DEF OperatorReconciles
  <2>2. Next
    BY <2>1, <1>n, <1>t, <1>r
  <2> QED
    BY <1>11, <2>2 DEF OperatorReconciles
<1>12. ASSUME NEW p \in Portals \cup Operators, OtherInside(p) \/ OtherIOFailure(p) \/ OtherKilled(p)
       PROVE  Next /\ LoopTypes'
  BY <1>12, <1>n, <1>r DEF OtherInside, OtherIOFailure, OtherKilled
<1>13. CASE ClearLock
  BY <1>13 DEF ClearLock, Next
<1> QED
  BY <1>0, <1>1, <1>2, <1>3, <1>4, <1>5, <1>6, <1>7, <1>8, <1>9, <1>10, <1>11, <1>12, <1>13
  DEF SchedulerNext, Healthy, Faults, LoopStep

\* No step of the scheduler starts a job a second time or leaves one to be.
LEMMA SchedulerKeepsOnce ==
  ASSUME TypeOK, TypeOK', LoopTypes, OnceInv, [SchedulerNext]_svars
  PROVE  OnceInv'
<1>r. /\ Replicas \subseteq Procs /\ Portals \subseteq Procs /\ Operators \subseteq Procs
      /\ Replicas \cap (Portals \cup Operators) = {}
  BY RolesAssumption
<1>t. /\ \A q \in Procs : call[q].job \in Jobs
      /\ \A r \in Replicas : work[r] \in Jobs /\ loop[r] \in LoopStates
      /\ dir["running"] \subseteq Jobs
      /\ AnyJob \in Jobs
  BY DomainAssumption DEF TypeOK, Calls, Statuses, LoopTypes, AnyJob
<1>f. \A r \in Replicas : pc[r] # "idle" <=> loop[r] \in {"claiming", "settling"}
  BY DEF OnceInv, RolesOK
<1>0. CASE UNCHANGED svars
  BY <1>0, OutsideKeepsOnce DEF svars
<1>1. ASSUME NEW r \in Replicas, LoopClaim(r)  PROVE OnceInv'
  BY Zenon, <1>1, <1>r, <1>t, RequestKeepsOnce DEF LoopClaim, RequestClaim
<1>2. ASSUME NEW r \in Replicas, LoopClaimReturns(r)  PROVE OnceInv'
  <2>1. Return(r) /\ UNCHANGED <<dir, admissions, started>>
    BY <1>2 DEF LoopClaimReturns, LockTimeout, ReleaseLock
  <2>2. \A q \in Replicas \ {r} : loop'[q] = loop[q] /\ work'[q] = work[q]
    BY <1>2 DEF LoopClaimReturns, LoopTypes
  <2>3. \/ loop'[r] = "poll"
        \/ loop'[r] = "claimed" /\ Holds(r, work'[r]) /\ work'[r] \in Jobs
    BY <1>2, <1>t, <1>r DEF LoopClaimReturns, LoopTypes, ReleaseLock, Holds
  <2> QED
    BY <2>1, <2>2, <2>3, <1>r, ReturnKeepsOnce DEF LoopStates
<1>3. ASSUME NEW r \in Replicas, LoopExecute(r)  PROVE OnceInv'
  BY <1>3, ExecuteKeepsOnce
<1>4. ASSUME NEW r \in Replicas, LoopSettle(r)  PROVE OnceInv'
  <2>1. PICK outcome \in Outcomes :
           IF outcome = "unknown"
           THEN Request(r, "unknown", work[r], "done", AnyLease)
           ELSE Request(r, "finish", work[r], outcome, AnyLease)
    BY <1>4 DEF LoopSettle
  <2>2. /\ loop[r] # "claimed" /\ loop' = [loop EXCEPT ![r] = "settling"]
        /\ UNCHANGED <<work, started>>
    BY <1>4 DEF LoopSettle
  <2> QED
    BY Zenon, <2>1, <2>2, <1>t, <1>r, RequestKeepsOnce
<1>5. ASSUME NEW r \in Replicas, LoopSettled(r) \/ ChildKilled(r)  PROVE OnceInv'
  <2>1. Return(r) /\ UNCHANGED <<dir, admissions, started, work>>
    BY <1>5 DEF LoopSettled, ChildKilled, Crash, LockTimeout, ReleaseLock
  <2>2. loop' = [loop EXCEPT ![r] = "dead"] \/ loop' = [loop EXCEPT ![r] = "poll"]
    BY <1>5 DEF LoopSettled, ChildKilled
  <2>3. /\ \A q \in Replicas \ {r} : loop'[q] = loop[q]
        /\ loop'[r] \in {"dead", "poll"}
    BY <2>2 DEF LoopTypes
  <2> QED
    BY <2>1, <2>3, <1>r, ReturnKeepsOnce DEF LoopStates
<1>6. ASSUME NEW r \in Replicas, LoopInside(r) \/ LoopIOFailure(r)  PROVE OnceInv'
  BY <1>6, <1>r, InsideKeepsOnce DEF LoopInside, LoopIOFailure
<1>7. ASSUME NEW r \in Replicas, ContainerStops(r)  PROVE OnceInv'
  <2>1. CASE pc[r] = "idle"
    BY Zenon, <1>7, <2>1, OutsideKeepsOnce DEF ContainerStops
  <2>2. CASE pc[r] # "idle"
    <3>1. Return(r) /\ UNCHANGED <<dir, admissions, started, work>>
      BY <1>7, <2>2 DEF ContainerStops, Crash
    <3>2. /\ \A q \in Replicas \ {r} : loop'[q] = loop[q]
          /\ loop'[r] = "down"
      BY <1>7 DEF ContainerStops, LoopTypes
    <3> QED
      BY <3>1, <3>2, <1>r, ReturnKeepsOnce DEF LoopStates
  <2> QED
    BY <2>1, <2>2
<1>8. ASSUME NEW r \in Replicas, ContainerStarts(r) \/ CronStarts(r) \/ CronEnds(r)
      PROVE  OnceInv'
  BY <1>8, <1>f, OutsideKeepsOnce DEF ContainerStarts, CronStarts, CronEnds
<1>9. ASSUME NEW p \in Portals, PortalAdmits(p)  PROVE OnceInv'
  <2>1. PICK j \in Jobs :
           /\ \A a \in admissions : a.job # j
           /\ \A q \in Procs : call[q].op = "admit" => call[q].job # j
           /\ Request(p, "admit", j, "done", AnyLease)
    BY <1>9 DEF PortalAdmits
  <2>2. UNCHANGED <<loop, work, started>>
    BY <1>9 DEF PortalAdmits
  <2> QED
    BY <2>1, <2>2, <1>r, RequestKeepsOnce DEF Admitted
<1>10. ASSUME NEW p \in Operators, OperatorReconciles(p)  PROVE OnceInv'
  <2>1. PICK j \in dir["running"], st \in TerminalStatuses : Request(p, "finish", j, st, AnyLease)
    BY <1>10 DEF OperatorReconciles
  <2>2. UNCHANGED <<loop, work, started>>
    BY <1>10 DEF OperatorReconciles
  <2> QED
    BY <2>1, <2>2, <1>t, <1>r, RequestKeepsOnce
<1>11. ASSUME NEW p \in Portals \cup Operators, OtherInside(p) \/ OtherIOFailure(p) \/ OtherKilled(p)
       PROVE  OnceInv'
  <2>1. UNCHANGED <<loop, work, started>>
    BY <1>11 DEF OtherInside, OtherIOFailure, OtherKilled
  <2>2. CASE TakeLock(p) \/ LockedStep(p) \/ IOFailure(p)
    BY <2>1, <2>2, <1>r, InsideKeepsOnce
  <2>3. CASE LockTimeout(p) \/ ReleaseLock(p) \/ Crash(p)
    <3>1. Return(p) /\ UNCHANGED <<dir, admissions>>
      BY <2>3 DEF LockTimeout, ReleaseLock, Crash
    <3>2. p \notin Replicas
      BY <1>r
    <3> QED
      BY <2>1, <3>1, <3>2, <1>r, ReturnKeepsOnce
  <2> QED
    BY <1>11, <2>2, <2>3 DEF OtherInside, OtherIOFailure, OtherKilled
<1>12. CASE ClearLock
  BY <1>12 DEF ClearLock, OperatorClearsLock, OnceInv, RolesOK, AdmitOK, WaitingOK, ClaimedOK,
     StartedOK, Holds, Admitted
<1> QED
  BY <1>0, <1>1, <1>2, <1>3, <1>4, <1>5, <1>6, <1>7, <1>8, <1>9, <1>10, <1>11, <1>12
  DEF SchedulerNext, Healthy, Faults, LoopStep

\* In every behaviour of the scheduler replicas, the portals and the operators
\* that work on one queue, the types and the inductive invariant hold.
THEOREM SchedulerInvariant == SchedulerSpec => [](SchedulerTypeOK /\ OnceInv)
<1>1. SchedulerInit => TypeOK /\ LoopTypes /\ OnceInv
  <2> SUFFICES ASSUME SchedulerInit  PROVE TypeOK /\ LoopTypes /\ OnceInv
    OBVIOUS
  <2>1. TypeOK
    BY InitTyped DEF SchedulerInit
  <2>2. LoopTypes
    BY DomainAssumption DEF SchedulerInit, LoopTypes, LoopStates, AnyJob
  <2>3. OnceInv
    BY RolesAssumption DEF SchedulerInit, Init, NoCall, OnceInv, RolesOK, AdmitOK, WaitingOK,
       ClaimedOK, StartedOK, Holds, Admitted, Statuses
  <2> QED
    BY <2>1, <2>2, <2>3
<1>2. TypeOK /\ LoopTypes /\ OnceInv /\ [SchedulerNext]_svars
        => (TypeOK /\ LoopTypes /\ OnceInv)'
  BY SchedulerSteps, StepTyped, SchedulerKeepsOnce
<1>3. TypeOK /\ LoopTypes => SchedulerTypeOK
  BY DEF LoopTypes, SchedulerTypeOK
<1> QED
  BY <1>1, <1>2, <1>3, PTL DEF SchedulerSpec

\* The callers of the queue use it as its most general client may: what is proved
\* of the queue holds of it under the scheduler.
THEOREM SchedulerImplementsQueue == SchedulerSpec => Spec
<1>1. SchedulerInit => Init
  BY DEF SchedulerInit
<1>2. SchedulerTypeOK /\ [SchedulerNext]_svars => [Next]_vars
  BY SchedulerSteps DEF SchedulerTypeOK, LoopTypes
<1> QED
  BY <1>1, <1>2, SchedulerInvariant, PTL DEF Spec, SchedulerSpec

\* No crash, restart, failed claim or dead loop makes the executor run a job
\* twice, for any number of replicas, portals, operators and jobs.
THEOREM ExecutedAtMostOnceHolds == SchedulerSpec => []ExecutedAtMostOnce
<1>1. OnceInv => ExecutedAtMostOnce
  BY DEF OnceInv, StartedOK, ExecutedAtMostOnce
<1> QED
  BY <1>1, SchedulerInvariant, PTL

-----------------------------------------------------------------------------
(* The status streams.                                                        *)

Numbered == 1 .. LastEvent
Frames == Seq(Numbered)
LogRecs == [run : StatusRuns, seq : Numbered]
Pumping == {"loop", "wait", "take", "blocked"}
ConnRecs == [pc : Pumping \cup {"free", "ended", "destroyed"},
             run : StatusRuns \cup {NoRun}, subject : {NoRun} \cup {Subject[w] : w \in Watchers},
             cursor : 0 .. LastEvent, mark : 0 .. LastEvent, replay : Frames, queue : Frames,
             item : 0 .. LastEvent, closed : {"no", "gone", "overflow", "finished"},
             lost : BOOLEAN, wire : Frames]
WatcherStates == {"connecting", "open", "completed", "gap", "busy", "timedout"}

\* The values the variables of the streams take.
StreamTypes ==
    /\ eventLog \in Seq(LogRecs) /\ Len(eventLog) =< LogLimit
    /\ executor \in [StatusRuns -> [state : {"running", "completed", "aborted"},
                                    seq : 0 .. LastEvent, durable : 0 .. LastEvent]]
    /\ conn \in [Conns -> ConnRecs] /\ \A k \in Conns : Len(conn[k].queue) =< MaxQueue
    /\ subscribers \subseteq Conns
    /\ watcher \in [Watchers -> [state : WatcherStates, seen : 0 .. LastEvent, conn : Conns \cup {NoConn}]]

\* A run that goes on has every event on disk, and one left to emit; the log
\* holds nothing that is not.
ExecutorOK ==
    /\ \A r \in StatusRuns :
          executor[r].state = "running" => executor[r].durable = executor[r].seq /\ executor[r].seq < LastEvent
    /\ \A r \in StatusRuns : executor[r].state # "running" => executor[r].durable >= executor[r].seq
    /\ \A i \in 1 .. Len(eventLog) : eventLog[i].seq =< executor[eventLog[i].run].durable

\* What a connection has to send is on disk up to d.
Within(c, d) ==
    /\ \A i \in 1 .. Len(c.replay) : c.replay[i] =< d
    /\ \A i \in 1 .. Len(c.queue) : c.queue[i] =< d
    /\ c.item =< d
PumpOK(k) ==
    /\ conn[k].pc \in Pumping => conn[k].run \in StatusRuns
    /\ conn[k].run \in StatusRuns => Within(conn[k], executor[conn[k].run].durable)

\* The number of the last event that was written to the socket.
Written(c) == IF c.pc = "blocked" /\ c.item # 0 THEN c.item ELSE c.cursor

\* What is under way to a browser follows what it has seen, up to what the
\* pump has written, and is on disk.
Fed(c, seen, r, d) ==
    /\ c.pc # "free" /\ ~c.lost
    /\ \A i \in 1 .. Len(c.wire) : c.wire[i] = seen + i
    /\ c.pc \in Pumping => c.run = r /\ seen + Len(c.wire) = Written(c)
    /\ seen + Len(c.wire) =< d
WatchOK(w) ==
    /\ watcher[w].state = "open" <=> watcher[w].conn # NoConn
    /\ watcher[w].state = "open" =>
          Fed(conn[watcher[w].conn], watcher[w].seen, WatchedRun[w], executor[WatchedRun[w]].durable)

\* The inductive invariant: each browser has a connection of its own.
StreamInv ==
    /\ StreamTypes /\ ExecutorOK
    /\ \A k \in Conns : PumpOK(k)
    /\ \A w \in Watchers : WatchOK(w)
    /\ \A w, v \in Watchers : watcher[w].state = "open" /\ watcher[w].conn = watcher[v].conn => w = v
\* The limits of the streams, and the markers that are no run and no connection.
LEMMA StreamConstants ==
    /\ LastEvent \in Nat /\ LastEvent >= 1 /\ MaxQueue \in Nat /\ MaxQueue >= 1
    /\ LogLimit \in Nat /\ LogLimit >= 1
    /\ NoRun \notin StatusRuns /\ NoConn \notin Conns /\ WatchedRun \in [Watchers -> StatusRuns]
  BY StreamLimits

\* What a step of its pump makes of a connection.
Carries(c, n) ==
    /\ n \in ConnRecs /\ Len(n.queue) =< MaxQueue
    /\ n.pc \in Pumping => c.pc \in Pumping /\ n.run = c.run
    /\ n.run = c.run \/ n.run = NoRun
    /\ \A d \in Nat : n.run \in StatusRuns /\ Within(c, d) => Within(n, d)
    /\ \A seen, d \in Nat : \A r \in StatusRuns : Within(c, d) /\ Fed(c, seen, r, d) => Fed(n, seen, r, d)

\* The fields of a connection.
LEMMA ConnFields ==
  ASSUME NEW c \in ConnRecs
  PROVE  /\ c.pc \in Pumping \cup {"free", "ended", "destroyed"}
         /\ c.run \in StatusRuns \cup {NoRun}
         /\ c.cursor \in 0 .. LastEvent /\ c.mark \in 0 .. LastEvent /\ c.item \in 0 .. LastEvent
         /\ c.replay \in Frames /\ c.queue \in Frames /\ c.wire \in Frames
         /\ c.lost \in BOOLEAN /\ c.closed \in {"no", "gone", "overflow", "finished"}
  BY DEF ConnRecs

\* A connection that is not in use.
LEMMA FreeConnTyped == FreeConn \in ConnRecs /\ FreeConn.queue = <<>> /\ Len(FreeConn.queue) = 0
  <1>1. <<>> \in Frames
    BY DEF Frames
  <1>2. 0 \in 0 .. LastEvent
    BY StreamConstants
  <1> QED
    BY <1>1, <1>2 DEF FreeConn, ConnRecs, Pumping

\* A stream that ends leaves the browser what was sent.
LEMMA FinishCarries ==
  ASSUME NEW c \in ConnRecs, NEW k \in Conns, NEW how \in {"ended", "destroyed"},
         conn \in [Conns -> ConnRecs], subscribers \subseteq Conns, Finish(k, c, how)
  PROVE  \E n \in ConnRecs :
            /\ conn' = [conn EXCEPT ![k] = n] /\ subscribers' \subseteq Conns
            /\ n.pc \notin Pumping /\ n.run = NoRun /\ Len(n.queue) = 0
            /\ ~c.lost => n.pc = how /\ ~n.lost /\ n.wire = c.wire
  <1> DEFINE n == IF c.lost THEN FreeConn ELSE [Gone(how) EXCEPT !.wire = c.wire]
  <1>1. n \in ConnRecs
    <2>1. CASE c.lost
      BY <2>1, FreeConnTyped
    <2>2. CASE ~c.lost
      BY <2>2, FreeConnTyped, ConnFields DEF Gone, FreeConn, ConnRecs, Pumping
    <2> QED
      BY <2>1, <2>2
  <1>2. n.pc \notin Pumping /\ n.run = NoRun /\ Len(n.queue) = 0
    BY DEF Gone, FreeConn, Pumping
  <1>3. ~c.lost => n.pc = how /\ ~n.lost /\ n.wire = c.wire
    BY DEF Gone, FreeConn
  <1>4. conn' = [conn EXCEPT ![k] = n] /\ subscribers' \subseteq Conns
    BY DEF Finish
  <1> HIDE DEF n
  <1> QED
    BY <1>1, <1>2, <1>3, <1>4

\* A step of a pump keeps the invariant.
LEMMA PumpKeeps ==
  ASSUME StreamInv, NEW k \in Conns, NEW n, Carries(conn[k], n), conn' = [conn EXCEPT ![k] = n],
         subscribers' \subseteq Conns, UNCHANGED <<eventLog, executor, watcher>>, conn[k].pc \in Pumping
  PROVE  StreamInv'
  <1>1. StreamTypes'
    BY DEF StreamInv, StreamTypes, Carries
  <1>2. ExecutorOK'
    BY DEF StreamInv, ExecutorOK
  <1>3. \A r \in StatusRuns : executor[r].durable \in Nat
    BY StreamConstants DEF StreamInv, StreamTypes
  <1>4. ASSUME NEW j \in Conns PROVE PumpOK(j)'
    <2>1. CASE j # k
      BY <2>1 DEF StreamInv, StreamTypes, PumpOK
    <2>2. CASE j = k
      <3>1. conn'[j] = n
        BY <2>2 DEF StreamInv, StreamTypes
      <3> QED
        BY <1>3, <2>2, <3>1, StreamConstants DEF StreamInv, PumpOK, Carries
    <2> QED
      BY <2>1, <2>2
  <1>5. ASSUME NEW w \in Watchers PROVE WatchOK(w)'
    <2>1. CASE watcher[w].conn # k
      <3>1. watcher[w].conn \in Conns => conn'[watcher[w].conn] = conn[watcher[w].conn]
        BY <2>1 DEF StreamInv, StreamTypes
      <3>2. watcher[w].conn \in Conns \cup {NoConn}
        BY DEF StreamInv, StreamTypes
      <3> QED
        BY <3>1, <3>2, Zenon DEF StreamInv, WatchOK
    <2>2. CASE watcher[w].conn = k
      <3>1. conn'[k] = n /\ watcher[w].seen \in Nat /\ WatchedRun[w] \in StatusRuns
        BY StreamConstants DEF StreamInv, StreamTypes
      <3>2. watcher[w].state = "open"
            /\ Fed(conn[k], watcher[w].seen, WatchedRun[w], executor[WatchedRun[w]].durable)
        BY <2>2, StreamConstants DEF StreamInv, WatchOK
      <3>3. Within(conn[k], executor[WatchedRun[w]].durable)
        BY <3>1, <3>2 DEF StreamInv, PumpOK, Fed
      <3> QED
        BY <1>3, <2>2, <3>1, <3>2, <3>3, StreamConstants DEF WatchOK, Carries
    <2> QED
      BY <2>1, <2>2
  <1> QED
    BY <1>1, <1>2, <1>4, <1>5 DEF StreamInv

\* A frame that is accepted, after it was put on the wire.
LEMMA AcceptedCarries ==
  ASSUME NEW c \in ConnRecs, NEW k \in Conns, conn \in [Conns -> ConnRecs], subscribers \subseteq Conns,
         c.pc \in Pumping, Len(c.queue) =< MaxQueue, Accepted(k, c),
         NEW c0 \in ConnRecs, c0.pc \in Pumping, c0.run = c.run, c.lost = c0.lost,
         \A d \in Nat : Within(c0, d) => Within(c, d),
         \A seen, d \in Nat : \A r \in StatusRuns : Within(c0, d) /\ Fed(c0, seen, r, d) =>
             /\ ~c.lost /\ \A i \in 1 .. Len(c.wire) : c.wire[i] = seen + i
             /\ c.run = r /\ seen + Len(c.wire) = (IF c.item = 0 THEN c.cursor ELSE c.item)
             /\ seen + Len(c.wire) =< d
  PROVE  \E n : Carries(c0, n) /\ conn' = [conn EXCEPT ![k] = n] /\ subscribers' \subseteq Conns
  <1>1. CASE c.item = LastEvent
    <2>1. PICK n \in ConnRecs :
            /\ conn' = [conn EXCEPT ![k] = n] /\ subscribers' \subseteq Conns
            /\ n.pc \notin Pumping /\ n.run = NoRun /\ Len(n.queue) = 0
            /\ ~c.lost => n.pc = "ended" /\ ~n.lost /\ n.wire = c.wire
      BY <1>1, FinishCarries DEF Accepted
    <2>2. \A seen, d \in Nat : \A r \in StatusRuns : Within(c0, d) /\ Fed(c0, seen, r, d) => Fed(n, seen, r, d)
      BY <2>1 DEF Fed, Pumping
    <2>3. Carries(c0, n)
      BY <2>1, <2>2, StreamConstants DEF Carries
    <2> QED
      BY <2>1, <2>3
  <1>2. CASE c.item # LastEvent
    <2> DEFINE n == [c EXCEPT !.pc = "loop", !.item = 0, !.cursor = IF c.item = 0 THEN @ ELSE c.item]
    <2>1. conn' = [conn EXCEPT ![k] = n] /\ subscribers' \subseteq Conns
      BY <1>2 DEF Accepted
    <2>2. n \in ConnRecs
      <3>1. 0 \in 0 .. LastEvent /\ (IF c.item = 0 THEN c.cursor ELSE c.item) \in 0 .. LastEvent
            /\ "loop" \in Pumping
        BY StreamConstants, ConnFields DEF Pumping
      <3> QED
        BY <3>1 DEF ConnRecs
    <2>3. /\ n.pc = "loop" /\ n.item = 0 /\ n.cursor = IF c.item = 0 THEN c.cursor ELSE c.item
          /\ n.run = c.run /\ n.replay = c.replay /\ n.queue = c.queue /\ n.wire = c.wire /\ n.lost = c.lost
      BY DEF ConnRecs
    <2> HIDE DEF n
    <2>4. \A d \in Nat : Within(c0, d) => Within(n, d)
      BY <2>3 DEF Within
    <2>5. \A seen, d \in Nat : \A r \in StatusRuns : Within(c0, d) /\ Fed(c0, seen, r, d) => Fed(n, seen, r, d)
      BY <2>3 DEF Fed, Written, Pumping
    <2> QED
      BY <2>1, <2>2, <2>3, <2>4, <2>5 DEF Carries
  <1> QED
    BY <1>1, <1>2

\* A frame that does not follow the cursor ends the stream.
LEMMA EndCarries ==
  ASSUME NEW c \in ConnRecs, NEW k \in Conns, NEW how \in {"ended", "destroyed"},
         conn \in [Conns -> ConnRecs], subscribers \subseteq Conns, Finish(k, c, how),
         NEW c0 \in ConnRecs, c0.wire = c.wire, c0.lost = c.lost
  PROVE  \E n : Carries(c0, n) /\ conn' = [conn EXCEPT ![k] = n] /\ subscribers' \subseteq Conns
  <1>1. PICK n \in ConnRecs :
          /\ conn' = [conn EXCEPT ![k] = n] /\ subscribers' \subseteq Conns
          /\ n.pc \notin Pumping /\ n.run = NoRun /\ Len(n.queue) = 0
          /\ ~c.lost => n.pc = how /\ ~n.lost /\ n.wire = c.wire
    BY FinishCarries
  <1>2. \A seen, d \in Nat : \A r \in StatusRuns : Within(c0, d) /\ Fed(c0, seen, r, d) => Fed(n, seen, r, d)
    BY <1>1 DEF Fed
  <1>3. Carries(c0, n)
    BY <1>1, <1>2, StreamConstants DEF Carries
  <1> QED
    BY <1>1, <1>3

\* The wire of a connection, after one more frame.
LEMMA WireGrows ==
  ASSUME NEW wire \in Frames, NEW m \in Numbered
  PROVE  /\ Append(wire, m) \in Frames /\ Len(Append(wire, m)) = Len(wire) + 1 /\ Len(wire) \in Nat
         /\ \A i \in 1 .. Len(wire) : Append(wire, m)[i] = wire[i]
         /\ Append(wire, m)[Len(wire) + 1] = m
  BY DEF Frames

\* writeSseFrame sends what follows the cursor, or ends the stream.
LEMMA WriteFrameCarries ==
  ASSUME NEW c \in ConnRecs, NEW k \in Conns, conn \in [Conns -> ConnRecs], subscribers \subseteq Conns,
         NEW c0 \in ConnRecs, c0.pc \in {"loop", "take"}, c.pc = c0.pc, c.run = c0.run, c.lost = c0.lost,
         c.wire = c0.wire, c.cursor = c0.cursor, Len(c.queue) =< MaxQueue,
         \A d \in Nat : Within(c0, d) => Within(c, d), WriteFrame(k, c)
  PROVE  \E n : Carries(c0, n) /\ conn' = [conn EXCEPT ![k] = n] /\ subscribers' \subseteq Conns
  <1>1. CASE c.closed = "gone" \/ c.item # c.cursor + 1
    BY <1>1, EndCarries DEF WriteFrame
  <1>2. CASE ~(c.closed = "gone" \/ c.item # c.cursor + 1)
    <2> DEFINE sent == IF c.lost THEN c ELSE [c EXCEPT !.wire = Append(@, c.item)]
    <2>0. c.item \in Numbered /\ c.cursor \in Nat
      BY <1>2, ConnFields, StreamConstants DEF Numbered
    <2>1. sent \in ConnRecs
      BY <2>0, WireGrows, ConnFields DEF ConnRecs
    <2>2. /\ sent.pc = c.pc /\ sent.run = c.run /\ sent.lost = c.lost /\ sent.queue = c.queue
          /\ sent.replay = c.replay /\ sent.item = c.item /\ sent.cursor = c.cursor
          /\ ~c.lost => sent.wire = Append(c.wire, c.item)
      BY DEF ConnRecs
    <2>3. \/ Accepted(k, sent)
          \/ conn' = [conn EXCEPT ![k] = [sent EXCEPT !.pc = "blocked"]] /\ UNCHANGED subscribers
      BY <1>2 DEF WriteFrame
    <2> HIDE DEF sent
    <2>4. \A d \in Nat : Within(c0, d) => Within(sent, d)
      BY <2>2 DEF Within
    <2>5. ASSUME NEW seen \in Nat, NEW d \in Nat, NEW r \in StatusRuns, Within(c0, d), Fed(c0, seen, r, d)
          PROVE  /\ ~sent.lost /\ \A i \in 1 .. Len(sent.wire) : sent.wire[i] = seen + i
                 /\ sent.run = r /\ seen + Len(sent.wire) = sent.item
                 /\ seen + Len(sent.wire) =< d
      <3>1. ~c.lost /\ c.run = r /\ seen + Len(c.wire) = c.cursor
            /\ \A i \in 1 .. Len(c.wire) : c.wire[i] = seen + i
        BY <2>5 DEF Fed, Written, Pumping
      <3>2. c.item =< d
        BY <2>5 DEF Within
      <3>3. Len(sent.wire) = Len(c.wire) + 1 /\ Len(c.wire) \in Nat
        BY <2>0, <2>2, <3>1, WireGrows, ConnFields
      <3>4. ASSUME NEW i \in 1 .. Len(sent.wire) PROVE sent.wire[i] = seen + i
        <4>1. CASE i \in 1 .. Len(c.wire)
          <5>1. c.wire \in Frames /\ sent.wire = Append(c.wire, c.item)
            BY <2>2, <3>1, ConnFields
          <5>2. sent.wire[i] = c.wire[i]
            BY <2>0, <4>1, <5>1, WireGrows
          <5> QED
            BY <3>1, <4>1, <5>2
        <4>2. CASE i = Len(c.wire) + 1
          <5>1. sent.wire[i] = c.item
            BY <2>0, <2>2, <3>1, <4>2, WireGrows, ConnFields
          <5> QED
            BY <1>2, <3>1, <3>3, <4>2, <5>1
        <4> QED
          BY <3>3, <4>1, <4>2
      <3> QED
        BY <1>2, <2>0, <2>2, <3>1, <3>2, <3>3, <3>4
    <2>6. CASE Accepted(k, sent)
      <3>1. sent.pc \in Pumping /\ c0.pc \in Pumping /\ Len(sent.queue) =< MaxQueue /\ sent.item # 0
        BY <2>0, <2>2 DEF Pumping, Numbered
      <3>2. \A seen, d \in Nat : \A r \in StatusRuns : Within(c0, d) /\ Fed(c0, seen, r, d) =>
             /\ ~sent.lost /\ \A i \in 1 .. Len(sent.wire) : sent.wire[i] = seen + i
             /\ sent.run = r /\ seen + Len(sent.wire) = (IF sent.item = 0 THEN sent.cursor ELSE sent.item)
             /\ seen + Len(sent.wire) =< d
        BY <2>5, <3>1
      <3> QED
        BY <2>1, <2>2, <2>4, <2>6, <3>1, <3>2, AcceptedCarries
    <2>7. CASE conn' = [conn EXCEPT ![k] = [sent EXCEPT !.pc = "blocked"]] /\ UNCHANGED subscribers
      <3> DEFINE n == [sent EXCEPT !.pc = "blocked"]
      <3>1. n \in ConnRecs
        BY <2>1 DEF ConnRecs, Pumping
      <3>2. /\ n.pc = "blocked" /\ n.run = c.run /\ n.lost = c.lost /\ n.queue = c.queue
            /\ n.replay = c.replay /\ n.item = c.item /\ n.wire = sent.wire
        BY <2>1, <2>2 DEF ConnRecs
      <3> HIDE DEF n
      <3>3. \A d \in Nat : Within(c0, d) => Within(n, d)
        BY <2>2, <2>4, <3>2 DEF Within
      <3>4. ASSUME NEW seen \in Nat, NEW d \in Nat, NEW r \in StatusRuns, Within(c0, d), Fed(c0, seen, r, d)
            PROVE  Fed(n, seen, r, d)
        BY <2>0, <2>2, <2>5, <3>2, <3>4 DEF Fed, Written, Numbered
      <3>5. Carries(c0, n)
        BY <3>1, <3>2, <3>3, <3>4 DEF Carries, Pumping
      <3> QED
        BY <2>7, <3>5 DEF n
    <2> QED
      BY <2>3, <2>6, <2>7
  <1> QED
    BY <1>1, <1>2

\* The head of what is queued, and what is left.
LEMMA HeadAndTail ==
  ASSUME NEW s \in Frames, s # <<>>
  PROVE  /\ Head(s) \in Numbered /\ Tail(s) \in Frames /\ Len(s) >= 1 /\ Len(Tail(s)) = Len(s) - 1
         /\ Head(s) = s[1] /\ \A i \in 1 .. Len(Tail(s)) : i + 1 \in 1 .. Len(s) /\ Tail(s)[i] = s[i + 1]
  BY DEF Frames

\* The pump sends the replay, then the queue, or waits.
LEMMA PumpNextKeeps ==
  ASSUME StreamInv, NEW k \in Conns, PumpNext(k)
  PROVE  StreamInv'
  <1> DEFINE c == conn[k]
             Step == \E n : Carries(c, n) /\ conn' = [conn EXCEPT ![k] = n] /\ subscribers' \subseteq Conns
  <1>1. /\ c \in ConnRecs /\ Len(c.queue) =< MaxQueue /\ c.pc = "loop"
        /\ conn \in [Conns -> ConnRecs] /\ subscribers \subseteq Conns
    BY DEF PumpNext, StreamInv, StreamTypes
  <1>2. UNCHANGED <<eventLog, executor, watcher>>
    BY DEF PumpNext
  <1>3. CASE c.replay # <<>> /\ WriteFrame(k, [c EXCEPT !.item = Head(c.replay), !.replay = Tail(c.replay)])
    <2> DEFINE b == [c EXCEPT !.item = Head(c.replay), !.replay = Tail(c.replay)]
    <2>1. Head(c.replay) \in 0 .. LastEvent /\ Tail(c.replay) \in Frames
      BY <1>1, <1>3, HeadAndTail, ConnFields, StreamConstants DEF Numbered
    <2>2. b \in ConnRecs
      BY <1>1, <2>1 DEF ConnRecs
    <2>3. /\ b.pc = c.pc /\ b.run = c.run /\ b.lost = c.lost /\ b.wire = c.wire /\ b.cursor = c.cursor
          /\ b.queue = c.queue /\ b.item = Head(c.replay) /\ b.replay = Tail(c.replay)
      BY <1>1 DEF ConnRecs
    <2> HIDE DEF b
    <2>4. ASSUME NEW d \in Nat, Within(c, d) PROVE Within(b, d)
      <3>1. c.replay \in Frames /\ c.replay # <<>>
        BY <1>1, <1>3, ConnFields
      <3> QED
        BY <2>3, <2>4, <3>1, HeadAndTail DEF Within
    <2>5. WriteFrame(k, b)
      BY <1>3 DEF b
    <2> QED
      BY <1>1, <1>2, <2>2, <2>3, <2>4, <2>5, WriteFrameCarries, PumpKeeps DEF Pumping
  <1>4. CASE c.queue # <<>> /\ WriteFrame(k, [c EXCEPT !.item = Head(c.queue), !.queue = Tail(c.queue)])
    <2> DEFINE b == [c EXCEPT !.item = Head(c.queue), !.queue = Tail(c.queue)]
    <2>1. Head(c.queue) \in 0 .. LastEvent /\ Tail(c.queue) \in Frames
      BY <1>1, <1>4, HeadAndTail, ConnFields, StreamConstants DEF Numbered
    <2>2. b \in ConnRecs
      BY <1>1, <2>1 DEF ConnRecs
    <2>3. /\ b.pc = c.pc /\ b.run = c.run /\ b.lost = c.lost /\ b.wire = c.wire /\ b.cursor = c.cursor
          /\ b.queue = Tail(c.queue) /\ b.item = Head(c.queue) /\ b.replay = c.replay
      BY <1>1 DEF ConnRecs
    <2> HIDE DEF b
    <2>4. c.queue \in Frames /\ c.queue # <<>>
      BY <1>1, <1>4, ConnFields
    <2>5. ASSUME NEW d \in Nat, Within(c, d) PROVE Within(b, d)
      BY <2>3, <2>4, <2>5, HeadAndTail DEF Within
    <2>6. Len(b.queue) =< MaxQueue
      BY <1>1, <2>3, <2>4, HeadAndTail, StreamConstants
    <2>7. WriteFrame(k, b)
      BY <1>4 DEF b
    <2> QED
      BY <1>1, <1>2, <2>2, <2>3, <2>5, <2>6, <2>7, WriteFrameCarries, PumpKeeps DEF Pumping
  <1>5. CASE Finish(k, c, "destroyed")
    BY <1>1, <1>2, <1>5, EndCarries, PumpKeeps DEF Pumping
  <1>6. CASE conn' = [conn EXCEPT ![k].pc = "wait"] /\ UNCHANGED subscribers
    <2> DEFINE n == [c EXCEPT !.pc = "wait"]
    <2>1. n \in ConnRecs
      BY <1>1 DEF ConnRecs, Pumping
    <2>2. /\ n.pc = "wait" /\ n.run = c.run /\ n.lost = c.lost /\ n.queue = c.queue /\ n.cursor = c.cursor
          /\ n.replay = c.replay /\ n.item = c.item /\ n.wire = c.wire
      BY <1>1 DEF ConnRecs
    <2>3. conn' = [conn EXCEPT ![k] = n]
      BY <1>6
    <2> HIDE DEF n
    <2>4. Carries(c, n)
      BY <1>1, <2>1, <2>2 DEF Carries, Within, Fed, Written, Pumping
    <2> QED
      BY <1>1, <1>2, <1>6, <2>3, <2>4, PumpKeeps DEF Pumping
  <1> QED
    BY <1>3, <1>4, <1>5, <1>6 DEF PumpNext

\* A pump that waited sends the event push gave it.
LEMMA PumpWakesKeeps ==
  ASSUME StreamInv, NEW k \in Conns, PumpWakes(k)
  PROVE  StreamInv'
  <1>1. /\ conn[k] \in ConnRecs /\ Len(conn[k].queue) =< MaxQueue /\ conn[k].pc = "take"
        /\ conn \in [Conns -> ConnRecs] /\ subscribers \subseteq Conns
        /\ WriteFrame(k, conn[k]) /\ UNCHANGED <<eventLog, executor, watcher>>
    BY DEF PumpWakes, StreamInv, StreamTypes
  <1>2. PICK n : Carries(conn[k], n) /\ conn' = [conn EXCEPT ![k] = n] /\ subscribers' \subseteq Conns
    BY <1>1, WriteFrameCarries
  <1> QED
    BY <1>1, <1>2, PumpKeeps DEF Pumping

\* response.write has drained, and the frame counts as sent.
LEMMA DrainKeeps ==
  ASSUME StreamInv, NEW k \in Conns, Drain(k)
  PROVE  StreamInv'
  <1>1. /\ conn[k] \in ConnRecs /\ Len(conn[k].queue) =< MaxQueue /\ conn[k].pc = "blocked"
        /\ conn \in [Conns -> ConnRecs] /\ subscribers \subseteq Conns
        /\ Accepted(k, conn[k]) /\ UNCHANGED <<eventLog, executor, watcher>>
    BY DEF Drain, StreamInv, StreamTypes
  <1>2. ASSUME NEW seen \in Nat, NEW d \in Nat, NEW r \in StatusRuns, Fed(conn[k], seen, r, d)
        PROVE  /\ ~conn[k].lost /\ \A i \in 1 .. Len(conn[k].wire) : conn[k].wire[i] = seen + i
               /\ conn[k].run = r
               /\ seen + Len(conn[k].wire) = (IF conn[k].item = 0 THEN conn[k].cursor ELSE conn[k].item)
               /\ seen + Len(conn[k].wire) =< d
    BY <1>1, <1>2 DEF Fed, Written, Pumping
  <1>3. PICK n : Carries(conn[k], n) /\ conn' = [conn EXCEPT ![k] = n] /\ subscribers' \subseteq Conns
    BY <1>1, <1>2, AcceptedCarries DEF Pumping
  <1> QED
    BY <1>1, <1>3, PumpKeeps DEF Pumping

\* A keep-alive frame that is blocked moves no cursor.
LEMMA HeartbeatKeeps ==
  ASSUME StreamInv, NEW k \in Conns, Heartbeat(k)
  PROVE  StreamInv'
  <1> DEFINE c == conn[k]
             n == [c EXCEPT !.pc = "blocked", !.item = 0]
  <1>1. /\ c \in ConnRecs /\ Len(c.queue) =< MaxQueue /\ c.pc = "wait" /\ subscribers' \subseteq Conns
        /\ conn' = [conn EXCEPT ![k] = n] /\ UNCHANGED <<eventLog, executor, watcher>>
    BY DEF Heartbeat, StreamInv, StreamTypes
  <1>2. n \in ConnRecs
    <2>1. 0 \in 0 .. LastEvent
      BY StreamConstants
    <2> QED
      BY <1>1, <2>1 DEF ConnRecs, Pumping
  <1>3. /\ n.pc = "blocked" /\ n.run = c.run /\ n.lost = c.lost /\ n.queue = c.queue /\ n.cursor = c.cursor
        /\ n.replay = c.replay /\ n.item = 0 /\ n.wire = c.wire
    BY <1>1 DEF ConnRecs
  <1> HIDE DEF n
  <1>4. Carries(c, n)
    BY <1>1, <1>2, <1>3, ConnFields DEF Carries, Within, Fed, Written, Pumping
  <1> QED
    BY <1>1, <1>4, PumpKeeps DEF Pumping

\* A stream that meets its deadline ends with what was sent.
LEMMA PumpExpiresKeeps ==
  ASSUME StreamInv, NEW k \in Conns, PumpExpires(k)
  PROVE  StreamInv'
  <1>1. /\ conn[k] \in ConnRecs /\ conn \in [Conns -> ConnRecs] /\ subscribers \subseteq Conns
        /\ conn[k].pc \in Pumping /\ UNCHANGED <<eventLog, executor, watcher>>
        /\ \E how \in {"ended", "destroyed"} : Finish(k, conn[k], how)
    BY DEF PumpExpires, StreamInv, StreamTypes, Pumping
  <1>2. PICK n : Carries(conn[k], n) /\ conn' = [conn EXCEPT ![k] = n] /\ subscribers' \subseteq Conns
    BY <1>1, EndCarries
  <1> QED
    BY <1>1, <1>2, PumpKeeps

\* The close of a lost connection drops only what nobody reads.
LEMMA NoticeKeeps ==
  ASSUME StreamInv, NEW k \in Conns, Notice(k)
  PROVE  StreamInv'
  <1> DEFINE c == conn[k]
  <1>1. /\ c \in ConnRecs /\ conn \in [Conns -> ConnRecs] /\ subscribers \subseteq Conns /\ c.lost
        /\ c.pc \in Pumping /\ UNCHANGED <<eventLog, executor, watcher>>
    BY DEF Notice, StreamInv, StreamTypes, Pumping
  <1>2. CASE Finish(k, c, "destroyed")
    BY <1>1, <1>2, EndCarries, PumpKeeps
  <1>3. CASE ~Finish(k, c, "destroyed")
    <2> DEFINE n == [c EXCEPT !.closed = "gone", !.queue = <<>>, !.mark = 0,
                              !.pc = IF c.pc = "wait" THEN "loop" ELSE c.pc]
    <2>1. conn' = [conn EXCEPT ![k] = n] /\ subscribers' \subseteq Conns
      BY <1>1, <1>3 DEF Notice
    <2>2. /\ <<>> \in Frames /\ 0 \in 0 .. LastEvent
          /\ (IF c.pc = "wait" THEN "loop" ELSE c.pc) \in Pumping
      BY <1>1, StreamConstants DEF Frames, Pumping
    <2>3. n \in ConnRecs
      BY <1>1, <2>2 DEF ConnRecs
    <2>4. n.run = c.run /\ n.lost /\ n.queue = <<>> /\ n.replay = c.replay /\ n.item = c.item
      BY <1>1 DEF ConnRecs
    <2> HIDE DEF n
    <2>5. Carries(c, n)
      BY <1>1, <2>3, <2>4, StreamConstants DEF Carries, Within, Fed
    <2> QED
      BY <1>1, <2>1, <2>5, PumpKeeps
  <1> QED
    BY <1>2, <1>3


\* The frames of a connection are numbers.
LEMMA FramesAreNumbered ==
  ASSUME NEW s \in Frames
  PROVE  Len(s) \in Nat /\ \A i \in 1 .. Len(s) : s[i] \in Nat
  <1>1. Len(s) \in Nat /\ \A i \in 1 .. Len(s) : s[i] \in Numbered
    BY DEF Frames
  <1> QED
    BY <1>1 DEF Numbered

\* What was on disk stays there.
LEMMA MoreOnDisk ==
  ASSUME NEW c \in ConnRecs, NEW d \in Nat, NEW e \in Nat, d =< e
  PROVE  /\ Within(c, d) => Within(c, e)
         /\ \A seen \in Nat : \A r \in StatusRuns : Fed(c, seen, r, d) => Fed(c, seen, r, e)
  <1>1. /\ c.replay \in Frames /\ c.queue \in Frames /\ c.item \in Nat /\ c.wire \in Frames
    BY ConnFields
  <1>2. Within(c, d) => Within(c, e)
    BY <1>1, FramesAreNumbered DEF Within
  <1>3. ASSUME NEW seen \in Nat, NEW r \in StatusRuns, Fed(c, seen, r, d) PROVE Fed(c, seen, r, e)
    <2>1. Len(c.wire) \in Nat
      BY <1>1, FramesAreNumbered
    <2> QED
      BY <1>3, <2>1 DEF Fed
  <1> QED
    BY <1>2, <1>3

\* What a subscription gets is on disk, and the browser is told nothing yet.
LEMMA PushFeeds ==
  ASSUME NEW c \in ConnRecs, Len(c.queue) =< MaxQueue, NEW seq \in Numbered,
         NEW d \in Nat, NEW e \in Nat, d =< e
  PROVE  /\ Push(c, seq) \in ConnRecs /\ Len(Push(c, seq).queue) =< MaxQueue
         /\ Push(c, seq).run = c.run /\ (Push(c, seq).pc \in Pumping <=> c.pc \in Pumping)
         /\ seq =< e /\ Within(c, d) => Within(Push(c, seq), e)
         /\ \A seen \in Nat : \A r \in StatusRuns : Fed(c, seen, r, d) => Fed(Push(c, seq), seen, r, e)
  <1> DEFINE n == Push(c, seq)
  <1>0. seq \in 0 .. LastEvent /\ <<>> \in Frames /\ 0 \in 0 .. LastEvent
    BY StreamConstants DEF Numbered, Frames
  <1>1. CASE n = c
    BY <1>1, MoreOnDisk
  <1>2. CASE c.pc = "wait" /\ n = [c EXCEPT !.mark = seq, !.pc = "take", !.item = seq]
    <2>1. n \in ConnRecs
      BY <1>0, <1>2 DEF ConnRecs, Pumping
    <2>2. /\ n.pc = "take" /\ n.run = c.run /\ n.lost = c.lost /\ n.queue = c.queue /\ n.cursor = c.cursor
          /\ n.replay = c.replay /\ n.item = seq /\ n.wire = c.wire
      BY <1>2 DEF ConnRecs
    <2> HIDE DEF n
    <2>3. seq =< e /\ Within(c, d) => Within(n, e)
      BY <2>2, MoreOnDisk DEF Within
    <2>4. \A seen \in Nat : \A r \in StatusRuns : Fed(c, seen, r, d) => Fed(n, seen, r, e)
      BY <1>2, <2>2, MoreOnDisk DEF Fed, Written, Pumping
    <2> QED
      BY <1>2, <2>1, <2>2, <2>3, <2>4 DEF n, Pumping
  <1>3. CASE n = [c EXCEPT !.mark = 0, !.closed = "overflow", !.queue = <<>>]
    <2>1. n \in ConnRecs
      BY <1>0, <1>3 DEF ConnRecs
    <2>2. /\ n.pc = c.pc /\ n.run = c.run /\ n.lost = c.lost /\ n.queue = <<>> /\ n.cursor = c.cursor
          /\ n.replay = c.replay /\ n.item = c.item /\ n.wire = c.wire
      BY <1>3 DEF ConnRecs
    <2> HIDE DEF n
    <2>3. seq =< e /\ Within(c, d) => Within(n, e)
      BY <2>2, MoreOnDisk DEF Within
    <2>4. \A seen \in Nat : \A r \in StatusRuns : Fed(c, seen, r, d) => Fed(n, seen, r, e)
      BY <2>2, MoreOnDisk DEF Fed, Written
    <2> QED
      BY <2>1, <2>2, <2>3, <2>4, StreamConstants DEF n
  <1>4. CASE ~(Len(c.queue) >= MaxQueue) /\ n = [c EXCEPT !.mark = seq, !.queue = Append(c.queue, seq)]
    <2>0. /\ Append(c.queue, seq) \in Frames /\ Len(Append(c.queue, seq)) = Len(c.queue) + 1 /\ Len(c.queue) \in Nat
          /\ \A i \in 1 .. Len(c.queue) : Append(c.queue, seq)[i] = c.queue[i]
          /\ Append(c.queue, seq)[Len(c.queue) + 1] = seq
      BY WireGrows, ConnFields
    <2>1. n \in ConnRecs
      BY <1>0, <1>4, <2>0 DEF ConnRecs
    <2>2. /\ n.pc = c.pc /\ n.run = c.run /\ n.lost = c.lost /\ n.queue = Append(c.queue, seq)
          /\ n.cursor = c.cursor /\ n.replay = c.replay /\ n.item = c.item /\ n.wire = c.wire
      BY <1>4 DEF ConnRecs
    <2> HIDE DEF n
    <2>3. ASSUME seq =< e, Within(c, d) PROVE Within(n, e)
      <3>1. \A i \in 1 .. Len(n.replay) : n.replay[i] =< e
        BY <2>2, <2>3, MoreOnDisk DEF Within
      <3>2. ASSUME NEW i \in 1 .. Len(n.queue) PROVE n.queue[i] =< e
        <4>1. CASE i \in 1 .. Len(c.queue)
          <5>1. n.queue[i] = c.queue[i] /\ c.queue[i] =< d /\ c.queue[i] \in Nat
            BY <2>0, <2>2, <2>3, <4>1, FramesAreNumbered, ConnFields DEF Within
          <5> QED
            BY <5>1
        <4>2. CASE i = Len(c.queue) + 1
          BY <2>0, <2>2, <2>3, <4>2
        <4> QED
          BY <2>0, <2>2, <4>1, <4>2
      <3> QED
        BY <2>2, <2>3, <3>1, <3>2, MoreOnDisk DEF Within
    <2>4. \A seen \in Nat : \A r \in StatusRuns : Fed(c, seen, r, d) => Fed(n, seen, r, e)
      BY <2>2, MoreOnDisk DEF Fed, Written
    <2> QED
      BY <1>4, <2>0, <2>1, <2>2, <2>3, <2>4, StreamConstants DEF n
  <1>5. \/ n = c
        \/ c.pc = "wait" /\ n = [c EXCEPT !.mark = seq, !.pc = "take", !.item = seq]
        \/ n = [c EXCEPT !.mark = 0, !.closed = "overflow", !.queue = <<>>]
        \/ ~(Len(c.queue) >= MaxQueue) /\ n = [c EXCEPT !.mark = seq, !.queue = Append(c.queue, seq)]
    BY <1>0, ConnFields DEF Push, Numbered
  <1> QED
    BY <1>1, <1>2, <1>3, <1>4, <1>5

\* A record of the log.
LEMMA LogOnDisk ==
  ASSUME StreamInv, NEW j \in 1 .. Len(eventLog)
  PROVE  eventLog[j].run \in StatusRuns /\ eventLog[j].seq \in Nat
         /\ eventLog[j].seq =< executor[eventLog[j].run].durable
  <1>1. eventLog[j] \in LogRecs
    BY DEF StreamInv, StreamTypes
  <1> QED
    BY <1>1 DEF StreamInv, ExecutorOK, Numbered, LogRecs

\* The retained log holds the new record and some of the old ones.
LEMMA LogGrows ==
  ASSUME StreamInv, NEW e \in LogRecs, eventLog' = Retained(eventLog, e)
  PROVE  /\ eventLog' \in Seq(LogRecs) /\ Len(eventLog') =< LogLimit
         /\ \A i \in 1 .. Len(eventLog') :
              eventLog'[i] = e \/ \E j \in 1 .. Len(eventLog) : eventLog'[i] = eventLog[j]
  <1> DEFINE s == IF Len(eventLog) < LogLimit THEN eventLog ELSE SubSeq(eventLog, Len(eventLog) - LogLimit + 2, Len(eventLog))
  <1>0. eventLog \in Seq(LogRecs) /\ Len(eventLog) =< LogLimit
    BY DEF StreamInv, StreamTypes
  <1>1. /\ s \in Seq(LogRecs) /\ Len(s) \in Nat /\ Len(s) < LogLimit
        /\ \A i \in 1 .. Len(s) : \E j \in 1 .. Len(eventLog) : s[i] = eventLog[j]
    <2>1. CASE Len(eventLog) < LogLimit
      BY <1>0, <2>1, StreamConstants
    <2>2. CASE ~(Len(eventLog) < LogLimit)
      <3>1. Len(eventLog) = LogLimit /\ s = SubSeq(eventLog, 2, LogLimit)
        BY <1>0, <2>2, StreamConstants
      <3>2. \A i \in 2 .. LogLimit : eventLog[i] \in LogRecs
        BY <1>0, <3>1, StreamConstants
      <3>3. /\ s \in Seq(LogRecs) /\ Len(s) = LogLimit - 1
            /\ \A i \in 1 .. LogLimit - 1 : s[i] = eventLog[i + 1]
        BY <1>0, <3>1, <3>2, StreamConstants
      <3>4. ASSUME NEW i \in 1 .. Len(s) PROVE \E j \in 1 .. Len(eventLog) : s[i] = eventLog[j]
        <4>1. i + 1 \in 1 .. Len(eventLog) /\ s[i] = eventLog[i + 1]
          BY <3>1, <3>3, <3>4, StreamConstants
        <4> QED
          BY <4>1
      <3> HIDE DEF s
      <3> QED
        BY <3>3, <3>4, StreamConstants
    <2> QED
      BY <2>1, <2>2
  <1>2. eventLog' = Append(s, e)
    BY DEF Retained
  <1> HIDE DEF s
  <1>3. /\ Append(s, e) \in Seq(LogRecs) /\ Len(Append(s, e)) = Len(s) + 1
        /\ \A i \in 1 .. Len(s) : Append(s, e)[i] = s[i]
        /\ Append(s, e)[Len(s) + 1] = e
    BY <1>1
  <1>4. ASSUME NEW i \in 1 .. Len(Append(s, e))
        PROVE  Append(s, e)[i] = e \/ \E j \in 1 .. Len(eventLog) : Append(s, e)[i] = eventLog[j]
    <2>1. CASE i \in 1 .. Len(s)
      BY <1>1, <1>3, <2>1
    <2>2. CASE i = Len(s) + 1
      BY <1>3, <2>2
    <2> QED
      BY <1>1, <1>3, <2>1, <2>2
  <1> QED
    BY <1>1, <1>2, <1>3, <1>4, StreamConstants

\* An event that is on disk goes to the subscriptions of its run.
LEMMA EmitKeeps ==
  ASSUME StreamInv, NEW r \in StatusRuns, Emit(r)
  PROVE  StreamInv'
  <1> DEFINE seq == executor[r].seq + 1
             e == [run |-> r, seq |-> seq]
  <1>1. /\ executor[r].state = "running" /\ executor[r].durable = executor[r].seq
        /\ seq \in Numbered /\ executor[r].seq \in Nat /\ e \in LogRecs
    BY StreamConstants DEF Emit, StreamInv, StreamTypes, ExecutorOK, Numbered, LogRecs
  <1>2. /\ eventLog' = Retained(eventLog, e) /\ UNCHANGED watcher
        /\ subscribers' = {k \in subscribers : conn'[k].closed = "no"}
        /\ conn' = [k \in Conns |-> IF k \in Subscribed(r) THEN Push(conn[k], seq) ELSE conn[k]]
        /\ executor' = [executor EXCEPT ![r] = [state |-> IF seq = LastEvent THEN "completed" ELSE "running",
                                                seq |-> seq, durable |-> seq]]
    BY DEF Emit, Publish
  <1>3. /\ eventLog' \in Seq(LogRecs) /\ Len(eventLog') =< LogLimit
        /\ \A i \in 1 .. Len(eventLog') : eventLog'[i] = e \/ \E j \in 1 .. Len(eventLog) : eventLog'[i] = eventLog[j]
    BY <1>1, <1>2, LogGrows
  <1>4. /\ executor' \in [StatusRuns -> [state : {"running", "completed", "aborted"},
                                         seq : 0 .. LastEvent, durable : 0 .. LastEvent]]
        /\ executor'[r].durable = seq /\ executor'[r].seq = seq
        /\ executor'[r].state = "running" => seq # LastEvent
        /\ \A q \in StatusRuns \ {r} : executor'[q] = executor[q]
        /\ \A q \in StatusRuns : executor[q].durable =< executor'[q].durable /\ executor'[q].durable \in Nat
                                 /\ executor[q].durable \in Nat
    BY <1>1, <1>2, StreamConstants DEF StreamInv, StreamTypes, Numbered
  <1> HIDE DEF seq, e
  <1>5. ASSUME NEW k \in Conns
        PROVE  /\ conn'[k] \in ConnRecs /\ Len(conn'[k].queue) =< MaxQueue /\ conn'[k].run = conn[k].run
               /\ conn'[k].pc \in Pumping <=> conn[k].pc \in Pumping
               /\ conn[k].run \in StatusRuns /\ Within(conn[k], executor[conn[k].run].durable)
                  => Within(conn'[k], executor'[conn[k].run].durable)
               /\ \A seen \in Nat : \A q \in StatusRuns :
                    Fed(conn[k], seen, q, executor[q].durable) => Fed(conn'[k], seen, q, executor'[q].durable)
    <2>1. conn[k] \in ConnRecs /\ Len(conn[k].queue) =< MaxQueue
      BY DEF StreamInv, StreamTypes
    <2>2. CASE k \in Subscribed(r)
      <3>1. conn'[k] = Push(conn[k], seq) /\ conn[k].run = r
        BY <1>2, <2>2 DEF Subscribed
      <3>2. /\ Push(conn[k], seq) \in ConnRecs /\ Len(Push(conn[k], seq).queue) =< MaxQueue
            /\ Push(conn[k], seq).run = conn[k].run /\ (Push(conn[k], seq).pc \in Pumping <=> conn[k].pc \in Pumping)
            /\ Within(conn[k], executor[r].durable) => Within(Push(conn[k], seq), executor'[r].durable)
            /\ \A seen \in Nat : Fed(conn[k], seen, r, executor[r].durable)
                                 => Fed(Push(conn[k], seq), seen, r, executor'[r].durable)
        BY <1>1, <1>4, <2>1, PushFeeds DEF Numbered
      <3>3. ASSUME NEW seen \in Nat, NEW q \in StatusRuns, q # r, Fed(conn[k], seen, q, executor[q].durable)
            PROVE  Fed(Push(conn[k], seq), seen, q, executor'[q].durable)
        BY <1>1, <1>4, <2>1, <3>3, PushFeeds
      <3> QED
        BY <3>1, <3>2, <3>3
    <2>3. CASE k \notin Subscribed(r)
      <3>1. conn'[k] = conn[k]
        BY <1>2, <2>3
      <3> QED
        BY <1>4, <2>1, <3>1, MoreOnDisk
    <2> QED
      BY <2>2, <2>3
  <1>6. StreamTypes'
    <2>1. conn' \in [Conns -> ConnRecs] /\ subscribers' \subseteq Conns
      BY <1>2, <1>5 DEF StreamInv, StreamTypes
    <2> QED
      BY <1>2, <1>3, <1>4, <1>5, <2>1 DEF StreamInv, StreamTypes
  <1>7. ExecutorOK'
    <2>1. ASSUME NEW i \in 1 .. Len(eventLog') PROVE eventLog'[i].seq =< executor'[eventLog'[i].run].durable
      <3>1. CASE eventLog'[i] = e
        BY <1>1, <1>4, <3>1 DEF e, Numbered
      <3>2. CASE \E j \in 1 .. Len(eventLog) : eventLog'[i] = eventLog[j]
        <4>1. PICK j \in 1 .. Len(eventLog) : eventLog'[i] = eventLog[j]
          BY <3>2
        <4>2. eventLog[j].run \in StatusRuns /\ eventLog[j].seq \in Nat
              /\ eventLog[j].seq =< executor[eventLog[j].run].durable
          BY LogOnDisk
        <4> QED
          BY <1>4, <4>1, <4>2
      <3> QED
        BY <1>3, <3>1, <3>2
    <2>2. ASSUME NEW q \in StatusRuns
          PROVE  IF executor'[q].state = "running"
                 THEN executor'[q].durable = executor'[q].seq /\ executor'[q].seq < LastEvent
                 ELSE executor'[q].durable >= executor'[q].seq
      BY <1>1, <1>4, StreamConstants DEF StreamInv, ExecutorOK, Numbered
    <2> QED
      BY <2>1, <2>2 DEF ExecutorOK
  <1>8. ASSUME NEW k \in Conns PROVE PumpOK(k)'
    BY <1>5 DEF StreamInv, PumpOK
  <1>9. ASSUME NEW w \in Watchers PROVE WatchOK(w)'
    <2>1. /\ watcher[w].seen \in Nat /\ WatchedRun[w] \in StatusRuns /\ watcher'[w] = watcher[w]
          /\ watcher[w].conn # NoConn => watcher[w].conn \in Conns
      BY <1>2, StreamConstants DEF StreamInv, StreamTypes
    <2> QED
      BY <1>5, <2>1 DEF StreamInv, WatchOK
  <1> QED
    BY <1>2, <1>6, <1>7, <1>8, <1>9 DEF StreamInv

\* An append that fails may have its effect; nothing is published.
LEMMA EmitFailsKeeps ==
  ASSUME StreamInv, NEW r \in StatusRuns, EmitFails(r)
  PROVE  StreamInv'
  <1> DEFINE seq == executor[r].seq + 1
             e == [run |-> r, seq |-> seq]
  <1>1. /\ executor[r].state = "running" /\ executor[r].durable = executor[r].seq
        /\ seq \in Numbered /\ executor[r].seq \in Nat /\ e \in LogRecs
    BY StreamConstants DEF EmitFails, StreamInv, StreamTypes, ExecutorOK, Numbered, LogRecs
  <1>2. UNCHANGED <<conn, subscribers, watcher>>
    BY DEF EmitFails
  <1>3. \/ eventLog' = eventLog /\ executor' = [executor EXCEPT ![r].state = "aborted"]
        \/ eventLog' = Retained(eventLog, e)
           /\ executor' = [executor EXCEPT ![r].state = "aborted", ![r].durable = seq]
    BY DEF EmitFails
  <1>4. /\ executor' \in [StatusRuns -> [state : {"running", "completed", "aborted"},
                                         seq : 0 .. LastEvent, durable : 0 .. LastEvent]]
        /\ executor'[r].state = "aborted" /\ executor'[r].durable >= executor'[r].seq
        /\ \A q \in StatusRuns \ {r} : executor'[q] = executor[q]
        /\ \A q \in StatusRuns : executor[q].durable =< executor'[q].durable /\ executor'[q].durable \in Nat
                                 /\ executor[q].durable \in Nat
    <2>1. executor \in [StatusRuns -> [state : {"running", "completed", "aborted"},
                                       seq : 0 .. LastEvent, durable : 0 .. LastEvent]]
      BY DEF StreamInv, StreamTypes
    <2>2. seq \in 0 .. LastEvent /\ \A q \in StatusRuns : executor[q].durable \in Nat
      BY <1>1, <2>1, StreamConstants DEF Numbered
    <2> HIDE DEF seq
    <2>3. CASE executor' = [executor EXCEPT ![r].state = "aborted"]
      BY <1>1, <2>1, <2>2, <2>3
    <2>4. CASE executor' = [executor EXCEPT ![r].state = "aborted", ![r].durable = seq]
      <3>1. executor' = [executor EXCEPT ![r] = [@ EXCEPT !.state = "aborted", !.durable = seq]]
        BY <2>1, <2>4
      <3>2. executor[r].seq =< seq /\ executor[r].durable =< seq
        BY <1>1 DEF seq
      <3>3. executor' \in [StatusRuns -> [state : {"running", "completed", "aborted"},
                                          seq : 0 .. LastEvent, durable : 0 .. LastEvent]]
        BY <2>1, <2>2, <3>1
      <3>4. executor'[r].state = "aborted" /\ executor'[r].durable = seq /\ executor'[r].seq = executor[r].seq
        BY <2>1, <3>1
      <3>5. \A q \in StatusRuns \ {r} : executor'[q] = executor[q]
        BY <2>1, <3>1
      <3> QED
        BY <1>1, <2>2, <3>2, <3>3, <3>4, <3>5
    <2> QED
      BY <1>3, <2>3, <2>4
  <1>5. /\ eventLog' \in Seq(LogRecs) /\ Len(eventLog') =< LogLimit
        /\ \A i \in 1 .. Len(eventLog') :
             \/ eventLog'[i] = e /\ executor'[r].durable = seq
             \/ \E j \in 1 .. Len(eventLog) : eventLog'[i] = eventLog[j]
    <2>0. executor \in [StatusRuns -> [state : {"running", "completed", "aborted"},
                                       seq : 0 .. LastEvent, durable : 0 .. LastEvent]]
          /\ eventLog \in Seq(LogRecs) /\ Len(eventLog) =< LogLimit
      BY DEF StreamInv, StreamTypes
    <2>1. CASE eventLog' = eventLog
      BY <2>0, <2>1
    <2>2. CASE eventLog' = Retained(eventLog, e)
               /\ executor' = [executor EXCEPT ![r].state = "aborted", ![r].durable = seq]
      <3>1. executor'[r].durable = seq
        BY <2>0, <2>2
      <3> HIDE DEF seq, e
      <3> QED
        BY <1>1, <2>2, <3>1, LogGrows
    <2> QED
      BY <1>3, <2>1, <2>2
  <1> HIDE DEF seq, e
  <1>6. StreamTypes'
    BY <1>2, <1>4, <1>5 DEF StreamInv, StreamTypes
  <1>7. ExecutorOK'
    <2>1. ASSUME NEW i \in 1 .. Len(eventLog') PROVE eventLog'[i].seq =< executor'[eventLog'[i].run].durable
      <3>1. CASE eventLog'[i] = e /\ executor'[r].durable = seq
        BY <1>1, <3>1 DEF e, Numbered
      <3>2. CASE \E j \in 1 .. Len(eventLog) : eventLog'[i] = eventLog[j]
        <4>1. PICK j \in 1 .. Len(eventLog) : eventLog'[i] = eventLog[j]
          BY <3>2
        <4>2. eventLog[j].run \in StatusRuns /\ eventLog[j].seq \in Nat
              /\ eventLog[j].seq =< executor[eventLog[j].run].durable
          BY LogOnDisk
        <4> QED
          BY <1>4, <4>1, <4>2
      <3> QED
        BY <1>5, <3>1, <3>2
    <2> QED
      BY <1>4, <2>1, StreamConstants DEF StreamInv, ExecutorOK
  <1>8. ASSUME NEW k \in Conns PROVE PumpOK(k)'
    <2>1. conn[k] \in ConnRecs /\ conn'[k] = conn[k]
      BY <1>2 DEF StreamInv, StreamTypes
    <2>2. ASSUME conn[k].run \in StatusRuns, Within(conn[k], executor[conn[k].run].durable)
          PROVE  Within(conn[k], executor'[conn[k].run].durable)
      BY <1>4, <2>1, <2>2, MoreOnDisk
    <2> QED
      BY <2>1, <2>2 DEF StreamInv, PumpOK
  <1>9. ASSUME NEW w \in Watchers PROVE WatchOK(w)'
    <2>1. /\ watcher[w].seen \in Nat /\ WatchedRun[w] \in StatusRuns /\ watcher'[w] = watcher[w]
          /\ watcher[w].conn # NoConn => watcher[w].conn \in Conns
      BY <1>2, StreamConstants DEF StreamInv, StreamTypes
    <2>2. ASSUME NEW k \in Conns, Fed(conn[k], watcher[w].seen, WatchedRun[w], executor[WatchedRun[w]].durable)
          PROVE  Fed(conn'[k], watcher[w].seen, WatchedRun[w], executor'[WatchedRun[w]].durable)
      <3>1. conn[k] \in ConnRecs
        BY DEF StreamInv, StreamTypes
      <3> QED
        BY <1>2, <1>4, <2>1, <2>2, <3>1, MoreOnDisk
    <2> QED
      BY <2>1, <2>2 DEF StreamInv, WatchOK
  <1> QED
    BY <1>2, <1>6, <1>7, <1>8, <1>9 DEF StreamInv

\* A step of the browser w, of which k is or was the connection: what becomes of both.
Browses(w, k, n, v) ==
    /\ conn' = [conn EXCEPT ![k] = n] /\ watcher' = [watcher EXCEPT ![w] = v]
    /\ subscribers' \subseteq Conns /\ eventLog' = eventLog /\ executor' = executor
    /\ \A u \in Watchers \ {w} : watcher[u].conn # k
    /\ n \in ConnRecs /\ Len(n.queue) =< MaxQueue
    /\ n.pc \in Pumping => n.run \in StatusRuns
    /\ n.run \in StatusRuns => Within(n, executor[n.run].durable)
    /\ v \in [state : WatcherStates, seen : 0 .. LastEvent, conn : Conns \cup {NoConn}]
    /\ v.conn = k \/ v.conn = NoConn
    /\ v.state = "open" <=> v.conn # NoConn
    /\ v.state = "open" => Fed(n, v.seen, WatchedRun[w], executor[WatchedRun[w]].durable)

\* A step of a browser changes its own connection, and no other.
LEMMA WatcherKeeps ==
  ASSUME StreamInv, NEW w \in Watchers, NEW k \in Conns, NEW n, NEW v, Browses(w, k, n, v)
  PROVE  StreamInv'
  <1>1. StreamTypes'
    BY DEF StreamInv, StreamTypes, Browses
  <1>2. ExecutorOK'
    BY DEF StreamInv, ExecutorOK, Browses
  <1>3. conn'[k] = n /\ (\A j \in Conns \ {k} : conn'[j] = conn[j])
        /\ watcher'[w] = v /\ (\A u \in Watchers \ {w} : watcher'[u] = watcher[u])
    BY DEF StreamInv, StreamTypes, Browses
  <1>4. ASSUME NEW j \in Conns PROVE PumpOK(j)'
    BY <1>3 DEF StreamInv, PumpOK, Browses
  <1>5. ASSUME NEW u \in Watchers PROVE WatchOK(u)'
    <2>1. CASE u = w
      BY <1>3, <2>1, StreamConstants DEF WatchOK, Browses
    <2>2. CASE u # w
      <3>1. watcher[u].conn \in Conns \cup {NoConn} /\ watcher[u].conn # k
        BY <2>2 DEF StreamInv, StreamTypes, Browses
      <3> QED
        BY <1>3, <2>2, <3>1 DEF StreamInv, WatchOK, Browses
    <2> QED
      BY <2>1, <2>2
  <1>6. ASSUME NEW u \in Watchers, NEW x \in Watchers, watcher'[u].state = "open",
               watcher'[u].conn = watcher'[x].conn
        PROVE  u = x
    <2>1. watcher'[u].conn # NoConn
      BY <1>5, <1>6 DEF WatchOK
    <2>2. CASE u = w /\ x # w
      BY <1>3, <1>6, <2>1, <2>2 DEF Browses
    <2>3. CASE u # w /\ x = w
      BY <1>3, <1>6, <2>1, <2>3 DEF Browses
    <2>4. CASE u # w /\ x # w
      BY <1>3, <1>6, <2>4 DEF StreamInv
    <2> QED
      BY <2>2, <2>3, <2>4
  <1> QED
    BY <1>1, <1>2, <1>4, <1>5, <1>6 DEF StreamInv

\* A browser that reads or leaves has its connection to itself.
LEMMA OwnConn ==
  ASSUME StreamInv, NEW w \in Watchers, watcher[w].state = "open"
  PROVE  /\ watcher[w].conn \in Conns /\ conn[watcher[w].conn] \in ConnRecs
         /\ \A u \in Watchers \ {w} : watcher[u].conn # watcher[w].conn
         /\ Fed(conn[watcher[w].conn], watcher[w].seen, WatchedRun[w], executor[WatchedRun[w]].durable)
         /\ watcher[w].seen \in 0 .. LastEvent /\ executor[WatchedRun[w]].durable \in 0 .. LastEvent
         /\ conn \in [Conns -> ConnRecs]
  <1>1. watcher[w].conn \in Conns
    BY DEF StreamInv, StreamTypes, WatchOK
  <1> QED
    BY <1>1, StreamConstants DEF StreamInv, StreamTypes, WatchOK

\* A connection the browser has dropped.
LEMMA DroppedConn ==
  ASSUME StreamInv, NEW k \in Conns
  PROVE  /\ Dropped(k) \in ConnRecs /\ Len(Dropped(k).queue) =< MaxQueue
         /\ Dropped(k).pc \in Pumping => Dropped(k).run \in StatusRuns
         /\ Dropped(k).run \in StatusRuns => Within(Dropped(k), executor[Dropped(k).run].durable)
  <1>1. conn[k] \in ConnRecs /\ Len(conn[k].queue) =< MaxQueue /\ PumpOK(k)
    BY DEF StreamInv, StreamTypes
  <1>2. CASE conn[k].pc \in {"ended", "destroyed"}
    <2>1. Dropped(k) = FreeConn
      BY <1>2 DEF Dropped
    <2>2. FreeConn.pc = "free" /\ FreeConn.run = NoRun
      BY DEF FreeConn
    <2> QED
      BY <2>1, <2>2, FreeConnTyped, StreamConstants DEF Pumping
  <1>3. CASE conn[k].pc \notin {"ended", "destroyed"}
    <2> DEFINE n == [conn[k] EXCEPT !.lost = TRUE, !.wire = <<>>]
    <2>1. Dropped(k) = n
      BY <1>3 DEF Dropped
    <2>2. <<>> \in Frames
      BY DEF Frames
    <2>3. n \in ConnRecs
      BY <1>1, <2>2 DEF ConnRecs
    <2>4. /\ n.pc = conn[k].pc /\ n.run = conn[k].run /\ n.queue = conn[k].queue
          /\ n.replay = conn[k].replay /\ n.item = conn[k].item
      BY <1>1 DEF ConnRecs
    <2> HIDE DEF n
    <2> QED
      BY <1>1, <2>1, <2>3, <2>4 DEF PumpOK, Within
  <1> QED
    BY <1>2, <1>3

\* The browser reads the event that follows what it has seen.
LEMMA ReceiveKeeps ==
  ASSUME StreamInv, NEW w \in Watchers, Receive(w)
  PROVE  /\ StreamInv'
         /\ watcher'[w].seen = watcher[w].seen + 1
         /\ watcher'[w].seen =< executor'[WatchedRun[w]].durable
         /\ \A u \in Watchers \ {w} : watcher'[u] = watcher[u]
  <1> DEFINE k == watcher[w].conn
             c == conn[k]
             seq == Head(c.wire)
             d == executor[WatchedRun[w]].durable
  <1>1. /\ watcher[w].state = "open" /\ c.wire # <<>>
        /\ subscribers' \subseteq Conns /\ eventLog' = eventLog /\ executor' = executor
        /\ watcher \in [Watchers -> [state : WatcherStates, seen : 0 .. LastEvent, conn : Conns \cup {NoConn}]]
    BY DEF Receive, StreamInv, StreamTypes
  <1>2. /\ k \in Conns /\ c \in ConnRecs /\ (\A u \in Watchers \ {w} : watcher[u].conn # k)
        /\ Fed(c, watcher[w].seen, WatchedRun[w], d) /\ d \in 0 .. LastEvent
        /\ watcher[w].seen \in 0 .. LastEvent /\ conn \in [Conns -> ConnRecs]
    BY <1>1, OwnConn
  <1>3. /\ c.wire \in Frames /\ Len(c.wire) >= 1 /\ Len(Tail(c.wire)) = Len(c.wire) - 1
        /\ seq = c.wire[1] /\ Tail(c.wire) \in Frames
        /\ \A i \in 1 .. Len(Tail(c.wire)) : i + 1 \in 1 .. Len(c.wire) /\ Tail(c.wire)[i] = c.wire[i + 1]
        /\ Len(c.wire) \in Nat /\ seq \in Numbered
    BY <1>1, <1>2, ConnFields, HeadAndTail, FramesAreNumbered
  <1>4. seq = watcher[w].seen + 1 /\ seq =< d /\ seq \in 0 .. LastEvent /\ watcher[w].seen \in Nat
    BY <1>2, <1>3, StreamConstants DEF Fed, Numbered
  <1>5. CASE seq = LastEvent
    <2> DEFINE v == [state |-> "completed", seen |-> seq, conn |-> NoConn]
    <2>1. watcher' = [watcher EXCEPT ![w] = v] /\ conn' = [conn EXCEPT ![k] = Dropped(k)]
      BY <1>5 DEF Receive
    <2>2. v \in [state : WatcherStates, seen : 0 .. LastEvent, conn : Conns \cup {NoConn}]
      BY <1>4 DEF WatcherStates
    <2>3. v.seen = seq /\ v.conn = NoConn /\ v.state # "open"
      OBVIOUS
    <2> HIDE DEF v, k, seq
    <2>4. Browses(w, k, Dropped(k), v)
      BY <1>1, <1>2, <2>1, <2>2, <2>3, DroppedConn DEF Browses
    <2>5. StreamInv'
      BY <1>2, <2>4, WatcherKeeps
    <2> QED
      BY <1>1, <1>4, <2>1, <2>3, <2>5
  <1>6. CASE seq # LastEvent
    <2> DEFINE v == [watcher[w] EXCEPT !.seen = seq]
               n == [c EXCEPT !.wire = Tail(c.wire)]
    <2>1. watcher' = [watcher EXCEPT ![w] = v] /\ conn' = [conn EXCEPT ![k] = n]
      BY <1>1, <1>2, <1>6 DEF Receive
    <2>2. v \in [state : WatcherStates, seen : 0 .. LastEvent, conn : Conns \cup {NoConn}]
          /\ v.seen = seq /\ v.conn = k /\ v.state = "open"
      BY <1>1, <1>4
    <2>3. n \in ConnRecs
      BY <1>2, <1>3 DEF ConnRecs
    <2>4. /\ n.pc = c.pc /\ n.run = c.run /\ n.lost = c.lost /\ n.queue = c.queue /\ n.cursor = c.cursor
          /\ n.replay = c.replay /\ n.item = c.item /\ n.wire = Tail(c.wire)
      BY <1>2 DEF ConnRecs
    <2> HIDE DEF v, n, seq
    <2>5. Len(n.queue) =< MaxQueue /\ (n.pc \in Pumping => n.run \in StatusRuns)
          /\ (n.run \in StatusRuns => Within(n, executor[n.run].durable))
      BY <1>2, <2>4 DEF StreamInv, StreamTypes, PumpOK, Within
    <2>6. Fed(n, v.seen, WatchedRun[w], d)
      <3>1. ASSUME NEW i \in 1 .. Len(n.wire) PROVE n.wire[i] = v.seen + i
        <4>1. n.wire[i] = c.wire[i + 1] /\ i + 1 \in 1 .. Len(c.wire) /\ i \in Nat
          BY <1>3, <2>4
        <4>2. c.wire[i + 1] = watcher[w].seen + (i + 1)
          BY <1>2, <4>1 DEF Fed
        <4>3. v.seen = watcher[w].seen + 1 /\ watcher[w].seen \in Nat
          BY <1>4, <2>2
        <4>4. \A x, y \in Nat : x + (y + 1) = (x + 1) + y
          OBVIOUS
        <4> QED
          BY <4>1, <4>2, <4>3, <4>4, Zenon
      <3>2. v.seen + Len(n.wire) = watcher[w].seen + Len(c.wire)
        BY <1>2, <1>3, <1>4, <2>2, <2>4
      <3> QED
        BY <1>2, <2>4, <3>1, <3>2 DEF Fed, Written
    <2> HIDE DEF k
    <2>7. Browses(w, k, n, v)
      BY <1>1, <1>2, <2>1, <2>2, <2>3, <2>5, <2>6, StreamConstants DEF Browses
    <2>8. StreamInv'
      BY <1>2, <2>7, WatcherKeeps
    <2> QED
      BY <1>1, <1>4, <2>1, <2>2, <2>8
  <1> QED
    BY <1>5, <1>6

\* The browser leaves a connection that is cut, over, or no longer wanted.
LEMMA LeaveKeeps ==
  ASSUME StreamInv, NEW w \in Watchers, watcher[w].state = "open", NEW n \in ConnRecs,
         n = FreeConn \/ n = Dropped(watcher[w].conn), NEW s \in WatcherStates \ {"open"},
         conn' = [conn EXCEPT ![watcher[w].conn] = n],
         watcher' = [watcher EXCEPT ![w].state = s, ![w].conn = NoConn],
         UNCHANGED <<eventLog, executor, subscribers>>
  PROVE  StreamInv' /\ \A u \in Watchers : watcher'[u].seen = watcher[u].seen
  <1> DEFINE k == watcher[w].conn
             v == [watcher[w] EXCEPT !.state = s, !.conn = NoConn]
  <1>1. /\ k \in Conns /\ (\A u \in Watchers \ {w} : watcher[u].conn # k)
        /\ subscribers' \subseteq Conns /\ eventLog' = eventLog /\ executor' = executor
        /\ watcher \in [Watchers -> [state : WatcherStates, seen : 0 .. LastEvent, conn : Conns \cup {NoConn}]]
    BY OwnConn DEF StreamInv, StreamTypes
  <1>2. watcher' = [watcher EXCEPT ![w] = v] /\ conn' = [conn EXCEPT ![k] = n]
    BY <1>1
  <1>3. v \in [state : WatcherStates, seen : 0 .. LastEvent, conn : Conns \cup {NoConn}]
        /\ v.seen = watcher[w].seen /\ v.conn = NoConn /\ v.state # "open"
    BY <1>1
  <1>4. /\ Len(n.queue) =< MaxQueue /\ (n.pc \in Pumping => n.run \in StatusRuns)
        /\ (n.run \in StatusRuns => Within(n, executor[n.run].durable))
    <2>1. FreeConn.pc = "free" /\ FreeConn.run = NoRun
      BY DEF FreeConn
    <2> QED
      BY <1>1, <2>1, FreeConnTyped, DroppedConn, StreamConstants DEF Pumping
  <1> HIDE DEF v, k
  <1>5. Browses(w, k, n, v)
    BY <1>1, <1>2, <1>3, <1>4 DEF Browses
  <1>6. StreamInv'
    BY <1>1, <1>5, WatcherKeeps
  <1> QED
    BY <1>1, <1>2, <1>3, <1>6

\* A browser that is not connected gives up or is refused.
LEMMA RefusedKeeps ==
  ASSUME StreamInv, NEW w \in Watchers, watcher[w].conn = NoConn, NEW s \in WatcherStates \ {"open"},
         watcher' = [watcher EXCEPT ![w].state = s, ![w].conn = NoConn],
         UNCHANGED <<eventLog, executor, conn, subscribers>>
  PROVE  StreamInv' /\ \A u \in Watchers : watcher'[u].seen = watcher[u].seen
  <1>1. watcher \in [Watchers -> [state : WatcherStates, seen : 0 .. LastEvent, conn : Conns \cup {NoConn}]]
    BY DEF StreamInv, StreamTypes
  <1>2. /\ watcher' \in [Watchers -> [state : WatcherStates, seen : 0 .. LastEvent, conn : Conns \cup {NoConn}]]
        /\ watcher'[w].state = s /\ watcher'[w].conn = NoConn /\ watcher'[w].seen = watcher[w].seen
        /\ \A u \in Watchers \ {w} : watcher'[u] = watcher[u]
    BY <1>1
  <1>3. StreamTypes' /\ ExecutorOK' /\ \A j \in Conns : PumpOK(j)'
    BY <1>2 DEF StreamInv, StreamTypes, ExecutorOK, PumpOK
  <1>4. ASSUME NEW u \in Watchers PROVE WatchOK(u)'
    BY <1>2 DEF StreamInv, WatchOK
  <1>5. ASSUME NEW u \in Watchers, NEW x \in Watchers, watcher'[u].state = "open",
               watcher'[u].conn = watcher'[x].conn
        PROVE  u = x
    <2>1. u # w /\ watcher'[u].conn # NoConn
      BY <1>2, <1>4, <1>5 DEF WatchOK
    <2> QED
      BY <1>2, <1>5, <2>1 DEF StreamInv
  <1> QED
    BY <1>2, <1>3, <1>4, <1>5 DEF StreamInv

\* A replay that was validated is on disk.
LEMMA ReplayOnDisk ==
  ASSUME StreamInv, NEW r \in StatusRuns, NEW after \in 0 .. LastEvent, ReplayOK(r, after)
  PROVE  /\ Replay(r, after) \in Frames
         /\ \A i \in 1 .. Len(Replay(r, after)) : Replay(r, after)[i] =< executor[r].durable
         /\ after =< executor[r].durable
  <1> DEFINE P == Later(r, after)
             n == Cardinality(P)
  <1>1. P \subseteq 1 .. Len(eventLog) /\ Len(eventLog) \in Nat /\ DOMAIN eventLog = 1 .. Len(eventLog)
    BY DEF Later, StreamInv, StreamTypes
  <1>2. n \in Nat
    <2>1. IsFiniteSet(1 .. Len(eventLog))
      BY <1>1, FS_Interval
    <2> HIDE DEF P
    <2>2. IsFiniteSet(P)
      BY <1>1, <2>1, FS_Subset
    <2> QED
      BY <2>2, FS_CardinalityType
  <1>3. ASSUME NEW i \in 1 .. n PROVE after + i \in Numbered /\ after + i =< executor[r].durable
    <2>1. after + i \in after + 1 .. after + n
      BY <1>2
    <2>2. PICK j \in P : eventLog[j].seq = after + i
      BY <2>1, Zenon DEF ReplayOK
    <2>3. j \in 1 .. Len(eventLog) /\ eventLog[j].run = r
      BY <1>1 DEF Later
    <2>4. eventLog[j] \in LogRecs
      BY <2>3 DEF StreamInv, StreamTypes
    <2> QED
      BY <2>2, <2>3, <2>4, LogOnDisk DEF LogRecs
  <1>4. after =< executor[r].durable
    <2>1. executor[r].durable \in Nat
      BY DEF StreamInv, StreamTypes
    <2>2. ASSUME after > 0 PROVE after =< executor[r].durable
      <3>1. PICK i \in 1 .. Len(eventLog) : eventLog[i] = [run |-> r, seq |-> after]
        BY <1>1, <2>2 DEF ReplayOK
      <3> QED
        BY <3>1, LogOnDisk
    <2> QED
      BY <2>1, <2>2
  <1>5. Replay(r, after) = [i \in 1 .. n |-> after + i]
    BY DEF Replay
  <1> HIDE DEF n, P
  <1>6. /\ Replay(r, after) \in Frames /\ Len(Replay(r, after)) = n
        /\ \A i \in 1 .. n : Replay(r, after)[i] = after + i
    <2>1. Replay(r, after) \in [1 .. n -> Numbered]
      BY <1>3, <1>5
    <2>2. Replay(r, after) \in Seq(Numbered)
      BY <1>2, <2>1, SeqDef
    <2>3. DOMAIN Replay(r, after) = 1 .. n /\ DOMAIN Replay(r, after) = 1 .. Len(Replay(r, after))
          /\ Len(Replay(r, after)) \in Nat
      BY <1>5, <2>2, LenProperties
    <2> QED
      BY <1>2, <1>5, <2>2, <2>3 DEF Frames
  <1> QED
    BY <1>3, <1>4, <1>6

\* A connection begins with what follows the event last seen.
LEMMA ConnectKeeps ==
  ASSUME StreamInv, NEW w \in Watchers, Connect(w)
  PROVE  StreamInv' /\ \A u \in Watchers : watcher'[u].seen = watcher[u].seen
  <1> DEFINE r == WatchedRun[w]
             after == watcher[w].seen
             k == CHOOSE f \in FreeConns : TRUE
             n == [FreeConn EXCEPT !.pc = "loop", !.run = r, !.subject = Subject[w],
                                   !.cursor = after, !.mark = after, !.replay = Replay(r, after)]
             v == [watcher[w] EXCEPT !.state = "open", !.conn = k]
  <1>1. /\ watcher[w].state = "connecting" /\ FreeConns # {} /\ ReplayOK(r, after)
        /\ conn' = [conn EXCEPT ![k] = n] /\ eventLog' = eventLog /\ executor' = executor
        /\ subscribers' = subscribers \cup {k}
        /\ watcher' = [watcher EXCEPT ![w].state = "open", ![w].conn = k]
    BY DEF Connect
  <1>2. k \in Conns /\ conn[k] = FreeConn
    BY <1>1 DEF FreeConns
  <1>3. /\ r \in StatusRuns /\ after \in 0 .. LastEvent /\ subscribers' \subseteq Conns
        /\ watcher \in [Watchers -> [state : WatcherStates, seen : 0 .. LastEvent, conn : Conns \cup {NoConn}]]
    BY <1>1, <1>2, StreamConstants DEF StreamInv, StreamTypes
  <1>4. /\ Replay(r, after) \in Frames /\ after =< executor[r].durable
        /\ \A i \in 1 .. Len(Replay(r, after)) : Replay(r, after)[i] =< executor[r].durable
    BY <1>1, <1>3, ReplayOnDisk
  <1>5. /\ n.pc = "loop" /\ n.run = r /\ n.cursor = after /\ n.replay = Replay(r, after)
        /\ n.queue = <<>> /\ n.item = 0 /\ ~n.lost /\ n.wire = <<>>
    BY DEF FreeConn
  <1>6. n \in ConnRecs
    BY <1>3, <1>4, FreeConnTyped DEF FreeConn, ConnRecs, Pumping
  <1>7. v \in [state : WatcherStates, seen : 0 .. LastEvent, conn : Conns \cup {NoConn}]
        /\ v.seen = after /\ v.conn = k /\ v.state = "open" /\ watcher' = [watcher EXCEPT ![w] = v]
    BY <1>1, <1>2, <1>3 DEF WatcherStates
  <1> HIDE DEF k, n, v
  <1>8. \A u \in Watchers : watcher[u].conn # k
    BY <1>2, StreamConstants DEF StreamInv, WatchOK, Fed, FreeConn
  <1>9. executor[r].durable \in Nat
    BY <1>3 DEF StreamInv, StreamTypes
  <1>10. Fed(n, after, r, executor[r].durable) /\ Within(n, executor[r].durable)
    BY <1>3, <1>4, <1>5, <1>9, StreamConstants DEF Fed, Within, Written
  <1>11. Browses(w, k, n, v)
    BY <1>1, <1>2, <1>3, <1>5, <1>6, <1>7, <1>8, <1>10, StreamConstants DEF Browses
  <1>12. StreamInv'
    BY <1>2, <1>11, WatcherKeeps
  <1> QED
    BY <1>3, <1>7, <1>12

\* Every step keeps the invariant, and only a read moves what a browser has seen.
LEMMA StreamStepKeeps ==
  ASSUME StreamInv, StreamNext
  PROVE  /\ StreamInv'
         /\ \A w \in Watchers : watcher'[w].seen # watcher[w].seen =>
               watcher'[w].seen = watcher[w].seen + 1 /\ watcher'[w].seen =< executor'[WatchedRun[w]].durable
  <1>1. ASSUME NEW r \in StatusRuns, Emit(r) \/ EmitFails(r) PROVE StreamInv' /\ watcher' = watcher
    BY <1>1, EmitKeeps, EmitFailsKeeps DEF Emit, EmitFails
  <1>2. ASSUME NEW k \in Conns, Pump(k) \/ Heartbeat(k) \/ PumpExpires(k) \/ Notice(k)
        PROVE  StreamInv' /\ watcher' = watcher
    <2>1. StreamInv'
      BY <1>2, PumpNextKeeps, PumpWakesKeeps, DrainKeeps, HeartbeatKeeps, PumpExpiresKeeps, NoticeKeeps DEF Pump
    <2>2. watcher' = watcher
      BY <1>2 DEF Pump, PumpNext, PumpWakes, Drain, Heartbeat, PumpExpires, Notice
    <2> QED
      BY <2>1, <2>2
  <1>3. ASSUME NEW w \in Watchers, Refuse(w)
        PROVE  StreamInv' /\ \A u \in Watchers : watcher'[u].seen = watcher[u].seen
    <2>1. PICK s \in {"gap", "busy"} : watcher' = [watcher EXCEPT ![w].state = s]
      BY <1>3 DEF Refuse
    <2>2. watcher[w].conn = NoConn /\ UNCHANGED <<eventLog, executor, conn, subscribers>>
      BY <1>3 DEF Refuse, StreamInv, WatchOK
    <2>3. watcher' = [watcher EXCEPT ![w].state = s, ![w].conn = NoConn]
      BY <2>1, <2>2 DEF StreamInv, StreamTypes
    <2>4. s \in WatcherStates \ {"open"}
      BY DEF WatcherStates
    <2> QED
      BY <2>2, <2>3, <2>4, RefusedKeeps
  <1>4. ASSUME NEW w \in Watchers, SeesEnd(w) \/ Cut(w)
        PROVE  StreamInv' /\ \A u \in Watchers : watcher'[u].seen = watcher[u].seen
    <2>1. PICK n : (n = FreeConn \/ n = Dropped(watcher[w].conn)) /\ conn' = [conn EXCEPT ![watcher[w].conn] = n]
      BY <1>4 DEF SeesEnd, Cut
    <2>2. /\ watcher[w].state = "open" /\ UNCHANGED <<eventLog, executor, subscribers>>
          /\ watcher' = [watcher EXCEPT ![w].state = "connecting", ![w].conn = NoConn]
      BY <1>4 DEF SeesEnd, Cut, Reconnect
    <2>3. n \in ConnRecs /\ "connecting" \in WatcherStates \ {"open"}
      BY <2>1, <2>2, OwnConn, DroppedConn, FreeConnTyped DEF WatcherStates
    <2> QED
      BY <2>1, <2>2, <2>3, LeaveKeeps
  <1>5. ASSUME NEW w \in Watchers, GiveUp(w)
        PROVE  StreamInv' /\ \A u \in Watchers : watcher'[u].seen = watcher[u].seen
    <2>1. /\ watcher[w].state \in {"connecting", "open"} /\ UNCHANGED <<eventLog, executor, subscribers>>
          /\ watcher' = [watcher EXCEPT ![w].state = "timedout", ![w].conn = NoConn]
          /\ conn' = IF watcher[w].conn = NoConn THEN conn
                     ELSE [conn EXCEPT ![watcher[w].conn] = Dropped(watcher[w].conn)]
      BY <1>5 DEF GiveUp
    <2>2. "timedout" \in WatcherStates \ {"open"} /\ (watcher[w].state = "open" <=> watcher[w].conn # NoConn)
      BY DEF WatcherStates, StreamInv, WatchOK
    <2>3. CASE watcher[w].state = "open"
      <3>1. Dropped(watcher[w].conn) \in ConnRecs
        BY <2>3, OwnConn, DroppedConn
      <3> QED
        BY <2>1, <2>2, <2>3, <3>1, LeaveKeeps
    <2>4. CASE watcher[w].state # "open"
      BY <2>1, <2>2, <2>4, RefusedKeeps
    <2> QED
      BY <2>3, <2>4
  <1>6. ASSUME NEW w \in Watchers, Receive(w)
        PROVE  /\ StreamInv'
               /\ \A u \in Watchers : watcher'[u].seen # watcher[u].seen =>
                    watcher'[u].seen = watcher[u].seen + 1 /\ watcher'[u].seen =< executor'[WatchedRun[u]].durable
    BY <1>6, ReceiveKeeps
  <1> QED
    BY <1>1, <1>2, <1>3, <1>4, <1>5, <1>6, ConnectKeeps DEF StreamNext

\* The inductive invariant of the streams: what is under way to a browser
\* follows what it has seen, without a gap, and is on disk, across a publication
\* beside a replay, overflow, back pressure, lost connections and retention.
THEOREM StreamInvariant == StreamSpec => []StreamInv
  <1>1. StreamInit => StreamInv
    <2> SUFFICES ASSUME StreamInit PROVE StreamInv
      OBVIOUS
    <2>1. StreamTypes
      BY FreeConnTyped, StreamConstants DEF StreamInit, StreamTypes, WatcherStates
    <2>2. ExecutorOK
      BY StreamConstants DEF StreamInit, ExecutorOK
    <2>3. \A k \in Conns : PumpOK(k)
      BY StreamConstants DEF StreamInit, PumpOK, FreeConn, Pumping
    <2>4. \A w \in Watchers : WatchOK(w)
      BY DEF StreamInit, WatchOK
    <2> QED
      BY <2>1, <2>2, <2>3, <2>4 DEF StreamInit, StreamInv
  <1>2. StreamInv /\ UNCHANGED streamVars => StreamInv'
    BY DEF streamVars, StreamInv, StreamTypes, ExecutorOK, PumpOK, WatchOK
  <1> QED
    BY <1>1, <1>2, StreamStepKeeps, PTL DEF StreamSpec

\* A browser gets every event of its run once and in order, and only what
\* statusRunEvents holds, whatever the pumps, cuts, overflows and reconnects.
THEOREM SeenInOrderHolds == StreamSpec => SeenInOrder
  <1> DEFINE Step == \A w \in Watchers :
                watcher'[w].seen # watcher[w].seen
                => /\ watcher'[w].seen = watcher[w].seen + 1
                   /\ watcher'[w].seen =< executor'[WatchedRun[w]].durable
  <1>1. StreamInv /\ [StreamNext]_streamVars => [Step]_streamVars
    BY StreamStepKeeps
  <1>2. SeenInOrder <=> [][Step]_streamVars
    BY DEF SeenInOrder
  <1> HIDE DEF Step
  <1> QED
    BY <1>1, <1>2, StreamInvariant, PTL DEF StreamSpec

\* The types of the log, the executor, the connections and the browsers; the
\* log stays within its retention and every queue within maxQueueEvents.
THEOREM StreamTypeCorrect == StreamSpec => []StreamTypeOK
  <1>1. StreamInv => StreamTypeOK
    <2> SUFFICES ASSUME StreamInv PROVE StreamTypeOK
      OBVIOUS
    <2>1. eventLog \in Seq([run : StatusRuns, seq : 1 .. LastEvent]) /\ Len(eventLog) =< LogLimit
      BY DEF StreamInv, StreamTypes, LogRecs, Numbered
    <2>2. \A k \in Conns : /\ conn[k].pc \in {"free", "loop", "wait", "take", "blocked", "ended", "destroyed"}
                           /\ Len(conn[k].queue) =< MaxQueue /\ conn[k].item \in 0 .. LastEvent
      BY ConnFields DEF StreamInv, StreamTypes, Pumping
    <2> QED
      BY <2>1, <2>2 DEF StreamInv, StreamTypes, StreamTypeOK, WatcherStates
  <1> QED
    BY <1>1, StreamInvariant, PTL

=============================================================================
