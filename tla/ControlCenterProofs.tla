------------------------- MODULE ControlCenterProofs -------------------------
(* The safety of two parts of the Control Center, for every value of their    *)
(* constants: the managed databases (any databases, delete operations and     *)
(* requests, any number of passwords and faults) and the visibility provider  *)
(* (any hosts, any wildcard).                                                 *)
EXTENDS ManagedDatabases, CloudflareVisibility, FiniteSetTheorems, TLAPS

----------------------------------------------------------------------------
(* The inductive invariant of the managed databases: for each step of a       *)
(* handler, what it has done so far.                                          *)

\* The steps of a handler, by what it has done so far.
Creating == {"provision", "secret", "record", "activate"}
Rotating == {"rotate", "rotateSecret", "rotateRecord"}
Deciding == {"approve", "execute"}
Cleaning == {"cleanup", "removeSecret", "removeRecord", "removeBinding", "complete"}
Deleting == Deciding \cup {"drop", "checkpoint", "fail"} \cup Cleaning
Finished == {"database-dropped", "completed", "rollback-required"}

Statuses == {"none", "evidence-verified", "approved", "executing", "failed"} \cup Finished
Steps == {"idle"} \cup Creating \cup Rotating \cup Deleting
Passwords == 0 .. MaxSecret
Operations == [status : Statuses, db : Dbs \cup {NoDb}, tried : BOOLEAN, of : Passwords]
Handlers == [at : Steps, db : Dbs \cup {NoDb},
             delete : Deletes \cup {NoDelete}, secret : Passwords,
             provision : BOOLEAN, dropped : BOOLEAN, rotating : BOOLEAN]

\* The variables DbTypeOK does not mention.
HandlerTypeOK ==
    /\ liveApply \in BOOLEAN /\ record \in [Dbs -> BOOLEAN] /\ owned \in [Dbs -> BOOLEAN]
    /\ lateDrop \in [Dbs -> Deletes \cup {NoDelete}]
    /\ deletion \in [Deletes -> Operations]
    /\ known \in [Slots -> [busy : BOOLEAN, dbs : SUBSET Dbs]]
    /\ handler \in Handlers
    /\ secrets \in Passwords
    /\ drops \in [Deletes -> SUBSET Passwords]
    /\ revived \subseteq Dbs

\* What delete operation o has dropped so far.
Took(o) == drops[o] \ {0}

\* An operation that was executed and has not completed explains the loss of d.
Accounted(d) ==
    \E o \in Deletes : deletion[o].db = d /\ deletion[o].tried /\ deletion[o].status # "completed"

\* A handler that creates: its password is new, its principal is reserved, and
\* what it has made is there unless a late DROP took it.
CreatingOK ==
    /\ handler.at # "idle" => handler.db \in Dbs
    /\ handler.at \in Creating \cup Rotating => handler.secret # 0
    /\ handler.at \in Creating \ {"activate"} => binding[handler.db] # "none"
    /\ handler.at = "rotate" => ~handler.provision
    /\ \/ handler.at = "activate"
       \/ handler.at \in {"secret", "record"} /\ liveApply
       \/ handler.at = "rotateSecret" /\ handler.provision
       => liveDb[handler.db] # 0 \/ Accounted(handler.db)

\* A handler that deletes: its operation is saved before the DROP, and what
\* each later step relies on was done by the steps before it.
DeletingOK ==
    /\ handler.at \in Deleting => handler.delete \in Deletes /\ deletion[handler.delete].db = handler.db
    /\ handler.at \in Deciding \cup {"drop"} => ~handler.dropped
    /\ handler.at = "execute" => deletion[handler.delete].status = "approved"
    /\ handler.at \in {"drop", "checkpoint"} =>
          deletion[handler.delete].status = "executing" /\ deletion[handler.delete].tried
    /\ handler.at \in Cleaning => deletion[handler.delete].status = "database-dropped"
    /\ handler.at = "fail" => deletion[handler.delete].status \in {"executing", "database-dropped"}
    /\ handler.at = "fail" /\ ~handler.dropped => deletion[handler.delete].status = "executing"
    /\ handler.dropped => handler.db \in Dbs /\ lateDrop[handler.db] = NoDelete
    /\ handler.at \in {"checkpoint"} \cup Cleaning =>
          /\ handler.dropped /\ liveDb[handler.db] = 0
          /\ handler.at # "complete" => binding[handler.db] = "active"
          /\ \A o \in Deletes \ {handler.delete} :
                deletion[o].db = handler.db /\ Took(o) # {} => deletion[o].status \in Finished
    /\ handler.at \in Cleaning \ {"cleanup"} => role[handler.db] = 0
    /\ handler.at \in {"removeBinding", "complete"} => ~record[handler.db]
    /\ handler.at = "complete" => binding[handler.db] = "none"

\* A DROP that still runs belongs to an operation that is not through with it.
LateOK ==
    \A d \in Dbs : lateDrop[d] # NoDelete =>
        /\ deletion[lateDrop[d]].db = d /\ deletion[lateDrop[d]].tried
        /\ deletion[lateDrop[d]].status \notin Finished
        /\ binding[d] = "active"

\* An operation that took a database can take no other: it is finished, or the
\* database is gone and, its binding being active, cannot be created again.
SpentOK ==
    \A o \in Deletes :
        /\ deletion[o].status # "none" => deletion[o].db \in Dbs
        /\ deletion[o].tried => deletion[o].status # "none"
        /\ Took(o) # {} => /\ deletion[o].status # "none"
                           /\ \/ deletion[o].status \in Finished
                              \/ binding[deletion[o].db] = "active" /\ liveDb[deletion[o].db] = 0
        /\ deletion[o].status # "none" /\ deletion[o].of # 0 =>
              liveDb[deletion[o].db] = deletion[o].of \/ \E p \in Deletes : deletion[o].of \in drops[p]

DatabaseInv ==
    /\ DbTypeOK /\ HandlerTypeOK
    /\ CreatingOK /\ DeletingOK /\ LateOK /\ SpentOK
    /\ PrincipalsBound /\ LossIsAccounted /\ DropsItsOwn

----------------------------------------------------------------------------
(* Records after an update                                                    *)

\* The local variables of a handler that goes on.
LEMMA HandlerTyped ==
  ASSUME NEW j \in Handlers, NEW s \in Steps
  PROVE  /\ [j EXCEPT !.at = s] \in Handlers
         /\ [j EXCEPT !.at = s, !.provision = TRUE] \in Handlers
         /\ [j EXCEPT !.at = s, !.dropped = TRUE] \in Handlers
<1> DEFINE k == [j EXCEPT !.at = s]
<1>1. k \in Handlers
  BY DEF Handlers, Steps
<1>2. [k EXCEPT !.provision = TRUE] \in Handlers /\ [k EXCEPT !.dropped = TRUE] \in Handlers
  <2> HIDE DEF k
  <2> QED BY Zenon, <1>1 DEF Handlers
<1> QED BY <1>1, <1>2

\* The local variables of a handler that starts.
LEMMA HandlerStarts ==
  ASSUME NEW d \in Dbs, NEW n \in Passwords, NEW s \in Steps
  PROVE  /\ NoJob \in Handlers
         /\ \A o \in Deletes : [NoJob EXCEPT !.at = s, !.db = d, !.delete = o] \in Handlers
         /\ [NoJob EXCEPT !.at = s, !.db = d, !.secret = n, !.provision = TRUE] \in Handlers
         /\ [NoJob EXCEPT !.at = s, !.db = d, !.secret = n, !.rotating = TRUE] \in Handlers
<1>1. NoJob \in Handlers
  BY DatabaseConstants DEF NoJob, Handlers, Passwords, Steps
<1> DEFINE a == [NoJob EXCEPT !.at = s]
           b == [a EXCEPT !.db = d]
           c == [b EXCEPT !.secret = n]
<1>2. a \in Handlers
  BY <1>1 DEF Handlers, Steps
<1>3. b \in Handlers
  <2> HIDE DEF a
  <2> QED BY <1>2 DEF Handlers
<1>4. (\A o \in Deletes : [b EXCEPT !.delete = o] \in Handlers) /\ c \in Handlers
  <2> HIDE DEF b
  <2> QED BY <1>3 DEF Handlers
<1>5. [c EXCEPT !.provision = TRUE] \in Handlers /\ [c EXCEPT !.rotating = TRUE] \in Handlers
  <2> HIDE DEF c
  <2> QED BY Zenon, <1>4 DEF Handlers
<1> QED BY Zenon, <1>1, <1>4, <1>5

\* A step of a delete operation.
LEMMA OperationMoves ==
  ASSUME HandlerTypeOK, NEW o \in Deletes, NEW s \in Statuses,
         deletion' = [deletion EXCEPT ![o].status = s]
  PROVE  /\ deletion' \in [Deletes -> Operations]
         /\ deletion'[o].status = s
         /\ deletion'[o].db = deletion[o].db /\ deletion'[o].of = deletion[o].of
         /\ deletion'[o].tried = deletion[o].tried
         /\ \A p \in Deletes \ {o} : deletion'[p] = deletion[p]
<1> DEFINE e == [deletion[o] EXCEPT !.status = s]
<1>1. deletion[o] \in Operations
  BY DEF HandlerTypeOK
<1>2. e \in Operations /\ e.status = s /\ e.db = deletion[o].db /\ e.of = deletion[o].of
      /\ e.tried = deletion[o].tried
  BY <1>1 DEF Operations, Statuses
<1>3. deletion' = [deletion EXCEPT ![o] = e]
  OBVIOUS
<1> HIDE DEF e
<1> QED BY <1>2, <1>3 DEF HandlerTypeOK

\* executeDatabaseDelete saves the operation as executing before it starts.
LEMMA OperationExecutes ==
  ASSUME HandlerTypeOK, NEW o \in Deletes, deletion[o].db \in Dbs, Executing(o)
  PROVE  /\ deletion' \in [Deletes -> Operations]
         /\ deletion'[o].status = "executing" /\ deletion'[o].tried
         /\ deletion'[o].db = deletion[o].db /\ deletion'[o].of = deletion[o].of
         /\ \A p \in Deletes \ {o} : deletion'[p] = deletion[p]
         /\ handler' \in Handlers
         /\ handler'.at = "drop" /\ handler'.db = deletion[o].db /\ handler'.delete = o /\ ~handler'.dropped
<1> DEFINE c == [deletion[o] EXCEPT !.status = "executing"]
           e == [c EXCEPT !.tried = TRUE]
<1>1. deletion[o] \in Operations
  BY DEF HandlerTypeOK
<1>2. c \in Operations /\ c.db = deletion[o].db /\ c.of = deletion[o].of /\ c.status = "executing"
  BY <1>1 DEF Operations, Statuses
<1>3. e \in Operations /\ e.db = c.db /\ e.of = c.of /\ e.status = c.status /\ e.tried
  <2> HIDE DEF c
  <2> QED BY Zenon, <1>2 DEF Operations
<1>4. deletion' = [deletion EXCEPT ![o] = e]
  BY Zenon DEF Executing, HandlerTypeOK
<1>5. /\ deletion' \in [Deletes -> Operations] /\ deletion'[o] = e
      /\ \A p \in Deletes \ {o} : deletion'[p] = deletion[p]
  <2> HIDE DEF e
  <2> QED BY <1>3, <1>4 DEF HandlerTypeOK
<1>6. handler' = [NoJob EXCEPT !.at = "drop", !.db = deletion[o].db, !.delete = o]
  BY DEF Executing
<1>7. handler' \in Handlers
  <2>1. "drop" \in Steps /\ 0 \in Passwords
    BY DatabaseConstants DEF Steps, Deleting, Passwords
  <2> QED BY Zenon, <1>6, <2>1, HandlerStarts
<1>8. handler'.at = "drop" /\ handler'.db = deletion[o].db /\ handler'.delete = o /\ ~handler'.dropped
  BY <1>6 DEF NoJob
<1> QED BY <1>2, <1>3, <1>5, <1>7, <1>8

\* A new operation is entered for the database that is live at the moment.
LEMMA OperationStarts ==
  ASSUME HandlerTypeOK, DbTypeOK, NEW o \in Deletes, NEW d \in Dbs, Requested(o, d)
  PROVE  /\ deletion' \in [Deletes -> Operations]
         /\ deletion'[o].status = "evidence-verified" /\ deletion'[o].db = d
         /\ deletion'[o].of = liveDb[d] /\ ~deletion'[o].tried
         /\ \A p \in Deletes \ {o} : deletion'[p] = deletion[p]
<1> DEFINE a == [Unrequested EXCEPT !.status = "evidence-verified"]
           b == [a EXCEPT !.db = d]
           e == [b EXCEPT !.of = liveDb[d]]
<1>1. Unrequested \in Operations
  BY DatabaseConstants DEF Unrequested, Operations, Passwords, Statuses
<1>2. a \in Operations
  BY <1>1 DEF Operations, Statuses
<1>3. a.status = "evidence-verified" /\ a.tried = Unrequested.tried
  BY <1>1 DEF Operations
<1>4. ~Unrequested.tried
  BY DEF Unrequested
<1>5. b \in Operations /\ b.status = a.status /\ b.tried = a.tried /\ b.db = d
  <2> HIDE DEF a
  <2> QED BY <1>2 DEF Operations
<1>6. e \in Operations /\ e.status = b.status /\ e.tried = b.tried /\ e.db = b.db /\ e.of = liveDb[d]
  <2> HIDE DEF b
  <2> QED BY <1>5 DEF Operations, DbTypeOK, Passwords
<1>7. deletion' = [deletion EXCEPT ![o] = e]
  BY DEF Requested
<1> HIDE DEF a, b, e
<1> QED BY <1>3, <1>4, <1>5, <1>6, <1>7 DEF HandlerTypeOK

\* What a DROP takes away.
LEMMA DropTakes ==
  ASSUME HandlerTypeOK, DbTypeOK, NEW d \in Dbs, NEW o \in Deletes, Dropped(d, o)
  PROVE  /\ liveDb' \in [Dbs -> Passwords] /\ owned' \in [Dbs -> BOOLEAN]
         /\ drops' \in [Deletes -> SUBSET Passwords]
         /\ liveDb'[d] = 0 /\ ~owned'[d]
         /\ \A c \in Dbs \ {d} : liveDb'[c] = liveDb[c] /\ owned'[c] = owned[c]
         /\ drops'[o] = drops[o] \cup {liveDb[d]}
         /\ \A p \in Deletes \ {o} : drops'[p] = drops[p]
<1>1. liveDb[d] \in Passwords /\ 0 \in Passwords
  BY DatabaseConstants DEF DbTypeOK, Passwords
<1>2. drops[o] \cup {liveDb[d]} \in SUBSET Passwords
  BY <1>1 DEF HandlerTypeOK
<1> QED BY <1>1, <1>2 DEF Dropped, HandlerTypeOK, DbTypeOK, Passwords

----------------------------------------------------------------------------
(* Every step preserves the invariant, conjunct by conjunct                   *)

\* The request in progress keeps its types under every step of its handler.
LEMMA JobTyped ==
  ASSUME DatabaseInv, DbNext
  PROVE  handler' \in Handlers
<1> USE DatabaseConstants DEF DbAt, DbGoto, End
<1>a. /\ handler \in Handlers /\ NoJob \in Handlers
      /\ \A s \in Steps : /\ [handler EXCEPT !.at = s] \in Handlers
                          /\ [handler EXCEPT !.at = s, !.provision = TRUE] \in Handlers
                          /\ [handler EXCEPT !.at = s, !.dropped = TRUE] \in Handlers
  <2>1. handler \in Handlers
    BY DEF DatabaseInv, HandlerTypeOK
  <2>2. NoJob \in Handlers
    BY DEF NoJob, Handlers, Steps, Passwords
  <2> QED BY Zenon, <2>1, <2>2, HandlerTyped
<1>b. \A d \in Dbs, n \in Passwords, s \in Steps :
         /\ \A o \in Deletes : [NoJob EXCEPT !.at = s, !.db = d, !.delete = o] \in Handlers
         /\ [NoJob EXCEPT !.at = s, !.db = d, !.secret = n, !.provision = TRUE] \in Handlers
         /\ [NoJob EXCEPT !.at = s, !.db = d, !.secret = n, !.rotating = TRUE] \in Handlers
  BY Zenon, HandlerStarts
<1>1. ASSUME NEW s \in Slots, Arrive(s) PROVE handler' \in Handlers
  BY <1>1, <1>a DEF Arrive, Steps, Creating, Rotating, Deleting, Deciding, Cleaning
<1>2. ASSUME NEW s \in Slots, PlanOnly(s) PROVE handler' \in Handlers
  BY <1>2, <1>a DEF PlanOnly, Enter, Steps, Creating, Rotating, Deleting, Deciding, Cleaning
<1>3. ASSUME NEW s \in Slots, NEW d \in Dbs, CreateReserve(s, d) PROVE handler' \in Handlers
  <2>1. secrets' \in Passwords /\ "provision" \in Steps
    BY <1>3 DEF CreateReserve, DatabaseInv, HandlerTypeOK, Passwords, Steps, Creating
  <2> QED BY Zenon, <1>3, <2>1, <1>b DEF CreateReserve
<1>4. ASSUME NEW s \in Slots, NEW d \in Dbs, Rotate(s, d) PROVE handler' \in Handlers
  <2>1. secrets' \in Passwords /\ "rotate" \in Steps
    BY <1>4 DEF Rotate, DatabaseInv, HandlerTypeOK, Passwords, Steps, Rotating
  <2> QED BY Zenon, <1>4, <2>1, <1>a, <1>b DEF Rotate
<1>5. ASSUME NEW s \in Slots, NEW d \in Dbs, Update(s, d) PROVE handler' \in Handlers
  BY <1>5, <1>a DEF Update, Enter, Steps, Creating, Rotating, Deleting, Deciding, Cleaning
<1>6. ASSUME NEW s \in Slots, NEW o \in Deletes, Approve(s, o) PROVE handler' \in Handlers
  BY <1>6, <1>a DEF Approve, Enter, Approvable, Approved, Steps, Creating, Rotating, Deleting,
      Deciding, Cleaning
<1>7. ASSUME NEW s \in Slots, NEW o \in Deletes, Execute(s, o) PROVE handler' \in Handlers
  <2>1. deletion[o].db \in Dbs
    BY <1>7 DEF Execute, Executable, DatabaseInv, SpentOK
  <2> QED BY <1>7, <2>1, OperationExecutes DEF Execute, DatabaseInv
<1>8. ASSUME NEW s \in Slots, NEW o \in Deletes, NEW d \in Dbs, NEW now \in BOOLEAN, RequestDelete(s, o, d, now) PROVE handler' \in Handlers
  <2>1. "approve" \in Steps /\ 0 \in Passwords
    BY DEF Steps, Deleting, Deciding, Passwords
  <2> QED BY Zenon, <1>8, <2>1, <1>a, <1>b DEF RequestDelete
<1>9. CASE Provision
  BY <1>9, <1>a DEF Provision, CreateAllowed, Steps, Creating, Rotating, Deleting, Deciding,
      Cleaning
<1>10. CASE ProvisionFails
  BY <1>10, <1>a DEF ProvisionFails, CreateAllowed, Steps, Creating, Rotating, Deleting, Deciding,
      Cleaning
<1>11. CASE WriteSecret
  BY Zenon, <1>11, <1>a DEF WriteSecret, Steps, Creating, Rotating, Deleting, Deciding, Cleaning
<1>12. CASE WriteRecord
  BY Zenon, <1>12, <1>a DEF WriteRecord, Steps, Creating, Rotating, Deleting, Deciding, Cleaning
<1>13. CASE Activate
  BY Zenon, <1>13, <1>a DEF Activate, Steps, Creating, Rotating, Deleting, Deciding, Cleaning
<1>14. CASE RotateLive
  BY <1>14, <1>a DEF RotateLive, CreateAllowed, Owns, Steps, Creating, Rotating, Deleting,
      Deciding, Cleaning
<1>15. CASE RotateFails
  BY <1>15, <1>a DEF RotateFails, Steps, Creating, Rotating, Deleting, Deciding, Cleaning
<1>16. CASE RotateSecret
  BY Zenon, <1>16, <1>a DEF RotateSecret, Steps, Creating, Rotating, Deleting, Deciding, Cleaning
<1>17. CASE RotateRecord
  BY <1>17, <1>a DEF RotateRecord, Steps, Creating, Rotating, Deleting, Deciding, Cleaning
<1>18. CASE ApproveNow
  BY Zenon, <1>18, <1>a DEF ApproveNow, Approvable, Approved, Steps, Creating, Rotating, Deleting,
      Deciding, Cleaning
<1>19. CASE ExecuteNow
  <2>1. CASE Executable(handler.delete)
    <3>1. handler.delete \in Deletes /\ deletion[handler.delete].db \in Dbs
      BY <1>19, <2>1 DEF ExecuteNow, Executable, DatabaseInv, DeletingOK, SpentOK, Deleting, Deciding
    <3> QED BY <1>19, <2>1, <3>1, OperationExecutes DEF ExecuteNow, DatabaseInv
  <2>2. CASE ~Executable(handler.delete)
    BY Zenon, <1>19, <2>2, <1>a DEF ExecuteNow
  <2> QED BY <2>1, <2>2
<1>20. CASE DropDatabase
  BY <1>20, <1>a DEF DropDatabase, Dropped, Owns, Steps, Creating, Rotating, Deleting, Deciding,
      Cleaning
<1>21. CASE DropFails
  BY <1>21, <1>a DEF DropFails, Dropped, Owns, Steps, Creating, Rotating, Deleting, Deciding,
      Cleaning
<1>22. CASE Checkpoint
  BY <1>22, <1>a DEF Checkpoint, Steps, Creating, Rotating, Deleting, Deciding, Cleaning
<1>23. CASE Cleanup
  BY <1>23, <1>a DEF Cleanup, CleanupAllowed, Steps, Creating, Rotating, Deleting, Deciding,
      Cleaning
<1>24. CASE CleanupFails
  BY <1>24, <1>a DEF CleanupFails, CleanupAllowed, Steps, Creating, Rotating, Deleting, Deciding,
      Cleaning
<1>25. CASE RemoveSecret
  BY <1>25, <1>a DEF RemoveSecret, Steps, Creating, Rotating, Deleting, Deciding, Cleaning
<1>26. CASE RemoveRecord
  BY <1>26, <1>a DEF RemoveRecord, Steps, Creating, Rotating, Deleting, Deciding, Cleaning
<1>27. CASE RemoveBinding
  BY <1>27, <1>a DEF RemoveBinding, Steps, Creating, Rotating, Deleting, Deciding, Cleaning
<1>28. CASE Complete
  BY <1>28, <1>a DEF Complete, Steps, Creating, Rotating, Deleting, Deciding, Cleaning
<1>29. CASE RecordFailure
  BY <1>29, <1>a DEF RecordFailure, FailureStatus, Steps, Creating, Rotating, Deleting, Deciding,
      Cleaning
<1>30. ASSUME NEW d \in Dbs, LateDrop(d) PROVE handler' \in Handlers
  BY <1>30, <1>a DEF LateDrop, Dropped, Steps, Creating, Rotating, Deleting, Deciding, Cleaning
<1>31. CASE DbWriteFails
  BY Zenon, <1>31, <1>a DEF DbWriteFails, InCatch, OtherWrites, Steps, Creating, Rotating, Deleting,
      Deciding, Cleaning
<1>32. CASE DbRestart
  BY <1>32, <1>a DEF DbRestart, Steps, Creating, Rotating, Deleting, Deciding, Cleaning
<1> QED BY <1>1, <1>2, <1>3, <1>4, <1>5, <1>6, <1>7, <1>8, <1>9, <1>10, <1>11, <1>12, <1>13,
    <1>14, <1>15, <1>16, <1>17, <1>18, <1>19, <1>20, <1>21, <1>22, <1>23, <1>24, <1>25, <1>26,
    <1>27, <1>28, <1>29, <1>30, <1>31, <1>32 DEF DbNext, DeleteStep

\* The transitions of a delete operation, as destructive-workflow.mjs allows
\* them, and what the handler at hand must have done for each.
OperationStep(o) ==
    /\ deletion' \in [Deletes -> Operations]
    /\ \A p \in Deletes \ {o} : deletion'[p] = deletion[p]
    /\ \/ /\ deletion[o].status = "none" /\ deletion'[o].status = "evidence-verified"
          /\ ~deletion'[o].tried
          /\ deletion'[o].db \in Dbs /\ deletion'[o].of = liveDb[deletion'[o].db]
       \/ /\ deletion'[o].db = deletion[o].db /\ deletion'[o].of = deletion[o].of
          /\ \/ /\ deletion[o].status \in {"evidence-verified", "failed"}
                /\ deletion'[o].status = "approved" /\ deletion'[o].tried = deletion[o].tried
             \/ /\ deletion[o].status = "approved"
                /\ deletion'[o].status = "executing" /\ deletion'[o].tried
             \/ /\ handler.delete = o /\ deletion'[o].tried = deletion[o].tried
                /\ \/ handler.at = "checkpoint" /\ deletion'[o].status = "database-dropped"
                   \/ handler.at = "complete" /\ deletion'[o].status = "completed"
                   \/ handler.at = "fail" /\ deletion'[o].status = FailureStatus

\* The saved delete operations keep their types.
LEMMA DeletionStep ==
  ASSUME DatabaseInv, DbNext, deletion' # deletion
  PROVE  /\ UNCHANGED <<engineVars, record, binding, secretFile, liveApply, revived>>
         /\ \E o \in Deletes : OperationStep(o)
<1>1. /\ HandlerTypeOK /\ DbTypeOK
      /\ \A o \in Deletes : deletion[o].status # "none" => deletion[o].db \in Dbs
      /\ handler.at \in Deleting => handler.delete \in Deletes
      /\ FailureStatus \in Statuses
  BY DEF DatabaseInv, SpentOK, DeletingOK, FailureStatus, Statuses, Finished
<1>2. ASSUME NEW o \in Deletes, Approvable(o), Approved(o) PROVE OperationStep(o)
  BY Zenon, <1>1, <1>2, OperationMoves DEF Approvable, Approved, OperationStep, Statuses
<1>3. ASSUME NEW o \in Deletes, Executable(o), Executing(o) PROVE OperationStep(o)
  BY <1>1, <1>3, OperationExecutes DEF Executable, OperationStep
<1>4. ASSUME NEW s \in Slots, NEW o \in Deletes, NEW d \in Dbs, NEW now \in BOOLEAN,
             RequestDelete(s, o, d, now)
      PROVE  UNCHANGED <<engineVars, record, binding, secretFile, liveApply, revived>> /\ OperationStep(o)
  <2>1. deletion[o].status = "none" /\ Requested(o, d)
    BY <1>4 DEF RequestDelete
  <2>2. OperationStep(o)
    BY <1>1, <2>1, OperationStarts DEF OperationStep
  <2> QED BY <1>4, <2>2 DEF RequestDelete
<1>5. ASSUME NEW s \in Slots, NEW o \in Deletes, Approve(s, o)
      PROVE  UNCHANGED <<engineVars, record, binding, secretFile, liveApply, revived>> /\ OperationStep(o)
  BY <1>2, <1>5 DEF Approve
<1>6. ASSUME NEW s \in Slots, NEW o \in Deletes, Execute(s, o)
      PROVE  UNCHANGED <<engineVars, record, binding, secretFile, liveApply, revived>> /\ OperationStep(o)
  BY <1>3, <1>6 DEF Execute
<1>7. ASSUME ApproveNow \/ ExecuteNow
      PROVE  /\ UNCHANGED <<engineVars, record, binding, secretFile, liveApply, revived>>
             /\ handler.delete \in Deletes /\ OperationStep(handler.delete)
  <2>1. handler.delete \in Deletes
    BY <1>1, <1>7 DEF ApproveNow, ExecuteNow, DbAt, Deleting, Deciding
  <2>2. CASE ApproveNow
    BY <1>2, <2>1, <2>2 DEF ApproveNow
  <2>3. CASE ExecuteNow
    BY <1>3, <2>1, <2>3 DEF ExecuteNow
  <2> QED BY <1>7, <2>1, <2>2, <2>3
<1>8. ASSUME Checkpoint \/ Complete \/ RecordFailure
      PROVE  /\ UNCHANGED <<engineVars, record, binding, secretFile, liveApply, revived>>
             /\ handler.delete \in Deletes /\ OperationStep(handler.delete)
  <2>1. handler.delete \in Deletes
    BY <1>1, <1>8 DEF Checkpoint, Complete, RecordFailure, DbAt, Deleting, Cleaning
  <2>2. CASE Checkpoint
    BY Zenon, <1>1, <2>1, <2>2, OperationMoves DEF Checkpoint, DbAt, OperationStep, Statuses, Finished
  <2>3. CASE Complete
    BY Zenon, <1>1, <2>1, <2>3, OperationMoves DEF Complete, DbAt, OperationStep, Statuses, Finished
  <2>4. CASE RecordFailure
    BY Zenon, <1>1, <2>1, <2>4, OperationMoves DEF RecordFailure, DbAt, OperationStep
  <2> QED BY <1>8, <2>1, <2>2, <2>3, <2>4
<1>9. \/ \E s \in Slots, o \in Deletes, d \in Dbs, now \in BOOLEAN : RequestDelete(s, o, d, now)
      \/ \E s \in Slots, o \in Deletes : Approve(s, o) \/ Execute(s, o)
      \/ ApproveNow \/ ExecuteNow \/ Checkpoint \/ Complete \/ RecordFailure
  BY Zenon DEF DbNext, DeleteStep, Arrive, PlanOnly, CreateReserve, Rotate, Update, Provision,
       ProvisionFails, WriteSecret, WriteRecord, Activate, RotateLive, RotateFails, RotateSecret,
       RotateRecord, DropDatabase, DropFails, Cleanup, CleanupFails, RemoveSecret, RemoveRecord,
       RemoveBinding, LateDrop, DbWriteFails, DbRestart, fileVars
<1> QED BY <1>4, <1>5, <1>6, <1>7, <1>8, <1>9

\* Types of the server, the files and the histories.
WorldTypeOK ==
    /\ liveApply \in BOOLEAN /\ record \in [Dbs -> BOOLEAN] /\ owned \in [Dbs -> BOOLEAN]
    /\ lateDrop \in [Dbs -> Deletes \cup {NoDelete}]
    /\ secrets \in Passwords /\ drops \in [Deletes -> SUBSET Passwords] /\ revived \subseteq Dbs
    /\ binding \in [Dbs -> {"none", "reserved", "active"}]
    /\ role \in [Dbs -> Passwords] /\ liveDb \in [Dbs -> Passwords] /\ secretFile \in [Dbs -> Passwords]
    /\ \A d \in Dbs : owned[d] => liveDb[d] # 0

\* Registry, files and engines keep their types.
LEMMA WorldTyped ==
  ASSUME DatabaseInv, DbNext
  PROVE  WorldTypeOK'
<1> USE DatabaseConstants DEF WorldTypeOK, DbAt, DbGoto, End, DbFault, engineVars, fileVars,
    Passwords, Creating, Rotating, Deciding, Cleaning, Deleting
<1>a. WorldTypeOK /\ handler \in Handlers
  BY DEF DatabaseInv, HandlerTypeOK, DbTypeOK, WorldTypeOK, Passwords
<1>b. /\ handler.at # "idle" => handler.db \in Dbs
      /\ handler.at \in Deleting => handler.delete \in Deletes
      /\ handler.at \in Creating \cup Rotating => handler.secret # 0
  BY DEF DatabaseInv, CreatingOK, DeletingOK
<1>c. handler.secret \in Passwords
  BY <1>a DEF Handlers
<1>1. ASSUME NEW s \in Slots, Arrive(s) PROVE WorldTypeOK'
  BY <1>1, <1>a, <1>b, <1>c DEF Arrive
<1>2. ASSUME NEW s \in Slots, PlanOnly(s) PROVE WorldTypeOK'
  BY <1>2, <1>a, <1>b, <1>c DEF PlanOnly, Enter
<1>3. ASSUME NEW s \in Slots, NEW d \in Dbs, CreateReserve(s, d) PROVE WorldTypeOK'
  BY <1>3, <1>a, <1>b, <1>c DEF CreateReserve, Enter
<1>4. ASSUME NEW s \in Slots, NEW d \in Dbs, Rotate(s, d) PROVE WorldTypeOK'
  BY <1>4, <1>a, <1>b, <1>c DEF Rotate, Enter
<1>5. ASSUME NEW s \in Slots, NEW d \in Dbs, Update(s, d) PROVE WorldTypeOK'
  BY <1>5, <1>a, <1>b, <1>c DEF Update, Enter
<1>6. ASSUME NEW s \in Slots, NEW o \in Deletes, Approve(s, o) PROVE WorldTypeOK'
  BY <1>6, <1>a, <1>b, <1>c DEF Approve, Enter, Approvable, Approved
<1>7. ASSUME NEW s \in Slots, NEW o \in Deletes, Execute(s, o) PROVE WorldTypeOK'
  BY <1>7, <1>a, <1>b, <1>c DEF Execute, Enter, Executable, Executing
<1>8. ASSUME NEW s \in Slots, NEW o \in Deletes, NEW d \in Dbs, NEW now \in BOOLEAN, RequestDelete(s, o, d, now) PROVE WorldTypeOK'
  BY <1>8, <1>a, <1>b, <1>c DEF RequestDelete, Enter, Requested, Unrequested
<1>9. CASE Provision
  <2>1. CASE liveApply /\ CreateAllowed(handler.db)
    BY Zenon, <1>9, <2>1, <1>a, <1>b, <1>c DEF Provision
  <2>2. CASE ~(liveApply /\ CreateAllowed(handler.db))
    BY <1>9, <2>2, <1>a DEF Provision
  <2> QED BY <2>1, <2>2
<1>10. CASE ProvisionFails
  BY <1>10, <1>a, <1>b, <1>c DEF ProvisionFails, CreateAllowed
<1>11. CASE WriteSecret
  BY <1>11, <1>a, <1>b, <1>c DEF WriteSecret
<1>12. CASE WriteRecord
  BY <1>12, <1>a, <1>b, <1>c DEF WriteRecord
<1>13. CASE Activate
  BY <1>13, <1>a, <1>b, <1>c DEF Activate
<1>14. CASE RotateLive
  <2>1. CASE liveApply /\ CreateAllowed(handler.db)
    BY Zenon, <1>14, <2>1, <1>a, <1>b, <1>c DEF RotateLive
  <2>2. CASE liveApply /\ ~CreateAllowed(handler.db) /\ Owns(handler.db)
    BY <1>14, <2>2, <1>a, <1>b, <1>c DEF RotateLive
  <2>3. CASE ~liveApply \/ (~CreateAllowed(handler.db) /\ ~Owns(handler.db))
    BY <1>14, <2>3, <1>a DEF RotateLive
  <2> QED BY <2>1, <2>2, <2>3
<1>15. CASE RotateFails
  BY <1>15, <1>a, <1>b, <1>c DEF RotateFails
<1>16. CASE RotateSecret
  BY <1>16, <1>a, <1>b, <1>c DEF RotateSecret
<1>17. CASE RotateRecord
  BY <1>17, <1>a, <1>b, <1>c DEF RotateRecord
<1>18. CASE ApproveNow
  BY <1>18, <1>a, <1>b, <1>c DEF ApproveNow, Approvable, Approved
<1>19. CASE ExecuteNow
  BY <1>19, <1>a, <1>b, <1>c DEF ExecuteNow, Executable, Executing
<1>20. CASE DropDatabase
  <2>1. CASE Owns(handler.db)
    <3>1. Dropped(handler.db, handler.delete) /\ handler.db \in Dbs /\ handler.delete \in Deletes
      BY <1>20, <2>1, <1>b DEF DropDatabase
    <3> QED BY <1>20, <1>a, <3>1, DropTakes DEF DropDatabase, DatabaseInv
  <2>2. CASE ~Owns(handler.db)
    BY <1>20, <2>2, <1>a DEF DropDatabase
  <2> QED BY <2>1, <2>2
<1>21. CASE DropFails
  <2>1. handler.db \in Dbs /\ handler.delete \in Deletes
    BY <1>21, <1>b DEF DropFails
  <2>2. CASE Dropped(handler.db, handler.delete)
    BY <1>21, <1>a, <2>1, <2>2, DropTakes DEF DropFails, DatabaseInv
  <2>3. CASE ~Dropped(handler.db, handler.delete)
    BY <1>21, <1>a, <2>1, <2>3 DEF DropFails
  <2> QED BY <2>2, <2>3
<1>22. CASE Checkpoint
  BY <1>22, <1>a, <1>b, <1>c DEF Checkpoint
<1>23. CASE Cleanup
  BY <1>23, <1>a, <1>b, <1>c DEF Cleanup, CleanupAllowed
<1>24. CASE CleanupFails
  BY <1>24, <1>a, <1>b, <1>c DEF CleanupFails, CleanupAllowed
<1>25. CASE RemoveSecret
  BY <1>25, <1>a, <1>b, <1>c DEF RemoveSecret
<1>26. CASE RemoveRecord
  BY <1>26, <1>a, <1>b, <1>c DEF RemoveRecord
<1>27. CASE RemoveBinding
  BY <1>27, <1>a, <1>b, <1>c DEF RemoveBinding
<1>28. CASE Complete
  BY <1>28, <1>a, <1>b, <1>c DEF Complete
<1>29. CASE RecordFailure
  BY <1>29, <1>a, <1>b, <1>c DEF RecordFailure, FailureStatus
<1>30. ASSUME NEW d \in Dbs, LateDrop(d) PROVE WorldTypeOK'
  <2>1. Dropped(d, lateDrop[d]) /\ lateDrop[d] \in Deletes
    BY <1>30, <1>a DEF LateDrop
  <2> QED BY <1>30, <1>a, <2>1, DropTakes DEF LateDrop, DatabaseInv
<1>31. CASE DbWriteFails
  BY <1>31, <1>a, <1>b, <1>c DEF DbWriteFails, InCatch, OtherWrites
<1>32. CASE DbRestart
  BY <1>32, <1>a, <1>b, <1>c DEF DbRestart
<1> QED BY <1>1, <1>2, <1>3, <1>4, <1>5, <1>6, <1>7, <1>8, <1>9, <1>10, <1>11, <1>12, <1>13,
    <1>14, <1>15, <1>16, <1>17, <1>18, <1>19, <1>20, <1>21, <1>22, <1>23, <1>24, <1>25, <1>26,
    <1>27, <1>28, <1>29, <1>30, <1>31, <1>32 DEF DbNext, DeleteStep

\* What the requests in flight read of the registry keeps its type.
LEMMA KnownTyped ==
  ASSUME DatabaseInv, DbNext
  PROVE  known' \in [Slots -> [busy : BOOLEAN, dbs : SUBSET Dbs]]
<1>1. Free \in [busy : BOOLEAN, dbs : SUBSET Dbs]
  BY DEF Free
<1>2. known \in [Slots -> [busy : BOOLEAN, dbs : SUBSET Dbs]]
  BY DEF DatabaseInv, HandlerTypeOK
<1>3. ASSUME NEW s \in Slots, Arrive(s) PROVE known' \in [Slots -> [busy : BOOLEAN, dbs : SUBSET Dbs]]
  <2>1. [busy |-> TRUE, dbs |-> {d \in Dbs : record[d]}] \in [busy : BOOLEAN, dbs : SUBSET Dbs]
    OBVIOUS
  <2> QED BY <1>3, <1>2, <2>1 DEF Arrive
<1>4. ASSUME NEW s \in Slots, PlanOnly(s) PROVE known' \in [Slots -> [busy : BOOLEAN, dbs : SUBSET Dbs]]
  BY <1>4, <1>1, <1>2 DEF PlanOnly, Enter
<1>5. ASSUME NEW s \in Slots, NEW d \in Dbs, CreateReserve(s, d) PROVE known' \in [Slots -> [busy : BOOLEAN, dbs : SUBSET Dbs]]
  BY <1>5, <1>1, <1>2 DEF CreateReserve, Enter
<1>6. ASSUME NEW s \in Slots, NEW d \in Dbs, Rotate(s, d) PROVE known' \in [Slots -> [busy : BOOLEAN, dbs : SUBSET Dbs]]
  BY <1>6, <1>1, <1>2 DEF Rotate, Enter
<1>7. ASSUME NEW s \in Slots, NEW d \in Dbs, Update(s, d) PROVE known' \in [Slots -> [busy : BOOLEAN, dbs : SUBSET Dbs]]
  BY <1>7, <1>1, <1>2 DEF Update, Enter
<1>8. ASSUME NEW s \in Slots, NEW o \in Deletes, Approve(s, o) PROVE known' \in [Slots -> [busy : BOOLEAN, dbs : SUBSET Dbs]]
  BY <1>8, <1>1, <1>2 DEF Approve, Enter, Approvable, Approved
<1>9. ASSUME NEW s \in Slots, NEW o \in Deletes, Execute(s, o) PROVE known' \in [Slots -> [busy : BOOLEAN, dbs : SUBSET Dbs]]
  BY <1>9, <1>1, <1>2 DEF Execute, Enter, Executable, Executing
<1>10. ASSUME NEW s \in Slots, NEW o \in Deletes, NEW d \in Dbs, NEW now \in BOOLEAN, RequestDelete(s, o, d, now) PROVE known' \in [Slots -> [busy : BOOLEAN, dbs : SUBSET Dbs]]
  BY <1>10, <1>1, <1>2 DEF RequestDelete, Enter, Requested, Unrequested
<1>11. CASE DbRestart
  BY <1>11, <1>1, <1>2 DEF DbRestart
<1>12. CASE ~((\E s \in Slots : Arrive(s)) \/ (\E s \in Slots : PlanOnly(s)) \/ (\E s \in Slots, d \in
            Dbs : CreateReserve(s, d)) \/ (\E s \in Slots, d \in Dbs : Rotate(s, d)) \/ (\E s \in Slots, d
            \in Dbs : Update(s, d)) \/ (\E s \in Slots, o \in Deletes : Approve(s, o)) \/ (\E s \in Slots,
            o \in Deletes : Execute(s, o)) \/ (\E s \in Slots, o \in Deletes, d \in Dbs, now \in BOOLEAN :
            RequestDelete(s, o, d, now)) \/ DbRestart)
  <2>1. UNCHANGED known
    BY <1>12, Zenon DEF DbNext, DeleteStep, engineVars, fileVars, Provision, ProvisionFails,
        WriteSecret, WriteRecord, Activate, RotateLive, RotateFails, RotateSecret, RotateRecord,
        ApproveNow, ExecuteNow, DropDatabase, DropFails, Checkpoint, Cleanup, CleanupFails,
        RemoveSecret, RemoveRecord, RemoveBinding, Complete, RecordFailure, LateDrop, DbWriteFails
  <2> QED BY <2>1, <1>2
<1> QED BY <1>3, <1>4, <1>5, <1>6, <1>7, <1>8, <1>9, <1>10, <1>11, <1>12 DEF DbNext, DeleteStep

\* Every step keeps the types.
LEMMA TypeStep ==
  ASSUME DatabaseInv, DbNext
  PROVE  DbTypeOK' /\ HandlerTypeOK'
<1>1. deletion' \in [Deletes -> Operations]
  BY DeletionStep DEF DatabaseInv, HandlerTypeOK, OperationStep
<1> QED BY <1>1, JobTyped, KnownTyped, WorldTyped
        DEF DbTypeOK, HandlerTypeOK, WorldTypeOK, Passwords, Operations, Statuses, Finished

\* No step leaves a principal, or a live database, without its binding.
LEMMA PrincipalsStep ==
  ASSUME DatabaseInv, HandlerTypeOK', DbTypeOK', DbNext
  PROVE  PrincipalsBound'
<1> USE DatabaseConstants DEF DbAt, DbGoto, End, engineVars, fileVars, Creating, Rotating,
    Deciding, Cleaning, Deleting, PrincipalsBound
<1>1. PrincipalsBound /\ CreatingOK /\ DeletingOK /\ DbTypeOK /\ HandlerTypeOK
  BY DEF DatabaseInv
<1>2. record \in [Dbs -> BOOLEAN] /\ revived \subseteq Dbs
  BY DEF DatabaseInv, HandlerTypeOK
<1>3. ASSUME NEW s \in Slots, NEW d \in Dbs, CreateReserve(s, d) PROVE PrincipalsBound'
  BY <1>3, <1>1, <1>2 DEF CreateReserve, Enter, CreatingOK, DeletingOK, DbTypeOK
<1>4. ASSUME NEW s \in Slots, NEW d \in Dbs, Update(s, d) PROVE PrincipalsBound'
  BY <1>4, <1>1, <1>2 DEF Update, Enter, CreatingOK, DeletingOK, DbTypeOK
<1>5. CASE Provision
  BY <1>5, <1>1, <1>2 DEF Provision, CreateAllowed, CreatingOK, DeletingOK, DbTypeOK
<1>6. CASE ProvisionFails
  BY <1>6, <1>1, <1>2 DEF ProvisionFails, CreateAllowed, CreatingOK, DeletingOK, DbTypeOK
<1>7. CASE WriteRecord
  BY <1>7, <1>1, <1>2 DEF WriteRecord, CreatingOK, DeletingOK, DbTypeOK
<1>8. CASE Activate
  BY <1>8, <1>1, <1>2 DEF Activate, CreatingOK, DeletingOK, DbTypeOK
<1>9. CASE RotateLive
  BY <1>9, <1>1, <1>2 DEF RotateLive, CreateAllowed, Owns, CreatingOK, DeletingOK, DbTypeOK
<1>10. CASE RotateFails
  BY <1>10, <1>1, <1>2 DEF RotateFails, Owns, CreatingOK, DeletingOK, DbTypeOK
<1>11. CASE RotateRecord
  BY <1>11, <1>1, <1>2 DEF RotateRecord, CreatingOK, DeletingOK, DbTypeOK
<1>12. CASE DropDatabase
  BY <1>12, <1>1, <1>2 DEF DropDatabase, Dropped, Owns, CreatingOK, DeletingOK, DbTypeOK
<1>13. CASE DropFails
  BY <1>13, <1>1, <1>2 DEF DropFails, Dropped, Owns, CreatingOK, DeletingOK, DbTypeOK
<1>14. CASE Cleanup
  BY <1>14, <1>1, <1>2 DEF Cleanup, CleanupAllowed, CreatingOK, DeletingOK, DbTypeOK
<1>15. CASE CleanupFails
  BY <1>15, <1>1, <1>2 DEF CleanupFails, CleanupAllowed, CreatingOK, DeletingOK, DbTypeOK
<1>16. CASE RemoveRecord
  BY <1>16, <1>1, <1>2 DEF RemoveRecord, CreatingOK, DeletingOK, DbTypeOK
<1>17. CASE RemoveBinding
  BY <1>17, <1>1, <1>2 DEF RemoveBinding, CreatingOK, DeletingOK, DbTypeOK
<1>18. ASSUME NEW d \in Dbs, LateDrop(d) PROVE PrincipalsBound'
  BY <1>18, <1>1, <1>2 DEF LateDrop, Dropped, CreatingOK, DeletingOK, DbTypeOK
<1>19. CASE ~((\E s \in Slots, d \in Dbs : CreateReserve(s, d)) \/ (\E s \in Slots, d \in Dbs : Update(s,
            d)) \/ Provision \/ ProvisionFails \/ WriteRecord \/ Activate \/ RotateLive \/ RotateFails \/
            RotateRecord \/ DropDatabase \/ DropFails \/ Cleanup \/ CleanupFails \/ RemoveRecord \/
            RemoveBinding \/ (\E d \in Dbs : LateDrop(d)))
  <2>1. UNCHANGED <<record, binding, role, liveDb, revived>>
    BY <1>19, Zenon DEF DbNext, DeleteStep, engineVars, fileVars, Arrive, PlanOnly, Rotate,
        Approve, Execute, RequestDelete, WriteSecret, RotateSecret, ApproveNow, ExecuteNow,
        Checkpoint, RemoveSecret, Complete, RecordFailure, DbWriteFails, DbRestart
  <2> QED BY <2>1, <1>1
<1> QED BY <1>3, <1>4, <1>5, <1>6, <1>7, <1>8, <1>9, <1>10, <1>11, <1>12, <1>13, <1>14,
       <1>15, <1>16, <1>17, <1>18, <1>19 DEF DbNext, DeleteStep

\* A registered database is gone only while the operation that took it is open.
LEMMA LossStep ==
  ASSUME DatabaseInv, HandlerTypeOK', DbTypeOK', DbNext
  PROVE  LossIsAccounted'
<1> USE DatabaseConstants DEF DbAt, DbGoto, End, engineVars, fileVars, DbTypeOK
<1>1. /\ DbTypeOK /\ HandlerTypeOK /\ CreatingOK /\ DeletingOK /\ LateOK /\ SpentOK /\ LossIsAccounted
  BY DEF DatabaseInv
<1>2. handler.at # "idle" => handler.db \in Dbs
  BY DEF DatabaseInv, CreatingOK
<1>3. CASE deletion' # deletion
  <2>1. PICK o \in Deletes : OperationStep(o)
    BY <1>3, DeletionStep
  <2>2. UNCHANGED <<binding, liveDb>>
    BY <1>3, DeletionStep DEF engineVars
  <2>3. SUFFICES ASSUME NEW d \in Dbs, binding[d] = "active", liveDb[d] = 0
                 PROVE  Accounted(d)'
    BY <2>2 DEF LossIsAccounted, Accounted
  <2>4. PICK p \in Deletes : deletion[p].db = d /\ deletion[p].tried /\ deletion[p].status # "completed"
    BY <1>1, <2>3 DEF LossIsAccounted
  <2>5. CASE p # o
    BY <2>1, <2>4, <2>5 DEF OperationStep, Accounted
  <2>6. CASE p = o
    <3>1. deletion[o].status # "none"
      BY <1>1, <2>4, <2>6 DEF SpentOK
    <3>2. ~(handler.at = "complete" /\ handler.delete = o)
      BY <1>1, <2>3, <2>4, <2>6 DEF DeletingOK, Deleting, Cleaning
    <3>3. deletion'[o].db = d /\ deletion'[o].tried /\ deletion'[o].status # "completed"
      BY <2>1, <2>4, <2>6, <3>1, <3>2 DEF OperationStep, FailureStatus
    <3> QED BY <3>3 DEF Accounted
  <2> QED BY <2>5, <2>6
<1>4. SUFFICES ASSUME deletion' = deletion PROVE LossIsAccounted'
  BY <1>3
<1>5. ASSUME NEW s \in Slots, NEW d \in Dbs, CreateReserve(s, d) PROVE LossIsAccounted'
  BY <1>5, <1>1, <1>2, <1>4 DEF CreateReserve, Enter, LossIsAccounted, CreatingOK,
      DeletingOK, LateOK, Accounted, Creating, Rotating, Deciding, Cleaning, Deleting
<1>6. CASE Provision
  BY <1>6, <1>1, <1>2, <1>4 DEF Provision, CreateAllowed, LossIsAccounted, CreatingOK,
      DeletingOK, LateOK, Accounted, Creating, Rotating, Deciding, Cleaning, Deleting
<1>7. CASE ProvisionFails
  BY <1>7, <1>1, <1>2, <1>4 DEF ProvisionFails, CreateAllowed, LossIsAccounted, CreatingOK,
      DeletingOK, LateOK, Accounted, Creating, Rotating, Deciding, Cleaning, Deleting
<1>8. CASE Activate
  BY <1>8, <1>1, <1>2, <1>4 DEF Activate, LossIsAccounted, CreatingOK, DeletingOK, LateOK,
      Accounted, Creating, Rotating, Deciding, Cleaning, Deleting
<1>9. CASE RotateLive
  BY <1>9, <1>1, <1>2, <1>4 DEF RotateLive, CreateAllowed, Owns, LossIsAccounted, CreatingOK,
      DeletingOK, LateOK, Accounted, Creating, Rotating, Deciding, Cleaning, Deleting
<1>10. CASE DropDatabase
  BY <1>10, <1>1, <1>2, <1>4 DEF DropDatabase, Dropped, Owns, LossIsAccounted, CreatingOK,
      DeletingOK, LateOK, Accounted, Creating, Rotating, Deciding, Cleaning, Deleting
<1>11. CASE DropFails
  BY <1>11, <1>1, <1>2, <1>4 DEF DropFails, Dropped, Owns, LossIsAccounted, CreatingOK,
      DeletingOK, LateOK, Accounted, Creating, Rotating, Deciding, Cleaning, Deleting
<1>12. CASE RemoveBinding
  BY <1>12, <1>1, <1>2, <1>4 DEF RemoveBinding, LossIsAccounted, CreatingOK, DeletingOK,
      LateOK, Accounted, Creating, Rotating, Deciding, Cleaning, Deleting
<1>13. ASSUME NEW d \in Dbs, LateDrop(d) PROVE LossIsAccounted'
  <2>1. lateDrop[d] \in Deletes /\ Accounted(d)
    BY <1>13, <1>1 DEF LateDrop, LateOK, HandlerTypeOK, Accounted, Finished
  <2>2. Accounted(d)'
    BY <1>4, <2>1 DEF Accounted
  <2>3. \A c \in Dbs \ {d} : liveDb'[c] = liveDb[c]
    BY <1>13, <1>1, <2>1, DropTakes DEF LateDrop
  <2>4. binding' = binding
    BY <1>13 DEF LateDrop, fileVars
  <2> QED BY <1>1, <1>4, <2>2, <2>3, <2>4 DEF LossIsAccounted, Accounted
<1>14. CASE ~((\E s \in Slots, d \in Dbs : CreateReserve(s, d)) \/ Provision \/ ProvisionFails \/
            Activate \/ RotateLive \/ DropDatabase \/ DropFails \/ RemoveBinding \/ (\E d \in Dbs :
            LateDrop(d)))
  <2>1. UNCHANGED <<binding, liveDb>>
    BY <1>14, ZenonT(60) DEF DbNext, DeleteStep, engineVars, fileVars, Arrive, PlanOnly, Rotate,
        Update, Approve, Execute, RequestDelete, WriteSecret, WriteRecord, RotateFails,
        RotateSecret, RotateRecord, ApproveNow, ExecuteNow, Checkpoint, Cleanup, CleanupFails,
        RemoveSecret, RemoveRecord, Complete, RecordFailure, DbWriteFails, DbRestart
  <2> QED BY <2>1, <1>1, <1>4 DEF LossIsAccounted
<1> QED BY <1>5, <1>6, <1>7, <1>8, <1>9, <1>10, <1>11, <1>12, <1>13, <1>14 DEF DbNext, DeleteStep

\* A DROP that outlives its command keeps its operation open and its binding active.
LEMMA LateStep ==
  ASSUME DatabaseInv, HandlerTypeOK', DbTypeOK', DbNext
  PROVE  LateOK'
<1> USE DatabaseConstants DEF DbAt, DbGoto, End, engineVars, fileVars, DbTypeOK, HandlerTypeOK
<1>1. /\ DbTypeOK /\ HandlerTypeOK /\ CreatingOK /\ DeletingOK /\ LateOK /\ SpentOK /\ LossIsAccounted
  BY DEF DatabaseInv
<1>2. handler.at # "idle" => handler.db \in Dbs
  BY DEF DatabaseInv, CreatingOK
<1>3. CASE deletion' # deletion
  <2>1. PICK o \in Deletes : OperationStep(o)
    BY <1>3, DeletionStep
  <2>2. UNCHANGED <<binding, lateDrop>>
    BY <1>3, DeletionStep DEF engineVars
  <2>3. SUFFICES ASSUME NEW d \in Dbs, lateDrop[d] = o
                 PROVE  deletion'[o].db = d /\ deletion'[o].tried /\ deletion'[o].status \notin Finished
    BY <1>1, <2>1, <2>2 DEF LateOK, OperationStep
  <2>4. deletion[o].db = d /\ deletion[o].tried /\ deletion[o].status \notin Finished
    BY <1>1, <2>3 DEF LateOK
  <2>5. deletion[o].status # "none"
    BY <1>1, <2>4 DEF SpentOK
  <2>6. ~(handler.delete = o /\ handler.at \in {"checkpoint", "complete"})
    BY <1>1, <2>3, <2>4 DEF DeletingOK, Deleting, Cleaning
  <2>7. ~(handler.delete = o /\ handler.at = "fail" /\ handler.dropped)
    BY <1>1, <2>3, <2>4 DEF DeletingOK, Deleting
  <2> QED BY Zenon, <2>1, <2>4, <2>5, <2>6, <2>7 DEF OperationStep, FailureStatus, Finished
<1>4. SUFFICES ASSUME deletion' = deletion PROVE LateOK'
  BY <1>3
<1>5. ASSUME NEW s \in Slots, NEW d \in Dbs, CreateReserve(s, d) PROVE LateOK'
  BY <1>5, <1>1, <1>2, <1>4 DEF CreateReserve, Enter, CreatingOK, DeletingOK, LateOK,
      Creating, Rotating, Deciding, Cleaning, Deleting, Finished
<1>6. CASE Activate
  BY <1>6, <1>1, <1>2, <1>4 DEF Activate, CreatingOK, DeletingOK, LateOK, Creating, Rotating,
      Deciding, Cleaning, Deleting, Finished
<1>7. CASE DropFails
  BY <1>7, <1>1, <1>2, <1>4 DEF DropFails, Dropped, Owns, CreatingOK, DeletingOK, LateOK,
      Creating, Rotating, Deciding, Cleaning, Deleting, Finished
<1>8. CASE RemoveBinding
  BY <1>8, <1>1, <1>2, <1>4 DEF RemoveBinding, CreatingOK, DeletingOK, LateOK, Creating,
      Rotating, Deciding, Cleaning, Deleting, Finished
<1>9. ASSUME NEW d \in Dbs, LateDrop(d) PROVE LateOK'
  BY <1>9, <1>1, <1>2, <1>4 DEF LateDrop, Dropped, CreatingOK, DeletingOK, LateOK, Creating,
      Rotating, Deciding, Cleaning, Deleting, Finished
<1>10. CASE ~((\E s \in Slots, d \in Dbs : CreateReserve(s, d)) \/ Activate \/ RemoveBinding \/ DropFails
            \/ (\E d \in Dbs : LateDrop(d)))
  <2>1. UNCHANGED <<binding, lateDrop>>
    BY <1>10, Zenon DEF DbNext, DeleteStep, engineVars, fileVars, Arrive, PlanOnly, Rotate,
        Update, Approve, Execute, RequestDelete, Provision, ProvisionFails, WriteSecret,
        WriteRecord, RotateLive, RotateFails, RotateSecret, RotateRecord, ApproveNow, ExecuteNow,
        DropDatabase, Checkpoint, Cleanup, CleanupFails, RemoveSecret, RemoveRecord, Complete,
        RecordFailure, DbWriteFails, DbRestart
  <2> QED BY <2>1, <1>1, <1>4 DEF LateOK, HandlerTypeOK
<1> QED BY <1>5, <1>6, <1>7, <1>8, <1>9, <1>10 DEF DbNext, DeleteStep

\* A DROP leaves every operation that took a database unable to take another.
LEMMA SpentDrop ==
  ASSUME DatabaseInv, NEW d \in Dbs, NEW o \in Deletes, Dropped(d, o),
         deletion[o].db = d, deletion[o].status # "none", binding[d] = "active",
         UNCHANGED <<deletion, binding>>
  PROVE  SpentOK'
<1>1. SpentOK /\ HandlerTypeOK /\ DbTypeOK
  BY DEF DatabaseInv
<1>2. /\ liveDb'[d] = 0 /\ \A c \in Dbs \ {d} : liveDb'[c] = liveDb[c]
      /\ drops'[o] = drops[o] \cup {liveDb[d]}
      /\ \A p \in Deletes \ {o} : drops'[p] = drops[p]
  BY <1>1, DropTakes
<1>3. ASSUME NEW p \in Deletes, Took(p)' # {}
      PROVE  /\ deletion[p].status # "none"
             /\ \/ deletion[p].status \in Finished
                \/ binding[deletion[p].db] = "active" /\ liveDb'[deletion[p].db] = 0
  <2>1. CASE p = o
    BY <1>2, <2>1
  <2>2. CASE p # o
    <3>1. Took(p) # {}
      BY <1>2, <1>3, <2>2 DEF Took
    <3> QED BY <1>1, <1>2, <3>1 DEF SpentOK
  <2> QED BY <2>1, <2>2
<1>4. ASSUME NEW p \in Deletes, deletion[p].status # "none", deletion[p].of # 0
      PROVE  liveDb'[deletion[p].db] = deletion[p].of \/ \E q \in Deletes : deletion[p].of \in drops'[q]
  <2>1. CASE \E q \in Deletes : deletion[p].of \in drops[q]
    BY <1>2, <2>1
  <2>2. CASE liveDb[deletion[p].db] = deletion[p].of
    BY <1>1, <1>2, <1>4, <2>2 DEF SpentOK
  <2> QED BY <1>1, <1>4, <2>1, <2>2 DEF SpentOK
<1> QED BY <1>1, <1>3, <1>4 DEF SpentOK

\* No step lets an operation that took a database take another.
LEMMA SpentStep ==
  ASSUME DatabaseInv, HandlerTypeOK', DbTypeOK', DbNext
  PROVE  SpentOK'
<1> USE DatabaseConstants DEF DbAt, DbGoto, End, engineVars, fileVars, DbTypeOK, HandlerTypeOK
<1>1. /\ DbTypeOK /\ HandlerTypeOK /\ CreatingOK /\ DeletingOK /\ LateOK /\ SpentOK /\ LossIsAccounted
  BY DEF DatabaseInv
<1>2. handler.at # "idle" => handler.db \in Dbs
  BY DEF DatabaseInv, CreatingOK
<1>3. CASE deletion' # deletion
  <2>1. PICK o \in Deletes : OperationStep(o)
    BY <1>3, DeletionStep
  <2>2. UNCHANGED <<binding, liveDb, drops>>
    BY <1>3, DeletionStep DEF engineVars
  <2>3. \A p \in Deletes : Took(p)' = Took(p)
    BY <2>2 DEF Took
  <2>4. CASE deletion[o].status = "none"
    <3>1. Took(o) = {} /\ deletion'[o].db \in Dbs /\ deletion'[o].of = liveDb[deletion'[o].db]
          /\ deletion'[o].status = "evidence-verified" /\ ~deletion'[o].tried
      BY <1>1, <2>1, <2>4 DEF OperationStep, SpentOK, DeletingOK, Deleting, Cleaning, FailureStatus
    <3> QED BY <1>1, <2>1, <2>2, <2>3, <3>1 DEF OperationStep, SpentOK
  <2>5. CASE deletion[o].status # "none"
    <3>1. /\ deletion'[o].db = deletion[o].db /\ deletion'[o].of = deletion[o].of
          /\ deletion'[o].status # "none"
          /\ deletion[o].status \in Finished => deletion'[o].status \in Finished
      BY <1>1, <2>1, <2>5 DEF OperationStep, FailureStatus, DeletingOK, Deleting, Finished
    <3> QED BY <1>1, <2>1, <2>2, <2>3, <2>5, <3>1 DEF OperationStep, SpentOK
  <2> QED BY <2>4, <2>5
<1>4. SUFFICES ASSUME deletion' = deletion PROVE SpentOK'
  BY <1>3
<1>5. ASSUME NEW s \in Slots, NEW d \in Dbs, CreateReserve(s, d) PROVE SpentOK'
  BY <1>5, <1>1, <1>2, <1>4 DEF CreateReserve, Enter, SpentOK, CreatingOK, DeletingOK,
      LateOK, Took, Creating, Rotating, Deciding, Cleaning, Deleting, Finished
<1>6. CASE Provision
  BY <1>6, <1>1, <1>2, <1>4 DEF Provision, CreateAllowed, SpentOK, CreatingOK, DeletingOK,
      LateOK, Took, Creating, Rotating, Deciding, Cleaning, Deleting, Finished
<1>7. CASE ProvisionFails
  BY <1>7, <1>1, <1>2, <1>4 DEF ProvisionFails, CreateAllowed, SpentOK, CreatingOK,
      DeletingOK, LateOK, Took, Creating, Rotating, Deciding, Cleaning, Deleting, Finished
<1>8. CASE Activate
  BY <1>8, <1>1, <1>2, <1>4 DEF Activate, SpentOK, CreatingOK, DeletingOK, LateOK, Took,
      Creating, Rotating, Deciding, Cleaning, Deleting, Finished
<1>9. CASE RotateLive
  BY <1>9, <1>1, <1>2, <1>4 DEF RotateLive, CreateAllowed, Owns, SpentOK, CreatingOK,
      DeletingOK, LateOK, Took, Creating, Rotating, Deciding, Cleaning, Deleting, Finished
<1>10. CASE DropDatabase
  <2>1. CASE Owns(handler.db)
    <3>1. /\ handler.db \in Dbs /\ handler.delete \in Deletes /\ Dropped(handler.db, handler.delete)
          /\ deletion[handler.delete].db = handler.db /\ deletion[handler.delete].status = "executing"
          /\ binding[handler.db] = "active" /\ UNCHANGED binding
      BY <1>10, <2>1, <1>1, <1>2 DEF DropDatabase, DeletingOK, Deleting, Owns
    <3> QED BY <1>4, <3>1, SpentDrop
  <2>2. CASE ~Owns(handler.db)
    <3>1. UNCHANGED <<binding, liveDb, drops>>
      BY <1>10, <2>2 DEF DropDatabase
    <3> QED BY <1>1, <1>4, <3>1 DEF SpentOK, Took
  <2> QED BY <2>1, <2>2
<1>11. CASE DropFails
  <2>1. CASE Dropped(handler.db, handler.delete)
    <3>1. /\ handler.db \in Dbs /\ handler.delete \in Deletes
          /\ deletion[handler.delete].db = handler.db /\ deletion[handler.delete].status = "executing"
          /\ binding[handler.db] = "active" /\ UNCHANGED binding
      BY <1>11, <2>1, <1>1, <1>2 DEF DropFails, DeletingOK, Deleting, Owns
    <3> QED BY <1>4, <2>1, <3>1, SpentDrop
  <2>2. CASE ~Dropped(handler.db, handler.delete)
    <3>1. UNCHANGED <<binding, liveDb, drops>>
      BY <1>11, <2>2 DEF DropFails
    <3> QED BY <1>1, <1>4, <3>1 DEF SpentOK, Took
  <2> QED BY <2>1, <2>2
<1>12. CASE RemoveBinding
  BY <1>12, <1>1, <1>2, <1>4 DEF RemoveBinding, SpentOK, CreatingOK, DeletingOK, LateOK, Took,
      Creating, Rotating, Deciding, Cleaning, Deleting, Finished
<1>13. ASSUME NEW d \in Dbs, LateDrop(d) PROVE SpentOK'
  <2>1. /\ lateDrop[d] \in Deletes /\ Dropped(d, lateDrop[d]) /\ binding[d] = "active"
        /\ deletion[lateDrop[d]].db = d /\ deletion[lateDrop[d]].status # "none"
        /\ UNCHANGED binding
    BY <1>13, <1>1 DEF LateDrop, LateOK, SpentOK
  <2> QED BY <1>4, <2>1, SpentDrop
<1>14. CASE ~((\E s \in Slots, d \in Dbs : CreateReserve(s, d)) \/ Provision \/ ProvisionFails \/
            Activate \/ RotateLive \/ DropDatabase \/ DropFails \/ RemoveBinding \/ (\E d \in Dbs :
            LateDrop(d)))
  <2>1. UNCHANGED <<binding, liveDb, drops>>
    BY <1>14, Zenon DEF DbNext, DeleteStep, engineVars, fileVars, Arrive, PlanOnly, Rotate,
        Update, Approve, Execute, RequestDelete, WriteSecret, WriteRecord, RotateFails,
        RotateSecret, RotateRecord, ApproveNow, ExecuteNow, Checkpoint, Cleanup, CleanupFails,
        RemoveSecret, RemoveRecord, Complete, RecordFailure, DbWriteFails, DbRestart
  <2> QED BY <2>1, <1>1, <1>4 DEF SpentOK, Took
<1> QED BY <1>5, <1>6, <1>7, <1>8, <1>9, <1>10, <1>11, <1>12, <1>13, <1>14 DEF DbNext, DeleteStep

\* A DROP of an operation that is not finished is the first that takes something.
LEMMA FirstDrop ==
  ASSUME DatabaseInv, NEW d \in Dbs, NEW o \in Deletes, Dropped(d, o),
         deletion[o].db = d, deletion[o].status \notin Finished \cup {"none"}, binding[d] = "active",
         UNCHANGED deletion
  PROVE  DropsItsOwn'
<1>1. SpentOK /\ HandlerTypeOK /\ DbTypeOK /\ DropsItsOwn
  BY DEF DatabaseInv
<1>2. /\ drops'[o] = drops[o] \cup {liveDb[d]}
      /\ \A p \in Deletes \ {o} : drops'[p] = drops[p]
  BY <1>1, DropTakes
<1>3. CASE liveDb[d] = 0
  <2>1. \A p \in Deletes : drops'[p] \ {0} = drops[p] \ {0}
    BY <1>2, <1>3
  <2>2. \A p \in Deletes : drops[p] \subseteq drops'[p]
    BY <1>2
  <2> QED BY <1>1, <2>1, <2>2 DEF DropsItsOwn
<1>4. CASE liveDb[d] # 0
  <2>1. drops[o] \ {0} = {}
    BY <1>1, <1>4 DEF SpentOK, Took
  <2>2. drops'[o] \ {0} = {liveDb[d]}
    BY <1>2, <1>4, <2>1
  <2>3. Cardinality(drops'[o] \ {0}) = 1
    BY Zenon, <2>2, FS_Singleton
  <2>4. ASSUME NEW p \in Deletes PROVE Cardinality(drops'[p] \ {0}) =< 1
    <3>1. CASE p = o
      BY <2>3, <3>1
    <3>2. CASE p # o
      BY <1>1, <1>2, <3>2 DEF DropsItsOwn
    <3> QED BY <3>1, <3>2
  <2>5. ASSUME NEW p \in Deletes, NEW x \in drops'[p] \ {0, deletion[p].of}, deletion[p].of # 0
        PROVE  \E q \in Deletes \ {p} : deletion[p].of \in drops'[q]
    <3>1. CASE p = o
      <4>1. x = liveDb[d] /\ liveDb[d] # deletion[o].of
        BY <2>2, <2>5, <3>1
      <4>2. PICK q \in Deletes : deletion[o].of \in drops[q]
        BY <1>1, <2>5, <3>1, <4>1 DEF SpentOK
      <4>3. q # o
        BY <2>1, <2>5, <3>1, <4>2
      <4> QED BY <1>2, <3>1, <4>2, <4>3
    <3>2. CASE p # o
      <4>1. PICK q \in Deletes \ {p} : deletion[p].of \in drops[q]
        BY Zenon, <1>1, <1>2, <2>5, <3>2 DEF DropsItsOwn
      <4>2. deletion[p].of \in drops'[q]
        BY <1>2, <4>1
      <4> QED BY <4>2
    <3> QED BY <3>1, <3>2
  <2> QED BY <2>4, <2>5 DEF DropsItsOwn
<1> QED BY <1>3, <1>4

\* No operation takes two live databases.
LEMMA DropsStep ==
  ASSUME DatabaseInv, HandlerTypeOK', DbTypeOK', DbNext
  PROVE  DropsItsOwn'
<1> USE DatabaseConstants DEF DbAt, DbGoto, End, engineVars, fileVars, DbTypeOK, HandlerTypeOK
<1>1. /\ DbTypeOK /\ HandlerTypeOK /\ CreatingOK /\ DeletingOK /\ LateOK /\ SpentOK /\ DropsItsOwn
  BY DEF DatabaseInv
<1>2. handler.at # "idle" => handler.db \in Dbs
  BY DEF DatabaseInv, CreatingOK
<1>3. CASE deletion' # deletion
  <2>1. PICK o \in Deletes : OperationStep(o)
    BY <1>3, DeletionStep
  <2>2. UNCHANGED drops
    BY <1>3, DeletionStep DEF engineVars
  <2>3. \A p \in Deletes : deletion'[p].of = deletion[p].of \/ drops[p] \ {0} = {}
    BY Zenon, <1>1, <2>1 DEF OperationStep, SpentOK, Took
  <2> QED BY Zenon, <1>1, <2>2, <2>3 DEF DropsItsOwn
<1>4. SUFFICES ASSUME deletion' = deletion PROVE DropsItsOwn'
  BY <1>3
<1>5. CASE DropDatabase
  <2>1. CASE Owns(handler.db)
    <3>1. /\ handler.db \in Dbs /\ handler.delete \in Deletes /\ Dropped(handler.db, handler.delete)
          /\ deletion[handler.delete].db = handler.db /\ deletion[handler.delete].status = "executing"
          /\ binding[handler.db] = "active"
      BY <1>5, <2>1, <1>1, <1>2 DEF DropDatabase, DeletingOK, Deleting, Owns
    <3>2. "executing" \notin Finished \cup {"none"}
      BY DEF Finished
    <3> QED BY <1>4, <3>1, <3>2, FirstDrop
  <2>2. CASE ~Owns(handler.db)
    <3>1. UNCHANGED drops
      BY <1>5, <2>2 DEF DropDatabase
    <3> QED BY Zenon, <1>1, <1>4, <3>1 DEF DropsItsOwn
  <2> QED BY <2>1, <2>2
<1>6. CASE DropFails
  <2>1. CASE Dropped(handler.db, handler.delete)
    <3>1. /\ handler.db \in Dbs /\ handler.delete \in Deletes
          /\ deletion[handler.delete].db = handler.db /\ deletion[handler.delete].status = "executing"
          /\ binding[handler.db] = "active"
      BY <1>6, <2>1, <1>1, <1>2 DEF DropFails, DeletingOK, Deleting, Owns
    <3>2. "executing" \notin Finished \cup {"none"}
      BY DEF Finished
    <3> QED BY <1>4, <2>1, <3>1, <3>2, FirstDrop
  <2>2. CASE ~Dropped(handler.db, handler.delete)
    <3>1. UNCHANGED drops
      BY <1>6, <2>2 DEF DropFails
    <3> QED BY Zenon, <1>1, <1>4, <3>1 DEF DropsItsOwn
  <2> QED BY <2>1, <2>2
<1>7. ASSUME NEW d \in Dbs, LateDrop(d) PROVE DropsItsOwn'
  <2>1. /\ lateDrop[d] \in Deletes /\ Dropped(d, lateDrop[d]) /\ binding[d] = "active"
        /\ deletion[lateDrop[d]].db = d /\ deletion[lateDrop[d]].status \notin Finished \cup {"none"}
    BY <1>7, <1>1 DEF LateDrop, LateOK, SpentOK
  <2> QED BY <1>4, <2>1, FirstDrop
<1>8. CASE ~(DropDatabase \/ DropFails \/ (\E d \in Dbs : LateDrop(d)))
  <2>1. UNCHANGED drops
    BY <1>8, ZenonT(60) DEF DbNext, DeleteStep, engineVars, fileVars, Arrive, PlanOnly,
        CreateReserve, Rotate, Update, Approve, Execute, RequestDelete, Provision, ProvisionFails,
        WriteSecret, WriteRecord, Activate, RotateLive, RotateFails, RotateSecret, RotateRecord,
        ApproveNow, ExecuteNow, Checkpoint, Cleanup, CleanupFails, RemoveSecret, RemoveRecord,
        RemoveBinding, Complete, RecordFailure, DbWriteFails, DbRestart
  <2> QED BY Zenon, <2>1, <1>1, <1>4 DEF DropsItsOwn
<1> QED BY <1>5, <1>6, <1>7, <1>8 DEF DbNext, DeleteStep

\* A handler always works on a database.
LEMMA HandlerDbStep ==
  ASSUME DatabaseInv, HandlerTypeOK', DbTypeOK', DbNext
  PROVE  (handler.at # "idle" => handler.db \in Dbs)'
<1> USE DatabaseConstants DEF DbAt, DbGoto, End, NoJob, Handlers
<1>1. /\ DbTypeOK /\ HandlerTypeOK /\ CreatingOK /\ DeletingOK /\ LateOK /\ SpentOK
  BY DEF DatabaseInv
<1>2. /\ handler \in Handlers /\ handler' \in Handlers
      /\ handler.at # "idle" => handler.db \in Dbs
  BY <1>1 DEF HandlerTypeOK, CreatingOK
<1>3. ASSUME NEW s \in Slots, Arrive(s) PROVE (handler.at # "idle" => handler.db \in Dbs)'
  BY <1>3, <1>2 DEF Arrive
<1>4. ASSUME NEW s \in Slots, PlanOnly(s) PROVE (handler.at # "idle" => handler.db \in Dbs)'
  BY <1>4, <1>2 DEF PlanOnly, Enter
<1>5. ASSUME NEW s \in Slots, NEW d \in Dbs, CreateReserve(s, d) PROVE (handler.at # "idle" => handler.db \in Dbs)'
  BY <1>5, <1>2 DEF CreateReserve, Enter
<1>6. ASSUME NEW s \in Slots, NEW d \in Dbs, Rotate(s, d) PROVE (handler.at # "idle" => handler.db \in Dbs)'
  BY <1>6, <1>2 DEF Rotate, Enter
<1>7. ASSUME NEW s \in Slots, NEW d \in Dbs, Update(s, d) PROVE (handler.at # "idle" => handler.db \in Dbs)'
  BY <1>7, <1>2 DEF Update, Enter
<1>8. ASSUME NEW s \in Slots, NEW o \in Deletes, Approve(s, o) PROVE (handler.at # "idle" => handler.db \in Dbs)'
  BY <1>8, <1>2 DEF Approve, Enter, Approvable, Approved
<1>9. ASSUME NEW s \in Slots, NEW o \in Deletes, Execute(s, o) PROVE (handler.at # "idle" => handler.db \in Dbs)'
  <2>1. deletion[o].db \in Dbs
    BY <1>9, <1>1 DEF Execute, Executable, SpentOK
  <2> QED BY <1>9, <1>1, <2>1, OperationExecutes DEF Execute
<1>10. ASSUME NEW s \in Slots, NEW o \in Deletes, NEW d \in Dbs, NEW now \in BOOLEAN, RequestDelete(s, o, d, now) PROVE (handler.at # "idle" => handler.db \in Dbs)'
  BY <1>10, <1>2 DEF RequestDelete, Enter, Requested, Unrequested
<1>11. CASE Provision
  BY <1>11, <1>2 DEF Provision, CreateAllowed
<1>12. CASE ProvisionFails
  BY <1>12, <1>2 DEF ProvisionFails, CreateAllowed
<1>13. CASE WriteSecret
  BY <1>13, <1>2 DEF WriteSecret
<1>14. CASE WriteRecord
  BY <1>14, <1>2 DEF WriteRecord
<1>15. CASE Activate
  BY <1>15, <1>2 DEF Activate
<1>16. CASE RotateLive
  <2>1. handler' = NoJob \/ handler'.db = handler.db
    <3>1. CASE liveApply /\ CreateAllowed(handler.db)
      <4>1. handler' = [handler EXCEPT !.at = "rotateSecret", !.provision = TRUE]
        BY <1>16, <3>1 DEF RotateLive
      <4> QED BY <1>2, <4>1
    <3>2. CASE ~(liveApply /\ CreateAllowed(handler.db))
      <4>1. handler' = NoJob \/ handler' = [handler EXCEPT !.at = "rotateSecret"]
        BY <1>16, <3>2 DEF RotateLive
      <4> QED BY <1>2, <4>1
    <3> QED BY <3>1, <3>2
  <2> QED BY <1>16, <1>2, <2>1 DEF RotateLive
<1>17. CASE RotateFails
  BY <1>17, <1>2 DEF RotateFails, Owns
<1>18. CASE RotateSecret
  BY <1>18, <1>2 DEF RotateSecret
<1>19. CASE RotateRecord
  BY <1>19, <1>2 DEF RotateRecord
<1>20. CASE ApproveNow
  BY <1>20, <1>2 DEF ApproveNow, Approvable, Approved
<1>21. CASE ExecuteNow
  <2>1. CASE Executable(handler.delete)
    <3>1. handler.delete \in Deletes /\ deletion[handler.delete].db \in Dbs
      BY <1>21, <2>1, <1>1 DEF ExecuteNow, Executable, DeletingOK, SpentOK, Deleting, Deciding
    <3> QED BY <1>21, <1>1, <2>1, <3>1, OperationExecutes DEF ExecuteNow
  <2>2. CASE ~Executable(handler.delete)
    BY <1>21, <2>2 DEF ExecuteNow
  <2> QED BY <2>1, <2>2
<1>22. CASE DropDatabase
  BY Zenon, <1>22, <1>2 DEF DropDatabase, Dropped, Owns
<1>23. CASE DropFails
  BY <1>23, <1>2 DEF DropFails, Dropped, Owns
<1>24. CASE Checkpoint
  BY <1>24, <1>2 DEF Checkpoint
<1>25. CASE Cleanup
  BY <1>25, <1>2 DEF Cleanup, CleanupAllowed
<1>26. CASE CleanupFails
  BY <1>26, <1>2 DEF CleanupFails, CleanupAllowed
<1>27. CASE RemoveSecret
  BY <1>27, <1>2 DEF RemoveSecret
<1>28. CASE RemoveRecord
  BY <1>28, <1>2 DEF RemoveRecord
<1>29. CASE RemoveBinding
  BY <1>29, <1>2 DEF RemoveBinding
<1>30. CASE Complete
  BY <1>30, <1>2 DEF Complete
<1>31. CASE RecordFailure
  BY <1>31, <1>2 DEF RecordFailure, FailureStatus
<1>32. ASSUME NEW d \in Dbs, LateDrop(d) PROVE (handler.at # "idle" => handler.db \in Dbs)'
  BY <1>32, <1>2 DEF LateDrop, Dropped
<1>33. CASE DbWriteFails
  BY <1>33, <1>2 DEF DbWriteFails, InCatch, OtherWrites
<1>34. CASE DbRestart
  BY <1>34, <1>2 DEF DbRestart
<1> QED BY <1>3, <1>4, <1>5, <1>6, <1>7, <1>8, <1>9, <1>10, <1>11, <1>12, <1>13, <1>14,
       <1>15, <1>16, <1>17, <1>18, <1>19, <1>20, <1>21, <1>22, <1>23, <1>24, <1>25,
       <1>26, <1>27, <1>28, <1>29, <1>30, <1>31, <1>32, <1>33, <1>34 DEF DbNext, DeleteStep

\* Every step keeps what a creating handler relies on.
LEMMA CreatingStep ==
  ASSUME DatabaseInv, HandlerTypeOK', DbTypeOK', DbNext
  PROVE  CreatingOK'
<1>1. /\ DbTypeOK /\ HandlerTypeOK /\ CreatingOK /\ DeletingOK /\ LateOK /\ SpentOK
  BY DEF DatabaseInv
<1>2. /\ handler \in Handlers /\ handler' \in Handlers
      /\ handler.at # "idle" => handler.db \in Dbs
  BY <1>1 DEF HandlerTypeOK, CreatingOK
<1>3. SUFFICES ASSUME handler'.at \in Creating \cup Rotating
              PROVE  CreatingOK'
  <2>1. (handler.at # "idle" => handler.db \in Dbs)'
    BY HandlerDbStep
  <2> QED BY <2>1 DEF CreatingOK, Creating, Rotating
<1>4. ASSUME NEW s \in Slots, Arrive(s) PROVE CreatingOK'
  <2>1. handler'.at \notin Creating \cup Rotating
    BY <1>4, <1>2 DEF Arrive, DbAt, DbGoto, End, NoJob, Creating, Rotating, Handlers
  <2> QED BY <1>3, <2>1
<1>5. ASSUME NEW s \in Slots, PlanOnly(s) PROVE CreatingOK'
  <2>1. handler'.at \notin Creating \cup Rotating
    BY <1>5, <1>2 DEF PlanOnly, Enter, DbAt, DbGoto, End, NoJob, Creating, Rotating, Handlers
  <2> QED BY <1>3, <2>1
<1>6. ASSUME NEW s \in Slots, NEW d \in Dbs, CreateReserve(s, d) PROVE CreatingOK'
  <2>1. binding' = [binding EXCEPT ![d] = IF binding[d] = "none" THEN "reserved" ELSE binding[d]]
    BY <1>6 DEF CreateReserve
  <2>2. handler'.at = "provision" /\ handler'.db = d /\ handler'.secret # 0
    <3>1. handler' = [NoJob EXCEPT !.at = "provision", !.db = d, !.secret = secrets', !.provision = TRUE]
      BY <1>6 DEF CreateReserve
    <3>2. secrets' # 0
      BY <1>6, <1>1, DatabaseConstants DEF CreateReserve, HandlerTypeOK, Passwords
    <3> QED BY <3>1, <3>2 DEF NoJob
  <2>3. binding'[d] # "none"
    BY <2>1, <1>1 DEF DbTypeOK
  <2> QED BY <2>2, <2>3 DEF CreatingOK, Creating, Rotating
<1>7. ASSUME NEW s \in Slots, NEW d \in Dbs, Rotate(s, d) PROVE CreatingOK'
  <2>1. CASE handler' = NoJob
    BY <1>3, <2>1 DEF NoJob, Creating, Rotating
  <2>2. CASE handler' # NoJob
    <3>1. handler' = [NoJob EXCEPT !.at = "rotate", !.db = d, !.secret = secrets + 1, !.rotating = TRUE]
      BY <1>7, <2>2 DEF Rotate
    <3>2. handler'.at = "rotate" /\ handler'.db = d /\ handler'.secret # 0 /\ ~handler'.provision
      BY <3>1, <1>1, DatabaseConstants DEF NoJob, HandlerTypeOK, Passwords
    <3> QED BY <3>2 DEF CreatingOK, Creating, Rotating
  <2> QED BY <2>1, <2>2
<1>8. ASSUME NEW s \in Slots, NEW d \in Dbs, Update(s, d) PROVE CreatingOK'
  <2>1. handler'.at \notin Creating \cup Rotating
    BY <1>8, <1>2 DEF Update, Enter, DbAt, DbGoto, End, NoJob, Creating, Rotating, Handlers
  <2> QED BY <1>3, <2>1
<1>9. ASSUME NEW s \in Slots, NEW o \in Deletes, Approve(s, o) PROVE CreatingOK'
  <2>1. handler'.at \notin Creating \cup Rotating
    BY <1>9, <1>2 DEF Approve, Enter, DbAt, DbGoto, End, NoJob, Creating, Rotating, Handlers
  <2> QED BY <1>3, <2>1
<1>10. ASSUME NEW s \in Slots, NEW o \in Deletes, Execute(s, o) PROVE CreatingOK'
  <2>1. deletion[o].db \in Dbs /\ Executing(o)
    BY <1>10, <1>1 DEF Execute, Executable, SpentOK
  <2>2. handler'.at = "drop"
    BY <1>10, <1>1, <2>1, OperationExecutes
  <2> QED BY <1>3, <2>2 DEF Creating, Rotating
<1>11. ASSUME NEW s \in Slots, NEW o \in Deletes, NEW d \in Dbs, NEW now \in BOOLEAN, RequestDelete(s, o, d, now) PROVE CreatingOK'
  <2>1. handler'.at \notin Creating \cup Rotating
    BY <1>11, <1>2 DEF RequestDelete, Enter, DbAt, DbGoto, End, NoJob, Creating, Rotating, Handlers
  <2> QED BY <1>3, <2>1
<1>12. CASE Provision
  <2>1. /\ handler.at = "provision" /\ handler.db \in Dbs /\ handler.secret # 0 /\ binding[handler.db] # "none"
        /\ UNCHANGED <<liveApply, binding>>
    BY <1>12, <1>1 DEF Provision, DbAt, CreatingOK, Creating, fileVars
  <2>2. handler' = [handler EXCEPT !.at = "secret"] \/ handler' = NoJob
    BY <1>12 DEF Provision, DbGoto, End
  <2>3. /\ handler'.at = "secret" /\ handler'.db = handler.db /\ handler'.secret = handler.secret
    BY <1>3, <1>2, <2>2 DEF NoJob, Creating, Rotating, Handlers
  <2>4. liveApply => liveDb'[handler.db] # 0
    <3>1. SUFFICES ASSUME liveApply PROVE CreateAllowed(handler.db)
      BY <1>12, <1>1, <2>1, <3>1 DEF Provision, DbTypeOK
    <3> QED BY <1>12, <1>3, <3>1 DEF Provision, End, NoJob, Creating, Rotating
  <2> QED BY <2>1, <2>3, <2>4 DEF CreatingOK, Creating, Rotating
<1>13. CASE ProvisionFails
  <2>1. handler'.at \notin Creating \cup Rotating
    BY <1>13, <1>2 DEF ProvisionFails, DbAt, DbGoto, End, NoJob, Creating, Rotating, Handlers
  <2> QED BY <1>3, <2>1
<1>14. CASE WriteSecret
  <2>1. /\ handler.at = "secret" /\ handler.db \in Dbs /\ handler.secret # 0
        /\ UNCHANGED <<liveApply, binding, liveDb, deletion>>
    BY <1>14, <1>1 DEF WriteSecret, DbAt, CreatingOK, Creating, Rotating, engineVars
  <2>2. handler'.db = handler.db /\ handler'.secret = handler.secret /\ handler'.provision = handler.provision
    BY <1>14, <1>3, <1>2 DEF WriteSecret, DbGoto, End, NoJob, Creating, Rotating, Handlers
  <2>3. Accounted(handler.db)' <=> Accounted(handler.db)
    BY <2>1, <2>2 DEF Accounted
  <2>4. handler'.at = IF handler.provision THEN "record" ELSE "rotateRecord"
    BY <1>14, <1>3, <1>2 DEF WriteSecret, DbGoto, End, NoJob, Creating, Rotating, Handlers
  <2>5. liveDb'[handler'.db] # 0 \/ Accounted(handler.db)' \/ handler'.at = "rotateRecord" \/ (handler'.at = "record" /\ ~liveApply)
    BY <1>1, <2>1, <2>2, <2>3, <2>4 DEF CreatingOK
  <2>6. handler'.at = "record" => binding[handler.db] # "none"
    BY <1>1, <2>1, <2>4 DEF CreatingOK, Creating
  <2> QED BY <2>1, <2>2, <2>3, <2>4, <2>5, <2>6 DEF CreatingOK, Creating, Rotating
<1>15. CASE WriteRecord
  <2>1. /\ handler.at = "record" /\ handler.db \in Dbs /\ handler.secret # 0
        /\ UNCHANGED <<liveApply, binding, liveDb, deletion>>
    BY <1>15, <1>1 DEF WriteRecord, DbAt, CreatingOK, Creating, Rotating, engineVars
  <2>2. handler'.db = handler.db /\ handler'.secret = handler.secret /\ handler'.provision = handler.provision
    BY <1>15, <1>3, <1>2 DEF WriteRecord, DbGoto, End, NoJob, Creating, Rotating, Handlers
  <2>3. Accounted(handler.db)' <=> Accounted(handler.db)
    BY <2>1, <2>2 DEF Accounted
  <2>4. handler'.at = "activate" /\ liveApply
    BY <1>15, <1>3, <1>2 DEF WriteRecord, DbGoto, End, NoJob, Creating, Rotating, Handlers
  <2>5. liveDb'[handler'.db] # 0 \/ Accounted(handler.db)' \/ handler'.at = "rotateRecord" \/ (handler'.at = "record" /\ ~liveApply)
    BY <1>1, <2>1, <2>2, <2>3, <2>4 DEF CreatingOK
  <2>6. handler'.at = "record" => binding[handler.db] # "none"
    BY <1>1, <2>1, <2>4 DEF CreatingOK, Creating
  <2> QED BY <2>1, <2>2, <2>3, <2>4, <2>5, <2>6 DEF CreatingOK, Creating, Rotating
<1>16. CASE Activate
  <2>1. handler.db \in Dbs /\ handler.secret # 0
    BY <1>16, <1>1 DEF Activate, DbAt, CreatingOK, Creating
  <2>2. handler'.at = "rotateRecord" /\ handler'.db = handler.db /\ handler'.secret = handler.secret
    BY <1>16, <1>3, <1>2 DEF Activate, DbGoto, End, NoJob, Creating, Rotating, Handlers
  <2> QED BY <2>1, <2>2 DEF CreatingOK, Creating, Rotating
<1>17. CASE RotateLive
  <2>1. /\ handler.at = "rotate" /\ handler.db \in Dbs /\ handler.secret # 0 /\ ~handler.provision
    BY <1>17, <1>1 DEF RotateLive, DbAt, CreatingOK, Rotating
  <2>2. CASE liveApply /\ CreateAllowed(handler.db)
    <3>1. liveDb'[handler.db] = handler.secret
      BY <1>17, <1>1, <2>1, <2>2 DEF RotateLive, DbTypeOK
    <3>2. handler' = [handler EXCEPT !.at = "rotateSecret", !.provision = TRUE]
      BY <1>17, <2>2 DEF RotateLive
    <3>3. handler'.at = "rotateSecret" /\ handler'.db = handler.db /\ handler'.secret = handler.secret
      BY <1>2, <3>2 DEF Handlers
    <3> QED BY <2>1, <3>1, <3>3 DEF CreatingOK, Creating, Rotating
  <2>3. CASE ~(liveApply /\ CreateAllowed(handler.db))
    <3>1. handler' = NoJob \/ handler' = [handler EXCEPT !.at = "rotateSecret"]
      BY <1>17, <2>3 DEF RotateLive, DbGoto, End
    <3>2. /\ handler'.at = "rotateSecret" /\ handler'.db = handler.db /\ handler'.secret = handler.secret
          /\ handler'.provision = handler.provision
      BY <1>3, <1>2, <3>1 DEF NoJob, Creating, Rotating, Handlers
    <3> QED BY <2>1, <3>2 DEF CreatingOK, Creating, Rotating
  <2> QED BY <2>2, <2>3
<1>18. CASE RotateFails
  <2>1. handler'.at \notin Creating \cup Rotating
    BY <1>18, <1>2 DEF RotateFails, DbAt, DbGoto, End, NoJob, Creating, Rotating, Handlers
  <2> QED BY <1>3, <2>1
<1>19. CASE RotateSecret
  <2>1. /\ handler.at = "rotateSecret" /\ handler.db \in Dbs /\ handler.secret # 0
        /\ UNCHANGED <<liveApply, binding, liveDb, deletion>>
    BY <1>19, <1>1 DEF RotateSecret, DbAt, CreatingOK, Creating, Rotating, engineVars
  <2>2. handler'.db = handler.db /\ handler'.secret = handler.secret /\ handler'.provision = handler.provision
    BY <1>19, <1>3, <1>2 DEF RotateSecret, DbGoto, End, NoJob, Creating, Rotating, Handlers
  <2>3. Accounted(handler.db)' <=> Accounted(handler.db)
    BY <2>1, <2>2 DEF Accounted
  <2>4. handler'.at = IF handler.provision THEN "activate" ELSE "rotateRecord"
    BY <1>19, <1>3, <1>2 DEF RotateSecret, DbGoto, End, NoJob, Creating, Rotating, Handlers
  <2>5. liveDb'[handler'.db] # 0 \/ Accounted(handler.db)' \/ handler'.at = "rotateRecord" \/ (handler'.at = "record" /\ ~liveApply)
    BY <1>1, <2>1, <2>2, <2>3, <2>4 DEF CreatingOK
  <2>6. handler'.at = "record" => binding[handler.db] # "none"
    BY <1>1, <2>1, <2>4 DEF CreatingOK, Creating
  <2> QED BY <2>1, <2>2, <2>3, <2>4, <2>5, <2>6 DEF CreatingOK, Creating, Rotating
<1>20. CASE RotateRecord
  <2>1. handler'.at \notin Creating \cup Rotating
    BY <1>20, <1>2 DEF RotateRecord, DbAt, DbGoto, End, NoJob, Creating, Rotating, Handlers
  <2> QED BY <1>3, <2>1
<1>21. CASE ApproveNow
  <2>1. handler'.at \notin Creating \cup Rotating
    BY <1>21, <1>2 DEF ApproveNow, DbAt, DbGoto, End, NoJob, Creating, Rotating, Handlers
  <2> QED BY <1>3, <2>1
<1>22. CASE ExecuteNow
  <2>1. handler'.at = "drop" \/ handler' = NoJob
    <3>1. CASE Executable(handler.delete)
      <4>1. handler' = [NoJob EXCEPT !.at = "drop", !.db = deletion[handler.delete].db, !.delete = handler.delete]
        BY <1>22, <3>1 DEF ExecuteNow, Executing
      <4> QED BY <4>1 DEF NoJob
    <3>2. CASE ~Executable(handler.delete)
      BY <1>22, <3>2 DEF ExecuteNow, End
    <3> QED BY <3>1, <3>2
  <2> QED BY <1>3, <2>1 DEF NoJob, Creating, Rotating
<1>23. CASE DropDatabase
  <2>1. handler'.at \notin Creating \cup Rotating
    BY Zenon, <1>23, <1>2 DEF DropDatabase, DbAt, DbGoto, End, NoJob, Creating, Rotating, Handlers
  <2> QED BY <1>3, <2>1
<1>24. CASE DropFails
  <2>1. handler'.at \notin Creating \cup Rotating
    BY <1>24, <1>2 DEF DropFails, DbAt, DbGoto, End, NoJob, Creating, Rotating, Handlers
  <2> QED BY <1>3, <2>1
<1>25. CASE Checkpoint
  <2>1. handler'.at \notin Creating \cup Rotating
    BY <1>25, <1>2 DEF Checkpoint, DbAt, DbGoto, End, NoJob, Creating, Rotating, Handlers
  <2> QED BY <1>3, <2>1
<1>26. CASE Cleanup
  <2>1. handler'.at \notin Creating \cup Rotating
    BY <1>26, <1>2 DEF Cleanup, DbAt, DbGoto, End, NoJob, Creating, Rotating, Handlers
  <2> QED BY <1>3, <2>1
<1>27. CASE CleanupFails
  <2>1. handler'.at \notin Creating \cup Rotating
    BY <1>27, <1>2 DEF CleanupFails, DbAt, DbGoto, End, NoJob, Creating, Rotating, Handlers
  <2> QED BY <1>3, <2>1
<1>28. CASE RemoveSecret
  <2>1. handler'.at \notin Creating \cup Rotating
    BY <1>28, <1>2 DEF RemoveSecret, DbAt, DbGoto, End, NoJob, Creating, Rotating, Handlers
  <2> QED BY <1>3, <2>1
<1>29. CASE RemoveRecord
  <2>1. handler'.at \notin Creating \cup Rotating
    BY <1>29, <1>2 DEF RemoveRecord, DbAt, DbGoto, End, NoJob, Creating, Rotating, Handlers
  <2> QED BY <1>3, <2>1
<1>30. CASE RemoveBinding
  <2>1. handler'.at \notin Creating \cup Rotating
    BY <1>30, <1>2 DEF RemoveBinding, DbAt, DbGoto, End, NoJob, Creating, Rotating, Handlers
  <2> QED BY <1>3, <2>1
<1>31. CASE Complete
  <2>1. handler'.at \notin Creating \cup Rotating
    BY <1>31, <1>2 DEF Complete, DbAt, DbGoto, End, NoJob, Creating, Rotating, Handlers
  <2> QED BY <1>3, <2>1
<1>32. CASE RecordFailure
  <2>1. handler'.at \notin Creating \cup Rotating
    BY <1>32, <1>2 DEF RecordFailure, DbAt, DbGoto, End, NoJob, Creating, Rotating, Handlers
  <2> QED BY <1>3, <2>1
<1>33. ASSUME NEW d \in Dbs, LateDrop(d) PROVE CreatingOK'
  <2>1. lateDrop[d] \in Deletes /\ Accounted(d) /\ UNCHANGED <<liveApply, binding, deletion, handler>>
    BY <1>33, <1>1 DEF LateDrop, LateOK, HandlerTypeOK, Accounted, Finished, fileVars
  <2>2. \A c \in Dbs : liveDb'[c] = liveDb[c] \/ Accounted(c)
    BY <1>33, <1>1, <2>1, DropTakes DEF LateDrop
  <2>3. \A c \in Dbs : Accounted(c)' <=> Accounted(c)
    BY <2>1 DEF Accounted
  <2> QED BY <1>3, <1>1, <2>1, <2>2, <2>3 DEF CreatingOK, Creating, Rotating
<1>34. CASE DbWriteFails
  <2>1. handler'.at \notin Creating \cup Rotating
    BY <1>34, <1>2 DEF DbWriteFails, InCatch, OtherWrites, DbAt, DbGoto, End, NoJob, Creating, Rotating, Handlers
  <2> QED BY <1>3, <2>1
<1>35. CASE DbRestart
  <2>1. handler'.at \notin Creating \cup Rotating
    BY <1>35, <1>2 DEF DbRestart, DbAt, DbGoto, End, NoJob, Creating, Rotating, Handlers
  <2> QED BY <1>3, <2>1
<1> QED BY <1>4, <1>5, <1>6, <1>7, <1>8, <1>9, <1>10, <1>11, <1>12, <1>13, <1>14, <1>15,
       <1>16, <1>17, <1>18, <1>19, <1>20, <1>21, <1>22, <1>23, <1>24, <1>25, <1>26,
       <1>27, <1>28, <1>29, <1>30, <1>31, <1>32, <1>33, <1>34, <1>35 DEF DbNext, DeleteStep

\* A handler that saw its DROP succeed leaves no late DROP of that database behind.
LEMMA DroppedStep ==
  ASSUME DatabaseInv, HandlerTypeOK', DbTypeOK', DbNext
  PROVE  (handler.dropped => handler.db \in Dbs /\ lateDrop[handler.db] = NoDelete)'
<1>1. /\ DbTypeOK /\ HandlerTypeOK /\ CreatingOK /\ DeletingOK /\ LateOK /\ SpentOK
  BY DEF DatabaseInv
<1>2. /\ handler \in Handlers /\ handler' \in Handlers
      /\ handler.dropped => handler.db \in Dbs /\ lateDrop[handler.db] = NoDelete
      /\ handler.at # "idle" => handler.db \in Dbs
  BY <1>1 DEF HandlerTypeOK, CreatingOK, DeletingOK
<1>3. ASSUME NEW s \in Slots, Arrive(s) PROVE (handler.dropped => handler.db \in Dbs /\ lateDrop[handler.db] = NoDelete)'
  BY <1>3, <1>2 DEF Arrive, NoJob, DbAt, DbGoto, End, engineVars
<1>4. ASSUME NEW s \in Slots, PlanOnly(s) PROVE (handler.dropped => handler.db \in Dbs /\ lateDrop[handler.db] = NoDelete)'
  BY <1>4, <1>2 DEF PlanOnly, Enter, NoJob, DbAt, DbGoto, End, engineVars
<1>5. ASSUME NEW s \in Slots, NEW d \in Dbs, CreateReserve(s, d) PROVE (handler.dropped => handler.db \in Dbs /\ lateDrop[handler.db] = NoDelete)'
  BY <1>5, <1>2 DEF CreateReserve, Enter, NoJob, DbAt, DbGoto, End, engineVars
<1>6. ASSUME NEW s \in Slots, NEW d \in Dbs, Rotate(s, d) PROVE (handler.dropped => handler.db \in Dbs /\ lateDrop[handler.db] = NoDelete)'
  BY <1>6, <1>2 DEF Rotate, Enter, NoJob, DbAt, DbGoto, End, engineVars
<1>7. ASSUME NEW s \in Slots, NEW d \in Dbs, Update(s, d) PROVE (handler.dropped => handler.db \in Dbs /\ lateDrop[handler.db] = NoDelete)'
  BY <1>7, <1>2 DEF Update, Enter, NoJob, DbAt, DbGoto, End, engineVars
<1>8. ASSUME NEW s \in Slots, NEW o \in Deletes, Approve(s, o) PROVE (handler.dropped => handler.db \in Dbs /\ lateDrop[handler.db] = NoDelete)'
  BY <1>8, <1>2 DEF Approve, Enter, Approvable, Approved, NoJob, DbAt, DbGoto, End, engineVars
<1>9. ASSUME NEW s \in Slots, NEW o \in Deletes, Execute(s, o) PROVE (handler.dropped => handler.db \in Dbs /\ lateDrop[handler.db] = NoDelete)'
  <2>1. deletion[o].db \in Dbs
    BY <1>9, <1>1 DEF Execute, Executable, SpentOK
  <2> QED BY <1>9, <1>1, <2>1, OperationExecutes DEF Execute
<1>10. ASSUME NEW s \in Slots, NEW o \in Deletes, NEW d \in Dbs, NEW now \in BOOLEAN, RequestDelete(s, o, d, now) PROVE (handler.dropped => handler.db \in Dbs /\ lateDrop[handler.db] = NoDelete)'
  BY <1>10, <1>2 DEF RequestDelete, Enter, Requested, Unrequested, NoJob, DbAt, DbGoto, End,
      engineVars
<1>11. CASE Provision
  <2>1. lateDrop' = lateDrop /\ (handler'.dropped => handler.dropped /\ handler'.db = handler.db)
    BY <1>11, <1>2 DEF Provision, DbAt, DbGoto, End, NoJob, engineVars, Handlers
  <2> QED BY <1>2, <2>1
<1>12. CASE ProvisionFails
  <2>1. lateDrop' = lateDrop /\ (handler'.dropped => handler.dropped /\ handler'.db = handler.db)
    BY <1>12, <1>2 DEF ProvisionFails, DbAt, DbGoto, End, NoJob, engineVars, Handlers
  <2> QED BY <1>2, <2>1
<1>13. CASE WriteSecret
  <2>1. lateDrop' = lateDrop /\ (handler'.dropped => handler.dropped /\ handler'.db = handler.db)
    BY <1>13, <1>2 DEF WriteSecret, DbAt, DbGoto, End, NoJob, engineVars, Handlers
  <2> QED BY <1>2, <2>1
<1>14. CASE WriteRecord
  <2>1. lateDrop' = lateDrop /\ (handler'.dropped => handler.dropped /\ handler'.db = handler.db)
    BY <1>14, <1>2 DEF WriteRecord, DbAt, DbGoto, End, NoJob, engineVars, Handlers
  <2> QED BY <1>2, <2>1
<1>15. CASE Activate
  <2>1. lateDrop' = lateDrop /\ (handler'.dropped => handler.dropped /\ handler'.db = handler.db)
    BY <1>15, <1>2 DEF Activate, DbAt, DbGoto, End, NoJob, engineVars, Handlers
  <2> QED BY <1>2, <2>1
<1>16. CASE RotateLive
  <2>1. lateDrop' = lateDrop
    BY <1>16 DEF RotateLive, engineVars
  <2>2. CASE liveApply /\ CreateAllowed(handler.db)
    <3>1. handler' = [handler EXCEPT !.at = "rotateSecret", !.provision = TRUE]
      BY <1>16, <2>2 DEF RotateLive
    <3>2. handler'.dropped => handler.dropped /\ handler'.db = handler.db
      BY <1>2, <3>1 DEF Handlers
    <3> QED BY <1>2, <2>1, <3>2
  <2>3. CASE ~(liveApply /\ CreateAllowed(handler.db))
    <3>1. handler' = NoJob \/ handler' = [handler EXCEPT !.at = "rotateSecret"]
      BY <1>16, <2>3 DEF RotateLive, DbGoto, End
    <3>2. handler'.dropped => handler.dropped /\ handler'.db = handler.db
      BY <1>2, <3>1 DEF Handlers, NoJob
    <3> QED BY <1>2, <2>1, <3>2
  <2> QED BY <2>2, <2>3
<1>17. CASE RotateFails
  <2>1. lateDrop' = lateDrop /\ (handler'.dropped => handler.dropped /\ handler'.db = handler.db)
    BY <1>17, <1>2 DEF RotateFails, DbAt, DbGoto, End, NoJob, engineVars, Handlers
  <2> QED BY <1>2, <2>1
<1>18. CASE RotateSecret
  <2>1. lateDrop' = lateDrop /\ (handler'.dropped => handler.dropped /\ handler'.db = handler.db)
    BY <1>18, <1>2 DEF RotateSecret, DbAt, DbGoto, End, NoJob, engineVars, Handlers
  <2> QED BY <1>2, <2>1
<1>19. CASE RotateRecord
  <2>1. lateDrop' = lateDrop /\ (handler'.dropped => handler.dropped /\ handler'.db = handler.db)
    BY <1>19, <1>2 DEF RotateRecord, DbAt, DbGoto, End, NoJob, engineVars, Handlers
  <2> QED BY <1>2, <2>1
<1>20. CASE ApproveNow
  <2>1. lateDrop' = lateDrop /\ (handler'.dropped => handler.dropped /\ handler'.db = handler.db)
    BY <1>20, <1>2 DEF ApproveNow, DbAt, DbGoto, End, NoJob, engineVars, Handlers
  <2> QED BY <1>2, <2>1
<1>21. CASE ExecuteNow
  <2>1. CASE Executable(handler.delete)
    <3>1. handler.delete \in Deletes /\ deletion[handler.delete].db \in Dbs
      BY <1>21, <2>1, <1>1 DEF ExecuteNow, Executable, DbAt, DeletingOK, SpentOK, Deleting, Deciding
    <3> QED BY <1>21, <1>1, <2>1, <3>1, OperationExecutes DEF ExecuteNow
  <2>2. CASE ~Executable(handler.delete)
    BY <1>21, <2>2 DEF ExecuteNow, End, NoJob
  <2> QED BY <2>1, <2>2
<1>22. CASE DropDatabase
  <2>1. lateDrop' = lateDrop /\ lateDrop[handler.db] = NoDelete
    BY <1>22 DEF DropDatabase
  <2>2. handler'.db = handler.db
    <3>1. CASE Owns(handler.db)
      <4>1. handler' = [handler EXCEPT !.at = "checkpoint", !.dropped = TRUE]
        BY <1>22, <3>1 DEF DropDatabase
      <4> QED BY <1>2, <4>1
    <3>2. CASE ~Owns(handler.db)
      <4>1. handler' = [handler EXCEPT !.at = "fail"]
        BY <1>22, <3>2 DEF DropDatabase, DbGoto
      <4> QED BY <1>2, <4>1 DEF Handlers
    <3> QED BY <3>1, <3>2
  <2>3. handler.db \in Dbs
    BY <1>22, <1>2 DEF DropDatabase, DbAt
  <2> QED BY <2>1, <2>2, <2>3
<1>23. CASE DropFails
  <2>1. handler'.dropped = handler.dropped /\ ~handler.dropped
    BY <1>23, <1>1, <1>2 DEF DropFails, DbAt, DbGoto, DeletingOK, Handlers
  <2> QED BY <2>1
<1>24. CASE Checkpoint
  <2>1. lateDrop' = lateDrop /\ (handler'.dropped => handler.dropped /\ handler'.db = handler.db)
    BY <1>24, <1>2 DEF Checkpoint, DbAt, DbGoto, End, NoJob, engineVars, Handlers
  <2> QED BY <1>2, <2>1
<1>25. CASE Cleanup
  <2>1. lateDrop' = lateDrop /\ (handler'.dropped => handler.dropped /\ handler'.db = handler.db)
    BY <1>25, <1>2 DEF Cleanup, DbAt, DbGoto, End, NoJob, engineVars, Handlers
  <2> QED BY <1>2, <2>1
<1>26. CASE CleanupFails
  <2>1. lateDrop' = lateDrop /\ (handler'.dropped => handler.dropped /\ handler'.db = handler.db)
    BY <1>26, <1>2 DEF CleanupFails, DbAt, DbGoto, End, NoJob, engineVars, Handlers
  <2> QED BY <1>2, <2>1
<1>27. CASE RemoveSecret
  <2>1. lateDrop' = lateDrop /\ (handler'.dropped => handler.dropped /\ handler'.db = handler.db)
    BY <1>27, <1>2 DEF RemoveSecret, DbAt, DbGoto, End, NoJob, engineVars, Handlers
  <2> QED BY <1>2, <2>1
<1>28. CASE RemoveRecord
  <2>1. lateDrop' = lateDrop /\ (handler'.dropped => handler.dropped /\ handler'.db = handler.db)
    BY <1>28, <1>2 DEF RemoveRecord, DbAt, DbGoto, End, NoJob, engineVars, Handlers
  <2> QED BY <1>2, <2>1
<1>29. CASE RemoveBinding
  <2>1. lateDrop' = lateDrop /\ (handler'.dropped => handler.dropped /\ handler'.db = handler.db)
    BY <1>29, <1>2 DEF RemoveBinding, DbAt, DbGoto, End, NoJob, engineVars, Handlers
  <2> QED BY <1>2, <2>1
<1>30. CASE Complete
  <2>1. lateDrop' = lateDrop /\ (handler'.dropped => handler.dropped /\ handler'.db = handler.db)
    BY <1>30, <1>2 DEF Complete, DbAt, DbGoto, End, NoJob, engineVars, Handlers
  <2> QED BY <1>2, <2>1
<1>31. CASE RecordFailure
  <2>1. lateDrop' = lateDrop /\ (handler'.dropped => handler.dropped /\ handler'.db = handler.db)
    BY <1>31, <1>2 DEF RecordFailure, DbAt, DbGoto, End, NoJob, engineVars, Handlers
  <2> QED BY <1>2, <2>1
<1>32. ASSUME NEW d \in Dbs, LateDrop(d) PROVE (handler.dropped => handler.db \in Dbs /\ lateDrop[handler.db] = NoDelete)'
  <2>1. handler' = handler /\ \A c \in Dbs : lateDrop'[c] \in {lateDrop[c], NoDelete}
    BY <1>32, <1>1 DEF LateDrop, HandlerTypeOK
  <2> QED BY <1>2, <2>1
<1>33. CASE DbWriteFails
  <2>1. lateDrop' = lateDrop /\ (handler'.dropped => handler.dropped /\ handler'.db = handler.db)
    BY <1>33, <1>2 DEF DbWriteFails, DbAt, DbGoto, End, NoJob, engineVars, Handlers
  <2> QED BY <1>2, <2>1
<1>34. CASE DbRestart
  <2>1. lateDrop' = lateDrop /\ (handler'.dropped => handler.dropped /\ handler'.db = handler.db)
    BY <1>34, <1>2 DEF DbRestart, DbAt, DbGoto, End, NoJob, engineVars, Handlers
  <2> QED BY <1>2, <2>1
<1> QED BY <1>3, <1>4, <1>5, <1>6, <1>7, <1>8, <1>9, <1>10, <1>11, <1>12, <1>13, <1>14,
       <1>15, <1>16, <1>17, <1>18, <1>19, <1>20, <1>21, <1>22, <1>23, <1>24, <1>25,
       <1>26, <1>27, <1>28, <1>29, <1>30, <1>31, <1>32, <1>33, <1>34 DEF DbNext, DeleteStep

\* Every step keeps what a deleting handler relies on.
LEMMA DeletingStep ==
  ASSUME DatabaseInv, HandlerTypeOK', DbTypeOK', DbNext
  PROVE  DeletingOK'
<1>1. /\ DbTypeOK /\ HandlerTypeOK /\ CreatingOK /\ DeletingOK /\ LateOK /\ SpentOK
  BY DEF DatabaseInv
<1>2. /\ handler \in Handlers /\ handler' \in Handlers
      /\ handler.at # "idle" => handler.db \in Dbs
  BY <1>1 DEF HandlerTypeOK, CreatingOK
<1>3. (handler.dropped => handler.db \in Dbs /\ lateDrop[handler.db] = NoDelete)'
  BY DroppedStep
<1>4. SUFFICES ASSUME handler'.at \in Deleting
              PROVE  DeletingOK'
  BY <1>3 DEF DeletingOK, Deleting, Deciding, Cleaning
<1>5. ASSUME NEW s \in Slots, Arrive(s) PROVE DeletingOK'
  <2>1. handler'.at \notin Deleting
    BY <1>5, <1>2 DEF Arrive, DbAt, DbGoto, End, NoJob, Deleting, Deciding, Cleaning, Handlers
  <2> QED BY <1>4, <2>1
<1>6. ASSUME NEW s \in Slots, PlanOnly(s) PROVE DeletingOK'
  <2>1. handler'.at \notin Deleting
    BY <1>6, <1>2 DEF PlanOnly, Enter, DbAt, DbGoto, End, NoJob, Deleting, Deciding, Cleaning, Handlers
  <2> QED BY <1>4, <2>1
<1>7. ASSUME NEW s \in Slots, NEW d \in Dbs, CreateReserve(s, d) PROVE DeletingOK'
  <2>1. handler'.at \notin Deleting
    BY <1>7, <1>2 DEF CreateReserve, Enter, DbAt, DbGoto, End, NoJob, Deleting, Deciding, Cleaning, Handlers
  <2> QED BY <1>4, <2>1
<1>8. ASSUME NEW s \in Slots, NEW d \in Dbs, Rotate(s, d) PROVE DeletingOK'
  <2>1. handler'.at \notin Deleting
    BY <1>8, <1>2 DEF Rotate, Enter, DbAt, DbGoto, End, NoJob, Deleting, Deciding, Cleaning, Handlers
  <2> QED BY <1>4, <2>1
<1>9. ASSUME NEW s \in Slots, NEW d \in Dbs, Update(s, d) PROVE DeletingOK'
  <2>1. handler'.at \notin Deleting
    BY <1>9, <1>2 DEF Update, Enter, DbAt, DbGoto, End, NoJob, Deleting, Deciding, Cleaning, Handlers
  <2> QED BY <1>4, <2>1
<1>10. ASSUME NEW s \in Slots, NEW o \in Deletes, Approve(s, o) PROVE DeletingOK'
  <2>1. handler'.at \notin Deleting
    BY <1>10, <1>2 DEF Approve, Enter, DbAt, DbGoto, End, NoJob, Deleting, Deciding, Cleaning, Handlers
  <2> QED BY <1>4, <2>1
<1>11. ASSUME NEW s \in Slots, NEW o \in Deletes, Execute(s, o) PROVE DeletingOK'
  <2>1. deletion[o].db \in Dbs
    BY <1>11, <1>1 DEF Execute, Executable, SpentOK
  <2>2. /\ deletion'[o].status = "executing" /\ deletion'[o].tried /\ deletion'[o].db = deletion[o].db
        /\ handler'.at = "drop" /\ handler'.db = deletion[o].db /\ handler'.delete = o /\ ~handler'.dropped
    BY <1>11, <1>1, <2>1, OperationExecutes DEF Execute
  <2> QED BY <2>2 DEF DeletingOK, Deleting, Deciding, Cleaning
<1>12. ASSUME NEW s \in Slots, NEW o \in Deletes, NEW d \in Dbs, NEW now \in BOOLEAN, RequestDelete(s, o, d, now) PROVE DeletingOK'
  <2>1. handler' = [NoJob EXCEPT !.at = "approve", !.db = d, !.delete = o]
    BY <1>12, <1>4 DEF RequestDelete, NoJob, Deleting, Deciding, Cleaning
  <2>2. handler'.at = "approve" /\ handler'.db = d /\ handler'.delete = o /\ ~handler'.dropped
    BY <2>1 DEF NoJob
  <2>3. deletion'[o].db = d
    BY <1>12, <1>1, OperationStarts DEF RequestDelete
  <2> QED BY <2>2, <2>3 DEF DeletingOK, Deleting, Deciding, Cleaning
<1>13. CASE Provision
  <2>1. handler'.at \notin Deleting
    BY <1>13, <1>2 DEF Provision, DbAt, DbGoto, End, NoJob, Deleting, Deciding, Cleaning, Handlers
  <2> QED BY <1>4, <2>1
<1>14. CASE ProvisionFails
  <2>1. handler'.at \notin Deleting
    BY <1>14, <1>2 DEF ProvisionFails, DbAt, DbGoto, End, NoJob, Deleting, Deciding, Cleaning, Handlers
  <2> QED BY <1>4, <2>1
<1>15. CASE WriteSecret
  <2>1. handler'.at \notin Deleting
    BY <1>15, <1>2 DEF WriteSecret, DbAt, DbGoto, End, NoJob, Deleting, Deciding, Cleaning, Handlers
  <2> QED BY <1>4, <2>1
<1>16. CASE WriteRecord
  <2>1. handler'.at \notin Deleting
    BY <1>16, <1>2 DEF WriteRecord, DbAt, DbGoto, End, NoJob, Deleting, Deciding, Cleaning, Handlers
  <2> QED BY <1>4, <2>1
<1>17. CASE Activate
  <2>1. handler'.at \notin Deleting
    BY <1>17, <1>2 DEF Activate, DbAt, DbGoto, End, NoJob, Deleting, Deciding, Cleaning, Handlers
  <2> QED BY <1>4, <2>1
<1>18. CASE RotateLive
  <2>1. handler'.at \notin Deleting
    <3>1. CASE liveApply /\ CreateAllowed(handler.db)
      <4>1. handler' = [handler EXCEPT !.at = "rotateSecret", !.provision = TRUE]
        BY <1>18, <3>1 DEF RotateLive
      <4> QED BY <1>2, <4>1 DEF Deleting, Deciding, Cleaning
    <3>2. CASE ~(liveApply /\ CreateAllowed(handler.db))
      <4>1. handler' = NoJob \/ handler' = [handler EXCEPT !.at = "rotateSecret"]
        BY <1>18, <3>2 DEF RotateLive, DbGoto, End
      <4> QED BY <1>2, <4>1 DEF Deleting, Deciding, Cleaning, NoJob, Handlers
    <3> QED BY <3>1, <3>2
  <2> QED BY <1>4, <2>1
<1>19. CASE RotateFails
  <2>1. handler'.at \notin Deleting
    BY <1>19, <1>2 DEF RotateFails, DbAt, DbGoto, End, NoJob, Deleting, Deciding, Cleaning, Handlers
  <2> QED BY <1>4, <2>1
<1>20. CASE RotateSecret
  <2>1. handler'.at \notin Deleting
    BY <1>20, <1>2 DEF RotateSecret, DbAt, DbGoto, End, NoJob, Deleting, Deciding, Cleaning, Handlers
  <2> QED BY <1>4, <2>1
<1>21. CASE RotateRecord
  <2>1. handler'.at \notin Deleting
    BY <1>21, <1>2 DEF RotateRecord, DbAt, DbGoto, End, NoJob, Deleting, Deciding, Cleaning, Handlers
  <2> QED BY <1>4, <2>1
<1>22. CASE ApproveNow
  <2>1. handler.at = "approve" /\ handler.delete \in Deletes /\ deletion[handler.delete].db = handler.db /\ ~handler.dropped
    BY <1>22, <1>1 DEF ApproveNow, DbAt, DeletingOK, Deleting, Deciding
  <2>2. /\ handler'.at = "execute" /\ handler'.db = handler.db /\ handler'.delete = handler.delete
        /\ (handler'.dropped <=> handler.dropped)
    BY <1>22, <1>4, <1>2 DEF ApproveNow, DbAt, DbGoto, End, NoJob, Deleting, Deciding, Cleaning, Handlers
  <2>3. deletion'[handler.delete].status = "approved" /\ deletion'[handler.delete].db = handler.db
    BY <1>22, <1>4, <1>1, <2>1, OperationMoves DEF ApproveNow, Approved, End, NoJob, Deleting, Deciding, Cleaning,
       Statuses
  <2> QED BY <2>1, <2>2, <2>3 DEF DeletingOK, Deleting, Deciding, Cleaning
<1>23. CASE ExecuteNow
  <2>1. Executable(handler.delete) /\ Executing(handler.delete)
    BY <1>23, <1>4 DEF ExecuteNow, End, NoJob, Deleting, Deciding, Cleaning
  <2>2. handler.delete \in Deletes /\ deletion[handler.delete].db \in Dbs
    BY <1>23, <2>1, <1>1 DEF ExecuteNow, Executable, DbAt, DeletingOK, SpentOK, Deleting, Deciding
  <2>3. /\ deletion'[handler.delete].status = "executing" /\ deletion'[handler.delete].tried
        /\ deletion'[handler.delete].db = deletion[handler.delete].db
        /\ handler'.at = "drop" /\ handler'.db = deletion[handler.delete].db /\ handler'.delete = handler.delete
        /\ ~handler'.dropped
    BY <1>1, <2>1, <2>2, OperationExecutes
  <2> QED BY <2>2, <2>3 DEF DeletingOK, Deleting, Deciding, Cleaning
<1>24. CASE DropDatabase
  <2>1. /\ handler.at = "drop" /\ handler.db \in Dbs /\ handler.delete \in Deletes /\ ~handler.dropped
        /\ deletion[handler.delete].db = handler.db /\ deletion[handler.delete].status = "executing"
        /\ deletion[handler.delete].tried
        /\ UNCHANGED <<binding, deletion>>
    BY <1>24, <1>1, <1>2 DEF DropDatabase, DbAt, DeletingOK, Deleting, fileVars
  <2>2. CASE Owns(handler.db)
    <3>1. handler' = [handler EXCEPT !.at = "checkpoint", !.dropped = TRUE] /\ Dropped(handler.db, handler.delete)
      BY <1>24, <2>2 DEF DropDatabase
    <3>2. handler'.at = "checkpoint" /\ handler'.db = handler.db /\ handler'.delete = handler.delete /\ handler'.dropped
      BY <1>2, <3>1 DEF Handlers
    <3>3. liveDb'[handler.db] = 0 /\ \A o \in Deletes \ {handler.delete} : Took(o)' = Took(o)
      BY <1>1, <2>1, <3>1, DropTakes DEF Took
    <3>4. binding[handler.db] = "active" /\ liveDb[handler.db] # 0
      BY <2>2 DEF Owns
    <3>5. \A o \in Deletes \ {handler.delete} :
             deletion[o].db = handler.db /\ Took(o) # {} => deletion[o].status \in Finished
      BY <1>1, <3>4 DEF SpentOK
    <3> QED BY <1>3, <2>1, <3>2, <3>3, <3>4, <3>5 DEF DeletingOK, Deleting, Deciding, Cleaning
  <2>3. CASE ~Owns(handler.db)
    <3>1. handler' = [handler EXCEPT !.at = "fail"]
      BY <1>24, <2>3 DEF DropDatabase, DbGoto
    <3>2. handler'.at = "fail" /\ handler'.db = handler.db /\ handler'.delete = handler.delete /\ ~handler'.dropped
      BY <1>2, <2>1, <3>1 DEF Handlers
    <3> QED BY <2>1, <3>2 DEF DeletingOK, Deleting, Deciding, Cleaning
  <2> QED BY <2>2, <2>3
<1>25. CASE DropFails
  <2>1. /\ handler.at = "drop" /\ handler.db \in Dbs /\ handler.delete \in Deletes /\ ~handler.dropped
        /\ deletion[handler.delete].db = handler.db /\ deletion[handler.delete].status = "executing"
        /\ deletion[handler.delete].tried
        /\ UNCHANGED <<binding, deletion>>
    BY <1>25, <1>1, <1>2 DEF DropFails, DbAt, DeletingOK, Deleting, fileVars
  <2>2. handler'.at = "fail" /\ handler'.db = handler.db /\ handler'.delete = handler.delete /\ ~handler'.dropped
    BY <1>25, <1>2, <2>1 DEF DropFails, DbGoto, Handlers
  <2> QED BY <2>1, <2>2 DEF DeletingOK, Deleting, Deciding, Cleaning
<1>26. CASE Checkpoint
  <2>1. /\ handler.at = "checkpoint" /\ handler.db \in Dbs /\ handler.delete \in Deletes /\ handler.dropped
        /\ deletion[handler.delete].db = handler.db /\ deletion[handler.delete].status = "executing"
        /\ liveDb[handler.db] = 0 /\ binding[handler.db] = "active"
        /\ \A o \in Deletes \ {handler.delete} :
              deletion[o].db = handler.db /\ Took(o) # {} => deletion[o].status \in Finished
    BY <1>26, <1>1, <1>2 DEF Checkpoint, DbAt, DeletingOK, Deleting, Cleaning
  <2>2. /\ handler'.at = "cleanup" /\ handler'.db = handler.db /\ handler'.delete = handler.delete /\ handler'.dropped
    BY <1>26, <1>2, <2>1 DEF Checkpoint, DbGoto, Handlers
  <2>3. UNCHANGED <<binding, liveDb, drops, record, role>>
    BY <1>26, <1>1, <2>1 DEF Checkpoint, engineVars
  <2>4. /\ deletion'[handler.delete].status = "database-dropped" /\ deletion'[handler.delete].db = handler.db
        /\ \A o \in Deletes \ {handler.delete} : deletion'[o] = deletion[o]
    BY Zenon, <1>26, <1>1, <2>1, OperationMoves DEF Checkpoint, Statuses, Finished
  <2> QED BY <1>3, <2>1, <2>2, <2>3, <2>4 DEF DeletingOK, Deleting, Deciding, Cleaning, Took
<1>27. CASE Cleanup
  <2>1. /\ handler.at = "cleanup" /\ handler.db \in Dbs /\ handler.delete \in Deletes /\ handler.dropped
        /\ deletion[handler.delete].db = handler.db /\ deletion[handler.delete].status = "database-dropped"
        /\ liveDb[handler.db] = 0 /\ binding[handler.db] = "active"
        /\ \A o \in Deletes \ {handler.delete} :
              deletion[o].db = handler.db /\ Took(o) # {} => deletion[o].status \in Finished
    BY <1>27, <1>1, <1>2 DEF Cleanup, DbAt, DeletingOK, Deleting, Cleaning
  <2>2. /\ handler'.at \in {"removeSecret", "fail"} /\ handler'.db = handler.db /\ handler'.delete = handler.delete /\ handler'.dropped
    BY <1>27, <1>2, <2>1 DEF Cleanup, DbGoto, Handlers
  <2>3. UNCHANGED <<binding, liveDb, drops, record, deletion>>
    BY <1>27 DEF Cleanup, fileVars
  <2>4. handler'.at = "removeSecret" => role'[handler.db] = 0
    <3>1. CASE CleanupAllowed(handler.db)
      BY <1>27, <1>1, <2>1, <3>1 DEF Cleanup, DbTypeOK
    <3>2. CASE ~CleanupAllowed(handler.db)
      <4>1. handler' = [handler EXCEPT !.at = "fail"]
        BY <1>27, <3>2 DEF Cleanup, DbGoto
      <4> QED BY <1>2, <4>1 DEF Handlers
    <3> QED BY <3>1, <3>2
  <2> QED BY <1>3, <2>1, <2>2, <2>3, <2>4 DEF DeletingOK, Deleting, Deciding, Cleaning, Took
<1>28. CASE CleanupFails
  <2>1. /\ handler.at = "cleanup" /\ handler.db \in Dbs /\ handler.delete \in Deletes /\ handler.dropped
        /\ deletion[handler.delete].db = handler.db /\ deletion[handler.delete].status = "database-dropped"
        /\ liveDb[handler.db] = 0 /\ binding[handler.db] = "active"
        /\ \A o \in Deletes \ {handler.delete} :
              deletion[o].db = handler.db /\ Took(o) # {} => deletion[o].status \in Finished
    BY <1>28, <1>1, <1>2 DEF CleanupFails, DbAt, DeletingOK, Deleting, Cleaning
  <2>2. /\ handler'.at = "fail" /\ handler'.db = handler.db /\ handler'.delete = handler.delete /\ handler'.dropped
    BY <1>28, <1>2, <2>1 DEF CleanupFails, DbGoto, Handlers
  <2>3. UNCHANGED <<binding, liveDb, drops, record, deletion>>
    BY <1>28, <1>1, <2>1 DEF CleanupFails, fileVars
  <2> QED BY <1>3, <2>1, <2>2, <2>3 DEF DeletingOK, Deleting, Deciding, Cleaning, Took
<1>29. CASE RemoveSecret
  <2>1. /\ handler.at = "removeSecret" /\ handler.db \in Dbs /\ handler.delete \in Deletes /\ handler.dropped
        /\ deletion[handler.delete].db = handler.db /\ deletion[handler.delete].status = "database-dropped"
        /\ liveDb[handler.db] = 0 /\ binding[handler.db] = "active"
        /\ \A o \in Deletes \ {handler.delete} :
              deletion[o].db = handler.db /\ Took(o) # {} => deletion[o].status \in Finished
    BY <1>29, <1>1, <1>2 DEF RemoveSecret, DbAt, DeletingOK, Deleting, Cleaning
  <2>2. /\ handler'.at = "removeRecord" /\ handler'.db = handler.db /\ handler'.delete = handler.delete /\ handler'.dropped
    BY <1>29, <1>2, <2>1 DEF RemoveSecret, DbGoto, Handlers
  <2>3. UNCHANGED <<binding, liveDb, drops, record, deletion, role>> /\ role[handler.db] = 0
    BY <1>29, <1>1, <2>1 DEF RemoveSecret, engineVars, DbAt, DeletingOK, Cleaning
  <2> QED BY <1>3, <2>1, <2>2, <2>3 DEF DeletingOK, Deleting, Deciding, Cleaning, Took
<1>30. CASE RemoveRecord
  <2>1. /\ handler.at = "removeRecord" /\ handler.db \in Dbs /\ handler.delete \in Deletes /\ handler.dropped
        /\ deletion[handler.delete].db = handler.db /\ deletion[handler.delete].status = "database-dropped"
        /\ liveDb[handler.db] = 0 /\ binding[handler.db] = "active"
        /\ \A o \in Deletes \ {handler.delete} :
              deletion[o].db = handler.db /\ Took(o) # {} => deletion[o].status \in Finished
    BY <1>30, <1>1, <1>2 DEF RemoveRecord, DbAt, DeletingOK, Deleting, Cleaning
  <2>2. /\ handler'.at = "removeBinding" /\ handler'.db = handler.db /\ handler'.delete = handler.delete /\ handler'.dropped
    BY <1>30, <1>2, <2>1 DEF RemoveRecord, DbGoto, Handlers
  <2>3. UNCHANGED <<binding, liveDb, drops, deletion, role>> /\ role[handler.db] = 0 /\ ~record'[handler.db]
    BY <1>30, <1>1, <2>1 DEF RemoveRecord, engineVars, DbAt, DeletingOK, Cleaning, HandlerTypeOK
  <2> QED BY <1>3, <2>1, <2>2, <2>3 DEF DeletingOK, Deleting, Deciding, Cleaning, Took
<1>31. CASE RemoveBinding
  <2>1. /\ handler.at = "removeBinding" /\ handler.db \in Dbs /\ handler.delete \in Deletes /\ handler.dropped
        /\ deletion[handler.delete].db = handler.db /\ deletion[handler.delete].status = "database-dropped"
        /\ liveDb[handler.db] = 0 /\ binding[handler.db] = "active"
        /\ \A o \in Deletes \ {handler.delete} :
              deletion[o].db = handler.db /\ Took(o) # {} => deletion[o].status \in Finished
    BY <1>31, <1>1, <1>2 DEF RemoveBinding, DbAt, DeletingOK, Deleting, Cleaning
  <2>2. /\ handler'.at = "complete" /\ handler'.db = handler.db /\ handler'.delete = handler.delete /\ handler'.dropped
    BY <1>31, <1>2, <2>1 DEF RemoveBinding, DbGoto, Handlers
  <2>3. UNCHANGED <<record, liveDb, drops, deletion, role>> /\ role[handler.db] = 0 /\ ~record[handler.db] /\ binding'[handler.db] = "none"
    BY <1>31, <1>1, <2>1 DEF RemoveBinding, engineVars, DbAt, DeletingOK, Cleaning, DbTypeOK
  <2> QED BY <1>3, <2>1, <2>2, <2>3 DEF DeletingOK, Deleting, Deciding, Cleaning, Took
<1>32. CASE Complete
  <2>1. handler'.at \notin Deleting
    BY <1>32, <1>2 DEF Complete, DbAt, DbGoto, End, NoJob, Deleting, Deciding, Cleaning, Handlers
  <2> QED BY <1>4, <2>1
<1>33. CASE RecordFailure
  <2>1. handler'.at \notin Deleting
    BY <1>33, <1>2 DEF RecordFailure, DbAt, DbGoto, End, NoJob, Deleting, Deciding, Cleaning, Handlers
  <2> QED BY <1>4, <2>1
<1>34. ASSUME NEW d \in Dbs, LateDrop(d) PROVE DeletingOK'
  <2>1. /\ UNCHANGED <<handler, deletion, binding, record, role>>
        /\ Dropped(d, lateDrop[d]) /\ lateDrop[d] \in Deletes
        /\ deletion[lateDrop[d]].db = d
    BY <1>34, <1>1 DEF LateDrop, LateOK, HandlerTypeOK, fileVars
  <2>2. /\ liveDb'[d] = 0 /\ \A c \in Dbs \ {d} : liveDb'[c] = liveDb[c]
        /\ \A o \in Deletes \ {lateDrop[d]} : Took(o)' = Took(o)
    BY <1>1, <2>1, DropTakes DEF Took
  <2>3. handler.dropped => handler.db \in Dbs /\ handler.db # d
    BY <1>34, <1>1 DEF LateDrop, DeletingOK
  <2>4. handler.dropped => liveDb'[handler.db] = liveDb[handler.db]
    BY <2>2, <2>3
  <2>5. handler.dropped => \A o \in Deletes : deletion[o].db = handler.db => Took(o)' = Took(o)
    BY <2>1, <2>2, <2>3
  <2> QED BY <1>1, <1>3, <2>1, <2>4, <2>5 DEF DeletingOK, Cleaning
<1>35. CASE DbWriteFails
  <2>1. handler.at \in InCatch /\ handler' = [handler EXCEPT !.at = "fail"]
    BY <1>35, <1>4 DEF DbWriteFails, DbGoto, End, NoJob, Deleting, Deciding, Cleaning
  <2>2. handler'.at = "fail" /\ handler'.db = handler.db /\ handler'.delete = handler.delete /\ (handler'.dropped <=> handler.dropped)
    BY <1>2, <2>1 DEF Handlers
  <2>3. /\ handler.delete \in Deletes /\ deletion[handler.delete].db = handler.db /\ handler.dropped
        /\ deletion[handler.delete].status \in {"executing", "database-dropped"}
    BY <1>1, <2>1 DEF InCatch, DeletingOK, Deleting, Cleaning
  <2>4. deletion' = deletion
    BY <1>35 DEF DbWriteFails, fileVars
  <2> QED BY <1>3, <2>2, <2>3, <2>4 DEF DeletingOK, Deleting, Deciding, Cleaning
<1>36. CASE DbRestart
  <2>1. handler'.at \notin Deleting
    BY <1>36, <1>2 DEF DbRestart, DbAt, DbGoto, End, NoJob, Deleting, Deciding, Cleaning, Handlers
  <2> QED BY <1>4, <2>1
<1> QED BY <1>5, <1>6, <1>7, <1>8, <1>9, <1>10, <1>11, <1>12, <1>13, <1>14, <1>15, <1>16,
       <1>17, <1>18, <1>19, <1>20, <1>21, <1>22, <1>23, <1>24, <1>25, <1>26, <1>27,
       <1>28, <1>29, <1>30, <1>31, <1>32, <1>33, <1>34, <1>35, <1>36 DEF DbNext, DeleteStep

\* The invariant holds at the start.
LEMMA InitDatabases == DbInit => DatabaseInv
<1> SUFFICES ASSUME DbInit PROVE DatabaseInv
  OBVIOUS
<1> USE DatabaseConstants
<1>1. Unrequested \in Operations /\ NoJob \in Handlers /\ Free \in [busy : BOOLEAN, dbs : SUBSET Dbs]
  BY DEF Unrequested, NoJob, Free, Operations, Handlers, Statuses, Steps, Passwords
<1>2. DbTypeOK
  BY DEF DbInit, DbTypeOK, Unrequested
<1>3. HandlerTypeOK
  BY <1>1 DEF DbInit, HandlerTypeOK, Passwords
<1>4. CreatingOK /\ DeletingOK
  BY DEF DbInit, CreatingOK, DeletingOK, NoJob, Creating, Rotating, Deciding, Deleting, Cleaning
<1>5. LateOK /\ SpentOK
  BY DEF DbInit, LateOK, SpentOK, Took, Unrequested
<1>6. PrincipalsBound /\ LossIsAccounted
  BY DEF DbInit, PrincipalsBound, LossIsAccounted
<1>7. DropsItsOwn
  <2>1. \A o \in Deletes : drops[o] \ {0} = {}
    BY DEF DbInit
  <2> QED BY <2>1, FS_EmptySet DEF DropsItsOwn
<1> QED BY <1>2, <1>3, <1>4, <1>5, <1>6, <1>7 DEF DatabaseInv

\* Every step, or none, keeps the invariant.
LEMMA DatabaseStep == DatabaseInv /\ [DbNext]_dbVars => DatabaseInv'
<1>1. ASSUME DatabaseInv, DbNext PROVE DatabaseInv'
  <2>1. DbTypeOK' /\ HandlerTypeOK'
    BY <1>1, TypeStep
  <2>2. CreatingOK' /\ DeletingOK' /\ LateOK' /\ SpentOK'
    BY <1>1, <2>1, CreatingStep, DeletingStep, LateStep, SpentStep
  <2>3. PrincipalsBound' /\ LossIsAccounted' /\ DropsItsOwn'
    BY <1>1, <2>1, PrincipalsStep, LossStep, DropsStep
  <2> QED BY <2>1, <2>2, <2>3 DEF DatabaseInv
<1>2. ASSUME DatabaseInv, UNCHANGED dbVars PROVE DatabaseInv'
  <2>1. DbTypeOK' /\ HandlerTypeOK'
    BY <1>2 DEF dbVars, DatabaseInv, DbTypeOK, HandlerTypeOK
  <2>2. CreatingOK'
    BY <1>2 DEF dbVars, DatabaseInv, CreatingOK, Accounted
  <2>3. DeletingOK'
    BY <1>2 DEF dbVars, DatabaseInv, DeletingOK, Took
  <2>4. LateOK' /\ PrincipalsBound'
    BY <1>2 DEF dbVars, DatabaseInv, LateOK, PrincipalsBound
  <2>5. SpentOK'
    BY <1>2 DEF dbVars, DatabaseInv, SpentOK, Took
  <2>6. LossIsAccounted' /\ DropsItsOwn'
    BY <1>2 DEF dbVars, DatabaseInv, LossIsAccounted, DropsItsOwn
  <2> QED BY <2>1, <2>2, <2>3, <2>4, <2>5, <2>6 DEF DatabaseInv
<1> QED BY <1>1, <1>2

\* The invariant holds for every set of databases, operations and requests.
THEOREM DatabaseInvariant == DbSpec => []DatabaseInv
BY InitDatabases, DatabaseStep, PTL DEF DbSpec

----------------------------------------------------------------------------
(* The properties                                                             *)

\* Registry, credential files, engines and delete operations keep their types,
\* and a principal owns live databases only.
THEOREM DbTypeCorrect == DbSpec => []DbTypeOK
<1>1. DatabaseInv => DbTypeOK
  BY DEF DatabaseInv
<1> QED BY <1>1, DatabaseInvariant, PTL

\* A principal or a live database has a registry entry that binds it, whatever
\* command fails half way and whenever the process stops.
THEOREM PrincipalsBoundHolds == DbSpec => []PrincipalsBound
<1>1. DatabaseInv => PrincipalsBound
  BY DEF DatabaseInv
<1> QED BY <1>1, DatabaseInvariant, PTL

\* A registered database that is gone was dropped by a delete operation that is
\* on record and has not completed, late DROPs included.
THEOREM LossIsAccountedHolds == DbSpec => []LossIsAccounted
<1>1. DatabaseInv => LossIsAccounted
  BY DEF DatabaseInv
<1> QED BY <1>1, DatabaseInvariant, PTL

\* One approved operation takes one live database, its own or the one that was
\* created in its place, however often it is approved and executed again.
THEOREM DropsItsOwnHolds == DbSpec => []DropsItsOwn
<1>1. DatabaseInv => DropsItsOwn
  BY DEF DatabaseInv
<1> QED BY <1>1, DatabaseInvariant, PTL

\* Nothing of a database is cleaned up while its operation is not on record as
\* database-dropped.
LEMMA CleanupStep ==
  ASSUME DatabaseInv, DbNext, NEW d \in Dbs,
         \/ role[d] # 0 /\ role'[d] = 0
         \/ secretFile[d] # 0 /\ secretFile'[d] = 0
         \/ record[d] /\ ~record'[d]
         \/ binding[d] # "none" /\ binding'[d] = "none"
  PROVE  \E o \in Deletes : deletion[o].db = d /\ deletion[o].status = "database-dropped"
<1>1. DbTypeOK /\ HandlerTypeOK /\ CreatingOK /\ DeletingOK
  BY DEF DatabaseInv
<1>2. handler.at \in Cleaning => /\ handler.delete \in Deletes /\ deletion[handler.delete].db = handler.db
                            /\ deletion[handler.delete].status = "database-dropped"
  BY <1>1 DEF DeletingOK, Deleting
<1>3. handler.at \in Creating \cup Rotating => handler.secret # 0 /\ handler.db \in Dbs
  BY <1>1 DEF CreatingOK, Creating, Rotating
<1> DEFINE Dropping == \E o \in Deletes : deletion[o].db = d /\ deletion[o].status = "database-dropped"
<1>4. ASSUME NEW s \in Slots, NEW c \in Dbs, CreateReserve(s, c) PROVE Dropping
  BY <1>4, <1>1, <1>3 DEF CreateReserve, Enter, DbAt, engineVars, fileVars, Creating, Rotating,
      DbTypeOK, HandlerTypeOK
<1>5. ASSUME NEW s \in Slots, NEW c \in Dbs, Update(s, c) PROVE Dropping
  BY <1>5, <1>1, <1>3 DEF Update, Enter, DbAt, engineVars, fileVars, Creating, Rotating,
      DbTypeOK, HandlerTypeOK
<1>6. CASE Provision
  BY <1>6, <1>1, <1>3 DEF Provision, CreateAllowed, DbAt, engineVars, fileVars, Creating,
      Rotating, DbTypeOK, HandlerTypeOK
<1>7. CASE ProvisionFails
  BY <1>7, <1>1, <1>3 DEF ProvisionFails, CreateAllowed, DbAt, engineVars, fileVars, Creating,
      Rotating, DbTypeOK, HandlerTypeOK
<1>8. CASE WriteSecret
  BY <1>8, <1>1, <1>3 DEF WriteSecret, DbAt, engineVars, fileVars, Creating, Rotating, DbTypeOK,
      HandlerTypeOK
<1>9. CASE WriteRecord
  BY <1>9, <1>1, <1>3 DEF WriteRecord, DbAt, engineVars, fileVars, Creating, Rotating, DbTypeOK,
      HandlerTypeOK
<1>10. CASE Activate
  BY <1>10, <1>1, <1>3 DEF Activate, DbAt, engineVars, fileVars, Creating, Rotating, DbTypeOK,
      HandlerTypeOK
<1>11. CASE RotateLive
  BY <1>11, <1>1, <1>3 DEF RotateLive, CreateAllowed, Owns, DbAt, engineVars, fileVars, Creating,
      Rotating, DbTypeOK, HandlerTypeOK
<1>12. CASE RotateFails
  BY <1>12, <1>1, <1>3 DEF RotateFails, Owns, DbAt, engineVars, fileVars, Creating, Rotating,
      DbTypeOK, HandlerTypeOK
<1>13. CASE RotateSecret
  BY <1>13, <1>1, <1>3 DEF RotateSecret, DbAt, engineVars, fileVars, Creating, Rotating,
      DbTypeOK, HandlerTypeOK
<1>14. CASE RotateRecord
  BY <1>14, <1>1, <1>3 DEF RotateRecord, DbAt, engineVars, fileVars, Creating, Rotating,
      DbTypeOK, HandlerTypeOK
<1>15. CASE Cleanup
  <2>1. handler.at \in Cleaning /\ d = handler.db
    BY <1>15, <1>1 DEF Cleanup, DbAt, DbTypeOK, HandlerTypeOK, engineVars, fileVars, Cleaning
  <2> QED BY <1>2, <2>1
<1>16. CASE CleanupFails
  <2>1. handler.at \in Cleaning /\ d = handler.db
    BY <1>16, <1>1 DEF CleanupFails, DbAt, DbTypeOK, HandlerTypeOK, engineVars, fileVars, Cleaning
  <2> QED BY <1>2, <2>1
<1>17. CASE RemoveSecret
  <2>1. handler.at \in Cleaning /\ d = handler.db
    BY <1>17, <1>1 DEF RemoveSecret, DbAt, DbTypeOK, HandlerTypeOK, engineVars, fileVars, Cleaning
  <2> QED BY <1>2, <2>1
<1>18. CASE RemoveRecord
  <2>1. handler.at \in Cleaning /\ d = handler.db
    BY <1>18, <1>1 DEF RemoveRecord, DbAt, DbTypeOK, HandlerTypeOK, engineVars, fileVars, Cleaning
  <2> QED BY <1>2, <2>1
<1>19. CASE RemoveBinding
  <2>1. handler.at \in Cleaning /\ d = handler.db
    BY <1>19, <1>1 DEF RemoveBinding, DbAt, DbTypeOK, HandlerTypeOK, engineVars, fileVars, Cleaning
  <2> QED BY <1>2, <2>1
<1>20. CASE ~((\E s \in Slots, c \in Dbs : CreateReserve(s, c)) \/ (\E s \in Slots, c \in Dbs : Update(s,
            c)) \/ Provision \/ ProvisionFails \/ WriteSecret \/ WriteRecord \/ Activate \/ RotateLive \/
            RotateFails \/ RotateSecret \/ RotateRecord \/ Cleanup \/ CleanupFails \/ RemoveSecret \/
            RemoveRecord \/ RemoveBinding)
  <2>1. UNCHANGED <<role, secretFile, record, binding>>
    BY <1>20, Zenon DEF DbNext, DeleteStep, engineVars, fileVars, Arrive, PlanOnly, Rotate,
        Approve, Execute, RequestDelete, ApproveNow, ExecuteNow, DropDatabase, DropFails,
        Checkpoint, Complete, RecordFailure, LateDrop, DbWriteFails, DbRestart
  <2> QED BY <2>1
<1> QED BY <1>4, <1>5, <1>6, <1>7, <1>8, <1>9, <1>10, <1>11, <1>12, <1>13, <1>14, <1>15,
       <1>16, <1>17, <1>18, <1>19, <1>20 DEF DbNext, DeleteStep

\* "`database-dropped` is persisted before any principal, credential or metadata
\* cleanup", in every step of every handler.
THEOREM CheckpointFirstHolds == DbSpec => CheckpointFirst
<1> DEFINE A == \A d \in Dbs :
                   \/ role[d] # 0 /\ role'[d] = 0
                   \/ secretFile[d] # 0 /\ secretFile'[d] = 0
                   \/ record[d] /\ ~record'[d]
                   \/ binding[d] # "none" /\ binding'[d] = "none"
                   => \E o \in Deletes : deletion[o].db = d /\ deletion[o].status = "database-dropped"
<1>1. DatabaseInv /\ [DbNext]_dbVars => [A]_dbVars
  BY CleanupStep
<1>2. DbSpec => [][A]_dbVars
  <2> HIDE DEF A
  <2> QED BY <1>1, DatabaseInvariant, PTL DEF DbSpec
<1> QED BY <1>2 DEF CheckpointFirst

----------------------------------------------------------------------------
(* The inductive invariant of the visibility provider: for each step of       *)
(* applyVisibilityLocked, what the steps before it have established.          *)

\* The steps a call of each mode passes through.
Publishing == {"next", "dns", "saveDns", "route", "check", "put", "readback", "saveRoute", "mode"}
Gating == {"next", "postApp", "saveApp"}
Closing == {"dropApp", "forgetApp"}
Withdrawing == {"adopt", "withdraw", "dropDns", "forgetDns"}

VisibilitySteps == Publishing \cup Gating \cup Closing \cup Withdrawing \cup {"idle"}
Rules == {"none", "origin", "block"}
Entries == [known : BOOLEAN, app : BOOLEAN, dns : BOOLEAN, route : Rules]
Calls == [mode : Modes \cup {"none"}, phase : {"none", "gate", "apply"}, todo : SUBSET Hosts,
          host : Hosts \cup {NoHost}, at : VisibilitySteps, next : Rules, moved : BOOLEAN]

\* The local variables of the call.
ApplyTypeOK == apply \in Calls

\* A call is at a step of its mode, and works on a host.
StageOK ==
    /\ apply.at = "idle" => apply = NoApply
    /\ apply # NoApply =>
          /\ apply.mode \in Modes /\ apply.phase \in {"gate", "apply"}
          /\ apply.mode = "private" => apply.at \in Publishing \cup Gating
          /\ apply.mode = "public" => apply.at \in Publishing \cup Closing
          /\ apply.mode = "offline" => apply.at \in (Publishing \ {"route"}) \cup Withdrawing
          /\ apply.phase = "gate" => apply.mode = "private" /\ apply.at \in Gating
          /\ apply.at # "next" => apply.host \in Hosts

\* Private: the hosts that were visited are gated, all of them before the
\* second pass, the host at hand before its record and its route.
GatedFirst ==
    apply.mode = "private" =>
        /\ apply.phase = "gate" =>
              \A h \in Hosts \ apply.todo : h \in app \/ (h = apply.host /\ apply.at = "postApp")
        /\ apply.phase = "apply" /\ Cardinality(Hosts) > 1 => app = Hosts
        /\ apply.at \notin {"next", "postApp"} => apply.host \in app

\* Public: the owner has asked for it.
AskedFor == apply.mode = "public" => exposable = Hosts

\* Offline marks a record that is there, and only removes or blocks a route.
TunnelWrite ==
    /\ apply.mode = "offline" /\ apply.at = "dns" => dns[apply.host] # "none"
    /\ apply.at \in {"check", "put"} =>
          apply.next = (IF apply.mode # "offline" THEN "origin"
                        ELSE IF apply.host \in Wild THEN "block" ELSE "none")
    /\ apply.at = "put" /\ apply.moved => raced

\* The route is there before its rule is saved, and both before the gate goes.
RouteFirst ==
    /\ apply.mode # "offline" /\ apply.at \in {"readback", "saveRoute", "dropApp"} =>
          route[apply.host] = "origin"
    /\ apply.at = "dropApp" => apply.host \in app /\ managed[apply.host].route = "origin"

\* The three conjuncts of Consistent.
AppAgrees(h) == h \in app <=> managed[h].app
RouteAgrees(h) ==
    managed[h].route = route[h] \/ (managed[h].route = "none" /\ route[h] = "origin" /\ ~isClone)
DnsAgrees(h) ==
    \/ dns[h] = "none" /\ ~managed[h].dns
    \/ dns[h] = "tagged" /\ managed[h].dns
    \/ dns[h] = "plain" /\ ~managed[h].dns /\ ~isClone

\* Only the host at hand can disagree with the state file, and only in what was
\* written last.
Agreement ==
    /\ \A h \in Hosts \ wounded : h # apply.host \/ apply.at = "next" => Consistent(h)
    /\ apply.at \notin {"idle", "next"} =>
          /\ apply.at \notin {"saveApp", "forgetApp"} => AppAgrees(apply.host)
          /\ apply.at \notin {"readback", "saveRoute"} => RouteAgrees(apply.host)
          /\ apply.at \notin {"saveDns", "forgetDns"} => DnsAgrees(apply.host)
          /\ apply.at = "saveApp" => apply.host \in app
          /\ apply.at = "saveDns" => dns[apply.host] = "tagged"
          /\ apply.at = "forgetApp" => apply.host \notin app
          /\ apply.at = "forgetDns" => dns[apply.host] = "none"

VisibilityInv ==
    /\ CfTypeOK /\ ApplyTypeOK /\ StageOK
    /\ GatedFirst /\ AskedFor /\ TunnelWrite /\ RouteFirst
    /\ Agreement
    /\ NeverExposed
    /\ reverted => raced

----------------------------------------------------------------------------
(* Records after an update                                                    *)

\* A call whose locals are assigned values of their types is a call.
LEMMA CallTyped ==
  ASSUME NEW c \in Calls
  PROVE  /\ \A s \in VisibilitySteps : [c EXCEPT !.at = s] \in Calls
         /\ \A s \in VisibilitySteps, r \in Rules : [c EXCEPT !.at = s, !.next = r] \in Calls
         /\ \A s \in VisibilitySteps, b \in BOOLEAN : [c EXCEPT !.at = s, !.moved = b] \in Calls
         /\ \A t \in SUBSET Hosts : [c EXCEPT !.phase = "apply", !.todo = t] \in Calls
         /\ [c EXCEPT !.moved = TRUE] \in Calls
<1>1. ASSUME NEW s \in VisibilitySteps PROVE [c EXCEPT !.at = s] \in Calls
  BY <1>1 DEF Calls
<1>2. ASSUME NEW s \in VisibilitySteps, NEW r \in Rules PROVE [c EXCEPT !.at = s, !.next = r] \in Calls
  <2> DEFINE d == [c EXCEPT !.at = s]
  <2>1. d \in Calls
    BY <1>1, <1>2
  <2>2. [d EXCEPT !.next = r] \in Calls
    <3> HIDE DEF d
    <3> QED BY <2>1, <1>2 DEF Calls
  <2> QED BY <2>2
<1>3. ASSUME NEW s \in VisibilitySteps, NEW b \in BOOLEAN PROVE [c EXCEPT !.at = s, !.moved = b] \in Calls
  <2> DEFINE d == [c EXCEPT !.at = s]
  <2>1. d \in Calls
    BY <1>1, <1>3
  <2>2. [d EXCEPT !.moved = b] \in Calls
    <3> HIDE DEF d
    <3> QED BY <2>1, <1>3 DEF Calls
  <2> QED BY <2>2
<1>4. ASSUME NEW t \in SUBSET Hosts PROVE [c EXCEPT !.phase = "apply", !.todo = t] \in Calls
  <2> DEFINE d == [c EXCEPT !.phase = "apply"]
  <2>1. d \in Calls
    BY DEF Calls
  <2>2. [d EXCEPT !.todo = t] \in Calls
    <3> HIDE DEF d
    <3> QED BY <2>1, <1>4 DEF Calls
  <2> QED BY <2>2
<1>5. [c EXCEPT !.moved = TRUE] \in Calls
  BY Zenon DEF Calls
<1> QED BY Zenon, <1>1, <1>2, <1>3, <1>4, <1>5

\* The first step of a call.
LEMMA BeginCall ==
  ASSUME NEW m \in Modes, ApplyBegin(m)
  PROVE  /\ apply' \in Calls
         /\ apply'.mode = m /\ apply'.todo = Hosts /\ apply'.at = "next"
         /\ apply'.phase = IF m = "private" /\ Cardinality(Hosts) > 1 THEN "gate" ELSE "apply"
         /\ apply'.host = NoHost /\ ~apply'.moved
<1> DEFINE p == IF m = "private" /\ Cardinality(Hosts) > 1 THEN "gate" ELSE "apply"
<1>1. apply' = [mode |-> m, phase |-> p, todo |-> Hosts, host |-> NoHost, at |-> "next",
                next |-> "none", moved |-> FALSE]
  BY Zenon DEF ApplyBegin, NoApply
<1>2. p \in {"none", "gate", "apply"}
  OBVIOUS
<1> HIDE DEF p
<1>3. apply' \in Calls
  BY <1>1, <1>2 DEF Calls, VisibilitySteps, Publishing, Rules
<1> QED BY <1>1, <1>3 DEF p

\* Taking the next host either ends the call or leaves its mode and phase.
LEMMA StartHostCall ==
  ASSUME ApplyTypeOK, NEW h \in Hosts, StartHost(h), apply' # NoApply
  PROVE  /\ apply' \in Calls
         /\ Consistent(h)
         /\ apply'.mode = apply.mode /\ apply'.phase = apply.phase /\ apply'.next = apply.next
         /\ apply'.todo = apply.todo \ {h} /\ apply'.host = h /\ apply'.at = ApplyFirst(h)
<1> DEFINE b == (apply.phase = "gate" /\ apply.moved)
           c == [apply EXCEPT !.todo = @ \ {h}]
           d == [c EXCEPT !.host = h]
           e == [d EXCEPT !.at = ApplyFirst(h)]
           f == [e EXCEPT !.moved = b]
<1>1. Consistent(h) /\ apply' = [apply EXCEPT !.todo = @ \ {h}, !.host = h, !.at = ApplyFirst(h),
                                   !.moved = apply.phase = "gate" /\ @]
  BY DEF StartHost
<1>2. ApplyFirst(h) \in VisibilitySteps
  BY DEF ApplyFirst, VisibilitySteps, Publishing, Gating, Closing, Withdrawing
<1>3. c \in Calls
  BY DEF ApplyTypeOK, Calls
<1>4. d \in Calls
  <2> HIDE DEF c
  <2> QED BY <1>3 DEF Calls
<1>5. e \in Calls
  <2> HIDE DEF d
  <2> QED BY <1>2, <1>4 DEF Calls
<1>6. b \in BOOLEAN
  OBVIOUS
<1>7. f \in Calls
  <2> HIDE DEF e, b
  <2> QED BY <1>5, <1>6 DEF Calls
<1>8. apply' = f
  BY <1>1 DEF ApplyTypeOK, Calls
<1> QED BY <1>1, <1>7, <1>8 DEF ApplyTypeOK, Calls

----------------------------------------------------------------------------
(* Every step preserves the invariant, conjunct by conjunct                   *)

\* The apply in progress keeps its types.
LEMMA ApplyTypeStep ==
  ASSUME VisibilityInv, CfNext
  PROVE  ApplyTypeOK'
<1> USE DEF CfAt, CfGoto, VisibilitySteps, Publishing, Gating, Closing, Withdrawing
<1>1. /\ apply \in Calls /\ NoApply \in Calls
      /\ \A s \in VisibilitySteps : [apply EXCEPT !.at = s] \in Calls
      /\ \A s \in VisibilitySteps, r \in Rules : [apply EXCEPT !.at = s, !.next = r] \in Calls
      /\ \A s \in VisibilitySteps, b \in BOOLEAN : [apply EXCEPT !.at = s, !.moved = b] \in Calls
      /\ [apply EXCEPT !.phase = "apply", !.todo = Hosts] \in Calls
      /\ [apply EXCEPT !.moved = TRUE] \in Calls
  <2>1. apply \in Calls
    BY DEF VisibilityInv, ApplyTypeOK
  <2>2. NoApply \in Calls
    BY DEF NoApply, Calls, Rules
  <2> QED BY Zenon, <2>1, <2>2, CallTyped
<1> SUFFICES apply' \in Calls
  BY DEF ApplyTypeOK
<1>2. ASSUME NEW m \in Modes, PlanGroup(m) PROVE apply' \in Calls
  BY Zenon, <1>1, <1>2 DEF PlanGroup
<1>3. ASSUME NEW m \in Modes, ApplyBegin(m) PROVE apply' \in Calls
  BY <1>3, BeginCall
<1>4. ASSUME NEW h \in Hosts, StartHost(h) PROVE apply' \in Calls
  BY Zenon, <1>1, <1>4, StartHostCall DEF ApplyTypeOK
<1>5. CASE NextPhase
  BY Zenon, <1>1, <1>5 DEF NextPhase
<1>6. CASE PostApp
  BY Zenon, <1>1, <1>6 DEF PostApp
<1>7. CASE WriteDns
  BY Zenon, <1>1, <1>7 DEF WriteDns
<1>8. CASE DropApp \/ ForgetApp \/ ForgetDns
  BY Zenon, <1>1, <1>8 DEF DropApp, ForgetApp, ForgetDns
<1>9. CASE SaveApp
  BY Zenon, <1>1, <1>9 DEF SaveApp
<1>10. CASE SaveDns
  BY Zenon, <1>1, <1>10 DEF SaveDns
<1>11. CASE AdoptRoute
  BY Zenon, <1>1, <1>11 DEF AdoptRoute
<1>12. CASE DropDns
  BY Zenon, <1>1, <1>12 DEF DropDns
<1>13. CASE EnsureRoute
  BY Zenon, <1>1, <1>13 DEF EnsureRoute, Rules
<1>14. CASE Withdraw
  BY Zenon, <1>1, <1>14 DEF Withdraw, Rules
<1>15. CASE CheckTunnel \/ Readback
  BY Zenon, <1>1, <1>15 DEF CheckTunnel, Readback
<1>16. CASE PutTunnel
  BY Zenon, <1>1, <1>16 DEF PutTunnel
<1>17. CASE SaveRoute
  BY Zenon, <1>1, <1>17 DEF SaveRoute
<1>18. CASE SaveMode \/ Abandon
  BY Zenon, <1>1, <1>18 DEF SaveMode, Abandon
<1>19. CASE OtherWriter
  BY Zenon, <1>1, <1>19 DEF OtherWriter
<1> QED BY <1>2, <1>3, <1>4, <1>5, <1>6, <1>7, <1>8, <1>9, <1>10, <1>11, <1>12, <1>13,
       <1>14, <1>15, <1>16, <1>17, <1>18, <1>19 DEF CfNext

\* A host that an apply exposes was asked for.
LEMMA AskedForStep ==
  ASSUME VisibilityInv, ApplyTypeOK', UNCHANGED isClone, CfNext
  PROVE  AskedFor'
<1> USE VisibilityConstants DEF VisibilityInv, CfAt, CfGoto, History, VisibilitySteps, Publishing, Gating,
        Closing, Withdrawing, Modes, AskedFor, StageOK, NoApply, ApplyTypeOK, Calls
<1>1. ASSUME NEW m \in Modes, PlanGroup(m) PROVE AskedFor'
  BY <1>1 DEF PlanGroup
<1>2. ASSUME NEW m \in Modes, ApplyBegin(m) PROVE AskedFor'
  BY <1>2 DEF ApplyBegin
<1>3. ASSUME NEW h \in Hosts, StartHost(h) PROVE AskedFor'
  <2>1. CASE apply' = NoApply
    BY <1>3, <2>1 DEF StartHost, NoApply
  <2>2. CASE apply' # NoApply
    <3>1. /\ apply'.mode = apply.mode /\ apply'.next = apply.next
          /\ apply'.host = h /\ apply'.at = ApplyFirst(h)
      BY <1>3, <2>2, StartHostCall
    <3>2. UNCHANGED <<dns, route, managed, app, exposable, raced>>
      BY <1>3 DEF StartHost
    <3>3. /\ ApplyFirst(h) \in {"next", "dns", "postApp", "adopt"}
          /\ apply.mode = "offline" /\ ApplyFirst(h) = "dns" => dns[h] # "none"
      BY DEF ApplyFirst
    <3> QED BY <3>1, <3>2, <3>3
  <2> QED BY <2>1, <2>2
<1>4. CASE NextPhase
  BY <1>4 DEF NextPhase
<1>5. CASE PostApp
  BY <1>5 DEF PostApp
<1>6. CASE SaveApp
  BY <1>6 DEF SaveApp
<1>7. CASE WriteDns
  BY <1>7 DEF WriteDns
<1>8. CASE SaveDns
  BY <1>8 DEF SaveDns
<1>9. CASE EnsureRoute
  BY <1>9 DEF EnsureRoute
<1>10. CASE AdoptRoute
  BY <1>10 DEF AdoptRoute
<1>11. CASE Withdraw
  BY <1>11 DEF Withdraw
<1>12. CASE CheckTunnel
  BY <1>12 DEF CheckTunnel
<1>13. CASE PutTunnel
  BY <1>13 DEF PutTunnel
<1>14. CASE Readback
  BY <1>14 DEF Readback
<1>15. CASE SaveRoute
  BY <1>15 DEF SaveRoute
<1>16. CASE DropApp
  BY <1>16 DEF DropApp
<1>17. CASE ForgetApp
  BY <1>17 DEF ForgetApp
<1>18. CASE DropDns
  BY <1>18 DEF DropDns
<1>19. CASE ForgetDns
  BY <1>19 DEF ForgetDns
<1>20. CASE SaveMode
  BY <1>20 DEF SaveMode
<1>21. CASE Abandon
  BY <1>21 DEF Abandon
<1>22. CASE OtherWriter
  BY <1>22 DEF OtherWriter
<1> QED BY <1>1, <1>2, <1>3, <1>4, <1>5, <1>6, <1>7, <1>8, <1>9, <1>10, <1>11, <1>12, <1>13,
       <1>14, <1>15, <1>16, <1>17, <1>18, <1>19, <1>20, <1>21, <1>22 DEF CfNext

\* Every step keeps what the stages of an apply rely on.
LEMMA StageStep ==
  ASSUME VisibilityInv, ApplyTypeOK', UNCHANGED isClone, CfNext
  PROVE  StageOK'
<1> USE VisibilityConstants DEF VisibilityInv, CfAt, CfGoto, History, VisibilitySteps, Publishing, Gating,
        Closing, Withdrawing, Modes, StageOK, NoApply, ApplyTypeOK, Calls
<1>1. ASSUME NEW m \in Modes, PlanGroup(m) PROVE StageOK'
  BY <1>1 DEF PlanGroup
<1>2. ASSUME NEW m \in Modes, ApplyBegin(m) PROVE StageOK'
  BY <1>2 DEF ApplyBegin
<1>3. ASSUME NEW h \in Hosts, StartHost(h) PROVE StageOK'
  <2>1. CASE apply' = NoApply
    BY <1>3, <2>1
  <2>2. CASE apply' # NoApply
    <3>1. apply # NoApply
      BY <1>3 DEF StartHost
    <3>3. /\ apply'.mode = apply.mode /\ apply'.phase = apply.phase
          /\ apply'.host = h /\ apply'.at = ApplyFirst(h)
      BY <1>3, <2>2, StartHostCall
    <3>2. /\ apply.mode = "private" => ApplyFirst(h) \in {"next", "dns", "postApp"}
          /\ apply.mode = "private" /\ apply.phase = "gate" => ApplyFirst(h) \in {"next", "postApp"}
          /\ apply.mode = "public" => ApplyFirst(h) = "dns"
          /\ apply.mode = "offline" => ApplyFirst(h) \in {"dns", "adopt"}
      BY DEF ApplyFirst
    <3> QED BY <2>2, <3>1, <3>2, <3>3
  <2> QED BY <2>1, <2>2
<1>4. CASE NextPhase
  BY <1>4 DEF NextPhase
<1>5. CASE PostApp
  BY <1>5 DEF PostApp
<1>6. CASE SaveApp
  BY <1>6 DEF SaveApp
<1>7. CASE WriteDns
  BY <1>7 DEF WriteDns
<1>8. CASE SaveDns
  BY <1>8 DEF SaveDns
<1>9. CASE EnsureRoute
  BY <1>9 DEF EnsureRoute
<1>10. CASE AdoptRoute
  BY <1>10 DEF AdoptRoute
<1>11. CASE Withdraw
  BY <1>11 DEF Withdraw
<1>12. CASE CheckTunnel
  BY <1>12 DEF CheckTunnel
<1>13. CASE PutTunnel
  BY <1>13 DEF PutTunnel
<1>14. CASE Readback
  BY <1>14 DEF Readback
<1>15. CASE SaveRoute
  BY <1>15 DEF SaveRoute
<1>16. CASE DropApp
  BY <1>16 DEF DropApp
<1>17. CASE ForgetApp
  BY <1>17 DEF ForgetApp
<1>18. CASE DropDns
  BY <1>18 DEF DropDns
<1>19. CASE ForgetDns
  BY <1>19 DEF ForgetDns
<1>20. CASE SaveMode
  BY <1>20 DEF SaveMode
<1>21. CASE Abandon
  BY <1>21 DEF Abandon
<1>22. CASE OtherWriter
  <2>1. CASE apply = NoApply
    BY <1>22, <2>1 DEF OtherWriter
  <2>2. CASE apply # NoApply
    <3>1. apply' = [apply EXCEPT !.moved = TRUE]
      BY <1>22, <2>2 DEF OtherWriter
    <3>2. /\ apply'.at = apply.at /\ apply'.mode = apply.mode /\ apply'.phase = apply.phase
          /\ apply'.host = apply.host
      BY <3>1
    <3>3. apply.at # "idle"
      BY <2>2
    <3> QED BY <2>2, <3>2, <3>3
  <2> QED BY <2>1, <2>2
<1> QED BY <1>1, <1>2, <1>3, <1>4, <1>5, <1>6, <1>7, <1>8, <1>9, <1>10, <1>11, <1>12, <1>13,
       <1>14, <1>15, <1>16, <1>17, <1>18, <1>19, <1>20, <1>21, <1>22 DEF CfNext

\* Every step keeps the route before its saved rule, and both before the gate goes.
LEMMA RouteFirstStep ==
  ASSUME VisibilityInv, ApplyTypeOK', UNCHANGED isClone, CfNext
  PROVE  RouteFirst'
<1> USE VisibilityConstants DEF VisibilityInv, CfAt, CfGoto, History, VisibilitySteps, Publishing, Gating,
        Closing, Withdrawing, Modes, StageOK, RouteFirst, NoApply, ApplyTypeOK, Calls, CfTypeOK,
        Save
<1>1. ASSUME NEW m \in Modes, PlanGroup(m) PROVE RouteFirst'
  BY <1>1 DEF PlanGroup
<1>2. ASSUME NEW m \in Modes, ApplyBegin(m) PROVE RouteFirst'
  BY <1>2 DEF ApplyBegin
<1>3. ASSUME NEW h \in Hosts, StartHost(h) PROVE RouteFirst'
  <2>1. CASE apply' = NoApply
    BY <1>3, <2>1 DEF StartHost, NoApply
  <2>2. CASE apply' # NoApply
    <3>1. /\ apply'.mode = apply.mode /\ apply'.next = apply.next
          /\ apply'.host = h /\ apply'.at = ApplyFirst(h)
      BY <1>3, <2>2, StartHostCall
    <3>2. UNCHANGED <<dns, route, managed, app, exposable, raced>>
      BY <1>3 DEF StartHost
    <3>3. /\ ApplyFirst(h) \in {"next", "dns", "postApp", "adopt"}
          /\ apply.mode = "offline" /\ ApplyFirst(h) = "dns" => dns[h] # "none"
      BY DEF ApplyFirst
    <3> QED BY <3>1, <3>2, <3>3
  <2> QED BY <2>1, <2>2
<1>4. CASE NextPhase
  BY <1>4 DEF NextPhase
<1>5. CASE PostApp
  BY <1>5 DEF PostApp
<1>6. CASE SaveApp
  BY <1>6 DEF SaveApp, Registered
<1>7. CASE WriteDns
  BY <1>7 DEF WriteDns
<1>8. CASE SaveDns
  BY <1>8 DEF SaveDns, Registered
<1>9. CASE EnsureRoute
  BY <1>9 DEF EnsureRoute
<1>10. CASE AdoptRoute
  BY <1>10 DEF AdoptRoute
<1>11. CASE Withdraw
  BY <1>11 DEF Withdraw
<1>12. CASE CheckTunnel
  BY <1>12 DEF CheckTunnel
<1>13. CASE PutTunnel
  BY <1>13 DEF PutTunnel, TunnelWrite
<1>14. CASE Readback
  BY <1>14 DEF Readback
<1>15. CASE SaveRoute
  BY <1>15 DEF SaveRoute, Registered
<1>16. CASE DropApp
  BY <1>16 DEF DropApp
<1>17. CASE ForgetApp
  BY <1>17 DEF ForgetApp
<1>18. CASE DropDns
  BY <1>18 DEF DropDns
<1>19. CASE ForgetDns
  BY <1>19 DEF ForgetDns
<1>20. CASE SaveMode
  BY <1>20 DEF SaveMode, Registered
<1>21. CASE Abandon
  BY <1>21 DEF Abandon
<1>22. CASE OtherWriter
  BY <1>22 DEF OtherWriter
<1> QED BY <1>1, <1>2, <1>3, <1>4, <1>5, <1>6, <1>7, <1>8, <1>9, <1>10, <1>11, <1>12, <1>13,
       <1>14, <1>15, <1>16, <1>17, <1>18, <1>19, <1>20, <1>21, <1>22 DEF CfNext

\* Every step keeps what a write of the tunnel was computed from.
LEMMA TunnelWriteStep ==
  ASSUME VisibilityInv, ApplyTypeOK', UNCHANGED isClone, CfNext
  PROVE  TunnelWrite'
<1> USE VisibilityConstants DEF VisibilityInv, CfAt, CfGoto, History, VisibilitySteps, Publishing, Gating,
        Closing, Withdrawing, Modes, StageOK, TunnelWrite, NoApply, ApplyTypeOK, Calls, CfTypeOK
<1>1. ASSUME NEW m \in Modes, PlanGroup(m) PROVE TunnelWrite'
  BY <1>1 DEF PlanGroup
<1>2. ASSUME NEW m \in Modes, ApplyBegin(m) PROVE TunnelWrite'
  BY <1>2 DEF ApplyBegin
<1>3. ASSUME NEW h \in Hosts, StartHost(h) PROVE TunnelWrite'
  <2>1. CASE apply' = NoApply
    BY <1>3, <2>1 DEF StartHost, NoApply
  <2>2. CASE apply' # NoApply
    <3>1. /\ apply'.mode = apply.mode /\ apply'.next = apply.next
          /\ apply'.host = h /\ apply'.at = ApplyFirst(h)
      BY <1>3, <2>2, StartHostCall
    <3>2. UNCHANGED <<dns, route, managed, app, exposable, raced>>
      BY <1>3 DEF StartHost
    <3>3. /\ ApplyFirst(h) \in {"next", "dns", "postApp", "adopt"}
          /\ apply.mode = "offline" /\ ApplyFirst(h) = "dns" => dns[h] # "none"
      BY DEF ApplyFirst
    <3> QED BY <3>1, <3>2, <3>3
  <2> QED BY <2>1, <2>2
<1>4. CASE NextPhase
  BY <1>4 DEF NextPhase
<1>5. CASE PostApp
  BY <1>5 DEF PostApp
<1>6. CASE SaveApp
  BY <1>6 DEF SaveApp
<1>7. CASE WriteDns
  BY <1>7 DEF WriteDns
<1>8. CASE SaveDns
  BY <1>8 DEF SaveDns
<1>9. CASE EnsureRoute
  BY <1>9 DEF EnsureRoute
<1>10. CASE AdoptRoute
  BY <1>10 DEF AdoptRoute
<1>11. CASE Withdraw
  BY <1>11 DEF Withdraw
<1>12. CASE CheckTunnel
  BY <1>12 DEF CheckTunnel
<1>13. CASE PutTunnel
  BY <1>13 DEF PutTunnel
<1>14. CASE Readback
  BY <1>14 DEF Readback
<1>15. CASE SaveRoute
  BY <1>15 DEF SaveRoute, Save
<1>16. CASE DropApp
  BY <1>16 DEF DropApp
<1>17. CASE ForgetApp
  BY <1>17 DEF ForgetApp
<1>18. CASE DropDns
  BY <1>18 DEF DropDns
<1>19. CASE ForgetDns
  BY <1>19 DEF ForgetDns
<1>20. CASE SaveMode
  BY <1>20 DEF SaveMode
<1>21. CASE Abandon
  BY <1>21 DEF Abandon
<1>22. CASE OtherWriter
  BY <1>22 DEF OtherWriter
<1> QED BY <1>1, <1>2, <1>3, <1>4, <1>5, <1>6, <1>7, <1>8, <1>9, <1>10, <1>11, <1>12, <1>13,
       <1>14, <1>15, <1>16, <1>17, <1>18, <1>19, <1>20, <1>21, <1>22 DEF CfNext

\* A route is added only behind its gate.
LEMMA GatedFirstStep ==
  ASSUME VisibilityInv, ApplyTypeOK', UNCHANGED isClone, CfNext
  PROVE  GatedFirst'
<1> USE VisibilityConstants DEF VisibilityInv, CfAt, CfGoto, History, VisibilitySteps, Publishing, Gating,
        Closing, Withdrawing, Modes, StageOK, GatedFirst, NoApply, ApplyTypeOK, Calls, CfTypeOK
<1>1. ASSUME NEW m \in Modes, PlanGroup(m) PROVE GatedFirst'
  BY <1>1 DEF PlanGroup
<1>2. ASSUME NEW m \in Modes, ApplyBegin(m) PROVE GatedFirst'
  BY <1>2 DEF ApplyBegin
<1>3. ASSUME NEW h \in Hosts, StartHost(h) PROVE GatedFirst'
  <2>1. CASE apply' = NoApply
    BY <1>3, <2>1
  <2>2. CASE apply' # NoApply
    <3>1. /\ apply.at = "next" /\ app' = app
          /\ apply'.mode = apply.mode /\ apply'.phase = apply.phase
          /\ apply'.todo = apply.todo \ {h} /\ apply'.host = h /\ apply'.at = ApplyFirst(h)
      BY Zenon, <1>3, <2>2, StartHostCall DEF StartHost
    <3>2. SUFFICES ASSUME apply.mode = "private"
                   PROVE  GatedFirst'
      BY <3>1
    <3>3. IF h \in app THEN ApplyFirst(h) \in {"next", "dns"} ELSE ApplyFirst(h) = "postApp"
      BY <3>2 DEF ApplyFirst
    <3>4. ASSUME apply.phase = "gate", NEW g \in Hosts \ apply'.todo
          PROVE  g \in app \/ (g = h /\ ApplyFirst(h) = "postApp")
      <4>1. CASE g = h
        BY <3>3, <4>1
      <4>2. CASE g # h
        BY <3>1, <3>2, <3>4, <4>2
      <4> QED BY <4>1, <4>2
    <3>5. apply.phase = "apply" /\ Cardinality(Hosts) > 1 => app = Hosts
      BY <3>2
    <3> QED BY <3>1, <3>2, <3>3, <3>4, <3>5
  <2> QED BY <2>1, <2>2
<1>4. CASE NextPhase
  <2>1. CASE apply.phase = "gate"
    <3>1. apply' = [apply EXCEPT !.phase = "apply", !.todo = Hosts]
      BY <1>4, <2>1 DEF NextPhase
    <3>2. /\ apply'.mode = apply.mode /\ apply'.phase = "apply"
          /\ apply'.at = "next" /\ app' = app
      BY Zenon, <1>4, <3>1 DEF NextPhase
    <3>3. apply.mode = "private" => \A h \in Hosts : h \in app
      BY <1>4, <2>1 DEF NextPhase
    <3> QED BY Zenon, <3>2, <3>3
  <2>2. CASE apply.phase # "gate"
    BY <1>4, <2>2 DEF NextPhase
  <2> QED BY <2>1, <2>2
<1>5. CASE PostApp
  BY <1>5 DEF PostApp
<1>6. CASE SaveApp
  BY <1>6 DEF SaveApp
<1>7. CASE WriteDns
  BY <1>7 DEF WriteDns
<1>8. CASE SaveDns
  BY <1>8 DEF SaveDns
<1>9. CASE EnsureRoute
  BY <1>9 DEF EnsureRoute
<1>10. CASE AdoptRoute
  BY <1>10 DEF AdoptRoute
<1>11. CASE Withdraw
  BY <1>11 DEF Withdraw
<1>12. CASE CheckTunnel
  BY <1>12 DEF CheckTunnel
<1>13. CASE PutTunnel
  BY <1>13 DEF PutTunnel
<1>14. CASE Readback
  BY <1>14 DEF Readback
<1>15. CASE SaveRoute
  BY <1>15 DEF SaveRoute
<1>16. CASE DropApp
  BY <1>16 DEF DropApp
<1>17. CASE ForgetApp
  BY <1>17 DEF ForgetApp
<1>18. CASE DropDns
  BY <1>18 DEF DropDns
<1>19. CASE ForgetDns
  BY <1>19 DEF ForgetDns
<1>20. CASE SaveMode
  BY <1>20 DEF SaveMode
<1>21. CASE Abandon
  BY <1>21 DEF Abandon
<1>22. CASE OtherWriter
  BY <1>22 DEF OtherWriter
<1> QED BY <1>1, <1>2, <1>3, <1>4, <1>5, <1>6, <1>7, <1>8, <1>9, <1>10, <1>11, <1>12, <1>13,
       <1>14, <1>15, <1>16, <1>17, <1>18, <1>19, <1>20, <1>21, <1>22 DEF CfNext

\* An entry saved for a host is an entry.
LEMMA EntryTyped ==
  ASSUME CfTypeOK, NEW h \in Hosts
  PROVE  /\ Registered(h) \in Entries
         /\ [Registered(h) EXCEPT !.app = TRUE] \in Entries
         /\ [Registered(h) EXCEPT !.dns = TRUE] \in Entries
         /\ [Registered(h) EXCEPT !.route = route[h]] \in Entries
         /\ [managed[h] EXCEPT !.app = FALSE] \in Entries
         /\ [managed[h] EXCEPT !.dns = FALSE] \in Entries
<1>1. managed[h] \in Entries /\ route[h] \in Rules
  BY DEF CfTypeOK, Entries, Rules
<1>2. Registered(h) \in Entries
  BY Zenon, <1>1 DEF Registered, Entries
<1> QED BY Zenon, <1>1, <1>2 DEF Entries

\* Every step keeps the types.
LEMMA CfTypeStep ==
  ASSUME VisibilityInv, ApplyTypeOK', UNCHANGED isClone, CfNext
  PROVE  CfTypeOK'
<1> USE VisibilityConstants DEF VisibilityInv, CfAt, CfGoto, History, VisibilitySteps, Publishing, Gating,
        Closing, Withdrawing, Modes
<1>1. ASSUME NEW m \in Modes, PlanGroup(m) PROVE CfTypeOK'
  BY <1>1 DEF PlanGroup, StageOK, ApplyTypeOK, Calls, TunnelWrite, NoApply, CfTypeOK
<1>2. ASSUME NEW m \in Modes, ApplyBegin(m) PROVE CfTypeOK'
  BY <1>2 DEF ApplyBegin, StageOK, ApplyTypeOK, Calls, TunnelWrite, NoApply, CfTypeOK
<1>3. ASSUME NEW h \in Hosts, StartHost(h) PROVE CfTypeOK'
  BY <1>3 DEF StartHost, ApplyFirst, StageOK, ApplyTypeOK, Calls, TunnelWrite, NoApply, CfTypeOK
<1>4. CASE NextPhase
  BY <1>4 DEF NextPhase, StageOK, ApplyTypeOK, Calls, TunnelWrite, NoApply, CfTypeOK
<1>5. CASE PostApp
  BY <1>5 DEF PostApp, StageOK, ApplyTypeOK, Calls, TunnelWrite, NoApply, CfTypeOK
<1>6. CASE SaveApp
  <2>1. apply.host \in Hosts
    BY <1>6 DEF SaveApp, StageOK, NoApply
  <2>2. [Registered(apply.host) EXCEPT !.app = TRUE] \in Entries
    BY Zenon, <2>1, EntryTyped
  <2>3. managed' \in [Hosts -> Entries]
    BY Zenon, <1>6, <2>2 DEF SaveApp, Save, CfTypeOK, Entries, Rules
  <2> QED BY <1>6, <2>3 DEF SaveApp, CfTypeOK, Entries, Rules, Save
<1>7. CASE WriteDns
  BY <1>7 DEF WriteDns, StageOK, ApplyTypeOK, Calls, TunnelWrite, NoApply, CfTypeOK
<1>8. CASE SaveDns
  <2>1. apply.host \in Hosts
    BY <1>8 DEF SaveDns, StageOK, NoApply
  <2>2. [Registered(apply.host) EXCEPT !.dns = TRUE] \in Entries
    BY Zenon, <2>1, EntryTyped
  <2>3. managed' \in [Hosts -> Entries]
    BY Zenon, <1>8, <2>2 DEF SaveDns, Save, CfTypeOK, Entries, Rules
  <2> QED BY <1>8, <2>3 DEF SaveDns, CfTypeOK, Entries, Rules, Save
<1>9. CASE EnsureRoute
  BY <1>9 DEF EnsureRoute, StageOK, ApplyTypeOK, Calls, TunnelWrite, NoApply, CfTypeOK
<1>10. CASE AdoptRoute
  BY <1>10 DEF AdoptRoute, StageOK, ApplyTypeOK, Calls, TunnelWrite, NoApply, CfTypeOK
<1>11. CASE Withdraw
  BY <1>11 DEF Withdraw, StageOK, ApplyTypeOK, Calls, TunnelWrite, NoApply, CfTypeOK
<1>12. CASE CheckTunnel
  BY <1>12 DEF CheckTunnel, StageOK, ApplyTypeOK, Calls, TunnelWrite, NoApply, CfTypeOK
<1>13. CASE PutTunnel
  BY <1>13 DEF PutTunnel, StageOK, ApplyTypeOK, Calls, TunnelWrite, NoApply, CfTypeOK
<1>14. CASE Readback
  BY <1>14 DEF Readback, StageOK, ApplyTypeOK, Calls, TunnelWrite, NoApply, CfTypeOK
<1>15. CASE SaveRoute
  <2>1. apply.host \in Hosts
    BY <1>15 DEF SaveRoute, StageOK, NoApply
  <2>2. [Registered(apply.host) EXCEPT !.route = route[apply.host]] \in Entries
    BY Zenon, <2>1, EntryTyped
  <2>3. managed' \in [Hosts -> Entries]
    BY Zenon, <1>15, <2>2 DEF SaveRoute, Save, CfTypeOK, Entries, Rules
  <2> QED BY <1>15, <2>3 DEF SaveRoute, CfTypeOK, Entries, Rules, Save
<1>16. CASE DropApp
  BY <1>16 DEF DropApp, StageOK, ApplyTypeOK, Calls, TunnelWrite, NoApply, CfTypeOK
<1>17. CASE ForgetApp
  <2>1. apply.host \in Hosts
    BY <1>17 DEF ForgetApp, StageOK, NoApply
  <2>2. [managed[apply.host] EXCEPT !.app = FALSE] \in Entries
    BY Zenon, <2>1, EntryTyped
  <2>3. managed' \in [Hosts -> Entries]
    BY Zenon, <1>17, <2>2 DEF ForgetApp, Save, CfTypeOK, Entries, Rules
  <2> QED BY <1>17, <2>3 DEF ForgetApp, CfTypeOK, Entries, Rules, Save
<1>18. CASE DropDns
  BY <1>18 DEF DropDns, StageOK, ApplyTypeOK, Calls, TunnelWrite, NoApply, CfTypeOK
<1>19. CASE ForgetDns
  <2>1. apply.host \in Hosts
    BY <1>19 DEF ForgetDns, StageOK, NoApply
  <2>2. [managed[apply.host] EXCEPT !.dns = FALSE] \in Entries
    BY Zenon, <2>1, EntryTyped
  <2>3. managed' \in [Hosts -> Entries]
    BY Zenon, <1>19, <2>2 DEF ForgetDns, Save, CfTypeOK, Entries, Rules
  <2> QED BY <1>19, <2>3 DEF ForgetDns, CfTypeOK, Entries, Rules, Save
<1>20. CASE SaveMode
  <2>1. apply.host \in Hosts
    BY <1>20 DEF SaveMode, StageOK, NoApply
  <2>2. Registered(apply.host) \in Entries
    BY Zenon, <2>1, EntryTyped
  <2>3. managed' \in [Hosts -> Entries]
    BY Zenon, <1>20, <2>2 DEF SaveMode, Save, CfTypeOK, Entries, Rules
  <2> QED BY <1>20, <2>3 DEF SaveMode, CfTypeOK, Entries, Rules, Save
<1>21. CASE Abandon
  BY <1>21 DEF Abandon, StageOK, ApplyTypeOK, Calls, TunnelWrite, NoApply, CfTypeOK
<1>22. CASE OtherWriter
  BY <1>22 DEF OtherWriter, StageOK, ApplyTypeOK, Calls, TunnelWrite, NoApply, CfTypeOK
<1> QED BY <1>1, <1>2, <1>3, <1>4, <1>5, <1>6, <1>7, <1>8, <1>9, <1>10, <1>11, <1>12, <1>13,
       <1>14, <1>15, <1>16, <1>17, <1>18, <1>19, <1>20, <1>21, <1>22 DEF CfNext

\* What the apply has read agrees with what the provider holds.
LEMMA AgreementStep ==
  ASSUME VisibilityInv, ApplyTypeOK', UNCHANGED isClone, CfNext
  PROVE  Agreement'
<1> USE VisibilityConstants DEF VisibilityInv, CfAt, CfGoto, History, VisibilitySteps, Publishing, Gating,
        Closing, Withdrawing, Modes, StageOK, Agreement, Consistent, AppAgrees, RouteAgrees,
        DnsAgrees, NoApply, ApplyTypeOK, Calls, CfTypeOK
<1>1. ASSUME NEW m \in Modes, PlanGroup(m) PROVE Agreement'
  BY <1>1 DEF PlanGroup
<1>2. ASSUME NEW m \in Modes, ApplyBegin(m) PROVE Agreement'
  BY <1>2 DEF ApplyBegin
<1>3. ASSUME NEW h \in Hosts, StartHost(h) PROVE Agreement'
  <2>1. CASE apply' = NoApply
    BY <1>3, <2>1 DEF StartHost
  <2>2. CASE apply' # NoApply
    <3>1. apply.at = "next" /\ UNCHANGED <<app, dns, route, managed, wounded>>
      BY <1>3 DEF StartHost
    <3>2. Consistent(h) /\ apply'.host = h /\ apply'.at = ApplyFirst(h)
      BY <1>3, <2>2, StartHostCall
    <3>3. ApplyFirst(h) \in {"next", "dns", "postApp", "adopt"}
      BY DEF ApplyFirst
    <3>4. \A g \in Hosts \ wounded : Consistent(g)
      BY <3>1
    <3>5. (AppAgrees(h) /\ RouteAgrees(h) /\ DnsAgrees(h))'
      BY <3>1, <3>2
    <3> QED BY <3>1, <3>2, <3>3, <3>4, <3>5
  <2> QED BY <2>1, <2>2
<1>4. CASE NextPhase
  BY <1>4 DEF NextPhase
<1>5. CASE PostApp
  BY <1>5 DEF PostApp
<1>6. CASE SaveApp
  BY <1>6 DEF SaveApp, Save, Registered
<1>7. CASE WriteDns
  BY <1>7 DEF WriteDns
<1>8. CASE SaveDns
  BY <1>8 DEF SaveDns, Save, Registered
<1>9. CASE EnsureRoute
  BY <1>9 DEF EnsureRoute
<1>10. CASE AdoptRoute
  <2>1. CASE apply'.at = "saveRoute"
    BY <1>10, <2>1 DEF AdoptRoute
  <2>2. CASE apply'.at # "saveRoute"
    BY <1>10, <2>2 DEF AdoptRoute
  <2> QED BY <2>1, <2>2
<1>11. CASE Withdraw
  BY <1>11 DEF Withdraw
<1>12. CASE CheckTunnel
  BY <1>12 DEF CheckTunnel
<1>13. CASE PutTunnel
  BY <1>13 DEF PutTunnel
<1>14. CASE Readback
  BY <1>14 DEF Readback
<1>15. CASE SaveRoute
  <2>1. apply.host \in Hosts /\ UNCHANGED <<app, dns, route, wounded>>
    BY <1>15 DEF SaveRoute
  <2>2. /\ managed'[apply.host].app = managed[apply.host].app
        /\ managed'[apply.host].dns = managed[apply.host].dns
        /\ managed'[apply.host].route = route[apply.host]
        /\ \A g \in Hosts \ {apply.host} : managed'[g] = managed[g]
    BY <1>15, <2>1 DEF SaveRoute, Save, Registered
  <2>3. apply'.host = apply.host /\ apply'.at \in {"withdraw", "dropDns", "dropApp", "mode"}
    BY <1>15 DEF SaveRoute
  <2>4. (AppAgrees(apply.host) /\ RouteAgrees(apply.host) /\ DnsAgrees(apply.host))'
    BY <1>15, <2>1, <2>2, <2>3 DEF SaveRoute
  <2>5. \A g \in Hosts \ wounded : g # apply.host => Consistent(g)'
    BY <2>1, <2>2
  <2> QED BY <2>1, <2>3, <2>4, <2>5
<1>16. CASE DropApp
  BY <1>16 DEF DropApp
<1>17. CASE ForgetApp
  BY <1>17 DEF ForgetApp, Save, Registered
<1>18. CASE DropDns
  BY <1>18 DEF DropDns
<1>19. CASE ForgetDns
  BY <1>19 DEF ForgetDns, Save, Registered
<1>20. CASE SaveMode
  BY <1>20 DEF SaveMode, Save, Registered
<1>21. CASE Abandon
  BY <1>21 DEF Abandon
<1>22. CASE OtherWriter
  BY <1>22 DEF OtherWriter
<1> HIDE DEF Agreement, Consistent, VisibilityInv
<1> QED BY <1>1, <1>2, <1>3, <1>4, <1>5, <1>6, <1>7, <1>8, <1>9, <1>10, <1>11, <1>12, <1>13,
       <1>14, <1>15, <1>16, <1>17, <1>18, <1>19, <1>20, <1>21, <1>22 DEF CfNext

\* No step exposes a host that is private.
LEMMA NeverExposedStep ==
  ASSUME VisibilityInv, ApplyTypeOK', UNCHANGED isClone, CfNext
  PROVE  NeverExposed'
<1> USE VisibilityConstants DEF VisibilityInv, CfAt, CfGoto, History, VisibilitySteps, Publishing, Gating,
        Closing, Withdrawing, Modes, StageOK, NeverExposed, Served, NoApply, ApplyTypeOK, Calls,
        CfTypeOK
<1>1. ASSUME NEW m \in Modes, PlanGroup(m) PROVE NeverExposed'
  BY <1>1 DEF PlanGroup
<1>2. ASSUME NEW m \in Modes, ApplyBegin(m) PROVE NeverExposed'
  BY <1>2 DEF ApplyBegin
<1>3. ASSUME NEW h \in Hosts, StartHost(h) PROVE NeverExposed'
  BY <1>3 DEF StartHost, ApplyFirst
<1>4. CASE NextPhase
  BY <1>4 DEF NextPhase
<1>5. CASE PostApp
  BY <1>5 DEF PostApp
<1>6. CASE SaveApp
  BY <1>6 DEF SaveApp
<1>7. CASE WriteDns
  BY <1>7 DEF WriteDns, GatedFirst, AskedFor, TunnelWrite, RouteFirst
<1>8. CASE SaveDns
  BY <1>8 DEF SaveDns
<1>9. CASE EnsureRoute
  BY <1>9 DEF EnsureRoute
<1>10. CASE AdoptRoute
  BY <1>10 DEF AdoptRoute
<1>11. CASE Withdraw
  BY <1>11 DEF Withdraw
<1>12. CASE CheckTunnel
  BY <1>12 DEF CheckTunnel
<1>13. CASE PutTunnel
  BY <1>13 DEF PutTunnel, GatedFirst, AskedFor, TunnelWrite, RouteFirst
<1>14. CASE Readback
  BY <1>14 DEF Readback
<1>15. CASE SaveRoute
  BY <1>15 DEF SaveRoute
<1>16. CASE DropApp
  BY <1>16 DEF DropApp, GatedFirst, AskedFor, TunnelWrite, RouteFirst
<1>17. CASE ForgetApp
  BY <1>17 DEF ForgetApp
<1>18. CASE DropDns
  BY <1>18 DEF DropDns
<1>19. CASE ForgetDns
  BY <1>19 DEF ForgetDns
<1>20. CASE SaveMode
  BY <1>20 DEF SaveMode
<1>21. CASE Abandon
  BY <1>21 DEF Abandon
<1>22. CASE OtherWriter
  BY <1>22 DEF OtherWriter
<1> QED BY <1>1, <1>2, <1>3, <1>4, <1>5, <1>6, <1>7, <1>8, <1>9, <1>10, <1>11, <1>12, <1>13,
       <1>14, <1>15, <1>16, <1>17, <1>18, <1>19, <1>20, <1>21, <1>22 DEF CfNext

\* The invariant holds at the start.
LEMMA InitVisibility == CfInit => VisibilityInv
<1> SUFFICES ASSUME CfInit PROVE VisibilityInv
  OBVIOUS
<1> USE VisibilityConstants DEF CfInit, Modes, VisibilitySteps, Publishing, Gating, Closing, Withdrawing,
        Rules
<1>1. CfTypeOK
  BY DEF CfTypeOK, Unmanaged
<1>2. ApplyTypeOK
  BY DEF ApplyTypeOK, Calls, NoApply
<1>3. StageOK /\ GatedFirst /\ AskedFor /\ TunnelWrite /\ RouteFirst
  BY DEF StageOK, GatedFirst, AskedFor, TunnelWrite, RouteFirst, NoApply
<1>4. Agreement
  BY DEF Agreement, Consistent, Unmanaged, NoApply
<1>5. NeverExposed /\ (reverted => raced)
  BY DEF NeverExposed
<1> QED BY <1>1, <1>2, <1>3, <1>4, <1>5 DEF VisibilityInv

\* A PUT that undoes a rule of another writer had read the tunnel before it came.
LEMMA RevertStep ==
  ASSUME VisibilityInv, CfNext
  PROVE  (reverted => raced)'
<1> USE DEF VisibilityInv, CfAt, CfGoto, History
<1>1. CASE PutTunnel
  BY Zenon, <1>1 DEF PutTunnel, TunnelWrite
<1>2. CASE OtherWriter
  BY Zenon, <1>2 DEF OtherWriter
<1>3. CASE ~PutTunnel /\ ~OtherWriter
  BY Zenon, <1>3 DEF CfNext, PlanGroup, ApplyBegin, StartHost, NextPhase, PostApp, SaveApp, WriteDns, SaveDns, EnsureRoute,
              AdoptRoute, Withdraw, CheckTunnel, Readback, SaveRoute, DropApp, ForgetApp, DropDns,
              ForgetDns, SaveMode, Abandon
<1> QED BY <1>1, <1>2, <1>3

\* Every step, or none, keeps the invariant.
LEMMA VisibilityStep == VisibilityInv /\ [CfNext /\ UNCHANGED isClone]_cfVars => VisibilityInv'
<1>1. ASSUME VisibilityInv, CfNext, UNCHANGED isClone PROVE VisibilityInv'
  <2>1. ApplyTypeOK'
    BY <1>1, ApplyTypeStep
  <2>2. CfTypeOK' /\ StageOK' /\ GatedFirst' /\ AskedFor' /\ TunnelWrite' /\ RouteFirst'
    BY <1>1, <2>1, CfTypeStep, StageStep, GatedFirstStep, AskedForStep, TunnelWriteStep, RouteFirstStep
  <2>3. Agreement' /\ NeverExposed' /\ (reverted => raced)'
    BY <1>1, <2>1, AgreementStep, NeverExposedStep, RevertStep
  <2> QED BY <2>1, <2>2, <2>3 DEF VisibilityInv
<1>2. ASSUME VisibilityInv, UNCHANGED cfVars PROVE VisibilityInv'
  BY <1>2 DEF cfVars, VisibilityInv, CfTypeOK, ApplyTypeOK, StageOK, GatedFirst, AskedFor, TunnelWrite,
              RouteFirst, Agreement, AppAgrees, RouteAgrees, DnsAgrees, Consistent, NeverExposed, Served
<1> QED BY <1>1, <1>2

\* The invariant holds for every set of hosts, every wildcard and every order.
THEOREM VisibilityInvariant == CfSpec => []VisibilityInv
BY InitVisibility, VisibilityStep, PTL DEF CfSpec

----------------------------------------------------------------------------
(* The properties                                                             *)

\* Resources, state file and history have their types, and only a host that a
\* wildcard matches is ever blocked by a 404 rule (ensureRouteAbsent).
THEOREM CfTypeCorrect == CfSpec => []CfTypeOK
<1>1. VisibilityInv => CfTypeOK
  BY DEF VisibilityInv
<1> QED BY <1>1, VisibilityInvariant, PTL

\* However calls end and other writers meddle, no host becomes reachable without
\* its Access gate that was not so at admission or made Public by its owner.
THEOREM NeverExposedHolds == CfSpec => []NeverExposed
<1>1. VisibilityInv => NeverExposed
  BY DEF VisibilityInv
<1> QED BY <1>1, VisibilityInvariant, PTL

\* Between calls the state file and Cloudflare disagree only on a host left
\* between a write and its save, and a rule of another writer is undone only by
\* a PUT it raced.
THEOREM DamageNeedsCauseHolds == CfSpec => []DamageNeedsCause
<1>1. VisibilityInv => DamageNeedsCause
  BY VisibilityConstants DEF VisibilityInv, Agreement, DamageNeedsCause, NoApply
<1> QED BY <1>1, VisibilityInvariant, PTL

\* The only host is all of them.
LEMMA OneHost ==
  ASSUME NEW h \in Hosts, ~(Cardinality(Hosts) > 1)
  PROVE  Hosts = {h}
<1>1. IsFiniteSet(Hosts \ {h}) /\ Cardinality(Hosts \ {h}) = Cardinality(Hosts) - 1
  BY VisibilityConstants, FS_RemoveElement
<1>2. Cardinality(Hosts) \in Nat /\ Cardinality(Hosts \ {h}) \in Nat
  BY <1>1, VisibilityConstants, FS_CardinalityType
<1>3. Cardinality(Hosts \ {h}) = 0
  BY <1>1, <1>2
<1>4. Hosts \ {h} = {}
  BY <1>1, <1>3, FS_EmptySet
<1> QED BY <1>4

\* A private call writes a record or a route only once every host is gated; the
\* gate of a host goes only in a public call whose route was read back and saved.
LEMMA GateStep ==
  ASSUME VisibilityInv, CfNext, UNCHANGED isClone
  PROVE  /\ apply.mode = "private" /\ (\E h \in Hosts : ~Served(h) /\ Served(h)') => app = Hosts
         /\ \A h \in app \ app' : /\ apply.mode = "public" /\ managed[h].app
                                 /\ route[h] = "origin" /\ managed[h].route = "origin"
<1> USE VisibilityConstants DEF VisibilityInv, CfAt, CfGoto, History
<1>1. ASSUME apply.mode = "private", NEW h \in Hosts, ~Served(h), Served(h)'
      PROVE  app = Hosts
  <2>1. CASE WriteDns \/ PutTunnel
    <3>1. apply.phase = "apply" /\ apply.host \in app /\ apply.host \in Hosts
      BY <1>1, <2>1 DEF WriteDns, PutTunnel, StageOK, GatedFirst, NoApply, Gating
    <3> QED BY <1>1, <3>1, OneHost DEF GatedFirst, CfTypeOK
  <2>2. CASE DropDns
    BY <1>1, <2>2 DEF DropDns, Served, CfTypeOK
  <2>3. CASE ~(WriteDns \/ PutTunnel \/ DropDns)
    <3>1. UNCHANGED <<dns, route>>
      BY Zenon, <2>3 DEF CfNext, PlanGroup, ApplyBegin, StartHost, NextPhase, PostApp, SaveApp, SaveDns, EnsureRoute,
                  AdoptRoute, Withdraw, CheckTunnel, Readback, SaveRoute, DropApp, ForgetApp, ForgetDns,
                  SaveMode, Abandon, OtherWriter
    <3> QED BY <1>1, <3>1 DEF Served
  <2> QED BY <2>1, <2>2, <2>3
<1>2. ASSUME NEW h \in app \ app'
      PROVE  /\ apply.mode = "public" /\ managed[h].app
             /\ route[h] = "origin" /\ managed[h].route = "origin"
  <2>1. CASE DropApp
    <3>1. h = apply.host /\ h \in Hosts
      BY <2>1 DEF DropApp, CfTypeOK
    <3>2. apply.mode = "public"
      BY <2>1 DEF DropApp, StageOK, NoApply, Publishing, Gating, Withdrawing, Modes
    <3> QED BY <2>1, <3>1, <3>2 DEF DropApp, RouteFirst, Agreement, AppAgrees
  <2>2. CASE ~DropApp
    BY Zenon, <1>2, <2>2 DEF CfNext, PlanGroup, ApplyBegin, StartHost, NextPhase, PostApp, SaveApp, WriteDns, SaveDns,
                  EnsureRoute, AdoptRoute, Withdraw, CheckTunnel, PutTunnel, Readback, SaveRoute,
                  ForgetApp, DropDns, ForgetDns, SaveMode, Abandon, OtherWriter
  <2> QED BY <2>1, <2>2
<1> QED BY <1>1, <1>2

\* Each related hostname is protected before a record or a route is published,
\* and Public removes a gate only after the route was verified.
THEOREM GateBeforeRouteHolds == CfSpec => GateBeforeRoute
<1> DEFINE A == /\ apply.mode = "private" /\ (\E h \in Hosts : ~Served(h) /\ Served(h)') => app = Hosts
                /\ \A h \in app \ app' : /\ apply.mode = "public" /\ managed[h].app
                                        /\ route[h] = "origin" /\ managed[h].route = "origin"
<1>1. VisibilityInv /\ [CfNext /\ UNCHANGED isClone]_cfVars => [A]_cfVars
  BY GateStep
<1>2. CfSpec => [][A]_cfVars
  <2> HIDE DEF A
  <2> QED BY <1>1, VisibilityInvariant, PTL DEF CfSpec
<1> QED BY <1>2 DEF GateBeforeRoute
=============================================================================
