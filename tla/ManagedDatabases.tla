-------------------------- MODULE ManagedDatabases --------------------------
(* Application databases as the Control Center creates, rotates and deletes   *)
(* them: planDatabaseCreate ... executeDatabaseDelete of server.mjs with the  *)
(* ownership rules of database/ownership.mjs and the delete workflow of       *)
(* database/destructive-workflow.mjs.                                         *)
(*                                                                            *)
(* A handler is synchronous, so handlers do not interleave; an action is one  *)
(* durable write or one client command of a handler, and the process may stop *)
(* after each.  What interleaves is the request: the list of databases is     *)
(* read when the request arrives, the handler runs when its body has come.    *)
(*                                                                            *)
(* A password is the number of the call that set it; a live database is the   *)
(* number of the call that created it.                                        *)
EXTENDS Naturals, FiniteSets

CONSTANTS
    Dbs,            \* database resources (project, engine, name)
    Deletes,        \* delete operations, one for each idempotency key
    Slots,          \* requests whose body is awaited at the same time
    MaxSecret,      \* bound on passwords, and with it on creations
    MaxDbFaults,    \* bound on failed writes, failed commands and restarts
    NoDb, NoDelete

ASSUME DatabaseConstants ==
    NoDb \notin Dbs /\ NoDelete \notin Deletes /\ MaxSecret \in Nat /\ MaxDbFaults \in Nat

VARIABLES
    liveApply,   \* databaseLiveApply, from the environment of the process
    record,      \* databases.json has an entry
    binding,     \* database-principals.json: none, reserved or active
    role,        \* the password of the generated principal, 0 if it is absent
    liveDb,      \* the live database, 0 if it is absent
    owned,       \* the principal owns it
    lateDrop,    \* a DROP whose client was killed and that still runs
    secretFile,  \* the credential file, 0 if it is absent
    deletion,    \* database-delete-operations.json
    known,       \* of each awaited request, the databases it has read
    handler,     \* the handler that runs
    secrets, dbFaults,
    drops,       \* history: live databases dropped, by operation
    revived      \* history: databases whose entry an update put back

dbVars == <<liveApply, record, binding, role, liveDb, owned, lateDrop, secretFile,
            deletion, known, handler, secrets, dbFaults, drops, revived>>

engineVars == <<role, liveDb, owned, lateDrop, drops>>
fileVars == <<record, binding, secretFile, deletion>>

NoJob == [at |-> "idle", db |-> NoDb, delete |-> NoDelete, secret |-> 0,
          provision |-> FALSE, dropped |-> FALSE, rotating |-> FALSE]
Unrequested == [status |-> "none", db |-> NoDb, tried |-> FALSE, of |-> 0]
Free == [busy |-> FALSE, dbs |-> {}]

DbInit ==
    /\ liveApply \in BOOLEAN
    /\ record = [d \in Dbs |-> FALSE]
    /\ binding = [d \in Dbs |-> "none"]
    /\ role = [d \in Dbs |-> 0]
    /\ liveDb = [d \in Dbs |-> 0]
    /\ owned = [d \in Dbs |-> FALSE]
    /\ lateDrop = [d \in Dbs |-> NoDelete]
    /\ secretFile = [d \in Dbs |-> 0]
    /\ deletion = [o \in Deletes |-> Unrequested]
    /\ known = [s \in Slots |-> Free]
    /\ handler = NoJob
    /\ secrets = 0 /\ dbFaults = 0
    /\ drops = [o \in Deletes |-> {}]
    /\ revived = {}

----------------------------------------------------------------------------
(* Requests                                                                   *)

\* buildContext reads the list of databases; then readPayload is awaited.
Arrive(s) ==
    /\ handler = NoJob /\ ~known[s].busy
    /\ known' = [known EXCEPT ![s] = [busy |-> TRUE, dbs |-> {d \in Dbs : record[d]}]]
    /\ UNCHANGED <<liveApply, handler, secrets, dbFaults, revived, engineVars, fileVars>>

\* The body has come: the handler starts, and no other until it ends.
Enter(s) == handler = NoJob /\ known[s].busy /\ known' = [known EXCEPT ![s] = Free]

\* A request without its confirmation plans; one that is refused changes nothing.
PlanOnly(s) ==
    /\ Enter(s)
    /\ UNCHANGED <<liveApply, handler, secrets, dbFaults, revived, engineVars, fileVars>>

DbAt(step) == handler.at = step
DbGoto(step) == handler' = [handler EXCEPT !.at = step]
End == handler' = NoJob

DbFault == dbFaults < MaxDbFaults /\ dbFaults' = dbFaults + 1

----------------------------------------------------------------------------
(* Ownership rules                                                            *)

\* Mutant: the catalog is not looked at.
CreateAllowedUnseen(d) == binding[d] = "reserved"

\* assertPrincipalCreateAllowed
CreateAllowed(d) == binding[d] = "reserved" /\ role[d] = 0 /\ liveDb[d] = 0

\* assertActiveManagedPrincipal and the checks on the database
Owns(d) == binding[d] = "active" /\ role[d] # 0 /\ liveDb[d] # 0 /\ owned[d]

\* assertPrincipalCleanupAllowed
CleanupAllowed(d) == binding[d] = "active" /\ role[d] # 0 /\ liveDb[d] = 0

----------------------------------------------------------------------------
(* planDatabaseCreate                                                         *)

CreateReserve(s, d) ==
    /\ Enter(s) /\ d \notin known[s].dbs /\ ~record[d] /\ secrets < MaxSecret
    /\ binding' = [binding EXCEPT ![d] = IF @ = "none" THEN "reserved" ELSE @]
    /\ secrets' = secrets + 1
    /\ handler' = [NoJob EXCEPT !.at = "provision", !.db = d, !.secret = secrets', !.provision = TRUE]
    /\ UNCHANGED <<liveApply, record, secretFile, deletion, dbFaults, revived, engineVars>>

\* The client command of applyLive*Create; metadata only if liveApply is off.
Provision ==
    LET d == handler.db IN
    /\ DbAt("provision")
    /\ IF ~liveApply
       THEN DbGoto("secret") /\ UNCHANGED engineVars
       ELSE IF CreateAllowed(d)
       THEN /\ role' = [role EXCEPT ![d] = handler.secret]
            /\ liveDb' = [liveDb EXCEPT ![d] = handler.secret]
            /\ owned' = [owned EXCEPT ![d] = TRUE]
            /\ DbGoto("secret")
            /\ UNCHANGED <<lateDrop, drops>>
       ELSE End /\ UNCHANGED engineVars
    /\ UNCHANGED <<liveApply, known, secrets, dbFaults, revived, fileVars>>

\* The command fails after any number of its statements; a rotation of a reserved
\* binding is the same command.
ProvisionFails ==
    LET d == handler.db IN
    /\ DbAt("provision") \/ DbAt("rotate")
    /\ liveApply /\ CreateAllowed(d) /\ DbFault
    /\ \E n \in 0 .. 3 :
          /\ role' = [role EXCEPT ![d] = IF n >= 1 THEN handler.secret ELSE @]
          /\ liveDb' = [liveDb EXCEPT ![d] = IF n >= 2 THEN handler.secret ELSE @]
          /\ owned' = [owned EXCEPT ![d] = n >= 3 \/ @]
    /\ End
    /\ UNCHANGED <<liveApply, known, secrets, revived, lateDrop, drops, fileVars>>

\* writeDatabaseCredentialIfProvided
WriteSecret ==
    /\ DbAt("secret")
    /\ secretFile' = [secretFile EXCEPT ![handler.db] = handler.secret]
    /\ DbGoto(IF handler.provision THEN "record" ELSE "rotateRecord")
    /\ UNCHANGED <<liveApply, record, binding, deletion, known, secrets, dbFaults, revived, engineVars>>

WriteRecord ==
    /\ DbAt("record")
    /\ record' = [record EXCEPT ![handler.db] = TRUE]
    /\ IF liveApply THEN DbGoto("activate") ELSE End
    /\ UNCHANGED <<liveApply, binding, secretFile, deletion, known, secrets, dbFaults, revived, engineVars>>

Activate ==
    /\ DbAt("activate")
    /\ binding' = [binding EXCEPT ![handler.db] = "active"]
    /\ IF handler.rotating THEN DbGoto("rotateRecord") ELSE End
    /\ UNCHANGED <<liveApply, record, secretFile, deletion, known, secrets, dbFaults, revived, engineVars>>

----------------------------------------------------------------------------
(* planDatabaseCredentialUpdate                                               *)

\* A reserved binding is provisioned, an active one rotated, any other refused.
Rotate(s, d) ==
    /\ Enter(s) /\ d \in known[s].dbs /\ secrets < MaxSecret
    /\ secrets' = secrets + 1
    /\ handler' = IF liveApply /\ binding[d] = "none" THEN NoJob
              ELSE [NoJob EXCEPT !.at = "rotate", !.db = d, !.secret = secrets', !.rotating = TRUE]
    /\ UNCHANGED <<liveApply, dbFaults, revived, engineVars, fileVars>>

RotateLive ==
    LET d == handler.db IN
    /\ DbAt("rotate")
    /\ IF ~liveApply
       THEN DbGoto("rotateSecret") /\ UNCHANGED engineVars
       ELSE IF CreateAllowed(d)
       THEN /\ role' = [role EXCEPT ![d] = handler.secret]
            /\ liveDb' = [liveDb EXCEPT ![d] = handler.secret]
            /\ owned' = [owned EXCEPT ![d] = TRUE]
            /\ handler' = [handler EXCEPT !.at = "rotateSecret", !.provision = TRUE]
            /\ UNCHANGED <<lateDrop, drops>>
       ELSE IF Owns(d)
       THEN /\ role' = [role EXCEPT ![d] = handler.secret]
            /\ DbGoto("rotateSecret")
            /\ UNCHANGED <<liveDb, owned, lateDrop, drops>>
       ELSE End /\ UNCHANGED engineVars
    /\ UNCHANGED <<liveApply, known, secrets, dbFaults, revived, fileVars>>

\* ALTER USER fails, with or without effect.
RotateFails ==
    /\ DbAt("rotate") /\ liveApply /\ Owns(handler.db) /\ DbFault
    /\ role' \in {role, [role EXCEPT ![handler.db] = handler.secret]}
    /\ End
    /\ UNCHANGED <<liveApply, known, secrets, revived, liveDb, owned, lateDrop, drops, fileVars>>

RotateSecret ==
    /\ DbAt("rotateSecret")
    /\ secretFile' = [secretFile EXCEPT ![handler.db] = handler.secret]
    /\ DbGoto(IF handler.provision THEN "activate" ELSE "rotateRecord")
    /\ UNCHANGED <<liveApply, record, binding, deletion, known, secrets, dbFaults, revived, engineVars>>

\* The entry is written back also if it is gone by now.
RotateRecord ==
    LET d == handler.db IN
    /\ DbAt("rotateRecord")
    /\ record' = [record EXCEPT ![d] = TRUE]
    /\ revived' = IF record[d] THEN revived ELSE revived \cup {d}
    /\ End
    /\ UNCHANGED <<liveApply, binding, secretFile, deletion, known, secrets, dbFaults, engineVars>>

\* planDatabaseUpdate: the entry is written with deletedAt null, from the list
\* the request has seen if databases.json has it no more.
Update(s, d) ==
    /\ Enter(s) /\ d \in known[s].dbs
    /\ record' = [record EXCEPT ![d] = TRUE]
    /\ revived' = IF record[d] THEN revived ELSE revived \cup {d}
    /\ UNCHANGED <<liveApply, binding, secretFile, deletion, handler, secrets, dbFaults, engineVars>>

----------------------------------------------------------------------------
(* planDatabaseDelete, approveDatabaseDelete, deleteDatabaseNow               *)

Requested(o, d) ==
    deletion' = [deletion EXCEPT ![o] = [Unrequested EXCEPT !.status = "evidence-verified",
                                                            !.db = d, !.of = liveDb[d]]]

\* A known idempotency key returns its operation; delete-now goes on with
\* approval and execution in the same handler, also of a known operation.
RequestDelete(s, o, d, now) ==
    /\ Enter(s) /\ d \in known[s].dbs
    /\ \/ deletion[o].status = "none" /\ Requested(o, d)
       \/ deletion[o].db = d /\ UNCHANGED deletion
    /\ handler' = IF now THEN [NoJob EXCEPT !.at = "approve", !.db = d, !.delete = o] ELSE NoJob
    /\ UNCHANGED <<liveApply, record, binding, secretFile, secrets, dbFaults, revived, engineVars>>

Approvable(o) == deletion[o].status \in {"evidence-verified", "failed"}

Approved(o) == deletion' = [deletion EXCEPT ![o].status = "approved"]

Approve(s, o) ==
    /\ Enter(s) /\ deletion[o].db \in known[s].dbs /\ Approvable(o)
    /\ Approved(o)
    /\ UNCHANGED <<liveApply, record, binding, secretFile, handler, secrets, dbFaults, revived, engineVars>>

ApproveNow ==
    /\ DbAt("approve")
    /\ \/ Approvable(handler.delete) /\ Approved(handler.delete) /\ DbGoto("execute")
       \/ deletion[handler.delete].status = "approved" /\ DbGoto("execute") /\ UNCHANGED deletion
       \/ ~Approvable(handler.delete) /\ deletion[handler.delete].status # "approved" /\ End /\ UNCHANGED deletion
    /\ UNCHANGED <<liveApply, record, binding, secretFile, known, secrets, dbFaults, revived, engineVars>>

----------------------------------------------------------------------------
(* executeDatabaseDelete                                                      *)

\* Only metadata is compared with the operation: the entry exists now.
Executable(o) == deletion[o].status = "approved" /\ liveApply /\ record[deletion[o].db]

\* Mutant: the operation is not saved before the command.
ExecutingUnsaved(o) ==
    /\ handler' = [NoJob EXCEPT !.at = "drop", !.db = deletion[o].db, !.delete = o]
    /\ UNCHANGED deletion

Executing(o) ==
    /\ deletion' = [deletion EXCEPT ![o].status = "executing", ![o].tried = TRUE]
    /\ handler' = [NoJob EXCEPT !.at = "drop", !.db = deletion[o].db, !.delete = o]

Execute(s, o) ==
    /\ Enter(s) /\ Executable(o)
    /\ Executing(o)
    /\ UNCHANGED <<liveApply, record, binding, secretFile, secrets, dbFaults, revived, engineVars>>

ExecuteNow ==
    /\ DbAt("execute")
    /\ IF Executable(handler.delete) THEN Executing(handler.delete) ELSE End /\ UNCHANGED deletion
    /\ UNCHANGED <<liveApply, record, binding, secretFile, known, secrets, dbFaults, revived, engineVars>>

\* Mutant: the grants of the principal survive the database.
DroppedStillOwned(d, o) ==
    /\ liveDb' = [liveDb EXCEPT ![d] = 0]
    /\ UNCHANGED owned
    /\ drops' = [drops EXCEPT ![o] = @ \cup {liveDb[d]}]

Dropped(d, o) ==
    /\ liveDb' = [liveDb EXCEPT ![d] = 0]
    /\ owned' = [owned EXCEPT ![d] = FALSE]
    /\ drops' = [drops EXCEPT ![o] = @ \cup {liveDb[d]}]

\* Mutant: the checkpoint after the drop is left out.
DropDatabaseNoCheckpoint ==
    LET d == handler.db IN
    /\ DbAt("drop") /\ lateDrop[d] = NoDelete
    /\ IF Owns(d)
       THEN /\ Dropped(d, handler.delete)
            /\ handler' = [handler EXCEPT !.at = "cleanup", !.dropped = TRUE]
       ELSE /\ DbGoto("fail")
            /\ UNCHANGED <<liveDb, owned, drops>>
    /\ UNCHANGED <<liveApply, known, secrets, dbFaults, revived, role, lateDrop, fileVars>>

\* A DROP waits for an earlier one of the same database.
DropDatabase ==
    LET d == handler.db IN
    /\ DbAt("drop") /\ lateDrop[d] = NoDelete
    /\ IF Owns(d)
       THEN /\ Dropped(d, handler.delete)
            /\ handler' = [handler EXCEPT !.at = "checkpoint", !.dropped = TRUE]
       ELSE /\ DbGoto("fail")
            /\ UNCHANGED <<liveDb, owned, drops>>
    /\ UNCHANGED <<liveApply, known, secrets, dbFaults, revived, role, lateDrop, fileVars>>

\* The client fails or is killed after 20 seconds: no effect, an effect, or an
\* effect that is still to come.
DropFails ==
    LET d == handler.db IN
    /\ DbAt("drop") /\ lateDrop[d] = NoDelete /\ Owns(d) /\ DbFault
    /\ \/ UNCHANGED <<liveDb, owned, drops, lateDrop>>
       \/ Dropped(d, handler.delete) /\ UNCHANGED lateDrop
       \/ lateDrop' = [lateDrop EXCEPT ![d] = handler.delete] /\ UNCHANGED <<liveDb, owned, drops>>
    /\ DbGoto("fail")
    /\ UNCHANGED <<liveApply, known, secrets, revived, role, fileVars>>

LateDrop(d) ==
    /\ lateDrop[d] # NoDelete
    /\ Dropped(d, lateDrop[d])
    /\ lateDrop' = [lateDrop EXCEPT ![d] = NoDelete]
    /\ UNCHANGED <<liveApply, known, handler, secrets, dbFaults, revived, role, fileVars>>

Checkpoint ==
    /\ DbAt("checkpoint")
    /\ deletion' = [deletion EXCEPT ![handler.delete].status = "database-dropped"]
    /\ DbGoto("cleanup")
    /\ UNCHANGED <<liveApply, record, binding, secretFile, known, secrets, dbFaults, revived, engineVars>>

\* Mutant: the principal is left to the server.
CleanupKeepsRole ==
    /\ DbAt("cleanup")
    /\ DbGoto(IF CleanupAllowed(handler.db) THEN "removeSecret" ELSE "fail")
    /\ UNCHANGED <<liveApply, known, secrets, dbFaults, revived, engineVars, fileVars>>

\* applyLiveDatabasePrincipalCleanup
Cleanup ==
    /\ DbAt("cleanup")
    /\ IF CleanupAllowed(handler.db)
       THEN role' = [role EXCEPT ![handler.db] = 0] /\ DbGoto("removeSecret")
       ELSE UNCHANGED role /\ DbGoto("fail")
    /\ UNCHANGED <<liveApply, known, secrets, dbFaults, revived, liveDb, owned, lateDrop, drops, fileVars>>

CleanupFails ==
    /\ DbAt("cleanup") /\ CleanupAllowed(handler.db) /\ DbFault
    /\ role' \in {role, [role EXCEPT ![handler.db] = 0]}
    /\ DbGoto("fail")
    /\ UNCHANGED <<liveApply, known, secrets, revived, liveDb, owned, lateDrop, drops, fileVars>>

RemoveSecret ==
    /\ DbAt("removeSecret")
    /\ secretFile' = [secretFile EXCEPT ![handler.db] = 0]
    /\ DbGoto("removeRecord")
    /\ UNCHANGED <<liveApply, record, binding, deletion, known, secrets, dbFaults, revived, engineVars>>

RemoveRecord ==
    /\ DbAt("removeRecord")
    /\ record' = [record EXCEPT ![handler.db] = FALSE]
    /\ DbGoto("removeBinding")
    /\ UNCHANGED <<liveApply, binding, secretFile, deletion, known, secrets, dbFaults, revived, engineVars>>

RemoveBinding ==
    /\ DbAt("removeBinding")
    /\ binding' = [binding EXCEPT ![handler.db] = "none"]
    /\ DbGoto("complete")
    /\ UNCHANGED <<liveApply, record, secretFile, deletion, known, secrets, dbFaults, revived, engineVars>>

Complete ==
    /\ DbAt("complete")
    /\ deletion' = [deletion EXCEPT ![handler.delete].status = "completed"]
    /\ End
    /\ UNCHANGED <<liveApply, record, binding, secretFile, known, secrets, dbFaults, revived, engineVars>>

\* The catch clause; its own write may fail, which is swallowed.
FailureStatus == IF handler.dropped THEN "rollback-required" ELSE "failed"

RecordFailure ==
    /\ DbAt("fail")
    /\ deletion' = [deletion EXCEPT ![handler.delete].status = FailureStatus]
    /\ End
    /\ UNCHANGED <<liveApply, record, binding, secretFile, known, secrets, dbFaults, revived, engineVars>>

----------------------------------------------------------------------------
(* Failed writes and restarts                                                 *)

\* A write of the delete goes to the catch clause; completed has no transition
\* to rollback-required, so that failure is not recorded.
InCatch == {"checkpoint", "removeSecret", "removeRecord", "removeBinding"}
OtherWrites == {"secret", "record", "activate", "rotateSecret", "rotateRecord", "approve",
                "execute", "complete", "fail"}

DbWriteFails ==
    /\ handler.at \in InCatch \cup OtherWrites /\ DbFault
    /\ IF handler.at \in InCatch THEN DbGoto("fail") ELSE End
    /\ UNCHANGED <<liveApply, known, secrets, revived, engineVars, fileVars>>

\* The process stops and starts again, perhaps with another environment.
DbRestart ==
    /\ DbFault
    /\ liveApply' \in BOOLEAN
    /\ known' = [s \in Slots |-> Free]
    /\ End
    /\ UNCHANGED <<secrets, revived, engineVars, fileVars>>

----------------------------------------------------------------------------
DeleteStep ==
    \/ ApproveNow \/ ExecuteNow \/ DropDatabase \/ DropFails \/ Checkpoint
    \/ Cleanup \/ CleanupFails \/ RemoveSecret \/ RemoveRecord \/ RemoveBinding
    \/ Complete \/ RecordFailure

DbNext ==
    \/ \E s \in Slots :
          \/ Arrive(s) \/ PlanOnly(s)
          \/ \E d \in Dbs : CreateReserve(s, d) \/ Rotate(s, d) \/ Update(s, d)
          \/ \E o \in Deletes : \/ Approve(s, o) \/ Execute(s, o)
                                \/ \E d \in Dbs, now \in BOOLEAN : RequestDelete(s, o, d, now)
    \/ Provision \/ ProvisionFails \/ WriteSecret \/ WriteRecord \/ Activate
    \/ RotateLive \/ RotateFails \/ RotateSecret \/ RotateRecord
    \/ DeleteStep
    \/ \E d \in Dbs : LateDrop(d)
    \/ DbWriteFails \/ DbRestart

DbSpec == DbInit /\ [][DbNext]_dbVars

----------------------------------------------------------------------------
(* Properties                                                                 *)

\* Registry, credential files and delete operations hold what server.mjs writes;
\* a principal owns live databases only.
DbTypeOK ==
    /\ binding \in [Dbs -> {"none", "reserved", "active"}]
    /\ role \in [Dbs -> 0 .. MaxSecret] /\ liveDb \in [Dbs -> 0 .. MaxSecret]
    /\ secretFile \in [Dbs -> 0 .. MaxSecret]
    /\ \A d \in Dbs : owned[d] => liveDb[d] # 0
    /\ \A o \in Deletes :
          deletion[o].status \in {"none", "evidence-verified", "approved", "executing",
                                  "database-dropped", "completed", "failed", "rollback-required"}

\* DATABASE-DELETION-SAFETY.md: "`database-dropped` is persisted before any
\* principal, credential or metadata cleanup".
CheckpointFirst ==
    [][\A d \in Dbs :
          \/ role[d] # 0 /\ role'[d] = 0
          \/ secretFile[d] # 0 /\ secretFile'[d] = 0
          \/ record[d] /\ ~record'[d]
          \/ binding[d] # "none" /\ binding'[d] = "none"
          => \E o \in Deletes : deletion[o].db = d /\ deletion[o].status = "database-dropped"]_dbVars

\* A registered database that is gone from the server is explained by a delete
\* operation that was executed and has not completed.
LossIsAccounted ==
    \A d \in Dbs : binding[d] = "active" /\ liveDb[d] = 0
                   => \E o \in Deletes : /\ deletion[o].db = d /\ deletion[o].tried
                                         /\ deletion[o].status # "completed"

\* DATABASE-PRINCIPAL-OWNERSHIP.md: a principal exists "only when an
\* authoritative registry entry binds" it.  The reservation is written before
\* the command that creates it and removed after the one that drops it,
\* whatever fails in between; an entry of databases.json without a binding was
\* put back by a request that had read the list before the deletion.
PrincipalsBound ==
    \A d \in Dbs : \/ role[d] # 0 \/ liveDb[d] # 0
                   \/ record[d] /\ d \notin revived
                   => binding[d] # "none"

\* One approved operation drops one live database, whatever is retried,
\* approved again, repeated by a late statement or created anew: the one it was
\* requested for or, when another operation has dropped that one, the one
\* created in its place (the name is all that executeDatabaseDelete compares).
DropsItsOwn ==
    \A o \in Deletes :
        /\ Cardinality(drops[o] \ {0}) =< 1
        /\ \A x \in drops[o] \ {0, deletion[o].of} :
              deletion[o].of = 0 \/ \E p \in Deletes \ {o} : deletion[o].of \in drops[p]
=============================================================================
