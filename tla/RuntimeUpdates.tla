--------------------------- MODULE RuntimeUpdates ---------------------------
(* The runtime updates of platform_runtime_updates.py: an approved plan       *)
(* replaces the containers of one family after the other (apply_job,          *)
(* recreate, refresh_admission), undoes a family that fails, and is cut at    *)
(* any step by the end of the process.  A step is one call of the Engine or   *)
(* one durable write.  A call that fails may have had its effect.             *)
EXTENDS Naturals, Sequences, FiniteSets, SequencesExt

CONSTANTS
    Families,         \* enrolled components with a compatible release
    Services,         \* the containers of all families
    ServicesOf,       \* the services of a family, in order
    Databases,        \* families of the category Database, planned last
    Sensitive,        \* families whose data a new version may convert
    WasUp,            \* services that run; the others are stopped
    Admitted,         \* services the signed profile has pins for
    MaxUpdateFaults,  \* failed calls, failed writes and ends of the process
    MaxDeployments    \* independent deployments

ASSUME UpdatesAssumption ==
    /\ \A f \in Families : /\ ServicesOf[f] \in Seq(Services) \ {<<>>}
                           /\ IsInjective(ServicesOf[f])
    /\ \A f, g \in Families : f # g => Range(ServicesOf[f]) \cap Range(ServicesOf[g]) = {}
    /\ Databases \subseteq Sensitive /\ Sensitive \subseteq Families
    /\ WasUp \subseteq Services /\ Admitted \subseteq Services
    /\ MaxUpdateFaults \in Nat /\ MaxDeployments \in Nat

VARIABLES
    box,          \* per service: its original container and the new one
    ident,        \* per service: the identity of the original container
    written,      \* services whose data a new version may have written
    copied,       \* services with a recovery copy of their data
    profile,      \* the admission profile: its generation and its pins
    signature,    \* the generation the signature file is of
    desired,      \* families in the desired-image record
    job,          \* the operation record, and whether its rollback.json exists
    stored,       \* the plan: its families in order and the state it binds
    thread,       \* apply_job: where it is and its local variables
    updateFaults, deployments,
    unseen        \* history: damage nobody is told of (see SettledIsWhole)

updateVars == <<box, ident, written, copied, profile, signature, desired, job, stored, thread,
                updateFaults, deployments, unseen>>
engine == <<box, ident, written>>
admission == <<profile, signature>>
files == <<copied, profile, signature, desired>>
request == <<job, stored, deployments>>

Original(s) == [name |-> "own", up |-> s \in WasUp, policy |-> TRUE, net |-> TRUE, new |-> "none"]
Updated(s) == [name |-> "aside", up |-> FALSE, policy |-> FALSE, net |-> FALSE,
               new |-> IF s \in WasUp THEN "up" ELSE "created"]

FirstProfile == [gen |-> 0, pins |-> [s \in Admitted |-> 0]]
NoThread == [at |-> "idle", fam |-> 1, svc |-> 1, backups |-> <<>>, committed |-> FALSE,
             done |-> 0, kept |-> FirstProfile, undo |-> 0, stuck |-> FALSE]

\* What a plan binds: the identity and the settings of every container.
Fingerprint == [s \in Services |-> <<ident[s], box[s]>>]
NoPlan == [families |-> <<>>, seen |-> <<>>]

UpdatesInit ==
    /\ box = [s \in Services |-> Original(s)]
    /\ ident = [s \in Services |-> 0]
    /\ written = {} /\ copied = {} /\ desired = {}
    /\ profile = FirstProfile
    /\ signature = 0
    /\ job = [status |-> "none", recovery |-> FALSE, journal |-> FALSE]
    /\ stored = NoPlan
    /\ thread = NoThread
    /\ updateFaults = 0 /\ deployments = 0 /\ unseen = {}

----------------------------------------------------------------------------
(* Plan and submit, under GATE                                                *)

\* recovery_required, and an operation that is queued or running.
Refused == job.recovery \/ job.status \in {"queued", "running"}

\* The catalog offers a family whose containers all have their names and run
\* a version older than the candidate.
CanUpdate(f) == \A s \in Range(ServicesOf[f]) : box[s].name = "own" /\ box[s].new = "none"

\* One family, or "all": every family the catalog offers, databases last.
Plannable(fams) ==
    /\ \A f \in Range(fams) : CanUpdate(f)
    /\ Len(fams) > 1 =>
          /\ \A f \in Families : CanUpdate(f) => f \in Range(fams)
          /\ \A i, k \in DOMAIN fams : i < k /\ fams[i] \in Databases => fams[k] \in Databases

Plan ==
    /\ ~Refused /\ stored = NoPlan /\ thread.at = "idle"
    /\ \E n \in 1 .. Cardinality(Families) : \E fams \in [1 .. n -> Families] :
          /\ IsInjective(fams) /\ Plannable(fams)
          /\ stored' = [families |-> fams, seen |-> Fingerprint]
    /\ UNCHANGED <<engine, files, job, thread, updateFaults, deployments, unseen>>

\* apply and submit: the revision is still the one of the plan, and the record
\* is durable before the thread is queued.
Submit ==
    /\ ~Refused /\ stored # NoPlan /\ thread.at = "idle"
    /\ stored.seen = Fingerprint
    /\ job' = [status |-> "queued", recovery |-> FALSE, journal |-> FALSE]
    /\ thread' = [NoThread EXCEPT !.at = "lock"]
    /\ UNCHANGED <<engine, files, stored, updateFaults, deployments, unseen>>

\* A plan expires after fifteen minutes.
Expire ==
    /\ stored # NoPlan /\ thread.at = "idle" /\ ~Refused
    /\ stored' = NoPlan
    /\ UNCHANGED <<engine, files, job, thread, updateFaults, deployments, unseen>>

----------------------------------------------------------------------------
(* apply_job: binding and preparing                                           *)

In(step) == thread.at = step
GoOn(step) == thread' = [thread EXCEPT !.at = step]
Fam == stored.families[thread.fam]
Svc == ServicesOf[Fam][thread.svc]
NewOf(s) == ident[s] + MaxDeployments + 1   \* the identity of the new container
Raise == GoOn("except")
Fault == updateFaults < MaxUpdateFaults /\ updateFaults' = updateFaults + 1

\* A family whose containers are not the ones the plan binds.
Drifted(f) == \E s \in Range(ServicesOf[f]) : Fingerprint[s] # stored.seen[s]

\* wait_operation_lock gives up when the host is busy or the plan expires.
TakeLock ==
    /\ In("lock")
    /\ \/ job' = [job EXCEPT !.status = "running"] /\ GoOn("bind")
       \/ Raise /\ UNCHANGED job
    /\ UNCHANGED <<engine, files, stored, updateFaults, deployments, unseen>>

\* Every family is bound before an image is prepared, and again afterwards.
Bind ==
    /\ In("bind") \/ In("rebind")
    /\ IF \E f \in Range(stored.families) : Drifted(f) THEN Raise
       ELSE GoOn(IF In("bind") THEN "images" ELSE "family")
    /\ UNCHANGED <<engine, files, request, updateFaults, unseen>>

\* image_candidate and node_preflight, of all families.
Images ==
    /\ In("images")
    /\ GoOn("rebind") \/ Raise
    /\ UNCHANGED <<engine, files, request, updateFaults, unseen>>

\* The next family, bound once more just before its first change.
BeginFamily ==
    /\ In("family")
    /\ thread' = [thread EXCEPT !.backups = <<>>, !.committed = FALSE, !.svc = 1,
                                !.at = IF Drifted(Fam) THEN "except" ELSE "prepared"]
    /\ UNCHANGED <<engine, files, request, updateFaults, unseen>>

----------------------------------------------------------------------------
(* recreate: the calls of the Engine and the journal before and after them    *)

\* A call that changes the container of s, and what follows its answer.
Call(s, changed, then) ==
    /\ UNCHANGED <<ident, files, request>>
    /\ \/ box' = [box EXCEPT ![s] = changed] /\ thread' = then
          /\ UNCHANGED <<updateFaults, unseen>>
       \/ /\ Fault /\ Raise
          /\ box' \in {box, [box EXCEPT ![s] = changed]}
          /\ unseen' = IF changed.name # box[s].name /\ box' # box THEN unseen \cup {s} ELSE unseen

Then(step) == [thread EXCEPT !.at = step]

\* backups changes in memory, then rollback.json is written.
Journal(entries, step) ==
    /\ \/ /\ thread' = [thread EXCEPT !.backups = entries, !.at = step]
          /\ job' = [job EXCEPT !.journal = TRUE]
          /\ UNCHANGED updateFaults
       \/ Fault /\ thread' = [thread EXCEPT !.backups = entries, !.at = "except"] /\ UNCHANGED job
    /\ UNCHANGED <<engine, files, stored, deployments, unseen>>

Entry == thread.backups[Len(thread.backups)]
Mark(entry) == [thread.backups EXCEPT ![Len(thread.backups)] = entry]

\* Durable before the first change.
JournalPrepared ==
    /\ In("prepared")
    /\ Journal(Append(thread.backups, [svc |-> Svc, phase |-> "prepared", newId |-> FALSE,
                                       newStarted |-> FALSE]), "policy")

DropPolicy ==
    /\ In("policy")
    /\ Call(Svc, [box[Svc] EXCEPT !.policy = FALSE], Then(IF Svc \in WasUp THEN "stop" ELSE "copy"))
    /\ UNCHANGED written

Stop ==
    /\ In("stop")
    /\ Call(Svc, [box[Svc] EXCEPT !.up = FALSE], Then("copy"))
    /\ UNCHANGED written

\* snapshot_database, which rejects when there is no room for the copy.
SnapshotDatabase ==
    /\ In("copy")
    /\ IF Fam \in Sensitive
       THEN \/ copied' = copied \cup {Svc} /\ GoOn("rename")
            \/ Raise /\ UNCHANGED copied
       ELSE GoOn("rename") /\ UNCHANGED copied
    /\ UNCHANGED <<engine, admission, desired, request, updateFaults, unseen>>

Rename ==
    /\ In("rename")
    /\ Call(Svc, [box[Svc] EXCEPT !.name = "aside"], Then("renamed"))
    /\ UNCHANGED written

JournalRenamed == In("renamed") /\ Journal(Mark([Entry EXCEPT !.phase = "renamed"]), "disconnect")

Disconnect ==
    /\ In("disconnect")
    /\ Call(Svc, [box[Svc] EXCEPT !.net = FALSE], Then("create"))
    /\ UNCHANGED written

Create ==
    /\ In("create")
    /\ Call(Svc, [box[Svc] EXCEPT !.new = "created"], Then("created"))
    /\ UNCHANGED written

JournalCreated ==
    /\ In("created")
    /\ Journal(Mark([Entry EXCEPT !.newId = TRUE]), IF Svc \in WasUp THEN "started" ELSE "verify")

\* Durable before the start, which may write data whatever it answers.
JournalStarted == In("started") /\ Journal(Mark([Entry EXCEPT !.newStarted = TRUE]), "start")

Start ==
    /\ In("start")
    /\ Call(Svc, [box[Svc] EXCEPT !.new = "up"], Then("verify"))
    /\ written' = IF box' # box /\ Fam \in Sensitive THEN written \cup {Svc} ELSE written

\* The mounts, the health and the probes of the new container.
Verify ==
    /\ In("verify")
    /\ \/ IF thread.svc < Len(ServicesOf[Fam])
          THEN thread' = [thread EXCEPT !.svc = @ + 1, !.at = "prepared"]
          ELSE GoOn("admit")
       \/ Raise
    /\ UNCHANGED <<engine, files, request, updateFaults, unseen>>

----------------------------------------------------------------------------
(* refresh_admission, and the record of the family                            *)

Enrolled == Range(ServicesOf[Fam]) \cap Admitted
NewProfile ==
    [gen |-> profile.gen + 1,
     pins |-> [s \in Admitted |-> IF s \in Enrolled THEN NewOf(s) ELSE profile.pins[s]]]
Commit == [thread EXCEPT !.committed = TRUE, !.done = @ + 1, !.at = "record"]

\* The pins and the signature are those of the containers that were replaced.
Admit ==
    /\ In("admit")
    /\ \/ Enrolled = {} /\ thread' = Commit
       \/ /\ Enrolled # {} /\ signature = profile.gen
          /\ \A s \in Enrolled : profile.pins[s] = ident[s]
          /\ thread' = [thread EXCEPT !.at = "sign", !.kept = profile]
       \/ /\ Enrolled # {}
          /\ signature # profile.gen \/ \E s \in Enrolled : profile.pins[s] # ident[s]
          /\ Raise
    /\ UNCHANGED <<engine, files, request, updateFaults, unseen>>

\* The two files are replaced one after the other.
WriteSignature ==
    /\ In("sign")
    /\ \/ signature' = profile.gen + 1 /\ GoOn("profile") /\ UNCHANGED updateFaults
       \/ Fault /\ signature' \in {signature, profile.gen + 1} /\ GoOn("unprofile")
    /\ UNCHANGED <<engine, copied, profile, desired, request, unseen>>

WriteProfile ==
    /\ In("profile")
    /\ \/ profile' = NewProfile /\ thread' = Commit /\ UNCHANGED updateFaults
       \/ Fault /\ profile' \in {profile, NewProfile} /\ GoOn("unprofile")
    /\ UNCHANGED <<engine, copied, signature, desired, request, unseen>>

\* The except clause of the two writes; when it fails too, apply_job goes on
\* with an error that does not tell.
RestoreProfile ==
    /\ In("unprofile")
    /\ \/ profile' = thread.kept /\ GoOn("unsign") /\ UNCHANGED <<updateFaults, unseen>>
       \/ Fault /\ Raise /\ unseen' = unseen \cup Enrolled /\ UNCHANGED profile
    /\ UNCHANGED <<engine, copied, signature, desired, request>>

RestoreSignature ==
    /\ In("unsign")
    /\ \/ signature' = thread.kept.gen /\ Raise /\ UNCHANGED <<updateFaults, unseen>>
       \/ Fault /\ Raise /\ unseen' = unseen \cup Enrolled /\ UNCHANGED signature
    /\ UNCHANGED <<engine, copied, profile, desired, request>>

\* save('desired') and the report of the family; the next family.
Record ==
    /\ In("record")
    /\ \/ /\ desired' = desired \cup {Fam}
          /\ thread' = IF thread.fam < Len(stored.families)
                       THEN [thread EXCEPT !.fam = @ + 1, !.at = "family"]
                       ELSE [thread EXCEPT !.at = "finish"]
          /\ UNCHANGED updateFaults
       \/ Fault /\ desired' \in {desired, desired \cup {Fam}} /\ Raise
    /\ UNCHANGED <<engine, copied, admission, request, unseen>>

\* The last report of the try clause.
Finish ==
    /\ In("finish")
    /\ \/ job' = [job EXCEPT !.status = "succeeded"] /\ thread' = NoThread /\ UNCHANGED updateFaults
       \/ Fault /\ Raise /\ UNCHANGED job
    /\ UNCHANGED <<engine, files, stored, deployments, unseen>>

----------------------------------------------------------------------------
(* The except clause of apply_job                                             *)

\* Once a family is committed it is not undone.  When error.log cannot be
\* written the clause ends here and the operation stays as it is.
LogError ==
    /\ In("except")
    /\ \/ /\ thread' = [thread EXCEPT !.undo = Len(thread.backups),
                                      !.at = IF thread.committed THEN "report" ELSE "undo"]
          /\ UNCHANGED updateFaults
       \/ Fault /\ thread' = NoThread
    /\ UNCHANGED <<engine, files, request, unseen>>

Undone == thread.backups[thread.undo]
NextUndo(stuck) == [thread EXCEPT !.undo = @ - 1, !.at = "undo", !.stuck = @ \/ stuck]

\* Mutant: every backup is undone, databases that were started included.
UndoBackupAlways ==
    /\ In("undo")
    /\ thread' = IF thread.undo = 0 THEN Then("report") ELSE Then("delete")
    /\ UNCHANGED <<engine, files, request, updateFaults, unseen>>

\* The backups in reverse order; an old engine is not put over data that the
\* new version may have written.
UndoBackup ==
    /\ In("undo")
    /\ thread' = IF thread.undo = 0 THEN Then("report")
                 ELSE IF Fam \in Sensitive /\ Undone.newStarted THEN NextUndo(TRUE)
                 ELSE Then("delete")
    /\ UNCHANGED <<engine, files, request, updateFaults, unseen>>

\* A call of the undo; its failure ends the undo of this service and is
\* remembered.
UndoCall(changed, then) ==
    /\ \/ /\ thread' = then /\ UNCHANGED updateFaults
          /\ box' = [box EXCEPT ![Undone.svc] = changed]
       \/ /\ Fault /\ thread' = NextUndo(TRUE)
          /\ box' \in {box, [box EXCEPT ![Undone.svc] = changed]}
    /\ UNCHANGED <<ident, written, files, request, unseen>>

\* A step that is skipped when it has nothing to do.
UndoIf(needed, changed, then) ==
    IF needed THEN UndoCall(changed, then)
    ELSE thread' = then /\ UNCHANGED <<engine, files, request, updateFaults, unseen>>

Old == box[Undone.svc]

DeleteNew == In("delete") /\ UndoIf(Undone.newId, [Old EXCEPT !.new = "none"], Then("back"))

\* The name is still taken when a container was created and its answer lost.
RenameBack ==
    /\ In("back")
    /\ IF Undone.phase = "renamed" /\ Old.new # "none"
       THEN thread' = NextUndo(TRUE) /\ UNCHANGED <<engine, files, request, updateFaults, unseen>>
       ELSE UndoIf(Undone.phase = "renamed", [Old EXCEPT !.name = "own"], Then("reconnect"))

Reconnect == In("reconnect") /\ UndoIf(~Old.net, [Old EXCEPT !.net = TRUE], Then("repolicy"))
RestorePolicy == In("repolicy") /\ UndoCall([Old EXCEPT !.policy = TRUE], Then("revive"))
StartOld == In("revive") /\ UndoIf(Undone.svc \in WasUp, [Old EXCEPT !.up = TRUE], NextUndo(FALSE))

Success == thread.committed /\ thread.done = Len(stored.families)
Outcome ==
    IF Success THEN "succeeded"
    ELSE IF thread.backups # <<>> /\ ~thread.stuck /\ thread.done = 0 THEN "rolled-back"
    ELSE "failed"

\* The report of the except clause; when it fails the operation stays running.
Report ==
    /\ In("report")
    /\ thread' = NoThread
    /\ \/ job' = [job EXCEPT !.status = Outcome, !.recovery = thread.stuck] /\ UNCHANGED updateFaults
       \/ Fault /\ UNCHANGED job
    /\ UNCHANGED <<engine, files, stored, deployments, unseen>>

----------------------------------------------------------------------------
(* The environment, and the start of the service                              *)

\* An independent deployment recreates a container, and enrols it or not.
Redeploy(s) ==
    /\ deployments < MaxDeployments /\ deployments' = deployments + 1
    /\ thread.at \in {"idle", "down", "lock", "bind", "images", "rebind", "family"}
    /\ box[s] = Original(s)
    /\ ident' = [ident EXCEPT ![s] = @ + 1]
    /\ \/ /\ s \in Admitted /\ signature = profile.gen
          /\ profile' = [gen |-> profile.gen + 1, pins |-> [profile.pins EXCEPT ![s] = ident[s] + 1]]
          /\ signature' = profile.gen + 1
       \/ UNCHANGED admission
    /\ UNCHANGED <<box, written, copied, desired, job, stored, thread, updateFaults, unseen>>

Crash ==
    /\ thread.at # "down" /\ Fault
    /\ thread' = [NoThread EXCEPT !.at = "down"]
    /\ UNCHANGED <<engine, files, request, unseen>>

\* Mutant: the journal of an interrupted operation is not looked for.
RestartForgets ==
    /\ In("down")
    /\ thread' = NoThread
    /\ job' = IF job.status \in {"queued", "running"} THEN [job EXCEPT !.status = "interrupted"] ELSE job
    /\ UNCHANGED <<engine, files, stored, updateFaults, deployments, unseen>>

\* initialize: what was queued or running is interrupted, and needs recovery
\* when its journal exists.
Restart ==
    /\ In("down")
    /\ thread' = NoThread
    /\ job' = IF job.status \in {"queued", "running"}
              THEN [job EXCEPT !.status = "interrupted", !.recovery = job.journal] ELSE job
    /\ UNCHANGED <<engine, files, stored, updateFaults, deployments, unseen>>

UpdatesNext ==
    \/ Plan \/ Submit \/ Expire
    \/ TakeLock \/ Bind \/ Images \/ BeginFamily
    \/ JournalPrepared \/ DropPolicy \/ Stop \/ SnapshotDatabase \/ Rename \/ JournalRenamed
    \/ Disconnect \/ Create \/ JournalCreated \/ JournalStarted \/ Start \/ Verify
    \/ Admit \/ WriteSignature \/ WriteProfile \/ RestoreProfile \/ RestoreSignature \/ Record
    \/ Finish \/ LogError \/ UndoBackup \/ DeleteNew \/ RenameBack \/ Reconnect \/ RestorePolicy \/ StartOld
    \/ Report
    \/ Crash \/ Restart
    \/ \E s \in Services : Redeploy(s)

UpdatesSpec == UpdatesInit /\ [][UpdatesNext]_updateVars

----------------------------------------------------------------------------
(* Properties                                                                 *)

\* The values the variables of apply_job and of the operation record take.
UpdatesTypeOK ==
    /\ box \in [Services -> [name : {"own", "aside"}, up : BOOLEAN, policy : BOOLEAN, net : BOOLEAN,
                             new : {"none", "created", "up"}]]
    /\ written \subseteq Services /\ copied \subseteq Services /\ desired \subseteq Families
    /\ job.status \in {"none", "queued", "running", "succeeded", "failed", "rolled-back", "interrupted"}
    /\ job.recovery \in BOOLEAN /\ job.journal \in BOOLEAN
    /\ thread.undo \in 0 .. Len(thread.backups)
    /\ \A i \in DOMAIN thread.backups : thread.backups[i].svc \in Services
    /\ unseen \subseteq Services

\* apply_job: once a new version may have written the data of a service, its
\* old container is never up again, and a copy of the data was made before.
NeverOverNewData == \A s \in written : ~box[s].up /\ s \in copied

OldWhole(f) ==
    \A s \in Range(ServicesOf[f]) :
        box[s] = Original(s) /\ (s \in Admitted => profile.pins[s] # NewOf(s))
NewWhole(f) ==
    \A s \in Range(ServicesOf[f]) :
        box[s] = Updated(s) /\ (s \in Admitted => profile.pins[s] = NewOf(s))

\* apply_job and initialize: when an operation has ended and asks for no
\* recovery, every family is as it was or entirely updated, and the profile is
\* signed and names its containers.  Two kinds of damage escape this, and only
\* these: a rename that had an effect and no answer, and a profile that could
\* not be put back.
SettledIsWhole ==
    /\ thread.at = "idle" /\ ~Refused
    /\ unseen = {}
    => /\ signature = profile.gen
       /\ \A f \in Families : OldWhole(f) \/ NewWhole(f)

=============================================================================
