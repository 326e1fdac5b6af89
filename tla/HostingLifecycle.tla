-------------------------- MODULE HostingLifecycle --------------------------
(* The private copies of a project as the Control Center drives them          *)
(* (control-center/hosting/lifecycle.mjs) over the HTTP client of             *)
(* application-operator.mjs, composed with the native operator of             *)
(* ApplicationOperator.tla and with the visibility of the target hostname     *)
(* (CloudflareVisibility.tla), of which only "Access stands before it"        *)
(* matters here.                                                              *)
(*                                                                            *)
(* The code between two awaits is one action, except where it makes two       *)
(* durable writes: the process may end between them.  A native call that is   *)
(* not answered in time fails in the caller and goes on in the operator.      *)
EXTENDS ApplicationOperator

CONSTANTS
    TargetOf,     \* the deterministic destination of the source of a request
    MaxOutages,   \* bound on failed calls, failed applies, ignored errors and restarts
    NoThread

ASSUME HostingConstants ==
    TargetOf \in [Jobs -> Targets] /\ MaxOutages \in Nat /\ NoThread \notin Threads

VARIABLES
    saved,       \* hostingJobs of the state store
    catalog,     \* what registerProject last wrote of a job
    gated,       \* targets with a verified Access application
    tick,        \* the tick that runs, and where
    copy,        \* the jobs as that tick read them when it began
    cancelling,  \* the cancel request that runs, with its copy of the job
    cloning,     \* cloneAdmissions: jobs whose clone request waits
    changing,    \* visibilityBusy: targets whose visibility is being changed
    reply,       \* the answer of a request thread that is waited for
    late,        \* native clone requests whose caller has given up
    outages,
    mistaken,    \* history: jobs recorded cancelled unasked while the operator had them
    halved       \* history: jobs whose last registerProject, or what follows it, was cut short

portal == <<saved, catalog, gated, tick, copy, cancelling, cloning, changing, mistaken, halved>>
hostingVars == <<vars, portal, outages, reply, late>>

Terminal == {"available", "failed", "activation_failed", "cancelled", "interrupted"}
Absent == [status |-> "absent", cancel |-> FALSE, registered |-> FALSE]
Resting == [at |-> "rest", todo |-> {}, job |-> NoJob, call |-> NoThread, seen |-> "none"]
NotCancelling == [at |-> "rest", job |-> NoJob, call |-> NoThread, own |-> Absent]

HostingInit ==
    /\ Init
    /\ saved = [j \in Jobs |-> Absent]
    /\ catalog = [j \in Jobs |-> "none"]
    /\ gated = {}
    /\ tick = Resting
    /\ copy = saved
    /\ cancelling = NotCancelling
    /\ cloning = {} /\ changing = {}
    /\ reply = [t \in Threads |-> "none"]
    /\ late = {}
    /\ outages = 0 /\ mistaken = {} /\ halved = {}

----------------------------------------------------------------------------
(* The operator, as its callers see it                                        *)

Waited(t) == t \in {tick.call, cancelling.call}

\* A call that raises answers with an error; the others read the row again.
Answer(t) ==
    CASE proc'[t] # Idle \/ ~Waited(t) -> reply[t]
      [] proc[t].pc \in {"unlink", "unreload"} -> "error"
      [] proc[t].op = "activate" /\ proc[t].pc = "settle" -> "error"
      [] OTHER -> "ready"

Outage == outages < MaxOutages /\ outages' = outages + 1

\* An error of docker or nginx that the operator ignores counts as an outage.
Spend == IF swallowed' = swallowed THEN UNCHANGED outages ELSE Outage
ServeStep(t) ==
    ThreadStep(t) /\ Spend /\ reply' = [reply EXCEPT ![t] = Answer(t)] /\ UNCHANGED <<portal, late>>
BuildStep == WorkerStep /\ Spend /\ UNCHANGED <<portal, reply, late>>
BootStep == Boot /\ Spend /\ UNCHANGED <<portal, reply, late>>

\* return self.status(rid)
Respond(t) ==
    /\ reply[t] = "ready"
    /\ \E c \in {tick, cancelling} : c.call = t /\ reply' = [reply EXCEPT ![t] = row[c.job].status]
    /\ UNCHANGED <<vars, portal, outages, late>>

OperatorCrash ==
    /\ Crash /\ Outage
    /\ reply' = [t \in Threads |-> IF Waited(t) THEN "error" ELSE "none"]
    /\ late' = {}
    /\ UNCHANGED <<saved, catalog, gated, tick, copy, cancelling, cloning, changing, mistaken, halved>>

\* A clone request that nobody waits for is served, or it never arrived.
LateClone(j) ==
    /\ j \in late /\ late' = late \ {j}
    /\ \/ Clone(j, TargetOf[j])
       \/ UNCHANGED vars
    /\ UNCHANGED <<portal, outages, reply>>

Free(t) == daemon = "up" /\ proc[t] = Idle /\ reply[t] = "none" /\ ~Waited(t)

----------------------------------------------------------------------------
(* save and registerProject                                                   *)

\* save: the whole job, keeping a cancellation that was stored meanwhile.
Save(j, job) == saved' = [saved EXCEPT ![j] = [job EXCEPT !.cancel = @ \/ saved[j].cancel]]

Listed(j, status) == [catalog EXCEPT ![j] = IF status = "available" THEN "enabled" ELSE "disabled"]
Register(j, status) == catalog' = Listed(j, status) /\ halved' = halved \ {j}

\* registerProject throws, before or after its write: another source owns the
\* entry, the lock of the store is not free in time, the name is not admitted.
\* Nothing repeats it for a job that is terminal; an entry that was written is
\* not yet in the job.
RegisterFails(j, status) ==
    /\ Outage
    /\ \/ UNCHANGED catalog /\ halved' = IF status = "available" THEN halved ELSE halved \cup {j}
       \/ catalog' = Listed(j, status) /\ halved' = IF status = "available" THEN halved \cup {j} ELSE halved

\* The job is recorded as cancelled without a call to the operator.
Unasked(j) == mistaken' = IF row[j].status # "none" \/ j \in late THEN mistaken \cup {j} ELSE mistaken

\* No code runs between two awaits of another caller.
Turn == tick.at \notin {"next", "settle", "register", "mark"} /\ cancelling.at # "catalog"

----------------------------------------------------------------------------
(* clone and visibility                                                       *)

CloneRequest(j) ==
    /\ Turn /\ saved[j] = Absent
    /\ TargetOf[j] \notin changing /\ \A k \in cloning : TargetOf[k] # TargetOf[j]
    /\ cloning' = cloning \cup {j}
    /\ UNCHANGED <<vars, saved, catalog, gated, tick, copy, cancelling, changing, outages, mistaken, halved,
                   reply, late>>

\* list and plan were answered, and the target is still not reserved; or not.
CloneAuthorized(j) ==
    /\ Turn /\ j \in cloning
    /\ cloning' = cloning \ {j}
    /\ \/ /\ \A k \in Jobs : TargetOf[k] = TargetOf[j] => saved[k] = Absent
          /\ Save(j, [Absent EXCEPT !.status = "authorized"])
       \/ UNCHANGED saved
    /\ UNCHANGED <<vars, catalog, gated, tick, copy, cancelling, changing, outages, mistaken, halved,
                   reply, late>>

\* Mutant: visibility only looks at the other calls.
PublicationInProgressUnseen(x) == x \in changing \/ \E j \in cloning : TargetOf[j] = x

\* "Clone publication is in progress"
PublicationInProgress(x) ==
    \/ x \in changing
    \/ \E j \in cloning : TargetOf[j] = x
    \/ \E j \in Jobs : TargetOf[j] = x /\ saved[j].status \notin Terminal \cup {"absent"}

ChangeVisibility(x) ==
    /\ Turn /\ ~PublicationInProgress(x)
    /\ changing' = changing \cup {x}
    /\ UNCHANGED <<vars, saved, catalog, gated, tick, copy, cancelling, cloning, outages, mistaken, halved,
                   reply, late>>

\* applyVisibility has ended: public, private, or as it was.
VisibilityChanged(x) ==
    /\ Turn /\ x \in changing
    /\ changing' = changing \ {x}
    /\ gated' \in {gated, gated \cup {x}, gated \ {x}}
    /\ UNCHANGED <<vars, saved, catalog, tick, copy, cancelling, cloning, outages, mistaken, halved,
                   reply, late>>

----------------------------------------------------------------------------
(* tick                                                                       *)

TickAt(step) == Turn /\ tick.at = step
TickGoto(step) == tick' = [tick EXCEPT !.at = step]
TickNext == tick' = [tick EXCEPT !.at = "next", !.job = NoJob, !.call = NoThread, !.seen = "none"]

TickStart ==
    /\ TickAt("rest") /\ \E j \in Jobs : saved[j] # Absent
    /\ tick' = [Resting EXCEPT !.at = "next", !.todo = {j \in Jobs : saved[j] # Absent}]
    /\ copy' = saved
    /\ UNCHANGED <<vars, saved, catalog, gated, cancelling, cloning, changing, outages, mistaken, halved,
                   reply, late>>

Skipped(j) ==
    \/ TargetOf[j] \in changing
    \/ /\ copy[j].status \in Terminal
       /\ ~(copy[j].status = "available" /\ (~copy[j].registered \/ copy[j].cancel))

TickJob(j) ==
    /\ tick.at = "next" /\ j \in tick.todo
    /\ tick' = IF Skipped(j) THEN [tick EXCEPT !.todo = @ \ {j}]
               ELSE [tick EXCEPT !.todo = @ \ {j}, !.job = j,
                                 !.at = IF copy[j].status = "authorized" THEN "gate" ELSE "status"]
    /\ UNCHANGED <<vars, saved, catalog, gated, copy, cancelling, cloning, changing, outages, mistaken, halved,
                   reply, late>>

TickEnd ==
    /\ tick.at = "next" /\ tick.todo = {}
    /\ tick' = Resting /\ copy' = [j \in Jobs |-> Absent]
    /\ UNCHANGED <<vars, saved, catalog, gated, cancelling, cloning, changing, outages, mistaken, halved,
                   reply, late>>

\* planVisibility and applyVisibility(private)
TickGate ==
    /\ TickAt("gate")
    /\ gated' = gated \cup {TargetOf[tick.job]}
    /\ TickGoto("receipt")
    /\ UNCHANGED <<vars, saved, catalog, copy, cancelling, cloning, changing, outages, mistaken, halved,
                   reply, late>>

\* The catch clause: the job as this tick has it, with an error.
TickCaught ==
    /\ Save(tick.job, copy[tick.job])
    /\ copy' = [copy EXCEPT ![tick.job] = saved'[tick.job]]
    /\ TickNext

\* receipt: private and verified, before the clone and before the activation.
TickReceipt ==
    /\ TickAt("receipt") \/ TickAt("receipt2")
    /\ IF TargetOf[tick.job] \in gated
       THEN TickGoto(IF tick.at = "receipt" THEN "clone" ELSE "activate") /\ UNCHANGED <<saved, copy>>
       ELSE TickCaught
    /\ UNCHANGED <<vars, catalog, gated, cancelling, cloning, changing, outages, mistaken, halved,
                   reply, late>>

\* native clone is sent, unless a cancellation was stored meanwhile.
TickClone ==
    LET j == tick.job IN
    /\ TickAt("clone")
    /\ IF saved[j].cancel
       THEN /\ Save(j, [copy[j] EXCEPT !.status = "cancelled"])
            /\ copy' = [copy EXCEPT ![j] = saved'[j]]
            /\ TickNext
            /\ Unasked(j)
       ELSE TickGoto("sent") /\ UNCHANGED <<saved, copy, mistaken>>
    /\ UNCHANGED <<vars, catalog, gated, cancelling, cloning, changing, outages, halved, reply, late>>

\* The operator serves it; a request for a known identifier returns its row.
TickSent ==
    LET j == tick.job IN
    /\ TickAt("sent") /\ daemon = "up"
    /\ Clone(j, TargetOf[j]) \/ (row[j].status # "none" /\ UNCHANGED vars)
    /\ tick' = [tick EXCEPT !.at = "cloned", !.seen = row'[j].status]
    /\ UNCHANGED <<saved, catalog, gated, copy, cancelling, cloning, changing, outages, mistaken, halved,
                   reply, late>>

TickCloned ==
    LET j == tick.job IN
    /\ TickAt("cloned")
    /\ Save(j, [copy[j] EXCEPT !.status = tick.seen])
    /\ copy' = [copy EXCEPT ![j] = saved'[j]]
    /\ TickGoto("status")
    /\ UNCHANGED <<vars, catalog, gated, cancelling, cloning, changing, outages, mistaken, halved,
                   reply, late>>

\* native status
TickStatus ==
    /\ TickAt("status") /\ daemon = "up" /\ row[tick.job].status # "none"
    /\ tick' = [tick EXCEPT !.at = "decide", !.seen = row[tick.job].status]
    /\ UNCHANGED <<vars, saved, catalog, gated, copy, cancelling, cloning, changing, outages, mistaken, halved,
                   reply, late>>

\* What follows from the row: cancel it, activate it, or write it down.
TickDecide ==
    /\ TickAt("decide")
    /\ TickGoto(IF saved[tick.job].cancel THEN "cancel"
                ELSE IF tick.seen = "staged" THEN "receipt2" ELSE "settle")
    /\ UNCHANGED <<vars, saved, catalog, gated, copy, cancelling, cloning, changing, outages, mistaken, halved,
                   reply, late>>

\* native cancel and native activate begin in a thread of the operator.
TickCancel(t) ==
    /\ TickAt("cancel") /\ Free(t) /\ CancelRead(t, tick.job)
    /\ tick' = [tick EXCEPT !.at = "wait", !.call = t]
    /\ UNCHANGED <<saved, catalog, gated, copy, cancelling, cloning, changing, outages, mistaken, halved,
                   reply, late>>

TickActivate(t) ==
    /\ TickAt("activate") /\ Free(t) /\ ActivateBegin(t, tick.job)
    /\ tick' = [tick EXCEPT !.at = "wait", !.call = t]
    /\ UNCHANGED <<saved, catalog, gated, copy, cancelling, cloning, changing, outages, mistaken, halved,
                   reply, late>>

\* The operator refuses: it is down, or the job is not staged any more.
TickRefused ==
    LET j == tick.job IN
    /\ \/ \E step \in {"sent", "status", "cancel", "activate"} : TickAt(step) /\ daemon # "up"
       \/ TickAt("sent") /\ row[j].status = "none" /\ ~Unreserved(TargetOf[j])
       \/ TickAt("status") /\ row[j].status = "none"
       \/ TickAt("activate") /\ row[j].status # "staged"
    /\ TickCaught
    /\ UNCHANGED <<vars, catalog, gated, cancelling, cloning, changing, outages, mistaken, halved,
                   reply, late>>

\* An answer: a copy that became available although cancelled is cancelled.
AfterCall(seen, cancelled) == IF cancelled /\ seen = "available" THEN "cancel" ELSE "settle"

TickAnswered ==
    /\ TickAt("wait") /\ reply[tick.call] \notin {"none", "ready"}
    /\ reply' = [reply EXCEPT ![tick.call] = "none"]
    /\ IF reply[tick.call] = "error"
       THEN TickCaught
       ELSE /\ tick' = [tick EXCEPT !.call = NoThread, !.seen = reply[tick.call],
                           !.at = AfterCall(reply[tick.call], saved[tick.job].cancel)]
            /\ UNCHANGED <<saved, copy>>
    /\ UNCHANGED <<vars, catalog, gated, cancelling, cloning, changing, outages, mistaken, halved, late>>

\* The row is written down; then registerProject and registered.
TickSettle ==
    LET j == tick.job
        job == [copy[j] EXCEPT !.status = tick.seen] IN
    /\ tick.at = "settle"
    /\ Save(j, job)
    /\ copy' = [copy EXCEPT ![j] = saved'[j]]
    /\ IF \/ tick.seen = "cancelled" /\ job.registered
          \/ tick.seen = "available" /\ ~job.registered
       THEN TickGoto("register") ELSE TickNext
    /\ UNCHANGED <<vars, catalog, gated, cancelling, cloning, changing, outages, mistaken, halved,
                   reply, late>>

TickRegister ==
    /\ tick.at = "register"
    /\ Register(tick.job, tick.seen)
    /\ IF tick.seen = "available" THEN TickGoto("mark") ELSE TickNext
    /\ UNCHANGED <<vars, saved, gated, copy, cancelling, cloning, changing, outages, mistaken, reply, late>>

\* The job was saved with its status and is now saved with an error: a later
\* tick takes up an available one again, and never a cancelled one.
TickRegisterFails ==
    /\ tick.at = "register" /\ RegisterFails(tick.job, tick.seen)
    /\ TickCaught
    /\ UNCHANGED <<vars, gated, cancelling, cloning, changing, mistaken, reply, late>>

TickMark ==
    LET j == tick.job IN
    /\ tick.at = "mark"
    /\ Save(j, [copy[j] EXCEPT !.registered = TRUE])
    /\ copy' = [copy EXCEPT ![j] = saved'[j]]
    /\ TickNext
    /\ UNCHANGED <<vars, catalog, gated, cancelling, cloning, changing, outages, mistaken, halved,
                   reply, late>>

\* A call is not answered in time, or the provider fails: the clone request
\* and a begun cancel or activate go on without a caller.
TickGivesUp ==
    LET j == tick.job IN
    /\ \E step \in {"gate", "receipt", "receipt2", "sent", "status", "cancel", "activate", "wait"} : TickAt(step)
    /\ Outage
    /\ late' = IF tick.at = "sent" THEN late \cup {j} ELSE late
    /\ reply' = [t \in Threads |-> IF t = tick.call THEN "none" ELSE reply[t]]
    /\ TickCaught
    /\ UNCHANGED <<vars, catalog, gated, cancelling, cloning, changing, mistaken, halved>>

----------------------------------------------------------------------------
(* cancel                                                                     *)

\* Mutant: cancel believes every authorized job unknown to the operator.
OwnJobUnknownAlways(j) == saved[j].status = "authorized"

\* cancel takes an authorized job that no tick works on for one the operator
\* has never seen.
OwnJobUnknown(j) == saved[j].status = "authorized" /\ tick.at = "rest"

CancelRequest(j) ==
    LET own == [saved[j] EXCEPT !.cancel = TRUE] IN
    /\ Turn /\ cancelling = NotCancelling /\ saved[j] # Absent
    /\ IF OwnJobUnknown(j)
       THEN /\ saved' = [saved EXCEPT ![j] = [own EXCEPT !.status = "cancelled"]]
            /\ Unasked(j)
            /\ UNCHANGED cancelling
       ELSE /\ Save(j, own)
            /\ cancelling' = [NotCancelling EXCEPT !.at = "call", !.job = j, !.own = own]
            /\ UNCHANGED mistaken
    /\ UNCHANGED <<vars, catalog, gated, tick, copy, cloning, changing, outages, halved, reply, late>>

CancelCall(t) ==
    /\ Turn /\ cancelling.at = "call" /\ Free(t) /\ CancelRead(t, cancelling.job)
    /\ cancelling' = [cancelling EXCEPT !.at = "wait", !.call = t]
    /\ UNCHANGED <<saved, catalog, gated, tick, copy, cloning, changing, outages, mistaken, halved, reply, late>>

\* Mutant: only the tick corrects the catalog.
CancelEndsUnlisted(own) ==
    /\ Save(cancelling.job, own)
    /\ cancelling' = NotCancelling

\* save, and registerProject of a job that was registered.
CancelEnds(own) ==
    /\ Save(cancelling.job, own)
    /\ cancelling' = IF own.registered /\ own.status = "cancelled"
                     THEN [cancelling EXCEPT !.at = "catalog", !.call = NoThread, !.own = own]
                     ELSE NotCancelling

CancelAnswered ==
    /\ Turn /\ cancelling.at = "wait" /\ reply[cancelling.call] \notin {"none", "ready"}
    /\ CancelEnds(IF reply[cancelling.call] = "error" THEN cancelling.own
                  ELSE [cancelling.own EXCEPT !.status = reply[cancelling.call]])
    /\ reply' = [reply EXCEPT ![cancelling.call] = "none"]
    /\ UNCHANGED <<vars, catalog, gated, tick, copy, cloning, changing, outages, mistaken, halved, late>>

\* "Cancellation persisted; native confirmation pending": the operator is
\* down or does not know the job.
CancelRefused ==
    /\ Turn /\ cancelling.at = "call" /\ (daemon # "up" \/ row[cancelling.job].status = "none")
    /\ CancelEnds(cancelling.own)
    /\ UNCHANGED <<vars, catalog, gated, tick, copy, cloning, changing, outages, mistaken, halved, reply, late>>

CancelGivesUp ==
    /\ Turn /\ cancelling.at \in {"call", "wait"} /\ Outage
    /\ CancelEnds(cancelling.own)
    /\ reply' = [t \in Threads |-> IF t = cancelling.call THEN "none" ELSE reply[t]]
    /\ UNCHANGED <<vars, catalog, gated, tick, copy, cloning, changing, mistaken, halved, late>>

CancelCatalog ==
    /\ cancelling.at = "catalog"
    /\ Register(cancelling.job, cancelling.own.status)
    /\ cancelling' = NotCancelling
    /\ UNCHANGED <<vars, saved, gated, tick, copy, cloning, changing, outages, mistaken, reply, late>>

\* The request is answered with the error, after its save.
CancelCatalogFails ==
    /\ cancelling.at = "catalog" /\ RegisterFails(cancelling.job, cancelling.own.status)
    /\ cancelling' = NotCancelling
    /\ UNCHANGED <<vars, saved, gated, tick, copy, cloning, changing, mistaken, reply, late>>

----------------------------------------------------------------------------

\* The process of the portal ends and starts again.
PortalRestart ==
    /\ Outage
    /\ tick' = Resting /\ cancelling' = NotCancelling
    /\ copy' = [j \in Jobs |-> Absent]
    /\ cloning' = {} /\ changing' = {}
    /\ reply' = [t \in Threads |-> "none"]
    /\ late' = IF tick.at = "sent" THEN late \cup {tick.job} ELSE late
    /\ halved' = halved \cup {j \in Jobs :
          \/ tick.job = j /\ tick.at = "mark"
          \/ tick.job = j /\ tick.at = "register" /\ tick.seen = "cancelled"
          \/ cancelling.job = j /\ cancelling.at = "catalog"}
    /\ UNCHANGED <<vars, saved, catalog, gated, mistaken>>

TickSteps ==
    \/ TickStart \/ TickEnd \/ TickGate \/ TickReceipt \/ TickClone \/ TickSent \/ TickCloned \/ TickStatus \/ TickDecide
    \/ TickRefused \/ TickAnswered \/ TickSettle \/ TickRegister \/ TickMark
    \/ \E j \in Jobs : TickJob(j)
    \/ \E t \in Threads : TickCancel(t) \/ TickActivate(t)

CancelSteps ==
    \/ CancelAnswered \/ CancelRefused \/ CancelCatalog
    \/ \E t \in Threads : CancelCall(t)

OperatorSide ==
    \/ BuildStep \/ BootStep
    \/ \E t \in Threads : ServeStep(t) \/ Respond(t)
    \/ \E j \in Jobs : LateClone(j)

HostingNext ==
    \/ OperatorSide \/ OperatorCrash
    \/ TickSteps \/ TickGivesUp \/ TickRegisterFails
    \/ CancelSteps \/ CancelGivesUp \/ CancelCatalogFails
    \/ \E j \in Jobs : CloneRequest(j) \/ CloneAuthorized(j) \/ CancelRequest(j)
    \/ \E x \in Targets : ChangeVisibility(x) \/ VisibilityChanged(x)
    \/ PortalRestart

HostingSpec == HostingInit /\ [][HostingNext]_hostingVars

----------------------------------------------------------------------------
(* Properties                                                                 *)

\* The copy runs and its hostname is routed to it.
Served(j) == "app" \in up[j] /\ j \in conf

\* A copy is first served while Access stands before its hostname, whatever
\* visibility changes, cancels, time-outs and restarts surround it and although
\* the activation publishes long after the portal looked.
ServedIsGated ==
    [][\A j \in Jobs : ~Served(j) /\ Served(j)' /\ j \notin swallowed
                       => TargetOf[j] \in gated]_hostingVars

\* Nothing of the portal is under way for the job.
PortalQuiet(j) == tick.at = "rest" /\ cancelling = NotCancelling

\* The catalog offers a job that is marked registered until its cancellation
\* is asked for, and offers it no more once the portal has written it down as
\* cancelled, although cancel and tick overwrite each other's copies.  The
\* latter is not so of a job whose registerProject threw after the save of the
\* status, or was cut off by the end of the process, since nothing repeats it,
\* nor of one that was listed without being marked.
CatalogFollows ==
    \A j \in Jobs :
        /\ saved[j].registered /\ ~saved[j].cancel => catalog[j] = "enabled"
        /\ PortalQuiet(j) /\ saved[j].status = "cancelled" /\ j \notin halved
           => catalog[j] # "enabled"

\* The operator has ended the job, or at least stopped it and taken its route.
Ended(j) ==
    \/ row[j].status \in {"none", "failed", "activation_failed", "cancelled", "interrupted"}
    \/ up[j] = {} /\ j \notin conf

\* The portal lets go of a cancelled job only when it has ended in the
\* operator, although cancel, tick, worker and activation overwrite each
\* other's copies and rows and calls fail or time out: at rest, the next tick
\* works on it unless it ended, or was taken for one the operator does not know.
CancelNotForgotten ==
    \A j \in Jobs :
        /\ saved[j].cancel /\ PortalQuiet(j) /\ Quiet(j) /\ queue = <<>> /\ late = {}
        /\ saved[j].status \in Terminal \ {"available"} /\ j \notin mistaken \cup swallowed \cup orphaned
        => Ended(j)

\* control-center.js tells the owner "Creazione della copia annullata e
\* verificata." when the job is cancelled: then it has ended in the operator.
CancelledAndVerified ==
    \A j \in Jobs : /\ saved[j].status = "cancelled" /\ PortalQuiet(j) /\ Quiet(j) /\ queue = <<>>
                    => Ended(j)
=============================================================================
