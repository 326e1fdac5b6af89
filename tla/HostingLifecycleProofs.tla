----------------------- MODULE HostingLifecycleProofs -----------------------
(* Proofs about HostingLifecycle for every set of jobs, targets and threads:  *)
(* the composition drives the operator only as ApplicationOperator allows,    *)
(* the catalog follows the jobs, a copy is first served behind Access, and a  *)
(* cancelled job is let go only when it has ended.                            *)
EXTENDS HostingLifecycle, ApplicationOperatorProofs

JobStatuses == Statuses \cup {"absent", "authorized"}
JobRecs == [status : JobStatuses, cancel : BOOLEAN, registered : BOOLEAN]
TickPcs == {"rest", "next", "gate", "receipt", "clone", "sent", "cloned", "status", "decide",
             "receipt2", "cancel", "activate", "wait", "settle", "register", "mark"}
Ticks == [at : TickPcs, todo : SUBSET Jobs, job : Jobs \cup {NoJob},
          call : Threads \cup {NoThread}, seen : Statuses]
Cancellings == [at : {"rest", "call", "wait", "catalog"}, job : Jobs \cup {NoJob},
                call : Threads \cup {NoThread}, own : JobRecs]

\* The values the variables of the portal take.
PortalTypeOK ==
    /\ saved \in [Jobs -> JobRecs]
    /\ copy \in [Jobs -> JobRecs]
    /\ catalog \in [Jobs -> {"none", "enabled", "disabled"}]
    /\ tick \in Ticks
    /\ cancelling \in Cancellings
    /\ reply \in [Threads -> Statuses \cup {"ready", "error"}]
    /\ halved \subseteq Jobs

\* A tick and a cancel at work have their job, and their threads.
WorkingOK ==
    /\ tick.at \notin {"rest", "next"} => tick.job \in Jobs
    /\ tick.at = "wait" <=> tick.call # NoThread
    /\ cancelling.at # "rest" => cancelling.job \in Jobs
    /\ cancelling.at = "wait" <=> cancelling.call # NoThread
    /\ ~(tick.at \in {"next", "settle", "register", "mark"} /\ cancelling.at = "catalog")

\* The copies of a job agree on what only registering changes, an authorized one
\* is not registered, and one that is has only a cancellation before it.
SavedOK(j) ==
    /\ saved[j].registered /\ ~saved[j].cancel => catalog[j] = "enabled" /\ saved[j].status = "available"
    /\ saved[j].status = "authorized" => ~saved[j].registered
CopyOK(j) ==
    tick.at # "rest" =>
        /\ copy[j].registered = saved[j].registered
        /\ copy[j].cancel => saved[j].cancel
        /\ copy[j].status = "authorized" => ~copy[j].registered
        /\ copy[j].registered /\ ~copy[j].cancel => copy[j].status = "available"
OwnOK ==
    cancelling.at # "rest" =>
        /\ cancelling.own.registered = saved[cancelling.job].registered
        /\ cancelling.own.status = "authorized" => ~cancelling.own.registered
        /\ saved[cancelling.job].cancel
        /\ cancelling.at = "catalog" => cancelling.own.status = "cancelled"

\* What the steps of a tick know of its job.
TickOK ==
    LET j == tick.job IN
    /\ tick.at \in {"gate", "receipt", "clone", "sent", "cloned"} => copy[j].status = "authorized"
    /\ tick.at \in {"status", "decide", "receipt2", "cancel", "activate", "wait", "settle"}
          /\ copy[j].status = "cancelled" => ~copy[j].registered
    /\ tick.at \in {"settle", "register", "mark"} /\ tick.seen = "available" => ~saved[j].cancel
    /\ tick.at \in {"register", "mark"} => saved[j].status = tick.seen /\ copy[j].status = tick.seen
    /\ tick.at = "register" => tick.seen \in {"available", "cancelled"}
    /\ tick.at = "mark" => tick.seen = "available" /\ catalog[j] = "enabled"
    /\ tick.at \notin {"rest", "next", "mark"} /\ copy[j].registered => copy[j].cancel

\* The catalog offers what is registered, or is about to be so marked.
OfferedOK(j) ==
    catalog[j] = "enabled" /\ j \notin halved
    => saved[j].registered \/ (tick.at = "mark" /\ tick.job = j)

\* What was cancelled is no longer offered, or is about to be withdrawn.
WithdrawnOK(j) ==
    /\ saved[j].status = "cancelled" /\ j \notin halved
    => \/ catalog[j] # "enabled"
       \/ tick.at = "register" /\ tick.job = j /\ tick.seen = "cancelled"
       \/ cancelling.at = "catalog" /\ cancelling.job = j

JobInv(j) == SavedOK(j) /\ CopyOK(j) /\ OfferedOK(j) /\ WithdrawnOK(j)
PortalInv == PortalTypeOK /\ WorkingOK /\ OwnOK /\ TickOK /\ \A j \in Jobs : JobInv(j)

-----------------------------------------------------------------------------
(* The operator under the portal is the operator of ApplicationOperator.      *)

\* Every step of the composition is a step of the operator, or leaves it alone.
LEMMA StepOfTheOperator ==
  ASSUME PortalTypeOK, WorkingOK, [HostingNext]_hostingVars
  PROVE  [Next]_vars
  <1> SUFFICES ASSUME HostingNext PROVE [Next]_vars
    BY DEF hostingVars, vars
  <1>1. ASSUME OperatorSide PROVE [Next]_vars
    <2>1. ASSUME NEW j \in Jobs, LateClone(j) PROVE [Next]_vars
      BY <2>1, HostingConstants DEF LateClone, Next, Request
    <2> QED
      BY <1>1, <2>1 DEF OperatorSide, BuildStep, BootStep, ServeStep, Respond, Next
  <1>2. ASSUME OperatorCrash PROVE [Next]_vars
    BY <1>2 DEF OperatorCrash, Next
  <1>3. ASSUME TickSent PROVE [Next]_vars
    <2>1. PICK j : j = tick.job
      OBVIOUS
    <2>2. j \in Jobs /\ TargetOf[j] \in Targets
      BY <1>3, <2>1, HostingConstants DEF TickSent, TickAt, WorkingOK
    <2> QED
      BY <1>3, <2>1, <2>2 DEF TickSent, Next, Request
  <1>4. ASSUME NEW t \in Threads, TickCancel(t) \/ TickActivate(t) PROVE [Next]_vars
    <2>1. PICK j : j = tick.job
      OBVIOUS
    <2>2. j \in Jobs
      BY <1>4, <2>1 DEF TickCancel, TickActivate, TickAt, WorkingOK
    <2> QED
      BY <1>4, <2>1, <2>2 DEF TickCancel, TickActivate, Next, Request
  <1>5. ASSUME NEW t \in Threads, CancelCall(t) PROVE [Next]_vars
    <2>1. PICK j : j = cancelling.job
      OBVIOUS
    <2>2. j \in Jobs
      BY <1>5, <2>1 DEF CancelCall, WorkingOK
    <2> QED
      BY <1>5, <2>1, <2>2 DEF CancelCall, Next, Request
  <1>6. ASSUME TickSteps PROVE [Next]_vars
    BY Zenon, <1>3, <1>4, <1>6 DEF TickSteps, TickStart, TickEnd, TickGate, TickReceipt, TickClone,
       TickCloned, TickStatus, TickDecide, TickRefused, TickAnswered, TickSettle,
       TickRegister, TickMark, TickJob
  <1>7. ASSUME CancelSteps PROVE [Next]_vars
    BY <1>5, <1>7 DEF CancelSteps, CancelAnswered, CancelRefused, CancelCatalog
  <1>8. ASSUME NEW j \in Jobs, CloneRequest(j) \/ CloneAuthorized(j) \/ CancelRequest(j)
        PROVE  [Next]_vars
    BY <1>8 DEF CloneRequest, CloneAuthorized, CancelRequest
  <1>9. ASSUME NEW x \in Targets, ChangeVisibility(x) \/ VisibilityChanged(x) PROVE [Next]_vars
    BY <1>9 DEF ChangeVisibility, VisibilityChanged
  <1> QED
    BY <1>1, <1>2, <1>6, <1>7, <1>8, <1>9
       DEF HostingNext, TickGivesUp, TickRegisterFails, CancelGivesUp, CancelCatalogFails, PortalRestart

-----------------------------------------------------------------------------
(* What save and registerProject change.                                      *)

\* save: the whole job, with the cancellation that was stored.
LEMMA SaveFields ==
  ASSUME saved \in [Jobs -> JobRecs], NEW j \in Jobs, NEW job \in JobRecs, Save(j, job)
  PROVE  /\ saved' \in [Jobs -> JobRecs]
         /\ saved'[j].status = job.status
         /\ saved'[j].registered = job.registered
         /\ saved'[j].cancel <=> job.cancel \/ saved[j].cancel
         /\ \A k \in Jobs \ {j} : saved'[k] = saved[k]
  BY DEF Save, JobRecs

\* registerProject: the entry of one job.
LEMMA RegisterFields ==
  ASSUME catalog \in [Jobs -> {"none", "enabled", "disabled"}], NEW j \in Jobs, NEW status,
         Register(j, status)
  PROVE  /\ catalog' \in [Jobs -> {"none", "enabled", "disabled"}]
         /\ catalog'[j] = IF status = "available" THEN "enabled" ELSE "disabled"
         /\ \A k \in Jobs \ {j} : catalog'[k] = catalog[k]
         /\ halved' = halved \ {j}
  BY DEF Register, Listed

\* registerProject that throws: the entry is written or not, and it is
\* remembered whether somebody will come back to it.
LEMMA RegisterFailsFields ==
  ASSUME catalog \in [Jobs -> {"none", "enabled", "disabled"}], halved \subseteq Jobs,
         NEW j \in Jobs, NEW status, RegisterFails(j, status)
  PROVE  /\ catalog' \in [Jobs -> {"none", "enabled", "disabled"}]
         /\ \A k \in Jobs \ {j} : catalog'[k] = catalog[k]
         /\ halved \subseteq halved' /\ halved' \subseteq halved \cup {j}
         /\ \/ catalog' = catalog /\ (status # "available" => j \in halved')
            \/ status = "available" /\ catalog'[j] = "enabled" /\ j \in halved'
            \/ status # "available" /\ catalog'[j] = "disabled"
  BY DEF RegisterFails, Listed

\* The copy of the tick follows what was saved.
LEMMA CopyFields ==
  ASSUME copy \in [Jobs -> JobRecs], saved' \in [Jobs -> JobRecs], NEW j \in Jobs,
         copy' = [copy EXCEPT ![j] = saved'[j]]
  PROVE  /\ copy' \in [Jobs -> JobRecs]
         /\ copy'[j] = saved'[j]
         /\ \A k \in Jobs \ {j} : copy'[k] = copy[k]
  OBVIOUS

\* A tick that changes nothing but its place.
GoesTo(step) ==
    /\ tick' \in Ticks /\ tick'.at = step /\ tick'.job = tick.job
    /\ tick'.call = tick.call /\ tick'.seen = tick.seen

LEMMA GotoPlace ==
  ASSUME tick \in Ticks, NEW step \in TickPcs, TickGoto(step)
  PROVE  GoesTo(step)
  BY DEF TickGoto, GoesTo, Ticks

\* A tick that goes to its next job.
LEMMA NextPlace ==
  ASSUME tick \in Ticks, TickNext
  PROVE  tick' \in Ticks /\ tick'.at = "next"
  BY Zenon DEF TickNext, Ticks, TickPcs, Statuses

-----------------------------------------------------------------------------
(* The steps that leave the jobs of the portal alone.                         *)

AnswersTyped == reply' \in [Threads -> Statuses \cup {"ready", "error"}]
JobsKept == UNCHANGED <<saved, catalog, halved>>

\* Nothing of the portal but an answer changes.
LEMMA PortalKept ==
  ASSUME PortalInv, JobsKept, UNCHANGED <<tick, copy, cancelling>>, AnswersTyped
  PROVE  PortalInv'
  BY DEF PortalInv, PortalTypeOK, WorkingOK, OwnOK, TickOK, JobInv, SavedOK, CopyOK, OfferedOK,
     WithdrawnOK, AnswersTyped, JobsKept

\* The tick moves, and what it knows at its next step is true.
Waits == {"gate", "receipt", "clone", "sent", "cloned", "status", "decide",
          "receipt2", "cancel", "activate", "wait"}

LEMMA TickMoved ==
  ASSUME PortalInv, JobsKept, UNCHANGED <<copy, cancelling>>, AnswersTyped,
         tick.at \in Waits \cup {"next"}, tick' \in Ticks,
         tick'.at \in Waits \cup {"next", "settle"}, WorkingOK', TickOK'
  PROVE  PortalInv'
  <1>1. PortalTypeOK' /\ OwnOK'
    BY DEF PortalInv, PortalTypeOK, OwnOK, AnswersTyped, JobsKept
  <1>2. ASSUME NEW j \in Jobs PROVE JobInv(j)'
    BY DEF PortalInv, PortalTypeOK, Ticks, JobInv, SavedOK, CopyOK, OfferedOK,
       WithdrawnOK, JobsKept, Waits
  <1> QED
    BY <1>1, <1>2 DEF PortalInv

\* The steps of the operator, and its crash.
LEMMA OperatorKeepsPortal ==
  ASSUME PortalInv, TypeOK, OperatorSide \/ OperatorCrash
  PROVE  PortalInv'
  <1>1. ASSUME NEW t \in Threads, ServeStep(t) PROVE AnswersTyped
    BY <1>1 DEF PortalInv, PortalTypeOK, ServeStep, Answer, AnswersTyped
  <1>2. ASSUME NEW t \in Threads, Respond(t) PROVE AnswersTyped
    <2>1. PICK c \in {tick, cancelling} :
             c.call = t /\ reply' = [reply EXCEPT ![t] = row[c.job].status]
      BY Zenon, <1>2 DEF Respond
    <2>2. c.job \in Jobs
      BY <2>1, HostingConstants DEF PortalInv, WorkingOK
    <2>3. row[c.job].status \in Statuses
      BY <2>2 DEF TypeOK
    <2> QED
      BY <2>1, <2>3 DEF PortalInv, PortalTypeOK, AnswersTyped
  <1>3. ASSUME OperatorCrash PROVE AnswersTyped
    BY <1>3 DEF OperatorCrash, AnswersTyped, Statuses
  <1> QED
    BY <1>1, <1>2, <1>3, PortalKept DEF OperatorSide, OperatorCrash, BuildStep, BootStep,
       ServeStep, Respond, LateClone, portal, JobsKept, PortalInv, PortalTypeOK, AnswersTyped

-----------------------------------------------------------------------------
(* The tick.                                                                  *)

\* The step of a tick that goes on to another place with the same job.
LEMMA TickGoes ==
  ASSUME PortalInv, JobsKept, UNCHANGED <<copy, cancelling>>, AnswersTyped,
         tick.at \in Waits, NEW step \in Waits \cup {"settle"}, tick' \in Ticks,
         tick'.at = step, tick'.job = tick.job, step = "wait" <=> tick'.call # NoThread,
         step \in {"gate", "receipt", "clone", "sent", "cloned"}
            => tick.at \in {"gate", "receipt", "clone", "sent", "cloned"},
         step = "settle" => /\ cancelling.at # "catalog"
                            /\ tick'.seen = "available" => ~saved[tick.job].cancel
  PROVE  PortalInv'
  <1>1. WorkingOK'
    BY DEF PortalInv, WorkingOK, Waits
  <1>2. TickOK'
    BY DEF PortalInv, WorkingOK, CopyOK, PortalTypeOK, JobRecs, JobInv, TickOK, Waits, JobsKept
  <1> QED
    BY <1>1, <1>2, TickMoved

\* tick reads every job when it begins, and forgets them when it ends.
LEMMA TickStartKeeps ==
  ASSUME PortalInv, TickStart
  PROVE  PortalInv'
  <1>1. tick' \in Ticks /\ tick'.at = "next" /\ tick'.call = NoThread
    BY Zenon DEF TickStart, Resting, Ticks, TickPcs, Statuses
  <1>2. PortalTypeOK' /\ WorkingOK'
    BY <1>1 DEF TickStart, TickAt, Turn, PortalInv, PortalTypeOK, WorkingOK
  <1>3. OwnOK' /\ TickOK'
    BY <1>1 DEF TickStart, PortalInv, OwnOK, TickOK
  <1>4. ASSUME NEW j \in Jobs PROVE JobInv(j)'
    BY <1>1 DEF TickStart, TickAt, Turn, PortalInv, PortalTypeOK, JobInv, SavedOK, CopyOK, OfferedOK, WithdrawnOK
  <1> QED
    BY <1>2, <1>3, <1>4 DEF PortalInv

LEMMA TickEndKeeps ==
  ASSUME PortalInv, TickEnd
  PROVE  PortalInv'
  <1>1. tick' \in Ticks /\ tick'.at = "rest" /\ tick'.call = NoThread
    BY DEF TickEnd, Resting, Ticks, TickPcs, Statuses
  <1>2. PortalTypeOK' /\ WorkingOK'
    BY <1>1 DEF TickEnd, PortalInv, PortalTypeOK, WorkingOK, Absent, JobRecs, JobStatuses
  <1>3. OwnOK' /\ TickOK'
    BY <1>1 DEF TickEnd, PortalInv, OwnOK, TickOK
  <1>4. ASSUME NEW j \in Jobs PROVE JobInv(j)'
    BY <1>1 DEF TickEnd, PortalInv, JobInv, SavedOK, CopyOK, OfferedOK, WithdrawnOK
  <1> QED
    BY <1>2, <1>3, <1>4 DEF PortalInv

\* A job is taken up: not a cancelled one.
LEMMA TickJobKeeps ==
  ASSUME PortalInv, NEW j \in Jobs, TickJob(j)
  PROVE  PortalInv'
  <1>1. /\ tick' \in Ticks /\ tick'.call = tick.call
        /\ \/ tick'.at = "next"
           \/ tick'.at = "gate" /\ tick'.job = j /\ copy[j].status = "authorized"
           \/ /\ tick'.at = "status" /\ tick'.job = j /\ copy[j].status # "cancelled"
              /\ copy[j].status # "available" \/ ~copy[j].registered \/ copy[j].cancel
    BY Zenon DEF TickJob, Skipped, Terminal, PortalInv, PortalTypeOK, Ticks, TickPcs
  <1>2. JobsKept /\ UNCHANGED <<copy, cancelling>> /\ AnswersTyped /\ tick.at = "next"
    BY DEF TickJob, JobsKept, AnswersTyped, PortalInv, PortalTypeOK
  <1>3. WorkingOK' /\ TickOK'
    BY <1>1, <1>2 DEF PortalInv, WorkingOK, TickOK, JobInv, CopyOK
  <1> QED
    BY <1>1, <1>2, <1>3, TickMoved DEF Waits

\* The catch clause.
LEMMA CaughtKeeps ==
  ASSUME PortalInv, tick.at \in Waits, cancelling.at # "catalog", TickCaught,
         UNCHANGED <<catalog, cancelling, halved>>, AnswersTyped
  PROVE  PortalInv'
  <1>1. PICK j \in Jobs : j = tick.job
    BY DEF PortalInv, WorkingOK, Waits
  <1>2. PICK job \in JobRecs : job = copy[j]
    BY <1>1 DEF PortalInv, PortalTypeOK
  <1>3. /\ saved' \in [Jobs -> JobRecs]
        /\ saved'[j].status = job.status
        /\ saved'[j].registered = job.registered
        /\ saved'[j].cancel <=> job.cancel \/ saved[j].cancel
        /\ \A k \in Jobs \ {j} : saved'[k] = saved[k]
    BY <1>1, <1>2, SaveFields DEF TickCaught, PortalInv, PortalTypeOK
  <1>4. /\ copy' \in [Jobs -> JobRecs]
        /\ copy'[j] = saved'[j]
        /\ \A k \in Jobs \ {j} : copy'[k] = copy[k]
    BY Zenon, <1>1, <1>3, CopyFields DEF TickCaught, PortalInv, PortalTypeOK
  <1>5. tick' \in Ticks /\ tick'.at = "next" /\ tick'.call = NoThread
    BY Zenon DEF TickCaught, TickNext, PortalInv, PortalTypeOK, Ticks, TickPcs, Statuses
  <1>6. PortalTypeOK' /\ WorkingOK' /\ TickOK'
    BY <1>3, <1>4, <1>5 DEF PortalInv, PortalTypeOK, WorkingOK, TickOK, AnswersTyped
  <1>7. OwnOK'
    BY <1>1, <1>2, <1>3 DEF PortalInv, OwnOK, WorkingOK, JobInv, CopyOK, Waits
  <1>8. ASSUME NEW k \in Jobs, k # j PROVE JobInv(k)'
    BY <1>1, <1>3, <1>4, <1>5, <1>8 DEF PortalInv, JobInv, SavedOK, CopyOK, OfferedOK, WithdrawnOK, Waits
  <1>9. JobInv(j)'
    BY <1>1, <1>2, <1>3, <1>4, <1>5
       DEF PortalInv, TickOK, JobInv, SavedOK, CopyOK, OfferedOK, WithdrawnOK, Waits
  <1> QED
    BY <1>6, <1>7, <1>8, <1>9 DEF PortalInv

\* A job is written down with the status the tick has seen.
LEMMA TickSaves ==
  ASSUME PortalInv, tick.at \in Waits \cup {"settle"}, cancelling.at # "catalog",
         NEW j \in Jobs, j = tick.job, NEW status \in Statuses,
         Save(j, [copy[j] EXCEPT !.status = status]), copy' = [copy EXCEPT ![j] = saved'[j]],
         UNCHANGED <<catalog, cancelling, halved>>, AnswersTyped,
         tick' \in Ticks, tick'.at \in {"next", "status", "register"}, tick'.call = NoThread,
         tick'.at # "next" => tick'.job = j,
         tick'.at = "status" /\ status = "cancelled" => ~copy[j].registered,
         tick'.at = "register" => /\ tick'.seen = status /\ status \in {"available", "cancelled"}
                                  /\ status = "available" => ~saved[j].cancel /\ ~copy[j].cancel,
         status = "cancelled" /\ copy[j].registered => tick'.at = "register"
  PROVE  PortalInv'
  <1>1. PICK job \in JobRecs : job = [copy[j] EXCEPT !.status = status]
    BY DEF PortalInv, PortalTypeOK, JobRecs, JobStatuses
  <1>2. /\ job.status = status
        /\ job.registered = copy[j].registered
        /\ job.cancel = copy[j].cancel
    BY <1>1 DEF PortalInv, PortalTypeOK, JobRecs
  <1>3. /\ saved' \in [Jobs -> JobRecs]
        /\ saved'[j].status = job.status
        /\ saved'[j].registered = job.registered
        /\ saved'[j].cancel <=> job.cancel \/ saved[j].cancel
        /\ \A k \in Jobs \ {j} : saved'[k] = saved[k]
    BY Zenon, <1>1, SaveFields DEF PortalInv, PortalTypeOK
  <1>4. /\ copy' \in [Jobs -> JobRecs]
        /\ copy'[j] = saved'[j]
        /\ \A k \in Jobs \ {j} : copy'[k] = copy[k]
    BY Zenon, <1>3, CopyFields DEF PortalInv, PortalTypeOK
  <1>5. PortalTypeOK' /\ WorkingOK'
    BY <1>3, <1>4 DEF PortalInv, PortalTypeOK, WorkingOK, AnswersTyped
  <1>6. TickOK'
    BY <1>2, <1>3, <1>4 DEF PortalInv, TickOK, Waits
  <1>7. OwnOK'
    BY <1>2, <1>3 DEF PortalInv, OwnOK, WorkingOK, JobInv, CopyOK, Waits
  <1>8. ASSUME NEW k \in Jobs, k # j PROVE JobInv(k)'
    BY <1>3, <1>4, <1>8 DEF PortalInv, JobInv, SavedOK, CopyOK, OfferedOK, WithdrawnOK, Waits
  <1>9. JobInv(j)'
    <2>1. status # "authorized"
      BY DEF Statuses, InFlight
    <2>2. copy[j].registered = saved[j].registered /\ (copy[j].registered => copy[j].cancel)
      BY DEF PortalInv, JobInv, CopyOK, TickOK, Waits
    <2>3. SavedOK(j)' /\ CopyOK(j)'
      BY <1>2, <1>3, <1>4, <2>1, <2>2 DEF SavedOK, CopyOK
    <2>4. OfferedOK(j)'
      BY <1>2, <1>3, <2>2 DEF PortalInv, JobInv, OfferedOK, Waits
    <2>5. WithdrawnOK(j)'
      BY <1>2, <1>3, <2>2 DEF PortalInv, JobInv, OfferedOK, WithdrawnOK, Waits
    <2> QED
      BY <2>3, <2>4, <2>5 DEF JobInv
  <1> QED
    BY <1>5, <1>6, <1>7, <1>8, <1>9 DEF PortalInv

\* receipt: the tick goes on, or the catch clause ends its work on the job.
LEMMA TickReceiptKeeps ==
  ASSUME PortalInv, TickReceipt
  PROVE  PortalInv'
  <1>1. /\ tick.at \in {"receipt", "receipt2"} /\ cancelling.at # "catalog" /\ AnswersTyped
        /\ UNCHANGED <<catalog, cancelling, halved>>
    BY DEF TickReceipt, TickAt, Turn, AnswersTyped, PortalInv, PortalTypeOK
  <1>2. CASE TickCaught
    BY <1>1, <1>2, CaughtKeeps DEF Waits
  <1>3. CASE ~TickCaught
    <2>1. JobsKept /\ UNCHANGED copy /\ TickGoto(IF tick.at = "receipt" THEN "clone" ELSE "activate")
      BY <1>3 DEF TickReceipt, JobsKept
    <2>2. PICK step \in {"clone", "activate"} :
             step = IF tick.at = "receipt" THEN "clone" ELSE "activate"
      OBVIOUS
    <2>3. GoesTo(step)
      BY <2>1, <2>2, GotoPlace DEF TickPcs, PortalInv, PortalTypeOK
    <2>4. step = "wait" <=> tick'.call # NoThread
      BY <1>1, <2>2, <2>3 DEF GoesTo, PortalInv, WorkingOK
    <2> QED
      BY <1>1, <2>1, <2>2, <2>3, <2>4, TickGoes DEF GoesTo, Waits
  <1> QED
    BY <1>2, <1>3

\* The steps that only go on.
LEMMA TickForwardKeeps ==
  ASSUME PortalInv, TypeOK', TickGate \/ TickSent
  PROVE  PortalInv'
  <1>1. /\ tick.at \in {"gate", "sent"} /\ AnswersTyped /\ JobsKept
        /\ UNCHANGED <<copy, cancelling>>
    BY DEF TickGate, TickSent, TickAt, AnswersTyped, JobsKept, PortalInv, PortalTypeOK
  <1>2. PICK step \in {"receipt", "cloned"} :
           /\ tick' \in Ticks /\ tick'.at = step /\ tick'.job = tick.job /\ tick'.call = tick.call
    <2>1. CASE TickGate
      BY <2>1, GotoPlace DEF TickGate, GoesTo, PortalInv, PortalTypeOK, TickPcs
    <2>2. CASE TickSent
      <3>1. row'[tick.job].status \in Statuses
        BY <1>1 DEF TypeOK, PortalInv, WorkingOK
      <3> QED
        BY Zenon, <2>2, <3>1 DEF TickSent, PortalInv, PortalTypeOK, Ticks, TickPcs
    <2> QED
      BY <2>1, <2>2
  <1>3. step = "wait" <=> tick'.call # NoThread
    BY <1>1, <1>2 DEF PortalInv, WorkingOK
  <1> QED
    BY <1>1, <1>2, <1>3, TickGoes DEF Waits

\* A job that was cancelled meanwhile is not sent to the operator.
LEMMA TickCloneKeeps ==
  ASSUME PortalInv, TickClone
  PROVE  PortalInv'
  <1>1. PICK j \in Jobs : j = tick.job
    BY DEF TickClone, TickAt, PortalInv, WorkingOK
  <1>2. /\ tick.at = "clone" /\ cancelling.at # "catalog" /\ AnswersTyped
        /\ UNCHANGED <<catalog, cancelling, halved>> /\ tick.call = NoThread
    BY DEF TickClone, TickAt, Turn, AnswersTyped, PortalInv, PortalTypeOK, WorkingOK
  <1>3. CASE saved[j].cancel
    <2>1. /\ Save(j, [copy[j] EXCEPT !.status = "cancelled"])
          /\ copy' = [copy EXCEPT ![j] = saved'[j]] /\ TickNext
      BY <1>1, <1>3 DEF TickClone
    <2>2. tick' \in Ticks /\ tick'.at = "next" /\ tick'.call = NoThread
      BY Zenon, <2>1 DEF TickNext, PortalInv, PortalTypeOK, Ticks, TickPcs, Statuses
    <2>3. ~copy[j].registered
      BY <1>1, <1>2 DEF PortalInv, TickOK, JobInv, CopyOK
    <2>4. "cancelled" \in Statuses
      BY DEF Statuses
    <2> QED
      BY Zenon, <1>1, <1>2, <2>1, <2>2, <2>3, <2>4, TickSaves DEF Waits
  <1>4. CASE ~saved[j].cancel
    <2>1. TickGoto("sent") /\ JobsKept /\ UNCHANGED copy
      BY <1>1, <1>4 DEF TickClone, JobsKept
    <2>2. GoesTo("sent")
      BY <2>1, GotoPlace DEF TickPcs, PortalInv, PortalTypeOK
    <2> QED
      BY <1>2, <2>1, <2>2, TickGoes DEF GoesTo, Waits
  <1> QED
    BY <1>3, <1>4

\* The answers of clone and of status, and what follows from them.
LEMMA TickClonedKeeps ==
  ASSUME PortalInv, TickCloned
  PROVE  PortalInv'
  <1>1. PICK j \in Jobs : j = tick.job
    BY DEF TickCloned, TickAt, PortalInv, WorkingOK
  <1>2. PICK status \in Statuses : status = tick.seen
    BY DEF PortalInv, PortalTypeOK, Ticks
  <1>3. /\ tick.at = "cloned" /\ cancelling.at # "catalog" /\ AnswersTyped
        /\ UNCHANGED <<catalog, cancelling, halved>> /\ tick.call = NoThread
        /\ Save(j, [copy[j] EXCEPT !.status = status])
        /\ copy' = [copy EXCEPT ![j] = saved'[j]]
    BY <1>1, <1>2 DEF TickCloned, TickAt, Turn, AnswersTyped, PortalInv, PortalTypeOK, WorkingOK
  <1>4. GoesTo("status")
    BY GotoPlace DEF TickCloned, TickPcs, PortalInv, PortalTypeOK
  <1>5. ~copy[j].registered
    BY <1>1, <1>3 DEF PortalInv, TickOK, JobInv, CopyOK
  <1> QED
    BY Zenon, <1>1, <1>2, <1>3, <1>4, <1>5, TickSaves DEF Waits, GoesTo

LEMMA TickStatusKeeps ==
  ASSUME PortalInv, TypeOK, TickStatus
  PROVE  PortalInv'
  <1>1. /\ tick.at = "status" /\ AnswersTyped /\ JobsKept /\ UNCHANGED <<copy, cancelling>>
        /\ tick.job \in Jobs /\ tick.call = NoThread
    BY DEF TickStatus, TickAt, AnswersTyped, JobsKept, PortalInv, PortalTypeOK, WorkingOK
  <1>2. row[tick.job].status \in Statuses
    BY <1>1 DEF TypeOK
  <1>3. tick' \in Ticks /\ tick'.at = "decide" /\ tick'.job = tick.job /\ tick'.call = tick.call
    BY Zenon, <1>2 DEF TickStatus, PortalInv, PortalTypeOK, Ticks, TickPcs
  <1> QED
    BY <1>1, <1>3, TickGoes DEF Waits

LEMMA TickDecideKeeps ==
  ASSUME PortalInv, TickDecide
  PROVE  PortalInv'
  <1>1. /\ tick.at = "decide" /\ AnswersTyped /\ JobsKept /\ UNCHANGED <<copy, cancelling>>
        /\ tick.call = NoThread /\ cancelling.at # "catalog"
    BY DEF TickDecide, TickAt, Turn, AnswersTyped, JobsKept, PortalInv, PortalTypeOK, WorkingOK
  <1>2. PICK step \in {"cancel", "receipt2", "settle"} :
           /\ TickGoto(step)
           /\ step = "settle" => ~saved[tick.job].cancel
    BY DEF TickDecide
  <1>3. GoesTo(step)
    BY <1>2, GotoPlace DEF TickPcs, PortalInv, PortalTypeOK
  <1> QED
    BY <1>1, <1>2, <1>3, TickGoes DEF GoesTo, Waits

\* native cancel and native activate.
LEMMA TickCallKeeps ==
  ASSUME PortalInv, NEW t \in Threads, TickCancel(t) \/ TickActivate(t)
  PROVE  PortalInv'
  <1>1. /\ tick.at \in {"cancel", "activate"} /\ AnswersTyped /\ JobsKept
        /\ UNCHANGED <<copy, cancelling>> /\ t # NoThread
    BY HostingConstants
       DEF TickCancel, TickActivate, TickAt, AnswersTyped, JobsKept, PortalInv, PortalTypeOK
  <1>2. tick' \in Ticks /\ tick'.at = "wait" /\ tick'.job = tick.job /\ tick'.call = t
    BY Zenon DEF TickCancel, TickActivate, PortalInv, PortalTypeOK, Ticks, TickPcs
  <1> QED
    BY <1>1, <1>2, TickGoes DEF Waits

\* The ways to the catch clause.
LEMMA TickRefusedKeeps ==
  ASSUME PortalInv, TickRefused
  PROVE  PortalInv'
  <1>1. /\ tick.at \in Waits /\ cancelling.at # "catalog" /\ AnswersTyped /\ TickCaught
        /\ UNCHANGED <<catalog, cancelling, halved>>
    BY DEF TickRefused, TickAt, Turn, AnswersTyped, PortalInv, PortalTypeOK, Waits
  <1> QED
    BY <1>1, CaughtKeeps

LEMMA TickGivesUpKeeps ==
  ASSUME PortalInv, TickGivesUp
  PROVE  PortalInv'
  <1>1. /\ tick.at \in Waits /\ cancelling.at # "catalog" /\ TickCaught
        /\ UNCHANGED <<catalog, cancelling, halved>>
    BY DEF TickGivesUp, TickAt, Turn, Waits
  <1>2. AnswersTyped
    BY DEF TickGivesUp, AnswersTyped, PortalInv, PortalTypeOK, Statuses
  <1> QED
    BY <1>1, <1>2, CaughtKeeps

\* The answer of cancel or activate.
LEMMA TickAnsweredKeeps ==
  ASSUME PortalInv, TickAnswered
  PROVE  PortalInv'
  <1>1. /\ tick.at = "wait" /\ cancelling.at # "catalog" /\ tick.call \in Threads
        /\ UNCHANGED <<catalog, cancelling, halved>>
    BY HostingConstants DEF TickAnswered, TickAt, Turn, PortalInv, PortalTypeOK, WorkingOK, Ticks
  <1>2. AnswersTyped /\ reply[tick.call] \in Statuses \cup {"ready", "error"}
    BY <1>1 DEF TickAnswered, AnswersTyped, PortalInv, PortalTypeOK, Statuses
  <1>3. CASE reply[tick.call] = "error"
    BY <1>1, <1>2, <1>3, CaughtKeeps DEF TickAnswered, Waits
  <1>4. CASE reply[tick.call] # "error"
    <2>1. JobsKept /\ UNCHANGED <<copy, cancelling>>
      BY <1>1, <1>4 DEF TickAnswered, JobsKept
    <2>2. PICK seen \in Statuses : seen = reply[tick.call]
      BY <1>2, <1>4 DEF TickAnswered
    <2>3. PICK step \in {"cancel", "settle"} : step = AfterCall(seen, saved[tick.job].cancel)
      BY DEF AfterCall
    <2>4. /\ tick' \in Ticks /\ tick'.at = step /\ tick'.job = tick.job
          /\ tick'.call = NoThread /\ tick'.seen = seen
      BY Zenon, <1>4, <2>2, <2>3 DEF TickAnswered, PortalInv, PortalTypeOK, Ticks, TickPcs
    <2>5. step = "settle" /\ seen = "available" => ~saved[tick.job].cancel
      BY <2>3 DEF AfterCall
    <2> QED
      BY <1>1, <1>2, <2>1, <2>3, <2>4, <2>5, TickGoes DEF Waits
  <1> QED
    BY <1>3, <1>4

\* The row is written down; the catalog and the mark follow without an await.
LEMMA TickSettleKeeps ==
  ASSUME PortalInv, TickSettle
  PROVE  PortalInv'
  <1>1. PICK j \in Jobs : j = tick.job
    BY DEF TickSettle, PortalInv, WorkingOK
  <1>2. PICK status \in Statuses : status = tick.seen
    BY DEF PortalInv, PortalTypeOK, Ticks
  <1>3. /\ tick.at = "settle" /\ cancelling.at # "catalog" /\ AnswersTyped
        /\ UNCHANGED <<catalog, cancelling, halved>> /\ tick.call = NoThread
        /\ Save(j, [copy[j] EXCEPT !.status = status])
        /\ copy' = [copy EXCEPT ![j] = saved'[j]]
    BY <1>1, <1>2 DEF TickSettle, AnswersTyped, PortalInv, PortalTypeOK, WorkingOK
  <1>4. [copy[j] EXCEPT !.status = status].registered = copy[j].registered
    BY DEF PortalInv, PortalTypeOK, JobRecs
  <1>5. IF \/ status = "cancelled" /\ copy[j].registered
           \/ status = "available" /\ ~copy[j].registered
        THEN TickGoto("register") ELSE TickNext
    BY <1>1, <1>2, <1>4 DEF TickSettle
  <1>6. status = "available" => ~saved[j].cancel /\ ~copy[j].cancel
    BY <1>1, <1>2, <1>3 DEF PortalInv, TickOK, JobInv, CopyOK
  <1>7. CASE TickGoto("register") /\ status \in {"cancelled", "available"}
    <2>1. GoesTo("register")
      BY <1>7, GotoPlace DEF TickPcs, PortalInv, PortalTypeOK
    <2> QED
      BY Zenon, <1>1, <1>2, <1>3, <1>6, <1>7, <2>1, TickSaves DEF GoesTo
  <1>8. CASE TickNext /\ ~(status = "cancelled" /\ copy[j].registered)
    <2>1. tick' \in Ticks /\ tick'.at = "next" /\ tick'.call = NoThread
      BY Zenon, <1>8 DEF TickNext, PortalInv, PortalTypeOK, Ticks, TickPcs, Statuses
    <2> QED
      BY Zenon, <1>1, <1>2, <1>3, <1>8, <2>1, TickSaves
  <1> QED
    BY <1>5, <1>7, <1>8

LEMMA TickRegisterKeeps ==
  ASSUME PortalInv, TickRegister
  PROVE  PortalInv'
  <1>1. PICK j \in Jobs : j = tick.job
    BY DEF TickRegister, PortalInv, WorkingOK
  <1>2. /\ catalog' \in [Jobs -> {"none", "enabled", "disabled"}]
        /\ catalog'[j] = IF tick.seen = "available" THEN "enabled" ELSE "disabled"
        /\ \A k \in Jobs \ {j} : catalog'[k] = catalog[k]
        /\ halved' = halved \ {j}
    BY <1>1, RegisterFields DEF TickRegister, PortalInv, PortalTypeOK
  <1>3. /\ tick.at = "register" /\ tick.call = NoThread /\ cancelling.at # "catalog"
        /\ tick.seen \in {"available", "cancelled"}
        /\ saved[j].status = tick.seen /\ copy[j].status = tick.seen
        /\ tick.seen = "available" => ~saved[j].cancel
        /\ saved[j].registered => saved[j].cancel
    BY <1>1 DEF TickRegister, PortalInv, WorkingOK, TickOK, JobInv, CopyOK
  <1>4. /\ tick' \in Ticks /\ tick'.call = NoThread
        /\ IF tick.seen = "available" THEN tick'.at = "mark" /\ tick'.job = j /\ tick'.seen = tick.seen
                                      ELSE tick'.at = "next"
    BY Zenon, <1>1, <1>3 DEF TickRegister, TickGoto, TickNext, PortalInv, PortalTypeOK, Ticks, TickPcs, Statuses
  <1>5. PortalTypeOK' /\ WorkingOK' /\ OwnOK'
    BY <1>2, <1>3, <1>4 DEF TickRegister, PortalInv, PortalTypeOK, WorkingOK, OwnOK
  <1>6. TickOK'
    BY <1>2, <1>3, <1>4 DEF TickRegister, TickOK
  <1>7. ASSUME NEW k \in Jobs, k # j PROVE JobInv(k)'
    BY <1>1, <1>2, <1>3, <1>4, <1>7
       DEF TickRegister, PortalInv, JobInv, SavedOK, CopyOK, OfferedOK, WithdrawnOK
  <1>8. JobInv(j)'
    BY <1>2, <1>3, <1>4 DEF TickRegister, PortalInv, JobInv, SavedOK, CopyOK, OfferedOK, WithdrawnOK
  <1> QED
    BY <1>5, <1>6, <1>7, <1>8 DEF PortalInv

\* registerProject threw: the job stays as it was saved.
LEMMA TickRegisterFailsKeeps ==
  ASSUME PortalInv, TickRegisterFails
  PROVE  PortalInv'
  <1>1. PICK j \in Jobs : j = tick.job
    BY DEF TickRegisterFails, PortalInv, WorkingOK
  <1>2. PICK job \in JobRecs : job = copy[j]
    BY <1>1 DEF PortalInv, PortalTypeOK
  <1>3. PICK seen : seen = tick.seen
    OBVIOUS
  <1>4. /\ tick.at = "register" /\ cancelling.at # "catalog" /\ UNCHANGED <<cancelling, reply>>
        /\ seen \in {"available", "cancelled"}
        /\ saved[j].status = seen /\ job.status = seen
        /\ job.registered = saved[j].registered /\ (job.registered => job.cancel)
    BY <1>1, <1>2, <1>3 DEF TickRegisterFails, PortalInv, WorkingOK, TickOK, JobInv, CopyOK
  <1>5. /\ catalog' \in [Jobs -> {"none", "enabled", "disabled"}]
        /\ \A k \in Jobs \ {j} : catalog'[k] = catalog[k]
        /\ halved \subseteq halved' /\ halved' \subseteq halved \cup {j}
        /\ \/ catalog' = catalog /\ (seen # "available" => j \in halved')
           \/ seen = "available" /\ catalog'[j] = "enabled" /\ j \in halved'
           \/ seen # "available" /\ catalog'[j] = "disabled"
    BY <1>1, <1>3, RegisterFailsFields DEF TickRegisterFails, PortalInv, PortalTypeOK
  <1>6. /\ saved' \in [Jobs -> JobRecs]
        /\ saved'[j].status = job.status
        /\ saved'[j].registered = job.registered
        /\ saved'[j].cancel <=> job.cancel \/ saved[j].cancel
        /\ \A k \in Jobs \ {j} : saved'[k] = saved[k]
    BY <1>1, <1>2, SaveFields DEF TickRegisterFails, TickCaught, PortalInv, PortalTypeOK
  <1>7. /\ copy' \in [Jobs -> JobRecs]
        /\ copy'[j] = saved'[j]
        /\ \A k \in Jobs \ {j} : copy'[k] = copy[k]
    BY Zenon, <1>1, <1>6, CopyFields DEF TickRegisterFails, TickCaught, PortalInv, PortalTypeOK
  <1>8. tick' \in Ticks /\ tick'.at = "next" /\ tick'.call = NoThread
    BY Zenon DEF TickRegisterFails, TickCaught, TickNext, PortalInv, PortalTypeOK, Ticks, TickPcs, Statuses
  <1>9. PortalTypeOK' /\ WorkingOK' /\ TickOK'
    BY <1>4, <1>5, <1>6, <1>7, <1>8 DEF PortalInv, PortalTypeOK, WorkingOK, TickOK
  <1>10. OwnOK'
    BY <1>4, <1>6 DEF PortalInv, OwnOK, WorkingOK
  <1>11. ASSUME NEW k \in Jobs, k # j PROVE JobInv(k)'
    BY <1>1, <1>4, <1>5, <1>6, <1>7, <1>8, <1>11
       DEF PortalInv, JobInv, SavedOK, CopyOK, OfferedOK, WithdrawnOK
  <1>12. JobInv(j)'
    <2>1. SavedOK(j)' /\ CopyOK(j)'
      BY <1>4, <1>6, <1>7 DEF SavedOK, CopyOK
    <2>2. OfferedOK(j)'
      BY <1>4, <1>5, <1>6 DEF PortalInv, JobInv, OfferedOK
    <2>3. WithdrawnOK(j)'
      BY <1>4, <1>5, <1>6 DEF WithdrawnOK
    <2> QED
      BY <2>1, <2>2, <2>3 DEF JobInv
  <1> QED
    BY <1>9, <1>10, <1>11, <1>12 DEF PortalInv

LEMMA TickMarkKeeps ==
  ASSUME PortalInv, TickMark
  PROVE  PortalInv'
  <1>1. PICK j \in Jobs : j = tick.job
    BY DEF TickMark, PortalInv, WorkingOK
  <1>2. /\ tick.at = "mark" /\ catalog[j] = "enabled" /\ ~saved[j].cancel
        /\ copy[j].status = "available" /\ UNCHANGED <<catalog, cancelling, halved, reply>>
    BY <1>1 DEF TickMark, PortalInv, TickOK
  <1>3. PICK job \in JobRecs : job = [copy[j] EXCEPT !.registered = TRUE]
    BY Zenon DEF PortalInv, PortalTypeOK, JobRecs
  <1>4. job.status = "available" /\ job.registered /\ job.cancel = copy[j].cancel
    BY <1>2, <1>3 DEF PortalInv, PortalTypeOK, JobRecs
  <1>5. /\ saved' \in [Jobs -> JobRecs]
        /\ saved'[j].status = job.status
        /\ saved'[j].registered = job.registered
        /\ saved'[j].cancel <=> job.cancel \/ saved[j].cancel
        /\ \A k \in Jobs \ {j} : saved'[k] = saved[k]
    BY Zenon, <1>1, <1>3, SaveFields DEF TickMark, PortalInv, PortalTypeOK
  <1>6. /\ copy' \in [Jobs -> JobRecs]
        /\ copy'[j] = saved'[j]
        /\ \A k \in Jobs \ {j} : copy'[k] = copy[k]
    BY Zenon, <1>1, <1>5, CopyFields DEF TickMark, PortalInv, PortalTypeOK
  <1>7. tick' \in Ticks /\ tick'.at = "next" /\ tick'.call = NoThread
    BY Zenon DEF TickMark, TickNext, PortalInv, PortalTypeOK, Ticks, TickPcs, Statuses
  <1>8. PortalTypeOK' /\ WorkingOK' /\ TickOK'
    BY <1>2, <1>5, <1>6, <1>7 DEF PortalInv, PortalTypeOK, WorkingOK, TickOK
  <1>9. OwnOK'
    BY <1>2, <1>5 DEF PortalInv, OwnOK, WorkingOK
  <1>10. ASSUME NEW k \in Jobs, k # j PROVE JobInv(k)'
    BY <1>1, <1>2, <1>5, <1>6, <1>7, <1>10
       DEF PortalInv, JobInv, SavedOK, CopyOK, OfferedOK, WithdrawnOK
  <1>11. JobInv(j)'
    BY Zenon, <1>2, <1>4, <1>5, <1>6, <1>7 DEF JobInv, SavedOK, CopyOK, OfferedOK, WithdrawnOK
  <1> QED
    BY <1>8, <1>9, <1>10, <1>11 DEF PortalInv

\* Every step of a tick.
LEMMA TickKeepsPortal ==
  ASSUME PortalInv, TypeOK, TypeOK', TickSteps \/ TickGivesUp \/ TickRegisterFails
  PROVE  PortalInv'
  BY TickStartKeeps, TickEndKeeps, TickJobKeeps, TickReceiptKeeps, TickForwardKeeps, TickCloneKeeps,
     TickClonedKeeps, TickStatusKeeps, TickDecideKeeps, TickCallKeeps, TickRefusedKeeps, TickGivesUpKeeps,
     TickAnsweredKeeps, TickSettleKeeps, TickRegisterKeeps, TickRegisterFailsKeeps, TickMarkKeeps DEF TickSteps

-----------------------------------------------------------------------------
(* Cancels, clone requests, visibility, and the end of the process.           *)

\* cancel saves the mark first, and ends at once for a job only it knows.
LEMMA CancelRequestKeeps ==
  ASSUME PortalInv, NEW j \in Jobs, CancelRequest(j)
  PROVE  PortalInv'
  <1>1. PICK own \in JobRecs : own = [saved[j] EXCEPT !.cancel = TRUE]
    BY Zenon DEF PortalInv, PortalTypeOK, JobRecs
  <1>2. own.status = saved[j].status /\ own.registered = saved[j].registered /\ own.cancel
    BY <1>1 DEF PortalInv, PortalTypeOK, JobRecs
  <1>3. /\ tick.at \notin {"next", "settle", "register", "mark"} /\ cancelling.at = "rest"
        /\ cancelling.call = NoThread /\ UNCHANGED <<catalog, tick, copy, halved, reply>>
    BY DEF CancelRequest, Turn, NotCancelling
  <1>4. CASE OwnJobUnknown(j)
    <2>1. /\ tick.at = "rest" /\ saved[j].status = "authorized"
          /\ saved' = [saved EXCEPT ![j] = [own EXCEPT !.status = "cancelled"]]
          /\ UNCHANGED cancelling
      BY <1>1, <1>4 DEF CancelRequest, OwnJobUnknown
    <2>2. PICK job \in JobRecs : job = [own EXCEPT !.status = "cancelled"]
      BY Zenon DEF JobRecs, JobStatuses, Statuses
    <2>3. job.status = "cancelled" /\ job.registered = saved[j].registered
      BY <1>2, <2>2 DEF JobRecs
    <2>4. /\ saved' \in [Jobs -> JobRecs] /\ saved'[j] = job
          /\ \A k \in Jobs \ {j} : saved'[k] = saved[k]
      BY <2>1, <2>2 DEF PortalInv, PortalTypeOK
    <2>5. PortalTypeOK' /\ WorkingOK' /\ OwnOK' /\ TickOK'
      BY <1>3, <2>1, <2>4 DEF PortalInv, PortalTypeOK, WorkingOK, OwnOK, TickOK
    <2>6. ASSUME NEW k \in Jobs PROVE JobInv(k)'
      BY Zenon, <1>3, <2>1, <2>3, <2>4 DEF PortalInv, JobInv, SavedOK, CopyOK, OfferedOK, WithdrawnOK
    <2> QED
      BY <2>5, <2>6 DEF PortalInv
  <1>5. CASE ~OwnJobUnknown(j)
    <2>1. Save(j, own)
      BY <1>1, <1>5 DEF CancelRequest
    <2>2. /\ saved' \in [Jobs -> JobRecs]
          /\ saved'[j].status = own.status
          /\ saved'[j].registered = own.registered
          /\ saved'[j].cancel <=> own.cancel \/ saved[j].cancel
          /\ \A k \in Jobs \ {j} : saved'[k] = saved[k]
      BY <2>1, SaveFields DEF PortalInv, PortalTypeOK
    <2>3. /\ cancelling' \in Cancellings /\ cancelling'.at = "call" /\ cancelling'.job = j
          /\ cancelling'.own = own /\ cancelling'.call = NoThread
      BY Zenon, <1>1, <1>5 DEF CancelRequest, NotCancelling, Cancellings
    <2>4. PortalTypeOK' /\ WorkingOK'
      BY <1>3, <2>2, <2>3 DEF PortalInv, PortalTypeOK, WorkingOK
    <2>5. OwnOK' /\ TickOK'
      BY <1>2, <1>3, <2>2, <2>3 DEF PortalInv, OwnOK, TickOK, JobInv, SavedOK
    <2>6. ASSUME NEW k \in Jobs PROVE JobInv(k)'
      BY <1>2, <1>3, <2>2, <2>3 DEF PortalInv, JobInv, SavedOK, CopyOK, OfferedOK, WithdrawnOK
    <2> QED
      BY <2>4, <2>5, <2>6 DEF PortalInv
  <1> QED
    BY <1>4, <1>5

LEMMA CancelCallKeeps ==
  ASSUME PortalInv, NEW t \in Threads, CancelCall(t)
  PROVE  PortalInv'
  <1>1. /\ cancelling.at = "call" /\ UNCHANGED <<saved, catalog, tick, copy, halved, reply>>
        /\ t # NoThread
    BY HostingConstants DEF CancelCall
  <1>2. /\ cancelling' \in Cancellings /\ cancelling'.at = "wait" /\ cancelling'.call = t
        /\ cancelling'.job = cancelling.job /\ cancelling'.own = cancelling.own
    BY Zenon DEF CancelCall, PortalInv, PortalTypeOK, Cancellings
  <1>3. PortalTypeOK' /\ WorkingOK' /\ OwnOK' /\ TickOK'
    BY <1>1, <1>2 DEF PortalInv, PortalTypeOK, WorkingOK, OwnOK, TickOK
  <1>4. ASSUME NEW k \in Jobs PROVE JobInv(k)'
    BY <1>1, <1>2 DEF PortalInv, JobInv, SavedOK, CopyOK, OfferedOK, WithdrawnOK
  <1> QED
    BY <1>3, <1>4 DEF PortalInv

\* What was a registered job and is cancelled is withdrawn next.
LEMMA CancelEndsKeeps ==
  ASSUME PortalInv, Turn, cancelling.at \in {"call", "wait"}, NEW own \in JobRecs,
         own.registered = cancelling.own.registered,
         own.status = "authorized" => ~own.registered,
         CancelEnds(own), UNCHANGED <<catalog, tick, copy, halved>>, AnswersTyped
  PROVE  PortalInv'
  <1>1. PICK j \in Jobs : j = cancelling.job
    BY DEF PortalInv, WorkingOK
  <1>2. /\ saved' \in [Jobs -> JobRecs]
        /\ saved'[j].status = own.status
        /\ saved'[j].registered = own.registered
        /\ saved'[j].cancel <=> own.cancel \/ saved[j].cancel
        /\ \A k \in Jobs \ {j} : saved'[k] = saved[k]
    BY <1>1, SaveFields DEF CancelEnds, PortalInv, PortalTypeOK
  <1>3. /\ own.registered = saved[j].registered /\ saved[j].cancel
        /\ tick.at \notin {"next", "settle", "register", "mark"}
    BY <1>1 DEF PortalInv, OwnOK, Turn
  <1>4. /\ cancelling' \in Cancellings /\ cancelling'.call = NoThread
        /\ IF own.registered /\ own.status = "cancelled"
           THEN cancelling'.at = "catalog" /\ cancelling'.job = j /\ cancelling'.own = own
           ELSE cancelling'.at = "rest"
    BY Zenon, <1>1 DEF CancelEnds, NotCancelling, PortalInv, PortalTypeOK, Cancellings, Absent, JobRecs, JobStatuses
  <1>5. PortalTypeOK' /\ WorkingOK'
    BY <1>2, <1>3, <1>4 DEF PortalInv, PortalTypeOK, WorkingOK, AnswersTyped
  <1>6. OwnOK' /\ TickOK'
    BY <1>2, <1>3, <1>4 DEF PortalInv, OwnOK, TickOK
  <1>7. ASSUME NEW k \in Jobs, k # j PROVE JobInv(k)'
    BY <1>1, <1>2, <1>3, <1>4, <1>7 DEF Turn, PortalInv, JobInv, SavedOK, CopyOK, OfferedOK, WithdrawnOK
  <1>8. JobInv(j)'
    <2>1. SavedOK(j)' /\ CopyOK(j)' /\ OfferedOK(j)'
      BY <1>2, <1>3 DEF PortalInv, JobInv, SavedOK, CopyOK, OfferedOK
    <2>2. WithdrawnOK(j)'
      BY <1>2, <1>3, <1>4 DEF PortalInv, JobInv, OfferedOK, WithdrawnOK
    <2> QED
      BY <2>1, <2>2 DEF JobInv
  <1> QED
    BY <1>5, <1>6, <1>7, <1>8 DEF PortalInv

\* The three ways a cancel ends.
LEMMA CancelEndKeeps ==
  ASSUME PortalInv, CancelAnswered \/ CancelRefused \/ CancelGivesUp
  PROVE  PortalInv'
  <1>1. /\ Turn /\ cancelling.at \in {"call", "wait"}
        /\ UNCHANGED <<catalog, tick, copy, halved>>
        /\ cancelling.own \in JobRecs
        /\ cancelling.own.status = "authorized" => ~cancelling.own.registered
    BY DEF CancelAnswered, CancelRefused, CancelGivesUp, PortalInv, PortalTypeOK, Cancellings, OwnOK
  <1>2. AnswersTyped
    BY DEF CancelAnswered, CancelRefused, CancelGivesUp, AnswersTyped, PortalInv, PortalTypeOK, Statuses
  <1>3. PICK own \in JobRecs : own = cancelling.own
    BY <1>1
  <1>4. CASE CancelEnds(own)
    BY <1>1, <1>2, <1>3, <1>4, CancelEndsKeeps
  <1>5. ASSUME NEW status \in Statuses, CancelEnds([own EXCEPT !.status = status])
        PROVE  PortalInv'
    <2>1. PICK new \in JobRecs : new = [own EXCEPT !.status = status]
      BY Zenon DEF JobRecs, JobStatuses
    <2>2. new.registered = own.registered /\ new.status = status
      BY <2>1 DEF JobRecs
    <2>3. status # "authorized"
      BY DEF Statuses, InFlight
    <2> QED
      BY Zenon, <1>1, <1>2, <1>3, <1>5, <2>1, <2>2, <2>3, CancelEndsKeeps
  <1>6. ASSUME CancelAnswered, reply[cancelling.call] # "error"
        PROVE  \E status \in Statuses : CancelEnds([own EXCEPT !.status = status])
    <2>1. cancelling.call \in Threads
      BY <1>6, HostingConstants DEF CancelAnswered, PortalInv, PortalTypeOK, WorkingOK, Cancellings
    <2>2. reply[cancelling.call] \in Statuses
      BY <1>6, <2>1 DEF CancelAnswered, PortalInv, PortalTypeOK
    <2> QED
      BY <1>3, <1>6, <2>2 DEF CancelAnswered
  <1> QED
    BY Zenon, <1>3, <1>4, <1>5, <1>6 DEF CancelAnswered, CancelRefused, CancelGivesUp

LEMMA CancelCatalogKeeps ==
  ASSUME PortalInv, CancelCatalog
  PROVE  PortalInv'
  <1>1. PICK j \in Jobs : j = cancelling.job
    BY DEF CancelCatalog, PortalInv, WorkingOK
  <1>2. cancelling.at = "catalog" /\ cancelling.own.status = "cancelled" /\ saved[j].cancel
    BY <1>1 DEF CancelCatalog, PortalInv, OwnOK
  <1>3. /\ catalog' \in [Jobs -> {"none", "enabled", "disabled"}]
        /\ catalog'[j] = "disabled"
        /\ \A k \in Jobs \ {j} : catalog'[k] = catalog[k]
        /\ halved' = halved \ {j}
    BY <1>1, <1>2, RegisterFields DEF CancelCatalog, PortalInv, PortalTypeOK
  <1>4. cancelling' \in Cancellings /\ cancelling'.at = "rest" /\ cancelling'.call = NoThread
    BY DEF CancelCatalog, NotCancelling, Cancellings, Absent, JobRecs, JobStatuses
  <1>5. tick.at \notin {"next", "settle", "register", "mark"}
    BY <1>2 DEF PortalInv, WorkingOK
  <1>6. PortalTypeOK' /\ WorkingOK' /\ OwnOK' /\ TickOK'
    BY <1>3, <1>4, <1>5 DEF CancelCatalog, PortalInv, PortalTypeOK, WorkingOK, OwnOK, TickOK
  <1>7. ASSUME NEW k \in Jobs PROVE JobInv(k)'
    BY <1>1, <1>2, <1>3, <1>4, <1>5
       DEF CancelCatalog, PortalInv, JobInv, SavedOK, CopyOK, OfferedOK, WithdrawnOK
  <1> QED
    BY <1>6, <1>7 DEF PortalInv

LEMMA CancelCatalogFailsKeeps ==
  ASSUME PortalInv, CancelCatalogFails
  PROVE  PortalInv'
  <1>1. PICK j \in Jobs : j = cancelling.job
    BY DEF CancelCatalogFails, PortalInv, WorkingOK
  <1>2. PICK status : status = cancelling.own.status
    OBVIOUS
  <1>3. cancelling.at = "catalog" /\ status = "cancelled" /\ saved[j].cancel
    BY <1>1, <1>2 DEF CancelCatalogFails, PortalInv, OwnOK
  <1>4. /\ catalog' \in [Jobs -> {"none", "enabled", "disabled"}]
        /\ \A k \in Jobs \ {j} : catalog'[k] = catalog[k]
        /\ halved \subseteq halved' /\ halved' \subseteq halved \cup {j}
        /\ (catalog' = catalog /\ j \in halved') \/ catalog'[j] = "disabled"
    BY <1>1, <1>2, <1>3, RegisterFailsFields DEF CancelCatalogFails, PortalInv, PortalTypeOK
  <1>5. /\ cancelling' \in Cancellings /\ cancelling'.at = "rest" /\ cancelling'.call = NoThread
        /\ UNCHANGED <<saved, copy, tick, reply>>
    BY DEF CancelCatalogFails, NotCancelling, Cancellings, Absent, JobRecs, JobStatuses
  <1>6. tick.at \notin {"next", "settle", "register", "mark"}
    BY <1>3 DEF PortalInv, WorkingOK
  <1>7. PortalTypeOK' /\ WorkingOK' /\ OwnOK' /\ TickOK'
    BY <1>4, <1>5, <1>6 DEF PortalInv, PortalTypeOK, WorkingOK, OwnOK, TickOK
  <1>8. ASSUME NEW k \in Jobs PROVE JobInv(k)'
    BY <1>1, <1>3, <1>4, <1>5, <1>6 DEF PortalInv, JobInv, SavedOK, CopyOK, OfferedOK, WithdrawnOK
  <1> QED
    BY <1>7, <1>8 DEF PortalInv

\* A clone request becomes an authorized job of an unreserved target, or nothing.
LEMMA RequestsKeepPortal ==
  ASSUME PortalInv, NEW j \in Jobs, CloneRequest(j) \/ CloneAuthorized(j)
  PROVE  PortalInv'
  <1>1. /\ AnswersTyped /\ UNCHANGED <<catalog, halved, tick, copy, cancelling>>
        /\ tick.at \notin {"next", "settle", "register", "mark"}
    BY DEF CloneRequest, CloneAuthorized, Turn, AnswersTyped, PortalInv, PortalTypeOK
  <1>2. CASE UNCHANGED saved
    BY <1>1, <1>2, PortalKept DEF JobsKept
  <1>3. CASE saved[j] = Absent /\ Save(j, [Absent EXCEPT !.status = "authorized"])
    <2>1. PICK job \in JobRecs : job = [Absent EXCEPT !.status = "authorized"]
      BY Zenon DEF Absent, JobRecs, JobStatuses
    <2>2. job.status = "authorized" /\ ~job.registered /\ ~job.cancel
      BY <2>1 DEF Absent
    <2>3. /\ saved' \in [Jobs -> JobRecs]
          /\ saved'[j].status = job.status
          /\ saved'[j].registered = job.registered
          /\ saved'[j].cancel <=> job.cancel \/ saved[j].cancel
          /\ \A k \in Jobs \ {j} : saved'[k] = saved[k]
      BY Zenon, <1>3, <2>1, SaveFields DEF PortalInv, PortalTypeOK
    <2>4. saved[j].status = "absent" /\ ~saved[j].cancel /\ ~saved[j].registered
      BY <1>3 DEF Absent
    <2>5. PortalTypeOK' /\ WorkingOK'
      BY <1>1, <2>3 DEF PortalInv, PortalTypeOK, WorkingOK, AnswersTyped
    <2>6. OwnOK' /\ TickOK'
      BY <1>1, <2>2, <2>3, <2>4 DEF PortalInv, OwnOK, WorkingOK, TickOK
    <2>7. ASSUME NEW k \in Jobs, k # j PROVE JobInv(k)'
      BY <1>1, <2>3, <2>7 DEF PortalInv, JobInv, SavedOK, CopyOK, OfferedOK, WithdrawnOK
    <2>8. saved[j] \in JobRecs /\ saved'[j] \in JobRecs /\ copy[j] \in JobRecs
      BY <2>3 DEF PortalInv, PortalTypeOK
    <2>9. JobInv(j)'
      BY <1>1, <2>2, <2>3, <2>4, <2>8
         DEF PortalInv, JobInv, SavedOK, CopyOK, OfferedOK, WithdrawnOK, JobRecs
    <2> QED
      BY <2>5, <2>6, <2>7, <2>9 DEF PortalInv
  <1> QED
    BY <1>2, <1>3 DEF CloneRequest, CloneAuthorized

\* Visibility leaves the jobs alone.
LEMMA VisibilityKeepsPortal ==
  ASSUME PortalInv, NEW x \in Targets, ChangeVisibility(x) \/ VisibilityChanged(x)
  PROVE  PortalInv'
  BY PortalKept DEF ChangeVisibility, VisibilityChanged, AnswersTyped, JobsKept, PortalInv, PortalTypeOK

\* The restart forgets what was half done.
LEMMA RestartKeepsPortal ==
  ASSUME PortalInv, PortalRestart
  PROVE  PortalInv'
  <1>1. tick' \in Ticks /\ tick'.at = "rest" /\ tick'.call = NoThread
    BY DEF PortalRestart, Resting, Ticks, TickPcs, Statuses
  <1>2. cancelling' \in Cancellings /\ cancelling'.at = "rest" /\ cancelling'.call = NoThread
    BY DEF PortalRestart, NotCancelling, Cancellings, Absent, JobRecs, JobStatuses
  <1>3. copy' \in [Jobs -> JobRecs] /\ reply' \in [Threads -> Statuses \cup {"ready", "error"}]
    BY DEF PortalRestart, Absent, JobRecs, JobStatuses, Statuses
  <1>4. halved' \subseteq Jobs
    BY DEF PortalRestart, PortalInv, PortalTypeOK, WorkingOK
  <1>5. PortalTypeOK' /\ WorkingOK' /\ OwnOK' /\ TickOK'
    BY <1>1, <1>2, <1>3, <1>4 DEF PortalRestart, PortalInv, PortalTypeOK, WorkingOK, OwnOK, TickOK
  <1>6. ASSUME NEW j \in Jobs PROVE JobInv(j)'
    BY <1>1, <1>2 DEF PortalRestart, PortalInv, JobInv, SavedOK, CopyOK, OfferedOK, WithdrawnOK
  <1> QED
    BY <1>5, <1>6 DEF PortalInv

-----------------------------------------------------------------------------

\* The portal begins with no job.
LEMMA InitPortal == HostingInit => PortalInv
  <1> SUFFICES ASSUME HostingInit PROVE PortalInv
    OBVIOUS
  <1>1. tick \in Ticks /\ tick.at = "rest" /\ tick.call = NoThread
    BY DEF HostingInit, Resting, Ticks, TickPcs, Statuses
  <1>2. cancelling \in Cancellings /\ cancelling.at = "rest" /\ cancelling.call = NoThread
    BY DEF HostingInit, NotCancelling, Cancellings, Absent, JobRecs, JobStatuses
  <1>3. /\ saved \in [Jobs -> JobRecs] /\ copy = saved
        /\ reply \in [Threads -> Statuses \cup {"ready", "error"}]
        /\ \A j \in Jobs : saved[j].status = "absent" /\ ~saved[j].registered
    BY DEF HostingInit, Absent, JobRecs, JobStatuses, Statuses
  <1>4. PortalTypeOK /\ WorkingOK /\ OwnOK /\ TickOK
    BY <1>1, <1>2, <1>3 DEF HostingInit, PortalTypeOK, WorkingOK, OwnOK, TickOK
  <1>5. ASSUME NEW j \in Jobs PROVE JobInv(j)
    BY <1>1, <1>2, <1>3 DEF HostingInit, JobInv, SavedOK, CopyOK, OfferedOK, WithdrawnOK
  <1> QED
    BY <1>4, <1>5 DEF PortalInv

\* Every step of the composition.
LEMMA HostingStepKeeps == Inv /\ PortalInv /\ [HostingNext]_hostingVars => Inv' /\ PortalInv'
  <1> SUFFICES ASSUME Inv, PortalInv, [HostingNext]_hostingVars PROVE Inv' /\ PortalInv'
    OBVIOUS
  <1>1. Inv'
    BY StepOfTheOperator, StepKeepsInv DEF PortalInv
  <1> SUFFICES PortalInv'
    BY <1>1
  <1>2. TypeOK /\ TypeOK'
    BY <1>1 DEF Inv
  <1>3. CASE UNCHANGED hostingVars
    <2>1. UNCHANGED <<saved, catalog, halved, tick, copy, cancelling, reply>>
      BY <1>3 DEF hostingVars, portal
    <2> QED
      BY <2>1, PortalKept DEF JobsKept, AnswersTyped, PortalInv, PortalTypeOK
  <1>4. CASE OperatorSide \/ OperatorCrash
    BY <1>2, <1>4, OperatorKeepsPortal
  <1>5. CASE TickSteps \/ TickGivesUp \/ TickRegisterFails
    BY <1>2, <1>5, TickKeepsPortal
  <1>6. CASE CancelSteps \/ CancelGivesUp \/ CancelCatalogFails
    BY <1>6, CancelCallKeeps, CancelEndKeeps, CancelCatalogKeeps, CancelCatalogFailsKeeps DEF CancelSteps
  <1>7. CASE \E j \in Jobs : CloneRequest(j) \/ CloneAuthorized(j) \/ CancelRequest(j)
    BY <1>7, RequestsKeepPortal, CancelRequestKeeps
  <1>8. CASE \E x \in Targets : ChangeVisibility(x) \/ VisibilityChanged(x)
    BY <1>8, VisibilityKeepsPortal
  <1>9. CASE PortalRestart
    BY <1>9, RestartKeepsPortal
  <1> QED
    BY <1>3, <1>4, <1>5, <1>6, <1>7, <1>8, <1>9 DEF HostingNext

\* The inductive invariant of the portal (control-center/hosting/lifecycle.mjs)
\* and of the operator under it: what each step of tick and cancel knows of the
\* job it works on, and of the copies of it that the others hold.
THEOREM HostingInvariant == HostingSpec => [](Inv /\ PortalInv)
  <1>1. HostingInit => Inv /\ PortalInv
    BY InitInv, InitPortal DEF HostingInit
  <1> QED
    BY <1>1, HostingStepKeeps, PTL DEF HostingSpec

\* Whatever tick, cancel, time-outs and restarts of the portal send it, the
\* operator under the portal does what ApplicationOperator says: every step of
\* the composition is a step of platform-application-operator.py or leaves it
\* alone.
THEOREM HostingImplementsOperator == HostingSpec => Spec
  <1>1. Inv /\ PortalInv /\ [HostingNext]_hostingVars => [Next]_vars
    BY StepOfTheOperator DEF PortalInv
  <1>2. HostingInit => Init
    BY DEF HostingInit
  <1> QED
    BY <1>1, <1>2, HostingInvariant, PTL DEF HostingSpec, Spec

\* So the copy and the database restore of a job begin once, however often the
\* portal gives up on a clone request and sends it again.
THEOREM HostingExecutesOnce == HostingSpec => []ExecutedOnce
  BY HostingImplementsOperator, ExecutedOnceHolds, PTL

\* And what ended without success is down under the portal too.
THEOREM HostingEndedIsDown == HostingSpec => []EndedIsDown
  BY HostingImplementsOperator, EndedIsDownHolds, PTL

\* The catalog offers what is marked registered until its cancellation is asked
\* for, and does not offer what the portal has written down as cancelled unless
\* its registerProject threw or was cut off, although tick and cancel write the
\* job from copies they took earlier.
THEOREM CatalogFollowsHolds == HostingSpec => []CatalogFollows
  <1>1. PortalInv => CatalogFollows
    <2> SUFFICES ASSUME PortalInv, NEW j \in Jobs
                 PROVE  /\ saved[j].registered /\ ~saved[j].cancel => catalog[j] = "enabled"
                        /\ PortalQuiet(j) /\ saved[j].status = "cancelled" /\ j \notin halved
                           => catalog[j] # "enabled"
      BY DEF CatalogFollows
    <2>1. PortalQuiet(j) => tick.at = "rest" /\ cancelling.at = "rest"
      BY DEF PortalQuiet, NotCancelling
    <2> QED
      BY <2>1 DEF PortalInv, JobInv, SavedOK, WithdrawnOK
  <1> QED
    BY <1>1, HostingInvariant, PTL
-----------------------------------------------------------------------------
(* A copy is first served behind Access.                                      *)

\* The copy of the job is made, and its row never says staged again.
Over(j) == row[j].status \notin {"none", "queued", "running", "staged"}

\* An activation of the job may still publish it while it runs.
Unpublished == {"check", "mark", "start", "health", "startWeb", "healthWeb", "recheck", "publish"}
MayServe(t, j) ==
    /\ Activates(t, j) /\ proc[t].pc \in Unpublished
    /\ row[j].cancel => proc[t].pc = "publish" /\ "app" \in up[j]
Serving(j) == \E t \in Threads : MayServe(t, j)

\* The row of a job and the calls that work on it.
LifeOK(j) ==
    /\ \A i \in 1 .. Len(queue) : queue[i] = j => row[j].status = "queued"
    /\ proc[Worker].job = j => row[j].status = "running"
    /\ LateOK(j)
    /\ j \in conf => Over(j)
    /\ \A t \in Threads : Activates(t, j) /\ proc[t].pc \in Unpublished =>
          /\ j \notin conf
          /\ proc[t].pc \notin {"check", "mark"} => row[j].status # "staged"
    /\ \A t \in Threads : Cancels(t, j) /\ proc[t].pc # "flag" => row[j].cancel

\* A row that ended, and a cancel that has stopped the app, leave no
\* activation that serves it.
EndedOK(j) ==
    /\ row[j].status \in Terminal => ~Serving(j)
    /\ \A t \in Threads : Cancels(t, j) /\ Past("app", proc[t].pc) => ~Serving(j)

ServeOK(j) == LifeOK(j) /\ (j \notin swallowed => EndedOK(j))
ServeInv == \A j \in Jobs : ServeOK(j)

\* What is over stays so, and no activation comes into being.
Stays(j) ==
    /\ Over(j) => Over(j)'
    /\ Serving(j)' => Serving(j)
    /\ \A t \in Threads : Activates(t, j)' => Activates(t, j)
    /\ j \in swallowed => j \in swallowed'

\* A step of a call or of the copy: what it may do to its job.
Leaves(a) == proc'[a].op = "none" /\ proc'[a].job = NoJob
Moved(a, j) ==
    /\ \A b \in Agents \ {a} : proc'[b] = proc[b]
    /\ \A k \in Jobs \ {j} : row'[k] = row[k] /\ up'[k] = up[k] /\ (k \in conf' <=> k \in conf)
    /\ queue' = queue /\ swallowed \subseteq swallowed' /\ UNCHANGED <<daemon, orphaned>>
    /\ \/ Leaves(a)
       \/ /\ proc'[a].op = proc[a].op /\ proc'[a].job = j
          /\ proc[a].op = "cancel" => proc'[a].seen = proc[a].seen
    /\ \/ row'[j].status = row[j].status
       \/ proc[a].op = "activate" /\ proc[a].pc = "mark" /\ row'[j].status = "activating"
       \/ /\ proc[a].op = "activate" /\ Leaves(a)
          /\ row'[j].status \in {"available", "activation_failed"}
          /\ row'[j].status = "available" => proc[a].pc = "finish"
       \/ /\ proc[a].op = "cancel" /\ Past("app", proc[a].pc) /\ Leaves(a)
          /\ row'[j].status = "cancelled"
       \/ /\ proc[a].op = "execute" /\ Leaves(a)
          /\ row'[j].status \in {"staged", "failed", "cancelled"}
    /\ row[j].cancel => row'[j].cancel
    /\ "app" \in up'[j] => "app" \in up[j] \/ (proc[a].op = "activate" /\ proc[a].pc = "start")
    /\ j \in conf' => j \in conf \/ (proc[a].op = "activate" /\ proc[a].pc = "publish")
    /\ proc[a].op = "activate" /\ Leaves(a) => row'[j].status \in {"available", "activation_failed"}
    /\ proc[a].op = "activate" /\ proc'[a].pc = "finish" => ~row[j].cancel
    /\ proc[a].op = "cancel" \/ (proc[a].op = "activate" /\ Leaves(a)) => up'[j] \subseteq up[j]
    /\ proc[a].op = "activate" /\ proc'[a].pc \in Unpublished =>
          /\ proc[a].pc \in Unpublished \ {"publish"}
          /\ proc[a].pc = "check" => proc'[a].pc = "mark"
          /\ proc[a].pc = "mark" => row'[j].status = "activating"
          /\ proc'[a].pc = "publish" => ~row[j].cancel
          /\ proc'[a].pc # "check"
    /\ proc[a].op = "cancel" /\ ~Leaves(a) =>
          /\ proc[a].pc = "flag" => row'[j].cancel
          /\ Past("app", proc'[a].pc) =>
                Past("app", proc[a].pc) \/ "app" \notin up'[j] \/ j \in swallowed'

\* A step of that kind keeps what is known of every job, and begins no activation.
LEMMA MovedKeeps ==
  ASSUME Inv, CallsOK, NEW a \in Agents, NEW j \in Jobs, proc[a].job = j, proc[a].op # "none",
         Moved(a, j), NEW k \in Jobs, ServeOK(k)
  PROVE  ServeOK(k)' /\ Stays(k)
  <1>0. NoJob # j /\ NoJob # k
    BY NoneOutside
  <1>1. Worker \in Agents /\ Worker \notin Threads /\ (\A t \in Threads : t \in Agents)
    BY AgentsDistinct DEF Agents
  <1>2. CASE k # j
    <2>1. /\ row'[k] = row[k] /\ up'[k] = up[k] /\ (k \in conf' <=> k \in conf) /\ queue' = queue
          /\ k \in swallowed => k \in swallowed'
      BY <1>2 DEF Moved
    <2>2. \A t \in Threads : /\ Activates(t, k)' <=> Activates(t, k)
                             /\ Cancels(t, k)' <=> Cancels(t, k)
                             /\ Activates(t, k) \/ Cancels(t, k) => proc'[t] = proc[t]
      BY <1>0, <1>1, <1>2 DEF Moved, Activates, Cancels, Leaves
    <2>3. proc'[Worker].job = k => proc[Worker].job = k
      BY <1>0, <1>1, <1>2 DEF Moved, Leaves
    <2>4. \A t \in Threads : MayServe(t, k)' => MayServe(t, k)
      BY <2>1, <2>2 DEF MayServe
    <2>5. Stays(k)
      BY <2>1, <2>2, <2>4 DEF Stays, Over, Serving
    <2>6. LifeOK(k)'
      BY <2>1, <2>2, <2>3 DEF ServeOK, LifeOK, LateOK, Over
    <2>7. k \notin swallowed' => EndedOK(k)'
      BY <2>1, <2>2, <2>5 DEF ServeOK, EndedOK, Stays
    <2> QED
      BY <2>5, <2>6, <2>7 DEF ServeOK
  <1>3. CASE k = j
    <2>1. LifeOK(j)
      BY <1>3 DEF ServeOK
    <2>2. ASSUME NEW t \in Threads, t # a PROVE proc'[t] = proc[t]
      BY <1>1, <2>2 DEF Moved
    <2>3. ASSUME NEW t \in Threads, Activates(t, j)' PROVE Activates(t, j)
      BY <1>0, <1>1, <2>2, <2>3 DEF Moved, Leaves, Activates
    <2>4. ASSUME NEW t \in Threads, Cancels(t, j)' PROVE Cancels(t, j)
      BY <1>0, <1>1, <2>2, <2>4 DEF Moved, Leaves, Cancels
    <2>5. ASSUME NEW t \in Threads, NEW u \in Threads, Activates(t, j), Activates(u, j) PROVE t = u
      BY <2>5 DEF CallsOK, Activates
    <2>6. a \in Threads => proc[a].op \in {"cancel", "activate"}
      BY DEF CallsOK
    <2>7. a = Worker => proc[a].op = "execute" /\ row[j].status = "running"
      BY <2>1 DEF CallsOK, LifeOK
    <2>8. a \in Threads \/ a = Worker
      BY DEF Agents
    <2>9. proc[a].op = "activate" => a \in Threads /\ Activates(a, j)
      BY <2>6, <2>7, <2>8 DEF Activates
    <2>10. proc[a].op = "cancel" => a \in Threads
      BY <2>6, <2>7, <2>8
    <2>11. proc[a].op = "cancel" /\ Past("app", proc[a].pc) => Cancels(a, j) /\ proc[a].pc # "flag"
      BY <2>10 DEF CallsOK, Cancels, Past
    \* The status.
    <2>12. Over(j) => Over(j)'
      BY <2>1, <2>7, <2>8, <2>6 DEF Moved, Over
    <2>13. ASSUME NEW t \in Threads, MayServe(t, j)' PROVE MayServe(t, j)
      <3>1. Activates(t, j)
        BY <2>3, <2>13 DEF MayServe
      <3>2. CASE t = a
        BY <3>1, <3>2, <2>13 DEF MayServe, Moved, Activates
      <3>3. CASE t # a
        <4>1. proc'[t] = proc[t] /\ proc[a].op # "activate"
          BY <2>2, <2>5, <2>9, <3>1, <3>3
        <4> QED
          BY <2>13, <3>1, <4>1 DEF MayServe, Moved
      <3> QED
        BY <3>2, <3>3
    <2>14. Stays(j)
      BY <2>3, <2>12, <2>13 DEF Stays, Serving, Moved
    <2>15. LateOK(j)'
      <3>1. ASSUME NEW t \in Threads, Activates(t, j)'
            PROVE  row'[j].status \in {"staged", "activating", "cancelled"}
        <4>1. Activates(t, j) /\ row[j].status \in {"staged", "activating", "cancelled"}
          BY <2>1, <2>3, <3>1 DEF LifeOK, LateOK
        <4>2. proc[a].op = "activate" => ~Leaves(a)
          BY <1>0, <2>5, <2>9, <3>1, <4>1 DEF Leaves, Activates
        <4>3. proc[a].op # "execute"
          BY <2>6, <2>7, <2>8, <4>1
        <4> QED
          BY <4>1, <4>2, <4>3 DEF Moved
      <3>2. ASSUME NEW t \in Threads, Cancels(t, j)'
            PROVE  row'[j].status \in StoppedByCancel \cup {"activating", "cancelled"}
        <4>1. row[j].status \in StoppedByCancel \cup {"activating", "cancelled"}
          BY <2>1, <2>4, <3>2 DEF LifeOK, LateOK
        <4>2. proc[a].op # "execute"
          BY <2>6, <2>7, <2>8, <4>1 DEF StoppedByCancel
        <4> QED
          BY <4>1, <4>2 DEF Moved, StoppedByCancel
      <3> QED
        BY <3>1, <3>2 DEF LateOK
    <2>16. LifeOK(j)'
      <3>1. ASSUME NEW i \in 1 .. Len(queue'), queue'[i] = j PROVE row'[j].status = "queued"
        <4>1. row[j].status = "queued"
          BY <2>1, <3>1 DEF Moved, LifeOK
        <4> QED
          BY <2>1, <2>6, <2>7, <2>8, <2>9, <2>11, <4>1 DEF Moved, LifeOK, LateOK, StoppedByCancel
      <3>2. proc'[Worker].job = j => row'[j].status = "running"
        <4>1. SUFFICES ASSUME proc'[Worker].job = j PROVE row'[j].status = "running"
          OBVIOUS
        <4>2. proc[Worker].job = j /\ ~(a = Worker /\ Leaves(a))
          BY <1>0, <1>1, <4>1 DEF Moved, Leaves
        <4>3. row[j].status = "running"
          BY <2>1, <4>2 DEF LifeOK
        <4> QED
          BY <2>1, <2>6, <2>8, <2>9, <2>11, <4>2, <4>3 DEF Moved, LifeOK, LateOK, StoppedByCancel
      <3>3. j \in conf' => Over(j)'
        BY <2>1, <2>9, <2>12 DEF Moved, LifeOK, LateOK, Over, Unpublished
      <3>4. ASSUME NEW t \in Threads, Activates(t, j)', proc'[t].pc \in Unpublished
            PROVE  /\ j \notin conf'
                   /\ proc'[t].pc \notin {"check", "mark"} => row'[j].status # "staged"
        <4>1. Activates(t, j)
          BY <2>3, <3>4
        <4>2. CASE t = a
          BY <2>1, <3>4, <4>1, <4>2 DEF Moved, LifeOK, Activates, Unpublished, Leaves
        <4>3. CASE t # a
          <5>1. proc'[t] = proc[t] /\ proc[a].op # "activate"
            BY <2>2, <2>5, <2>9, <4>1, <4>3
          <5>2. proc[a].op # "execute"
            BY <2>1, <2>6, <2>7, <2>8, <4>1 DEF LifeOK, LateOK
          <5> QED
            BY <2>1, <3>4, <4>1, <5>1, <5>2 DEF Moved, LifeOK
        <4> QED
          BY <4>2, <4>3
      <3>5. ASSUME NEW t \in Threads, Cancels(t, j)', proc'[t].pc # "flag" PROVE row'[j].cancel
        <4>1. Cancels(t, j)
          BY <2>4, <3>5
        <4>2. CASE t = a
          BY <1>0, <2>1, <3>5, <4>1, <4>2 DEF Moved, LifeOK, Cancels, Leaves
        <4>3. CASE t # a
          BY <2>1, <2>2, <3>5, <4>1, <4>3 DEF Moved, LifeOK
        <4> QED
          BY <4>2, <4>3
      <3> QED
        BY <2>15, <3>1, <3>2, <3>3, <3>4, <3>5 DEF LifeOK
    <2>17. ASSUME j \notin swallowed' PROVE EndedOK(j)'
      <3>1. EndedOK(j)
        BY <1>3, <2>17 DEF ServeOK, Moved
      <3>2. ASSUME row'[j].status \in Terminal, Serving(j)' PROVE FALSE
        <4>1. PICK t \in Threads : MayServe(t, j) /\ Activates(t, j)'
          BY <2>13, <3>2 DEF Serving, MayServe
        <4>2. row[j].status \notin Terminal /\ Activates(t, j)
          BY <3>1, <4>1 DEF EndedOK, Serving, MayServe
        <4>3. proc[a].op = "activate" => ~Leaves(a)
          BY <1>0, <2>5, <2>9, <4>1, <4>2 DEF Leaves, Activates
        <4>4. ~(proc[a].op = "cancel" /\ Past("app", proc[a].pc))
          BY <2>10, <2>11, <3>1, <4>1 DEF EndedOK, Serving
        <4>5. proc[a].op # "execute"
          BY <2>1, <2>6, <2>7, <2>8, <4>2 DEF LifeOK, LateOK
        <4> QED
          BY <3>2, <4>2, <4>3, <4>4, <4>5 DEF Moved, Terminal
      <3>3. ASSUME NEW t \in Threads, Cancels(t, j)', Past("app", proc'[t].pc), Serving(j)' PROVE FALSE
        <4>1. Cancels(t, j) /\ Serving(j)
          BY <2>4, <2>14, <3>3 DEF Stays
        <4>2. CASE t # a
          BY <2>2, <3>1, <3>3, <4>1, <4>2 DEF EndedOK
        <4>3. CASE t = a
          <5>1. "app" \notin up'[j] /\ row'[j].cancel
            <6>1. ~Leaves(a) /\ proc'[a].pc # "flag"
              BY <1>0, <3>3, <4>3 DEF Leaves, Cancels, Past
            <6> QED
              BY <2>1, <2>17, <3>1, <3>3, <4>1, <4>3, <6>1 DEF Moved, EndedOK, Cancels, LifeOK
          <5> QED
            BY <3>3, <5>1 DEF Serving, MayServe
        <4> QED
          BY <4>2, <4>3
      <3> QED
        BY <3>2, <3>3 DEF EndedOK
    <2> QED
      BY <1>3, <2>14, <2>16, <2>17 DEF ServeOK
  <1> QED
    BY <1>2, <1>3

\* The step of a call moves it.
LEMMA ThreadStepMoves ==
  ASSUME Inv, CallsOK, NEW t \in Threads, ThreadStep(t), NEW j \in Jobs, j = proc[t].job
  PROVE  Moved(t, j) /\ proc[t].op # "none"
  <1>1. t \in Agents /\ row \in [Jobs -> Rows] /\ up \in [Jobs -> SUBSET Parts] /\ conf \subseteq Jobs
    BY DEF Agents, Inv, TypeOK, Rows
  <1>2. /\ proc[t].op \in {"cancel", "activate"}
        /\ proc[t].op = "cancel" => proc[t].pc = "flag" \/ proc[t].pc \in StopSteps \cup UnpublishSteps \cup {"settle"}
    <2>1. j # NoJob
      BY NoneOutside
    <2>2. proc[t].op # "none"
      BY <1>1, <2>1 DEF CallsOK
    <2> QED
      BY <2>2 DEF CallsOK
  <1>3. ASSUME NEW pc, Goto(t, pc)
        PROVE  /\ \A b \in Agents \ {t} : proc'[b] = proc[b]
               /\ proc'[t].op = proc[t].op /\ proc'[t].job = j /\ proc'[t].seen = proc[t].seen
               /\ proc'[t].pc = pc /\ ~Leaves(t)
    BY <1>1, <1>2, <1>3, GotoFields DEF Leaves
  <1>4. ASSUME Return(t)
        PROVE  (\A b \in Agents \ {t} : proc'[b] = proc[b]) /\ Leaves(t) /\ proc'[t].pc = "idle"
    BY <1>1, <1>4, ReturnFields DEF Leaves
  <1>5. ASSUME NEW s, SetStatus(j, s)
        PROVE  /\ row'[j].status = s /\ row'[j].cancel = row[j].cancel
               /\ \A k \in Jobs \ {j} : row'[k] = row[k]
    BY <1>5, StatusFields
  <1>6. CASE Stop(t)
    <2>1. /\ proc[t].pc \in StopSteps
          /\ UNCHANGED <<row, conf, daemon, orphaned, queue>> /\ swallowed \subseteq swallowed'
          /\ \A k \in Jobs \ {j} : up'[k] = up[k]
          /\ up'[j] \subseteq up[j]
          /\ proc[t].pc = "stopApp" => "app" \notin up'[j] \/ j \in swallowed'
      BY <1>1, <1>6 DEF Stop, StopPart
    <2>2. PICK pc \in {"stopWeb", "stopDeps", "look"} :
             Goto(t, pc) /\ (Past("app", pc) => Past("app", proc[t].pc) \/ proc[t].pc = "stopApp")
      BY <1>2, <1>6, <2>1 DEF Stop, AfterStop, StopSteps, Past
    <2> QED
      BY <1>2, <1>3, <2>1, <2>2 DEF Moved, Unpublished, StopSteps
  <1>7. CASE UnpublishLook(t) \/ UnpublishReload(t)
    <2>1. /\ UNCHANGED <<row, conf, daemon, orphaned, queue, up, swallowed>> /\ proc[t].pc \in {"look", "unreload"}
          /\ \E pc \in {"unlink", "settle"} : Goto(t, pc)
      BY <1>7 DEF UnpublishLook, UnpublishReload, disk
    <2> QED
      BY <1>2, <1>3, <2>1 DEF Moved, Unpublished, Past
  <1>8. CASE UnpublishUnlink(t)
    <2>1. /\ UNCHANGED <<row, daemon, orphaned, queue, up, swallowed>> /\ proc[t].pc = "unlink"
          /\ conf' = conf \ {j} /\ Goto(t, "unreload")
      BY <1>8 DEF UnpublishUnlink
    <2> QED
      BY <1>2, <1>3, <2>1 DEF Moved, Unpublished, Past
  <1>9. CASE UnpublishFails(t)
    <2>1. /\ UNCHANGED <<row, conf, daemon, orphaned, queue, up>> /\ swallowed \subseteq swallowed'
          /\ proc[t].pc \in {"unlink", "unreload"} /\ ((Return(t) /\ proc[t].op = "cancel") \/ Goto(t, "settle"))
      BY <1>9 DEF UnpublishFails, disk
    <2> QED
      BY <1>2, <1>3, <1>4, <2>1 DEF Moved, Unpublished, Past, Leaves
  <1>10. CASE CancelFlag(t)
    <2>1. /\ UNCHANGED <<conf, daemon, orphaned, queue, up, swallowed>> /\ proc[t].op = "cancel" /\ proc[t].pc = "flag"
          /\ row' = [row EXCEPT ![j].cancel = TRUE]
          /\ Return(t) \/ Goto(t, "stopApp")
      BY <1>10 DEF CancelFlag, At
    <2>2. /\ row'[j].status = row[j].status /\ row'[j].cancel /\ \A k \in Jobs \ {j} : row'[k] = row[k]
      BY <1>1, <2>1 DEF Rows
    <2> QED
      BY <1>2, <1>3, <1>4, <2>1, <2>2 DEF Moved, Unpublished, Past, Leaves
  <1>11. CASE CancelSettle(t)
    <2>1. /\ UNCHANGED <<conf, daemon, orphaned, queue, up, swallowed>> /\ proc[t].op = "cancel" /\ proc[t].pc = "settle"
          /\ SetStatus(j, "cancelled") /\ Return(t)
      BY <1>11 DEF CancelSettle, At
    <2> QED
      BY <1>4, <1>5, <2>1 DEF Moved, Unpublished, Past, Leaves
  <1>12. CASE ActivateCheck(t)
    <2>1. /\ UNCHANGED <<row, conf, daemon, orphaned, queue, up, swallowed>> /\ proc[t].op = "activate"
          /\ proc[t].pc \in {"check", "recheck", "confirm"}
      BY <1>12 DEF ActivateCheck, NextCheck, disk
    <2>2. PICK pc \in {"mark", "publish", "finish", "stopApp"} :
             /\ Goto(t, pc)
             /\ proc[t].pc = "check" => pc \in {"mark", "stopApp"}
             /\ proc[t].pc = "confirm" => pc \in {"finish", "stopApp"}
             /\ proc[t].pc = "recheck" => pc \in {"publish", "stopApp"}
             /\ pc \in {"publish", "finish"} => ~row[j].cancel
      BY <1>12, <2>1 DEF ActivateCheck, NextCheck, Checked
    <2> QED
      BY <1>3, <2>1, <2>2 DEF Moved, Unpublished
  <1>13. CASE ActivateMark(t)
    <2>1. /\ UNCHANGED <<conf, daemon, orphaned, queue, up, swallowed>> /\ proc[t].op = "activate" /\ proc[t].pc = "mark"
          /\ SetStatus(j, "activating") /\ Goto(t, "start")
      BY <1>13 DEF ActivateMark, At
    <2> QED
      BY <1>3, <1>5, <2>1 DEF Moved, Unpublished
  <1>14. CASE ActivateStart(t) \/ ActivateStartWeb(t)
    <2>1. /\ UNCHANGED <<row, conf, daemon, orphaned, queue, swallowed>> /\ proc[t].op = "activate"
          /\ proc[t].pc \in {"start", "startWeb"}
          /\ \A k \in Jobs \ {j} : up'[k] = up[k]
          /\ "app" \in up'[j] => "app" \in up[j] \/ proc[t].pc = "start"
          /\ \E pc \in {"health", "healthWeb"} : Goto(t, pc)
      BY <1>1, <1>14 DEF ActivateStart, ActivateStartWeb, At
    <2> QED
      BY <1>3, <2>1 DEF Moved, Unpublished
  <1>15. CASE ActivateHealth(t) \/ ActivateHealthWeb(t)
    <2>1. /\ UNCHANGED <<row, conf, daemon, orphaned, queue, up, swallowed>> /\ proc[t].op = "activate"
          /\ proc[t].pc \in {"health", "healthWeb"}
          /\ \E pc \in {"startWeb", "recheck", "stopApp"} : Goto(t, pc)
      BY <1>15 DEF ActivateHealth, ActivateHealthWeb, At, Checked, disk
    <2> QED
      BY <1>3, <2>1 DEF Moved, Unpublished
  <1>16. CASE ActivatePublish(t)
    <2>1. /\ UNCHANGED <<row, daemon, orphaned, queue, up, swallowed>> /\ proc[t].op = "activate" /\ proc[t].pc = "publish"
          /\ conf' = conf \cup {j} /\ \E pc \in {"reload", "stopApp"} : Goto(t, pc)
      BY <1>16 DEF ActivatePublish, At
    <2> QED
      BY <1>3, <2>1 DEF Moved, Unpublished
  <1>17. CASE ActivateReload(t)
    <2>1. /\ UNCHANGED <<row, daemon, orphaned, queue, up, swallowed>> /\ proc[t].op = "activate" /\ proc[t].pc = "reload"
          /\ conf' \in {conf, conf \ {j}} /\ \E pc \in {"confirm", "stopApp"} : Goto(t, pc)
      BY <1>17 DEF ActivateReload, At
    <2> QED
      BY <1>3, <2>1 DEF Moved, Unpublished
  <1>18. CASE ActivateFinish(t) \/ ActivateSettle(t)
    <2>1. /\ UNCHANGED <<conf, daemon, orphaned, queue, up, swallowed>> /\ proc[t].op = "activate"
          /\ \E s \in {"available", "activation_failed"} :
                SetStatus(j, s) /\ (s = "available" => proc[t].pc = "finish")
          /\ Return(t)
      BY <1>18 DEF ActivateFinish, ActivateSettle, At
    <2> QED
      BY <1>4, <1>5, <2>1 DEF Moved, Unpublished
  <1>19. CASE ActivateFails(t)
    <2>1. /\ UNCHANGED <<row, conf, daemon, orphaned, queue, up, swallowed>> /\ proc[t].op = "activate" /\ Goto(t, "stopApp")
      BY <1>19 DEF ActivateFails, disk
    <2> QED
      BY <1>3, <2>1 DEF Moved, Unpublished
  <1> QED
    BY <1>2, <1>6, <1>7, <1>8, <1>9, <1>10, <1>11, <1>12, <1>13, <1>14, <1>15, <1>16, <1>17, <1>18, <1>19
       DEF ThreadStep

\* So does a step of the copy.
LEMMA WorkerStepMoves ==
  ASSUME Inv, CallsOK, WorkerStep, ~Take, NEW j \in Jobs, j = proc[Worker].job
  PROVE  Moved(Worker, j) /\ proc[Worker].op # "none"
  <1>1. Worker \in Agents /\ row \in [Jobs -> Rows] /\ up \in [Jobs -> SUBSET Parts] /\ conf \subseteq Jobs
    BY DEF Agents, Inv, TypeOK, Rows
  <1>2. /\ proc[Worker].op = "execute"
        /\ proc[Worker].pc = "record" => proc[Worker].seen \in {"staged", "failed", "cancelled"}
    <2>1. j # NoJob
      BY NoneOutside
    <2>2. proc[Worker].op = "execute"
      BY <1>1, <2>1 DEF CallsOK
    <2> QED
      BY <2>2 DEF CallsOK
  <1>3. ASSUME NEW pc, Goto(Worker, pc) \/ (\E s : BuildAborts(s))
        PROVE  /\ \A b \in Agents \ {Worker} : proc'[b] = proc[b]
               /\ proc'[Worker].op = "execute" /\ proc'[Worker].job = j /\ ~Leaves(Worker)
    BY <1>1, <1>2, <1>3, GotoFields, AbortFields DEF Leaves
  <1>4. CASE BuildCheck \/ BuildDirectory \/ BuildCreate \/ BuildFails
    <2>1. UNCHANGED <<row, conf, daemon, orphaned, queue, up, swallowed>>
      BY <1>4 DEF BuildCheck, BuildDirectory, BuildCreate, BuildFails, disk
    <2>2. \E pc : Goto(Worker, pc) \/ (\E s : BuildAborts(s))
      BY <1>4 DEF BuildCheck, BuildDirectory, BuildCreate, BuildFails
    <2> QED
      BY <1>2, <1>3, <2>1, <2>2 DEF Moved
  <1>5. CASE BuildDependencies
    <2>1. /\ UNCHANGED <<row, conf, daemon, orphaned, queue, swallowed>> /\ Goto(Worker, "late")
          /\ \A k \in Jobs \ {j} : up'[k] = up[k]
          /\ "app" \in up'[j] => "app" \in up[j]
      BY <1>1, <1>5 DEF BuildDependencies
    <2> QED
      BY <1>2, <1>3, <2>1 DEF Moved
  <1>6. CASE BuildRecord
    <2>1. /\ UNCHANGED <<conf, daemon, orphaned, queue, up, swallowed>> /\ Return(Worker)
          /\ \E s \in {"staged", "failed", "cancelled"} : SetStatus(j, s)
      BY <1>2, <1>6 DEF BuildRecord, At
    <2>2. (\A b \in Agents \ {Worker} : proc'[b] = proc[b]) /\ Leaves(Worker)
      BY <1>1, <2>1, ReturnFields DEF Leaves
    <2>3. /\ row'[j].status \in {"staged", "failed", "cancelled"} /\ row'[j].cancel = row[j].cancel
          /\ \A k \in Jobs \ {j} : row'[k] = row[k]
      BY <2>1, StatusFields
    <2> QED
      BY <1>2, <2>1, <2>2, <2>3 DEF Moved
  <1>7. CASE Stop(Worker)
    <2>1. /\ UNCHANGED <<row, conf, daemon, orphaned, queue>> /\ swallowed \subseteq swallowed'
          /\ \A k \in Jobs \ {j} : up'[k] = up[k]
          /\ up'[j] \subseteq up[j]
          /\ \E pc : Goto(Worker, pc)
      BY <1>1, <1>7 DEF Stop, StopPart
    <2> QED
      BY <1>2, <1>3, <2>1 DEF Moved
  <1> QED
    BY <1>2, <1>4, <1>5, <1>6, <1>7 DEF WorkerStep

\* A step that leaves the calls of a job and the job alone.
LEMMA UntouchedJob ==
  ASSUME NEW k \in Jobs, ServeOK(k), row'[k] = row[k], up'[k] = up[k],
         k \in conf' <=> k \in conf, k \in swallowed => k \in swallowed',
         \A i \in 1 .. Len(queue') : queue'[i] = k => \E n \in 1 .. Len(queue) : queue[n] = k,
         proc'[Worker].job = k => proc[Worker].job = k,
         \A t \in Threads : proc'[t] = proc[t] \/ proc'[t].job # k
  PROVE  ServeOK(k)' /\ Stays(k)
  <1>1. \A t \in Threads : /\ Activates(t, k)' => Activates(t, k) /\ proc'[t] = proc[t]
                           /\ Cancels(t, k)' => Cancels(t, k) /\ proc'[t] = proc[t]
    BY DEF Activates, Cancels
  <1>2. \A t \in Threads : MayServe(t, k)' => MayServe(t, k)
    BY <1>1 DEF MayServe
  <1>3. Stays(k)
    BY <1>1, <1>2 DEF Stays, Over, Serving
  <1>4. LifeOK(k)'
    BY <1>1 DEF ServeOK, LifeOK, LateOK, Over
  <1>5. k \notin swallowed' => EndedOK(k)'
    BY <1>1, <1>3 DEF ServeOK, EndedOK, Stays
  <1> QED
    BY <1>3, <1>4, <1>5 DEF ServeOK

\* The worker takes a job: nothing else works on it yet.
LEMMA TakeServe ==
  ASSUME Inv, CallsOK, Take, NEW k \in Jobs, ServeOK(k)
  PROVE  ServeOK(k)' /\ Stays(k)
  <1>1. Worker \in Agents /\ Worker \notin Threads /\ (\A t \in Threads : t \in Agents)
    BY AgentsDistinct DEF Agents
  <1>2. PICK j \in Jobs : j = Head(queue)
    BY DEF Take, Inv, TypeOK
  <1>3. /\ row'[j].status = "running" /\ row'[j].cancel = row[j].cancel
        /\ \A x \in Jobs \ {j} : row'[x] = row[x]
    BY <1>2, StatusFields DEF Take
  <1>4. /\ \A t \in Threads : proc'[t] = proc[t]
        /\ proc'[Worker].job = j /\ proc[Worker].job = NoJob
        /\ UNCHANGED <<up, conf, swallowed>> /\ queue # <<>> /\ queue' = Tail(queue)
    BY <1>1, <1>2 DEF Take, Idle, Inv, TypeOK
  <1>5. /\ queue \in Seq(Jobs) /\ 1 \in 1 .. Len(queue) /\ queue[1] = j
        /\ \A i \in 1 .. Len(queue') : i + 1 \in 1 .. Len(queue) /\ queue'[i] = queue[i + 1]
    BY <1>2, <1>4 DEF Inv, TypeOK
  <1>6. CASE k # j
    <2>1. \A i \in 1 .. Len(queue') : queue'[i] = k => \E n \in 1 .. Len(queue) : queue[n] = k
      BY <1>5
    <2> QED
      BY <1>3, <1>4, <1>6, <2>1, UntouchedJob
  <1>7. CASE k = j
    <2>1. row[k].status = "queued"
      BY <1>5, <1>7 DEF ServeOK, LifeOK
    <2>2. \A t \in Threads : ~Activates(t, k)' /\ ~Cancels(t, k)' /\ ~Activates(t, k)
      BY <1>4, <2>1 DEF ServeOK, LifeOK, LateOK, Activates, Cancels, StoppedByCancel
    <2>3. \A i \in 1 .. Len(queue') : queue'[i] # k
      <3>1. ASSUME NEW i \in 1 .. Len(queue'), queue'[i] = k PROVE FALSE
        <4>1. i + 1 = 1
          BY <1>5, <1>7, <3>1 DEF Inv, QueueOK
        <4> QED
          BY <4>1
      <3> QED
        BY <3>1
    <2>4. k \notin conf
      BY <2>1 DEF ServeOK, LifeOK, Over
    <2>5. ~Serving(k)'
      BY <2>2 DEF Serving, MayServe
    <2> QED
      BY <1>3, <1>4, <1>7, <2>1, <2>2, <2>3, <2>4, <2>5
         DEF ServeOK, LifeOK, LateOK, EndedOK, Stays, Over
  <1> QED
    BY <1>6, <1>7

\* A new job, which nothing works on.
LEMMA CloneServe ==
  ASSUME Inv, CallsOK, NEW j \in Jobs, NEW tgt \in Targets, Clone(j, tgt), NEW k \in Jobs, ServeOK(k)
  PROVE  ServeOK(k)' /\ Stays(k)
  <1>1. /\ row'[j].status = "queued" /\ \A x \in Jobs \ {j} : row'[x] = row[x]
        /\ UNCHANGED <<proc, up, conf, swallowed>> /\ row[j].status = "none"
        /\ queue \in Seq(Jobs) /\ queue' = Append(queue, j)
    BY DEF Clone, Inv, TypeOK
  <1>2. \A i \in 1 .. Len(queue') : queue'[i] = j \/ (i \in 1 .. Len(queue) /\ queue'[i] = queue[i])
    BY <1>1
  <1>3. CASE k # j
    <2>1. \A i \in 1 .. Len(queue') : queue'[i] = k => \E n \in 1 .. Len(queue) : queue[n] = k
      BY <1>2, <1>3
    <2> QED
      BY <1>1, <1>3, <2>1, UntouchedJob
  <1>4. CASE k = j
    <2>1. \A t \in Threads : ~Activates(t, k)' /\ ~Cancels(t, k)' /\ ~Activates(t, k)
      BY <1>1, <1>4 DEF ServeOK, LifeOK, LateOK, Activates, Cancels, StoppedByCancel
    <2>2. k \notin conf /\ proc[Worker].job # k
      BY <1>1, <1>4 DEF ServeOK, LifeOK, Over
    <2>3. ~Serving(k)'
      BY <2>1 DEF Serving, MayServe
    <2> QED
      BY <1>1, <1>4, <2>1, <2>2, <2>3 DEF ServeOK, LifeOK, LateOK, EndedOK, Stays, Over
  <1> QED
    BY <1>3, <1>4

\* A cancel begins, whatever the row says.
LEMMA CancelReadServe ==
  ASSUME Inv, CallsOK, NEW t \in Threads, NEW j \in Jobs, CancelRead(t, j), NEW k \in Jobs, ServeOK(k)
  PROVE  ServeOK(k)' /\ Stays(k)
  <1>1. Worker \in Agents /\ Worker \notin Threads /\ (\A u \in Threads : u \in Agents)
    BY AgentsDistinct DEF Agents
  <1>2. /\ \A b \in Agents \ {t} : proc'[b] = proc[b]
        /\ proc'[t].op = "cancel" /\ proc'[t].job = j /\ proc'[t].pc = "flag"
        /\ proc'[t].seen = row[j].status
        /\ UNCHANGED <<row, up, conf, queue, swallowed>>
    BY <1>1 DEF CancelRead, disk, Inv, TypeOK
  <1>3. \A u \in Threads : /\ Activates(u, k)' => Activates(u, k) /\ proc'[u] = proc[u]
                           /\ Cancels(u, k)' => \/ Cancels(u, k) /\ proc'[u] = proc[u]
                                                \/ u = t /\ k = j /\ row[k].status \in StoppedByCancel
    BY <1>1, <1>2 DEF Activates, Cancels
  <1>4. Stays(k)
    BY <1>2, <1>3 DEF Stays, Over, Serving, MayServe
  <1>5. LifeOK(k)'
    BY <1>1, <1>2, <1>3 DEF ServeOK, LifeOK, LateOK, Over
  <1>6. k \notin swallowed' => EndedOK(k)'
    BY <1>2, <1>3, <1>4 DEF ServeOK, EndedOK, Stays, Past
  <1> QED
    BY <1>4, <1>5, <1>6 DEF ServeOK

\* An activation begins on a staged row, and only there.
LEMMA ActivateBeginServe ==
  ASSUME Inv, CallsOK, NEW t \in Threads, NEW j \in Jobs, ActivateBegin(t, j), NEW k \in Jobs, ServeOK(k)
  PROVE  /\ ServeOK(k)' /\ (k # j => Stays(k))
         /\ row[j].status = "staged" /\ UNCHANGED <<row, swallowed>>
         /\ \A u \in Threads \ {t} : proc'[u] = proc[u]
  <1>1. Worker \in Agents /\ Worker \notin Threads /\ (\A u \in Threads : u \in Agents)
    BY AgentsDistinct DEF Agents
  <1>2. /\ \A b \in Agents \ {t} : proc'[b] = proc[b]
        /\ proc'[t].op = "activate" /\ proc'[t].job = j /\ proc'[t].pc = "check"
        /\ UNCHANGED <<row, up, conf, queue, swallowed>> /\ row[j].status = "staged"
    BY <1>1 DEF ActivateBegin, disk, Inv, TypeOK
  <1>3. CASE k # j
    BY <1>1, <1>2, <1>3, UntouchedJob
  <1>4. CASE k = j
    <2>1. \A u \in Threads : /\ Activates(u, k)' => (Activates(u, k) /\ proc'[u] = proc[u]) \/ u = t
                             /\ Cancels(u, k)' => Cancels(u, k) /\ proc'[u] = proc[u]
      BY <1>1, <1>2 DEF Activates, Cancels
    <2>2. LifeOK(k)'
      BY <1>1, <1>2, <1>4, <2>1 DEF ServeOK, LifeOK, LateOK, Over
    <2>3. \A u \in Threads : MayServe(u, k)' => MayServe(u, k) \/ ~row[k].cancel
      BY <1>2, <1>4, <2>1 DEF MayServe
    <2>4. k \notin swallowed' => EndedOK(k)'
      BY <1>1, <1>2, <1>4, <2>1, <2>3
         DEF ServeOK, EndedOK, LifeOK, LateOK, Serving, Past, Terminal, Cancels
    <2> QED
      BY <1>1, <1>2, <1>4, <2>2, <2>4 DEF ServeOK
  <1> QED
    BY <1>1, <1>2, <1>3, <1>4

\* After a crash nothing is under way, and the start interrupts what was.
LEMMA CrashServe ==
  ASSUME Crash, NEW k \in Jobs, ServeOK(k)
  PROVE  ServeOK(k)' /\ Stays(k)
  <1>1. Worker \in Agents /\ (\A u \in Threads : u \in Agents) /\ NoJob # k
    BY NoneOutside DEF Agents
  <1>2. /\ \A a \in Agents : proc'[a].op = "none" /\ proc'[a].job = NoJob
        /\ UNCHANGED <<row, up, conf, swallowed>> /\ queue' = <<>>
    BY DEF Crash, Idle, disk
  <1> QED
    BY <1>1, <1>2 DEF ServeOK, LifeOK, LateOK, EndedOK, Stays, Over, Serving, MayServe, Activates, Cancels

LEMMA StartServe ==
  ASSUME Inv, CallsOK, Boot, NEW k \in Jobs, ServeOK(k)
  PROVE  ServeOK(k)' /\ Stays(k)
  <1>1. Worker \in Agents /\ (\A u \in Threads : u \in Agents) /\ NoJob # k
    BY NoneOutside DEF Agents
  <1>2. CASE BootMark
    <2>1. (\A a \in Agents : proc[a].op = "none" /\ proc[a].job = NoJob) /\ queue = <<>>
      BY <1>2 DEF BootMark, CallsOK
    <2>2. UNCHANGED <<proc, up, conf, swallowed, queue>>
      BY <1>2 DEF BootMark
    <2>3. row'[k].status = row[k].status \/ (row[k].status \in InFlight /\ row'[k].status = "interrupted")
      BY <1>2 DEF BootMark, BootRows, Inv, TypeOK
    <2> QED
      BY <1>1, <2>1, <2>2, <2>3
         DEF ServeOK, LifeOK, LateOK, EndedOK, Stays, Over, Serving, MayServe, Activates, Cancels, InFlight
  <1>3. CASE BootStop
    <2>1. proc' = proc /\ UNCHANGED <<row, conf, queue>> /\ up'[k] \subseteq up[k] /\ swallowed \subseteq swallowed'
      BY <1>3 DEF BootStop, Inv, TypeOK
    <2> QED
      BY <2>1 DEF ServeOK, LifeOK, LateOK, EndedOK, Stays, Over, Serving, MayServe, Activates, Cancels
  <1>4. CASE BootServe
    <2>1. UNCHANGED <<proc, row, up, conf, swallowed, queue>>
      BY <1>4 DEF BootServe, disk
    <2> QED
      BY <2>1, UntouchedJob
  <1> QED
    BY <1>2, <1>3, <1>4 DEF Boot

\* The operator is through with the job.
Shut(j) == Over(j) /\ ~Serving(j)

\* The tick is about to activate the job.
Near(j) == tick.job = j /\ tick.at \in {"receipt2", "activate"}

\* No activation of the job is under way or to come.
Closed(j) == Shut(j) \/ (saved[j].cancel /\ ~Near(j) /\ ~Serving(j))
Inactive(j) == ~Near(j) /\ \A t \in Threads : ~Activates(t, j)

Early == {"absent", "authorized"}

\* A job the operator may not know has no activation.
EarlyOK(j) ==
    /\ saved[j].status \in Early => Inactive(j)
    /\ saved[j].status = "absent" => saved[j] = Absent
    /\ tick.at # "rest" =>
          /\ copy[j].status \in Early => Inactive(j)
          /\ copy[j].status \notin Early /\ saved[j].status \in Early => saved[j].cancel
          /\ copy[j].status # "absent" => saved[j].status # "absent"
          /\ j \in tick.todo => copy[j].status # "absent"
    /\ cancelling.at # "rest" /\ cancelling.job = j =>
          /\ cancelling.own.status \in Early => Inactive(j)
          /\ cancelling.own.status # "absent" /\ saved[j].status # "absent"
    /\ j \in cloning => TargetOf[j] \notin changing

\* A tick that has asked the operator has a job it knows.
TickKnows ==
    /\ tick.at \in {"status", "decide", "receipt2", "cancel", "activate", "wait", "settle"}
       => copy[tick.job].status \notin Early
    /\ tick.at \in {"rest", "next"} => tick.seen = "none"
    /\ tick.call = cancelling.call => tick.call = NoThread

\* What the portal takes for ended is closed.
ClosedOK(j) ==
    /\ saved[j].status \in Terminal => Closed(j)
    /\ tick.at # "rest" /\ copy[j].status \in Terminal => Closed(j)
    /\ cancelling.at # "rest" /\ cancelling.job = j /\ cancelling.own.status \in Terminal => Closed(j)
    /\ tick.job = j /\ tick.seen \in Terminal => Shut(j)
    /\ \A t \in Threads : reply[t] \in Terminal /\ (\E c \in {tick, cancelling} : c.job = j /\ c.call = t)
          => Shut(j)
    /\ TargetOf[j] \in changing => saved[j].status = "absent" \/ Closed(j)
    /\ tick.job = j /\ tick.at = "activate" /\ ~Shut(j) => TargetOf[j] \in gated
    /\ Serving(j) => TargetOf[j] \in gated
GateInv == TickKnows /\ \A j \in Jobs : EarlyOK(j) /\ (j \notin swallowed => ClosedOK(j))

\* What a step that begins no activation, and brings none near, leaves true.
Steady(j) ==
    /\ Stays(j)
    /\ Near(j)' => Near(j)
    /\ saved[j].cancel => saved'[j].cancel
Lasting(j) ==
    /\ Inactive(j) => Inactive(j)'
    /\ Shut(j) => Shut(j)'
    /\ Closed(j) => Closed(j)'
    /\ Serving(j)' => Serving(j)

LEMMA SteadyLasts == ASSUME NEW j \in Jobs, Steady(j) PROVE Lasting(j)
  <1>1. (Inactive(j) => Inactive(j)') /\ (Shut(j) => Shut(j)') /\ (Serving(j)' => Serving(j))
    BY DEF Steady, Stays, Inactive, Shut
  <1>2. Closed(j) => Closed(j)'
    BY <1>1 DEF Steady, Closed
  <1> QED
    BY <1>1, <1>2 DEF Lasting

\* A step of the portal alone.
LEMMA UntouchedOperator ==
  ASSUME UNCHANGED vars
  PROVE  \A j \in Jobs : Stays(j) /\ (ServeOK(j) => ServeOK(j)')
  BY DEF vars, disk, Stays, Over, Serving, MayServe, Activates, ServeOK, LifeOK, LateOK, EndedOK, Cancels

\* No answer that says a job ended is new.
NoNews == \A t \in Threads : reply'[t] \in Terminal => reply[t] \in Terminal

\* What is closed or inactive serves nothing.
LEMMA ClosedNotServing == ASSUME NEW j \in Jobs PROVE Closed(j) \/ Inactive(j) => ~Serving(j)
  BY DEF Closed, Shut, Inactive, Serving, MayServe

\* The operator moves, or answers.
LEMMA OperatorKeepsGate ==
  ASSUME TypeOK, PortalInv, GateInv, ServeInv, UNCHANGED portal, \A j \in Jobs : Stays(j),
         \A t \in Threads : reply'[t] \in Terminal /\ reply[t] \notin Terminal =>
            \E c \in {tick, cancelling} : c.call = t /\ reply'[t] = row[c.job].status
  PROVE  GateInv'
  <1>1. UNCHANGED <<saved, gated, tick, copy, cancelling, cloning, changing>>
    BY DEF portal
  <1>2. ASSUME NEW j \in Jobs PROVE Lasting(j)
    BY <1>1, SteadyLasts DEF Steady, Near
  <1>3. TickKnows'
    BY <1>1 DEF GateInv, TickKnows
  <1>4. ASSUME NEW j \in Jobs PROVE EarlyOK(j)'
    BY <1>1, <1>2 DEF GateInv, EarlyOK, Lasting
  <1>5. ASSUME NEW j \in Jobs, j \notin swallowed' PROVE ClosedOK(j)'
    <2>1. ClosedOK(j) /\ EndedOK(j) /\ Stays(j)
      BY <1>5 DEF GateInv, ServeInv, ServeOK, Stays
    <2>2. ASSUME NEW t \in Threads, reply'[t] \in Terminal,
                 NEW c \in {tick, cancelling}, c.job = j, c.call = t
          PROVE  Shut(j)'
      <3>1. CASE reply[t] \in Terminal
        BY <1>2, <2>1, <2>2, <3>1 DEF ClosedOK, Lasting
      <3>2. CASE reply[t] \notin Terminal
        <4>1. PICK d \in {tick, cancelling} : d.call = t /\ reply'[t] = row[d.job].status
          BY <2>2, <3>2
        <4>2. d = c
          BY <2>2, <4>1, HostingConstants DEF GateInv, TickKnows
        <4>3. row[j].status \in Terminal
          BY <2>2, <4>1, <4>2
        <4>4. Shut(j)
          BY <2>1, <4>3 DEF EndedOK, Shut, Over, Terminal
        <4> QED
          BY <1>2, <4>4 DEF Lasting
      <3> QED
        BY <3>1, <3>2
    <2> QED
      BY <1>1, <1>2, <2>1, <2>2 DEF ClosedOK, Lasting
  <1> QED
    BY <1>3, <1>4, <1>5 DEF GateInv

\* The tick goes on, and the jobs stay as they are.
LEMMA TickMovesGate ==
  ASSUME PortalInv, GateInv, \A j \in Jobs : Stays(j),
         UNCHANGED <<saved, copy, cancelling, cloning, changing>>, gated \subseteq gated', NoNews,
         tick.at # "rest", tick'.at # "rest", tick'.todo \subseteq tick.todo,
         \/ tick'.call = tick.call /\ tick'.job = tick.job
         \/ tick'.call \notin Threads
         \/ reply'[tick'.call] = "none",
         \A j \in Jobs \ swallowed' : tick'.job = j /\ tick'.seen \in Terminal => Shut(j)',
         \A j \in Jobs : Near(j)' => Near(j),
         tick'.at = "activate" => tick'.job = tick.job /\ (tick.at = "activate" \/ TargetOf[tick.job] \in gated),
         TickKnows'
  PROVE  GateInv'
  <1>1. ASSUME NEW j \in Jobs PROVE Lasting(j)
    BY <1>1, SteadyLasts DEF Steady
  <1>2. ASSUME NEW j \in Jobs PROVE EarlyOK(j)'
    BY <1>1 DEF GateInv, EarlyOK, Lasting
  <1>3. ASSUME NEW j \in Jobs, j \notin swallowed' PROVE ClosedOK(j)'
    <2>1. ClosedOK(j)
      BY <1>3 DEF GateInv, Stays
    <2>2. ASSUME NEW t \in Threads, reply'[t] \in Terminal,
                 NEW c \in {tick', cancelling'}, c.job = j, c.call = t
          PROVE  Shut(j)'
      BY <1>1, <2>1, <2>2 DEF ClosedOK, Lasting, NoNews, Terminal
    <2>3. tick'.job = j /\ tick'.seen \in Terminal => Shut(j)'
      BY <1>3
    <2>4. tick'.job = j /\ tick'.at = "activate" /\ ~Shut(j)' => TargetOf[j] \in gated'
      BY <1>1, <2>1 DEF ClosedOK, Lasting
    <2>5. /\ saved'[j].status \in Terminal => Closed(j)'
          /\ copy'[j].status \in Terminal => Closed(j)'
          /\ TargetOf[j] \in changing' => saved'[j].status = "absent" \/ Closed(j)'
          /\ Serving(j)' => TargetOf[j] \in gated'
      BY <1>1, <2>1 DEF ClosedOK, Lasting
    <2>6. cancelling'.at # "rest" /\ cancelling'.job = j /\ cancelling'.own.status \in Terminal => Closed(j)'
      BY <1>1, <2>1 DEF ClosedOK, Lasting
    <2> QED
      BY <2>2, <2>3, <2>4, <2>5, <2>6 DEF ClosedOK
  <1> QED
    BY <1>2, <1>3 DEF GateInv

\* The tick writes its job down.
LEMMA TickSavesGate ==
  ASSUME PortalInv, GateInv, \A j \in Jobs : Stays(j), UNCHANGED <<cancelling, cloning, changing, gated>>,
         NoNews, NEW j \in Jobs, tick.job = j, tick.at # "rest",
         saved' \in [Jobs -> JobRecs], \A k \in Jobs \ {j} : saved'[k] = saved[k] /\ copy'[k] = copy[k],
         copy'[j] = saved'[j], saved[j].cancel => saved'[j].cancel,
         saved'[j].status # "absent", copy[j].status # "absent",
         saved'[j].status \in Early => copy[j].status \in Early,
         saved'[j].status \in Terminal /\ j \notin swallowed' => Closed(j)',
         tick'.at \in {"next", "status", "register"}, tick'.todo = tick.todo, tick'.call = NoThread,
         tick'.at = "next" => tick'.seen = "none",
         tick'.at # "next" => tick'.seen = tick.seen /\ tick'.job = j,
         tick'.at = "status" => saved'[j].status \notin Early
  PROVE  GateInv'
  <1>1. ASSUME NEW k \in Jobs PROVE Lasting(k)
    BY <1>1, SteadyLasts DEF Steady, Near
  <1>2. TickKnows'
    BY DEF TickKnows
  <1>3. ASSUME NEW k \in Jobs PROVE EarlyOK(k)'
    <2>1. CASE k # j
      BY <1>1, <2>1 DEF GateInv, EarlyOK, Lasting
    <2>2. CASE k = j
      BY <1>1, <2>2 DEF GateInv, EarlyOK, Lasting
    <2> QED
      BY <2>1, <2>2
  <1>4. ASSUME NEW k \in Jobs, k \notin swallowed' PROVE ClosedOK(k)'
    <2>1. ClosedOK(k)
      BY <1>4 DEF GateInv, Stays
    <2>2. ASSUME NEW t \in Threads, reply'[t] \in Terminal,
                 NEW c \in {tick', cancelling'}, c.job = k, c.call = t
          PROVE  Shut(k)'
      BY <1>1, <2>1, <2>2, HostingConstants DEF ClosedOK, Lasting, NoNews
    <2>3. tick'.seen \in Terminal /\ tick'.job = k => Shut(k)'
      BY <1>1, <2>1 DEF ClosedOK, Lasting, Terminal
    <2>4. TargetOf[k] \in changing' => saved'[k].status = "absent" \/ Closed(k)'
      <3>1. CASE k # j
        BY <1>1, <2>1, <3>1 DEF ClosedOK, Lasting
      <3>2. CASE k = j
        <4>1. saved[k].status # "absent"
          BY <3>2 DEF GateInv, EarlyOK
        <4> QED
          BY <1>1, <2>1, <4>1 DEF ClosedOK, Lasting
      <3> QED
        BY <3>1, <3>2
    <2>5. /\ saved'[k].status \in Terminal => Closed(k)'
          /\ copy'[k].status \in Terminal => Closed(k)'
          /\ Serving(k)' => TargetOf[k] \in gated'
      BY <1>1, <1>4, <2>1 DEF ClosedOK, Lasting
    <2> QED
      BY <1>1, <2>1, <2>2, <2>3, <2>4, <2>5 DEF ClosedOK, Lasting
  <1> QED
    BY <1>2, <1>3, <1>4 DEF GateInv

\* A tick begins and ends.
LEMMA TickStartGate ==
  ASSUME PortalInv, GateInv, UNCHANGED vars, TickStart \/ TickEnd
  PROVE  GateInv'
  <1>1. /\ UNCHANGED <<saved, gated, cancelling, cloning, changing, reply, swallowed>>
        /\ tick'.call = NoThread /\ tick'.seen = "none" /\ tick'.at \in {"rest", "next"}
        /\ tick'.at # "rest" => copy' = saved /\ \A j \in tick'.todo : saved[j] # Absent
    <2>1. CASE TickStart
      <3>1. PICK todo : todo = {j \in Jobs : saved[j] # Absent}
        BY Zenon
      <3>2. tick' = [at |-> "next", todo |-> todo, job |-> NoJob, call |-> NoThread, seen |-> "none"]
        BY Zenon, <2>1, <3>1 DEF TickStart, Resting
      <3>3. \A j \in todo : saved[j] # Absent
        BY <3>1
      <3>4. /\ UNCHANGED <<saved, gated, cancelling, cloning, changing, reply>> /\ copy' = saved
        BY <2>1 DEF TickStart
      <3>5. swallowed' = swallowed
        BY DEF vars
      <3>6. /\ tick'.call = NoThread /\ tick'.seen = "none" /\ tick'.at = "next" /\ tick'.todo = todo
        BY <3>2
      <3> QED
        BY <3>3, <3>4, <3>5, <3>6
    <2>2. CASE TickEnd
      BY <2>2 DEF TickEnd, Resting, vars
    <2> QED
      BY <2>1, <2>2
  <1>2. ASSUME NEW j \in Jobs PROVE Lasting(j)
    BY <1>1, SteadyLasts, UntouchedOperator DEF Steady, Near
  <1>3. TickKnows'
    BY <1>1 DEF TickKnows
  <1>4. ASSUME NEW j \in Jobs PROVE EarlyOK(j)'
    <2>1. EarlyOK(j)
      BY DEF GateInv
    <2>2. /\ saved'[j].status \in Early => Inactive(j)'
          /\ saved'[j].status = "absent" => saved'[j] = Absent
          /\ j \in cloning' => TargetOf[j] \notin changing'
      BY <1>1, <1>2, <2>1 DEF EarlyOK, Lasting
    <2>3. cancelling'.at # "rest" /\ cancelling'.job = j =>
          /\ cancelling'.own.status \in Early => Inactive(j)'
          /\ cancelling'.own.status # "absent" /\ saved'[j].status # "absent"
      BY <1>1, <1>2, <2>1 DEF EarlyOK, Lasting
    <2> QED
      BY <1>1, <2>1, <2>2, <2>3 DEF EarlyOK
  <1>5. ASSUME NEW j \in Jobs, j \notin swallowed' PROVE ClosedOK(j)'
    <2>1. ClosedOK(j)
      BY <1>1, <1>5 DEF GateInv
    <2> QED
      BY <1>1, <1>2, <2>1, HostingConstants DEF ClosedOK, Lasting, Terminal
  <1> QED
    BY <1>3, <1>4, <1>5 DEF GateInv

\* The tick takes a job it read when it began.
LEMMA TickJobGate ==
  ASSUME PortalInv, GateInv, UNCHANGED vars, NEW j \in Jobs, TickJob(j)
  PROVE  GateInv'
  <1>1. /\ UNCHANGED <<saved, copy, cancelling, gated, cloning, changing, reply>>
        /\ tick.at = "next" /\ tick'.todo = tick.todo \ {j} /\ j \in tick.todo
        /\ tick'.call = tick.call /\ tick'.seen = tick.seen
        /\ \/ tick'.at = "next" /\ tick'.job = tick.job
           \/ tick'.at = "gate" /\ tick'.job = j
           \/ tick'.at = "status" /\ tick'.job = j /\ copy[j].status # "authorized"
    BY DEF TickJob, PortalInv, PortalTypeOK, Ticks
  <1>2. tick.seen = "none" /\ tick.call = NoThread /\ copy[j].status # "absent" /\ NoNews
    BY <1>1 DEF GateInv, TickKnows, EarlyOK, PortalInv, WorkingOK, NoNews
  <1>3. TickKnows'
    BY <1>1, <1>2 DEF GateInv, TickKnows, Early
  <1>4. \A k \in Jobs : Near(k)' => Near(k)
    BY <1>1 DEF Near
  <1> QED
    BY <1>1, <1>2, <1>3, <1>4, UntouchedOperator, TickMovesGate, HostingConstants DEF Terminal

\* The catch clause.
LEMMA CaughtGate ==
  ASSUME PortalInv, GateInv, UNCHANGED vars, tick.at \in Waits \cup {"register"}, TickCaught, NoNews,
         UNCHANGED <<cancelling, cloning, changing, gated>>
  PROVE  GateInv'
  <1>1. PICK j \in Jobs : j = tick.job
    BY DEF PortalInv, WorkingOK, Waits
  <1>2. PICK job \in JobRecs : job = copy[j]
    BY <1>1 DEF PortalInv, PortalTypeOK
  <1>3. /\ saved' \in [Jobs -> JobRecs]
        /\ saved'[j].status = job.status
        /\ saved'[j].cancel <=> job.cancel \/ saved[j].cancel
        /\ \A k \in Jobs \ {j} : saved'[k] = saved[k]
    BY <1>1, <1>2, SaveFields DEF TickCaught, PortalInv, PortalTypeOK
  <1>4. copy'[j] = saved'[j] /\ \A k \in Jobs \ {j} : copy'[k] = copy[k]
    BY <1>1, <1>3, CopyFields DEF TickCaught, PortalInv, PortalTypeOK
  <1>5. /\ tick'.at = "next" /\ tick'.todo = tick.todo /\ tick'.call = NoThread /\ tick'.seen = "none"
    BY DEF TickCaught, TickNext, PortalInv, PortalTypeOK, Ticks
  <1>6. job.status # "absent"
    BY <1>1, <1>2 DEF GateInv, TickKnows, PortalInv, TickOK, Waits, Early
  <1>7. Lasting(j)
    BY <1>3, <1>5, SteadyLasts, UntouchedOperator DEF Steady, Near
  <1>8. j \notin swallowed' /\ job.status \in Terminal => Closed(j)'
    BY <1>2, <1>7 DEF GateInv, ClosedOK, Lasting, vars, Waits
  <1> QED
    BY <1>1, <1>2, <1>3, <1>4, <1>5, <1>6, <1>8, TickSavesGate, UntouchedOperator DEF Waits

\* Only a receipt brings an activation near, and it finds Access.
LEMMA TickReceiptGate ==
  ASSUME PortalInv, GateInv, TickReceipt
  PROVE  GateInv'
  <1>1. /\ tick.at \in {"receipt", "receipt2"} /\ NoNews
        /\ UNCHANGED <<cancelling, cloning, changing, gated>> /\ UNCHANGED vars
    BY DEF TickReceipt, TickAt, NoNews
  <1>2. CASE TickCaught
    BY <1>1, <1>2, CaughtGate DEF Waits
  <1>3. CASE ~TickCaught
    <2>1. UNCHANGED <<saved, copy>> /\ TickGoto(IF tick.at = "receipt" THEN "clone" ELSE "activate")
          /\ TargetOf[tick.job] \in gated
      BY <1>3 DEF TickReceipt
    <2>2. PICK step \in {"clone", "activate"} :
             step = IF tick.at = "receipt" THEN "clone" ELSE "activate"
      OBVIOUS
    <2>3. GoesTo(step) /\ tick'.todo = tick.todo
      BY Zenon, <2>1, <2>2, GotoPlace DEF TickPcs, PortalInv, PortalTypeOK, TickGoto, Ticks
    <2>4. TickKnows'
      BY <1>1, <2>1, <2>2, <2>3 DEF GateInv, TickKnows, GoesTo
    <2>5. \A k \in Jobs : Near(k)' => Near(k)
      BY <1>1, <2>2, <2>3 DEF Near, GoesTo
    <2>6. \A k \in Jobs \ swallowed' : tick'.job = k /\ tick'.seen \in Terminal => Shut(k)'
      <3>1. ASSUME NEW k \in Jobs \ swallowed', tick'.job = k, tick'.seen \in Terminal PROVE Shut(k)'
        <4>1. Shut(k)
          BY <1>1, <2>3, <3>1 DEF GateInv, ClosedOK, GoesTo, vars
        <4> QED
          BY <1>1, <4>1, UntouchedOperator DEF Stays, Shut
      <3> QED
        BY <3>1
    <2> QED
      BY <1>1, <2>1, <2>2, <2>3, <2>4, <2>5, <2>6, UntouchedOperator, TickMovesGate DEF GoesTo
  <1> QED
    BY <1>2, <1>3

\* The tick goes on without a look at the operator.
LEMMA TickGoesGate ==
  ASSUME PortalInv, GateInv, UNCHANGED vars, tick.at \in Waits \cup {"register"},
         UNCHANGED <<saved, copy, cancelling, cloning, changing, reply>>, gated \subseteq gated',
         NEW step \in {"receipt", "sent", "cancel", "settle", "mark"},
         tick'.at = step, tick'.job = tick.job, tick'.call = tick.call, tick'.seen = tick.seen,
         tick'.todo = tick.todo,
         step \in {"cancel", "settle"} => tick.at \in {"decide", "wait"}
  PROVE  GateInv'
  <1>1. TickKnows'
    BY DEF GateInv, TickKnows
  <1>2. \A k \in Jobs : Near(k)' => Near(k)
    BY DEF Near
  <1>3. \A k \in Jobs \ swallowed' : tick'.job = k /\ tick'.seen \in Terminal => Shut(k)'
    <2>1. ASSUME NEW k \in Jobs \ swallowed', tick'.job = k, tick'.seen \in Terminal PROVE Shut(k)'
      <3>1. Shut(k)
        BY <2>1 DEF GateInv, ClosedOK, vars
      <3> QED
        BY <3>1, UntouchedOperator DEF Stays, Shut
    <2> QED
      BY <2>1
  <1> QED
    BY <1>1, <1>2, <1>3, UntouchedOperator, TickMovesGate DEF NoNews, Waits

\* Access is set up before the clone.
LEMMA TickGateGate ==
  ASSUME PortalInv, GateInv, TickGate
  PROVE  GateInv'
  <1>1. GoesTo("receipt") /\ tick'.todo = tick.todo /\ UNCHANGED vars
    BY GotoPlace DEF TickGate, TickGoto, TickPcs, PortalInv, PortalTypeOK, Ticks
  <1> QED
    BY <1>1, TickGoesGate DEF TickGate, TickAt, Waits, GoesTo

\* A job that was cancelled before it was sent has no activation.
LEMMA TickCloneGate ==
  ASSUME PortalInv, GateInv, TickClone
  PROVE  GateInv'
  <1>1. PICK j \in Jobs : j = tick.job
    BY DEF TickClone, TickAt, PortalInv, WorkingOK
  <1>2. /\ tick.at = "clone" /\ UNCHANGED <<cancelling, cloning, changing, gated, reply>>
        /\ UNCHANGED vars /\ tick.call = NoThread /\ copy[j].status = "authorized"
    BY <1>1 DEF TickClone, TickAt, PortalInv, WorkingOK, TickOK
  <1>3. CASE saved[j].cancel
    <2>1. PICK job \in JobRecs : job = [copy[j] EXCEPT !.status = "cancelled"]
      BY Zenon DEF PortalInv, PortalTypeOK, JobRecs, JobStatuses, Statuses
    <2>2. /\ Save(j, job) /\ copy' = [copy EXCEPT ![j] = saved'[j]] /\ TickNext
          /\ job.status = "cancelled"
      BY <1>1, <1>3, <2>1 DEF TickClone, PortalInv, PortalTypeOK, JobRecs
    <2>3. /\ saved' \in [Jobs -> JobRecs]
          /\ saved'[j].status = job.status
          /\ saved'[j].cancel <=> job.cancel \/ saved[j].cancel
          /\ \A k \in Jobs \ {j} : saved'[k] = saved[k]
      BY Zenon, <2>1, <2>2, SaveFields DEF PortalInv, PortalTypeOK
    <2>4. copy'[j] = saved'[j] /\ \A k \in Jobs \ {j} : copy'[k] = copy[k]
      BY <2>2, <2>3, CopyFields DEF PortalInv, PortalTypeOK
    <2>5. tick'.at = "next" /\ tick'.todo = tick.todo /\ tick'.call = NoThread /\ tick'.seen = "none"
      BY <2>2 DEF TickNext, PortalInv, PortalTypeOK, Ticks
    <2>6. Closed(j)'
      <3>1. Inactive(j)
        BY <1>1, <1>2 DEF GateInv, EarlyOK, Early
      <3>2. ~Serving(j)'
        BY <1>2, <3>1, ClosedNotServing, UntouchedOperator DEF Stays
      <3>3. ~Near(j)'
        BY <2>5 DEF Near
      <3> QED
        BY <1>3, <2>3, <3>2, <3>3 DEF Closed
    <2> QED
      BY <1>1, <1>2, <1>3, <2>2, <2>3, <2>4, <2>5, <2>6, TickSavesGate, UntouchedOperator
         DEF Early, NoNews
  <1>4. CASE ~saved[j].cancel
    <2>1. TickGoto("sent") /\ UNCHANGED <<saved, copy>>
      BY <1>1, <1>4 DEF TickClone
    <2>2. GoesTo("sent") /\ tick'.todo = tick.todo
      BY <2>1, GotoPlace DEF TickPcs, PortalInv, PortalTypeOK, TickGoto, Ticks
    <2> QED
      BY <1>2, <2>1, <2>2, TickGoesGate DEF GoesTo, Waits
  <1> QED
    BY <1>3, <1>4

\* A row that ended is the row of a job the operator is through with.
LEMMA EndedIsShut ==
  ASSUME NEW j \in Jobs, ServeOK(j), j \notin swallowed, row[j].status \in Terminal
  PROVE  Shut(j)
  BY DEF ServeOK, EndedOK, Shut, Over, Terminal

\* What the tick hears that ended is over.
LEMMA TickSentGate ==
  ASSUME PortalInv, GateInv, TickSent, \A j \in Jobs : Stays(j) /\ ServeOK(j)'
  PROVE  GateInv'
  <1>1. PICK j \in Jobs : j = tick.job
    BY DEF TickSent, TickAt, PortalInv, WorkingOK
  <1>2. /\ tick.at = "sent" /\ UNCHANGED <<saved, copy, cancelling, gated, cloning, changing, reply>>
        /\ tick'.at = "cloned" /\ tick'.job = j /\ tick'.call = tick.call /\ tick'.todo = tick.todo
        /\ tick'.seen = row'[j].status
    BY <1>1 DEF TickSent, TickAt, PortalInv, PortalTypeOK, Ticks
  <1>3. TickKnows' /\ NoNews /\ \A k \in Jobs : Near(k)' => Near(k)
    BY <1>2 DEF GateInv, TickKnows, NoNews, Near
  <1>4. \A k \in Jobs \ swallowed' : tick'.job = k /\ tick'.seen \in Terminal => Shut(k)'
    BY <1>2 DEF ServeOK, EndedOK, Shut, Over, Terminal
  <1> QED
    BY <1>1, <1>2, <1>3, <1>4, TickMovesGate

LEMMA TickStatusGate ==
  ASSUME PortalInv, GateInv, ServeInv, TickStatus
  PROVE  GateInv'
  <1>1. PICK j \in Jobs : j = tick.job
    BY DEF TickStatus, TickAt, PortalInv, WorkingOK
  <1>2. /\ tick.at = "status" /\ UNCHANGED <<saved, copy, cancelling, gated, cloning, changing, reply>>
        /\ tick'.at = "decide" /\ tick'.job = j /\ tick'.call = tick.call /\ tick'.todo = tick.todo
        /\ tick'.seen = row[j].status /\ UNCHANGED vars
    BY <1>1 DEF TickStatus, TickAt, PortalInv, PortalTypeOK, Ticks
  <1>3. TickKnows' /\ NoNews /\ \A k \in Jobs : Near(k)' => Near(k)
    BY <1>1, <1>2 DEF GateInv, TickKnows, NoNews, Near
  <1>4. ASSUME NEW k \in Jobs \ swallowed', tick'.job = k, tick'.seen \in Terminal PROVE Shut(k)'
    <2>1. Shut(k)
      BY <1>1, <1>2, <1>4, EndedIsShut DEF vars, ServeInv
    <2> QED
      BY <1>2, <2>1, UntouchedOperator DEF Stays, Shut
  <1> QED
    BY <1>1, <1>2, <1>3, <1>4, TickMovesGate, UntouchedOperator

\* What it heard is written down.
LEMMA TickClonedGate ==
  ASSUME PortalInv, GateInv, TickCloned
  PROVE  GateInv'
  <1>1. PICK j \in Jobs : j = tick.job
    BY DEF TickCloned, TickAt, PortalInv, WorkingOK
  <1>2. PICK job \in JobRecs : job = [copy[j] EXCEPT !.status = tick.seen]
    BY Zenon DEF PortalInv, PortalTypeOK, JobRecs, JobStatuses, Ticks
  <1>3. /\ tick.at = "cloned" /\ UNCHANGED <<cancelling, cloning, changing, gated, reply>>
        /\ UNCHANGED vars /\ tick.call = NoThread /\ copy[j].status = "authorized"
        /\ Save(j, job) /\ copy' = [copy EXCEPT ![j] = saved'[j]]
        /\ job.status = tick.seen
    BY <1>1, <1>2 DEF TickCloned, TickAt, PortalInv, PortalTypeOK, WorkingOK, TickOK, JobRecs
  <1>4. /\ saved' \in [Jobs -> JobRecs]
        /\ saved'[j].status = job.status
        /\ saved'[j].cancel <=> job.cancel \/ saved[j].cancel
        /\ \A k \in Jobs \ {j} : saved'[k] = saved[k]
    BY <1>3, SaveFields DEF PortalInv, PortalTypeOK
  <1>5. copy'[j] = saved'[j] /\ \A k \in Jobs \ {j} : copy'[k] = copy[k]
    BY <1>3, <1>4, CopyFields DEF PortalInv, PortalTypeOK
  <1>6. GoesTo("status") /\ tick'.todo = tick.todo
    BY GotoPlace DEF TickCloned, TickPcs, PortalInv, PortalTypeOK, TickGoto, Ticks
  <1>7. tick.seen \notin Early
    BY DEF PortalInv, PortalTypeOK, Ticks, Statuses, InFlight, Early
  <1>8. ASSUME j \notin swallowed', tick.seen \in Terminal PROVE Closed(j)'
    <2>1. Shut(j)
      BY <1>1, <1>3, <1>8 DEF GateInv, ClosedOK, vars
    <2> QED
      BY <1>3, <2>1, UntouchedOperator DEF Stays, Shut, Closed
  <1> QED
    BY <1>1, <1>3, <1>4, <1>5, <1>6, <1>7, <1>8, TickSavesGate, UntouchedOperator
       DEF Early, NoNews, GoesTo

\* The decision: nothing of a cancelled job comes near an activation.
LEMMA TickDecideGate ==
  ASSUME PortalInv, GateInv, TickDecide
  PROVE  GateInv'
  <1>1. /\ tick.at = "decide" /\ UNCHANGED <<saved, copy, cancelling, cloning, changing, reply, gated>>
        /\ UNCHANGED vars
    BY DEF TickDecide, TickAt
  <1>2. PICK step \in {"cancel", "receipt2", "settle"} :
           /\ TickGoto(step)
           /\ step # "cancel" => ~saved[tick.job].cancel
    BY DEF TickDecide
  <1>3. GoesTo(step) /\ tick'.todo = tick.todo
    BY Zenon, <1>2, GotoPlace DEF TickPcs, PortalInv, PortalTypeOK, TickGoto, Ticks
  <1>4. CASE step # "receipt2"
    BY <1>1, <1>2, <1>3, <1>4, TickGoesGate DEF Waits, GoesTo
  <1>5. CASE step = "receipt2"
    <2>1. PICK j \in Jobs : j = tick.job
      BY <1>1 DEF PortalInv, WorkingOK
    <2>2. /\ ~saved[j].cancel /\ copy[j].status \notin Early
          /\ ~(cancelling.at # "rest" /\ cancelling.job = j)
      BY <1>1, <1>2, <1>5, <2>1 DEF GateInv, TickKnows, PortalInv, OwnOK
    <2>3. saved[j].status \notin Early
      BY <1>1, <2>2 DEF GateInv, EarlyOK
    <2>4. ASSUME NEW k \in Jobs, k # j PROVE Lasting(k)
      BY <1>1, <1>3, <2>1, <2>4, SteadyLasts, UntouchedOperator DEF Steady, Near, GoesTo
    <2>5. Shut(j) => Shut(j)'
      BY <1>1, UntouchedOperator DEF Stays, Shut
    <2>6. Serving(j)' => Serving(j)
      BY <1>1, UntouchedOperator DEF Stays
    <2>7. Closed(j) => Closed(j)'
      BY <2>2, <2>5 DEF Closed
    <2>8. TickKnows'
      BY <1>1, <1>3, <1>5 DEF GateInv, TickKnows, GoesTo
    <2>9. ASSUME NEW k \in Jobs PROVE EarlyOK(k)'
      <3>1. CASE k # j
        BY <1>1, <1>3, <2>4, <3>1 DEF GateInv, EarlyOK, Lasting
      <3>2. CASE k = j
        BY <1>1, <1>3, <2>2, <2>3, <3>2 DEF GateInv, EarlyOK, Early
      <3> QED
        BY <3>1, <3>2
    <2>10. ASSUME NEW k \in Jobs, k \notin swallowed' PROVE ClosedOK(k)'
      <3>1. ClosedOK(k) /\ tick'.at = "receipt2" /\ tick'.job = tick.job /\ tick'.call = tick.call
            /\ tick'.seen = tick.seen
        BY <1>1, <1>3, <1>5, <2>10 DEF GateInv, vars, GoesTo
      <3>2. (Shut(k) => Shut(k)') /\ (Closed(k) => Closed(k)') /\ (Serving(k)' => Serving(k))
        BY <2>4, <2>5, <2>6, <2>7 DEF Lasting
      <3>3. ASSUME NEW t \in Threads, reply'[t] \in Terminal,
                   NEW c \in {tick', cancelling'}, c.job = k, c.call = t
            PROVE  Shut(k)'
        BY <1>1, <3>1, <3>2, <3>3 DEF ClosedOK
      <3> QED
        BY <1>1, <3>1, <3>2, <3>3 DEF ClosedOK
    <2> QED
      BY <2>8, <2>9, <2>10 DEF GateInv
  <1> QED
    BY <1>4, <1>5

\* A cancel of the tick begins, with no answer yet.
LEMMA TickCancelGate ==
  ASSUME PortalInv, GateInv, \A j \in Jobs : Stays(j), NEW t \in Threads, TickCancel(t)
  PROVE  GateInv'
  <1>1. /\ tick.at = "cancel" /\ UNCHANGED <<saved, copy, cancelling, gated, cloning, changing, reply>>
        /\ tick'.at = "wait" /\ tick'.job = tick.job /\ tick'.call = t /\ tick'.todo = tick.todo
        /\ tick'.seen = tick.seen /\ reply[t] = "none" /\ cancelling.call # t /\ swallowed' = swallowed
    BY DEF TickCancel, TickAt, Free, Waited, CancelRead, PortalInv, PortalTypeOK, Ticks
  <1>2. TickKnows' /\ NoNews /\ \A k \in Jobs : Near(k)' => Near(k)
    BY <1>1 DEF GateInv, TickKnows, NoNews, Near
  <1>3. ASSUME NEW k \in Jobs \ swallowed', tick'.job = k, tick'.seen \in Terminal PROVE Shut(k)'
    BY <1>1, <1>3 DEF GateInv, ClosedOK, Stays, Shut
  <1> QED
    BY <1>1, <1>2, <1>3, TickMovesGate

\* An activation begins, behind Access and before the portal lets go.
LEMMA TickActivateGate ==
  ASSUME Inv, CallsOK, PortalInv, GateInv, ServeInv, NEW t \in Threads, TickActivate(t)
  PROVE  GateInv'
  <1>1. PICK j \in Jobs : j = tick.job
    BY DEF TickActivate, TickAt, PortalInv, WorkingOK
  <1>2. /\ tick.at = "activate" /\ UNCHANGED <<saved, copy, cancelling, gated, cloning, changing, reply>>
        /\ tick'.at = "wait" /\ tick'.job = j /\ tick'.call = t /\ tick'.todo = tick.todo
        /\ tick'.seen = tick.seen /\ reply[t] = "none" /\ cancelling.call # t
        /\ ActivateBegin(t, j)
    BY <1>1 DEF TickActivate, TickAt, Free, Waited, PortalInv, PortalTypeOK, Ticks
  <1>3. /\ \A k \in Jobs \ {j} : Stays(k)
        /\ row[j].status = "staged" /\ UNCHANGED swallowed
    BY <1>2, ActivateBeginServe DEF ServeInv
  <1>4. TickKnows'
    BY <1>1, <1>2 DEF GateInv, TickKnows
  <1>5. ASSUME NEW k \in Jobs, k # j PROVE Lasting(k)
    BY <1>2, <1>3, <1>5, SteadyLasts DEF Steady, Near
  <1>6. ~Shut(j) /\ ~Inactive(j) /\ ~Closed(j)
    BY <1>1, <1>2, <1>3 DEF Shut, Over, Inactive, Near, Closed
  <1>7. ASSUME NEW k \in Jobs PROVE EarlyOK(k)'
    <2>1. EarlyOK(k)
      BY DEF GateInv
    <2>2. CASE k # j
      BY <1>2, <1>5, <2>1, <2>2 DEF EarlyOK, Lasting
    <2>3. CASE k = j
      BY <1>2, <1>6, <2>1, <2>3 DEF EarlyOK
    <2> QED
      BY <2>2, <2>3
  <1>8. ASSUME NEW k \in Jobs, k \notin swallowed' PROVE ClosedOK(k)'
    <2>1. ClosedOK(k) /\ EarlyOK(k)
      BY <1>3, <1>8 DEF GateInv
    <2>2. CASE k # j
      <3>1. ASSUME NEW u \in Threads, reply'[u] \in Terminal,
                   NEW c \in {tick', cancelling'}, c.job = k, c.call = u
            PROVE  Shut(k)'
        BY <1>2, <1>5, <2>1, <2>2, <3>1 DEF ClosedOK, Lasting
      <3> QED
        BY <1>1, <1>2, <1>5, <2>1, <2>2, <3>1 DEF ClosedOK, Lasting
    <2>3. CASE k = j
      <3>1. ASSUME NEW u \in Threads, reply'[u] \in Terminal,
                   NEW c \in {tick', cancelling'}, c.job = k, c.call = u
            PROVE  Shut(k)'
        <4>1. CASE c = cancelling
          BY <1>2, <1>6, <2>1, <2>3, <3>1, <4>1 DEF ClosedOK
        <4>2. CASE c = tick'
          BY <1>2, <3>1, <4>2 DEF Terminal
        <4> QED
          BY <1>2, <3>1, <4>1, <4>2
      <3>2. TargetOf[j] \notin changing
        BY <1>6, <2>1, <2>3 DEF ClosedOK, EarlyOK, Early
      <3> QED
        BY <1>1, <1>2, <1>6, <2>1, <2>3, <3>1, <3>2 DEF ClosedOK
    <2> QED
      BY <2>2, <2>3
  <1> QED
    BY <1>4, <1>7, <1>8 DEF GateInv

\* The ways to the catch clause.
LEMMA TickCaughtGate ==
  ASSUME PortalInv, GateInv, TickRefused \/ TickGivesUp \/ TickRegisterFails
  PROVE  GateInv'
  <1>1. /\ tick.at \in Waits \cup {"register"} /\ TickCaught /\ UNCHANGED vars
        /\ UNCHANGED <<cancelling, cloning, changing, gated>>
    BY DEF TickRefused, TickGivesUp, TickRegisterFails, TickAt, Waits
  <1>2. NoNews
    BY DEF TickRefused, TickGivesUp, TickRegisterFails, NoNews, Terminal
  <1> QED
    BY <1>1, <1>2, CaughtGate

\* The answer of cancel or activate is what the row said after it.
LEMMA TickAnsweredGate ==
  ASSUME PortalInv, GateInv, TickAnswered
  PROVE  GateInv'
  <1>1. PICK j \in Jobs : j = tick.job
    BY DEF TickAnswered, TickAt, PortalInv, WorkingOK
  <1>2. /\ tick.at = "wait" /\ UNCHANGED vars /\ tick.call \in Threads
        /\ UNCHANGED <<cancelling, cloning, changing, gated>> /\ NoNews
    BY HostingConstants
       DEF TickAnswered, TickAt, NoNews, Terminal, PortalInv, PortalTypeOK, WorkingOK, Ticks
  <1>3. CASE reply[tick.call] = "error"
    BY <1>2, <1>3, CaughtGate DEF TickAnswered, Waits
  <1>4. CASE reply[tick.call] # "error"
    <2>1. UNCHANGED <<saved, copy>>
      BY <1>4 DEF TickAnswered
    <2>2. PICK step \in {"cancel", "settle"} : step = AfterCall(reply[tick.call], saved[tick.job].cancel)
      BY DEF AfterCall
    <2>3. /\ tick'.at = step /\ tick'.job = j /\ tick'.call = NoThread /\ tick'.seen = reply[tick.call]
          /\ tick'.todo = tick.todo
      <3>1. PICK seen : seen = reply[tick.call]
        OBVIOUS
      <3>2. tick' = [tick EXCEPT !.call = NoThread, !.seen = seen, !.at = step]
        BY <1>4, <2>2, <3>1 DEF TickAnswered
      <3> QED
        BY <1>1, <3>1, <3>2 DEF PortalInv, PortalTypeOK, Ticks
    <2>4. TickKnows' /\ \A k \in Jobs : Near(k)' => Near(k)
      BY <1>1, <1>2, <2>1, <2>3 DEF GateInv, TickKnows, Near
    <2>5. ASSUME NEW k \in Jobs \ swallowed', tick'.job = k, tick'.seen \in Terminal PROVE Shut(k)'
      <3>1. Shut(k)
        BY Zenon, <1>1, <1>2, <2>3, <2>5 DEF GateInv, ClosedOK, vars
      <3> QED
        BY <1>2, <3>1, UntouchedOperator DEF Stays, Shut
    <2> QED
      BY <1>2, <2>1, <2>3, <2>4, <2>5, TickMovesGate, UntouchedOperator, HostingConstants
  <1> QED
    BY <1>3, <1>4

\* The row is written down, then the catalog, then the mark.
LEMMA TickSettleGate ==
  ASSUME PortalInv, GateInv, TickSettle
  PROVE  GateInv'
  <1>1. PICK j \in Jobs : j = tick.job
    BY DEF TickSettle, PortalInv, WorkingOK
  <1>2. PICK job \in JobRecs : job = [copy[j] EXCEPT !.status = tick.seen]
    BY Zenon DEF PortalInv, PortalTypeOK, JobRecs, JobStatuses, Ticks
  <1>3. /\ tick.at = "settle" /\ UNCHANGED <<cancelling, cloning, changing, gated, reply>>
        /\ UNCHANGED vars /\ tick.call = NoThread /\ copy[j].status \notin Early
        /\ Save(j, job) /\ copy' = [copy EXCEPT ![j] = saved'[j]]
        /\ job.status = tick.seen
        /\ TickGoto("register") \/ TickNext
    BY <1>1, <1>2 DEF TickSettle, PortalInv, PortalTypeOK, WorkingOK, GateInv, TickKnows, JobRecs
  <1>4. /\ saved' \in [Jobs -> JobRecs]
        /\ saved'[j].status = job.status
        /\ saved'[j].cancel <=> job.cancel \/ saved[j].cancel
        /\ \A k \in Jobs \ {j} : saved'[k] = saved[k]
    BY <1>3, SaveFields DEF PortalInv, PortalTypeOK
  <1>5. copy'[j] = saved'[j] /\ \A k \in Jobs \ {j} : copy'[k] = copy[k]
    BY <1>3, <1>4, CopyFields DEF PortalInv, PortalTypeOK
  <1>6. /\ tick'.at \in {"next", "register"} /\ tick'.todo = tick.todo /\ tick'.call = NoThread
        /\ tick'.at = "next" => tick'.seen = "none"
        /\ tick'.at = "register" => tick'.seen = tick.seen /\ tick'.job = j
    BY Zenon, <1>1, <1>3 DEF TickGoto, TickNext, PortalInv, PortalTypeOK, Ticks
  <1>7. tick.seen \notin Early
    BY DEF PortalInv, PortalTypeOK, Ticks, Statuses, InFlight, Early
  <1>8. ASSUME j \notin swallowed', tick.seen \in Terminal PROVE Closed(j)'
    <2>1. Shut(j)
      BY <1>1, <1>3, <1>8 DEF GateInv, ClosedOK, vars
    <2> QED
      BY <1>3, <2>1, UntouchedOperator DEF Stays, Shut, Closed
  <1> QED
    BY <1>1, <1>3, <1>4, <1>5, <1>6, <1>7, <1>8, TickSavesGate, UntouchedOperator
       DEF Early, NoNews

LEMMA TickRegisterGate ==
  ASSUME PortalInv, GateInv, TickRegister
  PROVE  GateInv'
  <1>1. /\ tick.at = "register" /\ UNCHANGED vars
        /\ UNCHANGED <<saved, copy, cancelling, cloning, changing, reply, gated>>
        /\ tick.call = NoThread
    BY DEF TickRegister, PortalInv, WorkingOK
  <1>2. CASE TickGoto("mark")
    <2>1. GoesTo("mark") /\ tick'.todo = tick.todo
      BY <1>2, GotoPlace DEF TickPcs, PortalInv, PortalTypeOK, TickGoto, Ticks
    <2> QED
      BY <1>1, <2>1, TickGoesGate DEF GoesTo
  <1>3. CASE TickNext
    <2>1. tick'.at = "next" /\ tick'.call = NoThread /\ tick'.seen = "none" /\ tick'.todo = tick.todo
      BY <1>3 DEF TickNext, PortalInv, PortalTypeOK, Ticks
    <2>2. TickKnows' /\ NoNews /\ \A k \in Jobs : Near(k)' => Near(k)
      BY <1>1, <2>1 DEF TickKnows, NoNews, Near
    <2> QED
      BY <1>1, <2>1, <2>2, TickMovesGate, UntouchedOperator, HostingConstants DEF Terminal
  <1> QED
    BY <1>2, <1>3 DEF TickRegister

LEMMA TickMarkGate ==
  ASSUME PortalInv, GateInv, TickMark
  PROVE  GateInv'
  <1>1. PICK j \in Jobs : j = tick.job
    BY DEF TickMark, PortalInv, WorkingOK
  <1>2. PICK job \in JobRecs : job = [copy[j] EXCEPT !.registered = TRUE]
    BY Zenon DEF PortalInv, PortalTypeOK, JobRecs
  <1>3. /\ tick.at = "mark" /\ UNCHANGED <<cancelling, cloning, changing, gated, reply>>
        /\ UNCHANGED vars /\ tick.call = NoThread
        /\ Save(j, job) /\ copy' = [copy EXCEPT ![j] = saved'[j]]
        /\ copy[j].status = "available" /\ job.status = "available" /\ TickNext
    BY <1>1, <1>2 DEF TickMark, PortalInv, PortalTypeOK, WorkingOK, TickOK, JobRecs
  <1>4. /\ saved' \in [Jobs -> JobRecs]
        /\ saved'[j].status = job.status
        /\ saved'[j].cancel <=> job.cancel \/ saved[j].cancel
        /\ \A k \in Jobs \ {j} : saved'[k] = saved[k]
    BY <1>3, SaveFields DEF PortalInv, PortalTypeOK
  <1>5. copy'[j] = saved'[j] /\ \A k \in Jobs \ {j} : copy'[k] = copy[k]
    BY <1>3, <1>4, CopyFields DEF PortalInv, PortalTypeOK
  <1>6. tick'.at = "next" /\ tick'.todo = tick.todo /\ tick'.call = NoThread /\ tick'.seen = "none"
    BY <1>3 DEF TickNext, PortalInv, PortalTypeOK, Ticks
  <1>7. Lasting(j)
    BY <1>3, <1>4, <1>6, SteadyLasts, UntouchedOperator DEF Steady, Near
  <1>8. j \notin swallowed' => Closed(j)'
    BY <1>3, <1>7 DEF GateInv, ClosedOK, Lasting, vars, Terminal
  <1> QED
    BY <1>1, <1>3, <1>4, <1>5, <1>6, <1>8, TickSavesGate, UntouchedOperator DEF Early, NoNews

\* A cancel writes its job down, and goes on or ends.
LEMMA CancelSavesGate ==
  ASSUME PortalInv, GateInv, UNCHANGED <<tick, copy, gated, cloning, changing>>, NoNews,
         NEW j \in Jobs, \A k \in Jobs : Stays(k),
         \A k \in Jobs \ {j} : saved'[k] = saved[k],
         saved'[j].cancel, saved'[j].status # "absent", saved[j].status # "absent",
         saved'[j].status \in Early => Inactive(j),
         saved'[j].status \in Terminal /\ j \notin swallowed' => Closed(j)',
         \/ cancelling'.at = "rest"
         \/ /\ cancelling'.job = j /\ cancelling'.own.status # "absent"
            /\ cancelling'.own.status \in Early => Inactive(j)
            /\ cancelling'.own.status \in Terminal /\ j \notin swallowed' => Closed(j)',
         \/ cancelling'.call = NoThread
         \/ cancelling'.call \in Threads /\ cancelling'.call # tick.call /\ reply'[cancelling'.call] = "none"
  PROVE  GateInv'
  <1>1. ASSUME NEW k \in Jobs PROVE Lasting(k)
    BY <1>1, SteadyLasts DEF Steady, Near
  <1>2. TickKnows'
    BY DEF GateInv, TickKnows
  <1>3. ASSUME NEW k \in Jobs PROVE EarlyOK(k)'
    <2>1. EarlyOK(k)
      BY DEF GateInv
    <2>2. CASE k # j
      BY <1>1, <2>1, <2>2 DEF EarlyOK, Lasting
    <2>3. CASE k = j
      BY <1>1, <2>1, <2>3 DEF EarlyOK, Lasting
    <2> QED
      BY <2>2, <2>3
  <1>4. ASSUME NEW k \in Jobs, k \notin swallowed' PROVE ClosedOK(k)'
    <2>1. ClosedOK(k)
      BY <1>4 DEF GateInv, Stays
    <2>2. ASSUME NEW t \in Threads, reply'[t] \in Terminal,
                 NEW c \in {tick', cancelling'}, c.job = k, c.call = t
          PROVE  Shut(k)'
      <3>1. c = tick
        BY <2>2, HostingConstants DEF Terminal
      <3> QED
        BY <1>1, <2>1, <2>2, <3>1 DEF ClosedOK, Lasting, NoNews
    <2>3. /\ tick'.job = k /\ tick'.seen \in Terminal => Shut(k)'
          /\ tick'.job = k /\ tick'.at = "activate" /\ ~Shut(k)' => TargetOf[k] \in gated'
          /\ tick'.at # "rest" /\ copy'[k].status \in Terminal => Closed(k)'
          /\ Serving(k)' => TargetOf[k] \in gated'
      BY <1>1, <2>1 DEF ClosedOK, Lasting
    <2>4. TargetOf[k] \in changing' => saved'[k].status = "absent" \/ Closed(k)'
      BY <1>1, <2>1 DEF ClosedOK, Lasting
    <2>5. saved'[k].status \in Terminal => Closed(k)'
      BY <1>1, <1>4, <2>1 DEF ClosedOK, Lasting
    <2>6. cancelling'.at # "rest" /\ cancelling'.job = k /\ cancelling'.own.status \in Terminal => Closed(k)'
      BY <1>4
    <2> QED
      BY <2>2, <2>3, <2>4, <2>5, <2>6 DEF ClosedOK
  <1> QED
    BY <1>2, <1>3, <1>4 DEF GateInv

\* A cancel that ends at once takes a job without activation for cancelled.
LEMMA CancelRequestGate ==
  ASSUME PortalInv, GateInv, NEW j \in Jobs, CancelRequest(j)
  PROVE  GateInv'
  <1>1. PICK own \in JobRecs : own = [saved[j] EXCEPT !.cancel = TRUE]
    BY Zenon DEF PortalInv, PortalTypeOK, JobRecs
  <1>2. own.status = saved[j].status /\ own.cancel
    BY <1>1 DEF PortalInv, PortalTypeOK, JobRecs
  <1>3. /\ UNCHANGED <<tick, copy, gated, cloning, changing>> /\ UNCHANGED vars /\ NoNews
        /\ cancelling.at = "rest" /\ cancelling.call = NoThread
        /\ saved[j] # Absent
    BY DEF CancelRequest, NotCancelling, NoNews
  <1>4. EarlyOK(j) /\ saved[j].status # "absent"
    BY <1>3 DEF GateInv, EarlyOK
  <1>5. CASE OwnJobUnknown(j)
    <2>1. /\ tick.at = "rest" /\ saved[j].status = "authorized"
          /\ saved' = [saved EXCEPT ![j] = [own EXCEPT !.status = "cancelled"]]
          /\ UNCHANGED cancelling
      BY <1>1, <1>5 DEF CancelRequest, OwnJobUnknown
    <2>2. PICK job \in JobRecs : job = [own EXCEPT !.status = "cancelled"]
      BY Zenon DEF JobRecs, JobStatuses, Statuses
    <2>3. job.status = "cancelled" /\ job.cancel
      BY <1>2, <2>2 DEF JobRecs
    <2>4. saved'[j] = job /\ \A k \in Jobs \ {j} : saved'[k] = saved[k]
      BY <2>1, <2>2 DEF PortalInv, PortalTypeOK
    <2>5. Closed(j)'
      <3>1. Inactive(j)
        BY <1>4, <2>1 DEF EarlyOK, Early
      <3>2. ~Serving(j)'
        BY <1>3, <3>1, ClosedNotServing, UntouchedOperator DEF Stays
      <3>3. ~Near(j)'
        BY <1>3, <2>1 DEF Near
      <3> QED
        BY <2>3, <2>4, <3>2, <3>3 DEF Closed
    <2> QED
      BY Zenon, <1>3, <1>4, <2>1, <2>3, <2>4, <2>5, CancelSavesGate, UntouchedOperator DEF Early
  <1>6. CASE ~OwnJobUnknown(j)
    <2>1. /\ Save(j, own)
          /\ cancelling' = [NotCancelling EXCEPT !.at = "call", !.job = j, !.own = own]
      BY <1>1, <1>6 DEF CancelRequest
    <2>2. /\ saved'[j].status = own.status
          /\ saved'[j].cancel
          /\ \A k \in Jobs \ {j} : saved'[k] = saved[k]
      BY <1>2, <2>1, SaveFields DEF PortalInv, PortalTypeOK
    <2>3. cancelling'.at = "call" /\ cancelling'.job = j /\ cancelling'.own = own /\ cancelling'.call = NoThread
      BY <2>1 DEF NotCancelling
    <2>4. own.status \in Early => Inactive(j)
      BY <1>2, <1>4 DEF EarlyOK
    <2>5. j \notin swallowed' /\ own.status \in Terminal => Closed(j)'
      <3>1. Lasting(j)
        BY <1>3, <2>2, SteadyLasts, UntouchedOperator DEF Steady, Near
      <3> QED
        BY <1>2, <1>3, <3>1 DEF GateInv, ClosedOK, Lasting, vars
    <2> QED
      BY <1>2, <1>3, <1>4, <2>2, <2>3, <2>4, <2>5, CancelSavesGate, UntouchedOperator
  <1> QED
    BY <1>5, <1>6

\* A cancel of the owner begins in the operator, with no answer yet.
LEMMA CancelCallGate ==
  ASSUME PortalInv, GateInv, \A j \in Jobs : Stays(j), NEW t \in Threads, CancelCall(t)
  PROVE  GateInv'
  <1>1. PICK j \in Jobs : j = cancelling.job
    BY DEF CancelCall, PortalInv, WorkingOK
  <1>2. /\ UNCHANGED <<saved, tick, copy, gated, cloning, changing, reply>> /\ NoNews
        /\ cancelling.at = "call" /\ reply[t] = "none" /\ tick.call # t
        /\ swallowed' = swallowed
    BY DEF CancelCall, NoNews, Free, Waited, CancelRead
  <1>3. cancelling'.job = j /\ cancelling'.own = cancelling.own /\ cancelling'.call = t
    BY <1>1 DEF CancelCall, PortalInv, PortalTypeOK, Cancellings
  <1>4. Lasting(j)
    BY <1>2, SteadyLasts DEF Steady, Near
  <1>5. EarlyOK(j) /\ saved[j].cancel /\ (j \notin swallowed' => ClosedOK(j))
    BY <1>1, <1>2 DEF GateInv, PortalInv, OwnOK
  <1>6. /\ saved[j].status # "absent" /\ cancelling.own.status # "absent"
        /\ saved[j].status \in Early => Inactive(j)
        /\ cancelling.own.status \in Early => Inactive(j)
    BY <1>1, <1>2, <1>5 DEF EarlyOK
  <1>7. /\ saved[j].status \in Terminal /\ j \notin swallowed' => Closed(j)'
        /\ cancelling.own.status \in Terminal /\ j \notin swallowed' => Closed(j)'
    BY <1>1, <1>2, <1>4, <1>5 DEF ClosedOK, Lasting
  <1> QED
    BY <1>2, <1>3, <1>5, <1>6, <1>7, CancelSavesGate

\* What the operator answered is written down, or what was.
LEMMA CancelEndsGate ==
  ASSUME PortalInv, GateInv, UNCHANGED vars, cancelling.at \in {"call", "wait"}, NEW own \in JobRecs,
         CancelEnds(own), UNCHANGED <<tick, copy, gated, cloning, changing>>, NoNews,
         own.status # "absent",
         \A j \in Jobs : j = cancelling.job =>
            /\ own.status \in Early => Inactive(j)
            /\ own.status \in Terminal /\ j \notin swallowed => Closed(j)
  PROVE  GateInv'
  <1>1. PICK j \in Jobs : j = cancelling.job
    BY DEF PortalInv, WorkingOK
  <1>2. /\ saved' \in [Jobs -> JobRecs]
        /\ saved'[j].status = own.status
        /\ saved'[j].cancel <=> own.cancel \/ saved[j].cancel
        /\ \A k \in Jobs \ {j} : saved'[k] = saved[k]
    BY <1>1, SaveFields DEF CancelEnds, PortalInv, PortalTypeOK
  <1>3. saved[j].cancel /\ saved[j].status # "absent" /\ saved'[j].cancel
    BY <1>1, <1>2 DEF PortalInv, OwnOK, GateInv, EarlyOK
  <1>4. /\ cancelling'.call = NoThread
        /\ cancelling'.at = "rest" \/ (cancelling'.job = j /\ cancelling'.own = own)
    BY <1>1 DEF CancelEnds, NotCancelling, PortalInv, PortalTypeOK, Cancellings
  <1>5. Lasting(j)
    BY <1>3, SteadyLasts, UntouchedOperator DEF Steady, Near
  <1>6. own.status \in Terminal /\ j \notin swallowed' => Closed(j)'
    BY <1>1, <1>5 DEF Lasting, vars
  <1> QED
    BY <1>1, <1>2, <1>3, <1>4, <1>6, CancelSavesGate, UntouchedOperator

\* The three ways a cancel ends, and its entry in the catalog.
LEMMA CancelEndGate ==
  ASSUME PortalInv, GateInv, CancelAnswered \/ CancelRefused \/ CancelGivesUp
  PROVE  GateInv'
  <1>1. /\ cancelling.at \in {"call", "wait"} /\ UNCHANGED vars
        /\ UNCHANGED <<tick, copy, gated, cloning, changing>>
    BY DEF CancelAnswered, CancelRefused, CancelGivesUp
  <1>2. NoNews
    BY DEF CancelAnswered, CancelRefused, CancelGivesUp, NoNews, Terminal, PortalInv, PortalTypeOK
  <1>3. PICK j \in Jobs : j = cancelling.job
    BY <1>1 DEF PortalInv, WorkingOK
  <1>4. PICK own \in JobRecs : own = cancelling.own
    BY DEF PortalInv, PortalTypeOK, Cancellings
  <1>5. CASE CancelEnds(own)
    <2>1. /\ own.status # "absent"
          /\ own.status \in Early => Inactive(j)
          /\ own.status \in Terminal /\ j \notin swallowed => Closed(j)
      BY <1>1, <1>3, <1>4 DEF GateInv, EarlyOK, ClosedOK
    <2> QED
      BY <1>1, <1>2, <1>3, <1>5, <2>1, CancelEndsGate
  <1>6. ASSUME CancelAnswered, reply[cancelling.call] # "error" PROVE GateInv'
    <2>1. cancelling.call \in Threads
      BY <1>6, HostingConstants DEF CancelAnswered, PortalInv, PortalTypeOK, WorkingOK, Cancellings
    <2>2. PICK status \in Statuses : status = reply[cancelling.call]
      BY <1>6, <2>1 DEF CancelAnswered, PortalInv, PortalTypeOK
    <2>3. PICK new \in JobRecs : new = [own EXCEPT !.status = status]
      BY Zenon DEF JobRecs, JobStatuses
    <2>4. new.status = status /\ CancelEnds(new)
      BY <1>4, <1>6, <2>2, <2>3 DEF CancelAnswered, JobRecs
    <2>5. status \notin Early
      BY DEF Statuses, InFlight, Early
    <2>6. status \in Terminal /\ j \notin swallowed => Closed(j)
      BY <1>3, <2>1, <2>2 DEF GateInv, ClosedOK, Closed
    <2> QED
      BY <1>1, <1>2, <1>3, <2>4, <2>5, <2>6, CancelEndsGate DEF Early
  <1> QED
    BY <1>4, <1>5, <1>6 DEF CancelAnswered, CancelRefused, CancelGivesUp

LEMMA CancelCatalogGate ==
  ASSUME PortalInv, GateInv, CancelCatalog \/ CancelCatalogFails
  PROVE  GateInv'
  <1>1. PICK j \in Jobs : j = cancelling.job
    BY DEF CancelCatalog, CancelCatalogFails, PortalInv, WorkingOK
  <1>2. /\ UNCHANGED <<saved, tick, copy, gated, cloning, changing, reply>> /\ NoNews
        /\ cancelling.at = "catalog" /\ UNCHANGED vars
        /\ cancelling'.at = "rest" /\ cancelling'.call = NoThread
    BY DEF CancelCatalog, CancelCatalogFails, NoNews, NotCancelling
  <1>3. Lasting(j)
    BY <1>2, SteadyLasts, UntouchedOperator DEF Steady, Near
  <1>4. EarlyOK(j) /\ saved[j].cancel /\ (j \notin swallowed' => ClosedOK(j))
    BY <1>1, <1>2 DEF GateInv, PortalInv, OwnOK, vars
  <1>5. /\ saved[j].status # "absent"
        /\ saved[j].status \in Early => Inactive(j)
        /\ saved[j].status \in Terminal /\ j \notin swallowed' => Closed(j)'
    BY <1>1, <1>2, <1>3, <1>4 DEF EarlyOK, ClosedOK, Lasting
  <1> QED
    BY <1>2, <1>4, <1>5, CancelSavesGate, UntouchedOperator

\* A clone request holds its target against visibility, and so does its job.
LEMMA RequestsGate ==
  ASSUME PortalInv, GateInv, NEW j \in Jobs, CloneRequest(j) \/ CloneAuthorized(j)
  PROVE  GateInv'
  <1>1. UNCHANGED <<tick, copy, cancelling, gated, changing, reply>> /\ UNCHANGED vars
    BY DEF CloneRequest, CloneAuthorized
  <1>2. CASE UNCHANGED saved
    <2>1. ASSUME NEW k \in Jobs, k \in cloning' PROVE k \in cloning \/ TargetOf[k] \notin changing
      BY <2>1 DEF CloneRequest, CloneAuthorized
    <2>2. ASSUME NEW k \in Jobs PROVE Lasting(k)
      BY <1>1, <1>2, SteadyLasts, UntouchedOperator DEF Steady, Near
    <2>3. ASSUME NEW k \in Jobs PROVE EarlyOK(k)'
      BY <1>1, <1>2, <2>1, <2>2 DEF GateInv, EarlyOK, Lasting
    <2>4. ASSUME NEW k \in Jobs, k \notin swallowed' PROVE ClosedOK(k)'
      BY <1>1, <1>2, <2>2, <2>4 DEF GateInv, ClosedOK, Lasting, vars
    <2> QED
      BY <1>1, <2>3, <2>4 DEF GateInv, TickKnows
  <1>3. CASE CloneAuthorized(j) /\ saved[j] = Absent /\ Save(j, [Absent EXCEPT !.status = "authorized"])
    <2>1. PICK job \in JobRecs : job = [Absent EXCEPT !.status = "authorized"]
      BY Zenon DEF Absent, JobRecs, JobStatuses
    <2>2. job.status = "authorized" /\ saved[j].status = "absent" /\ ~saved[j].cancel
      BY <1>3, <2>1 DEF Absent
    <2>3. /\ saved'[j].status = "authorized"
          /\ \A k \in Jobs \ {j} : saved'[k] = saved[k]
      BY Zenon, <1>3, <2>1, <2>2, SaveFields DEF PortalInv, PortalTypeOK
    <2>4. cloning' = cloning \ {j} /\ j \in cloning
      BY <1>3 DEF CloneAuthorized
    <2>5. ASSUME NEW k \in Jobs PROVE Lasting(k)
      BY <1>1, <2>2, <2>3, SteadyLasts, UntouchedOperator DEF Steady, Near
    <2>6. /\ TargetOf[j] \notin changing /\ Inactive(j)
          /\ ~(cancelling.at # "rest" /\ cancelling.job = j)
          /\ tick.at # "rest" => copy[j].status = "absent"
      BY <2>2, <2>4 DEF GateInv, EarlyOK, Early
    <2>7. ASSUME NEW k \in Jobs PROVE EarlyOK(k)'
      <3>1. CASE k # j
        BY <1>1, <2>3, <2>4, <2>5, <3>1 DEF GateInv, EarlyOK, Lasting
      <3>2. CASE k = j
        BY <1>1, <2>3, <2>4, <2>5, <2>6, <3>2 DEF GateInv, EarlyOK, Lasting, Early
      <3> QED
        BY <3>1, <3>2
    <2>8. ASSUME NEW k \in Jobs, k \notin swallowed' PROVE ClosedOK(k)'
      <3>1. ClosedOK(k)
        BY <1>1, <2>8 DEF GateInv, vars
      <3>2. CASE k # j
        BY <1>1, <2>3, <2>5, <3>1, <3>2 DEF ClosedOK, Lasting
      <3>3. CASE k = j
        BY <1>1, <2>3, <2>5, <2>6, <3>1, <3>3 DEF ClosedOK, Lasting, Terminal
      <3> QED
        BY <3>2, <3>3
    <2> QED
      BY <1>1, <2>7, <2>8 DEF GateInv, TickKnows
  <1> QED
    BY <1>2, <1>3 DEF CloneRequest, CloneAuthorized

\* Visibility changes only where every job has ended.
LEMMA ChangeVisibilityGate ==
  ASSUME PortalInv, GateInv, NEW x \in Targets, ChangeVisibility(x)
  PROVE  GateInv'
  <1>1. /\ UNCHANGED <<saved, tick, copy, cancelling, gated, cloning, reply>> /\ UNCHANGED vars
        /\ changing' = changing \cup {x}
        /\ \A j \in Jobs : TargetOf[j] = x => j \notin cloning /\ saved[j].status \in Terminal \cup {"absent"}
    BY DEF ChangeVisibility, PublicationInProgress
  <1>2. ASSUME NEW j \in Jobs PROVE Lasting(j)
    BY <1>1, SteadyLasts, UntouchedOperator DEF Steady, Near
  <1>3. ASSUME NEW j \in Jobs PROVE EarlyOK(j)'
    BY <1>1, <1>2 DEF GateInv, EarlyOK, Lasting
  <1>4. ASSUME NEW j \in Jobs, j \notin swallowed' PROVE ClosedOK(j)'
    BY <1>1, <1>2, <1>4 DEF GateInv, ClosedOK, Lasting, vars
  <1> QED
    BY <1>1, <1>3, <1>4 DEF GateInv, TickKnows

\* The Access of a target may go: nothing there serves, or is about to.
LEMMA VisibilityChangedGate ==
  ASSUME PortalInv, GateInv, NEW x \in Targets, VisibilityChanged(x)
  PROVE  GateInv'
  <1>1. /\ UNCHANGED <<saved, tick, copy, cancelling, cloning, reply>> /\ UNCHANGED vars
        /\ x \in changing /\ changing' \subseteq changing
        /\ \A y \in gated : y = x \/ y \in gated'
    BY DEF VisibilityChanged
  <1>2. ASSUME NEW j \in Jobs PROVE Lasting(j)
    BY <1>1, SteadyLasts, UntouchedOperator DEF Steady, Near
  <1>3. ASSUME NEW j \in Jobs PROVE EarlyOK(j)'
    BY <1>1, <1>2 DEF GateInv, EarlyOK, Lasting
  <1>4. ASSUME NEW j \in Jobs, j \notin swallowed' PROVE ClosedOK(j)'
    <2>1. ClosedOK(j) /\ EarlyOK(j)
      BY <1>1, <1>4 DEF GateInv, vars
    <2>2. TargetOf[j] = x => Closed(j) \/ Inactive(j)
      BY <1>1, <2>1 DEF ClosedOK, EarlyOK, Early
    <2>3. Serving(j)' => TargetOf[j] \in gated'
      BY <1>1, <1>2, <2>1, <2>2, ClosedNotServing DEF ClosedOK, Lasting
    <2>4. tick'.job = j /\ tick'.at = "activate" /\ ~Shut(j)' => TargetOf[j] \in gated'
      BY <1>1, <1>2, <2>1, <2>2 DEF ClosedOK, Lasting, Closed, Inactive, Near
    <2> QED
      BY <1>1, <1>2, <2>1, <2>3, <2>4 DEF ClosedOK, Lasting
  <1> QED
    BY <1>1, <1>3, <1>4 DEF GateInv, TickKnows

\* After a restart the portal knows only what it saved.
LEMMA RestartGate ==
  ASSUME PortalInv, GateInv, PortalRestart
  PROVE  GateInv'
  <1>1. /\ UNCHANGED <<saved, gated>> /\ UNCHANGED vars
        /\ tick'.at = "rest" /\ tick'.call = NoThread /\ tick'.seen = "none"
        /\ cancelling'.at = "rest" /\ cancelling'.call = NoThread
        /\ cloning' = {} /\ changing' = {}
        /\ \A t \in Threads : reply'[t] = "none"
    BY DEF PortalRestart, Resting, NotCancelling
  <1>2. ASSUME NEW j \in Jobs PROVE Lasting(j)
    BY <1>1, SteadyLasts, UntouchedOperator DEF Steady, Near
  <1>3. ASSUME NEW j \in Jobs PROVE EarlyOK(j)'
    BY <1>1, <1>2 DEF GateInv, EarlyOK, Lasting
  <1>4. ASSUME NEW j \in Jobs, j \notin swallowed' PROVE ClosedOK(j)'
    BY <1>1, <1>2, <1>4 DEF GateInv, ClosedOK, Lasting, Terminal, vars
  <1> QED
    BY <1>1, <1>3, <1>4 DEF GateInv, TickKnows

-----------------------------------------------------------------------------
(* Every step of the composition keeps all of it.                             *)

\* A thread of the operator that moves has a job.
LEMMA MovingThread ==
  ASSUME Inv, NEW t \in Threads, ThreadStep(t)
  PROVE  proc[t].job \in Jobs
  <1>1. proc[t] # Idle
    BY DEF ThreadStep, At, Idle, NextCheck, Stop, StopSteps, UnpublishLook, UnpublishUnlink,
       UnpublishReload, UnpublishFails, CancelFlag, CancelSettle, ActivateCheck, ActivateMark,
       ActivateStart, ActivateHealth, ActivateStartWeb, ActivateHealthWeb, ActivatePublish,
       ActivateReload, ActivateFinish, ActivateFails, ActivateSettle
  <1> QED
    BY <1>1 DEF Inv, ProcOK, Agents

LEMMA MovingWorker ==
  ASSUME Inv, WorkerStep, ~Take
  PROVE  proc[Worker].job \in Jobs
  <1>1. proc[Worker] # Idle
    BY DEF WorkerStep, At, Idle, Stop, StopSteps, BuildCheck, BuildDirectory, BuildDependencies,
       BuildCreate, BuildFails, BuildRecord
  <1> QED
    BY <1>1 DEF Inv, ProcOK, Agents

\* The steps of the operator but the beginning of an activation.
LEMMA OperatorServes ==
  ASSUME Inv, CallsOK, ServeInv,
         \/ \E t \in Threads : ThreadStep(t)
         \/ WorkerStep \/ Boot \/ Crash \/ UNCHANGED vars
         \/ \E j \in Jobs, tgt \in Targets : Clone(j, tgt)
         \/ \E t \in Threads, j \in Jobs : CancelRead(t, j)
  PROVE  \A k \in Jobs : ServeOK(k)' /\ Stays(k)
  <1> SUFFICES ASSUME NEW k \in Jobs PROVE ServeOK(k)' /\ Stays(k)
    OBVIOUS
  <1>1. ServeOK(k)
    BY DEF ServeInv
  <1>2. ASSUME NEW t \in Threads, ThreadStep(t) PROVE ServeOK(k)' /\ Stays(k)
    <2>1. PICK j \in Jobs : j = proc[t].job
      BY <1>2, MovingThread
    <2> QED
      BY <1>1, <1>2, <2>1, ThreadStepMoves, MovedKeeps DEF Agents
  <1>3. CASE WorkerStep
    <2>1. CASE Take
      BY <1>1, <2>1, TakeServe
    <2>2. CASE ~Take
      <3>1. PICK j \in Jobs : j = proc[Worker].job
        BY <1>3, <2>2, MovingWorker
      <3> QED
        BY <1>1, <1>3, <2>2, <3>1, WorkerStepMoves, MovedKeeps DEF Agents
    <2> QED
      BY <2>1, <2>2
  <1> QED
    BY <1>1, <1>2, <1>3, UntouchedOperator, StartServe, CrashServe, CloneServe, CancelReadServe

\* A copy is first served by an activation that may.
LEMMA ServedByActivation ==
  ASSUME Inv, CallsOK, ServeInv, [Next]_vars, NEW j \in Jobs, ~Served(j), Served(j)'
  PROVE  Serving(j)
  <1>1. \/ \E t \in Threads : ThreadStep(t)
        \/ WorkerStep /\ ~Take
    <2>1. UNCHANGED conf /\ up'[j] \subseteq up[j] => FALSE
      BY DEF Served
    <2>2. CASE Take \/ Crash \/ Request \/ UNCHANGED vars
      BY <2>1, <2>2 DEF Take, Crash, Request, Clone, CancelRead, ActivateBegin, disk, vars
    <2>3. CASE Boot
      BY Zenon, <2>1, <2>3 DEF Boot, BootMark, BootStop, BootServe, disk, Inv, TypeOK
    <2> QED
      BY <2>2, <2>3 DEF Next, WorkerStep
  <1>2. ASSUME NEW t \in Threads, ThreadStep(t) PROVE Serving(j)
    <2>1. PICK k \in Jobs : k = proc[t].job
      BY <1>2, MovingThread
    <2>2. Moved(t, k)
      BY <1>2, <2>1, ThreadStepMoves
    <2>3. k = j
      BY <2>2 DEF Moved, Served
    <2>4. LifeOK(j)
      BY DEF ServeInv, ServeOK
    <2>5. Activates(t, j) /\ proc[t].pc = "publish" /\ "app" \in up[j]
      BY Zenon, <2>1, <2>2, <2>3, <2>4 DEF Moved, Served, LifeOK, Activates, Unpublished
    <2> QED
      BY <2>5 DEF Serving, MayServe, Unpublished
  <1>3. ASSUME WorkerStep, ~Take PROVE FALSE
    <2>1. PICK k \in Jobs : k = proc[Worker].job
      BY <1>3, MovingWorker
    <2>2. Moved(Worker, k) /\ proc[Worker].op # "activate"
      BY <1>3, <2>1, WorkerStepMoves DEF CallsOK
    <2> QED
      BY <2>2 DEF Moved, Served
  <1> QED
    BY <1>1, <1>2, <1>3

\* The operator answers with what the row says, or with nothing new.
LEMMA OperatorSideGate ==
  ASSUME Inv, CallsOK, PortalInv, GateInv, ServeInv, OperatorSide
  PROVE  ServeInv' /\ GateInv'
  <1>1. \/ \E t \in Threads : ThreadStep(t)
        \/ WorkerStep \/ Boot \/ UNCHANGED vars
        \/ \E j \in Jobs, tgt \in Targets : Clone(j, tgt)
    BY HostingConstants DEF OperatorSide, BuildStep, BootStep, ServeStep, Respond, LateClone
  <1>2. \A k \in Jobs : ServeOK(k)' /\ Stays(k)
    BY <1>1, OperatorServes
  <1>3. UNCHANGED portal
    BY DEF OperatorSide, BuildStep, BootStep, ServeStep, Respond, LateClone
  <1>4. ASSUME NEW t \in Threads, reply'[t] \in Terminal, reply[t] \notin Terminal
        PROVE  \E c \in {tick, cancelling} : c.call = t /\ reply'[t] = row[c.job].status
    <2>1. ASSUME NEW u \in Threads, ServeStep(u) PROVE FALSE
      BY <1>4, <2>1 DEF ServeStep, Answer, Terminal, PortalInv, PortalTypeOK
    <2>2. ASSUME NEW u \in Threads, Respond(u)
          PROVE  \E c \in {tick, cancelling} : c.call = t /\ reply'[t] = row[c.job].status
      <3>1. PICK c \in {tick, cancelling} :
               c.call = u /\ reply' = [reply EXCEPT ![u] = row[c.job].status]
        BY Zenon, <2>2 DEF Respond
      <3>2. t = u /\ reply'[t] = row[c.job].status
        BY <1>4, <3>1 DEF PortalInv, PortalTypeOK
      <3> QED
        BY <3>1, <3>2
    <2> QED
      BY <1>4, <2>1, <2>2 DEF OperatorSide, BuildStep, BootStep, LateClone
  <1>5. GateInv'
    BY <1>2, <1>3, <1>4, OperatorKeepsGate DEF Inv
  <1> QED
    BY <1>2, <1>5 DEF ServeInv

\* A crash answers no call with a row.
LEMMA OperatorCrashGate ==
  ASSUME Inv, CallsOK, PortalInv, GateInv, ServeInv, OperatorCrash
  PROVE  ServeInv' /\ GateInv'
  <1>1. \A k \in Jobs : ServeOK(k)' /\ Stays(k)
    BY OperatorServes DEF OperatorCrash
  <1>2. UNCHANGED portal
    BY DEF OperatorCrash, portal
  <1>3. \A t \in Threads : reply'[t] \notin Terminal
    BY DEF OperatorCrash, Terminal
  <1>4. GateInv'
    BY <1>1, <1>2, <1>3, OperatorKeepsGate DEF Inv
  <1> QED
    BY <1>1, <1>4 DEF ServeInv

\* Every step of a tick, of a cancel, and of the composition.
LEMMA TickKeepsGate ==
  ASSUME Inv, CallsOK, PortalInv, GateInv, ServeInv, TickSteps \/ TickGivesUp \/ TickRegisterFails
  PROVE  ServeInv' /\ GateInv'
  <1>1. ASSUME UNCHANGED vars PROVE ServeInv'
    BY <1>1, UntouchedOperator DEF ServeInv
  <1>2. CASE TickSent
    <2>1. PICK j \in Jobs : j = tick.job
      BY <1>2 DEF TickSent, TickAt, PortalInv, WorkingOK
    <2>2. UNCHANGED vars \/ \E i \in Jobs, tgt \in Targets : Clone(i, tgt)
      BY <1>2, <2>1, HostingConstants DEF TickSent
    <2>3. \A k \in Jobs : ServeOK(k)' /\ Stays(k)
      BY <2>2, OperatorServes
    <2> QED
      BY <1>2, <2>3, TickSentGate DEF ServeInv
  <1>3. ASSUME NEW t \in Threads, TickCancel(t) PROVE ServeInv' /\ GateInv'
    <2>1. PICK j \in Jobs : j = tick.job
      BY <1>3 DEF TickCancel, TickAt, PortalInv, WorkingOK
    <2>2. CancelRead(t, j)
      BY <1>3, <2>1 DEF TickCancel
    <2>3. \A k \in Jobs : ServeOK(k)' /\ Stays(k)
      BY <2>2, OperatorServes
    <2> QED
      BY <1>3, <2>3, TickCancelGate DEF ServeInv
  <1>4. ASSUME NEW t \in Threads, TickActivate(t) PROVE ServeInv' /\ GateInv'
    <2>1. PICK j \in Jobs : j = tick.job
      BY <1>4 DEF TickActivate, TickAt, PortalInv, WorkingOK
    <2>2. ActivateBegin(t, j)
      BY <1>4, <2>1 DEF TickActivate
    <2>3. \A k \in Jobs : ServeOK(k)'
      BY <2>2, ActivateBeginServe DEF ServeInv
    <2> QED
      BY <1>4, <2>3, TickActivateGate DEF ServeInv
  <1>5. CASE TickStart \/ TickEnd
    BY <1>1, <1>5, TickStartGate DEF TickStart, TickEnd
  <1>6. ASSUME NEW j \in Jobs, TickJob(j) PROVE ServeInv' /\ GateInv'
    BY Zenon, <1>1, <1>6, TickJobGate DEF TickJob
  <1>7. CASE TickGate \/ TickReceipt \/ TickClone
    BY <1>1, <1>7, TickGateGate, TickReceiptGate, TickCloneGate DEF TickGate, TickReceipt, TickClone
  <1>8. CASE TickCloned \/ TickStatus \/ TickDecide
    BY <1>1, <1>8, TickClonedGate, TickStatusGate, TickDecideGate DEF TickCloned, TickStatus, TickDecide
  <1>9. CASE TickRefused \/ TickGivesUp \/ TickRegisterFails \/ TickAnswered
    BY <1>1, <1>9, TickCaughtGate, TickAnsweredGate
       DEF TickRefused, TickGivesUp, TickRegisterFails, TickAnswered
  <1>10. CASE TickSettle \/ TickRegister \/ TickMark
    BY <1>1, <1>10, TickSettleGate, TickRegisterGate, TickMarkGate DEF TickSettle, TickRegister, TickMark
  <1> QED
    BY <1>2, <1>3, <1>4, <1>5, <1>6, <1>7, <1>8, <1>9, <1>10 DEF TickSteps

LEMMA CancelKeepsGate ==
  ASSUME Inv, CallsOK, PortalInv, GateInv, ServeInv, CancelSteps \/ CancelGivesUp \/ CancelCatalogFails
  PROVE  ServeInv' /\ GateInv'
  <1>1. ASSUME UNCHANGED vars PROVE ServeInv'
    BY <1>1, UntouchedOperator DEF ServeInv
  <1>2. ASSUME NEW t \in Threads, CancelCall(t) PROVE ServeInv' /\ GateInv'
    <2>1. PICK j \in Jobs : j = cancelling.job
      BY <1>2 DEF CancelCall, PortalInv, WorkingOK
    <2>2. CancelRead(t, j)
      BY <1>2, <2>1 DEF CancelCall
    <2>3. \A k \in Jobs : ServeOK(k)' /\ Stays(k)
      BY <2>2, OperatorServes
    <2> QED
      BY <1>2, <2>3, CancelCallGate DEF ServeInv
  <1>3. CASE CancelAnswered \/ CancelRefused \/ CancelGivesUp \/ CancelCatalog \/ CancelCatalogFails
    BY <1>1, <1>3, CancelEndGate, CancelCatalogGate
       DEF CancelAnswered, CancelRefused, CancelGivesUp, CancelCatalog, CancelCatalogFails
  <1> QED
    BY <1>2, <1>3 DEF CancelSteps

LEMMA HostingStepServes ==
  Inv /\ CallsOK /\ PortalInv /\ ServeInv /\ GateInv /\ [HostingNext]_hostingVars
  => ServeInv' /\ GateInv'
  <1> SUFFICES ASSUME Inv, CallsOK, PortalInv, ServeInv, GateInv, [HostingNext]_hostingVars
               PROVE  ServeInv' /\ GateInv'
    OBVIOUS
  <1>1. ASSUME UNCHANGED vars PROVE ServeInv'
    BY <1>1, UntouchedOperator DEF ServeInv
  <1>2. CASE UNCHANGED hostingVars
    <2>1. UNCHANGED vars /\ UNCHANGED portal /\ reply' = reply
      BY <1>2 DEF hostingVars
    <2> QED
      BY <1>1, <2>1, UntouchedOperator, OperatorKeepsGate DEF Inv
  <1>3. CASE OperatorSide
    BY <1>3, OperatorSideGate
  <1>4. CASE OperatorCrash
    BY <1>4, OperatorCrashGate
  <1>5. CASE TickSteps \/ TickGivesUp \/ TickRegisterFails
    BY <1>5, TickKeepsGate
  <1>6. CASE CancelSteps \/ CancelGivesUp \/ CancelCatalogFails
    BY <1>6, CancelKeepsGate
  <1>7. ASSUME NEW j \in Jobs, CloneRequest(j) \/ CloneAuthorized(j) \/ CancelRequest(j)
        PROVE  ServeInv' /\ GateInv'
    BY Zenon, <1>1, <1>7, RequestsGate, CancelRequestGate DEF CloneRequest, CloneAuthorized, CancelRequest
  <1>8. ASSUME NEW x \in Targets, ChangeVisibility(x) \/ VisibilityChanged(x)
        PROVE  ServeInv' /\ GateInv'
    BY <1>1, <1>8, ChangeVisibilityGate, VisibilityChangedGate DEF ChangeVisibility, VisibilityChanged
  <1>9. CASE PortalRestart
    BY <1>1, <1>9, RestartGate DEF PortalRestart
  <1> QED
    BY <1>2, <1>3, <1>4, <1>5, <1>6, <1>7, <1>8, <1>9 DEF HostingNext

\* Nothing is served in the beginning.
LEMMA InitServe == HostingInit => ServeInv /\ GateInv
  <1> SUFFICES ASSUME HostingInit PROVE ServeInv /\ GateInv
    OBVIOUS
  <1>1. Worker \in Agents /\ (\A t \in Threads : t \in Agents) /\ \A j \in Jobs : NoJob # j
    BY NoneOutside DEF Agents
  <1>2. /\ \A a \in Agents : proc[a].op = "none" /\ proc[a].job = NoJob
        /\ \A j \in Jobs : row[j].status = "none"
        /\ queue = <<>> /\ conf = {}
    BY DEF HostingInit, Init, Idle
  <1>3. ASSUME NEW j \in Jobs PROVE ServeOK(j) /\ Inactive(j) /\ ~Serving(j)
    <2>1. \A t \in Threads : ~Activates(t, j) /\ ~Cancels(t, j)
      BY <1>1, <1>2 DEF Activates, Cancels
    <2>2. ~Serving(j)
      BY <2>1 DEF Serving, MayServe
    <2>3. Inactive(j)
      BY <2>1 DEF HostingInit, Resting, Inactive, Near
    <2> QED
      BY <1>1, <1>2, <2>1, <2>2, <2>3 DEF ServeOK, LifeOK, LateOK, EndedOK
  <1>4. /\ tick.at = "rest" /\ tick.job = NoJob /\ tick.call = NoThread /\ tick.seen = "none"
        /\ cancelling.at = "rest" /\ cancelling.call = NoThread
        /\ \A j \in Jobs : saved[j] = Absent /\ saved[j].status = "absent"
        /\ \A t \in Threads : reply[t] = "none"
        /\ cloning = {} /\ changing = {}
    BY DEF HostingInit, Resting, NotCancelling, Absent
  <1>5. ASSUME NEW j \in Jobs PROVE EarlyOK(j) /\ ClosedOK(j)
    BY <1>3, <1>4 DEF EarlyOK, ClosedOK, Terminal
  <1> QED
    BY <1>3, <1>4, <1>5 DEF ServeInv, GateInv, TickKnows

\* The inductive invariant behind Access: an activation that may still serve its
\* copy finds Access before the target, and no activation is under way or to
\* come for a job the portal takes for ended, which is when visibility may
\* change the target.
THEOREM ServingIsGated == HostingSpec => [](Inv /\ CallsOK /\ ServeInv /\ GateInv)
  <1>1. HostingSpec => []CallsOK
    <2>1. DownInv => CallsOK
      BY DEF DownInv
    <2> QED
      BY <2>1, HostingImplementsOperator, EndingInvariant, PTL
  <1> QED
    BY <1>1, HostingInvariant, InitServe, HostingStepServes, PTL DEF HostingSpec

\* A copy is first served while Access stands before its hostname: the receipt
\* is read long before the operator publishes, and visibility refuses a target
\* with a clone request or an unfinished job.
THEOREM ServedIsGatedHolds == HostingSpec => ServedIsGated
  <1>1. Inv /\ CallsOK /\ PortalInv /\ ServeInv /\ GateInv /\ [HostingNext]_hostingVars
        => [\A j \in Jobs : ~Served(j) /\ Served(j)' /\ j \notin swallowed
                            => TargetOf[j] \in gated]_hostingVars
    <2> SUFFICES ASSUME Inv, CallsOK, PortalInv, ServeInv, GateInv, [HostingNext]_hostingVars,
                        NEW j \in Jobs, ~Served(j), Served(j)', j \notin swallowed
                 PROVE  TargetOf[j] \in gated
      OBVIOUS
    <2>1. [Next]_vars
      BY StepOfTheOperator DEF PortalInv
    <2>2. Serving(j)
      BY <2>1, ServedByActivation
    <2> QED
      BY <2>2 DEF GateInv, ClosedOK
  <1> QED
    BY <1>1, HostingInvariant, ServingIsGated, PTL DEF HostingSpec, ServedIsGated
-----------------------------------------------------------------------------
(* A cancelled job is let go only when it has ended.                          *)

\* A row of a job that ended without success.
Hopeless == {"failed", "activation_failed", "cancelled", "interrupted"}

\* The job has ended, or is bound to: an activation that still runs will see
\* the mark, one that ended available found everything stopped, and a start
\* interrupts one that died.
Dead(j) ==
    \/ row[j].status \in Hopeless
    \/ row[j].status = "available" /\ up[j] = {} /\ j \notin conf
    \/ /\ row[j].status = "activating" /\ row[j].cancel
       /\ daemon = "down" \/ \E t \in Threads : Activates(t, j) /\ proc[t].pc # "finish"

\* A step that leaves the row, the containers and the route of a job alone.
LEMMA DeadUntouched ==
  ASSUME NEW k \in Jobs, Dead(k), row'[k] = row[k], up'[k] \subseteq up[k], k \in conf' => k \in conf,
         daemon = "down" => daemon' = "down",
         daemon' = "down" \/ \A t \in Threads : Activates(t, k) => proc'[t] = proc[t]
  PROVE  Dead(k)'
  BY DEF Dead, Activates

\* What is dead stays so, whatever its calls do.
LEMMA MovedDead ==
  ASSUME Inv, CallsOK, NEW a \in Agents, NEW j \in Jobs, proc[a].job = j, proc[a].op # "none",
         Moved(a, j), NEW k \in Jobs, JobOK(k), Dead(k)
  PROVE  Dead(k)'
  <1>0. NoJob # j /\ NoJob # k
    BY NoneOutside
  <1>1. Worker \in Agents /\ Worker \notin Threads /\ (\A t \in Threads : t \in Agents)
    BY AgentsDistinct DEF Agents
  <1>2. daemon = "up" /\ daemon' = daemon
    BY DEF CallsOK, Moved
  <1>3. CASE k # j
    <2>1. \A t \in Threads : Activates(t, k) => proc'[t] = proc[t]
      BY <1>0, <1>1, <1>3 DEF Moved, Activates
    <2>2. row'[k] = row[k] /\ up'[k] = up[k] /\ (k \in conf' => k \in conf)
      BY <1>3 DEF Moved
    <2> QED
      BY <1>2, <2>1, <2>2, DeadUntouched
  <1>4. CASE k = j
    <2>1. proc[a].op = "execute" => a = Worker
      BY DEF CallsOK, Agents
    <2>2. proc[a].op # "execute"
      BY <1>4, <2>1 DEF JobOK, BuildingOK, Dead, Hopeless
    <2>3. a \in Threads /\ proc[a].op \in {"cancel", "activate"}
      BY <1>1, <2>2 DEF CallsOK, Agents
    <2>4. proc[a].op = "activate" =>
             /\ Activates(a, k) /\ row[k].status \in {"activating", "cancelled", "staged"}
             /\ \A t \in Threads : Activates(t, k) => t = a
      BY <1>4, <2>3 DEF Activates, CallsOK, JobOK, LateOK
    <2>5. CASE row[k].status \in Hopeless
      <3>1. CASE row'[k].status = "activating" /\ proc[a].op = "activate"
        <4>1. row[k].status = "cancelled"
          BY <2>4, <2>5, <3>1 DEF Hopeless
        <4>2. row[k].cancel /\ row'[k].cancel
          BY <1>4, <4>1 DEF JobOK, EndingOK, Moved
        <4>3. Activates(a, k)' /\ proc'[a].pc # "finish"
          BY <1>4, <3>1, <4>2 DEF Moved, Activates
        <4> QED
          BY <2>3, <3>1, <4>2, <4>3 DEF Dead
      <3>2. CASE row'[k].status = "available"
        <4>1. proc[a].op = "activate" /\ proc[a].pc = "finish" /\ Leaves(a)
          BY <1>4, <2>5, <3>2 DEF Moved, Hopeless
        <4>2. \A t \in Threads : Activates(t, k) => proc[t].pc = "finish"
          BY <2>4, <4>1
        <4>3. row[k].status = "cancelled" /\ ~Publishes(k) /\ \A x : ~Starts(x, k)
          BY <2>4, <2>5, <4>1, <4>2 DEF Publishes, Starts, Hopeless
        <4>4. up[k] = {} /\ k \notin conf
          BY <4>3 DEF JobOK, EndingOK
        <4>5. up'[k] = {} /\ k \notin conf'
          BY <1>4, <4>1, <4>4 DEF Moved
        <4> QED
          BY <3>2, <4>5 DEF Dead
      <3>3. row'[k].status \in Hopeless \/ row'[k].status = "available"
            \/ (row'[k].status = "activating" /\ proc[a].op = "activate")
        BY <1>4, <2>2, <2>5 DEF Moved, Hopeless
      <3> QED
        BY <3>1, <3>2, <3>3 DEF Dead
    <2>6. CASE row[k].status = "available" /\ up[k] = {} /\ k \notin conf
      <3>1. proc[a].op = "cancel"
        BY <2>3, <2>4, <2>6
      <3>2. up'[k] = {} /\ k \notin conf' /\ row'[k].status \in {"available", "cancelled"}
        BY <1>4, <2>6, <3>1 DEF Moved
      <3> QED
        BY <3>2 DEF Dead, Hopeless
    <2>7. ASSUME row[k].status = "activating", row[k].cancel,
                 NEW t \in Threads, Activates(t, k), proc[t].pc # "finish"
          PROVE  Dead(k)'
      <3>1. row'[k].cancel
        BY <1>4, <2>7 DEF Moved
      <3>2. CASE proc[a].op = "cancel"
        <4>1. Activates(t, k)' /\ proc'[t].pc # "finish"
          BY <1>1, <2>7, <3>2 DEF Moved, Activates
        <4>2. row'[k].status \in {"activating", "cancelled"}
          BY <1>4, <2>7, <3>2 DEF Moved
        <4> QED
          BY <3>1, <4>1, <4>2 DEF Dead, Hopeless
      <3>3. CASE proc[a].op = "activate"
        <4>1. t = a
          BY <2>4, <2>7, <3>3
        <4>2. CASE Leaves(a)
          <5>1. row'[k].status = "activation_failed"
            BY <1>4, <2>7, <3>3, <4>1, <4>2 DEF Moved
          <5> QED
            BY <5>1 DEF Dead, Hopeless
        <4>3. CASE ~Leaves(a)
          <5>1. Activates(a, k)' /\ proc'[a].pc # "finish" /\ row'[k].status = "activating"
            BY <1>4, <2>7, <3>3, <4>3 DEF Moved, Activates
          <5> QED
            BY <2>3, <3>1, <5>1 DEF Dead
        <4> QED
          BY <4>2, <4>3
      <3> QED
        BY <2>3, <3>2, <3>3
    <2> QED
      BY <1>2, <2>5, <2>6, <2>7 DEF Dead
  <1> QED
    BY <1>3, <1>4

\* What is dead stays so, and is forgotten by no crash and no start.
LEMMA DeadStays ==
  ASSUME Inv, DownInv, [Next]_vars, NEW k \in Jobs, k \notin swallowed' \cup orphaned', Dead(k)
  PROVE  Dead(k)'
  <1>1. Worker \in Agents /\ Worker \notin Threads /\ (\A t \in Threads : t \in Agents) /\ NoJob # k
    BY AgentsDistinct, NoneOutside DEF Agents
  <1>2. CallsOK /\ (k \notin swallowed \cup orphaned => JobOK(k))
    BY DEF DownInv
  <1>3. ASSUME NEW t \in Threads, ThreadStep(t) PROVE Dead(k)'
    <2>1. PICK j \in Jobs : j = proc[t].job
      BY <1>3, MovingThread
    <2>2. Moved(t, j) /\ proc[t].op # "none"
      BY <1>2, <1>3, <2>1, ThreadStepMoves
    <2>3. JobOK(k)
      BY <1>2, <2>2 DEF Moved
    <2> QED
      BY <1>1, <1>2, <2>1, <2>2, <2>3, MovedDead
  <1>4. CASE WorkerStep /\ ~Take
    <2>1. PICK j \in Jobs : j = proc[Worker].job
      BY <1>4, MovingWorker
    <2>2. Moved(Worker, j) /\ proc[Worker].op # "none"
      BY <1>2, <1>4, <2>1, WorkerStepMoves
    <2>3. JobOK(k)
      BY <1>2, <2>2 DEF Moved
    <2> QED
      BY <1>1, <1>2, <2>1, <2>2, <2>3, MovedDead
  <1>5. CASE Take
    <2>1. PICK j \in Jobs : j = Head(queue)
      BY <1>5 DEF Take, Inv, TypeOK
    <2>2. /\ \A x \in Jobs \ {j} : row'[x] = row[x]
          /\ \A t \in Threads : proc'[t] = proc[t]
          /\ UNCHANGED <<daemon, up, conf, swallowed, orphaned>>
      BY <1>1, <1>5, <2>1, StatusFields DEF Take, Inv, TypeOK
    <2>3. row[j].status = "queued" \/ j # k
      <3>1. 1 \in 1 .. Len(queue) /\ queue[1] = j
        BY <1>5, <2>1 DEF Take, Inv, TypeOK
      <3> QED
        BY <1>2, <2>2, <3>1 DEF JobOK, WaitingOK
    <2>4. k # j
      BY <2>3 DEF Dead, Hopeless
    <2> QED
      BY <2>2, <2>4, DeadUntouched
  <1>6. CASE Crash
    BY <1>6, DeadUntouched DEF Crash, disk
  <1>7. CASE Boot
    <2>1. /\ daemon # "up" /\ conf' = conf /\ proc' = proc
          /\ \A a \in Agents : proc[a].op = "none"
      BY <1>2, <1>7 DEF Boot, BootMark, BootStop, BootServe, disk, CallsOK
    <2>2. \A t \in Threads : ~Activates(t, k)
      BY <1>1, <2>1 DEF Activates
    <2>3. CASE BootMark
      <3>1. /\ up' = up
            /\ row[k].status \in InFlight => row'[k].status = "interrupted"
            /\ row[k].status \notin InFlight => row'[k] = row[k]
        BY <2>3 DEF BootMark, BootRows, Inv, TypeOK
      <3> QED
        BY <2>1, <3>1 DEF Dead, Hopeless, InFlight
    <2>4. CASE BootStop \/ BootServe
      <3>1. daemon = "starting" /\ row' = row /\ up'[k] \subseteq up[k]
        BY <2>4 DEF BootStop, BootServe, disk, Inv, TypeOK
      <3> QED
        BY <2>1, <2>2, <3>1, DeadUntouched
    <2> QED
      BY <1>7, <2>3, <2>4 DEF Boot
  <1>8. ASSUME NEW j \in Jobs, NEW tgt \in Targets, Clone(j, tgt) PROVE Dead(k)'
    <2>1. k # j
      BY <1>8 DEF Clone, Dead, Hopeless
    <2>2. row'[k] = row[k] /\ UNCHANGED <<daemon, up, conf, proc>>
      BY <1>8, <2>1 DEF Clone, Inv, TypeOK
    <2> QED
      BY <2>2, DeadUntouched
  <1>9. ASSUME NEW t \in Threads, NEW j \in Jobs, CancelRead(t, j) \/ ActivateBegin(t, j) PROVE Dead(k)'
    <2>1. \A u \in Threads : Activates(u, k) => proc'[u] = proc[u]
      BY <1>1, <1>9 DEF CancelRead, ActivateBegin, Activates, Idle, Inv, TypeOK
    <2>2. UNCHANGED <<daemon, row, up, conf>>
      BY <1>9 DEF CancelRead, ActivateBegin, disk
    <2> QED
      BY <2>1, <2>2, DeadUntouched
  <1>10. CASE UNCHANGED vars
    BY <1>10, DeadUntouched DEF vars, disk
  <1> QED
    BY <1>3, <1>4, <1>5, <1>6, <1>7, <1>8, <1>9, <1>10 DEF Next, WorkerStep, Request

\* Only a clone request brings a job into the table.
LEMMA UnknownRow ==
  ASSUME Inv, CallsOK, NEW k \in Jobs, row[k].status = "none",
         \/ \E t \in Threads : ThreadStep(t)
         \/ WorkerStep \/ Boot \/ Crash \/ UNCHANGED vars
         \/ \E j \in Jobs \ {k}, tgt \in Targets : Clone(j, tgt)
         \/ \E t \in Threads, j \in Jobs : CancelRead(t, j) \/ ActivateBegin(t, j)
  PROVE  row'[k].status = "none"
  <1>1. Worker \in Agents /\ \A t \in Threads : t \in Agents
    BY DEF Agents
  <1>2. ASSUME NEW a \in Agents, NEW j \in Jobs, proc[a].job = j, proc[a].op # "none", Moved(a, j)
        PROVE  row'[k].status = "none"
    <2>1. row[j].status # "none"
      BY <1>2 DEF Inv, ProcOK, Idle
    <2> QED
      BY <1>2, <2>1 DEF Moved
  <1>3. ASSUME NEW t \in Threads, ThreadStep(t) PROVE row'[k].status = "none"
    <2>1. PICK j \in Jobs : j = proc[t].job
      BY <1>3, MovingThread
    <2> QED
      BY <1>1, <1>2, <1>3, <2>1, ThreadStepMoves
  <1>4. CASE WorkerStep /\ ~Take
    <2>1. PICK j \in Jobs : j = proc[Worker].job
      BY <1>4, MovingWorker
    <2> QED
      BY <1>1, <1>2, <1>4, <2>1, WorkerStepMoves
  <1>5. CASE Take
    <2>1. PICK j \in Jobs : j = Head(queue)
      BY <1>5 DEF Take, Inv, TypeOK
    <2>2. \A x \in Jobs \ {j} : row'[x] = row[x]
      BY <1>5, <2>1, StatusFields DEF Take
    <2>3. 1 \in 1 .. Len(queue) /\ queue[1] = j
      BY <1>5, <2>1 DEF Take, Inv, TypeOK
    <2>4. row[j].status # "none"
      BY <2>3 DEF Inv, QueueOK
    <2> QED
      BY <2>2, <2>4
  <1>6. CASE Boot
    BY Zenon, <1>6 DEF Boot, BootMark, BootStop, BootServe, BootRows, disk, Inv, TypeOK, InFlight
  <1>7. ASSUME NEW j \in Jobs \ {k}, NEW tgt \in Targets, Clone(j, tgt) PROVE row'[k].status = "none"
    BY <1>7 DEF Clone, Inv, TypeOK
  <1> QED
    BY <1>3, <1>4, <1>5, <1>6, <1>7 DEF Crash, CancelRead, ActivateBegin, disk, vars

-----------------------------------------------------------------------------
(* What the portal hears of a job.                                            *)

\* A clone request of the job may still arrive.
Sent(j) == j \in late \/ (tick.at = "sent" /\ tick.job = j)

\* The operator has never heard of the job, and will not.
Unknown(j) == row[j].status = "none" /\ ~Sent(j) /\ saved[j].cancel

\* The portal has it from somewhere that the job ended without success.
Told(j) ==
    \/ saved[j].status \in Hopeless
    \/ tick.at # "rest" /\ copy[j].status \in Hopeless
    \/ cancelling.at # "rest" /\ cancelling.job = j /\ cancelling.own.status \in Hopeless
    \/ tick.job = j /\ tick.seen \in Hopeless
    \/ \E t \in Threads : reply[t] \in Hopeless /\ \E c \in {tick, cancelling} : c.job = j /\ c.call = t

Excused(j) == j \in mistaken \cup swallowed \cup orphaned
ToldOK(j) == Told(j) => Dead(j) \/ Unknown(j)
ForgetInv == \A j \in Jobs : Excused(j) \/ ToldOK(j)

\* A step of the portal keeps a mark, sends no marked job, and hears only what
\* was heard before, or is so.
True(j) == Excused(j)' \/ Told(j) \/ Dead(j)' \/ Unknown(j)'
Tells(j) ==
    /\ saved[j].cancel => saved'[j].cancel
    /\ Sent(j)' => Sent(j) \/ ~saved[j].cancel
    /\ j \in mistaken => j \in mistaken'
    /\ Told(j)' => True(j)

\* No answer that says a job ended is new.
NoEnd == \A t \in Threads : reply'[t] \in Hopeless => reply'[t] = reply[t]
NoMarkedSent == \A j \in Jobs : Sent(j)' => Sent(j) \/ ~saved[j].cancel

\* The operator moves, or answers with what the row says.
LEMMA OperatorTells ==
  ASSUME GateInv, UNCHANGED portal, late' \subseteq late,
         \A t \in Threads : reply'[t] \in Hopeless /\ reply'[t] # reply[t] =>
            \E c \in {tick, cancelling} : c.call = t /\ reply'[t] = row'[c.job].status
  PROVE  \A j \in Jobs : Tells(j)
  <1> SUFFICES ASSUME NEW j \in Jobs PROVE Tells(j)
    OBVIOUS
  <1>1. UNCHANGED <<saved, tick, copy, cancelling, mistaken>>
    BY DEF portal
  <1>2. ASSUME NEW t \in Threads, reply'[t] \in Hopeless,
               NEW c \in {tick, cancelling}, c.job = j, c.call = t
        PROVE  True(j)
    <2>1. CASE reply'[t] = reply[t]
      BY <1>2, <2>1 DEF Told, True
    <2>2. CASE reply'[t] # reply[t]
      <3>1. PICK d \in {tick, cancelling} : d.call = t /\ reply'[t] = row'[d.job].status
        BY <1>2, <2>2
      <3>2. d = c
        BY <1>2, <3>1, HostingConstants DEF GateInv, TickKnows
      <3> QED
        BY <1>2, <3>1, <3>2 DEF Dead, True
    <2> QED
      BY <2>1, <2>2
  <1>3. Told(j)' => True(j)
    BY <1>1, <1>2 DEF Told, True
  <1> QED
    BY <1>1, <1>3 DEF Tells, Sent

\* The tick goes on, and the jobs stay as they are.
LEMMA TickTells ==
  ASSUME UNCHANGED <<saved, copy, cancelling, mistaken>>, NoEnd, NoMarkedSent,
         tick.at # "rest" \/ tick'.at = "rest",
         \/ tick'.call = tick.call /\ tick'.job = tick.job
         \/ tick'.call \notin Threads
         \/ reply'[tick'.call] = "none",
         \A j \in Jobs : tick'.job = j /\ tick'.seen \in Hopeless => True(j)
  PROVE  \A j \in Jobs : Tells(j)
  <1> SUFFICES ASSUME NEW j \in Jobs PROVE Tells(j)
    OBVIOUS
  <1>1. ASSUME NEW t \in Threads, reply'[t] \in Hopeless,
               NEW c \in {tick', cancelling'}, c.job = j, c.call = t
        PROVE  Told(j)
    BY <1>1 DEF NoEnd, Told, Hopeless
  <1>2. Told(j)' => True(j)
    BY <1>1 DEF Told, True
  <1> QED
    BY <1>2 DEF Tells, NoMarkedSent

\* The tick writes its job down.
LEMMA TickSavesTells ==
  ASSUME UNCHANGED cancelling, mistaken \subseteq mistaken', NoEnd, NoMarkedSent, NEW j \in Jobs,
         tick.at # "rest", \A k \in Jobs \ {j} : saved'[k] = saved[k] /\ copy'[k] = copy[k],
         copy'[j] = saved'[j], saved[j].cancel => saved'[j].cancel,
         saved'[j].status \in Hopeless => True(j),
         tick'.call = NoThread,
         tick'.seen \in Hopeless => tick'.seen = tick.seen /\ tick'.job = tick.job
  PROVE  \A k \in Jobs : Tells(k)
  <1> SUFFICES ASSUME NEW k \in Jobs PROVE Tells(k)
    OBVIOUS
  <1>1. ASSUME NEW t \in Threads, reply'[t] \in Hopeless,
               NEW c \in {tick', cancelling'}, c.job = k, c.call = t
        PROVE  Told(k)
    BY <1>1, HostingConstants DEF NoEnd, Told
  <1>2. saved'[k].status \in Hopeless \/ copy'[k].status \in Hopeless => True(k) \/ Told(k)
    BY DEF Told
  <1>3. Told(k)' => True(k) \/ Told(k)
    BY <1>1, <1>2 DEF Told
  <1> QED
    BY <1>3 DEF Tells, NoMarkedSent, True

\* A cancel writes its job down, and goes on or ends.
LEMMA CancelSavesTells ==
  ASSUME UNCHANGED <<tick, copy, late>>, mistaken \subseteq mistaken', NoEnd, NEW j \in Jobs,
         \A k \in Jobs \ {j} : saved'[k] = saved[k], saved'[j].cancel,
         saved'[j].status \in Hopeless => True(j),
         cancelling'.at = "rest" \/ (cancelling'.job = j /\ (cancelling'.own.status \in Hopeless => True(j))),
         cancelling'.call \notin Threads \/ reply'[cancelling'.call] = "none"
  PROVE  \A k \in Jobs : Tells(k)
  <1> SUFFICES ASSUME NEW k \in Jobs PROVE Tells(k)
    OBVIOUS
  <1>1. ASSUME NEW t \in Threads, reply'[t] \in Hopeless,
               NEW c \in {tick', cancelling'}, c.job = k, c.call = t
        PROVE  Told(k)
    BY <1>1 DEF NoEnd, Told, Hopeless
  <1>2. saved'[k].status \in Hopeless => True(k) \/ Told(k)
    BY DEF Told
  <1>3. cancelling'.at # "rest" /\ cancelling'.job = k /\ cancelling'.own.status \in Hopeless => True(k)
    OBVIOUS
  <1>4. Told(k)' => True(k) \/ Told(k)
    BY <1>1, <1>2, <1>3 DEF Told
  <1> QED
    BY <1>4 DEF Tells, Sent, True

\* A tick that begins copies what was saved; one that ends forgets it.
LEMMA TickStartTells ==
  ASSUME PortalInv, TickStart \/ TickEnd
  PROVE  \A j \in Jobs : Tells(j)
  <1> SUFFICES ASSUME NEW j \in Jobs PROVE Tells(j)
    OBVIOUS
  <1>1. /\ UNCHANGED <<saved, cancelling, mistaken, late, reply>>
        /\ tick'.call = NoThread /\ tick'.seen = "none" /\ tick'.at \in {"rest", "next"}
        /\ tick'.at # "rest" => copy' = saved
    <2>1. CASE TickStart
      <3>1. PICK todo : todo = {k \in Jobs : saved[k] # Absent}
        BY Zenon
      <3>2. tick' = [at |-> "next", todo |-> todo, job |-> NoJob, call |-> NoThread, seen |-> "none"]
        BY Zenon, <2>1, <3>1 DEF TickStart, Resting
      <3>3. UNCHANGED <<saved, cancelling, mistaken, late, reply>> /\ copy' = saved
        BY <2>1 DEF TickStart
      <3>4. tick'.call = NoThread /\ tick'.seen = "none" /\ tick'.at = "next"
        BY <3>2
      <3> QED
        BY <3>3, <3>4
    <2>2. CASE TickEnd
      BY <2>2 DEF TickEnd, Resting
    <2> QED
      BY <2>1, <2>2
  <1>2. ASSUME NEW t \in Threads, reply'[t] \in Hopeless,
               NEW c \in {tick', cancelling'}, c.job = j, c.call = t
        PROVE  Told(j)
    BY <1>1, <1>2, HostingConstants DEF Told
  <1>3. Told(j)' => Told(j)
    BY <1>1, <1>2 DEF Told, Hopeless
  <1> QED
    BY <1>1, <1>3 DEF Tells, Sent, True

\* The tick takes its next job, of which it has heard nothing.
LEMMA TickJobTells ==
  ASSUME PortalInv, GateInv, NEW j \in Jobs, TickJob(j)
  PROVE  \A k \in Jobs : Tells(k)
  <1>1. /\ UNCHANGED <<saved, copy, cancelling, mistaken, late, reply>>
        /\ tick.at = "next" /\ tick'.at \in {"next", "gate", "status"}
        /\ tick'.call = tick.call /\ tick'.seen = tick.seen
    BY DEF TickJob, PortalInv, PortalTypeOK, Ticks
  <1>2. tick.seen = "none" /\ tick.call = NoThread
    BY <1>1 DEF GateInv, TickKnows, PortalInv, WorkingOK
  <1>3. NoEnd /\ NoMarkedSent
    BY <1>1 DEF NoEnd, NoMarkedSent, Sent
  <1> QED
    BY <1>1, <1>2, <1>3, TickTells, HostingConstants DEF Hopeless

\* The catch clause writes down what the tick read.
LEMMA CaughtTells ==
  ASSUME PortalInv, tick.at \in Waits \cup {"register"}, TickCaught, UNCHANGED <<cancelling, mistaken>>,
         NoEnd, NoMarkedSent
  PROVE  \A k \in Jobs : Tells(k)
  <1>1. PICK j \in Jobs : j = tick.job
    BY DEF PortalInv, WorkingOK, Waits
  <1>2. PICK job \in JobRecs : job = copy[j]
    BY <1>1 DEF PortalInv, PortalTypeOK
  <1>3. /\ saved' \in [Jobs -> JobRecs]
        /\ saved'[j].status = job.status
        /\ saved'[j].cancel <=> job.cancel \/ saved[j].cancel
        /\ \A k \in Jobs \ {j} : saved'[k] = saved[k]
    BY <1>1, <1>2, SaveFields DEF TickCaught, PortalInv, PortalTypeOK
  <1>4. copy'[j] = saved'[j] /\ \A k \in Jobs \ {j} : copy'[k] = copy[k]
    BY <1>1, <1>3, CopyFields DEF TickCaught, PortalInv, PortalTypeOK
  <1>5. tick'.call = NoThread /\ tick'.seen = "none" /\ tick.at # "rest"
    BY DEF TickCaught, TickNext, PortalInv, PortalTypeOK, Ticks, Waits
  <1>6. saved'[j].status \in Hopeless => True(j)
    BY <1>2, <1>3, <1>5 DEF True, Told
  <1> QED
    BY <1>3, <1>4, <1>5, <1>6, TickSavesTells DEF Hopeless

\* The tick goes on without news of its job.
LEMMA TickGoesTells ==
  ASSUME UNCHANGED <<saved, copy, cancelling, mistaken, late, reply>>, tick.at # "rest",
         tick'.job = tick.job, tick'.seen = tick.seen,
         tick'.call = tick.call \/ reply[tick'.call] = "none",
         tick'.at = "sent" => ~saved[tick.job].cancel
  PROVE  \A k \in Jobs : Tells(k)
  <1>1. NoEnd /\ NoMarkedSent
    BY DEF NoEnd, NoMarkedSent, Sent
  <1>2. \A j \in Jobs : tick'.job = j /\ tick'.seen \in Hopeless => True(j)
    BY DEF True, Told
  <1> QED
    BY <1>1, <1>2, TickTells

\* The steps of a tick that ask nobody.
LEMMA TickGateTells ==
  ASSUME PortalInv, TickGate \/ TickDecide
  PROVE  \A k \in Jobs : Tells(k)
  <1>1. PICK step \in {"receipt", "cancel", "receipt2", "settle"} : TickGoto(step)
    BY DEF TickGate, TickDecide
  <1>2. GoesTo(step) /\ UNCHANGED <<saved, copy, cancelling, mistaken, late, reply>> /\ tick.at # "rest"
    BY <1>1, GotoPlace DEF TickGate, TickDecide, TickAt, TickPcs, PortalInv, PortalTypeOK
  <1> QED
    BY <1>2, TickGoesTells DEF GoesTo

LEMMA TickReceiptTells ==
  ASSUME PortalInv, TickReceipt
  PROVE  \A k \in Jobs : Tells(k)
  <1>1. /\ tick.at \in {"receipt", "receipt2"} /\ UNCHANGED <<cancelling, mistaken, late, reply>>
    BY DEF TickReceipt, TickAt
  <1>2. CASE TickCaught
    <2>1. tick'.at = "next"
      BY <1>2, NextPlace DEF TickCaught, PortalInv, PortalTypeOK
    <2>2. NoEnd /\ NoMarkedSent
      BY <1>1, <2>1 DEF NoEnd, NoMarkedSent, Sent
    <2> QED
      BY <1>1, <1>2, <2>2, CaughtTells DEF Waits
  <1>3. CASE ~TickCaught
    <2>1. UNCHANGED <<saved, copy>> /\ TickGoto(IF tick.at = "receipt" THEN "clone" ELSE "activate")
      BY <1>3 DEF TickReceipt
    <2>2. PICK step \in {"clone", "activate"} :
             step = IF tick.at = "receipt" THEN "clone" ELSE "activate"
      OBVIOUS
    <2>3. GoesTo(step)
      BY <2>1, <2>2, GotoPlace DEF TickPcs, PortalInv, PortalTypeOK
    <2> QED
      BY <1>1, <2>1, <2>3, TickGoesTells DEF GoesTo
  <1> QED
    BY <1>2, <1>3

\* A marked job is written down as cancelled before it is sent: the operator
\* does not know it, or it counts as mistaken.
LEMMA TickCloneTells ==
  ASSUME PortalInv, TickClone
  PROVE  \A k \in Jobs : Tells(k)
  <1>1. PICK j \in Jobs : j = tick.job
    BY DEF TickClone, TickAt, PortalInv, WorkingOK
  <1>2. /\ tick.at = "clone" /\ UNCHANGED <<cancelling, late, reply>> /\ row' = row
    BY DEF TickClone, TickAt, vars, disk
  <1>3. CASE saved[j].cancel
    <2>1. PICK job \in JobRecs : job = [copy[j] EXCEPT !.status = "cancelled"]
      BY Zenon DEF PortalInv, PortalTypeOK, JobRecs, JobStatuses, Statuses
    <2>2. /\ Save(j, job) /\ copy' = [copy EXCEPT ![j] = saved'[j]] /\ TickNext /\ Unasked(j)
      BY <1>1, <1>3, <2>1 DEF TickClone
    <2>3. /\ saved' \in [Jobs -> JobRecs]
          /\ saved'[j].cancel <=> job.cancel \/ saved[j].cancel
          /\ \A k \in Jobs \ {j} : saved'[k] = saved[k]
      BY Zenon, <2>1, <2>2, SaveFields DEF PortalInv, PortalTypeOK
    <2>4. copy'[j] = saved'[j] /\ \A k \in Jobs \ {j} : copy'[k] = copy[k]
      BY <2>2, <2>3, CopyFields DEF PortalInv, PortalTypeOK
    <2>5. tick'.at = "next" /\ tick'.call = NoThread /\ tick'.seen = "none"
      BY <2>2 DEF TickNext, PortalInv, PortalTypeOK, Ticks
    <2>6. NoEnd /\ NoMarkedSent /\ mistaken \subseteq mistaken'
      BY <1>2, <2>2, <2>5 DEF NoEnd, NoMarkedSent, Sent, Unasked
    <2>7. True(j)
      <3>1. j \in mistaken' \/ (row[j].status = "none" /\ j \notin late)
        BY <2>2 DEF Unasked
      <3>2. j \in mistaken' => Excused(j)'
        BY DEF Excused
      <3>3. row[j].status = "none" /\ j \notin late => Unknown(j)'
        BY <1>2, <1>3, <2>3, <2>5 DEF Unknown, Sent
      <3> QED
        BY <3>1, <3>2, <3>3 DEF True
    <2> QED
      BY <1>2, <1>3, <2>3, <2>4, <2>5, <2>6, <2>7, TickSavesTells DEF Hopeless
  <1>4. CASE ~saved[j].cancel
    <2>1. TickGoto("sent") /\ UNCHANGED <<saved, copy, mistaken>>
      BY <1>1, <1>4 DEF TickClone
    <2>2. GoesTo("sent")
      BY <2>1, GotoPlace DEF TickPcs, PortalInv, PortalTypeOK
    <2> QED
      BY <1>1, <1>2, <1>4, <2>1, <2>2, TickGoesTells DEF GoesTo
  <1> QED
    BY <1>3, <1>4

\* What the tick hears is what the row says.
LEMMA TickHearsTells ==
  ASSUME PortalInv, TickSent \/ TickStatus
  PROVE  \A k \in Jobs : Tells(k)
  <1>1. PICK j \in Jobs : j = tick.job
    BY DEF TickSent, TickStatus, TickAt, PortalInv, WorkingOK
  <1>2. /\ UNCHANGED <<saved, copy, cancelling, mistaken, late, reply>> /\ tick.at # "rest"
        /\ tick'.at \in {"cloned", "decide"} /\ tick'.job = j /\ tick'.call = tick.call
        /\ tick'.seen = row'[j].status
    BY Zenon, <1>1 DEF TickSent, TickStatus, TickAt, PortalInv, PortalTypeOK, Ticks, vars, disk
  <1>3. NoEnd /\ NoMarkedSent
    BY <1>2 DEF NoEnd, NoMarkedSent, Sent
  <1>4. \A k \in Jobs : tick'.job = k /\ tick'.seen \in Hopeless => True(k)
    BY <1>2 DEF True, Dead
  <1> QED
    BY <1>1, <1>2, <1>3, <1>4, TickTells

\* And what it writes down.
LEMMA TickClonedTells ==
  ASSUME PortalInv, TickCloned \/ TickSettle
  PROVE  \A k \in Jobs : Tells(k)
  <1>1. PICK j \in Jobs : j = tick.job
    BY DEF TickCloned, TickSettle, TickAt, PortalInv, WorkingOK
  <1>2. PICK job \in JobRecs : job = [copy[j] EXCEPT !.status = tick.seen]
    BY Zenon DEF PortalInv, PortalTypeOK, JobRecs, JobStatuses, Ticks
  <1>3. /\ tick.at \in {"cloned", "settle"} /\ UNCHANGED <<cancelling, mistaken, late, reply>>
        /\ Save(j, job) /\ copy' = [copy EXCEPT ![j] = saved'[j]]
        /\ job.status = tick.seen /\ tick.call = NoThread
        /\ TickGoto("status") \/ TickGoto("register") \/ TickNext
    BY <1>1, <1>2 DEF TickCloned, TickSettle, TickAt, PortalInv, PortalTypeOK, WorkingOK, JobRecs
  <1>4. /\ saved' \in [Jobs -> JobRecs]
        /\ saved'[j].status = job.status
        /\ saved'[j].cancel <=> job.cancel \/ saved[j].cancel
        /\ \A k \in Jobs \ {j} : saved'[k] = saved[k]
    BY <1>3, SaveFields DEF PortalInv, PortalTypeOK
  <1>5. copy'[j] = saved'[j] /\ \A k \in Jobs \ {j} : copy'[k] = copy[k]
    BY <1>3, <1>4, CopyFields DEF PortalInv, PortalTypeOK
  <1>6. /\ tick'.at # "sent" /\ tick'.call = NoThread
        /\ tick'.seen = "none" \/ (tick'.seen = tick.seen /\ tick'.job = tick.job)
    BY Zenon, <1>3 DEF TickGoto, TickNext, PortalInv, PortalTypeOK, Ticks
  <1>7. NoEnd /\ NoMarkedSent
    BY <1>3, <1>6 DEF NoEnd, NoMarkedSent, Sent
  <1>8. saved'[j].status \in Hopeless => True(j)
    BY <1>1, <1>3, <1>4 DEF True, Told
  <1> QED
    BY <1>3, <1>4, <1>5, <1>6, <1>7, <1>8, TickSavesTells DEF Hopeless

\* A cancel or an activation begins, with no answer yet.
LEMMA TickCallTells ==
  ASSUME PortalInv, NEW t \in Threads, TickCancel(t) \/ TickActivate(t)
  PROVE  \A k \in Jobs : Tells(k)
  <1>1. /\ UNCHANGED <<saved, copy, cancelling, mistaken, late, reply>> /\ tick.at # "rest"
        /\ tick'.at = "wait" /\ tick'.job = tick.job /\ tick'.call = t
        /\ tick'.seen = tick.seen /\ reply[t] = "none"
    BY Zenon DEF TickCancel, TickActivate, TickAt, Free, PortalInv, PortalTypeOK, Ticks
  <1> QED
    BY <1>1, TickGoesTells

\* The ways to the catch clause: the request that was not answered may arrive.
LEMMA TickCaughtTells ==
  ASSUME PortalInv, TickRefused \/ TickGivesUp \/ TickRegisterFails
  PROVE  \A k \in Jobs : Tells(k)
  <1>1. /\ tick.at \in Waits \cup {"register"} /\ TickCaught /\ UNCHANGED <<cancelling, mistaken>>
    BY DEF TickRefused, TickGivesUp, TickRegisterFails, TickAt, Waits
  <1>2. NoEnd
    BY DEF TickRefused, TickGivesUp, TickRegisterFails, NoEnd, Hopeless
  <1>3. tick'.at = "next"
    BY <1>1, NextPlace DEF TickCaught, PortalInv, PortalTypeOK
  <1>4. NoMarkedSent
    BY <1>3 DEF TickRefused, TickGivesUp, TickRegisterFails, NoMarkedSent, Sent
  <1> QED
    BY <1>1, <1>2, <1>4, CaughtTells

\* The answer of cancel or activate.
LEMMA TickAnsweredTells ==
  ASSUME PortalInv, TickAnswered
  PROVE  \A k \in Jobs : Tells(k)
  <1>1. PICK j \in Jobs : j = tick.job
    BY DEF TickAnswered, TickAt, PortalInv, WorkingOK
  <1>2. /\ tick.at = "wait" /\ UNCHANGED <<cancelling, mistaken, late>> /\ tick.call \in Threads
        /\ \A t \in Threads : reply'[t] # reply[t] => reply'[t] = "none"
    BY HostingConstants
       DEF TickAnswered, TickAt, PortalInv, PortalTypeOK, WorkingOK, Ticks
  <1>3. NoEnd
    BY <1>2 DEF NoEnd, Hopeless
  <1>4. CASE reply[tick.call] = "error"
    <2>1. TickCaught
      BY <1>4 DEF TickAnswered
    <2>2. tick'.at = "next"
      BY <2>1, NextPlace DEF TickCaught, PortalInv, PortalTypeOK
    <2>3. NoMarkedSent
      BY <1>2, <2>2 DEF NoMarkedSent, Sent
    <2> QED
      BY <1>2, <1>3, <2>1, <2>3, CaughtTells DEF Waits
  <1>5. CASE reply[tick.call] # "error"
    <2>1. UNCHANGED <<saved, copy>>
      BY <1>5 DEF TickAnswered
    <2>2. PICK step \in {"cancel", "settle"} : step = AfterCall(reply[tick.call], saved[tick.job].cancel)
      BY DEF AfterCall
    <2>3. /\ tick'.at = step /\ tick'.job = j /\ tick'.call = NoThread /\ tick'.seen = reply[tick.call]
      <3>1. PICK seen : seen = reply[tick.call]
        OBVIOUS
      <3>2. tick' = [tick EXCEPT !.call = NoThread, !.seen = seen, !.at = step]
        BY <1>5, <2>2, <3>1 DEF TickAnswered
      <3> QED
        BY <1>1, <3>1, <3>2 DEF PortalInv, PortalTypeOK, Ticks
    <2>4. NoMarkedSent
      BY <1>2, <2>3 DEF NoMarkedSent, Sent
    <2>5. \A k \in Jobs : tick'.job = k /\ tick'.seen \in Hopeless => True(k)
      BY Zenon, <1>1, <1>2, <2>3 DEF True, Told
    <2> QED
      BY <1>2, <1>3, <2>1, <2>3, <2>4, <2>5, TickTells, HostingConstants
  <1> QED
    BY <1>4, <1>5

\* The catalog, and the mark in the job.
LEMMA TickRegisterTells ==
  ASSUME PortalInv, TickRegister
  PROVE  \A k \in Jobs : Tells(k)
  <1>1. /\ tick.at = "register" /\ UNCHANGED <<saved, copy, cancelling, mistaken, late, reply>>
        /\ TickGoto("mark") \/ TickNext
    BY DEF TickRegister
  <1>2. CASE TickGoto("mark")
    <2>1. GoesTo("mark")
      BY <1>2, GotoPlace DEF TickPcs, PortalInv, PortalTypeOK
    <2> QED
      BY <1>1, <2>1, TickGoesTells DEF GoesTo
  <1>3. CASE TickNext
    <2>1. tick'.at = "next" /\ tick'.call = NoThread /\ tick'.seen = "none"
      BY <1>3 DEF TickNext, PortalInv, PortalTypeOK, Ticks
    <2>2. NoEnd /\ NoMarkedSent
      BY <1>1, <2>1 DEF NoEnd, NoMarkedSent, Sent
    <2> QED
      BY <1>1, <2>1, <2>2, TickTells, HostingConstants DEF Hopeless
  <1> QED
    BY <1>1, <1>2, <1>3

LEMMA TickMarkTells ==
  ASSUME PortalInv, TickMark
  PROVE  \A k \in Jobs : Tells(k)
  <1>1. PICK j \in Jobs : j = tick.job
    BY DEF TickMark, PortalInv, WorkingOK
  <1>2. PICK job \in JobRecs : job = [copy[j] EXCEPT !.registered = TRUE]
    BY Zenon DEF PortalInv, PortalTypeOK, JobRecs
  <1>3. /\ tick.at = "mark" /\ UNCHANGED <<cancelling, mistaken, late, reply>>
        /\ Save(j, job) /\ copy' = [copy EXCEPT ![j] = saved'[j]]
        /\ job.status = copy[j].status /\ TickNext
    BY <1>1, <1>2 DEF TickMark, PortalInv, PortalTypeOK, JobRecs
  <1>4. /\ saved' \in [Jobs -> JobRecs]
        /\ saved'[j].status = job.status
        /\ saved'[j].cancel <=> job.cancel \/ saved[j].cancel
        /\ \A k \in Jobs \ {j} : saved'[k] = saved[k]
    BY <1>3, SaveFields DEF PortalInv, PortalTypeOK
  <1>5. copy'[j] = saved'[j] /\ \A k \in Jobs \ {j} : copy'[k] = copy[k]
    BY <1>3, <1>4, CopyFields DEF PortalInv, PortalTypeOK
  <1>6. tick'.at = "next" /\ tick'.call = NoThread /\ tick'.seen = "none"
    BY <1>3 DEF TickNext, PortalInv, PortalTypeOK, Ticks
  <1>7. NoEnd /\ NoMarkedSent
    BY <1>3, <1>6 DEF NoEnd, NoMarkedSent, Sent
  <1>8. saved'[j].status \in Hopeless => True(j)
    BY <1>3, <1>4 DEF True, Told
  <1> QED
    BY <1>3, <1>4, <1>5, <1>6, <1>7, <1>8, TickSavesTells DEF Hopeless

\* A step that changes nothing of what the portal was told.
LEMMA SilentTells ==
  ASSUME UNCHANGED <<saved, tick, copy, cancelling, mistaken, reply, late>>
  PROVE  \A k \in Jobs : Tells(k)
  <1> SUFFICES ASSUME NEW k \in Jobs PROVE Tells(k)
    OBVIOUS
  <1>1. Told(k)' => Told(k)
    BY DEF Told
  <1> QED
    BY <1>1 DEF Tells, Sent, True

\* A job no tick works on is written down as cancelled: the operator does not
\* know it, or it counts as mistaken.
LEMMA CancelRequestTells ==
  ASSUME PortalInv, NEW j \in Jobs, CancelRequest(j)
  PROVE  \A k \in Jobs : Tells(k)
  <1>1. PICK own \in JobRecs : own = [saved[j] EXCEPT !.cancel = TRUE]
    BY Zenon DEF PortalInv, PortalTypeOK, JobRecs
  <1>2. own.status = saved[j].status /\ own.cancel
    BY <1>1 DEF PortalInv, PortalTypeOK, JobRecs
  <1>3. /\ UNCHANGED <<tick, copy, late, reply>> /\ row' = row
        /\ cancelling.at = "rest" /\ cancelling.call = NoThread
    BY DEF CancelRequest, NotCancelling, vars, disk
  <1>4. NoEnd
    BY <1>3 DEF NoEnd
  <1>5. CASE OwnJobUnknown(j)
    <2>1. /\ tick.at = "rest" /\ UNCHANGED cancelling /\ Unasked(j)
          /\ saved' = [saved EXCEPT ![j] = [own EXCEPT !.status = "cancelled"]]
      BY <1>1, <1>5 DEF CancelRequest, OwnJobUnknown
    <2>2. PICK job \in JobRecs : job = [own EXCEPT !.status = "cancelled"]
      BY Zenon DEF JobRecs, JobStatuses, Statuses
    <2>3. job.cancel
      BY <1>2, <2>2 DEF JobRecs
    <2>4. saved'[j] = job /\ \A k \in Jobs \ {j} : saved'[k] = saved[k]
      BY <2>1, <2>2 DEF PortalInv, PortalTypeOK
    <2>5. j \in mistaken' \/ (row[j].status = "none" /\ j \notin late)
      BY <2>1 DEF Unasked
    <2>6. True(j) /\ mistaken \subseteq mistaken'
      BY Zenon, <1>3, <2>1, <2>3, <2>4, <2>5 DEF True, Excused, Unknown, Sent, Unasked
    <2> QED
      BY Zenon, <1>3, <1>4, <2>1, <2>3, <2>4, <2>6, CancelSavesTells, HostingConstants
  <1>6. CASE ~OwnJobUnknown(j)
    <2>1. /\ Save(j, own) /\ UNCHANGED mistaken
          /\ cancelling' = [NotCancelling EXCEPT !.at = "call", !.job = j, !.own = own]
      BY <1>1, <1>6 DEF CancelRequest
    <2>2. /\ saved'[j].status = own.status
          /\ saved'[j].cancel
          /\ \A k \in Jobs \ {j} : saved'[k] = saved[k]
      BY <1>2, <2>1, SaveFields DEF PortalInv, PortalTypeOK
    <2>3. cancelling'.at = "call" /\ cancelling'.job = j /\ cancelling'.own = own /\ cancelling'.call = NoThread
      BY <2>1 DEF NotCancelling
    <2>4. own.status \in Hopeless => True(j)
      BY <1>2 DEF True, Told
    <2> QED
      BY <1>3, <1>4, <2>1, <2>2, <2>3, <2>4, CancelSavesTells, HostingConstants
  <1> QED
    BY <1>5, <1>6

\* A cancel of the owner begins in the operator, or comes to its catalog entry.
LEMMA CancelCallTells ==
  ASSUME PortalInv, CancelCatalog \/ CancelCatalogFails \/ \E t \in Threads : CancelCall(t)
  PROVE  \A k \in Jobs : Tells(k)
  <1>1. PICK j \in Jobs : j = cancelling.job
    BY Zenon DEF CancelCall, CancelCatalog, CancelCatalogFails, PortalInv, WorkingOK
  <1>2. /\ UNCHANGED <<saved, tick, copy, mistaken, late, reply>> /\ NoEnd
        /\ cancelling.at \in {"call", "catalog"}
    BY Zenon DEF CancelCall, CancelCatalog, CancelCatalogFails, NoEnd
  <1>3. saved[j].cancel
    BY <1>1, <1>2 DEF PortalInv, OwnOK
  <1>4. saved[j].status \in Hopeless \/ cancelling.own.status \in Hopeless => True(j)
    BY <1>1, <1>2 DEF True, Told
  <1>5. CASE CancelCatalog \/ CancelCatalogFails
    <2>1. cancelling'.at = "rest" /\ cancelling'.call = NoThread
      BY <1>5 DEF CancelCatalog, CancelCatalogFails, NotCancelling
    <2> QED
      BY <1>2, <1>3, <1>4, <2>1, CancelSavesTells, HostingConstants
  <1>6. ASSUME NEW t \in Threads, CancelCall(t) PROVE \A k \in Jobs : Tells(k)
    <2>1. cancelling'.job = j /\ cancelling'.own = cancelling.own /\ cancelling'.call = t /\ reply[t] = "none"
      BY Zenon, <1>1, <1>6 DEF CancelCall, Free, PortalInv, PortalTypeOK, Cancellings
    <2> QED
      BY <1>2, <1>3, <1>4, <2>1, CancelSavesTells
  <1> QED
    BY <1>5, <1>6

\* What the operator answered is written down, or what was.
LEMMA CancelEndsTells ==
  ASSUME PortalInv, cancelling.at \in {"call", "wait"}, NEW own \in JobRecs, CancelEnds(own),
         UNCHANGED <<tick, copy, mistaken, late>>, NoEnd,
         NEW j \in Jobs, j = cancelling.job, own.status \in Hopeless => True(j)
  PROVE  \A k \in Jobs : Tells(k)
  <1>1. /\ saved'[j].status = own.status
        /\ saved'[j].cancel <=> own.cancel \/ saved[j].cancel
        /\ \A k \in Jobs \ {j} : saved'[k] = saved[k]
    BY SaveFields DEF CancelEnds, PortalInv, PortalTypeOK
  <1>2. saved'[j].cancel
    BY <1>1 DEF PortalInv, OwnOK
  <1>3. /\ cancelling'.call = NoThread
        /\ cancelling'.at = "rest" \/ (cancelling'.job = j /\ cancelling'.own = own)
    BY DEF CancelEnds, NotCancelling, PortalInv, PortalTypeOK, Cancellings
  <1> QED
    BY <1>1, <1>2, <1>3, CancelSavesTells, HostingConstants

\* The three ways a cancel ends.
LEMMA CancelEndTells ==
  ASSUME PortalInv, CancelAnswered \/ CancelRefused \/ CancelGivesUp
  PROVE  \A k \in Jobs : Tells(k)
  <1>1. cancelling.at \in {"call", "wait"} /\ UNCHANGED <<tick, copy, mistaken, late>>
    BY DEF CancelAnswered, CancelRefused, CancelGivesUp
  <1>2. NoEnd
    BY DEF CancelAnswered, CancelRefused, CancelGivesUp, NoEnd, Hopeless, PortalInv, PortalTypeOK
  <1>3. PICK j \in Jobs : j = cancelling.job
    BY <1>1 DEF PortalInv, WorkingOK
  <1>4. PICK own \in JobRecs : own = cancelling.own
    BY DEF PortalInv, PortalTypeOK, Cancellings
  <1>5. CASE CancelEnds(own)
    <2>1. own.status \in Hopeless => True(j)
      BY <1>1, <1>3, <1>4 DEF True, Told
    <2> QED
      BY <1>1, <1>2, <1>3, <1>5, <2>1, CancelEndsTells
  <1>6. ASSUME CancelAnswered, reply[cancelling.call] # "error" PROVE \A k \in Jobs : Tells(k)
    <2>1. cancelling.call \in Threads
      BY <1>6, HostingConstants DEF CancelAnswered, PortalInv, PortalTypeOK, WorkingOK, Cancellings
    <2>2. PICK status \in Statuses : status = reply[cancelling.call]
      BY <1>6, <2>1 DEF CancelAnswered, PortalInv, PortalTypeOK
    <2>3. PICK new \in JobRecs : new = [own EXCEPT !.status = status]
      BY Zenon DEF JobRecs, JobStatuses
    <2>4. new.status = status /\ CancelEnds(new)
      BY <1>4, <1>6, <2>2, <2>3 DEF CancelAnswered, JobRecs
    <2>5. status \in Hopeless => True(j)
      BY <1>3, <2>1, <2>2 DEF True, Told
    <2> QED
      BY <1>1, <1>2, <1>3, <2>4, <2>5, CancelEndsTells
  <1> QED
    BY <1>4, <1>5, <1>6 DEF CancelAnswered, CancelRefused, CancelGivesUp

\* A clone request and visibility tell nothing.
LEMMA RequestsTell ==
  ASSUME PortalInv,
         \/ \E j \in Jobs : CloneRequest(j) \/ CloneAuthorized(j)
         \/ \E x \in Targets : ChangeVisibility(x) \/ VisibilityChanged(x)
  PROVE  \A k \in Jobs : Tells(k)
  <1>1. UNCHANGED <<tick, copy, cancelling, mistaken, reply, late>>
    BY DEF CloneRequest, CloneAuthorized, ChangeVisibility, VisibilityChanged
  <1>2. CASE UNCHANGED saved
    BY <1>1, <1>2, SilentTells
  <1>3. ASSUME NEW j \in Jobs, CloneAuthorized(j), saved[j] = Absent,
               Save(j, [Absent EXCEPT !.status = "authorized"])
        PROVE  \A k \in Jobs : Tells(k)
    <2>1. PICK job \in JobRecs : job = [Absent EXCEPT !.status = "authorized"]
      BY Zenon DEF Absent, JobRecs, JobStatuses
    <2>2. job.status = "authorized" /\ ~saved[j].cancel
      BY <1>3, <2>1 DEF Absent
    <2>3. saved'[j].status = "authorized" /\ \A k \in Jobs \ {j} : saved'[k] = saved[k]
      BY Zenon, <1>3, <2>1, <2>2, SaveFields DEF PortalInv, PortalTypeOK
    <2>4. ASSUME NEW k \in Jobs PROVE Told(k)' => Told(k)
      BY <1>1, <2>3 DEF Told, Hopeless
    <2> QED
      BY <1>1, <2>2, <2>3, <2>4 DEF Tells, Sent, True
  <1> QED
    BY <1>2, <1>3 DEF CloneRequest, CloneAuthorized, ChangeVisibility, VisibilityChanged

\* After a restart the portal knows only what it saved.
LEMMA RestartTells ==
  ASSUME PortalInv, PortalRestart
  PROVE  \A k \in Jobs : Tells(k)
  <1>1. /\ UNCHANGED <<saved, mistaken>>
        /\ tick'.at = "rest" /\ tick'.seen = "none" /\ cancelling'.at = "rest"
        /\ late' = IF tick.at = "sent" THEN late \cup {tick.job} ELSE late
        /\ \A t \in Threads : reply'[t] = "none"
    BY DEF PortalRestart, Resting, NotCancelling
  <1>2. ASSUME NEW k \in Jobs PROVE Told(k)' => Told(k)
    BY <1>1 DEF Told, Hopeless
  <1> QED
    BY <1>1, <1>2 DEF Tells, Sent, True

\* The operator answers with what the row says, or with nothing new.
LEMMA OperatorSideTells ==
  ASSUME PortalInv, GateInv, OperatorSide \/ OperatorCrash
  PROVE  \A k \in Jobs : Tells(k)
  <1>1. UNCHANGED portal /\ late' \subseteq late
    BY DEF OperatorSide, OperatorCrash, BuildStep, BootStep, ServeStep, Respond, LateClone, portal
  <1>2. ASSUME NEW t \in Threads, reply'[t] \in Hopeless, reply'[t] # reply[t]
        PROVE  \E c \in {tick, cancelling} : c.call = t /\ reply'[t] = row'[c.job].status
    <2>1. ASSUME NEW u \in Threads, ServeStep(u) PROVE FALSE
      BY <1>2, <2>1 DEF ServeStep, Answer, Hopeless, PortalInv, PortalTypeOK
    <2>2. ASSUME NEW u \in Threads, Respond(u)
          PROVE  \E c \in {tick, cancelling} : c.call = t /\ reply'[t] = row'[c.job].status
      <3>1. PICK c \in {tick, cancelling} :
               c.call = u /\ reply' = [reply EXCEPT ![u] = row[c.job].status]
        BY Zenon, <2>2 DEF Respond
      <3>2. t = u /\ reply'[t] = row[c.job].status /\ row' = row
        BY <1>2, <2>2, <3>1 DEF Respond, PortalInv, PortalTypeOK, vars, disk
      <3> QED
        BY <3>1, <3>2
    <2>3. ~OperatorCrash
      BY <1>2 DEF OperatorCrash, Hopeless
    <2> QED
      BY <1>2, <2>1, <2>2, <2>3 DEF OperatorSide, BuildStep, BootStep, LateClone
  <1> QED
    BY <1>1, <1>2, OperatorTells

\* Every step of the composition.
LEMMA HostingStepTells ==
  ASSUME PortalInv, GateInv, [HostingNext]_hostingVars
  PROVE  \A k \in Jobs : Tells(k)
  <1>1. CASE UNCHANGED hostingVars
    BY <1>1, SilentTells DEF hostingVars, portal
  <1>2. CASE OperatorSide \/ OperatorCrash
    BY <1>2, OperatorSideTells
  <1>3. CASE TickSteps \/ TickGivesUp \/ TickRegisterFails
    BY <1>3, TickStartTells, TickJobTells, TickGateTells, TickReceiptTells, TickCloneTells, TickHearsTells,
       TickClonedTells, TickCallTells, TickCaughtTells, TickAnsweredTells, TickRegisterTells, TickMarkTells
       DEF TickSteps
  <1>4. CASE CancelSteps \/ CancelGivesUp \/ CancelCatalogFails
    BY <1>4, CancelCallTells, CancelEndTells DEF CancelSteps
  <1>5. CASE \E j \in Jobs : CloneRequest(j) \/ CloneAuthorized(j) \/ CancelRequest(j)
    BY <1>5, RequestsTell, CancelRequestTells
  <1>6. CASE \E x \in Targets : ChangeVisibility(x) \/ VisibilityChanged(x)
    BY <1>6, RequestsTell
  <1>7. CASE PortalRestart
    BY <1>7, RestartTells
  <1> QED
    BY <1>1, <1>2, <1>3, <1>4, <1>5, <1>6, <1>7 DEF HostingNext

-----------------------------------------------------------------------------
(* What was true when it was heard stays true.                                *)

\* Only a clone request that was sent brings a job into the table.
LEMMA UnsentUnknown ==
  ASSUME Inv, CallsOK, PortalInv, [HostingNext]_hostingVars, NEW k \in Jobs,
         row[k].status = "none", ~Sent(k)
  PROVE  row'[k].status = "none"
  <1>1. \/ \E t \in Threads : ThreadStep(t)
        \/ WorkerStep \/ Boot \/ Crash \/ UNCHANGED vars
        \/ \E j \in Jobs \ {k}, tgt \in Targets : Clone(j, tgt)
        \/ \E t \in Threads, j \in Jobs : CancelRead(t, j) \/ ActivateBegin(t, j)
    <2>1. CASE OperatorSide \/ OperatorCrash
      <3>1. ASSUME NEW j \in Jobs, LateClone(j)
            PROVE  UNCHANGED vars \/ \E i \in Jobs \ {k}, tgt \in Targets : Clone(i, tgt)
        BY <3>1, HostingConstants DEF LateClone, Sent
      <3> QED
        BY <2>1, <3>1 DEF OperatorSide, OperatorCrash, BuildStep, BootStep, ServeStep, Respond
    <2>2. CASE TickSent
      <3>1. PICK j \in Jobs : j = tick.job
        BY <2>2 DEF TickSent, TickAt, PortalInv, WorkingOK
      <3>2. j # k /\ (UNCHANGED vars \/ Clone(j, TargetOf[j]))
        BY <2>2, <3>1 DEF TickSent, TickAt, Sent
      <3> QED
        BY <3>1, <3>2, HostingConstants
    <2>3. ASSUME NEW t \in Threads, TickCancel(t) \/ TickActivate(t)
          PROVE  \E j \in Jobs : CancelRead(t, j) \/ ActivateBegin(t, j)
      <3>1. PICK j \in Jobs : j = tick.job
        BY <2>3 DEF TickCancel, TickActivate, TickAt, PortalInv, WorkingOK
      <3> QED
        BY <2>3, <3>1 DEF TickCancel, TickActivate
    <2>4. ASSUME NEW t \in Threads, CancelCall(t) PROVE \E j \in Jobs : CancelRead(t, j)
      <3>1. PICK j \in Jobs : j = cancelling.job
        BY <2>4 DEF CancelCall, PortalInv, WorkingOK
      <3> QED
        BY <2>4, <3>1 DEF CancelCall
    <2>5. CASE TickSteps
      BY Zenon, <2>2, <2>3, <2>5 DEF TickSteps, TickStart, TickEnd, TickGate, TickReceipt, TickClone,
         TickCloned, TickStatus, TickDecide, TickRefused, TickAnswered, TickSettle,
         TickRegister, TickMark, TickJob
    <2>6. CASE CancelSteps
      BY <2>4, <2>6 DEF CancelSteps, CancelAnswered, CancelRefused, CancelCatalog
    <2>7. ASSUME NEW j \in Jobs, CloneRequest(j) \/ CloneAuthorized(j) \/ CancelRequest(j)
          PROVE  UNCHANGED vars
      BY <2>7 DEF CloneRequest, CloneAuthorized, CancelRequest
    <2>8. ASSUME NEW x \in Targets, ChangeVisibility(x) \/ VisibilityChanged(x) PROVE UNCHANGED vars
      BY <2>8 DEF ChangeVisibility, VisibilityChanged
    <2> QED
      BY <2>1, <2>5, <2>6, <2>7, <2>8
         DEF HostingNext, TickGivesUp, TickRegisterFails, CancelGivesUp, CancelCatalogFails, PortalRestart,
             hostingVars
  <1> QED
    BY <1>1, UnknownRow

\* Nothing is excused that is not excused later.
LEMMA HistoryGrows ==
  ASSUME Inv, CallsOK, [Next]_vars
  PROVE  swallowed \subseteq swallowed' /\ orphaned \subseteq orphaned'
  <1>1. ASSUME NEW t \in Threads, ThreadStep(t)
        PROVE  swallowed \subseteq swallowed' /\ orphaned \subseteq orphaned'
    <2>1. PICK j \in Jobs : j = proc[t].job
      BY <1>1, MovingThread
    <2> QED
      BY <1>1, <2>1, ThreadStepMoves DEF Moved
  <1>2. CASE WorkerStep /\ ~Take
    <2>1. PICK j \in Jobs : j = proc[Worker].job
      BY <1>2, MovingWorker
    <2> QED
      BY <1>2, <2>1, WorkerStepMoves DEF Moved
  <1>3. CASE Take \/ Crash \/ Boot \/ Request \/ UNCHANGED vars
    BY <1>3 DEF Take, Crash, Boot, BootMark, BootStop, BootServe, Request, Clone, CancelRead,
       ActivateBegin, vars
  <1> QED
    BY <1>1, <1>2, <1>3 DEF Next, WorkerStep

\* Every step of the composition keeps the invariant.
LEMMA HostingStepForgets ==
  Inv /\ DownInv /\ PortalInv /\ GateInv /\ ForgetInv /\ [HostingNext]_hostingVars => ForgetInv'
  <1> SUFFICES ASSUME Inv, DownInv, PortalInv, GateInv, ForgetInv, [HostingNext]_hostingVars,
                      NEW j \in Jobs, ~Excused(j)', Told(j)'
               PROVE  Dead(j)' \/ Unknown(j)'
    BY DEF ForgetInv, ToldOK
  <1>1. [Next]_vars /\ CallsOK
    BY StepOfTheOperator DEF PortalInv, DownInv
  <1>2. Tells(j)
    BY HostingStepTells
  <1>3. Dead(j) => Dead(j)'
    BY <1>1, DeadStays DEF Excused
  <1>4. Unknown(j) => Unknown(j)'
    BY <1>1, <1>2, UnsentUnknown DEF Unknown, Tells
  <1>5. ~Excused(j)
    BY <1>1, <1>2, HistoryGrows DEF Excused, Tells
  <1> QED
    BY <1>2, <1>3, <1>4, <1>5 DEF Tells, True, ForgetInv, ToldOK

\* The inductive invariant of what the portal was told: the owner's cancel, the
\* tick and the answers of the operator say that a job ended only when the
\* operator is done with it, or has never heard of it and will not.
THEOREM ToldIsTrue == HostingSpec => []ForgetInv
  <1>1. HostingInit => ForgetInv
    BY DEF HostingInit, ForgetInv, ToldOK, Told, Absent, Resting, NotCancelling, Hopeless
  <1>2. HostingSpec => []DownInv
    BY HostingImplementsOperator, EndingInvariant, PTL
  <1> QED
    BY <1>1, <1>2, HostingInvariant, ServingIsGated, HostingStepForgets, PTL DEF HostingSpec

\* The portal lets go of a cancelled job only when it has ended in the operator,
\* although the cancel of the owner, the tick, the copy and the activation
\* overwrite each other's copies and rows, and calls are lost or come late.
THEOREM CancelNotForgottenHolds == HostingSpec => []CancelNotForgotten
  <1>1. ForgetInv => CancelNotForgotten
    <2> SUFFICES ASSUME ForgetInv, NEW j \in Jobs, Quiet(j),
                        saved[j].status \in Terminal \ {"available"}, ~Excused(j)
                 PROVE  Ended(j)
      BY DEF CancelNotForgotten, Excused
    <2>1. Told(j)
      BY DEF Told, Terminal, Hopeless
    <2>2. Dead(j) \/ row[j].status = "none"
      BY <2>1 DEF ForgetInv, ToldOK, Unknown
    <2>3. daemon = "up" /\ \A t \in Threads : ~Activates(t, j)
      BY DEF Quiet, Activates, Agents
    <2> QED
      BY <2>2, <2>3 DEF Dead, Ended, Hopeless
  <1> QED
    BY <1>1, ToldIsTrue, PTL
=============================================================================
