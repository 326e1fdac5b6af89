------------------------- MODULE HostUpdatesProofs --------------------------
(* The safety of the maintenance of the host, for every set of operations and *)
(* any number of faults: an upgrade that may still change packages keeps the  *)
(* host closed, a reboot that may still come does too, and the two exclude    *)
(* each other although every record can be decided from what was read before. *)
EXTENDS HostUpdates, TLAPS

----------------------------------------------------------------------------
(* The inductive invariant                                                    *)

Statuses == {"none", "queued", "running", "succeeded", "failed", "interrupted"}
Intents == {"none", "queued", "waiting", "verifying", "succeeded"}
Spools == {"none", "running", "succeeded", "failed"}
Changes == {"untouched", "changing", "done", "broken"}
JobSteps == {"dispatch", "run", "wait", "finish", "except"}
RebootSteps == {"schedule", "save"}
Records == [kind : HostKinds \cup {"none"}, status : Statuses, recovery : BOOLEAN]
Executions == [dispatched : BOOLEAN, verified : BOOLEAN, overdue : BOOLEAN]
Reboots == [ack : BOOLEAN, intent : Intents, before : Nat]
Workers == [spool : Spools, alive : BOOLEAN, apt : Changes]
Runners == [op : Ops \cup {NoOp}, at : {"idle", "lock"} \cup JobSteps \cup RebootSteps,
            intent : Intents]
Polls == [op : Ops \cup {NoOp}, rec : Records, local : BOOLEAN, spool : Spools,
          alive : {"yes", "no", "unknown", "error"}]

HostTyped ==
    /\ ops \in [Ops -> Records] /\ execution \in [Ops -> Executions]
    /\ reboot \in [Ops -> Reboots] /\ worker \in [Ops -> Workers]
    /\ waiting \in Seq(Ops) /\ runner \in Runners /\ poll \in Polls
    /\ bridge \in [up : BOOLEAN, child : Ops \cup {NoOp}]
    /\ boot \in Nat /\ timer \subseteq Ops

Occurs(o, q) == \E i \in 1 .. Len(q) : q[i] = o
Distinct(q) == \A i, j \in 1 .. Len(q) : q[i] = q[j] => i = j
Queued(o) == Occurs(o, waiting)

\* An operation has one place at a time: the queue, the executor, the timer.
QueueOK ==
    /\ Distinct(waiting)
    /\ runner.at = "idle" <=> runner.op = NoOp
    /\ runner.at \in JobSteps => ops[runner.op].kind # "reboot"
    /\ runner.at \in RebootSteps => ops[runner.op].kind = "reboot"
    /\ \A o \in Ops :
          /\ ops[o].kind = "none" => ops[o] = NoRecord
          /\ Queued(o) => ops[o].kind # "none" /\ runner.op # o
          /\ runner.op = o => ops[o].kind # "none"
          /\ ops[o].kind = "reboot" /\ (Queued(o) \/ runner.op = o) => reboot[o].ack
          /\ o \in timer => /\ ops[o].kind = "reboot" /\ reboot[o].ack /\ ~Queued(o)
                            /\ boot = reboot[o].before
                            /\ runner.op = o => runner.at = "save"
          /\ reboot[o].before \leq boot

\* A worker runs for a dispatched operation only, and what its spool says of
\* APT is true.
WorkerOK ==
    /\ runner.at = "run" => worker[runner.op].spool = "none" /\ ~worker[runner.op].alive
    /\ runner.at \in {"run", "wait", "finish"} => execution[runner.op].dispatched
    /\ runner.at = "finish" => worker[runner.op].spool = "succeeded"
    /\ \A o \in Ops :
          /\ Queued(o) \/ (runner.op = o /\ runner.at \in {"lock", "dispatch"}) =>
                ~execution[o].dispatched
          /\ execution[o].dispatched => ops[o].kind \in {"upgrade", "check"}
          /\ ~execution[o].dispatched =>
                ~worker[o].alive /\ worker[o].spool = "none" /\ ~execution[o].verified
          /\ worker[o].spool = "none" => worker[o].apt = "untouched"
          /\ worker[o].apt # "untouched" => ops[o].kind = "upgrade"
          /\ worker[o].apt = "changing" => worker[o].alive /\ worker[o].spool = "running"
          /\ worker[o].apt = "broken" => ~worker[o].alive /\ worker[o].spool # "succeeded"
          /\ worker[o].spool = "succeeded" /\ ops[o].kind = "upgrade" => worker[o].apt = "done"
          /\ execution[o].verified => worker[o].spool = "succeeded"

\* What a reconciliation has read is old, but a success stays one.
PollOK ==
    poll # NoPoll =>
        /\ poll.op \in Ops /\ poll.rec.kind = ops[poll.op].kind
        /\ poll.rec.kind \in {"upgrade", "check"}
        /\ poll.spool = "succeeded" => worker[poll.op].spool = "succeeded"

\* An operation that keeps every other out.
Open(o) == Live(o) \/ ops[o].recovery

\* An upgrade that may yet change packages, and a reboot that may yet come.
MayChange(o) ==
    /\ ops[o].kind = "upgrade"
    /\ \/ Queued(o)
       \/ runner.op = o /\ runner.at \in {"lock", "dispatch", "run"}
       \/ worker[o].alive /\ worker[o].spool # "succeeded"
MayReboot(o) ==
    /\ ops[o].kind = "reboot" /\ boot = reboot[o].before
    /\ \/ Queued(o) \/ runner.op = o \/ o \in timer
       \/ Live(o) /\ ~reboot[o].ack /\ reboot[o].intent = "queued"

OpenOK == \A o \in Ops : MayChange(o) \/ worker[o].apt = "broken" \/ MayReboot(o) => Open(o)
Exclusive == \A o, p \in Ops : ~(MayReboot(o) /\ MayChange(p))

\* An upgrade is reported as done after its worker has said so.
SuccessOK ==
    \A o \in Ops : ops[o].kind = "upgrade" /\ ops[o].status = "succeeded" =>
        worker[o].spool = "succeeded"

HostInv ==
    /\ HostTyped /\ QueueOK /\ WorkerOK /\ PollOK
    /\ OpenOK /\ Exclusive /\ SuccessOK

----------------------------------------------------------------------------
(* The outcome of an operation                                                *)

\* What a decision about operation o does: it changes that operation alone,
\* reports a success only after one, and closes an upgrade only after a success
\* of its worker or when the worker was never started.
Decided(o) ==
    /\ ops' \in [Ops -> Records] /\ execution' \in [Ops -> Executions]
    /\ \A p \in Ops \ {o} : ops'[p] = ops[p] /\ execution'[p] = execution[p]
    /\ ops'[o].kind = ops[o].kind /\ execution'[o].dispatched = execution[o].dispatched
    /\ execution'[o].verified => worker[o].spool = "succeeded"
    /\ ops[o].kind = "upgrade" =>
          /\ ops'[o].status = "succeeded" => worker[o].spool = "succeeded"
          /\ \/ ops'[o].status \in {"queued", "running"} \/ ops'[o].recovery
             \/ worker[o].spool = "succeeded"
             \/ ~execution[o].dispatched /\ runner.op = o /\ runner.at = "except"

\* SetStatus changes two fields of one record.
LEMMA StatusSet ==
  ASSUME NEW o \in Ops, NEW s \in Statuses, NEW r \in BOOLEAN,
         ops \in [Ops -> Records], SetStatus(o, s, r)
  PROVE  /\ ops' \in [Ops -> Records]
         /\ \A p \in Ops \ {o} : ops'[p] = ops[p]
         /\ ops'[o].kind = ops[o].kind /\ ops'[o].status = s /\ ops'[o].recovery = r
<1> DEFINE once == [ops EXCEPT ![o].status = s]
<1>1. ops' = [once EXCEPT ![o].recovery = r]
  BY DEF SetStatus, Records
<1>2. /\ once \in [Ops -> Records] /\ \A p \in Ops \ {o} : once[p] = ops[p]
      /\ once[o].kind = ops[o].kind /\ once[o].status = s
  BY DEF Records
<1> HIDE DEF once
<1> QED BY <1>1, <1>2 DEF Records

\* The end of an upgrade whose worker succeeded.
LEMMA UpgradeFinished ==
  ASSUME HostTyped, NEW o \in Ops, FinishUpgrade(o), worker[o].spool = "succeeded"
  PROVE  Decided(o)
<1>1. /\ execution' \in [Ops -> Executions] /\ \A p \in Ops \ {o} : execution'[p] = execution[p]
      /\ execution'[o].dispatched = execution[o].dispatched
  BY Zenon DEF HostTyped, FinishUpgrade, Executions
<1>2. PICK s \in {"succeeded", "running", "failed"}, r \in BOOLEAN : SetStatus(o, s, r)
  BY Zenon DEF HostTyped, Records, FinishUpgrade
<1>3. /\ ops' \in [Ops -> Records] /\ \A p \in Ops \ {o} : ops'[p] = ops[p]
      /\ ops'[o].kind = ops[o].kind
  BY <1>2, StatusSet DEF HostTyped, Statuses
<1> QED BY <1>1, <1>3 DEF Decided

\* A reconciliation from a record, a spool and an answer that may be old.
LEMMA Reconciled ==
  ASSUME HostInv, NEW o \in Ops, NEW rec \in Records, NEW spool \in Spools, NEW alive,
         Reconcile(o, rec, spool, alive), rec.kind = ops[o].kind,
         spool = "succeeded" => worker[o].spool = "succeeded"
  PROVE  Decided(o)
<1>1. HostTyped /\ (execution[o].verified => worker[o].spool = "succeeded")
  BY DEF HostInv, WorkerOK
<1> DEFINE done == execution[o].verified \/ spool = "succeeded"
           finish == alive # "error" /\ rec.kind = "upgrade" /\ done
<1>2. CASE finish
  <2>1. FinishUpgrade(o)
    BY Zenon, <1>2 DEF Reconcile
  <2> QED BY <1>1, <1>2, <2>1, UpgradeFinished
<1>3. CASE ~finish
  <2>1. PICK s \in Statuses, r \in BOOLEAN :
          /\ SetStatus(o, s, r)
          /\ s = "succeeded" => spool = "succeeded"
          /\ rec.kind = "upgrade" => s = "running" \/ r \/ spool = "succeeded"
    <3>1. CASE alive = "error"
      <4>1. SetStatus(o, "interrupted", rec.kind = "upgrade") /\ (rec.kind = "upgrade") \in BOOLEAN
        BY <3>1 DEF Reconcile
      <4> QED BY Zenon, <4>1 DEF Statuses
    <3>2. CASE alive # "error" /\ spool = "succeeded"
      <4>1. SetStatus(o, "succeeded", FALSE)
        BY Zenon, <1>3, <3>2 DEF Reconcile
      <4> QED BY Zenon, <3>2, <4>1 DEF Statuses
    <3>3. CASE alive = "yes" /\ spool # "succeeded"
      <4>1. SetStatus(o, "running", rec.recovery) /\ rec.recovery \in BOOLEAN
        BY <1>3, <3>3 DEF Reconcile, Records
      <4> QED BY <4>1 DEF Statuses
    <3>4. CASE alive = "unknown" /\ spool = "running"
      <4>1. SetStatus(o, "running", TRUE)
        BY Zenon, <1>3, <3>4 DEF Reconcile
      <4> QED BY Zenon, <4>1 DEF Statuses
    <3>5. CASE /\ alive # "error" /\ spool # "succeeded" /\ alive # "yes"
               /\ ~(alive = "unknown" /\ spool = "running")
      <4>1. SetStatus(o, IF spool = "failed" THEN "failed" ELSE "interrupted", rec.kind = "upgrade")
        BY Zenon, <1>3, <3>5 DEF Reconcile
      <4>2. (rec.kind = "upgrade") \in BOOLEAN
        OBVIOUS
      <4> QED BY Zenon, <4>1, <4>2 DEF Statuses
    <3> QED BY <3>1, <3>2, <3>3, <3>4, <3>5
  <2>2. UNCHANGED execution
    BY Zenon, <1>3 DEF Reconcile
  <2> QED BY <1>1, <2>1, <2>2, StatusSet DEF HostTyped, Decided
<1> QED BY <1>2, <1>3

\* A request decides from what it has read.
LEMMA PollDecides ==
  ASSUME HostInv, PollDecide
  PROVE  poll.op \in Ops /\ (UNCHANGED <<ops, execution>> \/ Decided(poll.op))
<1>1. /\ poll.op \in Ops /\ poll.rec \in Records /\ poll.spool \in Spools
      /\ poll.rec.kind = ops[poll.op].kind
      /\ poll.spool = "succeeded" => worker[poll.op].spool = "succeeded"
  BY DEF HostInv, HostTyped, PollOK, PollDecide, Polls
<1>2. CASE Undecided(poll.op, poll.local, poll.spool, poll.alive)
  BY <1>1, <1>2 DEF PollDecide
<1>3. CASE ~Undecided(poll.op, poll.local, poll.spool, poll.alive)
  <2>1. Reconcile(poll.op, poll.rec, poll.spool, poll.alive)
    BY <1>3 DEF PollDecide
  <2> QED BY <1>1, <2>1, Reconciled
<1> QED BY <1>2, <1>3

\* The executor decides the operation it has worked for, however its end raises.
LEMMA JobDecides ==
  ASSUME HostInv, FinishJob \/ ExceptJob
  PROVE  runner.op \in Ops /\ Decided(runner.op)
<1> DEFINE o == runner.op
<1>1. /\ HostTyped /\ o \in Ops
      /\ execution[o].verified => worker[o].spool = "succeeded"
  BY Zenon, HostAssumption DEF HostInv, HostTyped, QueueOK, WorkerOK, Runners, FinishJob, ExceptJob, Doing
<1>2. runner.at = "except" \/ worker[o].spool = "succeeded"
  BY DEF HostInv, WorkerOK, FinishJob, ExceptJob, Doing
<1>3. ASSUME JobFailed
      PROVE  /\ ops' \in [Ops -> Records] /\ \A p \in Ops \ {o} : ops'[p] = ops[p]
             /\ ops'[o].kind = ops[o].kind /\ ops'[o].status = "failed"
             /\ ops'[o].recovery = (ops[o].kind = "upgrade" /\ execution[o].dispatched)
  <2>1. (ops[o].kind = "upgrade" /\ execution[o].dispatched) \in BOOLEAN
    OBVIOUS
  <2>2. SetStatus(o, "failed", ops[o].kind = "upgrade" /\ execution[o].dispatched)
    BY <1>3 DEF JobFailed, Op
  <2> QED BY Zenon, <1>1, <2>1, <2>2, StatusSet DEF HostTyped, Statuses
<1>4. CASE FinishJob /\ JobFinishes
  <2>1. worker[o].spool = "succeeded"
    BY <1>4 DEF HostInv, WorkerOK, FinishJob, Doing
  <2>2. CASE FinishUpgrade(o)
    BY <1>1, <2>1, <2>2, UpgradeFinished
  <2>3. CASE SetStatus(o, "succeeded", FALSE) /\ UNCHANGED execution
    BY Zenon, <1>1, <2>1, <2>3, StatusSet DEF HostTyped, Statuses, Decided
  <2> QED BY Zenon, <1>4, <2>2, <2>3 DEF JobFinishes, Op
<1>5. CASE ExceptJob /\ JobExcept
  <2>1. CASE Reconcile(o, ops[o], worker[o].spool, Alive(o))
    <3>1. ops[o] \in Records /\ worker[o].spool \in Spools
      BY <1>1 DEF HostTyped, Workers
    <3> QED BY <1>1, <2>1, <3>1, Reconciled
  <2>2. CASE JobFailed /\ UNCHANGED execution
    <3>1. runner.at = "except"
      BY <1>5 DEF ExceptJob, Doing
    <3> QED BY Zenon, <1>1, <1>3, <2>2, <3>1 DEF HostTyped, Decided
  <2> QED BY Zenon, <1>5, <2>1, <2>2 DEF JobExcept, Op
<1>6. CASE JobRaises
  <2>1. JobFailed
    BY <1>6 DEF JobRaises
  <2>2. CASE UNCHANGED execution
    BY Zenon, <1>1, <1>2, <1>3, <2>1, <2>2 DEF HostTyped, Decided
  <2>3. CASE worker[o].spool = "succeeded" /\ execution' = [execution EXCEPT ![o].verified = TRUE]
    <3>1. /\ execution' \in [Ops -> Executions] /\ \A p \in Ops \ {o} : execution'[p] = execution[p]
          /\ execution'[o].dispatched = execution[o].dispatched
      BY Zenon, <1>1, <2>3 DEF HostTyped, Executions
    <3> QED BY Zenon, <1>1, <1>3, <2>1, <2>3, <3>1 DEF Decided
  <2> QED BY Zenon, <1>6, <2>2, <2>3 DEF JobRaises, Op
<1> QED BY <1>1, <1>4, <1>5, <1>6 DEF FinishJob, ExceptJob

\* A reboot stays one when a field of it changes.
LEMMA RebootTyped ==
  ASSUME NEW f \in [Ops -> Reboots], NEW o \in Ops
  PROVE  /\ \A b \in BOOLEAN : [f EXCEPT ![o].ack = b] \in [Ops -> Reboots]
         /\ \A i \in Intents : [f EXCEPT ![o].intent = i] \in [Ops -> Reboots]
         /\ \A r \in Reboots : [f EXCEPT ![o] = r] \in [Ops -> Reboots]
<1>1. \A b \in BOOLEAN : [f[o] EXCEPT !.ack = b] \in Reboots
  BY DEF Reboots
<1>2. \A i \in Intents : [f[o] EXCEPT !.intent = i] \in Reboots
  BY DEF Reboots
<1> QED BY <1>1, <1>2

\* An execution stays one when it is marked.
LEMMA ExecutionTyped ==
  ASSUME NEW f \in [Ops -> Executions], NEW o \in Ops
  PROVE  /\ [f EXCEPT ![o].dispatched = TRUE] \in [Ops -> Executions]
         /\ [f EXCEPT ![o].overdue = TRUE] \in [Ops -> Executions]
<1>1. /\ [f[o] EXCEPT !.dispatched = TRUE] \in Executions
      /\ [f[o] EXCEPT !.overdue = TRUE] \in Executions
  BY Zenon DEF Executions
<1> QED BY <1>1

\* A worker stays one when its process, its spool or its change moves.
LEMMA WorkerTyped ==
  ASSUME NEW f \in [Ops -> Workers], NEW o \in Ops
  PROVE  /\ \A b \in BOOLEAN : [f EXCEPT ![o].alive = b] \in [Ops -> Workers]
         /\ \A s \in Spools : [f EXCEPT ![o].spool = s] \in [Ops -> Workers]
         /\ \A c \in Changes : [f EXCEPT ![o].apt = c] \in [Ops -> Workers]
<1>1. \A b \in BOOLEAN : [f[o] EXCEPT !.alive = b] \in Workers
  BY DEF Workers
<1>2. \A s \in Spools : [f[o] EXCEPT !.spool = s] \in Workers
  BY DEF Workers
<1>3. \A c \in Changes : [f[o] EXCEPT !.apt = c] \in Workers
  BY DEF Workers
<1> QED BY <1>1, <1>2, <1>3

\* The executor stays one when it goes on.
LEMMA RunnerTyped ==
  ASSUME HostTyped, NEW s \in {"idle", "lock"} \cup JobSteps \cup RebootSteps, Goes(s)
  PROVE  runner' \in Runners
BY DEF HostTyped, Goes, Runners

\* An operation stays one when its status changes.
LEMMA OperationTyped ==
  ASSUME NEW f \in [Ops -> Records], NEW o \in Ops, NEW s \in Statuses
  PROVE  [f EXCEPT ![o].status = s] \in [Ops -> Records]
<1>1. [f[o] EXCEPT !.status = s] \in Records
  BY DEF Records
<1> QED BY <1>1

\* Every step keeps the types.
LEMMA TypedStep ==
  ASSUME HostInv, HostNext
  PROVE  HostTyped'
<1>a. HostTyped
  BY DEF HostInv
<1>b. runner.at # "idle" => runner.op \in Ops
  BY <1>a DEF HostInv, HostTyped, QueueOK, Runners
<1>d. Idle \in Runners /\ NoPoll \in Polls
  <2>1. Idle \in Runners
    BY DEF Idle, Runners, Intents
  <2>2. NoRecord \in Records
    BY DEF NoRecord, Records, Statuses
  <2>3. NoPoll \in Polls
    BY <2>2 DEF NoPoll, Polls, Spools
  <2> QED BY <2>1, <2>3
<1>c. ASSUME Boot PROVE HostTyped'
  <2>1. \A o \in Ops : Killed(worker[o]) \in Workers
    BY Zenon, <1>a DEF HostTyped, Workers, Killed, Changes
  <2>2. worker' \in [Ops -> Workers]
    BY <1>c, <2>1 DEF Boot
  <2>3. waiting' = <<>> /\ runner' = Idle /\ poll' = NoPoll /\ bridge' = [Serving EXCEPT !.up = FALSE]
    BY <1>c DEF Boot, Lose
  <2>4. waiting' \in Seq(Ops) /\ bridge' \in [up : BOOLEAN, child : Ops \cup {NoOp}]
    <3>1. waiting' \in Seq(Ops)
      BY <2>3
    <3>2. bridge' \in [up : BOOLEAN, child : Ops \cup {NoOp}]
      BY Zenon, <2>3 DEF Serving
    <3> QED BY <3>1, <3>2
  <2>5. boot' \in Nat /\ timer' \subseteq Ops /\ UNCHANGED <<ops, execution, reboot>>
    BY <1>a, <1>c DEF Boot, HostTyped
  <2> QED BY <1>a, <1>d, <2>2, <2>3, <2>4, <2>5 DEF HostTyped
<1>1. ASSUME NEW o \in Ops, NEW kind \in HostKinds, SubmitHost(o, kind) PROVE HostTyped'
  <2>1. [ack |-> FALSE, intent |-> "queued", before |-> boot] \in Reboots
    BY <1>a DEF HostTyped, Reboots, Intents
  <2>2. ops' \in [Ops -> Records]
    BY <1>1, <1>a DEF SubmitHost, HostTyped, Records, Statuses
  <2>3. reboot' \in [Ops -> Reboots]
    <3>1. CASE kind = "reboot"
      <4> DEFINE r == [ack |-> FALSE, intent |-> "queued", before |-> boot]
      <4>1. reboot' = [reboot EXCEPT ![o] = r] /\ r \in Reboots
        BY <1>1, <2>1, <3>1 DEF SubmitHost
      <4> HIDE DEF r
      <4> QED BY <4>1, <1>a, RebootTyped DEF HostTyped
    <3>2. CASE kind # "reboot" /\ SubmitHost(o, kind)
      BY <3>2, <1>a, <2>1, RebootTyped DEF HostTyped, SubmitHost
    <3> QED BY <1>1, <3>1, <3>2 DEF SubmitHost, Goes, Op, RebootNotConfirmed
  <2>4. waiting' \in Seq(Ops)
    BY <1>1, <1>a DEF SubmitHost, HostTyped
  <2>5. UNCHANGED <<execution, worker, runner, poll, bridge, boot, timer>>
    BY <1>1 DEF SubmitHost, machine
  <2> QED BY <1>a, <2>2, <2>3, <2>4, <2>5 DEF HostTyped
<1>2. ASSUME NEW o \in Ops, Acknowledge(o) PROVE HostTyped'
  <2>1. reboot' \in [Ops -> Reboots]
    BY Zenon, <1>2, <1>a, RebootTyped DEF Acknowledge, HostTyped
  <2>2. waiting' \in Seq(Ops)
    BY <1>2, <1>a DEF Acknowledge, HostTyped
  <2>3. UNCHANGED <<ops, execution, worker, runner, poll, bridge, boot, timer>>
    BY <1>2 DEF Acknowledge, machine
  <2> QED BY <1>a, <2>1, <2>2, <2>3 DEF HostTyped
<1>3. ASSUME NEW o \in Ops, Overdue(o) PROVE HostTyped'
  <2>1. execution' \in [Ops -> Executions]
    BY Zenon, <1>3, <1>a, ExecutionTyped DEF Overdue, HostTyped
  <2>2. UNCHANGED <<ops, reboot, worker, waiting, runner, poll, bridge, boot, timer>>
    BY <1>3 DEF Overdue, machine
  <2> QED BY <1>a, <2>1, <2>2 DEF HostTyped
<1>4. ASSUME NEW o \in Ops, PollRead(o) PROVE HostTyped'
  <2>1. \A alive \in {"yes", "no", "unknown", "error"} : Read(o, alive) \in Polls
    <3>1. ops[o] \in Records /\ worker[o].spool \in Spools /\ (runner.op = o) \in BOOLEAN
      BY <1>a DEF HostTyped, Workers
    <3> QED BY <3>1 DEF Read, Polls
  <2>2. Alive(o) \in {"yes", "no", "unknown", "error"}
    BY DEF Alive
  <2>3. poll' \in Polls
    BY <1>4, <1>a, <2>1, <2>2 DEF PollRead, HostTyped
  <2>4. UNCHANGED <<ops, execution, reboot, worker, waiting, runner, bridge, boot, timer>>
    BY <1>4 DEF PollRead, machine
  <2> QED BY <1>a, <2>3, <2>4 DEF HostTyped
<1>5. ASSUME NEW o \in Ops, PollReboot(o) PROVE HostTyped'
  <2>1. ops' \in [Ops -> Records]
    BY Zenon, <1>5, <1>a, StatusSet DEF PollReboot, HostTyped, Statuses
  <2>2. reboot' \in [Ops -> Reboots]
    <3>1. CASE reboot' = [reboot EXCEPT ![o].intent = "waiting"]
      BY Zenon, <3>1, <1>a, RebootTyped DEF HostTyped, Intents
    <3>2. CASE reboot' = [reboot EXCEPT ![o].intent = "succeeded"]
      BY Zenon, <3>2, <1>a, RebootTyped DEF HostTyped, Intents
    <3>3. CASE reboot' = [reboot EXCEPT ![o].intent = "verifying"]
      BY Zenon, <3>3, <1>a, RebootTyped DEF HostTyped, Intents
    <3> QED BY Zenon, <1>5, <3>1, <3>2, <3>3 DEF PollReboot, Goes, Op, RebootNotConfirmed
  <2>3. UNCHANGED <<execution, worker, waiting, runner, poll, bridge, boot, timer>>
    BY <1>5 DEF PollReboot, machine
  <2> QED BY <1>a, <2>1, <2>2, <2>3 DEF HostTyped
<1>6. ASSUME NEW o \in Ops, PollRebootFails(o) PROVE HostTyped'
  <2>1. ops[o].recovery \in BOOLEAN
    BY <1>a DEF HostTyped, Records
  <2>2. ops' \in [Ops -> Records]
    BY <1>6, <1>a, <2>1, StatusSet DEF PollRebootFails, HostTyped, Statuses
  <2>3. UNCHANGED <<execution, reboot, worker, waiting, runner, poll, bridge, boot, timer>>
    BY <1>6 DEF PollRebootFails, machine
  <2> QED BY <1>a, <2>2, <2>3 DEF HostTyped
<1>7. ASSUME NEW o \in Ops, Spool(o) PROVE HostTyped'
  <2>1. worker' \in [Ops -> Workers]
    <3>1. CASE worker' = [worker EXCEPT ![o].spool = "running"]
      BY Zenon, <3>1, <1>a, WorkerTyped DEF HostTyped, Spools, Changes
    <3>2. CASE worker' = [worker EXCEPT ![o].alive = FALSE]
      BY Zenon, <3>2, <1>a, WorkerTyped DEF HostTyped, Spools, Changes
    <3> QED BY <1>7, <3>1, <3>2 DEF Spool
  <2>2. UNCHANGED <<ops, execution, reboot, waiting, runner, poll, bridge, boot, timer>>
    BY <1>7 DEF Spool, machine
  <2> QED BY <1>a, <2>1, <2>2 DEF HostTyped
<1>8. ASSUME NEW o \in Ops, StartApt(o) PROVE HostTyped'
  <2>1. worker' \in [Ops -> Workers]
    BY Zenon, <1>8, <1>a, WorkerTyped DEF StartApt, HostTyped, Spools, Changes
  <2>2. UNCHANGED <<ops, execution, reboot, waiting, runner, poll, bridge, boot, timer>>
    BY <1>8 DEF StartApt, machine
  <2> QED BY <1>a, <2>1, <2>2 DEF HostTyped
<1>9. ASSUME NEW o \in Ops, EndApt(o) PROVE HostTyped'
  <2>1. worker' \in [Ops -> Workers]
    BY Zenon, <1>9, <1>a, WorkerTyped DEF EndApt, HostTyped, Spools, Changes
  <2>2. UNCHANGED <<ops, execution, reboot, waiting, runner, poll, bridge, boot, timer>>
    BY <1>9 DEF EndApt, machine
  <2> QED BY <1>a, <2>1, <2>2 DEF HostTyped
<1>10. ASSUME NEW o \in Ops, Succeed(o) PROVE HostTyped'
  <2>1. worker' \in [Ops -> Workers]
    BY Zenon, <1>10, <1>a, WorkerTyped DEF Succeed, HostTyped, Spools, Changes
  <2>2. UNCHANGED <<ops, execution, reboot, waiting, runner, poll, bridge, boot, timer>>
    BY <1>10 DEF Succeed, machine
  <2> QED BY <1>a, <2>1, <2>2 DEF HostTyped
<1>11. ASSUME NEW o \in Ops, Fail(o) PROVE HostTyped'
  <2>1. \A s \in Spools, c \in Changes :
           /\ [worker[o] EXCEPT !.spool = s, !.alive = FALSE, !.apt = c] \in Workers
           /\ [worker[o] EXCEPT !.alive = FALSE, !.apt = c] \in Workers
    BY Zenon, <1>a DEF HostTyped, Workers
  <2>2. PICK c \in Changes :
           worker' \in {[worker EXCEPT ![o] = [worker[o] EXCEPT !.spool = "failed", !.alive = FALSE, !.apt = c]],
                        [worker EXCEPT ![o] = [worker[o] EXCEPT !.alive = FALSE, !.apt = c]]}
    <3> DEFINE c == IF worker[o].apt = "untouched" THEN worker[o].apt ELSE "broken"
    <3>1. c \in Changes
      BY <1>a DEF HostTyped, Workers, Changes
    <3>2. worker' \in {[worker EXCEPT ![o] = [worker[o] EXCEPT !.spool = "failed", !.alive = FALSE, !.apt = c]],
                       [worker EXCEPT ![o] = [worker[o] EXCEPT !.alive = FALSE, !.apt = c]]}
      BY Zenon, <1>11, <1>a DEF Fail, HostTyped, Workers
    <3> QED BY Zenon, <3>1, <3>2
  <2>3. worker' \in [Ops -> Workers]
    <3>1. CASE worker' = [worker EXCEPT ![o] = [worker[o] EXCEPT !.spool = "failed", !.alive = FALSE, !.apt = c]]
      BY Zenon, <3>1, <1>a, <2>1, <2>2 DEF HostTyped, Spools
    <3>2. CASE worker' = [worker EXCEPT ![o] = [worker[o] EXCEPT !.alive = FALSE, !.apt = c]]
      BY Zenon, <3>2, <1>a, <2>1, <2>2 DEF HostTyped, Spools
    <3> QED BY <2>2, <3>1, <3>2
  <2>4. UNCHANGED <<ops, execution, reboot, waiting, runner, poll, bridge, boot, timer>>
    BY <1>11 DEF Fail, machine
  <2> QED BY <1>a, <2>3, <2>4 DEF HostTyped
<1>12. ASSUME NEW o \in Ops, Exit(o) PROVE HostTyped'
  <2>1. worker' \in [Ops -> Workers]
    BY Zenon, <1>12, <1>a, WorkerTyped DEF Exit, HostTyped, Spools, Changes
  <2>2. UNCHANGED <<ops, execution, reboot, waiting, runner, poll, bridge, boot, timer>>
    BY <1>12 DEF Exit, machine
  <2> QED BY <1>a, <2>1, <2>2 DEF HostTyped
<1>13. CASE PollDecide
  <2>1. ops' \in [Ops -> Records]
    BY <1>13, <1>a, PollDecides DEF PollDecide, HostTyped, Decided
  <2>2. execution' \in [Ops -> Executions]
    BY <1>13, <1>a, PollDecides DEF PollDecide, HostTyped, Decided
  <2>3. poll' \in Polls
    BY <1>13, <1>a, <1>d DEF PollDecide, HostTyped
  <2>4. UNCHANGED <<reboot, worker, waiting, runner, bridge, boot, timer>>
    BY <1>13 DEF PollDecide, machine
  <2> QED BY <1>a, <2>1, <2>2, <2>3, <2>4 DEF HostTyped
<1>14. CASE Begin
  <2>1. Head(waiting) \in Ops
    BY <1>14, <1>a DEF Begin, HostTyped
  <2>2. waiting' \in Seq(Ops)
    BY <1>14, <1>a DEF Begin, HostTyped
  <2>3. runner' \in Runners
    BY <1>14, <1>a, <2>1 DEF Begin, HostTyped, Runners, Reboots
  <2>4. UNCHANGED <<ops, execution, reboot, worker, poll, bridge, boot, timer>>
    BY <1>14 DEF Begin, machine
  <2> QED BY <1>a, <2>2, <2>3, <2>4 DEF HostTyped
<1>15. CASE WaitLock
  <2>1. ops' \in [Ops -> Records]
    <3>1. CASE ops' = [ops EXCEPT ![Op].status = "running"]
      BY Zenon, <3>1, <1>a, <1>b, OperationTyped DEF HostTyped, Statuses, Doing, Op
    <3>2. CASE UNCHANGED ops
      BY <3>2, <1>a, <1>b, OperationTyped DEF HostTyped, Statuses, Doing, Op
    <3> QED BY <1>15, <3>1, <3>2 DEF WaitLock, Goes, Op, RebootNotConfirmed
  <2>2. runner' \in Runners
    <3>1. CASE Goes("dispatch")
      BY <3>1, <1>a, <1>b, RunnerTyped DEF HostTyped, Doing, JobSteps, RebootSteps
    <3>2. CASE Goes("except")
      BY <3>2, <1>a, <1>b, RunnerTyped DEF HostTyped, Doing, JobSteps, RebootSteps
    <3> QED BY <1>15, <3>1, <3>2 DEF WaitLock, Goes, Op, RebootNotConfirmed
  <2>3. UNCHANGED <<execution, reboot, worker, waiting, poll, bridge, boot, timer>>
    BY <1>15 DEF WaitLock, machine
  <2> QED BY <1>a, <2>1, <2>2, <2>3 DEF HostTyped
<1>16. CASE Dispatch
  <2>1. execution' \in [Ops -> Executions]
    <3>1. CASE execution' = [execution EXCEPT ![Op].dispatched = TRUE]
      BY Zenon, <3>1, <1>a, <1>b, ExecutionTyped DEF HostTyped, Doing, Op
    <3>2. CASE UNCHANGED execution
      BY <3>2, <1>a, <1>b, ExecutionTyped DEF HostTyped, Doing, Op
    <3> QED BY <1>16, <3>1, <3>2 DEF Dispatch, Goes, Op, RebootNotConfirmed
  <2>2. runner' \in Runners
    <3>1. CASE Goes("run")
      BY <3>1, <1>a, <1>b, RunnerTyped DEF HostTyped, Doing, JobSteps, RebootSteps
    <3>2. CASE Goes("except")
      BY <3>2, <1>a, <1>b, RunnerTyped DEF HostTyped, Doing, JobSteps, RebootSteps
    <3> QED BY <1>16, <3>1, <3>2 DEF Dispatch, Goes, Op, RebootNotConfirmed
  <2>3. UNCHANGED <<ops, reboot, worker, waiting, poll, bridge, boot, timer>>
    BY <1>16 DEF Dispatch, machine
  <2> QED BY <1>a, <2>1, <2>2, <2>3 DEF HostTyped
<1>17. CASE RunTransient
  <2>1. worker' \in [Ops -> Workers]
    <3>1. CASE worker' = worker
      BY <3>1, <1>a, <1>b, WorkerTyped DEF HostTyped, Doing, Op
    <3>2. CASE worker' = [worker EXCEPT ![Op].alive = TRUE]
      BY Zenon, <3>2, <1>a, <1>b, WorkerTyped DEF HostTyped, Doing, Op
    <3> QED BY <1>17, <3>1, <3>2 DEF RunTransient, Goes, Op, RebootNotConfirmed
  <2>2. runner' \in Runners
    <3>1. CASE Goes("except")
      BY <3>1, <1>a, <1>b, RunnerTyped DEF HostTyped, Doing, JobSteps, RebootSteps
    <3>2. CASE Goes("wait")
      BY <3>2, <1>a, <1>b, RunnerTyped DEF HostTyped, Doing, JobSteps, RebootSteps
    <3> QED BY <1>17, <3>1, <3>2 DEF RunTransient, Goes, Op, RebootNotConfirmed
  <2>3. UNCHANGED <<ops, execution, reboot, waiting, poll, bridge, boot, timer>>
    BY <1>17 DEF RunTransient, machine
  <2> QED BY <1>a, <2>1, <2>2, <2>3 DEF HostTyped
<1>18. CASE Result
  <2>1. bridge' \in [up : BOOLEAN, child : Ops \cup {NoOp}]
    BY <1>18, <1>a, <1>b DEF Result, HostTyped, Doing, Op
  <2>2. runner' \in Runners
    <3>1. CASE Goes("finish")
      BY <3>1, <1>a, <1>b, RunnerTyped DEF HostTyped, Doing, JobSteps, RebootSteps
    <3>2. CASE Goes("except")
      BY <3>2, <1>a, <1>b, RunnerTyped DEF HostTyped, Doing, JobSteps, RebootSteps
    <3> QED BY <1>18, <3>1, <3>2 DEF Result, Goes, Op, RebootNotConfirmed
  <2>3. UNCHANGED <<ops, execution, reboot, worker, waiting, poll, boot, timer>>
    BY <1>18 DEF Result, machine
  <2> QED BY <1>a, <2>1, <2>2, <2>3 DEF HostTyped
<1>19. CASE FinishJob
  <2>1. ops' \in [Ops -> Records]
    BY Zenon, <1>19, <1>a, JobDecides DEF FinishJob, HostTyped, Decided
  <2>2. execution' \in [Ops -> Executions]
    BY Zenon, <1>19, <1>a, JobDecides DEF FinishJob, HostTyped, Decided
  <2>3. runner' \in Runners
    BY <1>19, <1>a, <1>d DEF FinishJob, HostTyped
  <2>4. UNCHANGED <<reboot, worker, waiting, poll, bridge, boot, timer>>
    BY <1>19 DEF FinishJob, machine
  <2> QED BY <1>a, <2>1, <2>2, <2>3, <2>4 DEF HostTyped
<1>20. CASE ExceptJob
  <2>1. ops' \in [Ops -> Records]
    BY Zenon, <1>20, <1>a, JobDecides DEF ExceptJob, HostTyped, Decided
  <2>2. execution' \in [Ops -> Executions]
    BY Zenon, <1>20, <1>a, JobDecides DEF ExceptJob, HostTyped, Decided
  <2>3. runner' \in Runners
    BY <1>20, <1>a, <1>d DEF ExceptJob, HostTyped
  <2>4. UNCHANGED <<reboot, worker, waiting, poll, bridge, boot, timer>>
    BY <1>20 DEF ExceptJob, machine
  <2> QED BY <1>a, <2>1, <2>2, <2>3, <2>4 DEF HostTyped
<1>21. CASE WaitRebootLock
  <2>1. ops' \in [Ops -> Records]
    BY Zenon, <1>21, <1>a, <1>b, StatusSet DEF WaitRebootLock, HostTyped, Statuses, Doing, Op
  <2>2. runner' \in Runners
    <3>1. CASE Goes("schedule")
      BY <3>1, <1>a, <1>d, RunnerTyped DEF HostTyped, Doing, JobSteps, RebootSteps
    <3>2. CASE runner' = Idle
      BY <3>2, <1>a, <1>d, RunnerTyped DEF HostTyped, Doing, JobSteps, RebootSteps
    <3> QED BY Zenon, <1>21, <3>1, <3>2 DEF WaitRebootLock, Goes, Op, RebootNotConfirmed
  <2>3. UNCHANGED <<execution, reboot, worker, waiting, poll, bridge, boot, timer>>
    BY <1>21 DEF WaitRebootLock, machine
  <2> QED BY <1>a, <2>1, <2>2, <2>3 DEF HostTyped
<1>22. CASE ScheduleReboot
  <2>1. ops' \in [Ops -> Records]
    BY Zenon, <1>22, <1>a, <1>b, StatusSet DEF ScheduleReboot, HostTyped, Statuses, Doing, Op,
        RebootNotConfirmed
  <2>2. runner' \in Runners
    <3>1. CASE Goes("save")
      BY <3>1, <1>a, <1>d, RunnerTyped DEF HostTyped, Doing, JobSteps, RebootSteps,
          RebootNotConfirmed
    <3>2. CASE runner' = Idle
      BY <3>2, <1>a, <1>d, RunnerTyped DEF HostTyped, Doing, JobSteps, RebootSteps,
          RebootNotConfirmed
    <3> QED BY Zenon, <1>22, <3>1, <3>2 DEF ScheduleReboot, Goes, Op, RebootNotConfirmed
  <2>3. timer' \subseteq Ops
    BY <1>22, <1>a, <1>b DEF ScheduleReboot, HostTyped, Doing, Op
  <2>4. UNCHANGED <<execution, reboot, worker, waiting, poll, bridge, boot>>
    BY <1>22 DEF ScheduleReboot, machine
  <2> QED BY <1>a, <2>1, <2>2, <2>3, <2>4 DEF HostTyped
<1>23. CASE SaveReboot
  <2>1. ops' \in [Ops -> Records]
    BY Zenon, <1>23, <1>a, <1>b, OperationTyped DEF SaveReboot, HostTyped, Statuses, Doing, Op
  <2>2. reboot' \in [Ops -> Reboots]
    BY Zenon, <1>23, <1>a, <1>b, RebootTyped DEF SaveReboot, HostTyped, Intents, Doing, Op
  <2>3. runner' \in Runners
    BY <1>23, <1>a, <1>d DEF SaveReboot, HostTyped
  <2>4. UNCHANGED <<execution, worker, waiting, poll, bridge, boot, timer>>
    BY <1>23 DEF SaveReboot, machine
  <2> QED BY <1>a, <2>1, <2>2, <2>3, <2>4 DEF HostTyped
<1>24. CASE EndBridge
  <2>1. waiting' \in Seq(Ops)
    BY <1>24, <1>a DEF EndBridge, HostTyped, Lose
  <2>2. runner' \in Runners
    BY <1>24, <1>a, <1>d DEF EndBridge, HostTyped, Lose
  <2>3. poll' \in Polls
    BY <1>24, <1>a, <1>d DEF EndBridge, HostTyped, Lose
  <2>4. bridge' \in [up : BOOLEAN, child : Ops \cup {NoOp}]
    BY Zenon, <1>24, <1>a DEF EndBridge, HostTyped, Lose, Serving
  <2>5. UNCHANGED <<ops, execution, reboot, worker, boot, timer>>
    BY <1>24 DEF EndBridge, machine, Lose
  <2> QED BY <1>a, <2>1, <2>2, <2>3, <2>4, <2>5 DEF HostTyped
<1>25. CASE StartBridge
  <2>1. bridge' \in [up : BOOLEAN, child : Ops \cup {NoOp}]
    BY <1>25, <1>a DEF StartBridge, HostTyped, Serving
  <2>2. UNCHANGED <<ops, execution, reboot, worker, waiting, runner, poll, boot, timer>>
    BY <1>25 DEF StartBridge, machine
  <2> QED BY <1>a, <2>1, <2>2 DEF HostTyped
<1>26. CASE TimerFires
  BY <1>26, <1>c DEF TimerFires
<1>27. CASE OtherReboot
  BY <1>27, <1>c DEF OtherReboot
<1> QED BY <1>1, <1>2, <1>3, <1>4, <1>5, <1>6, <1>7, <1>8, <1>9, <1>10, <1>11, <1>12, <1>13,
    <1>14, <1>15, <1>16, <1>17, <1>18, <1>19, <1>20, <1>21, <1>22, <1>23, <1>24, <1>25, <1>26,
    <1>27 DEF HostNext

----------------------------------------------------------------------------
(* The queue                                                                  *)

\* What is appended is in the queue, last.
LEMMA Appended ==
  ASSUME NEW q \in Seq(Ops), NEW o \in Ops
  PROVE  /\ \A x \in Ops : Occurs(x, Append(q, o)) <=> Occurs(x, q) \/ x = o
         /\ Distinct(q) /\ ~Occurs(o, q) => Distinct(Append(q, o))
<1>1. /\ Len(q) \in Nat /\ Len(Append(q, o)) = Len(q) + 1 /\ Append(q, o)[Len(q) + 1] = o
      /\ \A i \in 1 .. Len(q) : Append(q, o)[i] = q[i]
  OBVIOUS
<1>2. \A i : i \in 1 .. Len(q) + 1 <=> i \in 1 .. Len(q) \/ i = Len(q) + 1
  BY <1>1
<1> DEFINE r == Append(q, o)
<1>3. /\ Len(r) = Len(q) + 1 /\ r[Len(q) + 1] = o
      /\ \A i \in 1 .. Len(q) : r[i] = q[i]
  BY <1>1
<1> HIDE DEF r
<1>4. \A x \in Ops : Occurs(x, r) <=> Occurs(x, q) \/ x = o
  BY <1>2, <1>3 DEF Occurs
<1>5. ASSUME Distinct(q), ~Occurs(o, q) PROVE Distinct(r)
  BY <1>2, <1>3, <1>5 DEF Occurs, Distinct
<1> QED BY <1>4, <1>5 DEF r

\* The first of a queue is taken out of it.
LEMMA Taken ==
  ASSUME NEW q \in Seq(Ops), q # <<>>, Distinct(q)
  PROVE  /\ Head(q) \in Ops /\ Occurs(Head(q), q)
         /\ \A x \in Ops : Occurs(x, Tail(q)) <=> Occurs(x, q) /\ x # Head(q)
         /\ Distinct(Tail(q))
<1> DEFINE r == Tail(q)
<1>1. /\ Len(q) \in Nat /\ Len(q) # 0 /\ Head(q) = q[1] /\ Len(r) = Len(q) - 1
      /\ \A i \in 1 .. Len(q) - 1 : r[i] = q[i + 1]
      /\ Head(q) \in Ops
  OBVIOUS
<1> HIDE DEF r
<1>2. \A i \in 1 .. Len(r) : i + 1 \in 1 .. Len(q) /\ r[i] = q[i + 1] /\ i + 1 # 1
  BY <1>1
<1>3. Occurs(Head(q), q)
  BY <1>1 DEF Occurs
<1>4. \A x \in Ops : Occurs(x, r) => Occurs(x, q) /\ x # Head(q)
  <2> SUFFICES ASSUME NEW x \in Ops, NEW i \in 1 .. Len(r), r[i] = x
               PROVE  Occurs(x, q) /\ x # Head(q)
    BY DEF Occurs
  <2>1. i + 1 \in 1 .. Len(q) /\ q[i + 1] = x /\ i + 1 # 1 /\ 1 \in 1 .. Len(q)
    BY <1>1, <1>2
  <2> QED BY <2>1, <1>1 DEF Occurs, Distinct
<1>5. \A x \in Ops : Occurs(x, q) /\ x # Head(q) => Occurs(x, r)
  <2> SUFFICES ASSUME NEW x \in Ops, NEW i \in 1 .. Len(q), q[i] = x, x # Head(q)
               PROVE  Occurs(x, r)
    BY DEF Occurs
  <2>1. i - 1 \in 1 .. Len(r) /\ r[i - 1] = x
    BY <1>1
  <2> QED BY <2>1 DEF Occurs
<1>6. Distinct(r)
  <2> SUFFICES ASSUME NEW i \in 1 .. Len(r), NEW j \in 1 .. Len(r), r[i] = r[j]
               PROVE  i = j
    BY DEF Distinct
  <2>1. i + 1 = j + 1
    BY <1>2 DEF Distinct
  <2> QED BY <2>1, <1>1
<1> QED BY <1>1, <1>3, <1>4, <1>5, <1>6 DEF r

\* Nothing is left in a lost queue.
LEMMA Emptied == Distinct(<<>>) /\ \A x \in Ops : ~Occurs(x, <<>>)
BY DEF Distinct, Occurs

\* Every step keeps each operation in its one place.
LEMMA QueueStep ==
  ASSUME HostInv, HostNext
  PROVE  QueueOK'
<1> USE HostAssumption
<1>a. HostTyped /\ HostTyped' /\ QueueOK /\ WorkerOK
  BY TypedStep DEF HostInv
<1>b. runner.at # "idle" => runner.op \in Ops
  BY <1>a DEF HostTyped, QueueOK, Runners
<1>q. ASSUME UNCHANGED waiting PROVE (\A x \in Ops : Queued(x)' <=> Queued(x)) /\ (Distinct(waiting)' <=> Distinct(waiting))
  BY <1>q DEF Queued
<1>1. ASSUME NEW o \in Ops, NEW kind \in HostKinds, SubmitHost(o, kind) PROVE QueueOK'
  <2>1. /\ kind = "reboot" => UNCHANGED waiting
        /\ kind # "reboot" => waiting' = Append(waiting, o)
        /\ ops[o].kind = "none" /\ UNCHANGED <<runner, timer, boot>>
    BY <1>1 DEF SubmitHost, NoRecord, machine
  <2>2. ~Queued(o) /\ runner.op # o /\ o \notin timer
    BY <1>a, <2>1 DEF QueueOK
  <2>3. /\ \A x \in Ops : Queued(x)' => Queued(x) \/ (x = o /\ kind # "reboot")
        /\ Distinct(waiting')
    <3>1. CASE kind = "reboot"
      BY <1>a, <2>1, <3>1 DEF Queued, QueueOK
    <3>2. CASE kind # "reboot"
      <4>1. /\ waiting \in Seq(Ops) /\ Distinct(waiting) /\ ~Occurs(o, waiting)
            /\ waiting' = Append(waiting, o)
        BY <1>a, <2>1, <2>2, <3>2 DEF Queued, QueueOK, HostTyped
      <4> QED BY <3>2, <4>1, Appended DEF Queued
    <3> QED BY <3>1, <3>2
  <2>4. /\ \A x \in Ops \ {o} : ops'[x] = ops[x] /\ reboot'[x] = reboot[x]
        /\ ops'[o].kind = kind /\ kind # "none"
        /\ reboot'[o].before \leq boot
    BY <1>1, <1>a DEF SubmitHost, HostTyped, QueueOK, HostKinds
  <2>5. \A x \in Ops \ {o} :
           /\ ops'[x].kind = "none" => ops'[x] = NoRecord
           /\ Queued(x)' => ops'[x].kind # "none" /\ runner'.op # x
           /\ runner'.op = x => ops'[x].kind # "none"
           /\ ops'[x].kind = "reboot" /\ (Queued(x)' \/ runner'.op = x) => reboot'[x].ack
           /\ x \in timer' => /\ ops'[x].kind = "reboot" /\ reboot'[x].ack /\ ~Queued(x)'
                              /\ boot' = reboot'[x].before
                              /\ runner'.op = x => runner'.at = "save"
           /\ reboot'[x].before \leq boot'
    BY <1>a, <2>1, <2>3, <2>4 DEF QueueOK
  <2>6. runner.op \in Ops => ops'[runner.op].kind = ops[runner.op].kind
    BY <2>2, <2>4
  <2> QED BY HostAssumption, <1>a, <1>b, <2>1, <2>2, <2>3, <2>4, <2>5, <2>6 DEF QueueOK, JobSteps, RebootSteps
<1>2. ASSUME NEW o \in Ops, Acknowledge(o) PROVE QueueOK'
  <2>1. /\ \A x \in Ops : Queued(x)' <=> Queued(x) \/ x = o
        /\ Distinct(waiting')
    BY <1>a, <1>2, Appended DEF Queued, QueueOK, Acknowledge, HostTyped
  <2> QED BY <1>2, <1>a, <2>1 DEF Acknowledge, Live, NoRecord, HostTyped, QueueOK, machine,
      HostFault, JobSteps, RebootSteps
<1>3. ASSUME NEW o \in Ops, Overdue(o) PROVE QueueOK'
  BY <1>3, <1>a, <1>b, <1>q DEF Overdue, HostTyped, QueueOK, machine, HostFault, JobSteps,
      RebootSteps
<1>4. ASSUME NEW o \in Ops, PollRead(o) PROVE QueueOK'
  BY <1>4, <1>a, <1>b, <1>q DEF PollRead, Reconcilable, Read, Alive, HostTyped, QueueOK, machine,
      HostFault, JobSteps, RebootSteps
<1>5. ASSUME NEW o \in Ops, PollReboot(o) PROVE QueueOK'
  <2>1. \A x \in Ops : ops'[x].kind = ops[x].kind /\ (ops[x].kind = "none" => ops'[x] = ops[x])
    BY <1>5, <1>a DEF PollReboot, RebootOpen, SetStatus, HostTyped, Records, NoRecord
  <2>2. \A x \in Ops : reboot'[x].ack = reboot[x].ack /\ reboot'[x].before = reboot[x].before
    <3>2. CASE \E i \in Intents : reboot' = [reboot EXCEPT ![o].intent = i]
      BY <1>a, <3>2 DEF HostTyped, Reboots
    <3> QED BY Zenon, <1>5, <3>2 DEF PollReboot, Intents
  <2>3. UNCHANGED <<waiting, boot, timer, runner>>
    BY <1>5 DEF PollReboot, machine
  <2> QED BY HostAssumption, <1>a, <1>b, <1>q, <2>1, <2>2, <2>3 DEF QueueOK, JobSteps, RebootSteps
<1>6. ASSUME NEW o \in Ops, PollRebootFails(o) PROVE QueueOK'
  <2>1. \A x \in Ops : ops'[x].kind = ops[x].kind /\ (ops[x].kind = "none" => ops'[x] = ops[x])
    BY <1>6, <1>a DEF PollRebootFails, RebootOpen, SetStatus, HostTyped, Records, NoRecord
  <2>2. \A x \in Ops : reboot'[x].ack = reboot[x].ack /\ reboot'[x].before = reboot[x].before
    BY <1>6, <1>a DEF PollRebootFails, HostTyped, Reboots
  <2>3. UNCHANGED <<waiting, boot, timer, runner>>
    BY <1>6 DEF PollRebootFails, machine
  <2> QED BY HostAssumption, <1>a, <1>b, <1>q, <2>1, <2>2, <2>3 DEF QueueOK, JobSteps, RebootSteps
<1>7. ASSUME NEW o \in Ops, Spool(o) PROVE QueueOK'
  BY <1>7, <1>a, <1>b, <1>q DEF Spool, HostTyped, QueueOK, machine, HostFault, JobSteps,
      RebootSteps
<1>8. ASSUME NEW o \in Ops, StartApt(o) PROVE QueueOK'
  BY <1>8, <1>a, <1>b, <1>q DEF StartApt, HostTyped, QueueOK, machine, HostFault, JobSteps,
      RebootSteps
<1>9. ASSUME NEW o \in Ops, EndApt(o) PROVE QueueOK'
  BY <1>9, <1>a, <1>b, <1>q DEF EndApt, HostTyped, QueueOK, machine, HostFault, JobSteps,
      RebootSteps
<1>10. ASSUME NEW o \in Ops, Succeed(o) PROVE QueueOK'
  BY <1>10, <1>a, <1>b, <1>q DEF Succeed, HostTyped, QueueOK, machine, HostFault, JobSteps,
      RebootSteps
<1>11. ASSUME NEW o \in Ops, Fail(o) PROVE QueueOK'
  BY <1>11, <1>a, <1>b, <1>q DEF Fail, HostTyped, QueueOK, machine, HostFault, JobSteps,
      RebootSteps
<1>12. ASSUME NEW o \in Ops, Exit(o) PROVE QueueOK'
  BY <1>12, <1>a, <1>b, <1>q DEF Exit, HostTyped, QueueOK, machine, HostFault, JobSteps,
      RebootSteps
<1>13. CASE PollDecide
  <2>1. \A x \in Ops : ops'[x].kind = ops[x].kind /\ (ops[x].kind = "none" => ops'[x] = ops[x])
    BY <1>13, <1>a, PollDecides DEF PollDecide, PollOK, HostInv, Decided, NoRecord, QueueOK
  <2>2. UNCHANGED <<waiting, boot, timer, reboot, runner>>
    BY <1>13 DEF PollDecide, machine
  <2> QED BY HostAssumption, <1>a, <1>b, <1>q, <2>1, <2>2 DEF QueueOK, JobSteps, RebootSteps
<1>14. CASE Begin
  <2>1. /\ Head(waiting) \in Ops /\ Queued(Head(waiting))
        /\ \A x \in Ops : Queued(x)' <=> Queued(x) /\ x # Head(waiting)
        /\ Distinct(waiting')
    BY <1>a, <1>14, Taken DEF Queued, QueueOK, Begin, HostTyped
  <2> QED BY <1>14, <1>a, <2>1 DEF Begin, Doing, HostTyped, QueueOK, machine, HostFault, JobSteps,
      RebootSteps
<1>15. CASE WaitLock
  <2>1. runner.op \in Ops /\ runner'.op = runner.op /\ runner.at = "lock" /\ runner'.at \in {"dispatch", "except"} /\ ops[runner.op].kind # "reboot"
    BY <1>15, <1>a, <1>b DEF WaitLock, Doing, Goes, Op, HostTyped, Runners, Idle, RebootNotConfirmed,
        JobSteps, RebootSteps
  <2>2. \A x \in Ops : ops'[x].kind = ops[x].kind /\ (ops[x].kind = "none" => ops'[x] = ops[x])
    <3>1. CASE ops' = [ops EXCEPT ![runner.op].status = "running"]
      <4>1. \A x \in Ops : ops'[x].kind = ops[x].kind /\ (x # runner.op => ops'[x] = ops[x])
        BY <1>a, <2>1, <3>1 DEF HostTyped, Records
      <4> QED BY <1>a, <2>1, <4>1 DEF QueueOK
    <3> QED BY <1>15, <3>1 DEF WaitLock, Op
  <2>3. \A x \in Ops : reboot'[x].ack = reboot[x].ack /\ reboot'[x].before = reboot[x].before
    BY <1>15, <1>a, <2>1 DEF WaitLock, HostTyped, Reboots, Op
  <2>4. UNCHANGED <<waiting, boot, timer>>
    BY <1>15, <2>1 DEF WaitLock, machine, Op, Doing, Goes, RebootNotConfirmed, Schedulable, Idle
  <2> QED BY HostAssumption, <1>a, <1>q, <2>1, <2>2, <2>3, <2>4 DEF QueueOK, JobSteps,
      RebootSteps, Idle
<1>16. CASE Dispatch
  <2>1. runner.op \in Ops /\ runner'.op = runner.op /\ runner.at = "dispatch" /\ runner'.at \in {"run", "except"}
    BY <1>16, <1>a, <1>b DEF Dispatch, Doing, Goes, Op, HostTyped, Runners, Idle, RebootNotConfirmed,
        JobSteps, RebootSteps
  <2>2. \A x \in Ops : ops'[x].kind = ops[x].kind /\ (ops[x].kind = "none" => ops'[x] = ops[x])
    BY <1>16, <1>a, <2>1 DEF Dispatch, HostTyped, QueueOK, Op, NoRecord
  <2>3. \A x \in Ops : reboot'[x].ack = reboot[x].ack /\ reboot'[x].before = reboot[x].before
    BY <1>16, <1>a, <2>1 DEF Dispatch, HostTyped, Reboots, Op
  <2>4. UNCHANGED <<waiting, boot, timer>>
    BY <1>16, <2>1 DEF Dispatch, machine, Op, Doing, Goes, RebootNotConfirmed, Schedulable, Idle
  <2> QED BY HostAssumption, <1>a, <1>q, <2>1, <2>2, <2>3, <2>4 DEF QueueOK, JobSteps,
      RebootSteps, Idle
<1>17. CASE RunTransient
  <2>1. runner.op \in Ops /\ runner'.op = runner.op /\ runner.at = "run" /\ runner'.at \in {"wait", "except"}
    BY <1>17, <1>a, <1>b DEF RunTransient, Doing, Goes, Op, HostTyped, Runners, Idle,
        RebootNotConfirmed, JobSteps, RebootSteps
  <2>2. \A x \in Ops : ops'[x].kind = ops[x].kind /\ (ops[x].kind = "none" => ops'[x] = ops[x])
    BY <1>17, <1>a, <2>1 DEF RunTransient, HostTyped, QueueOK, Op, NoRecord
  <2>3. \A x \in Ops : reboot'[x].ack = reboot[x].ack /\ reboot'[x].before = reboot[x].before
    BY <1>17, <1>a, <2>1 DEF RunTransient, HostTyped, Reboots, Op
  <2>4. UNCHANGED <<waiting, boot, timer>>
    BY <1>17, <2>1 DEF RunTransient, machine, Op, Doing, Goes, RebootNotConfirmed, Schedulable, Idle
  <2> QED BY HostAssumption, <1>a, <1>q, <2>1, <2>2, <2>3, <2>4 DEF QueueOK, JobSteps,
      RebootSteps, Idle
<1>18. CASE Result
  <2>1. runner.op \in Ops /\ runner'.op = runner.op /\ runner.at = "wait" /\ runner'.at \in {"finish", "except"}
    BY <1>18, <1>a, <1>b DEF Result, Doing, Goes, Op, HostTyped, Runners, Idle, RebootNotConfirmed,
        JobSteps, RebootSteps
  <2>2. \A x \in Ops : ops'[x].kind = ops[x].kind /\ (ops[x].kind = "none" => ops'[x] = ops[x])
    BY <1>18, <1>a, <2>1 DEF Result, HostTyped, QueueOK, Op, NoRecord
  <2>3. \A x \in Ops : reboot'[x].ack = reboot[x].ack /\ reboot'[x].before = reboot[x].before
    BY <1>18, <1>a, <2>1 DEF Result, HostTyped, Reboots, Op
  <2>4. UNCHANGED <<waiting, boot, timer>>
    BY <1>18, <2>1 DEF Result, machine, Op, Doing, Goes, RebootNotConfirmed, Schedulable, Idle
  <2> QED BY HostAssumption, <1>a, <1>q, <2>1, <2>2, <2>3, <2>4 DEF QueueOK, JobSteps,
      RebootSteps, Idle
<1>19. CASE FinishJob
  <2>1. runner.op \in Ops /\ runner' = Idle
    BY <1>19, <1>a, <1>b DEF FinishJob, Doing, Goes, Op, HostTyped, Runners, Idle, RebootNotConfirmed,
        JobSteps, RebootSteps
  <2>2. \A x \in Ops : ops'[x].kind = ops[x].kind /\ (ops[x].kind = "none" => ops'[x] = ops[x])
    <3>1. Decided(runner.op) /\ ops[runner.op].kind # "none"
      BY <1>19, <1>a, <2>1, JobDecides DEF QueueOK
    <3> QED BY <3>1 DEF Decided
  <2>3. \A x \in Ops : reboot'[x].ack = reboot[x].ack /\ reboot'[x].before = reboot[x].before
    BY <1>19, <1>a, <2>1 DEF FinishJob, HostTyped, Reboots, Op
  <2>4. UNCHANGED <<waiting, boot, timer>>
    BY <1>19, <2>1 DEF FinishJob, machine, Op, Doing, Goes, RebootNotConfirmed, Schedulable, Idle
  <2> QED BY HostAssumption, <1>a, <1>q, <2>1, <2>2, <2>3, <2>4 DEF QueueOK, JobSteps,
      RebootSteps, Idle
<1>20. CASE ExceptJob
  <2>1. runner.op \in Ops /\ runner' = Idle
    BY <1>20, <1>a, <1>b DEF ExceptJob, Doing, Goes, Op, HostTyped, Runners, Idle, RebootNotConfirmed,
        JobSteps, RebootSteps
  <2>2. \A x \in Ops : ops'[x].kind = ops[x].kind /\ (ops[x].kind = "none" => ops'[x] = ops[x])
    <3>1. Decided(runner.op) /\ ops[runner.op].kind # "none"
      BY <1>20, <1>a, <2>1, JobDecides DEF QueueOK
    <3> QED BY <3>1 DEF Decided
  <2>3. \A x \in Ops : reboot'[x].ack = reboot[x].ack /\ reboot'[x].before = reboot[x].before
    BY <1>20, <1>a, <2>1 DEF ExceptJob, HostTyped, Reboots, Op
  <2>4. UNCHANGED <<waiting, boot, timer>>
    BY <1>20, <2>1 DEF ExceptJob, machine, Op, Doing, Goes, RebootNotConfirmed, Schedulable, Idle
  <2> QED BY HostAssumption, <1>a, <1>q, <2>1, <2>2, <2>3, <2>4 DEF QueueOK, JobSteps,
      RebootSteps, Idle
<1>21. CASE WaitRebootLock
  <2>1. runner.op \in Ops /\ (runner' = Idle \/ (runner'.op = runner.op /\ runner'.at = "schedule")) /\ runner.at = "lock" /\ ops[runner.op].kind = "reboot"
    BY Zenon, <1>21, <1>a, <1>b DEF WaitRebootLock, Doing, Goes, Op, HostTyped, Runners, Idle,
        RebootNotConfirmed, JobSteps, RebootSteps
  <2>2. \A x \in Ops : ops'[x].kind = ops[x].kind /\ (ops[x].kind = "none" => ops'[x] = ops[x])
    <3>1. CASE SetStatus(runner.op, "failed", FALSE)
      BY ZenonT(60), <1>a, <2>1, <3>1, StatusSet DEF HostTyped, Statuses, QueueOK
    <3> QED BY Zenon, <1>21, <3>1 DEF WaitRebootLock, Op
  <2>3. \A x \in Ops : reboot'[x].ack = reboot[x].ack /\ reboot'[x].before = reboot[x].before
    BY <1>21, <1>a, <2>1 DEF WaitRebootLock, HostTyped, Reboots, Op
  <2>4. UNCHANGED <<waiting, boot, timer>>
    BY <1>21, <2>1 DEF WaitRebootLock, machine, Op, Doing, Goes, RebootNotConfirmed, Schedulable, Idle
  <2> QED BY HostAssumption, <1>a, <1>q, <2>1, <2>2, <2>3, <2>4 DEF QueueOK, JobSteps,
      RebootSteps, Idle
<1>22. CASE ScheduleReboot
  <2>1. runner.op \in Ops /\ (runner' = Idle \/ (runner'.op = runner.op /\ runner'.at = "save")) /\ runner.at = "schedule"
    BY Zenon, <1>22, <1>a, <1>b DEF ScheduleReboot, Doing, Goes, Op, HostTyped, Runners, Idle,
        RebootNotConfirmed, JobSteps, RebootSteps
  <2>2. \A x \in Ops : ops'[x].kind = ops[x].kind /\ (ops[x].kind = "none" => ops'[x] = ops[x])
    BY <1>22, <1>a, <2>1 DEF ScheduleReboot, HostTyped, QueueOK, Op, NoRecord, SetStatus, Records,
        RebootNotConfirmed
  <2>3. \A x \in Ops : reboot'[x].ack = reboot[x].ack /\ reboot'[x].before = reboot[x].before
    BY <1>22, <1>a, <2>1 DEF ScheduleReboot, HostTyped, Reboots, Op
  <2>4. /\ UNCHANGED <<waiting, boot>>
        /\ \/ timer' = timer
           \/ timer' = timer \cup {runner.op} /\ boot = reboot[runner.op].before
    BY Zenon, <1>22, <2>1 DEF ScheduleReboot, machine, Op, Doing, Goes, RebootNotConfirmed, Schedulable, Idle
  <2> QED BY HostAssumption, <1>a, <1>q, <2>1, <2>2, <2>3, <2>4 DEF QueueOK, JobSteps,
      RebootSteps, Idle
<1>23. CASE SaveReboot
  <2>1. runner.op \in Ops /\ runner' = Idle
    BY <1>23, <1>a, <1>b DEF SaveReboot, Doing, Goes, Op, HostTyped, Runners, Idle,
        RebootNotConfirmed, JobSteps, RebootSteps
  <2>2. \A x \in Ops : ops'[x].kind = ops[x].kind /\ (ops[x].kind = "none" => ops'[x] = ops[x])
    BY <1>23, <1>a, <2>1 DEF SaveReboot, HostTyped, QueueOK, Op, NoRecord, Records
  <2>3. \A x \in Ops : reboot'[x].ack = reboot[x].ack /\ reboot'[x].before = reboot[x].before
    BY <1>23, <1>a, <2>1 DEF SaveReboot, HostTyped, Reboots, Op
  <2>4. UNCHANGED <<waiting, boot, timer>>
    BY <1>23, <2>1 DEF SaveReboot, machine, Op, Doing, Goes, RebootNotConfirmed, Schedulable, Idle
  <2> QED BY HostAssumption, <1>a, <1>q, <2>1, <2>2, <2>3, <2>4 DEF QueueOK, JobSteps,
      RebootSteps, Idle
<1>24. CASE EndBridge
  <2>1. waiting' = <<>> /\ runner' = Idle
    BY <1>24 DEF EndBridge, Lose, Boot
  <2>2. (\A x \in Ops : ~Queued(x)') /\ Distinct(waiting')
    BY <2>1, Emptied DEF Queued
  <2> QED BY <1>24, <1>a, <2>1, <2>2 DEF EndBridge, Boot, Idle, HostTyped, QueueOK, machine,
      HostFault, JobSteps, RebootSteps
<1>25. CASE StartBridge
  BY <1>25, <1>a, <1>b, <1>q DEF StartBridge, Serving, HostTyped, QueueOK, machine, HostFault,
      JobSteps, RebootSteps
<1>26. CASE TimerFires
  <2>1. /\ waiting' = <<>> /\ runner' = Idle /\ UNCHANGED <<ops, reboot>>
        /\ timer' = {} /\ boot' = boot + 1
    BY <1>26 DEF TimerFires, Lose, Boot
  <2>2. (\A x \in Ops : ~Queued(x)') /\ Distinct(waiting')
    BY <2>1, Emptied DEF Queued
  <2>3. \A x \in Ops : reboot[x].before \in Nat
    BY <1>a DEF HostTyped, Reboots
  <2> QED BY <1>a, <2>1, <2>2, <2>3 DEF HostTyped, QueueOK, Idle, JobSteps, RebootSteps
<1>27. CASE OtherReboot
  <2>1. /\ waiting' = <<>> /\ runner' = Idle /\ UNCHANGED <<ops, reboot>>
        /\ timer' = {} /\ boot' = boot + 1
    BY <1>27 DEF OtherReboot, Lose, Boot
  <2>2. (\A x \in Ops : ~Queued(x)') /\ Distinct(waiting')
    BY <2>1, Emptied DEF Queued
  <2>3. \A x \in Ops : reboot[x].before \in Nat
    BY <1>a DEF HostTyped, Reboots
  <2> QED BY <1>a, <2>1, <2>2, <2>3 DEF HostTyped, QueueOK, Idle, JobSteps, RebootSteps
<1> QED BY <1>1, <1>2, <1>3, <1>4, <1>5, <1>6, <1>7, <1>8, <1>9, <1>10, <1>11, <1>12, <1>13,
    <1>14, <1>15, <1>16, <1>17, <1>18, <1>19, <1>20, <1>21, <1>22, <1>23, <1>24, <1>25, <1>26,
    <1>27 DEF HostNext

\* Every step keeps the spool true to what the worker has done.
LEMMA WorkerStep ==
  ASSUME HostInv, HostNext
  PROVE  WorkerOK'
<1> USE HostAssumption
<1>a. HostTyped /\ HostTyped' /\ QueueOK /\ QueueOK' /\ WorkerOK
  BY TypedStep, QueueStep DEF HostInv
<1>b. /\ runner.at # "idle" => runner.op \in Ops
      /\ runner.at = "idle" <=> runner.op = NoOp
  BY <1>a DEF HostTyped, QueueOK, Runners
<1>q. ASSUME UNCHANGED waiting PROVE \A x \in Ops : Queued(x)' <=> Queued(x)
  BY <1>q DEF Queued
<1>1. ASSUME NEW o \in Ops, NEW kind \in HostKinds, SubmitHost(o, kind) PROVE WorkerOK'
  <2>1. /\ kind = "reboot" => UNCHANGED waiting
        /\ kind # "reboot" => waiting' = Append(waiting, o)
        /\ ops[o].kind = "none" /\ UNCHANGED <<runner, execution, worker>>
    BY <1>1 DEF SubmitHost, NoRecord, machine
  <2>2. \A x \in Ops : Queued(x)' => Queued(x) \/ x = o
    <3>1. CASE waiting' = Append(waiting, o)
      BY <1>a, <3>1, Appended DEF Queued, HostTyped
    <3> QED BY <2>1, <3>1, <1>q
  <2>3. /\ ~execution[o].dispatched
        /\ \A x \in Ops \ {o} : ops'[x] = ops[x]
    BY <1>1, <1>a, <2>1 DEF SubmitHost, HostTyped, WorkerOK
  <2> QED BY <1>a, <2>1, <2>2, <2>3 DEF WorkerOK
<1>2. ASSUME NEW o \in Ops, Acknowledge(o) PROVE WorkerOK'
  <2>1. \A x \in Ops : Queued(x)' <=> Queued(x) \/ x = o
    BY <1>a, <1>2, Appended DEF Queued, Acknowledge, HostTyped
  <2> QED BY <1>2, <1>a, <2>1 DEF Acknowledge, HostTyped, WorkerOK, machine, HostFault
<1>3. ASSUME NEW o \in Ops, Overdue(o) PROVE WorkerOK'
  BY <1>3, <1>a, <1>b, <1>q DEF Overdue, HostTyped, WorkerOK, machine, HostFault
<1>4. ASSUME NEW o \in Ops, PollRead(o) PROVE WorkerOK'
  BY <1>4, <1>a, <1>b, <1>q DEF PollRead, Reconcilable, Read, Alive, HostTyped, WorkerOK, machine,
      HostFault
<1>5. ASSUME NEW o \in Ops, PollReboot(o) PROVE WorkerOK'
  <2>1. UNCHANGED <<waiting, runner, worker, execution>>
    BY <1>5 DEF PollReboot
  <2>2. \A x \in Ops : ops'[x].kind = ops[x].kind
    <3>1. CASE \E s \in Statuses : SetStatus(o, s, FALSE)
      BY Zenon, <1>a, <3>1, StatusSet DEF HostTyped
    <3> QED BY Zenon, <1>5, <3>1 DEF PollReboot, Statuses
  <2> QED BY <1>a, <1>b, <1>q, <2>1, <2>2 DEF WorkerOK
<1>6. ASSUME NEW o \in Ops, PollRebootFails(o) PROVE WorkerOK'
  <2>1. UNCHANGED <<waiting, runner, worker, execution>>
    BY <1>6 DEF PollRebootFails
  <2>2. \A x \in Ops : ops'[x].kind = ops[x].kind
    BY <1>6, <1>a DEF PollRebootFails, HostTyped, SetStatus, Records
  <2> QED BY <1>a, <1>b, <1>q, <2>1, <2>2 DEF WorkerOK
<1>7. ASSUME NEW o \in Ops, Spool(o) PROVE WorkerOK'
  <2>1. /\ UNCHANGED <<waiting, runner, execution, ops>>
        /\ \A x \in Ops \ {o} : worker'[x] = worker[x]
    BY <1>7, <1>a DEF Spool, HostTyped
  <2>2. /\ worker[o].spool = "none" /\ worker[o].alive /\ worker'[o].apt = worker[o].apt
        /\ \/ worker'[o].spool = "running" /\ worker'[o].alive
           \/ worker'[o].spool = "none" /\ ~worker'[o].alive
    BY <1>7, <1>a DEF Spool, HostTyped, Workers
  <2> QED BY <1>a, <1>b, <1>q, <2>1, <2>2 DEF WorkerOK
<1>8. ASSUME NEW o \in Ops, StartApt(o) PROVE WorkerOK'
  BY <1>8, <1>a, <1>b, <1>q DEF StartApt, HostTyped, WorkerOK, machine, HostFault
<1>9. ASSUME NEW o \in Ops, EndApt(o) PROVE WorkerOK'
  BY <1>9, <1>a, <1>b, <1>q DEF EndApt, HostTyped, WorkerOK, machine, HostFault
<1>10. ASSUME NEW o \in Ops, Succeed(o) PROVE WorkerOK'
  BY <1>10, <1>a, <1>b, <1>q DEF Succeed, HostTyped, WorkerOK, machine, HostFault
<1>11. ASSUME NEW o \in Ops, Fail(o) PROVE WorkerOK'
  <2>1. /\ UNCHANGED <<waiting, runner, execution, ops>>
        /\ \A x \in Ops \ {o} : worker'[x] = worker[x]
    BY <1>11, <1>a DEF Fail, HostTyped
  <2>2. /\ worker[o].spool = "running" /\ worker[o].alive /\ ~worker'[o].alive
        /\ worker'[o].apt = IF worker[o].apt = "untouched" THEN "untouched" ELSE "broken"
        /\ worker'[o].spool \in {"failed", "running"}
    BY <1>11, <1>a DEF Fail, HostTyped, Workers
  <2> QED BY <1>a, <1>b, <1>q, <2>1, <2>2 DEF WorkerOK
<1>12. ASSUME NEW o \in Ops, Exit(o) PROVE WorkerOK'
  BY <1>12, <1>a, <1>b, <1>q DEF Exit, HostTyped, WorkerOK, machine, HostFault
<1>13. CASE PollDecide
  <2>1. \A x \in Ops : /\ ops'[x].kind = ops[x].kind /\ execution'[x].dispatched = execution[x].dispatched
                       /\ execution'[x].verified => worker[x].spool = "succeeded"
    BY <1>13, <1>a, PollDecides DEF WorkerOK, Decided
  <2>2. UNCHANGED <<waiting, runner, worker>>
    BY <1>13 DEF PollDecide
  <2> QED BY <1>a, <1>b, <1>q, <2>1, <2>2 DEF WorkerOK
<1>14. CASE Begin
  <2>1. /\ Head(waiting) \in Ops /\ Queued(Head(waiting))
        /\ \A x \in Ops : Queued(x)' <=> Queued(x) /\ x # Head(waiting)
    BY <1>a, <1>14, Taken DEF Queued, QueueOK, Begin, HostTyped
  <2> QED BY <1>14, <1>a, <2>1 DEF Begin, Doing, HostTyped, WorkerOK, machine, HostFault
<1>15. CASE WaitLock
  <2>1. runner.op \in Ops /\ runner'.op = runner.op /\ runner.at = "lock" /\ runner'.at \in {"dispatch", "except"}
    BY <1>15, <1>a, <1>b DEF WaitLock, Doing, Goes, Op, HostTyped, Runners, Idle, RebootNotConfirmed
  <2>2. \A x \in Ops : ops'[x].kind = ops[x].kind
    BY <1>15, <1>a, <2>1 DEF WaitLock, HostTyped, Records, Op
  <2>3. UNCHANGED <<execution, waiting, worker>>
    BY <1>15 DEF WaitLock
  <2> QED BY HostAssumption, <1>a, <1>b, <1>q, <2>1, <2>2, <2>3 DEF WorkerOK, Idle
<1>16. CASE Dispatch
  <2>1. runner.op \in Ops /\ runner'.op = runner.op /\ runner.at = "dispatch" /\ runner'.at \in {"run", "except"}
    BY <1>16, <1>a, <1>b DEF Dispatch, Doing, Goes, Op, HostTyped, Runners, Idle, RebootNotConfirmed
  <2>2. \A x \in Ops : ops'[x].kind = ops[x].kind
    BY <1>16, <1>a, <2>1 DEF Dispatch, HostTyped, Records, Op
  <2>3. UNCHANGED <<ops, waiting, worker>>
    BY <1>16 DEF Dispatch
  <2>4. \A x \in Ops : /\ execution'[x].verified = execution[x].verified
                       /\ x # runner.op => execution'[x] = execution[x]
    BY <1>16, <1>a, <2>1 DEF Dispatch, HostTyped, Executions, Op
  <2>8. \/ execution' = [execution EXCEPT ![runner.op].dispatched = TRUE] /\ runner'.at = "run"
        \/ execution' = execution /\ runner'.at = "except"
    BY <1>16, <1>a DEF Dispatch, Op, Goes, HostTyped, Runners
  <2>5. runner'.at = "run" => execution'[runner.op].dispatched
    BY <1>a, <2>1, <2>8 DEF HostTyped, Executions
  <2>6. runner'.at = "except" => execution' = execution
    BY <2>8
  <2>7. ops[runner.op].kind \in {"upgrade", "check"} /\ ~execution[runner.op].dispatched
    BY <1>a, <2>1 DEF QueueOK, WorkerOK, JobSteps, HostTyped, Records, HostKinds
  <2>9. /\ \A x \in Ops : Queued(x)' <=> Queued(x)
        /\ runner'.at \notin {"wait", "finish", "lock", "dispatch"}
        /\ worker[runner.op].spool = "none" /\ ~worker[runner.op].alive
    BY <1>a, <1>q, <2>1, <2>3, <2>7 DEF WorkerOK
  <2>10. \A x \in Ops : execution'[x].dispatched => execution[x].dispatched \/ x = runner.op
    BY <2>4
  <2>11. \A x \in Ops : execution[x].dispatched => execution'[x].dispatched
    BY <2>4, <2>7
  <2>12. ~Queued(runner.op)
    BY <1>a, <2>1 DEF QueueOK
  <2> QED BY <1>a, <2>1, <2>2, <2>3, <2>4, <2>5, <2>7, <2>9, <2>10, <2>11, <2>12 DEF WorkerOK
<1>17. CASE RunTransient
  <2>1. runner.op \in Ops /\ runner'.op = runner.op /\ runner.at = "run" /\ runner'.at \in {"wait", "except"}
    BY <1>17, <1>a, <1>b DEF RunTransient, Doing, Goes, Op, HostTyped, Runners, Idle,
        RebootNotConfirmed
  <2>2. \A x \in Ops : ops'[x].kind = ops[x].kind
    BY <1>17, <1>a, <2>1 DEF RunTransient, HostTyped, Records, Op
  <2>3. UNCHANGED <<ops, waiting, execution>>
    BY <1>17 DEF RunTransient
  <2>4. \A x \in Ops : /\ worker'[x].spool = worker[x].spool /\ worker'[x].apt = worker[x].apt
                       /\ worker'[x].alive => worker[x].alive \/ x = runner.op
    BY <1>17, <1>a, <2>1 DEF RunTransient, HostTyped, Workers, Op
  <2>5. worker[runner.op].spool = "none" /\ execution[runner.op].dispatched
    BY <1>a, <2>1 DEF WorkerOK
  <2>6. \A x \in Ops : worker'[x].alive = worker[x].alive \/ worker[x].spool = "none"
    BY Zenon, <1>17, <1>a, <2>1, <2>5 DEF RunTransient, HostTyped, Workers, Op
  <2> QED BY HostAssumption, <1>a, <1>b, <1>q, <2>1, <2>2, <2>3, <2>4, <2>5, <2>6 DEF WorkerOK,
      Idle
<1>18. CASE Result
  <2>1. runner.op \in Ops /\ runner'.op = runner.op /\ runner.at = "wait" /\ runner'.at \in {"finish", "except"} /\ (runner'.at = "finish" => worker[runner.op].spool = "succeeded")
    BY <1>18, <1>a, <1>b DEF Result, Doing, Goes, Op, HostTyped, Runners, Idle, RebootNotConfirmed
  <2>2. \A x \in Ops : ops'[x].kind = ops[x].kind
    BY <1>18, <1>a, <2>1 DEF Result, HostTyped, Records, Op
  <2>3. UNCHANGED <<ops, waiting, execution, worker>>
    BY <1>18 DEF Result
  <2> QED BY HostAssumption, <1>a, <1>b, <1>q, <2>1, <2>2, <2>3 DEF WorkerOK, Idle
<1>19. CASE FinishJob
  <2>1. \A x \in Ops : /\ ops'[x].kind = ops[x].kind /\ execution'[x].dispatched = execution[x].dispatched
                       /\ execution'[x].verified => worker[x].spool = "succeeded"
    BY <1>19, <1>a, JobDecides DEF WorkerOK, Decided
  <2>2. UNCHANGED <<waiting, worker>> /\ runner' = Idle
    BY <1>19 DEF FinishJob
  <2> QED BY <1>a, <1>q, <2>1, <2>2, HostAssumption DEF WorkerOK, Idle
<1>20. CASE ExceptJob
  <2>1. \A x \in Ops : /\ ops'[x].kind = ops[x].kind /\ execution'[x].dispatched = execution[x].dispatched
                       /\ execution'[x].verified => worker[x].spool = "succeeded"
    BY <1>20, <1>a, JobDecides DEF WorkerOK, Decided
  <2>2. UNCHANGED <<waiting, worker>> /\ runner' = Idle
    BY <1>20 DEF ExceptJob
  <2> QED BY <1>a, <1>q, <2>1, <2>2, HostAssumption DEF WorkerOK, Idle
<1>21. CASE WaitRebootLock
  <2>1. runner.op \in Ops /\ (runner' = Idle \/ (runner'.op = runner.op /\ runner'.at = "schedule"))
    BY Zenon, <1>21, <1>a, <1>b DEF WaitRebootLock, Doing, Goes, Op, HostTyped, Runners, Idle,
        RebootNotConfirmed
  <2>2. \A x \in Ops : ops'[x].kind = ops[x].kind
    <3>1. CASE SetStatus(runner.op, "failed", FALSE)
      BY Zenon, <1>a, <2>1, <3>1, StatusSet DEF HostTyped, Statuses
    <3> QED BY Zenon, <1>21, <3>1 DEF WaitRebootLock, Op
  <2>3. UNCHANGED <<execution, waiting, worker>>
    BY <1>21 DEF WaitRebootLock
  <2> QED BY HostAssumption, <1>a, <1>b, <1>q, <2>1, <2>2, <2>3 DEF WorkerOK, Idle
<1>22. CASE ScheduleReboot
  <2>1. runner.op \in Ops /\ (runner' = Idle \/ (runner'.op = runner.op /\ runner'.at = "save"))
    BY Zenon, <1>22, <1>a, <1>b DEF ScheduleReboot, Doing, Goes, Op, HostTyped, Runners, Idle,
        RebootNotConfirmed
  <2>2. \A x \in Ops : ops'[x].kind = ops[x].kind
    <3>1. CASE SetStatus(runner.op, "failed", TRUE)
      BY Zenon, <1>a, <2>1, <3>1, StatusSet DEF HostTyped, Statuses
    <3> QED BY Zenon, <1>22, <3>1 DEF ScheduleReboot, Op, RebootNotConfirmed
  <2>3. UNCHANGED <<execution, waiting, worker>>
    BY <1>22 DEF ScheduleReboot
  <2> QED BY HostAssumption, <1>a, <1>b, <1>q, <2>1, <2>2, <2>3 DEF WorkerOK, Idle
<1>23. CASE SaveReboot
  <2>1. runner.op \in Ops /\ runner' = Idle
    BY <1>23, <1>a, <1>b DEF SaveReboot, Doing, Goes, Op, HostTyped, Runners, Idle, RebootNotConfirmed
  <2>2. \A x \in Ops : ops'[x].kind = ops[x].kind
    BY <1>23, <1>a, <2>1 DEF SaveReboot, HostTyped, Records, Op
  <2>3. UNCHANGED <<execution, waiting, worker>>
    BY <1>23 DEF SaveReboot
  <2> QED BY HostAssumption, <1>a, <1>b, <1>q, <2>1, <2>2, <2>3 DEF WorkerOK, Idle
<1>24. CASE EndBridge
  <2>1. waiting' = <<>> /\ runner' = Idle
    BY <1>24 DEF EndBridge, Lose, Boot
  <2>2. \A x \in Ops : ~Queued(x)'
    BY <2>1, Emptied DEF Queued
  <2> QED BY <1>24, <1>a, <2>1, <2>2, HostAssumption DEF EndBridge, Boot, Killed, Workers, Idle,
      HostTyped, WorkerOK, machine, HostFault
<1>25. CASE StartBridge
  BY <1>25, <1>a, <1>b, <1>q DEF StartBridge, Serving, HostTyped, WorkerOK, machine, HostFault
<1>26. CASE TimerFires
  <2>1. /\ waiting' = <<>> /\ runner' = Idle /\ UNCHANGED <<ops, execution>>
        /\ worker' = [x \in Ops |-> Killed(worker[x])]
    BY <1>26 DEF TimerFires, Lose, Boot
  <2>2. \A x \in Ops : ~Queued(x)'
    BY <2>1, Emptied DEF Queued
  <2>3. \A x \in Ops : /\ worker'[x].spool = worker[x].spool /\ ~worker'[x].alive
                       /\ worker'[x].apt = IF worker[x].apt = "changing" THEN "broken" ELSE worker[x].apt
    <3>1. \A x \in Ops : worker[x] \in Workers /\ worker'[x] = Killed(worker[x])
      BY <1>a, <2>1 DEF HostTyped
    <3> QED BY Zenon, <3>1 DEF Killed, Workers
  <2> QED BY <1>a, <2>1, <2>2, <2>3, HostAssumption DEF Idle, WorkerOK
<1>27. CASE OtherReboot
  <2>1. /\ waiting' = <<>> /\ runner' = Idle /\ UNCHANGED <<ops, execution>>
        /\ worker' = [x \in Ops |-> Killed(worker[x])]
    BY <1>27 DEF OtherReboot, Lose, Boot
  <2>2. \A x \in Ops : ~Queued(x)'
    BY <2>1, Emptied DEF Queued
  <2>3. \A x \in Ops : /\ worker'[x].spool = worker[x].spool /\ ~worker'[x].alive
                       /\ worker'[x].apt = IF worker[x].apt = "changing" THEN "broken" ELSE worker[x].apt
    <3>1. \A x \in Ops : worker[x] \in Workers /\ worker'[x] = Killed(worker[x])
      BY <1>a, <2>1 DEF HostTyped
    <3> QED BY Zenon, <3>1 DEF Killed, Workers
  <2> QED BY <1>a, <2>1, <2>2, <2>3, HostAssumption DEF Idle, WorkerOK
<1> QED BY <1>1, <1>2, <1>3, <1>4, <1>5, <1>6, <1>7, <1>8, <1>9, <1>10, <1>11, <1>12, <1>13,
    <1>14, <1>15, <1>16, <1>17, <1>18, <1>19, <1>20, <1>21, <1>22, <1>23, <1>24, <1>25, <1>26,
    <1>27 DEF HostNext

----------------------------------------------------------------------------
(* What a step keeps                                                          *)

\* Only its submission gives an operation its kind.
LEMMA KindSame ==
  ASSUME HostInv, HostNext, ~\E o \in Ops, kind \in HostKinds : SubmitHost(o, kind)
  PROVE  \A x \in Ops : ops'[x].kind = ops[x].kind
<1> USE HostAssumption
<1>a. HostTyped /\ HostTyped' /\ QueueOK /\ QueueOK' /\ WorkerOK
  BY TypedStep, QueueStep DEF HostInv
<1>b. /\ runner.at # "idle" => runner.op \in Ops
      /\ runner.at = "idle" <=> runner.op = NoOp
  BY <1>a DEF HostTyped, QueueOK, Runners
<1>2. ASSUME NEW o \in Ops, PollReboot(o) PROVE \A x \in Ops : ops'[x].kind = ops[x].kind
  <2>1. CASE \E s \in Statuses : SetStatus(o, s, FALSE)
    BY Zenon, <1>a, <2>1, StatusSet DEF HostTyped
  <2> QED BY Zenon, <1>2, <2>1 DEF PollReboot, Statuses
<1>3. ASSUME NEW o \in Ops, PollRebootFails(o) PROVE \A x \in Ops : ops'[x].kind = ops[x].kind
  <2>1. ops[o].recovery \in BOOLEAN /\ "running" \in Statuses
    BY <1>a DEF HostTyped, Records, Statuses
  <2>2. SetStatus(o, "running", ops[o].recovery)
    BY <1>3 DEF PollRebootFails
  <2>3. ops'[o].kind = ops[o].kind /\ \A x \in Ops \ {o} : ops'[x] = ops[x]
    BY <1>a, <2>1, <2>2, StatusSet DEF HostTyped
  <2> QED BY <2>3
<1>4. CASE PollDecide
  BY <1>4, PollDecides, <1>a DEF Decided
<1>5. CASE WaitLock
  <2>1. runner.op \in Ops
    BY <1>5, <1>b DEF WaitLock, Doing
  <2>2. CASE ops' = [ops EXCEPT ![runner.op].status = "running"]
    BY <1>a, <2>1, <2>2 DEF HostTyped, Records
  <2> QED BY <1>5, <2>2 DEF WaitLock, Op
<1>6. CASE FinishJob
  BY <1>6, JobDecides, <1>a DEF Decided
<1>7. CASE ExceptJob
  BY <1>7, JobDecides, <1>a DEF Decided
<1>8. CASE WaitRebootLock
  <2>1. runner.op \in Ops
    BY <1>8, <1>b DEF WaitRebootLock, Doing
  <2>2. CASE SetStatus(runner.op, "failed", FALSE)
    <3>1. /\ ops'[runner.op].kind = ops[runner.op].kind
          /\ \A x \in Ops \ {runner.op} : ops'[x] = ops[x]
      BY Zenon, <1>a, <2>1, <2>2, StatusSet DEF HostTyped, Statuses
    <3> QED BY <3>1
  <2> QED BY Zenon, <1>8, <2>2 DEF WaitRebootLock, Op
<1>9. CASE ScheduleReboot
  <2>1. runner.op \in Ops
    BY <1>9, <1>b DEF ScheduleReboot, Doing
  <2>2. CASE SetStatus(runner.op, "failed", TRUE)
    <3>1. /\ ops'[runner.op].kind = ops[runner.op].kind
          /\ \A x \in Ops \ {runner.op} : ops'[x] = ops[x]
      BY Zenon, <1>a, <2>1, <2>2, StatusSet DEF HostTyped, Statuses
    <3> QED BY <3>1
  <2> QED BY Zenon, <1>9, <2>2 DEF ScheduleReboot, Op, RebootNotConfirmed
<1>10. CASE SaveReboot
  <2>1. runner.op \in Ops
    BY <1>10, <1>b DEF SaveReboot, Doing
  <2> QED BY <1>10, <2>1, <1>a DEF SaveReboot, Op, HostTyped, Records
<1>11. CASE ~((\E o \in Ops, kind \in HostKinds : SubmitHost(o, kind)) \/ (\E o \in Ops : PollReboot(o))
            \/ (\E o \in Ops : PollRebootFails(o)) \/ PollDecide \/ WaitLock \/ FinishJob \/ ExceptJob \/
            WaitRebootLock \/ ScheduleReboot \/ SaveReboot)
  <2>1. UNCHANGED ops
    BY ZenonT(60), <1>11 DEF HostNext, Acknowledge, Overdue, PollRead, Spool, StartApt, EndApt, Succeed, Fail,
        Exit, Begin, Dispatch, RunTransient, Result, EndBridge, StartBridge, TimerFires,
        OtherReboot, machine, Boot, Lose
  <2> QED BY <2>1
<1> QED BY <1>2, <1>3, <1>4, <1>5, <1>6, <1>7, <1>8, <1>9, <1>10, <1>11 DEF HostNext

\* An operation keeps its kind.
LEMMA KindStep ==
  ASSUME HostInv, HostNext
  PROVE  \A x \in Ops : ops[x].kind # "none" => ops'[x].kind = ops[x].kind
<1>1. ASSUME NEW o \in Ops, NEW kind \in HostKinds, SubmitHost(o, kind)
      PROVE  \A x \in Ops : ops[x].kind # "none" => ops'[x].kind = ops[x].kind
  BY <1>1 DEF HostInv, SubmitHost, HostTyped, NoRecord
<1> QED BY <1>1, KindSame

\* A durable success stays one.
LEMMA SpoolStep ==
  ASSUME HostInv, HostNext
  PROVE  \A x \in Ops : worker[x].spool = "succeeded" => worker'[x].spool = "succeeded"
<1> USE HostAssumption
<1>a. HostTyped /\ HostTyped' /\ QueueOK /\ QueueOK' /\ WorkerOK
  BY TypedStep, QueueStep DEF HostInv
<1>b. /\ runner.at # "idle" => runner.op \in Ops
      /\ runner.at = "idle" <=> runner.op = NoOp
  BY <1>a DEF HostTyped, QueueOK, Runners
<1>1. ASSUME NEW o \in Ops, Spool(o) PROVE \A x \in Ops : worker[x].spool = "succeeded" => worker'[x].spool = "succeeded"
  BY Zenon, <1>1, <1>a DEF Spool, HostTyped, Workers
<1>2. ASSUME NEW o \in Ops, StartApt(o) PROVE \A x \in Ops : worker[x].spool = "succeeded" => worker'[x].spool = "succeeded"
  BY <1>2, <1>a DEF StartApt, HostTyped, Workers
<1>3. ASSUME NEW o \in Ops, EndApt(o) PROVE \A x \in Ops : worker[x].spool = "succeeded" => worker'[x].spool = "succeeded"
  BY <1>3, <1>a DEF EndApt, HostTyped, Workers
<1>4. ASSUME NEW o \in Ops, Succeed(o) PROVE \A x \in Ops : worker[x].spool = "succeeded" => worker'[x].spool = "succeeded"
  BY <1>4, <1>a DEF Succeed, HostTyped, Workers
<1>5. ASSUME NEW o \in Ops, Fail(o) PROVE \A x \in Ops : worker[x].spool = "succeeded" => worker'[x].spool = "succeeded"
  BY <1>5, <1>a DEF Fail, HostTyped, Workers
<1>6. ASSUME NEW o \in Ops, Exit(o) PROVE \A x \in Ops : worker[x].spool = "succeeded" => worker'[x].spool = "succeeded"
  BY <1>6, <1>a DEF Exit, HostTyped, Workers
<1>7. CASE RunTransient
  <2>1. runner.op \in Ops /\ worker[runner.op].spool = "none"
    BY <1>7, <1>a, <1>b DEF RunTransient, Doing, WorkerOK
  <2> QED BY <1>7, <1>a, <2>1 DEF RunTransient, Op, HostTyped
<1>8. CASE TimerFires
  <2>1. \A x \in Ops : worker[x] \in Workers /\ worker'[x] = Killed(worker[x])
    BY <1>8, <1>a DEF TimerFires, Boot, HostTyped
  <2> QED BY Zenon, <2>1 DEF Killed, Workers
<1>9. CASE OtherReboot
  <2>1. \A x \in Ops : worker[x] \in Workers /\ worker'[x] = Killed(worker[x])
    BY <1>9, <1>a DEF OtherReboot, Boot, HostTyped
  <2> QED BY Zenon, <2>1 DEF Killed, Workers
<1>10. CASE ~((\E o \in Ops : Spool(o)) \/ (\E o \in Ops : StartApt(o)) \/ (\E o \in Ops : EndApt(o)) \/
            (\E o \in Ops : Succeed(o)) \/ (\E o \in Ops : Fail(o)) \/ (\E o \in Ops : Exit(o)) \/
            RunTransient \/ TimerFires \/ OtherReboot)
  <2>1. UNCHANGED worker
    BY ZenonT(60), <1>10 DEF HostNext, SubmitHost, Acknowledge, Overdue, PollRead, PollReboot, PollRebootFails,
        PollDecide, Begin, WaitLock, Dispatch, Result, FinishJob, ExceptJob, WaitRebootLock,
        ScheduleReboot, SaveReboot, EndBridge, StartBridge, machine, Boot, Lose
  <2> QED BY <2>1
<1> QED BY <1>1, <1>2, <1>3, <1>4, <1>5, <1>6, <1>7, <1>8, <1>9, <1>10 DEF HostNext

\* What a reconciliation has read stays true where it matters.
LEMMA PollStep ==
  ASSUME HostInv, HostNext
  PROVE  PollOK'
<1> USE HostAssumption
<1>a. HostTyped /\ HostTyped' /\ QueueOK /\ QueueOK' /\ WorkerOK
  BY TypedStep, QueueStep DEF HostInv
<1>b. /\ runner.at # "idle" => runner.op \in Ops
      /\ runner.at = "idle" <=> runner.op = NoOp
  BY <1>a DEF HostTyped, QueueOK, Runners
<1>c. /\ \A x \in Ops : ops[x].kind # "none" => ops'[x].kind = ops[x].kind
      /\ \A x \in Ops : worker[x].spool = "succeeded" => worker'[x].spool = "succeeded"
      /\ PollOK
  BY KindStep, SpoolStep DEF HostInv
<1>1. ASSUME NEW o \in Ops, PollRead(o) PROVE PollOK'
  <2>1. ops[o].kind \in {"upgrade", "check"} /\ poll'.op = o /\ poll'.rec = ops[o] /\ poll'.spool = worker[o].spool
    BY <1>1 DEF PollRead, Reconcilable, Read
  <2> QED BY <1>1, <1>c, <2>1 DEF PollRead, PollOK
<1>2. CASE PollDecide
  BY <1>2 DEF PollDecide, Boot, Lose, PollOK
<1>3. CASE EndBridge
  BY <1>3 DEF EndBridge, Boot, Lose, PollOK
<1>4. CASE TimerFires
  BY <1>4 DEF TimerFires, Boot, Lose, PollOK
<1>5. CASE OtherReboot
  BY <1>5 DEF OtherReboot, Boot, Lose, PollOK
<1>6. CASE ~((\E o \in Ops : PollRead(o)) \/ PollDecide \/ EndBridge \/ TimerFires \/ OtherReboot)
  <2> SUFFICES UNCHANGED poll
    BY <1>c DEF PollOK
  <2>1. ASSUME NEW o \in Ops, Spool(o) \/ StartApt(o) \/ EndApt(o) \/ Succeed(o) \/ Fail(o) \/ Exit(o)
        PROVE  UNCHANGED poll
    BY Zenon, <2>1 DEF Spool, StartApt, EndApt, Succeed, Fail, Exit
  <2>2. ASSUME NEW o \in Ops, \/ \E kind \in HostKinds : SubmitHost(o, kind)
                              \/ Acknowledge(o) \/ Overdue(o) \/ PollReboot(o) \/ PollRebootFails(o)
        PROVE  UNCHANGED poll
    BY Zenon, <2>2 DEF SubmitHost, Acknowledge, Overdue, PollReboot, PollRebootFails
  <2>3. ASSUME \/ Begin \/ WaitLock \/ Dispatch \/ RunTransient \/ Result \/ FinishJob \/ ExceptJob
               \/ WaitRebootLock \/ ScheduleReboot \/ SaveReboot \/ StartBridge
        PROVE  UNCHANGED poll
    BY Zenon, <2>3 DEF Begin, WaitLock, Dispatch, RunTransient, Result, FinishJob, ExceptJob,
        WaitRebootLock, ScheduleReboot, SaveReboot, StartBridge
  <2> QED BY <1>6, <2>1, <2>2, <2>3 DEF HostNext
<1> QED BY <1>1, <1>2, <1>3, <1>4, <1>5, <1>6 DEF HostNext

\* No step reports an upgrade as done before its worker has.
LEMMA SuccessStep ==
  ASSUME HostInv, HostNext
  PROVE  SuccessOK'
<1> USE HostAssumption
<1>a. HostTyped /\ HostTyped' /\ QueueOK /\ QueueOK' /\ WorkerOK
  BY TypedStep, QueueStep DEF HostInv
<1>b. /\ runner.at # "idle" => runner.op \in Ops
      /\ runner.at = "idle" <=> runner.op = NoOp
  BY <1>a DEF HostTyped, QueueOK, Runners
<1>c. SuccessOK /\ \A x \in Ops : worker[x].spool = "succeeded" => worker'[x].spool = "succeeded"
  BY SpoolStep DEF HostInv
<1>1. ASSUME NEW o \in Ops, NEW kind \in HostKinds, SubmitHost(o, kind) PROVE SuccessOK'
  BY <1>1, <1>a, <1>c DEF SubmitHost, HostTyped, NoRecord, SuccessOK
<1>2. ASSUME NEW o \in Ops, PollReboot(o) PROVE SuccessOK'
  <2>1. CASE \E s \in Statuses : SetStatus(o, s, FALSE)
    <3>1. /\ ops[o].kind = "reboot" /\ ops'[o].kind = ops[o].kind
          /\ \A x \in Ops \ {o} : ops'[x] = ops[x]
      BY Zenon, <1>2, <1>a, <2>1, StatusSet DEF HostTyped, PollReboot, RebootOpen
    <3> QED BY <1>c, <3>1 DEF SuccessOK
  <2> QED BY Zenon, <1>2, <2>1 DEF PollReboot, Statuses
<1>3. ASSUME NEW o \in Ops, PollRebootFails(o) PROVE SuccessOK'
  <2>1. ops[o].recovery \in BOOLEAN /\ "running" \in Statuses /\ ops[o].kind = "reboot"
    BY <1>3, <1>a DEF HostTyped, Records, Statuses, PollRebootFails, RebootOpen
  <2>2. SetStatus(o, "running", ops[o].recovery)
    BY <1>3 DEF PollRebootFails
  <2>3. ops'[o].kind = ops[o].kind /\ \A x \in Ops \ {o} : ops'[x] = ops[x]
    BY <1>a, <2>1, <2>2, StatusSet DEF HostTyped
  <2> QED BY <1>c, <2>1, <2>3 DEF SuccessOK
<1>4. CASE PollDecide
  BY <1>4, <1>c, PollDecides, <1>a DEF Decided, SuccessOK, PollDecide
<1>5. CASE WaitLock
  <2>1. runner.op \in Ops
    BY <1>5, <1>b DEF WaitLock, Doing
  <2>2. CASE ops' = [ops EXCEPT ![runner.op].status = "running"]
    BY <1>a, <1>c, <2>1, <2>2 DEF HostTyped, Records, SuccessOK
  <2> QED BY <1>5, <1>c, <2>2 DEF WaitLock, Op, SuccessOK
<1>6. CASE FinishJob
  BY Zenon, <1>6, <1>c, JobDecides, <1>a DEF Decided, SuccessOK, FinishJob
<1>7. CASE ExceptJob
  BY Zenon, <1>7, <1>c, JobDecides, <1>a DEF Decided, SuccessOK, ExceptJob
<1>8. CASE WaitRebootLock
  <2>1. runner.op \in Ops
    BY <1>8, <1>b DEF WaitRebootLock, Doing
  <2>2. CASE SetStatus(runner.op, "failed", FALSE)
    <3>1. \A x \in Ops : ops'[x].kind = ops[x].kind /\ (ops'[x].status = ops[x].status \/ ops'[x].status = "failed")
      BY Zenon, <1>a, <2>1, <2>2, StatusSet DEF HostTyped, Statuses
    <3> QED BY <1>c, <3>1 DEF SuccessOK
  <2> QED BY Zenon, <1>8, <1>c, <2>2 DEF WaitRebootLock, Op, SuccessOK
<1>9. CASE ScheduleReboot
  <2>1. runner.op \in Ops
    BY <1>9, <1>b DEF ScheduleReboot, Doing
  <2>2. CASE SetStatus(runner.op, "failed", TRUE)
    <3>1. \A x \in Ops : ops'[x].kind = ops[x].kind /\ (ops'[x].status = ops[x].status \/ ops'[x].status = "failed")
      BY Zenon, <1>a, <2>1, <2>2, StatusSet DEF HostTyped, Statuses
    <3> QED BY <1>c, <3>1 DEF SuccessOK
  <2> QED BY Zenon, <1>9, <1>c, <2>2 DEF ScheduleReboot, Op, RebootNotConfirmed, SuccessOK
<1>10. CASE SaveReboot
  <2>1. runner.op \in Ops
    BY <1>10, <1>b DEF SaveReboot, Doing
  <2> QED BY <1>10, <1>c, <2>1, <1>a DEF SaveReboot, Op, HostTyped, Records, SuccessOK
<1>11. CASE ~((\E o \in Ops, kind \in HostKinds : SubmitHost(o, kind)) \/ (\E o \in Ops : PollReboot(o))
            \/ (\E o \in Ops : PollRebootFails(o)) \/ PollDecide \/ WaitLock \/ FinishJob \/ ExceptJob \/
            WaitRebootLock \/ ScheduleReboot \/ SaveReboot)
  <2>1. UNCHANGED ops
    BY ZenonT(60), <1>11 DEF HostNext, Acknowledge, Overdue, PollRead, Spool, StartApt, EndApt, Succeed, Fail,
        Exit, Begin, Dispatch, RunTransient, Result, EndBridge, StartBridge, TimerFires,
        OtherReboot, machine, Boot, Lose
  <2> QED BY <2>1, <1>c DEF SuccessOK
<1> QED BY <1>1, <1>2, <1>3, <1>4, <1>5, <1>6, <1>7, <1>8, <1>9, <1>10, <1>11 DEF HostNext

----------------------------------------------------------------------------
(* Open and exclusive                                                         *)

\* No step but its submission lets an upgrade change packages.
LEMMA ChangeStep ==
  ASSUME HostInv, HostNext
  PROVE  \A x \in Ops : ops[x].kind # "none" /\ MayChange(x)' => MayChange(x)
<1> USE HostAssumption
<1>a. HostTyped /\ HostTyped' /\ QueueOK /\ QueueOK' /\ WorkerOK /\ WorkerOK'
  BY TypedStep, QueueStep, WorkerStep DEF HostInv
<1>b. /\ runner.at # "idle" => runner.op \in Ops
      /\ runner.at = "idle" <=> runner.op = NoOp
  BY <1>a DEF HostTyped, QueueOK, Runners
<1>k. \A x \in Ops : ops[x].kind # "none" => ops'[x].kind = ops[x].kind
  BY KindStep
<1>q. ASSUME UNCHANGED waiting PROVE \A x \in Ops : Queued(x)' <=> Queued(x)
  BY <1>q DEF Queued
<1>1. ASSUME NEW o \in Ops, NEW kind \in HostKinds, SubmitHost(o, kind) PROVE \A x \in Ops : ops[x].kind # "none" /\ MayChange(x)' => MayChange(x)
  <2>1. ops[o].kind = "none" /\ UNCHANGED <<runner, worker>>
    BY <1>1 DEF SubmitHost, NoRecord, machine
  <2>2. \A x \in Ops \ {o} : Queued(x)' => Queued(x)
    <3>1. CASE waiting' = Append(waiting, o)
      BY <1>a, <3>1, Appended DEF Queued, HostTyped
    <3> QED BY <1>1, <3>1, <1>q DEF SubmitHost
  <2> QED BY <1>k, <2>1, <2>2 DEF MayChange
<1>2. ASSUME NEW o \in Ops, Acknowledge(o) PROVE \A x \in Ops : ops[x].kind # "none" /\ MayChange(x)' => MayChange(x)
  <2>1. ops[o].kind = "reboot" /\ UNCHANGED <<runner, worker>>
    BY <1>2 DEF Acknowledge
  <2>2. \A x \in Ops : Queued(x)' => Queued(x) \/ x = o
    BY <1>a, <1>2, Appended DEF Queued, Acknowledge, HostTyped
  <2> QED BY <1>k, <2>1, <2>2 DEF MayChange
<1>3. ASSUME NEW o \in Ops, Overdue(o) PROVE \A x \in Ops : ops[x].kind # "none" /\ MayChange(x)' => MayChange(x)
  <2>1. UNCHANGED <<waiting, runner, worker>>
    BY <1>3 DEF Overdue
  <2> QED BY <1>k, <1>q, <2>1 DEF MayChange
<1>4. ASSUME NEW o \in Ops, PollRead(o) PROVE \A x \in Ops : ops[x].kind # "none" /\ MayChange(x)' => MayChange(x)
  <2>1. UNCHANGED <<waiting, runner, worker>>
    BY <1>4 DEF PollRead
  <2> QED BY <1>k, <1>q, <2>1 DEF MayChange
<1>5. ASSUME NEW o \in Ops, PollReboot(o) PROVE \A x \in Ops : ops[x].kind # "none" /\ MayChange(x)' => MayChange(x)
  <2>1. UNCHANGED <<waiting, runner, worker>>
    BY <1>5 DEF PollReboot
  <2> QED BY <1>k, <1>q, <2>1 DEF MayChange
<1>6. ASSUME NEW o \in Ops, PollRebootFails(o) PROVE \A x \in Ops : ops[x].kind # "none" /\ MayChange(x)' => MayChange(x)
  <2>1. UNCHANGED <<waiting, runner, worker>>
    BY <1>6 DEF PollRebootFails
  <2> QED BY <1>k, <1>q, <2>1 DEF MayChange
<1>7. ASSUME NEW o \in Ops, Spool(o) PROVE \A x \in Ops : ops[x].kind # "none" /\ MayChange(x)' => MayChange(x)
  <2>1. /\ UNCHANGED <<waiting, runner>> /\ \A x \in Ops \ {o} : worker'[x] = worker[x]
        /\ worker'[o].alive /\ worker'[o].spool # "succeeded" => worker[o].alive /\ worker[o].spool # "succeeded"
    BY <1>7, <1>a DEF Spool, HostTyped, Workers
  <2> QED BY <1>k, <1>q, <2>1 DEF MayChange
<1>8. ASSUME NEW o \in Ops, StartApt(o) PROVE \A x \in Ops : ops[x].kind # "none" /\ MayChange(x)' => MayChange(x)
  <2>1. /\ UNCHANGED <<waiting, runner>> /\ \A x \in Ops \ {o} : worker'[x] = worker[x]
        /\ worker'[o].alive /\ worker'[o].spool # "succeeded" => worker[o].alive /\ worker[o].spool # "succeeded"
    BY <1>8, <1>a DEF StartApt, HostTyped, Workers
  <2> QED BY <1>k, <1>q, <2>1 DEF MayChange
<1>9. ASSUME NEW o \in Ops, EndApt(o) PROVE \A x \in Ops : ops[x].kind # "none" /\ MayChange(x)' => MayChange(x)
  <2>1. /\ UNCHANGED <<waiting, runner>> /\ \A x \in Ops \ {o} : worker'[x] = worker[x]
        /\ worker'[o].alive /\ worker'[o].spool # "succeeded" => worker[o].alive /\ worker[o].spool # "succeeded"
    BY <1>9, <1>a DEF EndApt, HostTyped, Workers
  <2> QED BY <1>k, <1>q, <2>1 DEF MayChange
<1>10. ASSUME NEW o \in Ops, Succeed(o) PROVE \A x \in Ops : ops[x].kind # "none" /\ MayChange(x)' => MayChange(x)
  <2>1. /\ UNCHANGED <<waiting, runner>> /\ \A x \in Ops \ {o} : worker'[x] = worker[x]
        /\ worker'[o].alive /\ worker'[o].spool # "succeeded" => worker[o].alive /\ worker[o].spool # "succeeded"
    BY <1>10, <1>a DEF Succeed, HostTyped, Workers
  <2> QED BY <1>k, <1>q, <2>1 DEF MayChange
<1>11. ASSUME NEW o \in Ops, Fail(o) PROVE \A x \in Ops : ops[x].kind # "none" /\ MayChange(x)' => MayChange(x)
  <2>1. /\ UNCHANGED <<waiting, runner>> /\ \A x \in Ops \ {o} : worker'[x] = worker[x]
        /\ worker'[o].alive /\ worker'[o].spool # "succeeded" => worker[o].alive /\ worker[o].spool # "succeeded"
    BY <1>11, <1>a DEF Fail, HostTyped, Workers
  <2> QED BY <1>k, <1>q, <2>1 DEF MayChange
<1>12. ASSUME NEW o \in Ops, Exit(o) PROVE \A x \in Ops : ops[x].kind # "none" /\ MayChange(x)' => MayChange(x)
  <2>1. /\ UNCHANGED <<waiting, runner>> /\ \A x \in Ops \ {o} : worker'[x] = worker[x]
        /\ worker'[o].alive /\ worker'[o].spool # "succeeded" => worker[o].alive /\ worker[o].spool # "succeeded"
    BY <1>12, <1>a DEF Exit, HostTyped, Workers
  <2> QED BY <1>k, <1>q, <2>1 DEF MayChange
<1>13. CASE PollDecide
  <2>1. UNCHANGED <<waiting, runner, worker>>
    BY <1>13 DEF PollDecide
  <2> QED BY <1>k, <1>q, <2>1 DEF MayChange
<1>14. CASE Begin
  <2>1. /\ Head(waiting) \in Ops /\ Queued(Head(waiting))
        /\ \A x \in Ops : Queued(x)' <=> Queued(x) /\ x # Head(waiting)
    BY <1>a, <1>14, Taken DEF Queued, QueueOK, Begin, HostTyped
  <2>2. UNCHANGED worker /\ runner'.op = Head(waiting)
    BY <1>14 DEF Begin
  <2> QED BY <1>k, <2>1, <2>2 DEF MayChange
<1>15. CASE WaitLock
  <2>1. /\ UNCHANGED <<waiting, worker>> /\ runner.at = "lock"
        /\ runner' = Idle \/ runner'.op = runner.op
    BY <1>15, <1>a DEF WaitLock, Goes, Doing, HostTyped, Runners, RebootNotConfirmed
  <2>2. runner'.at \in {"lock", "dispatch", "run"} => runner.at \in {"lock", "dispatch"}
    BY <1>15, <1>a DEF WaitLock, Goes, Doing, HostTyped, Runners, RebootNotConfirmed, Idle
  <2> QED BY <1>k, <1>q, <2>1, <2>2 DEF MayChange, Idle
<1>16. CASE Dispatch
  <2>1. /\ UNCHANGED <<waiting, worker>> /\ runner.at = "dispatch"
        /\ runner' = Idle \/ runner'.op = runner.op
    BY <1>16, <1>a DEF Dispatch, Goes, Doing, HostTyped, Runners, RebootNotConfirmed
  <2>2. runner'.at \in {"lock", "dispatch", "run"} => runner.at \in {"lock", "dispatch"}
    BY <1>16, <1>a DEF Dispatch, Goes, Doing, HostTyped, Runners, RebootNotConfirmed, Idle
  <2> QED BY <1>k, <1>q, <2>1, <2>2 DEF MayChange, Idle
<1>17. CASE RunTransient
  <2>1. /\ UNCHANGED waiting /\ runner.at = "run" /\ runner.op \in Ops
        /\ runner'.op = runner.op /\ runner'.at \in {"wait", "except"}
    BY <1>17, <1>a, <1>b DEF RunTransient, Goes, Doing, HostTyped, Runners
  <2>2. \A x \in Ops \ {runner.op} : worker'[x] = worker[x]
    BY <1>17, <1>a, <2>1 DEF RunTransient, Op, HostTyped
  <2> QED BY <1>k, <1>q, <2>1, <2>2 DEF MayChange
<1>18. CASE Result
  <2>1. /\ UNCHANGED <<waiting, worker>> /\ runner.at = "wait"
        /\ runner' = Idle \/ runner'.op = runner.op
    BY <1>18, <1>a DEF Result, Goes, Doing, HostTyped, Runners, RebootNotConfirmed
  <2>2. runner'.at \in {"lock", "dispatch", "run"} => runner.at \in {"lock", "dispatch"}
    BY <1>18, <1>a DEF Result, Goes, Doing, HostTyped, Runners, RebootNotConfirmed, Idle
  <2> QED BY <1>k, <1>q, <2>1, <2>2 DEF MayChange, Idle
<1>19. CASE FinishJob
  <2>1. UNCHANGED <<waiting, worker>> /\ runner' = Idle
    BY <1>19 DEF FinishJob
  <2> QED BY <1>k, <1>q, <2>1 DEF MayChange, Idle
<1>20. CASE ExceptJob
  <2>1. UNCHANGED <<waiting, worker>> /\ runner' = Idle
    BY <1>20 DEF ExceptJob
  <2> QED BY <1>k, <1>q, <2>1 DEF MayChange, Idle
<1>21. CASE WaitRebootLock
  <2>1. /\ UNCHANGED <<waiting, worker>> /\ runner.at = "lock"
        /\ runner' = Idle \/ runner'.op = runner.op
    BY Zenon, <1>21, <1>a DEF WaitRebootLock, Goes, Doing, HostTyped, Runners, RebootNotConfirmed
  <2>2. runner'.at \in {"lock", "dispatch", "run"} => runner.at \in {"lock", "dispatch"}
    BY <1>21, <1>a DEF WaitRebootLock, Goes, Doing, HostTyped, Runners, RebootNotConfirmed, Idle
  <2> QED BY <1>k, <1>q, <2>1, <2>2 DEF MayChange, Idle
<1>22. CASE ScheduleReboot
  <2>1. /\ UNCHANGED <<waiting, worker>> /\ runner.at = "schedule"
        /\ runner' = Idle \/ runner'.op = runner.op
    BY Zenon, <1>22, <1>a DEF ScheduleReboot, Goes, Doing, HostTyped, Runners, RebootNotConfirmed
  <2>2. runner'.at \in {"lock", "dispatch", "run"} => runner.at \in {"lock", "dispatch"}
    <3>1. CASE Goes("save")
      BY <1>a, <3>1 DEF Goes, HostTyped, Runners
    <3>2. CASE runner' = Idle
      BY <3>2 DEF Idle
    <3> QED BY Zenon, <1>22, <3>1, <3>2 DEF ScheduleReboot, RebootNotConfirmed
  <2> QED BY <1>k, <1>q, <2>1, <2>2 DEF MayChange, Idle
<1>23. CASE SaveReboot
  <2>1. UNCHANGED <<waiting, worker>> /\ runner' = Idle
    BY <1>23 DEF SaveReboot
  <2> QED BY <1>k, <1>q, <2>1 DEF MayChange, Idle
<1>24. CASE EndBridge
  <2>1. waiting' = <<>> /\ runner' = Idle
    BY <1>24 DEF EndBridge, Lose, Boot
  <2>2. \A x \in Ops : ~Queued(x)'
    BY <2>1, Emptied DEF Queued
  <2>3. UNCHANGED worker
    BY <1>24 DEF EndBridge
  <2> QED BY <1>k, <2>1, <2>2, <2>3 DEF MayChange, Idle
<1>25. CASE StartBridge
  <2>1. UNCHANGED <<waiting, runner, worker>>
    BY <1>25 DEF StartBridge
  <2> QED BY <1>k, <1>q, <2>1 DEF MayChange
<1>26. CASE TimerFires
  <2>1. waiting' = <<>> /\ runner' = Idle
    BY <1>26 DEF TimerFires, Lose, Boot
  <2>2. \A x \in Ops : ~Queued(x)'
    BY <2>1, Emptied DEF Queued
  <2>3. \A x \in Ops : ~worker'[x].alive
    <3>1. \A x \in Ops : worker[x] \in Workers /\ worker'[x] = Killed(worker[x])
      BY <1>26, <1>a DEF TimerFires, Boot, HostTyped
    <3> QED BY Zenon, <3>1 DEF Killed, Workers
  <2> QED BY <1>k, <2>1, <2>2, <2>3 DEF MayChange, Idle
<1>27. CASE OtherReboot
  <2>1. waiting' = <<>> /\ runner' = Idle
    BY <1>27 DEF OtherReboot, Lose, Boot
  <2>2. \A x \in Ops : ~Queued(x)'
    BY <2>1, Emptied DEF Queued
  <2>3. \A x \in Ops : ~worker'[x].alive
    <3>1. \A x \in Ops : worker[x] \in Workers /\ worker'[x] = Killed(worker[x])
      BY <1>27, <1>a DEF OtherReboot, Boot, HostTyped
    <3> QED BY Zenon, <3>1 DEF Killed, Workers
  <2> QED BY <1>k, <2>1, <2>2, <2>3 DEF MayChange, Idle
<1> QED BY <1>1, <1>2, <1>3, <1>4, <1>5, <1>6, <1>7, <1>8, <1>9, <1>10, <1>11, <1>12, <1>13,
    <1>14, <1>15, <1>16, <1>17, <1>18, <1>19, <1>20, <1>21, <1>22, <1>23, <1>24, <1>25, <1>26,
    <1>27 DEF HostNext

\* Only an upgrade that was changing packages leaves a broken change.
LEMMA BrokenStep ==
  ASSUME HostInv, HostNext
  PROVE  \A x \in Ops : worker'[x].apt = "broken" => worker[x].apt = "broken" \/ MayChange(x)
<1> USE HostAssumption
<1>a. HostTyped /\ HostTyped' /\ QueueOK /\ QueueOK' /\ WorkerOK /\ WorkerOK'
  BY TypedStep, QueueStep, WorkerStep DEF HostInv
<1>b. /\ runner.at # "idle" => runner.op \in Ops
      /\ runner.at = "idle" <=> runner.op = NoOp
  BY <1>a DEF HostTyped, QueueOK, Runners
<1>k. \A x \in Ops : ops[x].kind # "none" => ops'[x].kind = ops[x].kind
  BY KindStep
<1>q. ASSUME UNCHANGED waiting PROVE \A x \in Ops : Queued(x)' <=> Queued(x)
  BY <1>q DEF Queued
<1>1. ASSUME NEW o \in Ops, Spool(o) PROVE \A x \in Ops : worker'[x].apt = "broken" => worker[x].apt = "broken" \/ MayChange(x)
  <2>1. \A x \in Ops : worker'[x].apt = "broken" => worker[x].apt = "broken"
    BY <1>1, <1>a DEF Spool, HostTyped, Workers
  <2> QED BY <1>a, <2>1 DEF WorkerOK, MayChange
<1>2. ASSUME NEW o \in Ops, StartApt(o) PROVE \A x \in Ops : worker'[x].apt = "broken" => worker[x].apt = "broken" \/ MayChange(x)
  <2>1. \A x \in Ops : worker'[x].apt = "broken" => worker[x].apt = "broken"
    BY <1>2, <1>a DEF StartApt, HostTyped, Workers
  <2> QED BY <1>a, <2>1 DEF WorkerOK, MayChange
<1>3. ASSUME NEW o \in Ops, EndApt(o) PROVE \A x \in Ops : worker'[x].apt = "broken" => worker[x].apt = "broken" \/ MayChange(x)
  <2>1. \A x \in Ops : worker'[x].apt = "broken" => worker[x].apt = "broken"
    BY <1>3, <1>a DEF EndApt, HostTyped, Workers
  <2> QED BY <1>a, <2>1 DEF WorkerOK, MayChange
<1>4. ASSUME NEW o \in Ops, Succeed(o) PROVE \A x \in Ops : worker'[x].apt = "broken" => worker[x].apt = "broken" \/ MayChange(x)
  <2>1. \A x \in Ops : worker'[x].apt = "broken" => worker[x].apt = "broken"
    BY <1>4, <1>a DEF Succeed, HostTyped, Workers
  <2> QED BY <1>a, <2>1 DEF WorkerOK, MayChange
<1>5. ASSUME NEW o \in Ops, Fail(o) PROVE \A x \in Ops : worker'[x].apt = "broken" => worker[x].apt = "broken" \/ MayChange(x)
  <2>1. \A x \in Ops : worker'[x].apt = "broken" => worker[x].apt = "broken" \/ (x = o /\ worker[o].apt # "untouched" /\ worker[o].alive /\ worker[o].spool = "running")
    BY <1>5, <1>a DEF Fail, HostTyped, Workers
  <2> QED BY <1>a, <2>1 DEF WorkerOK, MayChange
<1>6. ASSUME NEW o \in Ops, Exit(o) PROVE \A x \in Ops : worker'[x].apt = "broken" => worker[x].apt = "broken" \/ MayChange(x)
  <2>1. \A x \in Ops : worker'[x].apt = "broken" => worker[x].apt = "broken"
    BY <1>6, <1>a DEF Exit, HostTyped, Workers
  <2> QED BY <1>a, <2>1 DEF WorkerOK, MayChange
<1>7. CASE RunTransient
  <2>1. runner.op \in Ops
    BY <1>7, <1>b DEF RunTransient, Doing
  <2> QED BY <1>7, <1>a, <2>1 DEF RunTransient, Op, HostTyped, Workers
<1>8. CASE TimerFires
  <2>1. \A x \in Ops : worker[x] \in Workers /\ worker'[x] = Killed(worker[x])
    BY <1>8, <1>a DEF TimerFires, Boot, HostTyped
  <2>2. \A x \in Ops : worker'[x].apt = "broken" => worker[x].apt \in {"broken", "changing"}
    BY Zenon, <2>1 DEF Killed, Workers
  <2> QED BY <1>a, <2>2 DEF WorkerOK, MayChange
<1>9. CASE OtherReboot
  <2>1. \A x \in Ops : worker[x] \in Workers /\ worker'[x] = Killed(worker[x])
    BY <1>9, <1>a DEF OtherReboot, Boot, HostTyped
  <2>2. \A x \in Ops : worker'[x].apt = "broken" => worker[x].apt \in {"broken", "changing"}
    BY Zenon, <2>1 DEF Killed, Workers
  <2> QED BY <1>a, <2>2 DEF WorkerOK, MayChange
<1>10. CASE ~((\E o \in Ops : Spool(o)) \/ (\E o \in Ops : StartApt(o)) \/ (\E o \in Ops : EndApt(o)) \/
            (\E o \in Ops : Succeed(o)) \/ (\E o \in Ops : Fail(o)) \/ (\E o \in Ops : Exit(o)) \/
            RunTransient \/ TimerFires \/ OtherReboot)
  <2>1. UNCHANGED worker
    BY ZenonT(60), <1>10 DEF HostNext, SubmitHost, Acknowledge, Overdue, PollRead, PollReboot, PollRebootFails,
        PollDecide, Begin, WaitLock, Dispatch, Result, FinishJob, ExceptJob, WaitRebootLock,
        ScheduleReboot, SaveReboot, EndBridge, StartBridge, machine, Boot, Lose
  <2> QED BY <2>1
<1> QED BY <1>1, <1>2, <1>3, <1>4, <1>5, <1>6, <1>7, <1>8, <1>9, <1>10 DEF HostNext

\* No step but its submission lets a reboot come.
LEMMA RebootStep ==
  ASSUME HostInv, HostNext
  PROVE  \A x \in Ops : ops[x].kind # "none" /\ MayReboot(x)' => MayReboot(x)
<1> USE HostAssumption
<1>a. HostTyped /\ HostTyped' /\ QueueOK /\ QueueOK' /\ WorkerOK /\ WorkerOK'
  BY TypedStep, QueueStep, WorkerStep DEF HostInv
<1>b. /\ runner.at # "idle" => runner.op \in Ops
      /\ runner.at = "idle" <=> runner.op = NoOp
  BY <1>a DEF HostTyped, QueueOK, Runners
<1>k. \A x \in Ops : ops[x].kind # "none" => ops'[x].kind = ops[x].kind
  BY KindStep
<1>q. ASSUME UNCHANGED waiting PROVE \A x \in Ops : Queued(x)' <=> Queued(x)
  BY <1>q DEF Queued
<1>1. ASSUME NEW o \in Ops, NEW kind \in HostKinds, SubmitHost(o, kind) PROVE \A x \in Ops : ops[x].kind # "none" /\ MayReboot(x)' => MayReboot(x)
  <2>1. ops[o].kind = "none" /\ UNCHANGED <<runner, timer, boot>>
    BY <1>1 DEF SubmitHost, NoRecord, machine
  <2>2. \A x \in Ops \ {o} : Queued(x)' => Queued(x)
    <3>1. CASE waiting' = Append(waiting, o)
      BY <1>a, <3>1, Appended DEF Queued, HostTyped
    <3> QED BY <1>1, <3>1, <1>q DEF SubmitHost
  <2>3. \A x \in Ops \ {o} : ops'[x] = ops[x] /\ reboot'[x] = reboot[x]
    BY <1>1, <1>a DEF SubmitHost, HostTyped
  <2> QED BY <2>1, <2>2, <2>3 DEF MayReboot, Live
<1>2. ASSUME NEW o \in Ops, Acknowledge(o) PROVE \A x \in Ops : ops[x].kind # "none" /\ MayReboot(x)' => MayReboot(x)
  <2>1. /\ Live(o) /\ ~reboot[o].ack /\ reboot[o].intent = "queued" /\ ops[o].kind = "reboot"
        /\ UNCHANGED <<ops, runner, timer, boot>>
    BY <1>2 DEF Acknowledge, machine
  <2>2. \A x \in Ops : Queued(x)' => Queued(x) \/ x = o
    BY <1>a, <1>2, Appended DEF Queued, Acknowledge, HostTyped
  <2>3. /\ \A x \in Ops \ {o} : reboot'[x] = reboot[x]
        /\ reboot'[o].before = reboot[o].before
    BY <1>2, <1>a DEF Acknowledge, HostTyped, Reboots
  <2> QED BY <2>1, <2>2, <2>3 DEF MayReboot, Live
<1>3. ASSUME NEW o \in Ops, Overdue(o) PROVE \A x \in Ops : ops[x].kind # "none" /\ MayReboot(x)' => MayReboot(x)
  <2>1. UNCHANGED <<waiting, runner, ops, reboot, timer, boot>>
    BY <1>3 DEF Overdue, machine
  <2> QED BY <1>q, <2>1 DEF MayReboot, Live
<1>4. ASSUME NEW o \in Ops, PollRead(o) PROVE \A x \in Ops : ops[x].kind # "none" /\ MayReboot(x)' => MayReboot(x)
  <2>1. UNCHANGED <<waiting, runner, ops, reboot, timer, boot>>
    BY <1>4 DEF PollRead, machine
  <2> QED BY <1>q, <2>1 DEF MayReboot, Live
<1>5. ASSUME NEW o \in Ops, PollReboot(o) PROVE \A x \in Ops : ops[x].kind # "none" /\ MayReboot(x)' => MayReboot(x)
  <2>1. UNCHANGED <<waiting, timer, boot, runner>>
    BY <1>5 DEF PollReboot, machine
  <2>2. \A x \in Ops : /\ reboot'[x].ack = reboot[x].ack /\ reboot'[x].before = reboot[x].before
                       /\ x # o => reboot'[x] = reboot[x]
    <3>1. CASE \E i \in Intents : reboot' = [reboot EXCEPT ![o].intent = i]
      BY <1>a, <3>1 DEF HostTyped, Reboots
    <3> QED BY Zenon, <1>5, <3>1 DEF PollReboot, Intents
  <2>3. \A x \in Ops \ {o} : ops'[x] = ops[x]
    BY <1>5, <1>a DEF PollReboot, SetStatus, HostTyped
  <2>4. reboot[o].ack \/ boot # reboot[o].before
    BY <1>5 DEF PollReboot, RebootOpen
  <2> QED BY <1>k, <1>q, <2>1, <2>2, <2>3, <2>4 DEF MayReboot, Live
<1>6. ASSUME NEW o \in Ops, PollRebootFails(o) PROVE \A x \in Ops : ops[x].kind # "none" /\ MayReboot(x)' => MayReboot(x)
  <2>1. UNCHANGED <<waiting, timer, boot, runner>>
    BY <1>6 DEF PollRebootFails, machine
  <2>2. \A x \in Ops : /\ reboot'[x].ack = reboot[x].ack /\ reboot'[x].before = reboot[x].before
                       /\ x # o => reboot'[x] = reboot[x]
    BY <1>6 DEF PollRebootFails
  <2>3. \A x \in Ops \ {o} : ops'[x] = ops[x]
    BY <1>6, <1>a DEF PollRebootFails, SetStatus, HostTyped
  <2>4. reboot[o].ack \/ boot # reboot[o].before
    BY <1>6 DEF PollRebootFails, RebootOpen
  <2> QED BY <1>k, <1>q, <2>1, <2>2, <2>3, <2>4 DEF MayReboot, Live
<1>7. ASSUME NEW o \in Ops, Spool(o) PROVE \A x \in Ops : ops[x].kind # "none" /\ MayReboot(x)' => MayReboot(x)
  <2>1. UNCHANGED <<waiting, runner, ops, reboot, timer, boot>>
    BY <1>7 DEF Spool, machine
  <2> QED BY <1>q, <2>1 DEF MayReboot, Live
<1>8. ASSUME NEW o \in Ops, StartApt(o) PROVE \A x \in Ops : ops[x].kind # "none" /\ MayReboot(x)' => MayReboot(x)
  <2>1. UNCHANGED <<waiting, runner, ops, reboot, timer, boot>>
    BY <1>8 DEF StartApt, machine
  <2> QED BY <1>q, <2>1 DEF MayReboot, Live
<1>9. ASSUME NEW o \in Ops, EndApt(o) PROVE \A x \in Ops : ops[x].kind # "none" /\ MayReboot(x)' => MayReboot(x)
  <2>1. UNCHANGED <<waiting, runner, ops, reboot, timer, boot>>
    BY <1>9 DEF EndApt, machine
  <2> QED BY <1>q, <2>1 DEF MayReboot, Live
<1>10. ASSUME NEW o \in Ops, Succeed(o) PROVE \A x \in Ops : ops[x].kind # "none" /\ MayReboot(x)' => MayReboot(x)
  <2>1. UNCHANGED <<waiting, runner, ops, reboot, timer, boot>>
    BY <1>10 DEF Succeed, machine
  <2> QED BY <1>q, <2>1 DEF MayReboot, Live
<1>11. ASSUME NEW o \in Ops, Fail(o) PROVE \A x \in Ops : ops[x].kind # "none" /\ MayReboot(x)' => MayReboot(x)
  <2>1. UNCHANGED <<waiting, runner, ops, reboot, timer, boot>>
    BY <1>11 DEF Fail, machine
  <2> QED BY <1>q, <2>1 DEF MayReboot, Live
<1>12. ASSUME NEW o \in Ops, Exit(o) PROVE \A x \in Ops : ops[x].kind # "none" /\ MayReboot(x)' => MayReboot(x)
  <2>1. UNCHANGED <<waiting, runner, ops, reboot, timer, boot>>
    BY <1>12 DEF Exit, machine
  <2> QED BY <1>q, <2>1 DEF MayReboot, Live
<1>13. CASE PollDecide
  <2>1. UNCHANGED <<waiting, reboot, timer, boot, runner>>
    BY <1>13 DEF PollDecide, machine
  <2>2. \A x \in Ops : ops[x].kind = "reboot" => ops'[x] = ops[x]
    BY <1>13, <1>a, PollDecides DEF Decided, HostInv, PollOK, PollDecide
  <2> QED BY <1>k, <1>q, <2>1, <2>2 DEF MayReboot, Live
<1>14. CASE Begin
  <2>1. /\ Head(waiting) \in Ops /\ Queued(Head(waiting))
        /\ \A x \in Ops : Queued(x)' <=> Queued(x) /\ x # Head(waiting)
    BY <1>a, <1>14, Taken DEF Queued, QueueOK, Begin, HostTyped
  <2>2. UNCHANGED <<ops, reboot, timer, boot>> /\ runner'.op = Head(waiting)
    BY <1>14 DEF Begin, machine
  <2> QED BY <2>1, <2>2 DEF MayReboot, Live
<1>15. CASE WaitLock
  <2>1. /\ UNCHANGED <<waiting, reboot, timer, boot>> /\ runner'.op = runner.op
        /\ ops[runner.op].kind # "reboot" /\ runner.op \in Ops
    BY <1>15, <1>a, <1>b DEF WaitLock, machine, Goes, HostTyped, Runners, Op, Doing
  <2>2. \A x \in Ops : ops[x].kind = "reboot" => ops'[x] = ops[x]
    BY <1>15, <1>a, <2>1 DEF WaitLock, Op, HostTyped
  <2> QED BY <1>k, <1>q, <2>1, <2>2 DEF MayReboot, Live
<1>16. CASE Dispatch
  <2>1. UNCHANGED <<waiting, ops, reboot, timer, boot>> /\ runner'.op = runner.op
    BY <1>16, <1>a DEF Dispatch, machine, Goes, HostTyped, Runners
  <2> QED BY <1>q, <2>1 DEF MayReboot, Live
<1>17. CASE RunTransient
  <2>1. UNCHANGED <<waiting, ops, reboot, timer, boot>> /\ runner'.op = runner.op
    BY <1>17, <1>a DEF RunTransient, machine, Goes, HostTyped, Runners
  <2> QED BY <1>q, <2>1 DEF MayReboot, Live
<1>18. CASE Result
  <2>1. UNCHANGED <<waiting, ops, reboot, timer, boot>> /\ runner'.op = runner.op
    BY <1>18, <1>a DEF Result, machine, Goes, HostTyped, Runners
  <2> QED BY <1>q, <2>1 DEF MayReboot, Live
<1>19. CASE FinishJob
  <2>1. UNCHANGED <<waiting, reboot, timer, boot>> /\ runner' = Idle
    BY <1>19 DEF FinishJob, machine
  <2>2. \A x \in Ops : ops[x].kind = "reboot" => ops'[x] = ops[x]
    BY Zenon, <1>19, <1>a, JobDecides DEF Decided, QueueOK, FinishJob, Doing, JobSteps
  <2> QED BY <1>k, <1>q, <2>1, <2>2, HostAssumption DEF MayReboot, Live, Idle
<1>20. CASE ExceptJob
  <2>1. UNCHANGED <<waiting, reboot, timer, boot>> /\ runner' = Idle
    BY <1>20 DEF ExceptJob, machine
  <2>2. \A x \in Ops : ops[x].kind = "reboot" => ops'[x] = ops[x]
    BY Zenon, <1>20, <1>a, JobDecides DEF Decided, QueueOK, ExceptJob, Doing, JobSteps
  <2> QED BY <1>k, <1>q, <2>1, <2>2, HostAssumption DEF MayReboot, Live, Idle
<1>21. CASE WaitRebootLock
  <2>1. /\ UNCHANGED <<waiting, reboot, boot>> /\ runner.op \in Ops
        /\ runner'.op \in {runner.op, NoOp}
        /\ timer' \subseteq timer \cup {runner.op}
    <3>1. UNCHANGED <<waiting, reboot, boot>> /\ runner.op \in Ops
      BY <1>21, <1>b DEF WaitRebootLock, machine, Doing
    <3>2. runner'.op \in {runner.op, NoOp}
      <4>1. CASE Goes("schedule")
        BY <1>a, <4>1 DEF Goes, HostTyped, Runners
      <4>2. CASE runner' = Idle
        BY <4>2 DEF Idle
      <4> QED BY Zenon, <1>21, <4>1, <4>2 DEF WaitRebootLock, RebootNotConfirmed
    <3>3. timer' \subseteq timer \cup {runner.op}
      BY <1>21 DEF WaitRebootLock, machine, Op
    <3> QED BY <3>1, <3>2, <3>3
  <2>2. \A x \in Ops \ {runner.op} : ops'[x] = ops[x]
    BY <1>21, <1>a, <2>1 DEF WaitRebootLock, SetStatus, Op, HostTyped, RebootNotConfirmed
  <2> QED BY <1>k, <1>q, <2>1, <2>2 DEF MayReboot, Live
<1>22. CASE ScheduleReboot
  <2>1. /\ UNCHANGED <<waiting, reboot, boot>> /\ runner.op \in Ops
        /\ runner'.op \in {runner.op, NoOp}
        /\ timer' \subseteq timer \cup {runner.op}
    <3>1. UNCHANGED <<waiting, reboot, boot>> /\ runner.op \in Ops
      BY <1>22, <1>b DEF ScheduleReboot, machine, Doing
    <3>2. runner'.op \in {runner.op, NoOp}
      <4>1. CASE Goes("save")
        BY <1>a, <4>1 DEF Goes, HostTyped, Runners
      <4>2. CASE runner' = Idle
        BY <4>2 DEF Idle
      <4> QED BY Zenon, <1>22, <4>1, <4>2 DEF ScheduleReboot, RebootNotConfirmed
    <3>3. timer' \subseteq timer \cup {runner.op}
      BY <1>22 DEF ScheduleReboot, machine, Op
    <3> QED BY <3>1, <3>2, <3>3
  <2>2. \A x \in Ops \ {runner.op} : ops'[x] = ops[x]
    BY <1>22, <1>a, <2>1 DEF ScheduleReboot, SetStatus, Op, HostTyped, RebootNotConfirmed
  <2> QED BY <1>k, <1>q, <2>1, <2>2 DEF MayReboot, Live
<1>23. CASE SaveReboot
  <2>1. /\ UNCHANGED <<waiting, timer, boot>> /\ runner.op \in Ops /\ runner' = Idle
    BY <1>23, <1>a, <1>b DEF SaveReboot, machine, Doing
  <2>2. /\ \A x \in Ops \ {runner.op} : ops'[x] = ops[x] /\ reboot'[x] = reboot[x]
        /\ reboot'[runner.op].before = reboot[runner.op].before
    BY <1>23, <1>a, <2>1 DEF SaveReboot, Op, HostTyped, Reboots
  <2> QED BY <1>k, <1>q, <2>1, <2>2 DEF MayReboot, Live, Idle
<1>24. CASE EndBridge
  <2>1. waiting' = <<>> /\ runner' = Idle /\ UNCHANGED <<ops, reboot, timer, boot>>
    BY <1>24 DEF EndBridge, Lose, machine
  <2>2. \A x \in Ops : ~Queued(x)'
    BY <2>1, Emptied DEF Queued
  <2> QED BY <2>1, <2>2 DEF MayReboot, Live, Idle
<1>25. CASE StartBridge
  <2>1. UNCHANGED <<waiting, runner, ops, reboot, timer, boot>>
    BY <1>25 DEF StartBridge, machine
  <2> QED BY <1>q, <2>1 DEF MayReboot, Live
<1>26. CASE TimerFires
  <2>1. \A x \in Ops : reboot[x].before \in Nat /\ reboot[x].before \leq boot
    BY <1>a DEF HostTyped, Reboots, QueueOK
  <2>2. boot' = boot + 1 /\ boot \in Nat /\ UNCHANGED reboot
    BY <1>26, <1>a DEF TimerFires, Boot, HostTyped
  <2> QED BY <2>1, <2>2 DEF MayReboot
<1>27. CASE OtherReboot
  <2>1. \A x \in Ops : reboot[x].before \in Nat /\ reboot[x].before \leq boot
    BY <1>a DEF HostTyped, Reboots, QueueOK
  <2>2. boot' = boot + 1 /\ boot \in Nat /\ UNCHANGED reboot
    BY <1>27, <1>a DEF OtherReboot, Boot, HostTyped
  <2> QED BY <2>1, <2>2 DEF MayReboot
<1> QED BY <1>1, <1>2, <1>3, <1>4, <1>5, <1>6, <1>7, <1>8, <1>9, <1>10, <1>11, <1>12, <1>13,
    <1>14, <1>15, <1>16, <1>17, <1>18, <1>19, <1>20, <1>21, <1>22, <1>23, <1>24, <1>25, <1>26,
    <1>27 DEF HostNext

\* Every step keeps an upgrade or a reboot that is under way open.
LEMMA OpenStep ==
  ASSUME HostInv, HostNext
  PROVE  OpenOK'
<1> USE HostAssumption
<1>a. HostTyped /\ HostTyped' /\ QueueOK /\ QueueOK' /\ WorkerOK /\ WorkerOK'
  BY TypedStep, QueueStep, WorkerStep DEF HostInv
<1>b. /\ runner.at # "idle" => runner.op \in Ops
      /\ runner.at = "idle" <=> runner.op = NoOp
  BY <1>a DEF HostTyped, QueueOK, Runners
<1>k. \A x \in Ops : ops[x].kind # "none" => ops'[x].kind = ops[x].kind
  BY KindStep
<1>q. ASSUME UNCHANGED waiting PROVE \A x \in Ops : Queued(x)' <=> Queued(x)
  BY <1>q DEF Queued
<1>s. \A x \in Ops : MayChange(x)' => worker'[x].spool # "succeeded"
  BY <1>a DEF MayChange, WorkerOK
<1>o. \A x \in Ops : ops[x].kind # "none" /\ (MayChange(x)' \/ worker'[x].apt = "broken" \/ MayReboot(x)')
                     => Open(x)
  BY ChangeStep, RebootStep, BrokenStep DEF HostInv, OpenOK
<1> DEFINE Needs(x) == MayChange(x)' \/ worker'[x].apt = "broken" \/ MayReboot(x)'
<1>n. \A x \in Ops : ops[x].kind # "none" /\ Needs(x) => Open(x)
  BY <1>o
<1>z. ASSUME \A x \in Ops : ops[x].kind # "none" /\ Needs(x) => Open(x)',
             \A x \in Ops : ops[x].kind = "none" => ops'[x] = ops[x]
      PROVE  OpenOK'
  <2>1. \A x \in Ops : ops[x].kind = "none" => ~Needs(x)
    BY <1>z, <1>a DEF MayChange, MayReboot, WorkerOK
  <2> QED BY <1>z, <2>1 DEF OpenOK
<1>1. ASSUME NEW o \in Ops, NEW kind \in HostKinds, SubmitHost(o, kind) PROVE OpenOK'
  <2>1. /\ ops[o].kind = "none" /\ Live(o)' /\ \A x \in Ops \ {o} : ops'[x] = ops[x]
    BY <1>1, <1>a DEF SubmitHost, NoRecord, Live, HostTyped
  <2>2. \A x \in Ops \ {o} : ops[x].kind # "none" /\ Needs(x) => Open(x)'
    BY <1>n, <2>1 DEF Open, Live
  <2>3. \A x \in Ops \ {o} : ops[x].kind = "none" => ~Needs(x)
    BY <1>a, <2>1 DEF MayChange, MayReboot, WorkerOK
  <2> QED BY <2>1, <2>2, <2>3 DEF OpenOK, Open
<1>2. ASSUME NEW o \in Ops, PollReboot(o) PROVE OpenOK'
  <2>1. /\ ops[o].kind = "reboot" /\ \A x \in Ops \ {o} : ops'[x] = ops[x]
    BY <1>2, <1>a DEF PollReboot, RebootOpen, SetStatus, HostTyped
  <2>2. boot = reboot[o].before => ops'[o].status = "running"
    BY <1>2, <1>a DEF PollReboot, SetStatus, HostTyped, Records
  <2>3. boot' = boot /\ reboot'[o].before = reboot[o].before
    <3>1. CASE \E i \in Intents : reboot' = [reboot EXCEPT ![o].intent = i]
      BY <1>2, <1>a, <3>1 DEF PollReboot, machine, HostTyped, Reboots
    <3> QED BY Zenon, <1>2, <3>1 DEF PollReboot, Intents
  <2>4. ops'[o].kind = "reboot"
    BY <1>k, <2>1
  <2>5. Needs(o) => boot = reboot[o].before
    BY <1>a, <2>3, <2>4 DEF MayChange, MayReboot, WorkerOK
  <2>6. \A x \in Ops : ops[x].kind # "none" /\ Needs(x) => Open(x)'
    BY <1>n, <2>1, <2>2, <2>5 DEF Open, Live
  <2> QED BY <1>z, <2>1, <2>6
<1>3. ASSUME NEW o \in Ops, PollRebootFails(o) PROVE OpenOK'
  <2>1. /\ ops[o].kind = "reboot" /\ \A x \in Ops \ {o} : ops'[x] = ops[x]
        /\ ops'[o].status = "running"
    BY <1>3, <1>a DEF PollRebootFails, RebootOpen, SetStatus, HostTyped, Records
  <2>2. \A x \in Ops : ops[x].kind # "none" /\ Needs(x) => Open(x)'
    BY <1>n, <2>1 DEF Open, Live
  <2> QED BY <1>z, <2>1, <2>2
<1>4. CASE PollDecide
  <2>0. CASE UNCHANGED ops
    BY <1>z, <1>n, <2>0 DEF Open, Live
  <2>1. CASE ~UNCHANGED ops
    <3>1. /\ poll.op \in Ops /\ Decided(poll.op) /\ UNCHANGED worker
          /\ ops[poll.op].kind \notin {"reboot", "none"}
      BY <1>4, <2>1, <1>a, PollDecides DEF PollDecide, HostInv, PollOK
    <3>2. UNCHANGED <<runner, waiting>>
      BY <1>4 DEF PollDecide
    <3>3. ASSUME NEW x \in Ops, x = poll.op, ops[x].kind # "none", Needs(x) PROVE Open(x)'
      <4>1. ops[x].kind # "reboot" /\ ops'[x].kind = ops[x].kind
        BY <1>k, <3>1, <3>3
      <4>2. MayChange(x)' \/ worker'[x].apt = "broken"
        BY <3>3, <4>1 DEF MayReboot
      <4>3. ops[x].kind = "upgrade" /\ worker[x].spool # "succeeded"
        BY <1>a, <1>s, <3>1, <4>1, <4>2 DEF MayChange, WorkerOK
      <4>4. ~(~execution[x].dispatched /\ runner.op = x /\ runner.at = "except")
        BY <1>a, <3>1, <3>2, <4>1, <4>2 DEF MayChange, WorkerOK, QueueOK, Queued, Idle
      <4> QED BY <3>1, <3>3, <4>3, <4>4 DEF Decided, Open, Live
    <3>4. \A x \in Ops : ops[x].kind # "none" /\ Needs(x) => Open(x)'
      BY <1>n, <3>1, <3>3 DEF Decided, Open, Live
    <3> QED BY <1>z, <3>1, <3>4 DEF Decided
  <2> QED BY <2>0, <2>1
<1>5. CASE WaitLock
  <2>1. runner.op \in Ops /\ ops[runner.op].kind # "none"
    BY <1>5, <1>a, <1>b DEF WaitLock, Doing, QueueOK
  <2>2. /\ \A x \in Ops \ {runner.op} : ops'[x] = ops[x]
        /\ ops'[runner.op].status = "running" \/ ops'[runner.op] = ops[runner.op]
    BY <1>5, <1>a, <2>1 DEF WaitLock, Op, HostTyped, Records
  <2>3. \A x \in Ops : ops[x].kind # "none" /\ Needs(x) => Open(x)'
    BY <1>n, <2>1, <2>2 DEF Open, Live
  <2> QED BY <1>z, <2>1, <2>2, <2>3
<1>6. CASE FinishJob
  <2>1. /\ runner.op \in Ops /\ Decided(runner.op) /\ UNCHANGED worker
        /\ ops[runner.op].kind \notin {"reboot", "none"}
    BY Zenon, <1>6, <1>a, JobDecides DEF FinishJob, Doing, QueueOK, JobSteps
  <2>2. runner' = Idle /\ UNCHANGED waiting
    BY <1>6 DEF FinishJob
  <2>3. ASSUME NEW x \in Ops, x = runner.op, ops[x].kind # "none", Needs(x) PROVE Open(x)'
    <3>1. ops[x].kind # "reboot" /\ ops'[x].kind = ops[x].kind
      BY <1>k, <2>1, <2>3
    <3>2. MayChange(x)' \/ worker'[x].apt = "broken"
      BY <2>3, <3>1 DEF MayReboot
    <3>3. ops[x].kind = "upgrade" /\ worker[x].spool # "succeeded"
      BY <1>a, <1>s, <2>1, <3>1, <3>2 DEF MayChange, WorkerOK
    <3>4. ~(~execution[x].dispatched /\ runner.op = x /\ runner.at = "except")
      BY <1>a, <2>1, <2>2, <3>1, <3>2 DEF MayChange, WorkerOK, QueueOK, Queued, Idle
    <3> QED BY <2>1, <2>3, <3>3, <3>4 DEF Decided, Open, Live
  <2>4. \A x \in Ops : ops[x].kind # "none" /\ Needs(x) => Open(x)'
    BY <1>n, <2>1, <2>3 DEF Decided, Open, Live
  <2> QED BY <1>z, <2>1, <2>4 DEF Decided
<1>7. CASE ExceptJob
  <2>1. /\ runner.op \in Ops /\ Decided(runner.op) /\ UNCHANGED worker
        /\ ops[runner.op].kind \notin {"reboot", "none"}
    BY Zenon, <1>7, <1>a, JobDecides DEF ExceptJob, Doing, QueueOK, JobSteps
  <2>2. runner' = Idle /\ UNCHANGED waiting
    BY <1>7 DEF ExceptJob
  <2>3. ASSUME NEW x \in Ops, x = runner.op, ops[x].kind # "none", Needs(x) PROVE Open(x)'
    <3>1. ops[x].kind # "reboot" /\ ops'[x].kind = ops[x].kind
      BY <1>k, <2>1, <2>3
    <3>2. MayChange(x)' \/ worker'[x].apt = "broken"
      BY <2>3, <3>1 DEF MayReboot
    <3>3. ops[x].kind = "upgrade" /\ worker[x].spool # "succeeded"
      BY <1>a, <1>s, <2>1, <3>1, <3>2 DEF MayChange, WorkerOK
    <3>4. ~(~execution[x].dispatched /\ runner.op = x /\ runner.at = "except")
      BY <1>a, <2>1, <2>2, <3>1, <3>2 DEF MayChange, WorkerOK, QueueOK, Queued, Idle
    <3> QED BY <2>1, <2>3, <3>3, <3>4 DEF Decided, Open, Live
  <2>4. \A x \in Ops : ops[x].kind # "none" /\ Needs(x) => Open(x)'
    BY <1>n, <2>1, <2>3 DEF Decided, Open, Live
  <2> QED BY <1>z, <2>1, <2>4 DEF Decided
<1>8. CASE WaitRebootLock
  <2>1. /\ runner.op \in Ops /\ ops[runner.op].kind = "reboot" /\ runner.at = "lock"
        /\ UNCHANGED <<timer, waiting, reboot>>
    BY <1>8, <1>a, <1>b DEF WaitRebootLock, Doing, Op, QueueOK, machine
  <2>2. CASE UNCHANGED ops
    BY <1>z, <1>n, <2>2 DEF Open, Live
  <2>3. CASE runner' = Idle /\ SetStatus(runner.op, "failed", FALSE)
    <3>1. /\ \A x \in Ops \ {runner.op} : ops'[x] = ops[x]
          /\ ops'[runner.op].kind = "reboot" /\ ops'[runner.op].status = "failed"
      BY Zenon, <1>a, <2>1, <2>3, StatusSet DEF HostTyped, Statuses
    <3>2. (\A x \in Ops : x = runner.op => ~Queued(x)') /\ runner.op \notin timer' /\ runner'.op # runner.op
      BY <1>a, <2>1, <2>3, HostAssumption DEF QueueOK, Queued, Idle
    <3>3. reboot'[runner.op].ack
      BY <1>a, <2>1 DEF QueueOK
    <3>4. ASSUME NEW x \in Ops, x = runner.op PROVE ~Needs(x)
      BY <1>a, <3>1, <3>2, <3>3, <3>4 DEF MayChange, MayReboot, WorkerOK
    <3>5. \A x \in Ops : ops[x].kind # "none" /\ Needs(x) => Open(x)'
      BY <1>n, <3>1, <3>4 DEF Open, Live
    <3> QED BY <1>z, <2>1, <3>1, <3>5
  <2> QED BY Zenon, <1>8, <2>2, <2>3 DEF WaitRebootLock, Op
<1>9. CASE ScheduleReboot
  <2>1. runner.op \in Ops /\ ops[runner.op].kind # "none"
    BY <1>9, <1>a, <1>b DEF ScheduleReboot, Doing, QueueOK
  <2>2. /\ \A x \in Ops \ {runner.op} : ops'[x] = ops[x]
        /\ ops'[runner.op].recovery \/ ops'[runner.op] = ops[runner.op]
    <3>1. CASE SetStatus(runner.op, "failed", TRUE)
      BY Zenon, <1>a, <2>1, <3>1, StatusSet DEF HostTyped, Statuses
    <3> QED BY Zenon, <1>9, <3>1 DEF ScheduleReboot, Op, RebootNotConfirmed
  <2>3. \A x \in Ops : ops[x].kind # "none" /\ Needs(x) => Open(x)'
    BY <1>n, <2>1, <2>2 DEF Open, Live
  <2> QED BY <1>z, <2>1, <2>2, <2>3
<1>10. CASE SaveReboot
  <2>1. runner.op \in Ops /\ ops[runner.op].kind # "none"
    BY <1>10, <1>a, <1>b DEF SaveReboot, Doing, QueueOK
  <2>2. /\ \A x \in Ops \ {runner.op} : ops'[x] = ops[x]
        /\ ops'[runner.op].status = "running" \/ ops'[runner.op] = ops[runner.op]
    BY <1>10, <1>a, <2>1 DEF SaveReboot, Op, HostTyped, Records
  <2>3. \A x \in Ops : ops[x].kind # "none" /\ Needs(x) => Open(x)'
    BY <1>n, <2>1, <2>2 DEF Open, Live
  <2> QED BY <1>z, <2>1, <2>2, <2>3
<1>11. CASE ~((\E o \in Ops, kind \in HostKinds : SubmitHost(o, kind)) \/ (\E o \in Ops : PollReboot(o))
            \/ (\E o \in Ops : PollRebootFails(o)) \/ PollDecide \/ WaitLock \/ FinishJob \/ ExceptJob \/
            WaitRebootLock \/ ScheduleReboot \/ SaveReboot)
  <2>1. UNCHANGED ops
    BY ZenonT(60), <1>11 DEF HostNext, Acknowledge, Overdue, PollRead, Spool, StartApt, EndApt, Succeed, Fail,
        Exit, Begin, Dispatch, RunTransient, Result, EndBridge, StartBridge, TimerFires,
        OtherReboot, machine, Boot, Lose
  <2> QED BY <2>1, <1>z, <1>n DEF Open, Live
<1> QED BY <1>1, <1>2, <1>3, <1>4, <1>5, <1>6, <1>7, <1>8, <1>9, <1>10, <1>11 DEF HostNext

\* An upgrade and a reboot are never under way together.
LEMMA ExclusiveStep ==
  ASSUME HostInv, HostNext
  PROVE  Exclusive'
<1>a. HostTyped /\ HostTyped' /\ WorkerOK' /\ OpenOK /\ Exclusive
  BY TypedStep, WorkerStep DEF HostInv
<1>b. \A x \in Ops : /\ MayChange(x) \/ MayReboot(x) => Open(x) /\ ops[x].kind # "none"
                     /\ MayChange(x) => ops[x].kind = "upgrade"
                     /\ MayReboot(x) => ops[x].kind = "reboot"
                     /\ MayChange(x)' => ops'[x].kind = "upgrade"
                     /\ MayReboot(x)' => ops'[x].kind = "reboot"
  BY <1>a DEF MayChange, MayReboot, OpenOK
<1>1. ASSUME NEW o \in Ops, NEW kind \in HostKinds, SubmitHost(o, kind) PROVE Exclusive'
  <2>1. /\ \A x \in Ops : ~Open(x)
        /\ \A x \in Ops \ {o} : ops'[x] = ops[x]
        /\ ops[o].kind = "none"
    BY <1>1, <1>a DEF SubmitHost, Closed, Open, HostTyped, NoRecord
  <2>2. \A x \in Ops : MayChange(x)' \/ MayReboot(x)' => x = o
    BY <1>b, <2>1, ChangeStep, RebootStep
  <2> QED BY <1>b, <2>2 DEF Exclusive
<1>2. CASE ~(\E o \in Ops, kind \in HostKinds : SubmitHost(o, kind))
  <2>1. \A x \in Ops : ops[x].kind = "none" => ops'[x].kind = "none"
    BY <1>2, KindSame
  <2> QED BY <1>a, <1>b, <2>1, ChangeStep, RebootStep DEF Exclusive
<1> QED BY <1>1, <1>2

----------------------------------------------------------------------------
(* The invariant                                                              *)

\* The invariant holds at the start.
LEMMA InitHost == HostInit => HostInv
<1> SUFFICES ASSUME HostInit PROVE HostInv
  OBVIOUS
<1>1. HostTyped
  BY DEF HostInit, HostTyped, NoRecord, Idle, Serving, NoPoll, Records, Executions, Reboots,
      Workers, Runners, Polls, Statuses, Intents, Spools, Changes
<1>2. \A x \in Ops : ~Queued(x)
  BY Emptied DEF HostInit, Queued
<1>3. QueueOK /\ WorkerOK
  BY <1>1, <1>2, Emptied, HostAssumption DEF HostInit, QueueOK, WorkerOK, Idle, NoRecord,
      JobSteps, RebootSteps
<1>4. PollOK /\ SuccessOK
  BY DEF HostInit, PollOK, SuccessOK, NoRecord
<1>5. OpenOK /\ Exclusive
  BY DEF HostInit, OpenOK, Exclusive, MayChange, MayReboot, NoRecord
<1> QED BY <1>1, <1>3, <1>4, <1>5 DEF HostInv

\* Every step, or none, keeps the invariant.
LEMMA HostStep == HostInv /\ [HostNext]_hostVars => HostInv'
<1>1. ASSUME HostInv, HostNext PROVE HostInv'
  BY <1>1, TypedStep, QueueStep, WorkerStep, PollStep, OpenStep, ExclusiveStep, SuccessStep DEF HostInv
<1>2. ASSUME HostInv, UNCHANGED hostVars PROVE HostInv'
  <2>1. /\ UNCHANGED <<ops, execution, reboot, worker, waiting, runner, poll, bridge, boot, timer>>
        /\ \A x \in Ops : Queued(x)' <=> Queued(x)
    BY <1>2 DEF hostVars, machine, Queued
  <2>2. HostTyped' /\ PollOK' /\ SuccessOK'
    BY <1>2, <2>1 DEF HostInv, HostTyped, PollOK, SuccessOK
  <2>3. QueueOK' /\ WorkerOK'
    BY <1>2, <2>1 DEF HostInv, QueueOK, WorkerOK
  <2>4. OpenOK' /\ Exclusive'
    BY <1>2, <2>1 DEF HostInv, OpenOK, Exclusive, MayChange, MayReboot, Open, Live
  <2> QED BY <2>2, <2>3, <2>4 DEF HostInv
<1> QED BY <1>1, <1>2

\* The invariant holds for every set of operations and any number of faults.
THEOREM HostInvariant == HostSpec => []HostInv
BY InitHost, HostStep, PTL DEF HostSpec

----------------------------------------------------------------------------
(* The properties                                                             *)

\* Records, intents, spools, the queue and the timer keep their types.
THEOREM HostTypeCorrect == HostSpec => []HostTypeOK
<1>1. HostInv => HostTypeOK
  BY DEF HostInv, HostTyped, HostTypeOK, Records, Reboots, Workers, Runners, Polls, Statuses,
      Intents, Spools, Changes
<1> QED BY <1>1, HostInvariant, PTL

\* While APT changes packages, and after a change that did not end well, the
\* operation keeps the host closed, and it is reported as done only when the
\* change is: whatever a request decides from what it read before, and whenever
\* the bridge ends or the host reboots.
THEOREM UpgradeAccountedHolds == HostSpec => []UpgradeAccounted
<1>1. HostInv => UpgradeAccounted
  BY DEF HostInv, WorkerOK, OpenOK, SuccessOK, MayChange, Open, UpgradeAccounted
<1> QED BY <1>1, HostInvariant, PTL

\* A reboot that is scheduled finds no package manager at work: the two kinds of
\* operation exclude each other from submission to the last effect.
THEOREM RebootSparesPackagesHolds == HostSpec => []RebootSparesPackages
<1>1. HostInv => RebootSparesPackages
  <2> SUFFICES ASSUME HostInv, NEW o \in timer, NEW p \in Ops, worker[p].apt = "changing"
               PROVE  FALSE
    BY DEF RebootSparesPackages, PackageManagerBusy
  <2>1. o \in Ops /\ MayReboot(o)
    BY DEF HostInv, HostTyped, QueueOK, MayReboot
  <2>2. MayChange(p)
    BY DEF HostInv, WorkerOK, MayChange
  <2> QED BY <2>1, <2>2 DEF HostInv, Exclusive
<1> QED BY <1>1, HostInvariant, PTL
=============================================================================
