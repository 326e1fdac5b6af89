--------------------- MODULE ApplicationOperatorProofs ---------------------
(* Proofs about ApplicationOperator for every set of jobs, targets and        *)
(* threads: type correctness, that no job is executed twice, and that what    *)
(* ended is down.                                                             *)
EXTENDS ApplicationOperator, TLAPS

Ops == {"none", "execute", "cancel", "activate"}
Pcs == BuildSteps \cup ActivateSteps \cup StopSteps \cup UnpublishSteps
         \cup {"idle", "flag", "settle", "record"}
Rows == [status : Statuses, target : Targets \cup {NoTarget}, cancel : BOOLEAN]
Procs == [op : Ops, job : Jobs \cup {NoJob}, pc : Pcs, seen : Statuses]

\* A thread that is not idle works on a job the table knows, and the worker
\* never means to record that a job does not exist.
ProcOK ==
    \A a \in Agents :
        \/ proc[a] = Idle
        \/ /\ proc[a].job \in Jobs
           /\ row[proc[a].job].status # "none"
           /\ proc[a].seen # "none"
           /\ proc[a].pc # "idle"

\* A job of the table has its destination.
RowOK == \A j \in Jobs : row[j].status # "none" => row[j].target \in Targets

\* The queue holds jobs of the table that were never taken, each once.
QueueOK ==
    /\ \A i \in 1 .. Len(queue) : /\ executed[queue[i]] = 0
                                  /\ row[queue[i]].status # "none"
    /\ \A i, k \in 1 .. Len(queue) : queue[i] = queue[k] => i = k

\* A job that is not in the table was never taken, and nothing is taken twice.
CountOK ==
    \A j \in Jobs : /\ row[j].status = "none" => executed[j] = 0
                    /\ executed[j] =< 1

Inv == TypeOK /\ ProcOK /\ RowOK /\ QueueOK /\ CountOK

\* Apart from clone, no step adds a job to the table or changes a destination.
RowsKept ==
    \A j \in Jobs : /\ row'[j].status = "none" <=> row[j].status = "none"
                    /\ row'[j].target = row[j].target

\* The variables beside the table, the threads and the queue have their types.
OthersOK ==
    /\ daemon \in {"down", "starting", "up"}
    /\ boot \subseteq Jobs
    /\ dirs \subseteq Targets
    /\ up \in [Jobs -> SUBSET Parts]
    /\ conf \subseteq Jobs
    /\ swallowed \subseteq Jobs
    /\ orphaned \subseteq Jobs

\* A thread stays where it is, returns, or goes on with its job.
ProcsKept ==
    /\ proc' \in [Agents -> Procs]
    /\ \A b \in Agents : \/ proc'[b] = proc[b]
                         \/ proc'[b] = Idle
                         \/ /\ proc[b] # Idle
                            /\ proc'[b].job = proc[b].job
                            /\ proc'[b].seen # "none"
                            /\ proc'[b].pc # "idle"

LEMMA InitInv == Init => Inv
  BY NoneOutside DEF Init, Inv, TypeOK, ProcOK, RowOK, QueueOK, CountOK, Idle,
     Statuses, InFlight, Agents, Parts, Rows, Procs, Ops, Pcs

\* What an UPDATE of a status does to the table.
LEMMA SetStatusKeeps ==
  ASSUME NEW j \in Jobs, NEW s \in Statuses \ {"none"},
         row \in [Jobs -> Rows], row[j].status # "none", SetStatus(j, s)
  PROVE  row' \in [Jobs -> Rows] /\ RowsKept
  <1>1. row' = [row EXCEPT ![j] = [row[j] EXCEPT !.status = s]]
    BY DEF SetStatus, Rows
  <1>2. [row[j] EXCEPT !.status = s] \in Rows
    BY DEF Rows
  <1>3. row' \in [Jobs -> Rows]
    BY <1>1, <1>2
  <1>4. \A k \in Jobs : row'[k] = IF k = j THEN [row[j] EXCEPT !.status = s]
                                           ELSE row[k]
    BY <1>1
  <1>5. RowsKept
    BY <1>4 DEF RowsKept, Rows
  <1> QED
    BY <1>3, <1>5

\* What a change of the program counter does to a thread.
LEMMA GotoKeeps ==
  ASSUME NEW a \in Agents, NEW pc \in Pcs \ {"idle"}, Inv, proc[a] # Idle,
         Goto(a, pc)
  PROVE  ProcsKept
  <1>1. proc \in [Agents -> Procs]
    BY DEF Inv, TypeOK, Procs, Ops, Pcs
  <1>2. proc' = [proc EXCEPT ![a] = [proc[a] EXCEPT !.pc = pc]]
    BY <1>1 DEF Goto
  <1>3. [proc[a] EXCEPT !.pc = pc] \in Procs
    BY <1>1 DEF Procs
  <1>4. proc' \in [Agents -> Procs]
    BY <1>1, <1>2, <1>3
  <1>5. \A b \in Agents : proc'[b] = IF b = a THEN [proc[a] EXCEPT !.pc = pc]
                                              ELSE proc[b]
    BY <1>1, <1>2
  <1>6. /\ [proc[a] EXCEPT !.pc = pc].job = proc[a].job
        /\ [proc[a] EXCEPT !.pc = pc].seen = proc[a].seen
        /\ [proc[a] EXCEPT !.pc = pc].pc = pc
    BY <1>1 DEF Procs
  <1>7. proc[a].seen # "none"
    BY DEF Inv, ProcOK
  <1> QED
    BY Zenon, <1>4, <1>5, <1>6, <1>7 DEF ProcsKept

LEMMA ReturnKeeps ==
  ASSUME NEW a \in Agents, Inv, Return(a)
  PROVE  ProcsKept
  <1>1. proc \in [Agents -> Procs]
    BY DEF Inv, TypeOK, Procs, Ops, Pcs
  <1>2. Idle \in Procs
    BY DEF Idle, Procs, Ops, Pcs, Statuses
  <1> QED
    BY <1>1, <1>2 DEF Return, ProcsKept

\* Steps of a thread on its job keep the invariant.
LEMMA LocalStepKeepsInv ==
  ASSUME Inv, OthersOK', row' \in [Jobs -> Rows], RowsKept, ProcsKept,
         queue' = queue, executed' = executed
  PROVE  Inv'
  <1>1. TypeOK'
    BY DEF Inv, TypeOK, OthersOK, ProcsKept, Rows, Procs, Ops, Pcs
  <1>2. ProcOK'
    <2> SUFFICES ASSUME NEW a \in Agents, proc'[a] # Idle
                 PROVE  /\ proc'[a].job \in Jobs
                        /\ row'[proc'[a].job].status # "none"
                        /\ proc'[a].seen # "none"
                        /\ proc'[a].pc # "idle"
      BY DEF ProcOK
    <2>1. proc[a] # Idle
      BY DEF ProcsKept
    <2>2. /\ proc[a].job \in Jobs
          /\ row[proc[a].job].status # "none"
          /\ proc[a].seen # "none"
          /\ proc[a].pc # "idle"
      BY <2>1 DEF Inv, ProcOK
    <2> QED
      BY <2>2 DEF ProcsKept, RowsKept
  <1>3. RowOK'
    BY DEF Inv, RowOK, RowsKept
  <1>4. QueueOK'
    BY DEF Inv, QueueOK, RowsKept, TypeOK
  <1>5. CountOK'
    BY DEF Inv, CountOK, RowsKept
  <1> QED
    BY <1>1, <1>2, <1>3, <1>4, <1>5 DEF Inv

LEMMA RowUnchanged ==
  ASSUME Inv, row' = row
  PROVE  row' \in [Jobs -> Rows] /\ RowsKept
  BY DEF Inv, TypeOK, Rows, RowsKept

\* Every step of a request thread on its call keeps the invariant.
LEMMA ThreadStepKeepsInv ==
  ASSUME Inv, NEW t \in Threads, ThreadStep(t)
  PROVE  Inv'
  <1> DEFINE p == proc[t]
  <1>t. t \in Agents
    BY DEF Agents
  <1>o. OthersOK /\ row \in [Jobs -> Rows] /\ proc \in [Agents -> Procs]
    BY DEF Inv, TypeOK, OthersOK, Rows, Procs, Ops, Pcs
  <1>p. ASSUME p.pc # "idle"
        PROVE  /\ p # Idle
               /\ p.job \in Jobs
               /\ row[p.job].status # "none"
    BY <1>t, <1>p DEF Inv, ProcOK, Idle
  <1>1. CASE Stop(t)
    <2>1. p.pc # "idle"
      BY <1>1 DEF Stop, At, StopSteps
    <2>2. /\ p # Idle
          /\ p.job \in Jobs
          /\ row[p.job].status # "none"
      BY <1>p, <2>1
    <2>3. \E pc \in Pcs \ {"idle"} : Goto(t, pc)
      BY <1>1 DEF Stop, Pcs, StopSteps, UnpublishSteps, ActivateSteps, AfterStop
    <2>4. ProcsKept
      BY <1>t, <2>2, <2>3, GotoKeeps
    <2>5. row' \in [Jobs -> Rows] /\ RowsKept
      BY <1>1, RowUnchanged DEF Stop, disk
    <2>6. OthersOK'
      BY <1>1, <1>o, <2>2 DEF Stop, OthersOK, disk, Parts, StopPart, StopSteps
    <2> QED
      BY <1>1, <2>4, <2>5, <2>6, LocalStepKeepsInv DEF Stop, disk
  <1>2. CASE UnpublishLook(t)
    <2>1. p.pc # "idle"
      BY <1>2 DEF UnpublishLook, At
    <2>2. /\ p # Idle
          /\ p.job \in Jobs
          /\ row[p.job].status # "none"
      BY <1>p, <2>1
    <2>3. \E pc \in Pcs \ {"idle"} : Goto(t, pc)
      BY <1>2 DEF UnpublishLook, Pcs, StopSteps, UnpublishSteps, ActivateSteps
    <2>4. ProcsKept
      BY <1>t, <2>2, <2>3, GotoKeeps
    <2>5. row' \in [Jobs -> Rows] /\ RowsKept
      BY <1>2, RowUnchanged DEF UnpublishLook, disk
    <2>6. OthersOK'
      BY <1>2, <1>o, <2>2 DEF UnpublishLook, OthersOK, disk
    <2> QED
      BY <1>2, <2>4, <2>5, <2>6, LocalStepKeepsInv DEF UnpublishLook, disk
  <1>3. CASE UnpublishUnlink(t)
    <2>1. p.pc # "idle"
      BY <1>3 DEF UnpublishUnlink, At
    <2>2. /\ p # Idle
          /\ p.job \in Jobs
          /\ row[p.job].status # "none"
      BY <1>p, <2>1
    <2>3. \E pc \in Pcs \ {"idle"} : Goto(t, pc)
      BY <1>3 DEF UnpublishUnlink, Pcs, StopSteps, UnpublishSteps, ActivateSteps
    <2>4. ProcsKept
      BY <1>t, <2>2, <2>3, GotoKeeps
    <2>5. row' \in [Jobs -> Rows] /\ RowsKept
      BY <1>3, RowUnchanged DEF UnpublishUnlink, disk
    <2>6. OthersOK'
      BY <1>3, <1>o, <2>2 DEF UnpublishUnlink, OthersOK, disk
    <2> QED
      BY <1>3, <2>4, <2>5, <2>6, LocalStepKeepsInv DEF UnpublishUnlink, disk
  <1>4. CASE UnpublishReload(t)
    <2>1. p.pc # "idle"
      BY <1>4 DEF UnpublishReload, At
    <2>2. /\ p # Idle
          /\ p.job \in Jobs
          /\ row[p.job].status # "none"
      BY <1>p, <2>1
    <2>3. \E pc \in Pcs \ {"idle"} : Goto(t, pc)
      BY <1>4 DEF UnpublishReload, Pcs, StopSteps, UnpublishSteps, ActivateSteps
    <2>4. ProcsKept
      BY <1>t, <2>2, <2>3, GotoKeeps
    <2>5. row' \in [Jobs -> Rows] /\ RowsKept
      BY <1>4, RowUnchanged DEF UnpublishReload, disk
    <2>6. OthersOK'
      BY <1>4, <1>o, <2>2 DEF UnpublishReload, OthersOK, disk
    <2> QED
      BY <1>4, <2>4, <2>5, <2>6, LocalStepKeepsInv DEF UnpublishReload, disk
  <1>5. CASE UnpublishFails(t)
    <2>1. p.pc # "idle"
      BY <1>5 DEF UnpublishFails, At
    <2>2. /\ p # Idle
          /\ p.job \in Jobs
          /\ row[p.job].status # "none"
      BY <1>p, <2>1
    <2>3. Return(t) \/ \E pc \in Pcs \ {"idle"} : Goto(t, pc)
      BY <1>5 DEF UnpublishFails, Pcs, StopSteps, UnpublishSteps, ActivateSteps
    <2>4. ProcsKept
      BY <1>t, <2>2, <2>3, GotoKeeps, ReturnKeeps
    <2>5. row' \in [Jobs -> Rows] /\ RowsKept
      BY <1>5, RowUnchanged DEF UnpublishFails, disk
    <2>6. OthersOK'
      BY <1>5, <1>o, <2>2 DEF UnpublishFails, OthersOK, disk
    <2> QED
      BY <1>5, <2>4, <2>5, <2>6, LocalStepKeepsInv DEF UnpublishFails, disk
  <1>6. CASE CancelFlag(t)
    <2>1. p.pc # "idle"
      BY <1>6 DEF CancelFlag, At
    <2>2. /\ p # Idle
          /\ p.job \in Jobs
          /\ row[p.job].status # "none"
      BY <1>p, <2>1
    <2>3. Return(t) \/ \E pc \in Pcs \ {"idle"} : Goto(t, pc)
      BY <1>6 DEF CancelFlag, Pcs, StopSteps, UnpublishSteps, ActivateSteps
    <2>4. ProcsKept
      BY <1>t, <2>2, <2>3, GotoKeeps, ReturnKeeps
    <2>5. row' \in [Jobs -> Rows] /\ RowsKept
      BY Zenon, <1>6, <1>o, <2>2 DEF CancelFlag, Rows, RowsKept
    <2>6. OthersOK'
      BY <1>6, <1>o, <2>2 DEF CancelFlag, OthersOK, disk
    <2> QED
      BY <1>6, <2>4, <2>5, <2>6, LocalStepKeepsInv DEF CancelFlag, disk
  <1>7. CASE CancelSettle(t)
    <2>1. p.pc # "idle"
      BY <1>7 DEF CancelSettle, At
    <2>2. /\ p # Idle
          /\ p.job \in Jobs
          /\ row[p.job].status # "none"
      BY <1>p, <2>1
    <2>4. ProcsKept
      BY <1>7, <1>t, ReturnKeeps DEF CancelSettle
    <2>5. row' \in [Jobs -> Rows] /\ RowsKept
      <3>1. SetStatus(p.job, "cancelled")
        BY <1>7 DEF CancelSettle
      <3>2. "cancelled" \in Statuses \ {"none"}
        BY DEF Statuses, InFlight
      <3> QED
        BY <1>o, <2>2, <3>1, <3>2, SetStatusKeeps
    <2>6. OthersOK'
      BY <1>7, <1>o, <2>2 DEF CancelSettle, OthersOK, disk
    <2> QED
      BY <1>7, <2>4, <2>5, <2>6, LocalStepKeepsInv DEF CancelSettle, disk
  <1>8. CASE ActivateCheck(t)
    <2>1. p.pc # "idle"
      BY <1>8 DEF ActivateCheck, At, NextCheck
    <2>2. /\ p # Idle
          /\ p.job \in Jobs
          /\ row[p.job].status # "none"
      BY <1>p, <2>1
    <2>3. \E pc \in Pcs \ {"idle"} : Goto(t, pc)
      BY <1>8 DEF ActivateCheck, Pcs, StopSteps, UnpublishSteps, ActivateSteps, Checked, NextCheck
    <2>4. ProcsKept
      BY <1>t, <2>2, <2>3, GotoKeeps
    <2>5. row' \in [Jobs -> Rows] /\ RowsKept
      BY <1>8, RowUnchanged DEF ActivateCheck, disk
    <2>6. OthersOK'
      BY <1>8, <1>o, <2>2 DEF ActivateCheck, OthersOK, disk
    <2> QED
      BY <1>8, <2>4, <2>5, <2>6, LocalStepKeepsInv DEF ActivateCheck, disk
  <1>9. CASE ActivateMark(t)
    <2>1. p.pc # "idle"
      BY <1>9 DEF ActivateMark, At
    <2>2. /\ p # Idle
          /\ p.job \in Jobs
          /\ row[p.job].status # "none"
      BY <1>p, <2>1
    <2>3. \E pc \in Pcs \ {"idle"} : Goto(t, pc)
      BY <1>9 DEF ActivateMark, Pcs, StopSteps, UnpublishSteps, ActivateSteps
    <2>4. ProcsKept
      BY <1>t, <2>2, <2>3, GotoKeeps
    <2>5. row' \in [Jobs -> Rows] /\ RowsKept
      <3>1. SetStatus(p.job, "activating")
        BY <1>9 DEF ActivateMark
      <3>2. "activating" \in Statuses \ {"none"}
        BY DEF Statuses, InFlight
      <3> QED
        BY <1>o, <2>2, <3>1, <3>2, SetStatusKeeps
    <2>6. OthersOK'
      BY <1>9, <1>o, <2>2 DEF ActivateMark, OthersOK, disk
    <2> QED
      BY <1>9, <2>4, <2>5, <2>6, LocalStepKeepsInv DEF ActivateMark, disk
  <1>10. CASE ActivateStart(t)
    <2>1. p.pc # "idle"
      BY <1>10 DEF ActivateStart, At
    <2>2. /\ p # Idle
          /\ p.job \in Jobs
          /\ row[p.job].status # "none"
      BY <1>p, <2>1
    <2>3. \E pc \in Pcs \ {"idle"} : Goto(t, pc)
      BY <1>10 DEF ActivateStart, Pcs, StopSteps, UnpublishSteps, ActivateSteps
    <2>4. ProcsKept
      BY <1>t, <2>2, <2>3, GotoKeeps
    <2>5. row' \in [Jobs -> Rows] /\ RowsKept
      BY <1>10, RowUnchanged DEF ActivateStart, disk
    <2>6. OthersOK'
      BY <1>10, <1>o, <2>2 DEF ActivateStart, OthersOK, disk, Parts, StopPart, StopSteps
    <2> QED
      BY <1>10, <2>4, <2>5, <2>6, LocalStepKeepsInv DEF ActivateStart, disk
  <1>11. CASE ActivateHealth(t)
    <2>1. p.pc # "idle"
      BY <1>11 DEF ActivateHealth, At
    <2>2. /\ p # Idle
          /\ p.job \in Jobs
          /\ row[p.job].status # "none"
      BY <1>p, <2>1
    <2>3. \E pc \in Pcs \ {"idle"} : Goto(t, pc)
      BY <1>11 DEF ActivateHealth, Pcs, StopSteps, UnpublishSteps, ActivateSteps, Checked, NextCheck
    <2>4. ProcsKept
      BY <1>t, <2>2, <2>3, GotoKeeps
    <2>5. row' \in [Jobs -> Rows] /\ RowsKept
      BY <1>11, RowUnchanged DEF ActivateHealth, disk
    <2>6. OthersOK'
      BY <1>11, <1>o, <2>2 DEF ActivateHealth, OthersOK, disk
    <2> QED
      BY <1>11, <2>4, <2>5, <2>6, LocalStepKeepsInv DEF ActivateHealth, disk
  <1>12. CASE ActivateStartWeb(t)
    <2>1. p.pc # "idle"
      BY <1>12 DEF ActivateStartWeb, At
    <2>2. /\ p # Idle
          /\ p.job \in Jobs
          /\ row[p.job].status # "none"
      BY <1>p, <2>1
    <2>3. \E pc \in Pcs \ {"idle"} : Goto(t, pc)
      BY <1>12 DEF ActivateStartWeb, Pcs, StopSteps, UnpublishSteps, ActivateSteps
    <2>4. ProcsKept
      BY <1>t, <2>2, <2>3, GotoKeeps
    <2>5. row' \in [Jobs -> Rows] /\ RowsKept
      BY <1>12, RowUnchanged DEF ActivateStartWeb, disk
    <2>6. OthersOK'
      BY <1>12, <1>o, <2>2 DEF ActivateStartWeb, OthersOK, disk, Parts, StopPart, StopSteps
    <2> QED
      BY <1>12, <2>4, <2>5, <2>6, LocalStepKeepsInv DEF ActivateStartWeb, disk
  <1>13. CASE ActivateHealthWeb(t)
    <2>1. p.pc # "idle"
      BY <1>13 DEF ActivateHealthWeb, At
    <2>2. /\ p # Idle
          /\ p.job \in Jobs
          /\ row[p.job].status # "none"
      BY <1>p, <2>1
    <2>3. \E pc \in Pcs \ {"idle"} : Goto(t, pc)
      BY <1>13 DEF ActivateHealthWeb, Pcs, StopSteps, UnpublishSteps, ActivateSteps, Checked,
          NextCheck
    <2>4. ProcsKept
      BY <1>t, <2>2, <2>3, GotoKeeps
    <2>5. row' \in [Jobs -> Rows] /\ RowsKept
      BY <1>13, RowUnchanged DEF ActivateHealthWeb, disk
    <2>6. OthersOK'
      BY <1>13, <1>o, <2>2 DEF ActivateHealthWeb, OthersOK, disk
    <2> QED
      BY <1>13, <2>4, <2>5, <2>6, LocalStepKeepsInv DEF ActivateHealthWeb, disk
  <1>14. CASE ActivatePublish(t)
    <2>1. p.pc # "idle"
      BY <1>14 DEF ActivatePublish, At
    <2>2. /\ p # Idle
          /\ p.job \in Jobs
          /\ row[p.job].status # "none"
      BY <1>p, <2>1
    <2>3. \E pc \in Pcs \ {"idle"} : Goto(t, pc)
      BY <1>14 DEF ActivatePublish, Pcs, StopSteps, UnpublishSteps, ActivateSteps
    <2>4. ProcsKept
      BY <1>t, <2>2, <2>3, GotoKeeps
    <2>5. row' \in [Jobs -> Rows] /\ RowsKept
      BY <1>14, RowUnchanged DEF ActivatePublish, disk
    <2>6. OthersOK'
      BY <1>14, <1>o, <2>2 DEF ActivatePublish, OthersOK, disk
    <2> QED
      BY <1>14, <2>4, <2>5, <2>6, LocalStepKeepsInv DEF ActivatePublish, disk
  <1>15. CASE ActivateReload(t)
    <2>1. p.pc # "idle"
      BY <1>15 DEF ActivateReload, At
    <2>2. /\ p # Idle
          /\ p.job \in Jobs
          /\ row[p.job].status # "none"
      BY <1>p, <2>1
    <2>3. \E pc \in Pcs \ {"idle"} : Goto(t, pc)
      BY <1>15 DEF ActivateReload, Pcs, StopSteps, UnpublishSteps, ActivateSteps
    <2>4. ProcsKept
      BY <1>t, <2>2, <2>3, GotoKeeps
    <2>5. row' \in [Jobs -> Rows] /\ RowsKept
      BY <1>15, RowUnchanged DEF ActivateReload, disk
    <2>6. OthersOK'
      BY <1>15, <1>o, <2>2 DEF ActivateReload, OthersOK, disk
    <2> QED
      BY <1>15, <2>4, <2>5, <2>6, LocalStepKeepsInv DEF ActivateReload, disk
  <1>16. CASE ActivateFinish(t)
    <2>1. p.pc # "idle"
      BY <1>16 DEF ActivateFinish, At
    <2>2. /\ p # Idle
          /\ p.job \in Jobs
          /\ row[p.job].status # "none"
      BY <1>p, <2>1
    <2>4. ProcsKept
      BY <1>16, <1>t, ReturnKeeps DEF ActivateFinish
    <2>5. row' \in [Jobs -> Rows] /\ RowsKept
      <3>1. SetStatus(p.job, "available")
        BY <1>16 DEF ActivateFinish
      <3>2. "available" \in Statuses \ {"none"}
        BY DEF Statuses, InFlight
      <3> QED
        BY <1>o, <2>2, <3>1, <3>2, SetStatusKeeps
    <2>6. OthersOK'
      BY <1>16, <1>o, <2>2 DEF ActivateFinish, OthersOK, disk
    <2> QED
      BY <1>16, <2>4, <2>5, <2>6, LocalStepKeepsInv DEF ActivateFinish, disk
  <1>17. CASE ActivateFails(t)
    <2>1. p.pc # "idle"
      BY <1>17 DEF ActivateFails, At, ActivateSteps
    <2>2. /\ p # Idle
          /\ p.job \in Jobs
          /\ row[p.job].status # "none"
      BY <1>p, <2>1
    <2>3. \E pc \in Pcs \ {"idle"} : Goto(t, pc)
      BY <1>17 DEF ActivateFails, Pcs, StopSteps, UnpublishSteps, ActivateSteps
    <2>4. ProcsKept
      BY <1>t, <2>2, <2>3, GotoKeeps
    <2>5. row' \in [Jobs -> Rows] /\ RowsKept
      BY <1>17, RowUnchanged DEF ActivateFails, disk
    <2>6. OthersOK'
      BY <1>17, <1>o, <2>2 DEF ActivateFails, OthersOK, disk
    <2> QED
      BY <1>17, <2>4, <2>5, <2>6, LocalStepKeepsInv DEF ActivateFails, disk
  <1>18. CASE ActivateSettle(t)
    <2>1. p.pc # "idle"
      BY <1>18 DEF ActivateSettle, At
    <2>2. /\ p # Idle
          /\ p.job \in Jobs
          /\ row[p.job].status # "none"
      BY <1>p, <2>1
    <2>4. ProcsKept
      BY <1>18, <1>t, ReturnKeeps DEF ActivateSettle
    <2>5. row' \in [Jobs -> Rows] /\ RowsKept
      <3>1. SetStatus(p.job, "activation_failed")
        BY <1>18 DEF ActivateSettle
      <3>2. "activation_failed" \in Statuses \ {"none"}
        BY DEF Statuses, InFlight
      <3> QED
        BY <1>o, <2>2, <3>1, <3>2, SetStatusKeeps
    <2>6. OthersOK'
      BY <1>18, <1>o, <2>2 DEF ActivateSettle, OthersOK, disk
    <2> QED
      BY <1>18, <2>4, <2>5, <2>6, LocalStepKeepsInv DEF ActivateSettle, disk
  <1> QED
    BY <1>1, <1>2, <1>3, <1>4, <1>5, <1>6, <1>7, <1>8, <1>9, <1>10, <1>11, <1>12, <1>13, <1>14,
        <1>15, <1>16, <1>17, <1>18
       DEF ThreadStep

\* What an exception of the copy does to the worker.
LEMMA BuildAbortsKeeps ==
  ASSUME NEW s \in Statuses \ {"none"}, Inv, proc[Worker] # Idle,
         BuildAborts(s)
  PROVE  ProcsKept
  <1>1. proc \in [Agents -> Procs] /\ Worker \in Agents
    BY DEF Inv, TypeOK, Procs, Ops, Pcs, Agents
  <1> DEFINE q == [proc[Worker] EXCEPT !.pc = "stopApp", !.seen = s]
  <1>2. proc' = [proc EXCEPT ![Worker] = q]
    BY Zenon, <1>1 DEF BuildAborts, Procs
  <1>3. /\ q \in Procs
        /\ q.job = proc[Worker].job
        /\ q.seen = s
        /\ q.pc = "stopApp"
    BY Zenon, <1>1 DEF Procs, Pcs, StopSteps
  <1> HIDE DEF q
  <1> QED
    BY <1>1, <1>2, <1>3 DEF ProcsKept

\* Every step of the worker keeps the invariant; it takes a job once.
LEMMA WorkerStepKeepsInv ==
  ASSUME Inv, WorkerStep
  PROVE  Inv'
  <1> DEFINE p == proc[Worker]
  <1>t. Worker \in Agents
    BY DEF Agents
  <1>o. OthersOK /\ row \in [Jobs -> Rows] /\ proc \in [Agents -> Procs]
    BY DEF Inv, TypeOK, OthersOK, Rows, Procs, Ops, Pcs
  <1>p. ASSUME p.pc # "idle"
        PROVE  /\ p # Idle
               /\ p.job \in Jobs
               /\ row[p.job].status # "none"
               /\ p.seen \in Statuses \ {"none"}
    <2>1. p # Idle
      BY <1>p DEF Idle
    <2>2. p.seen \in Statuses
      BY <1>o, <1>t DEF Procs
    <2> QED
      BY <1>t, <2>1, <2>2 DEF Inv, ProcOK
  <1>s. "failed" \in Statuses \ {"none"} /\ "cancelled" \in Statuses \ {"none"}
    BY DEF Statuses
  <1>1. CASE BuildCheck
    <2>1. p.pc # "idle"
      BY <1>1 DEF BuildCheck, At
    <2>2. /\ p # Idle
          /\ p.job \in Jobs
          /\ row[p.job].status # "none"
          /\ p.seen \in Statuses \ {"none"}
      BY <1>p, <2>1
    <2>3. \/ (\E pc \in Pcs \ {"idle"} : Goto(Worker, pc))
          \/ BuildAborts("cancelled")
      BY <1>1 DEF BuildCheck, Pcs, BuildSteps
    <2>4. ProcsKept
      BY <1>s, <1>t, <2>2, <2>3, GotoKeeps, BuildAbortsKeeps
    <2>5. row' \in [Jobs -> Rows] /\ RowsKept
      BY <1>1, RowUnchanged DEF BuildCheck, disk
    <2>6. OthersOK'
      BY <1>1, <1>o, <2>2 DEF BuildCheck, OthersOK, disk
    <2> QED
      BY <1>1, <2>4, <2>5, <2>6, LocalStepKeepsInv DEF BuildCheck, disk
  <1>2. CASE BuildDirectory
    <2>1. p.pc # "idle"
      BY <1>2 DEF BuildDirectory, At
    <2>2. /\ p # Idle
          /\ p.job \in Jobs
          /\ row[p.job].status # "none"
          /\ p.seen \in Statuses \ {"none"}
      BY <1>p, <2>1
    <2>3. \/ (\E pc \in Pcs \ {"idle"} : Goto(Worker, pc))
          \/ BuildAborts("failed")
      BY <1>2 DEF BuildDirectory, Pcs, BuildSteps
    <2>4. ProcsKept
      BY <1>s, <1>t, <2>2, <2>3, GotoKeeps, BuildAbortsKeeps
    <2>5. row' \in [Jobs -> Rows] /\ RowsKept
      BY <1>2, RowUnchanged DEF BuildDirectory, disk
    <2>6. OthersOK'
      <3>1. row[p.job].target \in Targets
        BY <2>2 DEF Inv, RowOK
      <3> QED
        BY <1>2, <1>o, <3>1 DEF BuildDirectory, OthersOK
    <2> QED
      BY <1>2, <2>4, <2>5, <2>6, LocalStepKeepsInv DEF BuildDirectory, disk
  <1>3. CASE BuildDependencies
    <2>1. p.pc # "idle"
      BY <1>3 DEF BuildDependencies, At
    <2>2. /\ p # Idle
          /\ p.job \in Jobs
          /\ row[p.job].status # "none"
          /\ p.seen \in Statuses \ {"none"}
      BY <1>p, <2>1
    <2>3. \E pc \in Pcs \ {"idle"} : Goto(Worker, pc)
      BY <1>3 DEF BuildDependencies, Pcs, BuildSteps, StopSteps, UnpublishSteps
    <2>4. ProcsKept
      BY <1>t, <2>2, <2>3, GotoKeeps
    <2>5. row' \in [Jobs -> Rows] /\ RowsKept
      BY <1>3, RowUnchanged DEF BuildDependencies, disk
    <2>6. OthersOK'
      BY <1>3, <1>o, <2>2 DEF BuildDependencies, OthersOK, disk, Parts, StopPart, StopSteps
    <2> QED
      BY <1>3, <2>4, <2>5, <2>6, LocalStepKeepsInv DEF BuildDependencies, disk
  <1>4. CASE BuildCreate
    <2>1. p.pc # "idle"
      BY <1>4 DEF BuildCreate, At
    <2>2. /\ p # Idle
          /\ p.job \in Jobs
          /\ row[p.job].status # "none"
          /\ p.seen \in Statuses \ {"none"}
      BY <1>p, <2>1
    <2>3. \/ (\E pc \in Pcs \ {"idle"} : Goto(Worker, pc))
          \/ BuildAborts("cancelled")
      BY <1>4 DEF BuildCreate, Pcs, BuildSteps
    <2>4. ProcsKept
      BY <1>s, <1>t, <2>2, <2>3, GotoKeeps, BuildAbortsKeeps
    <2>5. row' \in [Jobs -> Rows] /\ RowsKept
      BY <1>4, RowUnchanged DEF BuildCreate, disk
    <2>6. OthersOK'
      BY <1>4, <1>o, <2>2 DEF BuildCreate, OthersOK, disk
    <2> QED
      BY <1>4, <2>4, <2>5, <2>6, LocalStepKeepsInv DEF BuildCreate, disk
  <1>5. CASE BuildFails
    <2>1. p.pc # "idle"
      BY <1>5 DEF BuildFails, At, BuildSteps
    <2>2. /\ p # Idle
          /\ p.job \in Jobs
          /\ row[p.job].status # "none"
          /\ p.seen \in Statuses \ {"none"}
      BY <1>p, <2>1
    <2>3. BuildAborts("failed")
      BY <1>5 DEF BuildFails, Pcs, BuildSteps
    <2>4. ProcsKept
      BY <1>s, <1>t, <2>2, <2>3, GotoKeeps, BuildAbortsKeeps
    <2>5. row' \in [Jobs -> Rows] /\ RowsKept
      BY <1>5, RowUnchanged DEF BuildFails, disk
    <2>6. OthersOK'
      BY <1>5, <1>o, <2>2 DEF BuildFails, OthersOK, disk
    <2> QED
      BY <1>5, <2>4, <2>5, <2>6, LocalStepKeepsInv DEF BuildFails, disk
  <1>6. CASE BuildRecord
    <2>1. p.pc # "idle"
      BY <1>6 DEF BuildRecord, At
    <2>2. /\ p # Idle
          /\ p.job \in Jobs
          /\ row[p.job].status # "none"
          /\ p.seen \in Statuses \ {"none"}
      BY <1>p, <2>1
    <2>4. ProcsKept
      BY <1>6, <1>t, ReturnKeeps DEF BuildRecord
    <2>5. row' \in [Jobs -> Rows] /\ RowsKept
      BY <1>6, <1>o, <2>2, SetStatusKeeps DEF BuildRecord
    <2>6. OthersOK'
      BY <1>6, <1>o, <2>2 DEF BuildRecord, OthersOK, disk
    <2> QED
      BY <1>6, <2>4, <2>5, <2>6, LocalStepKeepsInv DEF BuildRecord, disk
  <1>7. CASE Stop(Worker)
    <2>1. p.pc # "idle"
      BY <1>7 DEF Stop, At, StopSteps
    <2>2. /\ p # Idle
          /\ p.job \in Jobs
          /\ row[p.job].status # "none"
          /\ p.seen \in Statuses \ {"none"}
      BY <1>p, <2>1
    <2>3. \E pc \in Pcs \ {"idle"} : Goto(Worker, pc)
      BY <1>7 DEF Stop, Pcs, BuildSteps, StopSteps, UnpublishSteps, AfterStop
    <2>4. ProcsKept
      BY <1>t, <2>2, <2>3, GotoKeeps
    <2>5. row' \in [Jobs -> Rows] /\ RowsKept
      BY <1>7, RowUnchanged DEF Stop, disk
    <2>6. OthersOK'
      BY <1>7, <1>o, <2>2 DEF Stop, OthersOK, disk, Parts, StopPart, StopSteps
    <2> QED
      BY <1>7, <2>4, <2>5, <2>6, LocalStepKeepsInv DEF Stop, disk
  <1>8. CASE Take
    <2> DEFINE j == Head(queue)
               q == [op |-> "execute", job |-> j, pc |-> "check",
                     seen |-> "staged"]
    <2>1. queue \in Seq(Jobs) /\ queue # <<>>
      BY <1>8 DEF Take, Inv, TypeOK
    <2>2. /\ j \in Jobs
          /\ j = queue[1]
          /\ 1 \in 1 .. Len(queue)
          /\ Len(queue) \in Nat
      BY <2>1
    <2>3. /\ Tail(queue) \in Seq(Jobs)
          /\ Len(Tail(queue)) = Len(queue) - 1
          /\ \A i \in 1 .. Len(Tail(queue)) : /\ Tail(queue)[i] = queue[i + 1]
                                              /\ i + 1 \in 1 .. Len(queue)
                                              /\ i + 1 # 1
      BY <2>1
    <2>4. executed[j] = 0 /\ row[j].status # "none"
      BY <2>2 DEF Inv, QueueOK
    <2>5. row' \in [Jobs -> Rows] /\ RowsKept
      <3>1. "running" \in Statuses \ {"none"}
        BY DEF Statuses, InFlight
      <3> QED
        BY <1>8, <1>o, <2>2, <2>4, <3>1, SetStatusKeeps DEF Take
    <2>6. /\ executed' \in [Jobs -> Nat]
          /\ executed'[j] = 1
          /\ \A k \in Jobs \ {j} : executed'[k] = executed[k]
      BY <1>8, <2>2, <2>4 DEF Take, Inv, TypeOK
    <2>7. /\ q \in Procs
          /\ q.job = j
          /\ q.seen = "staged"
          /\ q.pc = "check"
      BY <2>2 DEF Procs, Ops, Pcs, BuildSteps, Statuses
    <2>8. /\ proc' \in [Agents -> Procs]
          /\ \A a \in Agents : proc'[a] = IF a = Worker THEN q ELSE proc[a]
      BY <1>8, <1>o, <1>t, <2>7 DEF Take
    <2> HIDE DEF q
    <2>9. OthersOK'
      BY <1>8, <1>o DEF Take, OthersOK
    <2>10. queue' = Tail(queue)
      BY <1>8 DEF Take
    <2> HIDE DEF j
    <2>11. TypeOK'
      BY <2>3, <2>5, <2>6, <2>8, <2>9, <2>10
         DEF TypeOK, OthersOK, Rows, Procs, Ops, Pcs
    <2>12. ProcOK'
      <3> SUFFICES ASSUME NEW a \in Agents, proc'[a] # Idle
                   PROVE  /\ proc'[a].job \in Jobs
                          /\ row'[proc'[a].job].status # "none"
                          /\ proc'[a].seen # "none"
                          /\ proc'[a].pc # "idle"
        BY DEF ProcOK
      <3>1. CASE a = Worker
        BY <3>1, <2>2, <2>4, <2>5, <2>7, <2>8 DEF RowsKept
      <3>2. CASE a # Worker
        BY <3>2, <2>5, <2>8 DEF Inv, ProcOK, RowsKept
      <3> QED
        BY <3>1, <3>2
    <2>13. RowOK'
      BY <2>5 DEF Inv, RowOK, RowsKept
    <2>14. QueueOK'
      <3>1. \A i \in 1 .. Len(Tail(queue)) :
               /\ queue[i + 1] \in Jobs \ {j}
               /\ executed[queue[i + 1]] = 0
               /\ row[queue[i + 1]].status # "none"
        BY <2>1, <2>2, <2>3 DEF Inv, QueueOK
      <3>2. \A i \in 1 .. Len(Tail(queue)) :
               /\ executed'[Tail(queue)[i]] = 0
               /\ row'[Tail(queue)[i]].status # "none"
        BY <2>3, <2>5, <2>6, <3>1 DEF RowsKept
      <3>3. \A i, k \in 1 .. Len(Tail(queue)) :
               Tail(queue)[i] = Tail(queue)[k] => i = k
        BY <2>3, <2>2 DEF Inv, QueueOK
      <3> QED
        BY <2>10, <3>2, <3>3 DEF QueueOK
    <2>15. CountOK'
      BY <2>4, <2>5, <2>6 DEF Inv, CountOK, RowsKept
    <2> QED
      BY <2>11, <2>12, <2>13, <2>14, <2>15 DEF Inv
  <1> QED
    BY <1>1, <1>2, <1>3, <1>4, <1>5, <1>6, <1>7, <1>8 DEF WorkerStep

\* A thread that takes a call on a job of the table keeps the invariant.
LEMMA CallKeepsInv ==
  ASSUME Inv, NEW t \in Threads, NEW q \in Procs, q.job \in Jobs,
         row[q.job].status # "none", q.seen # "none", q.pc # "idle",
         proc' = [proc EXCEPT ![t] = q],
         UNCHANGED <<daemon, boot, disk, queue, executed, swallowed, orphaned>>
  PROVE  Inv'
  <1>1. t \in Agents /\ proc \in [Agents -> Procs]
    BY DEF Agents, Inv, TypeOK, Procs, Ops, Pcs
  <1>2. /\ proc' \in [Agents -> Procs]
        /\ \A a \in Agents : proc'[a] = IF a = t THEN q ELSE proc[a]
    BY <1>1
  <1>3. TypeOK'
    BY <1>2 DEF Inv, TypeOK, disk, Procs, Ops, Pcs
  <1>4. ProcOK'
    <2> SUFFICES ASSUME NEW a \in Agents, proc'[a] # Idle
                 PROVE  /\ proc'[a].job \in Jobs
                        /\ row'[proc'[a].job].status # "none"
                        /\ proc'[a].seen # "none"
                        /\ proc'[a].pc # "idle"
      BY DEF ProcOK
    <2>1. row' = row
      BY DEF disk
    <2>2. CASE a = t
      BY <1>2, <2>1, <2>2
    <2>3. CASE a # t
      BY <1>2, <2>1, <2>3 DEF Inv, ProcOK
    <2> QED
      BY <2>2, <2>3
  <1>5. RowOK' /\ QueueOK' /\ CountOK'
    BY DEF Inv, RowOK, QueueOK, CountOK, disk
  <1> QED
    BY <1>3, <1>4, <1>5 DEF Inv

\* Requests: a clone enters the table and the queue together.
LEMMA RequestKeepsInv ==
  ASSUME Inv, Request
  PROVE  Inv'
  <1>o. OthersOK /\ row \in [Jobs -> Rows] /\ proc \in [Agents -> Procs]
    BY DEF Inv, TypeOK, OthersOK, Rows, Procs, Ops, Pcs
  <1>1. ASSUME NEW t \in Threads, NEW j \in Jobs, CancelRead(t, j)
        PROVE  Inv'
    <2> DEFINE q == [op |-> "cancel", job |-> j, pc |-> "flag",
                     seen |-> row[j].status]
    <2>1. row[j].status \in Statuses /\ row[j].status # "none"
      BY <1>1, <1>o DEF CancelRead, Rows
    <2>2. /\ q \in Procs
          /\ q.job = j
          /\ q.seen = row[j].status
          /\ q.pc = "flag"
      BY <2>1 DEF Procs, Ops, Pcs
    <2>3. /\ proc' = [proc EXCEPT ![t] = q]
          /\ UNCHANGED <<daemon, boot, disk, queue, executed, swallowed, orphaned>>
      BY <1>1 DEF CancelRead
    <2> HIDE DEF q
    <2> QED
      BY Zenon, <2>1, <2>2, <2>3, CallKeepsInv
  <1>2. ASSUME NEW t \in Threads, NEW j \in Jobs, ActivateBegin(t, j)
        PROVE  Inv'
    <2> DEFINE q == [op |-> "activate", job |-> j, pc |-> "check",
                     seen |-> "staged"]
    <2>1. row[j].status # "none"
      BY <1>2 DEF ActivateBegin
    <2>2. /\ q \in Procs
          /\ q.job = j
          /\ q.seen = "staged"
          /\ q.pc = "check"
      BY DEF Procs, Ops, Pcs, BuildSteps, Statuses
    <2>3. /\ proc' = [proc EXCEPT ![t] = q]
          /\ UNCHANGED <<daemon, boot, disk, queue, executed, swallowed, orphaned>>
      BY <1>2 DEF ActivateBegin
    <2> HIDE DEF q
    <2> QED
      BY Zenon, <2>1, <2>2, <2>3, CallKeepsInv
  <1>3. ASSUME NEW j \in Jobs, NEW tgt \in Targets, Clone(j, tgt)
        PROVE  Inv'
    <2> DEFINE r == [status |-> "queued", target |-> tgt, cancel |-> FALSE]
    <2>1. /\ r \in Rows
          /\ r.status = "queued"
          /\ r.target = tgt
      BY DEF Rows, Statuses, InFlight
    <2>2. /\ row' \in [Jobs -> Rows]
          /\ \A k \in Jobs : row'[k] = IF k = j THEN r ELSE row[k]
          /\ row[j].status = "none"
      BY <1>3, <1>o, <2>1 DEF Clone
    <2> HIDE DEF r
    <2>3. queue \in Seq(Jobs) /\ executed \in [Jobs -> Nat]
      BY DEF Inv, TypeOK
    <2>4. /\ queue' = Append(queue, j)
          /\ UNCHANGED <<daemon, boot, dirs, up, conf, proc, executed,
                         swallowed, orphaned>>
      BY <1>3 DEF Clone
    <2>5. /\ queue' \in Seq(Jobs)
          /\ Len(queue) \in Nat
          /\ Len(queue') = Len(queue) + 1
          /\ \A i \in 1 .. Len(queue) : queue'[i] = queue[i]
          /\ queue'[Len(queue) + 1] = j
      BY <2>3, <2>4
    <2>6. TypeOK'
      BY <2>2, <2>4, <2>5 DEF Inv, TypeOK, Rows
    <2>7. ProcOK'
      BY <2>1, <2>2, <2>4 DEF Inv, ProcOK
    <2>8. RowOK'
      BY <2>1, <2>2 DEF Inv, RowOK
    <2>9. executed[j] = 0
      BY <2>2 DEF Inv, CountOK
    <2>10. QueueOK'
      <3>1. \A i \in 1 .. Len(queue) : queue[i] # j /\ queue[i] \in Jobs
        BY <2>2, <2>3 DEF Inv, QueueOK
      <3>2. \A i \in 1 .. Len(queue') : i \in 1 .. Len(queue) \/ i = Len(queue) + 1
        BY <2>5
      <3>3. \A i \in 1 .. Len(queue') : /\ executed'[queue'[i]] = 0
                                       /\ row'[queue'[i]].status # "none"
        BY <2>1, <2>2, <2>4, <2>5, <2>9, <3>1, <3>2 DEF Inv, QueueOK
      <3>4. \A i, k \in 1 .. Len(queue') : queue'[i] = queue'[k] => i = k
        BY <2>5, <3>1, <3>2 DEF Inv, QueueOK
      <3> QED
        BY <3>3, <3>4 DEF QueueOK
    <2>11. CountOK'
      BY <2>1, <2>2, <2>4, <2>9 DEF Inv, CountOK
    <2> QED
      BY <2>6, <2>7, <2>8, <2>10, <2>11 DEF Inv
  <1> QED
    BY <1>1, <1>2, <1>3 DEF Request

\* A crash empties the threads and the queue.
LEMMA CrashKeepsInv ==
  ASSUME Inv, Crash
  PROVE  Inv'
  <1>1. Idle \in Procs
    BY DEF Idle, Procs, Ops, Pcs, Statuses
  <1>2. /\ proc' = [a \in Agents |-> Idle]
        /\ queue' = <<>>
        /\ UNCHANGED <<row, dirs, up, conf, executed, swallowed>>
        /\ daemon' = "down"
        /\ boot' = {}
        /\ orphaned' \subseteq Jobs
    BY DEF Crash, disk, Inv, TypeOK
  <1>3. TypeOK'
    BY <1>1, <1>2 DEF Inv, TypeOK, Procs, Ops, Pcs
  <1>4. ProcOK' /\ RowOK' /\ CountOK'
    BY <1>2 DEF Inv, ProcOK, RowOK, CountOK
  <1>5. QueueOK'
    BY <1>2 DEF QueueOK
  <1> QED
    BY <1>3, <1>4, <1>5 DEF Inv

\* A start changes statuses only, and only to interrupted.
LEMMA BootKeepsInv ==
  ASSUME Inv, Boot
  PROVE  Inv'
  <1>o. OthersOK /\ row \in [Jobs -> Rows] /\ proc \in [Agents -> Procs]
    BY DEF Inv, TypeOK, OthersOK, Rows, Procs, Ops, Pcs
  <1>p. ASSUME proc' = proc PROVE ProcsKept
    BY <1>o, <1>p DEF ProcsKept
  <1>1. CASE BootMark
    <2>1. \A j \in Jobs : row[j].status \in InFlight =>
              [s \in InFlight |-> "interrupted"][row[j].status] = "interrupted"
      OBVIOUS
    <2>2. row' = [j \in Jobs |-> IF row[j].status \in InFlight
                                THEN [row[j] EXCEPT !.status = "interrupted"]
                                ELSE row[j]]
      BY <1>1, <1>o, <2>1 DEF BootMark, BootRows, Rows
    <2>3. \A j \in Jobs :
             LET r == [row[j] EXCEPT !.status = "interrupted"]
             IN  r \in Rows /\ r.status = "interrupted"
                 /\ r.target = row[j].target
      BY <1>o DEF Rows, Statuses
    <2>4. row' \in [Jobs -> Rows]
      BY <1>o, <2>2, <2>3
    <2>5. RowsKept
      BY <2>2, <2>3 DEF RowsKept, InFlight
    <2>6. OthersOK'
      BY <1>1, <1>o DEF BootMark, OthersOK
    <2> QED
      BY <1>1, <1>p, <2>4, <2>5, <2>6, LocalStepKeepsInv DEF BootMark
  <1>2. CASE BootStop
    <2>1. OthersOK'
      BY <1>2, <1>o DEF BootStop, OthersOK
    <2> QED
      BY <1>2, <1>p, <2>1, RowUnchanged, LocalStepKeepsInv DEF BootStop
  <1>3. CASE BootServe
    <2>1. OthersOK'
      BY <1>3, <1>o DEF BootServe, OthersOK, disk
    <2> QED
      BY <1>3, <1>p, <2>1, RowUnchanged, LocalStepKeepsInv DEF BootServe, disk
  <1> QED
    BY <1>1, <1>2, <1>3 DEF Boot

\* No step of the operator disturbs it.
LEMMA StepKeepsInv == Inv /\ [Next]_vars => Inv'
  <1> SUFFICES ASSUME Inv, [Next]_vars PROVE Inv'
    OBVIOUS
  <1>1. CASE Crash
    BY <1>1, CrashKeepsInv
  <1>2. CASE Boot
    BY <1>2, BootKeepsInv
  <1>3. CASE WorkerStep
    BY <1>3, WorkerStepKeepsInv
  <1>4. CASE Request
    BY <1>4, RequestKeepsInv
  <1>5. CASE \E t \in Threads : ThreadStep(t)
    BY <1>5, ThreadStepKeepsInv
  <1>6. CASE UNCHANGED vars
    BY <1>6 DEF vars, disk, Inv, TypeOK, ProcOK, RowOK, QueueOK, CountOK
  <1> QED
    BY <1>1, <1>2, <1>3, <1>4, <1>5, <1>6 DEF Next

\* The inductive invariant: the types, and the agreement of the threads, the
\* table, the queue and the number of executions.
THEOREM OperatorInvariant == Spec => []Inv
  BY StepKeepsInv, InitInv, PTL DEF Spec

\* Type correctness of the operator.
THEOREM TypeCorrect == Spec => []TypeOK
  BY OperatorInvariant, PTL DEF Inv

\* "Never automatically replay an interrupted DB mutation": execute begins at
\* most once on a job, for every set of jobs, targets and threads, and however
\* often the daemon crashes and requests are repeated.
THEOREM ExecutedOnceHolds == Spec => []ExecutedOnce
  <1>1. Inv => ExecutedOnce
    BY DEF Inv, CountOK, ExecutedOnce
  <1> QED
    BY <1>1, OperatorInvariant, PTL

-----------------------------------------------------------------------------
(* What ended is down.                                                        *)

\* Container x has been stopped by a thread that is at pc.
Past(x, pc) ==
    \/ pc \in {"look", "unlink", "unreload", "settle", "record"}
    \/ x = "app" /\ pc \in {"stopWeb", "stopDeps"}
    \/ x = "web" /\ pc = "stopDeps"

\* The activation of job j may have started x and will stop it, or publish and
\* will unpublish, unless it finishes: then no cancel has marked the row.
Activates(t, j) == proc[t].op = "activate" /\ proc[t].job = j
Starts(x, j) ==
    \E t \in Threads : Activates(t, j) /\ proc[t].pc # "finish" /\ ~Past(x, proc[t].pc)
Publishes(j) ==
    \E t \in Threads : Activates(t, j) /\ proc[t].pc \notin {"finish", "unreload", "settle"}

\* A cancel that found the job stopped or running stops it.
Cancels(t, j) == proc[t].op = "cancel" /\ proc[t].job = j /\ proc[t].seen \in StoppedByCancel

\* The calls of the threads; a daemon that is not up has none.
CallsOK ==
    /\ daemon # "up" => queue = <<>> /\ \A a \in Agents : proc[a].op = "none"
    /\ boot # {} => daemon = "starting"
    /\ \A a \in Agents : proc[a].op = "none" <=> proc[a].job = NoJob
    /\ proc[Worker].op \in {"none", "execute"}
    /\ proc[Worker].op = "execute" =>
          \/ proc[Worker].pc \in BuildSteps \cup {"record"} /\ proc[Worker].seen = "staged"
          \/ proc[Worker].pc \in StopSteps \cup {"record"}
             /\ proc[Worker].seen \in {"failed", "cancelled"}
    /\ \A t \in Threads :
          /\ proc[t].op \in {"none", "cancel", "activate"}
          /\ proc[t].op = "cancel" =>
                \/ proc[t].pc = "flag"
                \/ /\ proc[t].pc \in StopSteps \cup UnpublishSteps \cup {"settle"}
                   /\ proc[t].seen \in StoppedByCancel
          /\ proc[t].op = "activate" =>
                proc[t].pc \in ActivateSteps \cup StopSteps \cup UnpublishSteps \cup {"settle"}
    /\ \A t, u \in Threads : proc[t].op = "activate" /\ proc[u].op = "activate" => t = u

\* A job nobody has taken has nothing.
WaitingOK(j) ==
    /\ row[j].status \in {"none", "queued"} => up[j] = {} /\ j \notin conf
    /\ \A i \in 1 .. Len(queue) : queue[i] = j => row[j].status = "queued"

\* The copy of a job is running, and only its dependencies are.
BuildingOK(j) ==
    proc[Worker].job = j =>
        /\ row[j].status = "running" /\ j \notin conf /\ up[j] \subseteq {"deps"}
        /\ proc[Worker].pc \in {"check", "mkdir", "deps"} => up[j] = {}
        /\ proc[Worker].pc = "record" /\ proc[Worker].seen # "staged" => up[j] = {}
        /\ proc[Worker].seen = "cancelled" => row[j].cancel

\* Activations and effective cancels work on jobs whose copy is over.
LateOK(j) ==
    \A t \in Threads :
        /\ Activates(t, j) => row[j].status \in {"staged", "activating", "cancelled"}
        /\ Cancels(t, j) => row[j].status \in StoppedByCancel \cup {"activating", "cancelled"}

\* What a thread has stopped is down, or the activation is not through with it.
StoppingOK(j) ==
    \A t \in Threads :
        proc[t].job = j /\ (Activates(t, j) \/ proc[t].pc # "flag") =>
            /\ proc[t].op = "cancel" => row[j].cancel
            /\ \A x \in Parts : Past(x, proc[t].pc) => x \notin up[j] \/ Starts(x, j)
            /\ proc[t].pc \in {"unreload", "settle"} => j \notin conf \/ Publishes(j)

\* A job that has ended is down, but for those two exceptions.
EndingOK(j) ==
    /\ row[j].status = "failed" => up[j] = {} /\ j \notin conf
    /\ row[j].status = "interrupted" => j \in boot \/ up[j] = {}
    /\ row[j].status = "cancelled" => row[j].cancel
    /\ row[j].status \in {"cancelled", "activation_failed"} =>
          /\ \A x \in up[j] : Starts(x, j)
          /\ j \notin conf \/ Publishes(j)

JobOK(j) == WaitingOK(j) /\ BuildingOK(j) /\ LateOK(j) /\ StoppingOK(j) /\ EndingOK(j)

\* The inductive invariant of EndedIsDown.
DownInv == CallsOK /\ \A j \in Jobs \ (swallowed \cup orphaned) : JobOK(j)

\* What a change of the program counter changes.
LEMMA GotoFields ==
  ASSUME Inv, NEW a \in Agents, NEW pc, Goto(a, pc)
  PROVE  /\ proc'[a].pc = pc /\ proc'[a].op = proc[a].op
         /\ proc'[a].job = proc[a].job /\ proc'[a].seen = proc[a].seen
         /\ \A b \in Agents \ {a} : proc'[b] = proc[b]
  BY DEF Inv, TypeOK, Goto

\* What the end of a call changes.
LEMMA ReturnFields ==
  ASSUME Inv, NEW a \in Agents, Return(a)
  PROVE  /\ proc'[a].op = "none" /\ proc'[a].job = NoJob /\ proc'[a].pc = "idle"
         /\ \A b \in Agents \ {a} : proc'[b] = proc[b]
  BY DEF Inv, TypeOK, Return, Idle

\* What an UPDATE of a status changes.
LEMMA StatusFields ==
  ASSUME Inv, NEW j \in Jobs, NEW s, SetStatus(j, s)
  PROVE  /\ row'[j].status = s /\ row'[j].cancel = row[j].cancel
         /\ \A k \in Jobs \ {j} : row'[k] = row[k]
  BY DEF Inv, TypeOK, SetStatus

\* The job of a thread that is at work.
LEMMA BusyThread ==
  ASSUME Inv, DownInv, NEW a \in Agents, proc[a].op # "none"
  PROVE  proc[a].job \in Jobs /\ proc[a].job # NoJob
  BY NoneOutside DEF Inv, ProcOK, Idle

\* A step that leaves a job, its threads and its place in the queue alone
\* leaves what is known of it.
LEMMA OtherJobs ==
  ASSUME Inv, NEW j \in Jobs, JobOK(j), NEW a \in Agents,
         \A b \in Agents \ {a} : proc'[b] = proc[b],
         proc[a].job # j, proc'[a].job # j,
         row'[j] = row[j], up'[j] = up[j], j \in conf' <=> j \in conf,
         \A i \in 1 .. Len(queue') : queue'[i] = j => \E k \in 1 .. Len(queue) : queue[k] = j,
         j \in boot => j \in boot'
  PROVE  JobOK(j)'
  <1>1. Worker \in Agents /\ \A t \in Threads : t \in Agents
    BY DEF Agents
  <1>2. \A t \in Threads : (Activates(t, j) <=> Activates(t, j)') /\ (Cancels(t, j) <=> Cancels(t, j)')
    BY <1>1 DEF Activates, Cancels
  <1>3. \A x \in Parts : Starts(x, j) <=> Starts(x, j)'
    BY <1>1, <1>2 DEF Starts, Activates
  <1>4. Publishes(j) <=> Publishes(j)'
    BY <1>1, <1>2 DEF Publishes, Activates
  <1>5. up[j] \subseteq Parts
    BY DEF Inv, TypeOK
  <1>6. WaitingOK(j)' /\ BuildingOK(j)'
    BY <1>1 DEF JobOK, WaitingOK, BuildingOK
  <1>7. LateOK(j)'
    BY <1>2 DEF JobOK, LateOK
  <1>8. StoppingOK(j)'
    BY <1>1, <1>2, <1>3, <1>4 DEF JobOK, StoppingOK
  <1>9. EndingOK(j)'
    BY <1>3, <1>4, <1>5 DEF JobOK, EndingOK
  <1> QED
    BY <1>6, <1>7, <1>8, <1>9 DEF JobOK

\* Without a route file there is nothing to unpublish.
LEMMA UnpublishLookDown ==
  ASSUME Inv, DownInv, NEW t \in Threads, UnpublishLook(t)
  PROVE  DownInv'
  <1> DEFINE j == proc[t].job
  <1>1. t \in Agents /\ t # Worker /\ (\A u \in Threads : u \in Agents) /\ Worker \in Agents
    BY AgentsDistinct DEF Agents
  <1>2. /\ proc[t].op \in {"cancel", "activate"} /\ proc[t].pc = "look"
    BY <1>1, NoneOutside DEF CallsOK, DownInv, Inv, ProcOK, Idle, UnpublishLook, At, BuildSteps,
        ActivateSteps, StopSteps, UnpublishSteps
  <1>3. j \in Jobs /\ j # NoJob
    BY <1>1, <1>2, BusyThread
  <1>4. /\ \A b \in Agents \ {t} : proc'[b] = proc[b]
        /\ proc'[t].op = proc[t].op /\ proc'[t].job = j /\ proc'[t].seen = proc[t].seen
        /\ proc'[t].pc = IF j \in conf THEN "unlink" ELSE "settle"
    BY <1>1, <1>2, GotoFields, ReturnFields DEF UnpublishLook, At
  <1>5. /\ TRUE
        /\ UNCHANGED <<daemon, boot, row, dirs, up, conf, queue, executed, swallowed, orphaned>>
    BY <1>2, <1>3, StatusFields DEF UnpublishLook, At, disk, Inv, TypeOK
  <1> HIDE DEF j
  <1>6. CallsOK'
    BY <1>1, <1>2, <1>3, <1>4, <1>5 DEF DownInv, CallsOK, BuildSteps, ActivateSteps, StopSteps,
        UnpublishSteps, j
  <1>7. SUFFICES ASSUME NEW k \in Jobs \ (swallowed' \cup orphaned') PROVE JobOK(k)'
    BY <1>6 DEF DownInv
  <1>8. JobOK(k) /\ CallsOK
    BY <1>5 DEF DownInv
  <1>9. CASE k # j
    BY <1>1, <1>3, <1>4, <1>5, <1>8, <1>9, NoneOutside, OtherJobs DEF j
  <1>10. CASE k = j
    <2>1. WaitingOK(k)' /\ BuildingOK(k)'
      BY <1>1, <1>2, <1>3, <1>4, <1>5, <1>8, <1>10 DEF JobOK, WaitingOK, BuildingOK, LateOK,
          Activates, Cancels, CallsOK, StoppedByCancel, j
    <2>2. LateOK(k)'
      BY <1>1, <1>2, <1>3, <1>4, <1>5, <1>8, <1>10 DEF JobOK, LateOK, Activates, Cancels, CallsOK,
          StoppedByCancel, j
    <2>3. StoppingOK(k)'
      BY <1>1, <1>2, <1>3, <1>4, <1>5, <1>8, <1>10 DEF JobOK, StoppingOK, Activates, Starts,
          Publishes, Past, CallsOK, StopSteps, UnpublishSteps, Parts, j
    <2>4. EndingOK(k)'
      BY SMTT(60), <1>1, <1>2, <1>3, <1>4, <1>5, <1>8, <1>10 DEF JobOK, EndingOK, LateOK, StoppingOK,
          Activates, Cancels, Starts, Publishes, Past, CallsOK, StopSteps, Parts, StoppedByCancel,
          j
    <2> QED BY <2>1, <2>2, <2>3, <2>4 DEF JobOK
  <1> QED BY <1>9, <1>10

\* The route file is removed.
LEMMA UnpublishUnlinkDown ==
  ASSUME Inv, DownInv, NEW t \in Threads, UnpublishUnlink(t)
  PROVE  DownInv'
  <1> DEFINE j == proc[t].job
  <1>1. t \in Agents /\ t # Worker /\ (\A u \in Threads : u \in Agents) /\ Worker \in Agents
    BY AgentsDistinct DEF Agents
  <1>2. /\ proc[t].op \in {"cancel", "activate"} /\ proc[t].pc = "unlink"
    BY <1>1, NoneOutside DEF CallsOK, DownInv, Inv, ProcOK, Idle, UnpublishUnlink, At, BuildSteps,
        ActivateSteps, StopSteps, UnpublishSteps
  <1>3. j \in Jobs /\ j # NoJob
    BY <1>1, <1>2, BusyThread
  <1>4. /\ \A b \in Agents \ {t} : proc'[b] = proc[b]
        /\ proc'[t].op = proc[t].op /\ proc'[t].job = j /\ proc'[t].seen = proc[t].seen
        /\ proc'[t].pc = "unreload"
    BY <1>1, <1>2, GotoFields, ReturnFields DEF UnpublishUnlink, At
  <1>5. /\ conf' = conf \ {j}
        /\ UNCHANGED <<daemon, boot, row, dirs, up, queue, executed, swallowed, orphaned>>
    BY <1>2, <1>3, StatusFields DEF UnpublishUnlink, At, disk, Inv, TypeOK
  <1> HIDE DEF j
  <1>6. CallsOK'
    BY <1>1, <1>2, <1>3, <1>4, <1>5 DEF DownInv, CallsOK, BuildSteps, ActivateSteps, StopSteps,
        UnpublishSteps, j
  <1>7. SUFFICES ASSUME NEW k \in Jobs \ (swallowed' \cup orphaned') PROVE JobOK(k)'
    BY <1>6 DEF DownInv
  <1>8. JobOK(k) /\ CallsOK
    BY <1>5 DEF DownInv
  <1>9. CASE k # j
    BY <1>1, <1>3, <1>4, <1>5, <1>8, <1>9, NoneOutside, OtherJobs DEF j
  <1>10. CASE k = j
    <2>1. WaitingOK(k)' /\ BuildingOK(k)'
      BY <1>1, <1>2, <1>3, <1>4, <1>5, <1>8, <1>10 DEF JobOK, WaitingOK, BuildingOK, LateOK,
          Activates, Cancels, CallsOK, StoppedByCancel, j
    <2>2. LateOK(k)'
      BY <1>1, <1>2, <1>3, <1>4, <1>5, <1>8, <1>10 DEF JobOK, LateOK, Activates, Cancels, CallsOK,
          StoppedByCancel, j
    <2>3. StoppingOK(k)'
      BY <1>1, <1>2, <1>3, <1>4, <1>5, <1>8, <1>10 DEF JobOK, StoppingOK, Activates, Starts,
          Publishes, Past, CallsOK, StopSteps, UnpublishSteps, Parts, j
    <2>4. EndingOK(k)'
      BY SMTT(60), <1>1, <1>2, <1>3, <1>4, <1>5, <1>8, <1>10 DEF JobOK, EndingOK, LateOK, StoppingOK,
          Activates, Cancels, Starts, Publishes, Past, CallsOK, StopSteps, Parts, StoppedByCancel,
          j
    <2> QED BY <2>1, <2>2, <2>3, <2>4 DEF JobOK
  <1> QED BY <1>9, <1>10

\* nginx is reloaded.
LEMMA UnpublishReloadDown ==
  ASSUME Inv, DownInv, NEW t \in Threads, UnpublishReload(t)
  PROVE  DownInv'
  <1> DEFINE j == proc[t].job
  <1>1. t \in Agents /\ t # Worker /\ (\A u \in Threads : u \in Agents) /\ Worker \in Agents
    BY AgentsDistinct DEF Agents
  <1>2. /\ proc[t].op \in {"cancel", "activate"} /\ proc[t].pc = "unreload"
    BY <1>1, NoneOutside DEF CallsOK, DownInv, Inv, ProcOK, Idle, UnpublishReload, At, BuildSteps,
        ActivateSteps, StopSteps, UnpublishSteps
  <1>3. j \in Jobs /\ j # NoJob
    BY <1>1, <1>2, BusyThread
  <1>4. /\ \A b \in Agents \ {t} : proc'[b] = proc[b]
        /\ proc'[t].op = proc[t].op /\ proc'[t].job = j /\ proc'[t].seen = proc[t].seen
        /\ proc'[t].pc = "settle"
    BY <1>1, <1>2, GotoFields, ReturnFields DEF UnpublishReload, At
  <1>5. /\ TRUE
        /\ UNCHANGED <<daemon, boot, row, dirs, up, conf, queue, executed, swallowed, orphaned>>
    BY <1>2, <1>3, StatusFields DEF UnpublishReload, At, disk, Inv, TypeOK
  <1> HIDE DEF j
  <1>6. CallsOK'
    BY <1>1, <1>2, <1>3, <1>4, <1>5 DEF DownInv, CallsOK, BuildSteps, ActivateSteps, StopSteps,
        UnpublishSteps, j
  <1>7. SUFFICES ASSUME NEW k \in Jobs \ (swallowed' \cup orphaned') PROVE JobOK(k)'
    BY <1>6 DEF DownInv
  <1>8. JobOK(k) /\ CallsOK
    BY <1>5 DEF DownInv
  <1>9. CASE k # j
    BY <1>1, <1>3, <1>4, <1>5, <1>8, <1>9, NoneOutside, OtherJobs DEF j
  <1>10. CASE k = j
    <2>1. WaitingOK(k)' /\ BuildingOK(k)'
      BY <1>1, <1>2, <1>3, <1>4, <1>5, <1>8, <1>10 DEF JobOK, WaitingOK, BuildingOK, LateOK,
          Activates, Cancels, CallsOK, StoppedByCancel, j
    <2>2. LateOK(k)'
      BY <1>1, <1>2, <1>3, <1>4, <1>5, <1>8, <1>10 DEF JobOK, LateOK, Activates, Cancels, CallsOK,
          StoppedByCancel, j
    <2>3. StoppingOK(k)'
      BY <1>1, <1>2, <1>3, <1>4, <1>5, <1>8, <1>10 DEF JobOK, StoppingOK, Activates, Starts,
          Publishes, Past, CallsOK, StopSteps, UnpublishSteps, Parts, j
    <2>4. EndingOK(k)'
      BY SMTT(60), <1>1, <1>2, <1>3, <1>4, <1>5, <1>8, <1>10 DEF JobOK, EndingOK, LateOK, StoppingOK,
          Activates, Cancels, Starts, Publishes, Past, CallsOK, StopSteps, Parts, StoppedByCancel,
          j
    <2> QED BY <2>1, <2>2, <2>3, <2>4 DEF JobOK
  <1> QED BY <1>9, <1>10

\* A cancel ends with everything stopped, or with an activation that will.
LEMMA CancelSettleDown ==
  ASSUME Inv, DownInv, NEW t \in Threads, CancelSettle(t)
  PROVE  DownInv'
  <1> DEFINE j == proc[t].job
  <1>1. t \in Agents /\ t # Worker /\ (\A u \in Threads : u \in Agents) /\ Worker \in Agents
    BY AgentsDistinct DEF Agents
  <1>2. /\ proc[t].op = "cancel" /\ proc[t].pc = "settle"
    BY <1>1, NoneOutside DEF CallsOK, DownInv, Inv, ProcOK, Idle, CancelSettle, At, BuildSteps,
        ActivateSteps, StopSteps, UnpublishSteps
  <1>3. j \in Jobs /\ j # NoJob
    BY <1>1, <1>2, BusyThread
  <1>4. /\ \A b \in Agents \ {t} : proc'[b] = proc[b]
        /\ proc'[t].op = "none" /\ proc'[t].job = NoJob
    BY <1>1, <1>2, GotoFields, ReturnFields DEF CancelSettle, At
  <1>5. /\ row'[j].status = "cancelled" /\ row'[j].cancel = row[j].cancel
        /\ \A k \in Jobs \ {j} : row'[k] = row[k]
        /\ UNCHANGED <<daemon, boot, dirs, up, conf, queue, executed, swallowed, orphaned>>
    BY <1>2, <1>3, StatusFields DEF CancelSettle, At, disk, Inv, TypeOK
  <1> HIDE DEF j
  <1>6. CallsOK'
    BY <1>1, <1>2, <1>3, <1>4, <1>5 DEF DownInv, CallsOK, BuildSteps, ActivateSteps, StopSteps,
        UnpublishSteps, j
  <1>7. SUFFICES ASSUME NEW k \in Jobs \ (swallowed' \cup orphaned') PROVE JobOK(k)'
    BY <1>6 DEF DownInv
  <1>8. JobOK(k) /\ CallsOK
    BY <1>5 DEF DownInv
  <1>9. CASE k # j
    BY <1>1, <1>3, <1>4, <1>5, <1>8, <1>9, NoneOutside, OtherJobs DEF j
  <1>10. CASE k = j
    <2>1. WaitingOK(k)' /\ BuildingOK(k)'
      BY <1>1, <1>2, <1>3, <1>4, <1>5, <1>8, <1>10 DEF JobOK, WaitingOK, BuildingOK, LateOK,
          Activates, Cancels, CallsOK, StoppedByCancel, j
    <2>2. LateOK(k)'
      BY <1>1, <1>2, <1>3, <1>4, <1>5, <1>8, <1>10 DEF JobOK, LateOK, Activates, Cancels, CallsOK,
          StoppedByCancel, j
    <2>3. StoppingOK(k)'
      BY SMTT(60), <1>1, <1>2, <1>3, <1>4, <1>5, <1>8, <1>10 DEF JobOK, StoppingOK, Activates, Starts,
          Publishes, Past, CallsOK, StopSteps, UnpublishSteps, Parts, j
    <2>4. ASSUME NEW x \in up[k] PROVE Starts(x, k)'
      <3>0. x \in Parts /\ x \in up[k]
        BY DEF Inv, TypeOK
      <3>1. Starts(x, k)
        BY <1>1, <1>2, <1>8, <1>10, <3>0 DEF JobOK, StoppingOK, Past, Activates, j
      <3>2. PICK u \in Threads : Activates(u, k) /\ proc[u].pc # "finish" /\ ~Past(x, proc[u].pc)
        BY <3>1 DEF Starts
      <3>3. u # t
        BY <1>2, <3>2 DEF Past
      <3> QED BY <1>1, <1>4, <3>2, <3>3 DEF Starts, Activates
    <2>5. k \notin conf \/ Publishes(k)'
      <3> SUFFICES ASSUME k \in conf PROVE Publishes(k)'
        OBVIOUS
      <3>1. Publishes(k)
        BY <1>1, <1>2, <1>8, <1>10 DEF JobOK, StoppingOK, Activates, j
      <3>2. PICK u \in Threads : Activates(u, k) /\ proc[u].pc \notin {"finish", "unreload", "settle"}
        BY <3>1 DEF Publishes
      <3>3. u # t
        BY <1>2, <3>2
      <3> QED BY <1>1, <1>4, <3>2, <3>3 DEF Publishes, Activates
    <2>6. row[j].cancel \/ proc[t].op = "activate"
      BY <1>1, <1>2, <1>3, <1>8, <1>10 DEF JobOK, StoppingOK, Inv, TypeOK, j
    <2>8. EndingOK(k)'
      BY <1>2, <1>5, <1>10, <2>4, <2>5, <2>6 DEF EndingOK
    <2> QED BY <2>1, <2>2, <2>3, <2>8 DEF JobOK
  <1> QED BY <1>9, <1>10

\* The row turns activating.
LEMMA ActivateMarkDown ==
  ASSUME Inv, DownInv, NEW t \in Threads, ActivateMark(t)
  PROVE  DownInv'
  <1> DEFINE j == proc[t].job
  <1>1. t \in Agents /\ t # Worker /\ (\A u \in Threads : u \in Agents) /\ Worker \in Agents
    BY AgentsDistinct DEF Agents
  <1>2. /\ proc[t].op = "activate" /\ proc[t].pc = "mark"
    BY <1>1, NoneOutside DEF CallsOK, DownInv, Inv, ProcOK, Idle, ActivateMark, At, BuildSteps,
        ActivateSteps, StopSteps, UnpublishSteps
  <1>3. j \in Jobs /\ j # NoJob
    BY <1>1, <1>2, BusyThread
  <1>4. /\ \A b \in Agents \ {t} : proc'[b] = proc[b]
        /\ proc'[t].op = proc[t].op /\ proc'[t].job = j /\ proc'[t].seen = proc[t].seen
        /\ proc'[t].pc = "start"
    BY <1>1, <1>2, GotoFields, ReturnFields DEF ActivateMark, At
  <1>5. /\ row'[j].status = "activating" /\ row'[j].cancel = row[j].cancel
        /\ \A k \in Jobs \ {j} : row'[k] = row[k]
        /\ UNCHANGED <<daemon, boot, dirs, up, conf, queue, executed, swallowed, orphaned>>
    BY <1>2, <1>3, StatusFields DEF ActivateMark, At, disk, Inv, TypeOK
  <1> HIDE DEF j
  <1>6. CallsOK'
    BY <1>1, <1>2, <1>3, <1>4, <1>5 DEF DownInv, CallsOK, BuildSteps, ActivateSteps, StopSteps,
        UnpublishSteps, j
  <1>7. SUFFICES ASSUME NEW k \in Jobs \ (swallowed' \cup orphaned') PROVE JobOK(k)'
    BY <1>6 DEF DownInv
  <1>8. JobOK(k) /\ CallsOK
    BY <1>5 DEF DownInv
  <1>9. CASE k # j
    BY <1>1, <1>3, <1>4, <1>5, <1>8, <1>9, NoneOutside, OtherJobs DEF j
  <1>10. CASE k = j
    <2>1. WaitingOK(k)' /\ BuildingOK(k)'
      BY <1>1, <1>2, <1>3, <1>4, <1>5, <1>8, <1>10 DEF JobOK, WaitingOK, BuildingOK, LateOK,
          Activates, Cancels, CallsOK, StoppedByCancel, j
    <2>2. LateOK(k)'
      BY <1>1, <1>2, <1>3, <1>4, <1>5, <1>8, <1>10 DEF JobOK, LateOK, Activates, Cancels, CallsOK,
          StoppedByCancel, j
    <2>3. StoppingOK(k)'
      BY <1>1, <1>2, <1>3, <1>4, <1>5, <1>8, <1>10 DEF JobOK, StoppingOK, Activates, Starts,
          Publishes, Past, CallsOK, StopSteps, UnpublishSteps, Parts, j
    <2>4. EndingOK(k)'
      BY <1>1, <1>2, <1>3, <1>4, <1>5, <1>8, <1>10 DEF JobOK, EndingOK, LateOK, StoppingOK,
          Activates, Cancels, Starts, Publishes, Past, CallsOK, StopSteps, Parts, StoppedByCancel,
          j
    <2> QED BY <2>1, <2>2, <2>3, <2>4 DEF JobOK
  <1> QED BY <1>9, <1>10

\* The app is started by the activation, which will stop it or finish.
LEMMA ActivateStartDown ==
  ASSUME Inv, DownInv, NEW t \in Threads, ActivateStart(t)
  PROVE  DownInv'
  <1> DEFINE j == proc[t].job
  <1>1. t \in Agents /\ t # Worker /\ (\A u \in Threads : u \in Agents) /\ Worker \in Agents
    BY AgentsDistinct DEF Agents
  <1>2. /\ proc[t].op = "activate" /\ proc[t].pc = "start"
    BY <1>1, NoneOutside DEF CallsOK, DownInv, Inv, ProcOK, Idle, ActivateStart, At, BuildSteps,
        ActivateSteps, StopSteps, UnpublishSteps
  <1>3. j \in Jobs /\ j # NoJob
    BY <1>1, <1>2, BusyThread
  <1>4. /\ \A b \in Agents \ {t} : proc'[b] = proc[b]
        /\ proc'[t].op = proc[t].op /\ proc'[t].job = j /\ proc'[t].seen = proc[t].seen
        /\ proc'[t].pc = "health"
    BY <1>1, <1>2, GotoFields, ReturnFields DEF ActivateStart, At
  <1>5. /\ up'[j] = up[j] \cup {"app"} /\ \A k \in Jobs \ {j} : up'[k] = up[k]
        /\ UNCHANGED <<daemon, boot, row, dirs, conf, queue, executed, swallowed, orphaned>>
    BY <1>2, <1>3, StatusFields DEF ActivateStart, At, disk, Inv, TypeOK
  <1> HIDE DEF j
  <1>6. CallsOK'
    BY <1>1, <1>2, <1>3, <1>4, <1>5 DEF DownInv, CallsOK, BuildSteps, ActivateSteps, StopSteps,
        UnpublishSteps, j
  <1>7. SUFFICES ASSUME NEW k \in Jobs \ (swallowed' \cup orphaned') PROVE JobOK(k)'
    BY <1>6 DEF DownInv
  <1>8. JobOK(k) /\ CallsOK
    BY <1>5 DEF DownInv
  <1>9. CASE k # j
    BY <1>1, <1>3, <1>4, <1>5, <1>8, <1>9, NoneOutside, OtherJobs DEF j
  <1>10. CASE k = j
    <2>1. WaitingOK(k)' /\ BuildingOK(k)'
      BY <1>1, <1>2, <1>3, <1>4, <1>5, <1>8, <1>10 DEF JobOK, WaitingOK, BuildingOK, LateOK,
          Activates, Cancels, CallsOK, StoppedByCancel, j
    <2>2. LateOK(k)'
      BY <1>1, <1>2, <1>3, <1>4, <1>5, <1>8, <1>10 DEF JobOK, LateOK, Activates, Cancels, CallsOK,
          StoppedByCancel, j
    <2>3. StoppingOK(k)'
      BY <1>1, <1>2, <1>3, <1>4, <1>5, <1>8, <1>10 DEF JobOK, StoppingOK, Activates, Starts,
          Publishes, Past, CallsOK, StopSteps, UnpublishSteps, Parts, j
    <2>4. EndingOK(k)'
      BY SMTT(60), <1>1, <1>2, <1>3, <1>4, <1>5, <1>8, <1>10 DEF JobOK, EndingOK, LateOK, StoppingOK,
          Activates, Cancels, Starts, Publishes, Past, CallsOK, StopSteps, Parts, StoppedByCancel,
          j
    <2> QED BY <2>1, <2>2, <2>3, <2>4 DEF JobOK
  <1> QED BY <1>9, <1>10

\* So is the companion.
LEMMA ActivateStartWebDown ==
  ASSUME Inv, DownInv, NEW t \in Threads, ActivateStartWeb(t)
  PROVE  DownInv'
  <1> DEFINE j == proc[t].job
  <1>1. t \in Agents /\ t # Worker /\ (\A u \in Threads : u \in Agents) /\ Worker \in Agents
    BY AgentsDistinct DEF Agents
  <1>2. /\ proc[t].op = "activate" /\ proc[t].pc = "startWeb"
    BY <1>1, NoneOutside DEF CallsOK, DownInv, Inv, ProcOK, Idle, ActivateStartWeb, At,
        BuildSteps, ActivateSteps, StopSteps, UnpublishSteps
  <1>3. j \in Jobs /\ j # NoJob
    BY <1>1, <1>2, BusyThread
  <1>4. /\ \A b \in Agents \ {t} : proc'[b] = proc[b]
        /\ proc'[t].op = proc[t].op /\ proc'[t].job = j /\ proc'[t].seen = proc[t].seen
        /\ proc'[t].pc = "healthWeb"
    BY <1>1, <1>2, GotoFields, ReturnFields DEF ActivateStartWeb, At
  <1>5. /\ up'[j] = up[j] \cup {"web"} /\ \A k \in Jobs \ {j} : up'[k] = up[k]
        /\ UNCHANGED <<daemon, boot, row, dirs, conf, queue, executed, swallowed, orphaned>>
    BY <1>2, <1>3, StatusFields DEF ActivateStartWeb, At, disk, Inv, TypeOK
  <1> HIDE DEF j
  <1>6. CallsOK'
    BY <1>1, <1>2, <1>3, <1>4, <1>5 DEF DownInv, CallsOK, BuildSteps, ActivateSteps, StopSteps,
        UnpublishSteps, j
  <1>7. SUFFICES ASSUME NEW k \in Jobs \ (swallowed' \cup orphaned') PROVE JobOK(k)'
    BY <1>6 DEF DownInv
  <1>8. JobOK(k) /\ CallsOK
    BY <1>5 DEF DownInv
  <1>9. CASE k # j
    BY <1>1, <1>3, <1>4, <1>5, <1>8, <1>9, NoneOutside, OtherJobs DEF j
  <1>10. CASE k = j
    <2>1. WaitingOK(k)' /\ BuildingOK(k)'
      BY <1>1, <1>2, <1>3, <1>4, <1>5, <1>8, <1>10 DEF JobOK, WaitingOK, BuildingOK, LateOK,
          Activates, Cancels, CallsOK, StoppedByCancel, j
    <2>2. LateOK(k)'
      BY <1>1, <1>2, <1>3, <1>4, <1>5, <1>8, <1>10 DEF JobOK, LateOK, Activates, Cancels, CallsOK,
          StoppedByCancel, j
    <2>3. StoppingOK(k)'
      BY <1>1, <1>2, <1>3, <1>4, <1>5, <1>8, <1>10 DEF JobOK, StoppingOK, Activates, Starts,
          Publishes, Past, CallsOK, StopSteps, UnpublishSteps, Parts, j
    <2>4. EndingOK(k)'
      BY SMTT(60), <1>1, <1>2, <1>3, <1>4, <1>5, <1>8, <1>10 DEF JobOK, EndingOK, LateOK, StoppingOK,
          Activates, Cancels, Starts, Publishes, Past, CallsOK, StopSteps, Parts, StoppedByCancel,
          j
    <2> QED BY <2>1, <2>2, <2>3, <2>4 DEF JobOK
  <1> QED BY <1>9, <1>10

\* The health loop goes on or to the clean-up.
LEMMA ActivateHealthDown ==
  ASSUME Inv, DownInv, NEW t \in Threads, ActivateHealth(t)
  PROVE  DownInv'
  <1> DEFINE j == proc[t].job
  <1>1. t \in Agents /\ t # Worker /\ (\A u \in Threads : u \in Agents) /\ Worker \in Agents
    BY AgentsDistinct DEF Agents
  <1>2. /\ proc[t].op = "activate" /\ proc[t].pc = "health"
    BY <1>1, NoneOutside DEF CallsOK, DownInv, Inv, ProcOK, Idle, ActivateHealth, At, Checked,
        BuildSteps, ActivateSteps, StopSteps, UnpublishSteps
  <1>3. j \in Jobs /\ j # NoJob
    BY <1>1, <1>2, BusyThread
  <1>4. /\ \A b \in Agents \ {t} : proc'[b] = proc[b]
        /\ proc'[t].op = proc[t].op /\ proc'[t].job = j /\ proc'[t].seen = proc[t].seen
        /\ proc'[t].pc \in {"stopApp", "startWeb", "recheck"}
    BY <1>1, <1>2, GotoFields, ReturnFields DEF ActivateHealth, At, Checked
  <1>5. /\ TRUE
        /\ UNCHANGED <<daemon, boot, row, dirs, up, conf, queue, executed, swallowed, orphaned>>
    BY <1>2, <1>3, StatusFields DEF ActivateHealth, At, Checked, disk, Inv, TypeOK
  <1> HIDE DEF j
  <1>6. CallsOK'
    BY <1>1, <1>2, <1>3, <1>4, <1>5 DEF DownInv, CallsOK, BuildSteps, ActivateSteps, StopSteps,
        UnpublishSteps, j
  <1>7. SUFFICES ASSUME NEW k \in Jobs \ (swallowed' \cup orphaned') PROVE JobOK(k)'
    BY <1>6 DEF DownInv
  <1>8. JobOK(k) /\ CallsOK
    BY <1>5 DEF DownInv
  <1>9. CASE k # j
    BY <1>1, <1>3, <1>4, <1>5, <1>8, <1>9, NoneOutside, OtherJobs DEF j
  <1>10. CASE k = j
    <2>1. WaitingOK(k)' /\ BuildingOK(k)'
      BY <1>1, <1>2, <1>3, <1>4, <1>5, <1>8, <1>10 DEF JobOK, WaitingOK, BuildingOK, LateOK,
          Activates, Cancels, CallsOK, StoppedByCancel, j
    <2>2. LateOK(k)'
      BY <1>1, <1>2, <1>3, <1>4, <1>5, <1>8, <1>10 DEF JobOK, LateOK, Activates, Cancels, CallsOK,
          StoppedByCancel, j
    <2>3. StoppingOK(k)'
      BY <1>1, <1>2, <1>3, <1>4, <1>5, <1>8, <1>10 DEF JobOK, StoppingOK, Activates, Starts,
          Publishes, Past, CallsOK, StopSteps, UnpublishSteps, Parts, j
    <2>4. EndingOK(k)'
      BY SMTT(60), <1>1, <1>2, <1>3, <1>4, <1>5, <1>8, <1>10 DEF JobOK, EndingOK, LateOK, StoppingOK,
          Activates, Cancels, Starts, Publishes, Past, CallsOK, StopSteps, Parts, StoppedByCancel,
          j
    <2> QED BY <2>1, <2>2, <2>3, <2>4 DEF JobOK
  <1> QED BY <1>9, <1>10

\* So does that of the companion.
LEMMA ActivateHealthWebDown ==
  ASSUME Inv, DownInv, NEW t \in Threads, ActivateHealthWeb(t)
  PROVE  DownInv'
  <1> DEFINE j == proc[t].job
  <1>1. t \in Agents /\ t # Worker /\ (\A u \in Threads : u \in Agents) /\ Worker \in Agents
    BY AgentsDistinct DEF Agents
  <1>2. /\ proc[t].op = "activate" /\ proc[t].pc = "healthWeb"
    BY <1>1, NoneOutside DEF CallsOK, DownInv, Inv, ProcOK, Idle, ActivateHealthWeb, At, Checked,
        BuildSteps, ActivateSteps, StopSteps, UnpublishSteps
  <1>3. j \in Jobs /\ j # NoJob
    BY <1>1, <1>2, BusyThread
  <1>4. /\ \A b \in Agents \ {t} : proc'[b] = proc[b]
        /\ proc'[t].op = proc[t].op /\ proc'[t].job = j /\ proc'[t].seen = proc[t].seen
        /\ proc'[t].pc \in {"stopApp", "recheck"}
    BY <1>1, <1>2, GotoFields, ReturnFields DEF ActivateHealthWeb, At, Checked
  <1>5. /\ TRUE
        /\ UNCHANGED <<daemon, boot, row, dirs, up, conf, queue, executed, swallowed, orphaned>>
    BY <1>2, <1>3, StatusFields DEF ActivateHealthWeb, At, Checked, disk, Inv, TypeOK
  <1> HIDE DEF j
  <1>6. CallsOK'
    BY <1>1, <1>2, <1>3, <1>4, <1>5 DEF DownInv, CallsOK, BuildSteps, ActivateSteps, StopSteps,
        UnpublishSteps, j
  <1>7. SUFFICES ASSUME NEW k \in Jobs \ (swallowed' \cup orphaned') PROVE JobOK(k)'
    BY <1>6 DEF DownInv
  <1>8. JobOK(k) /\ CallsOK
    BY <1>5 DEF DownInv
  <1>9. CASE k # j
    BY <1>1, <1>3, <1>4, <1>5, <1>8, <1>9, NoneOutside, OtherJobs DEF j
  <1>10. CASE k = j
    <2>1. WaitingOK(k)' /\ BuildingOK(k)'
      BY <1>1, <1>2, <1>3, <1>4, <1>5, <1>8, <1>10 DEF JobOK, WaitingOK, BuildingOK, LateOK,
          Activates, Cancels, CallsOK, StoppedByCancel, j
    <2>2. LateOK(k)'
      BY <1>1, <1>2, <1>3, <1>4, <1>5, <1>8, <1>10 DEF JobOK, LateOK, Activates, Cancels, CallsOK,
          StoppedByCancel, j
    <2>3. StoppingOK(k)'
      BY <1>1, <1>2, <1>3, <1>4, <1>5, <1>8, <1>10 DEF JobOK, StoppingOK, Activates, Starts,
          Publishes, Past, CallsOK, StopSteps, UnpublishSteps, Parts, j
    <2>4. EndingOK(k)'
      BY SMTT(60), <1>1, <1>2, <1>3, <1>4, <1>5, <1>8, <1>10 DEF JobOK, EndingOK, LateOK, StoppingOK,
          Activates, Cancels, Starts, Publishes, Past, CallsOK, StopSteps, Parts, StoppedByCancel,
          j
    <2> QED BY <2>1, <2>2, <2>3, <2>4 DEF JobOK
  <1> QED BY <1>9, <1>10

\* The route is published by the activation, which will unpublish it or finish.
LEMMA ActivatePublishDown ==
  ASSUME Inv, DownInv, NEW t \in Threads, ActivatePublish(t)
  PROVE  DownInv'
  <1> DEFINE j == proc[t].job
  <1>1. t \in Agents /\ t # Worker /\ (\A u \in Threads : u \in Agents) /\ Worker \in Agents
    BY AgentsDistinct DEF Agents
  <1>2. /\ proc[t].op = "activate" /\ proc[t].pc = "publish"
    BY <1>1, NoneOutside DEF CallsOK, DownInv, Inv, ProcOK, Idle, ActivatePublish, At, BuildSteps,
        ActivateSteps, StopSteps, UnpublishSteps
  <1>3. j \in Jobs /\ j # NoJob
    BY <1>1, <1>2, BusyThread
  <1>4. /\ \A b \in Agents \ {t} : proc'[b] = proc[b]
        /\ proc'[t].op = proc[t].op /\ proc'[t].job = j /\ proc'[t].seen = proc[t].seen
        /\ proc'[t].pc \in {"stopApp", "reload"}
    BY <1>1, <1>2, GotoFields, ReturnFields DEF ActivatePublish, At
  <1>5. /\ conf' = conf \cup {j}
        /\ UNCHANGED <<daemon, boot, row, dirs, up, queue, executed, swallowed, orphaned>>
    BY <1>2, <1>3, StatusFields DEF ActivatePublish, At, disk, Inv, TypeOK
  <1> HIDE DEF j
  <1>6. CallsOK'
    BY <1>1, <1>2, <1>3, <1>4, <1>5 DEF DownInv, CallsOK, BuildSteps, ActivateSteps, StopSteps,
        UnpublishSteps, j
  <1>7. SUFFICES ASSUME NEW k \in Jobs \ (swallowed' \cup orphaned') PROVE JobOK(k)'
    BY <1>6 DEF DownInv
  <1>8. JobOK(k) /\ CallsOK
    BY <1>5 DEF DownInv
  <1>9. CASE k # j
    BY <1>1, <1>3, <1>4, <1>5, <1>8, <1>9, NoneOutside, OtherJobs DEF j
  <1>10. CASE k = j
    <2>1. WaitingOK(k)' /\ BuildingOK(k)'
      BY <1>1, <1>2, <1>3, <1>4, <1>5, <1>8, <1>10 DEF JobOK, WaitingOK, BuildingOK, LateOK,
          Activates, Cancels, CallsOK, StoppedByCancel, j
    <2>2. LateOK(k)'
      BY <1>1, <1>2, <1>3, <1>4, <1>5, <1>8, <1>10 DEF JobOK, LateOK, Activates, Cancels, CallsOK,
          StoppedByCancel, j
    <2>3. StoppingOK(k)'
      BY <1>1, <1>2, <1>3, <1>4, <1>5, <1>8, <1>10 DEF JobOK, StoppingOK, Activates, Starts,
          Publishes, Past, CallsOK, StopSteps, UnpublishSteps, Parts, j
    <2>4. EndingOK(k)'
      BY <1>1, <1>2, <1>3, <1>4, <1>5, <1>8, <1>10 DEF JobOK, EndingOK, LateOK, StoppingOK,
          Activates, Cancels, Starts, Publishes, Past, CallsOK, StopSteps, Parts, StoppedByCancel,
          j
    <2> QED BY <2>1, <2>2, <2>3, <2>4 DEF JobOK
  <1> QED BY <1>9, <1>10

\* nginx is reloaded, or the route removed again.
LEMMA ActivateReloadDown ==
  ASSUME Inv, DownInv, NEW t \in Threads, ActivateReload(t)
  PROVE  DownInv'
  <1> DEFINE j == proc[t].job
  <1>1. t \in Agents /\ t # Worker /\ (\A u \in Threads : u \in Agents) /\ Worker \in Agents
    BY AgentsDistinct DEF Agents
  <1>2. /\ proc[t].op = "activate" /\ proc[t].pc = "reload"
    BY <1>1, NoneOutside DEF CallsOK, DownInv, Inv, ProcOK, Idle, ActivateReload, At, BuildSteps,
        ActivateSteps, StopSteps, UnpublishSteps
  <1>3. j \in Jobs /\ j # NoJob
    BY <1>1, <1>2, BusyThread
  <1>4. /\ \A b \in Agents \ {t} : proc'[b] = proc[b]
        /\ proc'[t].op = proc[t].op /\ proc'[t].job = j /\ proc'[t].seen = proc[t].seen
        /\ proc'[t].pc \in {"stopApp", "confirm"}
    BY <1>1, <1>2, GotoFields, ReturnFields DEF ActivateReload, At
  <1>5. /\ conf' \in {conf, conf \ {j}}
        /\ UNCHANGED <<daemon, boot, row, dirs, up, queue, executed, swallowed, orphaned>>
    BY <1>2, <1>3, StatusFields DEF ActivateReload, At, disk, Inv, TypeOK
  <1> HIDE DEF j
  <1>6. CallsOK'
    BY <1>1, <1>2, <1>3, <1>4, <1>5 DEF DownInv, CallsOK, BuildSteps, ActivateSteps, StopSteps,
        UnpublishSteps, j
  <1>7. SUFFICES ASSUME NEW k \in Jobs \ (swallowed' \cup orphaned') PROVE JobOK(k)'
    BY <1>6 DEF DownInv
  <1>8. JobOK(k) /\ CallsOK
    BY <1>5 DEF DownInv
  <1>9. CASE k # j
    BY <1>1, <1>3, <1>4, <1>5, <1>8, <1>9, NoneOutside, OtherJobs DEF j
  <1>10. CASE k = j
    <2>1. WaitingOK(k)' /\ BuildingOK(k)'
      BY <1>1, <1>2, <1>3, <1>4, <1>5, <1>8, <1>10 DEF JobOK, WaitingOK, BuildingOK, LateOK,
          Activates, Cancels, CallsOK, StoppedByCancel, j
    <2>2. LateOK(k)'
      BY <1>1, <1>2, <1>3, <1>4, <1>5, <1>8, <1>10 DEF JobOK, LateOK, Activates, Cancels, CallsOK,
          StoppedByCancel, j
    <2>3. StoppingOK(k)'
      BY <1>1, <1>2, <1>3, <1>4, <1>5, <1>8, <1>10 DEF JobOK, StoppingOK, Activates, Starts,
          Publishes, Past, CallsOK, StopSteps, UnpublishSteps, Parts, j
    <2>4. EndingOK(k)'
      BY SMTT(60), <1>1, <1>2, <1>3, <1>4, <1>5, <1>8, <1>10 DEF JobOK, EndingOK, LateOK, StoppingOK,
          Activates, Cancels, Starts, Publishes, Past, CallsOK, StopSteps, Parts, StoppedByCancel,
          j
    <2> QED BY <2>1, <2>2, <2>3, <2>4 DEF JobOK
  <1> QED BY <1>9, <1>10

\* A check: a cancelled activation goes to its clean-up, and none that is past the last one is.
LEMMA ActivateCheckDown ==
  ASSUME Inv, DownInv, NEW t \in Threads, ActivateCheck(t)
  PROVE  DownInv'
  <1> DEFINE j == proc[t].job
  <1>1. t \in Agents /\ t # Worker /\ (\A u \in Threads : u \in Agents) /\ Worker \in Agents
    BY AgentsDistinct DEF Agents
  <1>2. /\ proc[t].op = "activate" /\ proc[t].pc \in {"check", "recheck", "confirm"}
    BY <1>1, NoneOutside DEF CallsOK, DownInv, Inv, ProcOK, Idle, ActivateCheck, At, Checked,
        NextCheck, BuildSteps, ActivateSteps, StopSteps, UnpublishSteps
  <1>3. j \in Jobs /\ j # NoJob
    BY <1>1, <1>2, BusyThread
  <1>4. /\ \A b \in Agents \ {t} : proc'[b] = proc[b]
        /\ proc'[t].op = proc[t].op /\ proc'[t].job = j /\ proc'[t].seen = proc[t].seen
        /\ proc'[t].pc \in {"stopApp", "mark", "publish", "finish"}
        /\ proc'[t].pc = "finish" => ~row[j].cancel
    BY <1>1, <1>2, GotoFields, ReturnFields DEF ActivateCheck, At, Checked, NextCheck
  <1>5. /\ TRUE
        /\ UNCHANGED <<daemon, boot, row, dirs, up, conf, queue, executed, swallowed, orphaned>>
    BY <1>2, <1>3, StatusFields DEF ActivateCheck, At, Checked, NextCheck, disk, Inv, TypeOK
  <1> HIDE DEF j
  <1>6. CallsOK'
    BY <1>1, <1>2, <1>3, <1>4, <1>5 DEF DownInv, CallsOK, BuildSteps, ActivateSteps, StopSteps,
        UnpublishSteps, j
  <1>7. SUFFICES ASSUME NEW k \in Jobs \ (swallowed' \cup orphaned') PROVE JobOK(k)'
    BY <1>6 DEF DownInv
  <1>8. JobOK(k) /\ CallsOK
    BY <1>5 DEF DownInv
  <1>9. CASE k # j
    BY <1>1, <1>3, <1>4, <1>5, <1>8, <1>9, NoneOutside, OtherJobs DEF j
  <1>10. CASE k = j
    <2>1. WaitingOK(k)' /\ BuildingOK(k)'
      BY <1>1, <1>2, <1>3, <1>4, <1>5, <1>8, <1>10 DEF JobOK, WaitingOK, BuildingOK, LateOK,
          Activates, Cancels, CallsOK, StoppedByCancel, j
    <2>2. LateOK(k)'
      BY <1>1, <1>2, <1>3, <1>4, <1>5, <1>8, <1>10 DEF JobOK, LateOK, Activates, Cancels, CallsOK,
          StoppedByCancel, j
    <2>3. StoppingOK(k)'
      BY <1>1, <1>2, <1>3, <1>4, <1>5, <1>8, <1>10 DEF JobOK, StoppingOK, Activates, Starts,
          Publishes, Past, CallsOK, StopSteps, UnpublishSteps, Parts, j
    <2>4. EndingOK(k)'
      BY <1>1, <1>2, <1>3, <1>4, <1>5, <1>8, <1>10 DEF JobOK, EndingOK, LateOK, StoppingOK,
          Activates, Cancels, Starts, Publishes, Past, CallsOK, StopSteps, Parts, StoppedByCancel,
          j
    <2> QED BY <2>1, <2>2, <2>3, <2>4 DEF JobOK
  <1> QED BY <1>9, <1>10

\* An activation finishes.
LEMMA ActivateFinishDown ==
  ASSUME Inv, DownInv, NEW t \in Threads, ActivateFinish(t)
  PROVE  DownInv'
  <1> DEFINE j == proc[t].job
  <1>1. t \in Agents /\ t # Worker /\ (\A u \in Threads : u \in Agents) /\ Worker \in Agents
    BY AgentsDistinct DEF Agents
  <1>2. /\ proc[t].op = "activate" /\ proc[t].pc = "finish"
    BY <1>1, NoneOutside DEF CallsOK, DownInv, Inv, ProcOK, Idle, ActivateFinish, At, BuildSteps,
        ActivateSteps, StopSteps, UnpublishSteps
  <1>3. j \in Jobs /\ j # NoJob
    BY <1>1, <1>2, BusyThread
  <1>4. /\ \A b \in Agents \ {t} : proc'[b] = proc[b]
        /\ proc'[t].op = "none" /\ proc'[t].job = NoJob
    BY <1>1, <1>2, GotoFields, ReturnFields DEF ActivateFinish, At
  <1>5. /\ row'[j].status = "available" /\ row'[j].cancel = row[j].cancel
        /\ \A k \in Jobs \ {j} : row'[k] = row[k]
        /\ UNCHANGED <<daemon, boot, dirs, up, conf, queue, executed, swallowed, orphaned>>
    BY <1>2, <1>3, StatusFields DEF ActivateFinish, At, disk, Inv, TypeOK
  <1> HIDE DEF j
  <1>6. CallsOK'
    BY <1>1, <1>2, <1>3, <1>4, <1>5 DEF DownInv, CallsOK, BuildSteps, ActivateSteps, StopSteps,
        UnpublishSteps, j
  <1>7. SUFFICES ASSUME NEW k \in Jobs \ (swallowed' \cup orphaned') PROVE JobOK(k)'
    BY <1>6 DEF DownInv
  <1>8. JobOK(k) /\ CallsOK
    BY <1>5 DEF DownInv
  <1>9. CASE k # j
    BY <1>1, <1>3, <1>4, <1>5, <1>8, <1>9, NoneOutside, OtherJobs DEF j
  <1>10. CASE k = j
    <2>1. WaitingOK(k)' /\ BuildingOK(k)'
      BY <1>1, <1>2, <1>3, <1>4, <1>5, <1>8, <1>10 DEF JobOK, WaitingOK, BuildingOK, LateOK,
          Activates, Cancels, CallsOK, StoppedByCancel, j
    <2>2. LateOK(k)'
      BY <1>1, <1>2, <1>3, <1>4, <1>5, <1>8, <1>10 DEF JobOK, LateOK, Activates, Cancels, CallsOK,
          StoppedByCancel, j
    <2>3. StoppingOK(k)'
      BY SMTT(60), <1>1, <1>2, <1>3, <1>4, <1>5, <1>8, <1>10 DEF JobOK, StoppingOK, Activates, Starts,
          Publishes, Past, CallsOK, StopSteps, UnpublishSteps, Parts, j
    <2>4. EndingOK(k)'
      BY <1>1, <1>2, <1>3, <1>4, <1>5, <1>8, <1>10 DEF JobOK, EndingOK, LateOK, StoppingOK,
          Activates, Cancels, Starts, Publishes, Past, CallsOK, StopSteps, Parts, StoppedByCancel,
          j
    <2> QED BY <2>1, <2>2, <2>3, <2>4 DEF JobOK
  <1> QED BY <1>9, <1>10

\* An exception leads to the clean-up.
LEMMA ActivateFailsDown ==
  ASSUME Inv, DownInv, NEW t \in Threads, ActivateFails(t)
  PROVE  DownInv'
  <1> DEFINE j == proc[t].job
  <1>1. t \in Agents /\ t # Worker /\ (\A u \in Threads : u \in Agents) /\ Worker \in Agents
    BY AgentsDistinct DEF Agents
  <1>2. /\ proc[t].op = "activate" /\ proc[t].pc \in ActivateSteps
    BY <1>1, NoneOutside DEF CallsOK, DownInv, Inv, ProcOK, Idle, ActivateFails, At, BuildSteps,
        ActivateSteps, StopSteps, UnpublishSteps
  <1>3. j \in Jobs /\ j # NoJob
    BY <1>1, <1>2, BusyThread
  <1>4. /\ \A b \in Agents \ {t} : proc'[b] = proc[b]
        /\ proc'[t].op = proc[t].op /\ proc'[t].job = j /\ proc'[t].seen = proc[t].seen
        /\ proc'[t].pc = "stopApp"
    BY <1>1, <1>2, GotoFields, ReturnFields DEF ActivateFails, At
  <1>5. /\ TRUE
        /\ UNCHANGED <<daemon, boot, row, dirs, up, conf, queue, executed, swallowed, orphaned>>
    BY <1>2, <1>3, StatusFields DEF ActivateFails, At, disk, Inv, TypeOK
  <1> HIDE DEF j
  <1>6. CallsOK'
    BY <1>1, <1>2, <1>3, <1>4, <1>5 DEF DownInv, CallsOK, BuildSteps, ActivateSteps, StopSteps,
        UnpublishSteps, j
  <1>7. SUFFICES ASSUME NEW k \in Jobs \ (swallowed' \cup orphaned') PROVE JobOK(k)'
    BY <1>6 DEF DownInv
  <1>8. JobOK(k) /\ CallsOK
    BY <1>5 DEF DownInv
  <1>9. CASE k # j
    BY <1>1, <1>3, <1>4, <1>5, <1>8, <1>9, NoneOutside, OtherJobs DEF j
  <1>10. CASE k = j
    <2>1. WaitingOK(k)' /\ BuildingOK(k)'
      BY <1>1, <1>2, <1>3, <1>4, <1>5, <1>8, <1>10 DEF JobOK, WaitingOK, BuildingOK, LateOK,
          Activates, Cancels, CallsOK, StoppedByCancel, j
    <2>2. LateOK(k)'
      BY <1>1, <1>2, <1>3, <1>4, <1>5, <1>8, <1>10 DEF JobOK, LateOK, Activates, Cancels, CallsOK,
          StoppedByCancel, j
    <2>3. StoppingOK(k)'
      BY <1>1, <1>2, <1>3, <1>4, <1>5, <1>8, <1>10 DEF JobOK, StoppingOK, Activates, Starts,
          Publishes, Past, CallsOK, StopSteps, UnpublishSteps, Parts, j
    <2>4. EndingOK(k)'
      BY <1>1, <1>2, <1>3, <1>4, <1>5, <1>8, <1>10 DEF JobOK, EndingOK, LateOK, StoppingOK,
          Activates, Cancels, Starts, Publishes, Past, CallsOK, StopSteps, Parts, StoppedByCancel,
          j
    <2> QED BY <2>1, <2>2, <2>3, <2>4 DEF JobOK
  <1> QED BY <1>9, <1>10

\* A failed activation ends with everything stopped.
LEMMA ActivateSettleDown ==
  ASSUME Inv, DownInv, NEW t \in Threads, ActivateSettle(t)
  PROVE  DownInv'
  <1> DEFINE j == proc[t].job
  <1>1. t \in Agents /\ t # Worker /\ (\A u \in Threads : u \in Agents) /\ Worker \in Agents
    BY AgentsDistinct DEF Agents
  <1>2. /\ proc[t].op = "activate" /\ proc[t].pc = "settle"
    BY <1>1, NoneOutside DEF CallsOK, DownInv, Inv, ProcOK, Idle, ActivateSettle, At, BuildSteps,
        ActivateSteps, StopSteps, UnpublishSteps
  <1>3. j \in Jobs /\ j # NoJob
    BY <1>1, <1>2, BusyThread
  <1>4. /\ \A b \in Agents \ {t} : proc'[b] = proc[b]
        /\ proc'[t].op = "none" /\ proc'[t].job = NoJob
    BY <1>1, <1>2, GotoFields, ReturnFields DEF ActivateSettle, At
  <1>5. /\ row'[j].status = "activation_failed" /\ row'[j].cancel = row[j].cancel
        /\ \A k \in Jobs \ {j} : row'[k] = row[k]
        /\ UNCHANGED <<daemon, boot, dirs, up, conf, queue, executed, swallowed, orphaned>>
    BY <1>2, <1>3, StatusFields DEF ActivateSettle, At, disk, Inv, TypeOK
  <1> HIDE DEF j
  <1>6. CallsOK'
    BY <1>1, <1>2, <1>3, <1>4, <1>5 DEF DownInv, CallsOK, BuildSteps, ActivateSteps, StopSteps,
        UnpublishSteps, j
  <1>7. SUFFICES ASSUME NEW k \in Jobs \ (swallowed' \cup orphaned') PROVE JobOK(k)'
    BY <1>6 DEF DownInv
  <1>8. JobOK(k) /\ CallsOK
    BY <1>5 DEF DownInv
  <1>9. CASE k # j
    BY <1>1, <1>3, <1>4, <1>5, <1>8, <1>9, NoneOutside, OtherJobs DEF j
  <1>10. CASE k = j
    <2>1. WaitingOK(k)' /\ BuildingOK(k)'
      BY <1>1, <1>2, <1>3, <1>4, <1>5, <1>8, <1>10 DEF JobOK, WaitingOK, BuildingOK, LateOK,
          Activates, Cancels, CallsOK, StoppedByCancel, j
    <2>2. LateOK(k)'
      BY <1>1, <1>2, <1>3, <1>4, <1>5, <1>8, <1>10 DEF JobOK, LateOK, Activates, Cancels, CallsOK,
          StoppedByCancel, j
    <2>3. StoppingOK(k)'
      BY SMTT(60), <1>1, <1>2, <1>3, <1>4, <1>5, <1>8, <1>10 DEF JobOK, StoppingOK, Activates, Starts,
          Publishes, Past, CallsOK, StopSteps, UnpublishSteps, Parts, j
    <2>4. ASSUME NEW x \in up[k] PROVE Starts(x, k)'
      <3>0. x \in Parts /\ x \in up[k]
        BY DEF Inv, TypeOK
      <3>1. Starts(x, k)
        BY <1>1, <1>2, <1>8, <1>10, <3>0 DEF JobOK, StoppingOK, Past, Activates, j
      <3>2. PICK u \in Threads : Activates(u, k) /\ proc[u].pc # "finish" /\ ~Past(x, proc[u].pc)
        BY <3>1 DEF Starts
      <3>3. u # t
        BY <1>2, <3>2 DEF Past
      <3> QED BY <1>1, <1>4, <3>2, <3>3 DEF Starts, Activates
    <2>5. k \notin conf \/ Publishes(k)'
      <3> SUFFICES ASSUME k \in conf PROVE Publishes(k)'
        OBVIOUS
      <3>1. Publishes(k)
        BY <1>1, <1>2, <1>8, <1>10 DEF JobOK, StoppingOK, Activates, j
      <3>2. PICK u \in Threads : Activates(u, k) /\ proc[u].pc \notin {"finish", "unreload", "settle"}
        BY <3>1 DEF Publishes
      <3>3. u # t
        BY <1>2, <3>2
      <3> QED BY <1>1, <1>4, <3>2, <3>3 DEF Publishes, Activates
    <2>6. row[j].cancel \/ proc[t].op = "activate"
      BY <1>1, <1>2, <1>3, <1>8, <1>10 DEF JobOK, StoppingOK, Inv, TypeOK, j
    <2>8. EndingOK(k)'
      BY <1>2, <1>5, <1>10, <2>4, <2>5, <2>6 DEF EndingOK
    <2> QED BY <2>1, <2>2, <2>3, <2>8 DEF JobOK
  <1> QED BY <1>9, <1>10

\* A container is stopped, or its error is ignored and the job not spoken of.
LEMMA StopThreadDown ==
  ASSUME Inv, DownInv, NEW t \in Threads, Stop(t)
  PROVE  DownInv'
  <1> DEFINE j == proc[t].job
  <1>1. t \in Agents /\ t # Worker /\ (\A u \in Threads : u \in Agents) /\ Worker \in Agents
    BY AgentsDistinct DEF Agents
  <1>2. /\ proc[t].op \in {"cancel", "activate"} /\ proc[t].pc \in StopSteps
    BY <1>1, NoneOutside DEF CallsOK, DownInv, Inv, ProcOK, Idle, Stop, At, AfterStop, BuildSteps,
        ActivateSteps, StopSteps, UnpublishSteps
  <1>3. j \in Jobs /\ j # NoJob
    BY <1>1, <1>2, BusyThread
  <1>4. /\ \A b \in Agents \ {t} : proc'[b] = proc[b]
        /\ proc'[t].op = proc[t].op /\ proc'[t].job = j /\ proc'[t].seen = proc[t].seen
        /\ proc'[t].pc = IF proc[t].pc = "stopApp" THEN "stopWeb"
                         ELSE IF proc[t].pc = "stopWeb" THEN "stopDeps" ELSE "look"
    BY <1>1, <1>2, GotoFields, ReturnFields DEF Stop, At, AfterStop
  <1>5. /\ \/ swallowed' = swallowed /\ up'[j] = up[j] \ {StopPart[proc[t].pc]}
           \/ up' = up /\ swallowed' = swallowed \cup {j}
        /\ \A k \in Jobs \ {j} : up'[k] = up[k]
        /\ UNCHANGED <<daemon, boot, row, dirs, conf, queue, executed, orphaned>>
    BY <1>2, <1>3, StatusFields DEF Stop, At, AfterStop, disk, Inv, TypeOK
  <1> HIDE DEF j
  <1>6. CallsOK'
    BY <1>1, <1>2, <1>3, <1>4, <1>5 DEF DownInv, CallsOK, BuildSteps, ActivateSteps, StopSteps,
        UnpublishSteps, j
  <1>7. SUFFICES ASSUME NEW k \in Jobs \ (swallowed' \cup orphaned') PROVE JobOK(k)'
    BY <1>6 DEF DownInv
  <1>8. JobOK(k) /\ CallsOK /\ (k = j => up'[j] = up[j] \ {StopPart[proc[t].pc]})
    BY <1>5 DEF DownInv
  <1>9. CASE k # j
    BY <1>1, <1>3, <1>4, <1>5, <1>8, <1>9, NoneOutside, OtherJobs DEF j
  <1>10. CASE k = j
    <2>1. WaitingOK(k)' /\ BuildingOK(k)'
      BY SMTT(60), <1>1, <1>2, <1>3, <1>4, <1>5, <1>8, <1>10 DEF JobOK, WaitingOK, BuildingOK, LateOK,
          Activates, Cancels, CallsOK, StoppedByCancel, j
    <2>2. LateOK(k)'
      BY SMTT(60), <1>1, <1>2, <1>3, <1>4, <1>5, <1>8, <1>10 DEF JobOK, LateOK, Activates, Cancels, CallsOK,
          StoppedByCancel, j
    <2>3. StoppingOK(k)'
      BY SMTT(60), <1>1, <1>2, <1>3, <1>4, <1>5, <1>8, <1>10 DEF JobOK, StoppingOK, StopPart, Activates,
          Starts, Publishes, Past, CallsOK, StopSteps, UnpublishSteps, Parts, j
    <2>4. ASSUME NEW x \in up[k], x \in up'[k], Starts(x, k) PROVE Starts(x, k)'
      <3>0. x \in Parts /\ up[k] \subseteq Parts
        BY DEF Inv, TypeOK
      <3>1. PICK u \in Threads : Activates(u, k) /\ proc[u].pc # "finish" /\ ~Past(x, proc[u].pc)
        BY <2>4 DEF Starts
      <3>2. CASE u # t
        BY <1>1, <1>4, <3>1, <3>2 DEF Starts, Activates
      <3>3. CASE u = t
        <4>1. x # StopPart[proc[t].pc]
          BY <1>8, <1>10, <2>4
        <4>2. ~Past(x, proc'[t].pc) /\ proc'[t].pc # "finish"
          BY <1>2, <1>4, <3>0, <3>1, <3>3, <4>1 DEF Past, StopSteps, StopPart, Parts
        <4> QED BY <1>1, <1>4, <3>1, <3>3, <4>2 DEF Starts, Activates, j
      <3> QED BY <3>2, <3>3
    <2>5. Publishes(k) => Publishes(k)'
      <3> SUFFICES ASSUME Publishes(k) PROVE Publishes(k)'
        OBVIOUS
      <3>1. PICK u \in Threads : Activates(u, k) /\ proc[u].pc \notin {"finish", "unreload", "settle"}
        BY DEF Publishes
      <3>2. CASE u # t
        BY <1>1, <1>4, <3>1, <3>2 DEF Publishes, Activates
      <3>3. CASE u = t
        BY <1>1, <1>4, <3>1, <3>3 DEF Publishes, Activates, j
      <3> QED BY <3>2, <3>3
    <2>6. up'[k] \subseteq up[k]
      BY <1>8, <1>10
    <2>7. EndingOK(k)'
      BY <1>5, <1>8, <2>4, <2>5, <2>6 DEF JobOK, EndingOK
    <2> QED BY <2>1, <2>2, <2>3, <2>7 DEF JobOK
  <1> QED BY <1>9, <1>10

\* A cancel marks the row.
LEMMA CancelFlagDown ==
  ASSUME Inv, DownInv, NEW t \in Threads, CancelFlag(t)
  PROVE  DownInv'
  <1> DEFINE j == proc[t].job
  <1>1. t \in Agents /\ t # Worker /\ (\A u \in Threads : u \in Agents) /\ Worker \in Agents
    BY AgentsDistinct DEF Agents
  <1>2. /\ proc[t].op = "cancel" /\ proc[t].pc = "flag"
    BY <1>1, NoneOutside DEF CallsOK, DownInv, Inv, ProcOK, Idle, CancelFlag, At, BuildSteps,
        ActivateSteps, StopSteps, UnpublishSteps
  <1>3. j \in Jobs /\ j # NoJob
    BY <1>1, <1>2, BusyThread
  <1>4. /\ \A b \in Agents \ {t} : proc'[b] = proc[b]
        /\ \/ /\ proc[t].seen \in StoppedByCancel /\ proc'[t].pc = "stopApp"
              /\ proc'[t].op = proc[t].op /\ proc'[t].job = j /\ proc'[t].seen = proc[t].seen
           \/ proc'[t].op = "none" /\ proc'[t].job = NoJob
    BY <1>1, <1>2, GotoFields, ReturnFields DEF CancelFlag, At
  <1>5. /\ row'[j].status = row[j].status /\ row'[j].cancel = TRUE
        /\ \A k \in Jobs \ {j} : row'[k] = row[k]
        /\ UNCHANGED <<daemon, boot, dirs, up, conf, queue, executed, swallowed, orphaned>>
    BY <1>2, <1>3, StatusFields DEF CancelFlag, At, disk, Inv, TypeOK
  <1> HIDE DEF j
  <1>6. CallsOK'
    BY <1>1, <1>2, <1>3, <1>4, <1>5 DEF DownInv, CallsOK, BuildSteps, ActivateSteps, StopSteps,
        UnpublishSteps, j
  <1>7. SUFFICES ASSUME NEW k \in Jobs \ (swallowed' \cup orphaned') PROVE JobOK(k)'
    BY <1>6 DEF DownInv
  <1>8. JobOK(k) /\ CallsOK
    BY <1>5 DEF DownInv
  <1>9. CASE k # j
    BY <1>1, <1>3, <1>4, <1>5, <1>8, <1>9, NoneOutside, OtherJobs DEF j
  <1>10. CASE k = j
    <2>1. WaitingOK(k)' /\ BuildingOK(k)'
      BY SMTT(60), <1>1, <1>2, <1>3, <1>4, <1>5, <1>8, <1>10 DEF JobOK, WaitingOK, BuildingOK, LateOK,
          Activates, Cancels, CallsOK, StoppedByCancel, j
    <2>2. LateOK(k)'
      BY SMTT(60), <1>1, <1>2, <1>3, <1>4, <1>5, <1>8, <1>10 DEF JobOK, LateOK, Activates, Cancels, CallsOK,
          StoppedByCancel, j
    <2>3. StoppingOK(k)'
      BY SMTT(60), <1>1, <1>2, <1>3, <1>4, <1>5, <1>8, <1>10 DEF JobOK, StoppingOK, Activates, Starts,
          Publishes, Past, CallsOK, StopSteps, UnpublishSteps, Parts, j
    <2>4. EndingOK(k)'
      BY SMTT(60), <1>1, <1>2, <1>3, <1>4, <1>5, <1>8, <1>10 DEF JobOK, EndingOK, LateOK, StoppingOK,
          Activates, Cancels, Starts, Publishes, Past, CallsOK, StopSteps, Parts, StoppedByCancel,
          j
    <2> QED BY <2>1, <2>2, <2>3, <2>4 DEF JobOK
  <1> QED BY <1>9, <1>10

\* An error of nginx ends a cancel; an activation goes on and its job is not spoken of.
LEMMA UnpublishFailsDown ==
  ASSUME Inv, DownInv, NEW t \in Threads, UnpublishFails(t)
  PROVE  DownInv'
  <1> DEFINE j == proc[t].job
  <1>1. t \in Agents /\ t # Worker /\ (\A u \in Threads : u \in Agents) /\ Worker \in Agents
    BY AgentsDistinct DEF Agents
  <1>2. /\ proc[t].op \in {"cancel", "activate"} /\ proc[t].pc \in {"unlink", "unreload"}
    BY <1>1, NoneOutside DEF CallsOK, DownInv, Inv, ProcOK, Idle, UnpublishFails, At, BuildSteps,
        ActivateSteps, StopSteps, UnpublishSteps
  <1>3. j \in Jobs /\ j # NoJob
    BY <1>1, <1>2, BusyThread
  <1>4. /\ \A b \in Agents \ {t} : proc'[b] = proc[b]
        /\ \/ proc[t].op = "cancel" /\ proc'[t].op = "none" /\ proc'[t].job = NoJob
           \/ /\ proc[t].op = "activate" /\ proc'[t].pc = "settle"
              /\ proc'[t].op = proc[t].op /\ proc'[t].job = j /\ proc'[t].seen = proc[t].seen
    BY <1>1, <1>2, GotoFields, ReturnFields DEF UnpublishFails, At
  <1>5. /\ \/ swallowed' = swallowed /\ proc[t].op = "cancel"
           \/ swallowed' = swallowed \cup {j}
        /\ UNCHANGED <<daemon, boot, row, dirs, up, conf, queue, executed, orphaned>>
    BY <1>2, <1>3, StatusFields DEF UnpublishFails, At, disk, Inv, TypeOK
  <1> HIDE DEF j
  <1>6. CallsOK'
    BY <1>1, <1>2, <1>3, <1>4, <1>5 DEF DownInv, CallsOK, BuildSteps, ActivateSteps, StopSteps,
        UnpublishSteps, j
  <1>7. SUFFICES ASSUME NEW k \in Jobs \ (swallowed' \cup orphaned') PROVE JobOK(k)'
    BY <1>6 DEF DownInv
  <1>8. JobOK(k) /\ CallsOK /\ (k = j => proc[t].op = "cancel")
    BY <1>5 DEF DownInv
  <1>9. CASE k # j
    BY <1>1, <1>3, <1>4, <1>5, <1>8, <1>9, NoneOutside, OtherJobs DEF j
  <1>10. CASE k = j
    <2>1. WaitingOK(k)' /\ BuildingOK(k)'
      BY <1>1, <1>2, <1>3, <1>4, <1>5, <1>8, <1>10 DEF JobOK, WaitingOK, BuildingOK, LateOK,
          Activates, Cancels, CallsOK, StoppedByCancel, j
    <2>2. LateOK(k)'
      BY <1>1, <1>2, <1>3, <1>4, <1>5, <1>8, <1>10 DEF JobOK, LateOK, Activates, Cancels, CallsOK,
          StoppedByCancel, j
    <2>3. StoppingOK(k)'
      BY SMTT(60), <1>1, <1>2, <1>3, <1>4, <1>5, <1>8, <1>10 DEF JobOK, StoppingOK, Activates, Starts,
          Publishes, Past, CallsOK, StopSteps, UnpublishSteps, Parts, j
    <2>4. EndingOK(k)'
      BY SMTT(60), <1>1, <1>2, <1>3, <1>4, <1>5, <1>8, <1>10 DEF JobOK, EndingOK, LateOK, StoppingOK,
          Activates, Cancels, Starts, Publishes, Past, CallsOK, StopSteps, Parts, StoppedByCancel,
          j
    <2> QED BY <2>1, <2>2, <2>3, <2>4 DEF JobOK
  <1> QED BY <1>9, <1>10

\* What an exception of the copy changes.
LEMMA AbortFields ==
  ASSUME Inv, NEW s, BuildAborts(s)
  PROVE  /\ proc'[Worker].pc = "stopApp" /\ proc'[Worker].seen = s
         /\ proc'[Worker].op = proc[Worker].op /\ proc'[Worker].job = proc[Worker].job
         /\ \A b \in Agents \ {Worker} : proc'[b] = proc[b]
  BY DEF Inv, TypeOK, BuildAborts, Agents

\* A check of the copy goes on or to the clean-up, which then knows of the mark.
LEMMA BuildCheckDown ==
  ASSUME Inv, DownInv, BuildCheck
  PROVE  DownInv'
  <1> DEFINE j == proc[Worker].job
  <1>1. Worker \in Agents /\ \A u \in Threads : u \in Agents /\ u # Worker
    BY AgentsDistinct DEF Agents
  <1>2. /\ proc[Worker].op = "execute" /\ proc[Worker].pc \in {"check", "late"}
    BY <1>1, NoneOutside DEF CallsOK, DownInv, Inv, ProcOK, Idle, BuildCheck, At, BuildSteps,
        ActivateSteps, StopSteps, UnpublishSteps
  <1>3. j \in Jobs /\ j # NoJob
    BY <1>1, <1>2, BusyThread
  <1>4. /\ \A b \in Agents \ {Worker} : proc'[b] = proc[b]
        /\ proc'[Worker].op = proc[Worker].op /\ proc'[Worker].job = j
        /\ \/ proc'[Worker].pc = "stopApp" /\ proc'[Worker].seen = "cancelled" /\ row[j].cancel
           \/ proc'[Worker].pc \in {"mkdir", "create"} /\ proc'[Worker].seen = proc[Worker].seen
        /\ proc'[Worker].pc = "mkdir" => proc[Worker].pc = "check"
    BY <1>1, <1>2, GotoFields, ReturnFields, AbortFields DEF BuildCheck, At
  <1>5. /\ TRUE
        /\ UNCHANGED <<daemon, boot, row, dirs, up, conf, queue, executed, swallowed, orphaned>>
    BY <1>2, <1>3, StatusFields DEF BuildCheck, At, disk, Inv, TypeOK
  <1> HIDE DEF j
  <1>6. CallsOK'
    BY <1>1, <1>2, <1>3, <1>4, <1>5 DEF DownInv, CallsOK, BuildSteps, ActivateSteps, StopSteps,
        UnpublishSteps, j
  <1>7. SUFFICES ASSUME NEW k \in Jobs \ (swallowed' \cup orphaned') PROVE JobOK(k)'
    BY <1>6 DEF DownInv
  <1>8. JobOK(k) /\ CallsOK
    BY <1>5 DEF DownInv
  <1>9. CASE k # j
    BY <1>1, <1>3, <1>4, <1>5, <1>8, <1>9, NoneOutside, OtherJobs DEF j
  <1>10. CASE k = j
    <2>1. row[k].status = "running" /\ k \notin conf /\ up[k] \subseteq {"deps"}
      BY <1>8, <1>10 DEF JobOK, BuildingOK, j
    <2>2. \A u \in Threads : ~Activates(u, k) /\ ~Cancels(u, k) /\ (proc[u].job = k => proc[u].pc = "flag")
      BY <1>1, <1>3, <1>8, <1>10, <2>1 DEF JobOK, LateOK, Activates, Cancels, CallsOK,
          StoppedByCancel, j
    <2>3. \A u \in Threads : ~Activates(u, k)' /\ ~Cancels(u, k)' /\ (proc'[u].job = k => proc'[u].pc = "flag")
      BY <1>1, <1>4, <2>2 DEF Activates, Cancels
    <2>4. WaitingOK(k)' /\ BuildingOK(k)'
      BY <1>1, <1>2, <1>3, <1>4, <1>5, <1>8, <1>10, <2>1 DEF JobOK, WaitingOK, BuildingOK,
          CallsOK, BuildSteps, StopSteps, j
    <2>5. LateOK(k)' /\ StoppingOK(k)'
      BY <2>3 DEF LateOK, StoppingOK
    <2>6. EndingOK(k)'
      BY <1>1, <1>2, <1>3, <1>4, <1>5, <1>8, <1>10, <2>1 DEF JobOK, EndingOK, BuildingOK, CallsOK,
          BuildSteps, StopSteps, j
    <2> QED BY <2>4, <2>5, <2>6 DEF JobOK
  <1> QED BY <1>9, <1>10

\* The directory of the copy is made, or is there already.
LEMMA BuildDirectoryDown ==
  ASSUME Inv, DownInv, BuildDirectory
  PROVE  DownInv'
  <1> DEFINE j == proc[Worker].job
  <1>1. Worker \in Agents /\ \A u \in Threads : u \in Agents /\ u # Worker
    BY AgentsDistinct DEF Agents
  <1>2. /\ proc[Worker].op = "execute" /\ proc[Worker].pc = "mkdir"
    BY <1>1, NoneOutside DEF CallsOK, DownInv, Inv, ProcOK, Idle, BuildDirectory, At, BuildSteps,
        ActivateSteps, StopSteps, UnpublishSteps
  <1>3. j \in Jobs /\ j # NoJob
    BY <1>1, <1>2, BusyThread
  <1>4. /\ \A b \in Agents \ {Worker} : proc'[b] = proc[b]
        /\ proc'[Worker].op = proc[Worker].op /\ proc'[Worker].job = j
        /\ \/ proc'[Worker].pc = "stopApp" /\ proc'[Worker].seen = "failed"
           \/ proc'[Worker].pc \in {"deps"} /\ proc'[Worker].seen = proc[Worker].seen
    BY <1>1, <1>2, GotoFields, ReturnFields, AbortFields DEF BuildDirectory, At
  <1>5. /\ TRUE
        /\ UNCHANGED <<daemon, boot, row, up, conf, queue, executed, swallowed, orphaned>>
    BY <1>2, <1>3, StatusFields DEF BuildDirectory, At, disk, Inv, TypeOK
  <1> HIDE DEF j
  <1>6. CallsOK'
    BY <1>1, <1>2, <1>3, <1>4, <1>5 DEF DownInv, CallsOK, BuildSteps, ActivateSteps, StopSteps,
        UnpublishSteps, j
  <1>7. SUFFICES ASSUME NEW k \in Jobs \ (swallowed' \cup orphaned') PROVE JobOK(k)'
    BY <1>6 DEF DownInv
  <1>8. JobOK(k) /\ CallsOK
    BY <1>5 DEF DownInv
  <1>9. CASE k # j
    BY <1>1, <1>3, <1>4, <1>5, <1>8, <1>9, NoneOutside, OtherJobs DEF j
  <1>10. CASE k = j
    <2>1. row[k].status = "running" /\ k \notin conf /\ up[k] \subseteq {"deps"}
      BY <1>8, <1>10 DEF JobOK, BuildingOK, j
    <2>2. \A u \in Threads : ~Activates(u, k) /\ ~Cancels(u, k) /\ (proc[u].job = k => proc[u].pc = "flag")
      BY <1>1, <1>3, <1>8, <1>10, <2>1 DEF JobOK, LateOK, Activates, Cancels, CallsOK,
          StoppedByCancel, j
    <2>3. \A u \in Threads : ~Activates(u, k)' /\ ~Cancels(u, k)' /\ (proc'[u].job = k => proc'[u].pc = "flag")
      BY <1>1, <1>4, <2>2 DEF Activates, Cancels
    <2>4. WaitingOK(k)' /\ BuildingOK(k)'
      BY <1>1, <1>2, <1>3, <1>4, <1>5, <1>8, <1>10, <2>1 DEF JobOK, WaitingOK, BuildingOK,
          CallsOK, BuildSteps, StopSteps, j
    <2>5. LateOK(k)' /\ StoppingOK(k)'
      BY <2>3 DEF LateOK, StoppingOK
    <2>6. EndingOK(k)'
      BY <1>1, <1>2, <1>3, <1>4, <1>5, <1>8, <1>10, <2>1 DEF JobOK, EndingOK, BuildingOK, CallsOK,
          BuildSteps, StopSteps, j
    <2> QED BY <2>4, <2>5, <2>6 DEF JobOK
  <1> QED BY <1>9, <1>10

\* The dependencies of the copy run.
LEMMA BuildDependenciesDown ==
  ASSUME Inv, DownInv, BuildDependencies
  PROVE  DownInv'
  <1> DEFINE j == proc[Worker].job
  <1>1. Worker \in Agents /\ \A u \in Threads : u \in Agents /\ u # Worker
    BY AgentsDistinct DEF Agents
  <1>2. /\ proc[Worker].op = "execute" /\ proc[Worker].pc = "deps"
    BY <1>1, NoneOutside DEF CallsOK, DownInv, Inv, ProcOK, Idle, BuildDependencies, At,
        BuildSteps, ActivateSteps, StopSteps, UnpublishSteps
  <1>3. j \in Jobs /\ j # NoJob
    BY <1>1, <1>2, BusyThread
  <1>4. /\ \A b \in Agents \ {Worker} : proc'[b] = proc[b]
        /\ proc'[Worker].op = proc[Worker].op /\ proc'[Worker].job = j /\ proc'[Worker].seen = proc[Worker].seen
        /\ proc'[Worker].pc = "late"
    BY <1>1, <1>2, GotoFields, ReturnFields, AbortFields DEF BuildDependencies, At
  <1>5. /\ up'[j] = up[j] \cup {"deps"} /\ \A k \in Jobs \ {j} : up'[k] = up[k]
        /\ UNCHANGED <<daemon, boot, row, dirs, conf, queue, executed, swallowed, orphaned>>
    BY <1>2, <1>3, StatusFields DEF BuildDependencies, At, disk, Inv, TypeOK
  <1> HIDE DEF j
  <1>6. CallsOK'
    BY <1>1, <1>2, <1>3, <1>4, <1>5 DEF DownInv, CallsOK, BuildSteps, ActivateSteps, StopSteps,
        UnpublishSteps, j
  <1>7. SUFFICES ASSUME NEW k \in Jobs \ (swallowed' \cup orphaned') PROVE JobOK(k)'
    BY <1>6 DEF DownInv
  <1>8. JobOK(k) /\ CallsOK
    BY <1>5 DEF DownInv
  <1>9. CASE k # j
    BY <1>1, <1>3, <1>4, <1>5, <1>8, <1>9, NoneOutside, OtherJobs DEF j
  <1>10. CASE k = j
    <2>1. row[k].status = "running" /\ k \notin conf /\ up[k] \subseteq {"deps"}
      BY <1>8, <1>10 DEF JobOK, BuildingOK, j
    <2>2. \A u \in Threads : ~Activates(u, k) /\ ~Cancels(u, k) /\ (proc[u].job = k => proc[u].pc = "flag")
      BY <1>1, <1>3, <1>8, <1>10, <2>1 DEF JobOK, LateOK, Activates, Cancels, CallsOK,
          StoppedByCancel, j
    <2>3. \A u \in Threads : ~Activates(u, k)' /\ ~Cancels(u, k)' /\ (proc'[u].job = k => proc'[u].pc = "flag")
      BY <1>1, <1>4, <2>2 DEF Activates, Cancels
    <2>4. WaitingOK(k)' /\ BuildingOK(k)'
      BY <1>1, <1>2, <1>3, <1>4, <1>5, <1>8, <1>10, <2>1 DEF JobOK, WaitingOK, BuildingOK,
          CallsOK, BuildSteps, StopSteps, j
    <2>5. LateOK(k)' /\ StoppingOK(k)'
      BY <2>3 DEF LateOK, StoppingOK
    <2>6. EndingOK(k)'
      BY <1>1, <1>2, <1>3, <1>4, <1>5, <1>8, <1>10, <2>1 DEF JobOK, EndingOK, BuildingOK, CallsOK,
          BuildSteps, StopSteps, j
    <2> QED BY <2>4, <2>5, <2>6 DEF JobOK
  <1> QED BY <1>9, <1>10

\* The containers are created.
LEMMA BuildCreateDown ==
  ASSUME Inv, DownInv, BuildCreate
  PROVE  DownInv'
  <1> DEFINE j == proc[Worker].job
  <1>1. Worker \in Agents /\ \A u \in Threads : u \in Agents /\ u # Worker
    BY AgentsDistinct DEF Agents
  <1>2. /\ proc[Worker].op = "execute" /\ proc[Worker].pc = "create"
    BY <1>1, NoneOutside DEF CallsOK, DownInv, Inv, ProcOK, Idle, BuildCreate, At, BuildSteps,
        ActivateSteps, StopSteps, UnpublishSteps
  <1>3. j \in Jobs /\ j # NoJob
    BY <1>1, <1>2, BusyThread
  <1>4. /\ \A b \in Agents \ {Worker} : proc'[b] = proc[b]
        /\ proc'[Worker].op = proc[Worker].op /\ proc'[Worker].job = j
        /\ \/ proc'[Worker].pc = "stopApp" /\ proc'[Worker].seen = "cancelled" /\ row[j].cancel
           \/ proc'[Worker].pc \in {"record"} /\ proc'[Worker].seen = proc[Worker].seen
    BY <1>1, <1>2, GotoFields, ReturnFields, AbortFields DEF BuildCreate, At
  <1>5. /\ TRUE
        /\ UNCHANGED <<daemon, boot, row, dirs, up, conf, queue, executed, swallowed, orphaned>>
    BY <1>2, <1>3, StatusFields DEF BuildCreate, At, disk, Inv, TypeOK
  <1> HIDE DEF j
  <1>6. CallsOK'
    BY <1>1, <1>2, <1>3, <1>4, <1>5 DEF DownInv, CallsOK, BuildSteps, ActivateSteps, StopSteps,
        UnpublishSteps, j
  <1>7. SUFFICES ASSUME NEW k \in Jobs \ (swallowed' \cup orphaned') PROVE JobOK(k)'
    BY <1>6 DEF DownInv
  <1>8. JobOK(k) /\ CallsOK
    BY <1>5 DEF DownInv
  <1>9. CASE k # j
    BY <1>1, <1>3, <1>4, <1>5, <1>8, <1>9, NoneOutside, OtherJobs DEF j
  <1>10. CASE k = j
    <2>1. row[k].status = "running" /\ k \notin conf /\ up[k] \subseteq {"deps"}
      BY <1>8, <1>10 DEF JobOK, BuildingOK, j
    <2>2. \A u \in Threads : ~Activates(u, k) /\ ~Cancels(u, k) /\ (proc[u].job = k => proc[u].pc = "flag")
      BY <1>1, <1>3, <1>8, <1>10, <2>1 DEF JobOK, LateOK, Activates, Cancels, CallsOK,
          StoppedByCancel, j
    <2>3. \A u \in Threads : ~Activates(u, k)' /\ ~Cancels(u, k)' /\ (proc'[u].job = k => proc'[u].pc = "flag")
      BY <1>1, <1>4, <2>2 DEF Activates, Cancels
    <2>4. WaitingOK(k)' /\ BuildingOK(k)'
      BY <1>1, <1>2, <1>3, <1>4, <1>5, <1>8, <1>10, <2>1 DEF JobOK, WaitingOK, BuildingOK,
          CallsOK, BuildSteps, StopSteps, j
    <2>5. LateOK(k)' /\ StoppingOK(k)'
      BY <2>3 DEF LateOK, StoppingOK
    <2>6. EndingOK(k)'
      BY <1>1, <1>2, <1>3, <1>4, <1>5, <1>8, <1>10, <2>1 DEF JobOK, EndingOK, BuildingOK, CallsOK,
          BuildSteps, StopSteps, j
    <2> QED BY <2>4, <2>5, <2>6 DEF JobOK
  <1> QED BY <1>9, <1>10

\* An exception of the copy leads to its clean-up.
LEMMA BuildFailsDown ==
  ASSUME Inv, DownInv, BuildFails
  PROVE  DownInv'
  <1> DEFINE j == proc[Worker].job
  <1>1. Worker \in Agents /\ \A u \in Threads : u \in Agents /\ u # Worker
    BY AgentsDistinct DEF Agents
  <1>2. /\ proc[Worker].op = "execute" /\ proc[Worker].pc \in BuildSteps
    BY <1>1, NoneOutside DEF CallsOK, DownInv, Inv, ProcOK, Idle, BuildFails, At, BuildSteps,
        ActivateSteps, StopSteps, UnpublishSteps
  <1>3. j \in Jobs /\ j # NoJob
    BY <1>1, <1>2, BusyThread
  <1>4. /\ \A b \in Agents \ {Worker} : proc'[b] = proc[b]
        /\ proc'[Worker].op = proc[Worker].op /\ proc'[Worker].job = j
        /\ proc'[Worker].pc = "stopApp" /\ proc'[Worker].seen = "failed"
    BY <1>1, <1>2, GotoFields, ReturnFields, AbortFields DEF BuildFails, At
  <1>5. /\ TRUE
        /\ UNCHANGED <<daemon, boot, row, dirs, up, conf, queue, executed, swallowed, orphaned>>
    BY <1>2, <1>3, StatusFields DEF BuildFails, At, disk, Inv, TypeOK
  <1> HIDE DEF j
  <1>6. CallsOK'
    BY <1>1, <1>2, <1>3, <1>4, <1>5 DEF DownInv, CallsOK, BuildSteps, ActivateSteps, StopSteps,
        UnpublishSteps, j
  <1>7. SUFFICES ASSUME NEW k \in Jobs \ (swallowed' \cup orphaned') PROVE JobOK(k)'
    BY <1>6 DEF DownInv
  <1>8. JobOK(k) /\ CallsOK
    BY <1>5 DEF DownInv
  <1>9. CASE k # j
    BY <1>1, <1>3, <1>4, <1>5, <1>8, <1>9, NoneOutside, OtherJobs DEF j
  <1>10. CASE k = j
    <2>1. row[k].status = "running" /\ k \notin conf /\ up[k] \subseteq {"deps"}
      BY <1>8, <1>10 DEF JobOK, BuildingOK, j
    <2>2. \A u \in Threads : ~Activates(u, k) /\ ~Cancels(u, k) /\ (proc[u].job = k => proc[u].pc = "flag")
      BY <1>1, <1>3, <1>8, <1>10, <2>1 DEF JobOK, LateOK, Activates, Cancels, CallsOK,
          StoppedByCancel, j
    <2>3. \A u \in Threads : ~Activates(u, k)' /\ ~Cancels(u, k)' /\ (proc'[u].job = k => proc'[u].pc = "flag")
      BY <1>1, <1>4, <2>2 DEF Activates, Cancels
    <2>4. WaitingOK(k)' /\ BuildingOK(k)'
      BY <1>1, <1>2, <1>3, <1>4, <1>5, <1>8, <1>10, <2>1 DEF JobOK, WaitingOK, BuildingOK,
          CallsOK, BuildSteps, StopSteps, j
    <2>5. LateOK(k)' /\ StoppingOK(k)'
      BY <2>3 DEF LateOK, StoppingOK
    <2>6. EndingOK(k)'
      BY <1>1, <1>2, <1>3, <1>4, <1>5, <1>8, <1>10, <2>1 DEF JobOK, EndingOK, BuildingOK, CallsOK,
          BuildSteps, StopSteps, j
    <2> QED BY <2>4, <2>5, <2>6 DEF JobOK
  <1> QED BY <1>9, <1>10

\* The copy ends: with its containers down unless it is staged.
LEMMA BuildRecordDown ==
  ASSUME Inv, DownInv, BuildRecord
  PROVE  DownInv'
  <1> DEFINE j == proc[Worker].job
  <1>1. Worker \in Agents /\ \A u \in Threads : u \in Agents /\ u # Worker
    BY AgentsDistinct DEF Agents
  <1>2. /\ proc[Worker].op = "execute" /\ proc[Worker].pc = "record"
    BY <1>1, NoneOutside DEF CallsOK, DownInv, Inv, ProcOK, Idle, BuildRecord, At, BuildSteps,
        ActivateSteps, StopSteps, UnpublishSteps
  <1>3. j \in Jobs /\ j # NoJob
    BY <1>1, <1>2, BusyThread
  <1>4. /\ \A b \in Agents \ {Worker} : proc'[b] = proc[b]
        /\ proc'[Worker].op = "none" /\ proc'[Worker].job = NoJob
    BY <1>1, <1>2, GotoFields, ReturnFields, AbortFields DEF BuildRecord, At
  <1>5. /\ row'[j].status = proc[Worker].seen /\ row'[j].cancel = row[j].cancel
        /\ \A k \in Jobs \ {j} : row'[k] = row[k]
        /\ UNCHANGED <<daemon, boot, dirs, up, conf, queue, executed, swallowed, orphaned>>
    BY <1>2, <1>3, StatusFields DEF BuildRecord, At, disk, Inv, TypeOK
  <1> HIDE DEF j
  <1>6. CallsOK'
    BY <1>1, <1>2, <1>3, <1>4, <1>5 DEF DownInv, CallsOK, BuildSteps, ActivateSteps, StopSteps,
        UnpublishSteps, j
  <1>7. SUFFICES ASSUME NEW k \in Jobs \ (swallowed' \cup orphaned') PROVE JobOK(k)'
    BY <1>6 DEF DownInv
  <1>8. JobOK(k) /\ CallsOK
    BY <1>5 DEF DownInv
  <1>9. CASE k # j
    BY <1>1, <1>3, <1>4, <1>5, <1>8, <1>9, NoneOutside, OtherJobs DEF j
  <1>10. CASE k = j
    <2>1. row[k].status = "running" /\ k \notin conf /\ up[k] \subseteq {"deps"}
      BY <1>8, <1>10 DEF JobOK, BuildingOK, j
    <2>2. \A u \in Threads : ~Activates(u, k) /\ ~Cancels(u, k) /\ (proc[u].job = k => proc[u].pc = "flag")
      BY <1>1, <1>3, <1>8, <1>10, <2>1 DEF JobOK, LateOK, Activates, Cancels, CallsOK,
          StoppedByCancel, j
    <2>3. \A u \in Threads : ~Activates(u, k)' /\ ~Cancels(u, k)' /\ (proc'[u].job = k => proc'[u].pc = "flag")
      BY <1>1, <1>4, <2>2 DEF Activates, Cancels
    <2>4. WaitingOK(k)' /\ BuildingOK(k)'
      BY <1>1, <1>2, <1>3, <1>4, <1>5, <1>8, <1>10, <2>1 DEF JobOK, WaitingOK, BuildingOK,
          CallsOK, BuildSteps, StopSteps, j
    <2>5. LateOK(k)' /\ StoppingOK(k)'
      BY <2>3 DEF LateOK, StoppingOK
    <2>6. EndingOK(k)'
      BY <1>1, <1>2, <1>3, <1>4, <1>5, <1>8, <1>10, <2>1 DEF JobOK, EndingOK, BuildingOK, CallsOK,
          BuildSteps, StopSteps, j
    <2> QED BY <2>4, <2>5, <2>6 DEF JobOK
  <1> QED BY <1>9, <1>10

\* The clean-up of a copy stops a container.
LEMMA StopWorkerDown ==
  ASSUME Inv, DownInv, Stop(Worker)
  PROVE  DownInv'
  <1> DEFINE j == proc[Worker].job
  <1>1. Worker \in Agents /\ \A u \in Threads : u \in Agents /\ u # Worker
    BY AgentsDistinct DEF Agents
  <1>2. /\ proc[Worker].op = "execute" /\ proc[Worker].pc \in StopSteps
    BY <1>1, NoneOutside DEF CallsOK, DownInv, Inv, ProcOK, Idle, Stop, At, AfterStop, BuildSteps,
        ActivateSteps, StopSteps, UnpublishSteps
  <1>3. j \in Jobs /\ j # NoJob
    BY <1>1, <1>2, BusyThread
  <1>4. /\ \A b \in Agents \ {Worker} : proc'[b] = proc[b]
        /\ proc'[Worker].op = proc[Worker].op /\ proc'[Worker].job = j /\ proc'[Worker].seen = proc[Worker].seen
        /\ proc'[Worker].pc = IF proc[Worker].pc = "stopApp" THEN "stopWeb"
                         ELSE IF proc[Worker].pc = "stopWeb" THEN "stopDeps" ELSE "record"
    BY <1>1, <1>2, GotoFields, ReturnFields, AbortFields DEF Stop, At, AfterStop
  <1>5. /\ \/ swallowed' = swallowed /\ up'[j] = up[j] \ {StopPart[proc[Worker].pc]}
           \/ up' = up /\ swallowed' = swallowed \cup {j}
        /\ \A k \in Jobs \ {j} : up'[k] = up[k]
        /\ UNCHANGED <<daemon, boot, row, dirs, conf, queue, executed, orphaned>>
    BY <1>2, <1>3, StatusFields DEF Stop, At, AfterStop, disk, Inv, TypeOK
  <1> HIDE DEF j
  <1>6. CallsOK'
    BY <1>1, <1>2, <1>3, <1>4, <1>5 DEF DownInv, CallsOK, BuildSteps, ActivateSteps, StopSteps,
        UnpublishSteps, j
  <1>7. SUFFICES ASSUME NEW k \in Jobs \ (swallowed' \cup orphaned') PROVE JobOK(k)'
    BY <1>6 DEF DownInv
  <1>8. JobOK(k) /\ CallsOK /\ (k = j => up'[j] = up[j] \ {StopPart[proc[Worker].pc]})
    BY <1>5 DEF DownInv
  <1>9. CASE k # j
    BY <1>1, <1>3, <1>4, <1>5, <1>8, <1>9, NoneOutside, OtherJobs DEF j
  <1>10. CASE k = j
    <2>1. row[k].status = "running" /\ k \notin conf /\ up[k] \subseteq {"deps"}
      BY <1>8, <1>10 DEF JobOK, BuildingOK, j
    <2>2. \A u \in Threads : ~Activates(u, k) /\ ~Cancels(u, k) /\ (proc[u].job = k => proc[u].pc = "flag")
      BY <1>1, <1>3, <1>8, <1>10, <2>1 DEF JobOK, LateOK, Activates, Cancels, CallsOK,
          StoppedByCancel, j
    <2>3. \A u \in Threads : ~Activates(u, k)' /\ ~Cancels(u, k)' /\ (proc'[u].job = k => proc'[u].pc = "flag")
      BY <1>1, <1>4, <2>2 DEF Activates, Cancels
    <2>4. WaitingOK(k)' /\ BuildingOK(k)'
      BY <1>1, <1>2, <1>3, <1>4, <1>5, <1>8, <1>10, <2>1 DEF JobOK, WaitingOK, BuildingOK,
          CallsOK, BuildSteps, StopSteps, StopPart, j
    <2>5. LateOK(k)' /\ StoppingOK(k)'
      BY <2>3 DEF LateOK, StoppingOK
    <2>6. EndingOK(k)'
      BY <1>1, <1>2, <1>3, <1>4, <1>5, <1>8, <1>10, <2>1 DEF JobOK, EndingOK, BuildingOK, CallsOK,
          BuildSteps, StopSteps, j
    <2> QED BY <2>4, <2>5, <2>6 DEF JobOK
  <1> QED BY <1>9, <1>10

\* The worker takes a job that is queued and has nothing.
LEMMA TakeDown ==
  ASSUME Inv, DownInv, Take
  PROVE  DownInv'
  <1> DEFINE j == Head(queue)
  <1>1. Worker \in Agents /\ \A u \in Threads : u \in Agents /\ u # Worker
    BY AgentsDistinct DEF Agents
  <1>2. queue \in Seq(Jobs) /\ queue # <<>>
    BY DEF Inv, TypeOK, Take
  <1>3. /\ j \in Jobs /\ j = queue[1] /\ 1 \in 1 .. Len(queue) /\ j # NoJob
        /\ queue' = Tail(queue)
        /\ \A i \in 1 .. Len(queue') : i + 1 \in 1 .. Len(queue) /\ queue'[i] = queue[i + 1]
    BY <1>2, NoneOutside DEF Take
  <1>4. \A i \in 1 .. Len(queue') : queue'[i] # j
    BY <1>2, <1>3 DEF Inv, QueueOK
  <1>5. /\ proc'[Worker].op = "execute" /\ proc'[Worker].job = j
        /\ proc'[Worker].pc = "check" /\ proc'[Worker].seen = "staged"
        /\ proc[Worker].job = NoJob
        /\ \A b \in Agents \ {Worker} : proc'[b] = proc[b]
    BY <1>1 DEF Take, Inv, TypeOK, Idle
  <1>6. /\ row'[j].status = "running" /\ row'[j].cancel = row[j].cancel
        /\ \A k \in Jobs \ {j} : row'[k] = row[k]
        /\ daemon = "up"
        /\ UNCHANGED <<daemon, boot, up, conf, swallowed, orphaned>>
    BY <1>3, StatusFields DEF Take
  <1> HIDE DEF j
  <1>7. CallsOK'
    BY <1>1, <1>3, <1>5, <1>6 DEF DownInv, CallsOK, BuildSteps
  <1>8. SUFFICES ASSUME NEW k \in Jobs \ (swallowed' \cup orphaned') PROVE JobOK(k)'
    BY <1>7 DEF DownInv
  <1>9. JobOK(k) /\ CallsOK
    BY <1>6 DEF DownInv
  <1>10. CASE k # j
    BY <1>1, <1>3, <1>5, <1>6, <1>9, <1>10, NoneOutside, OtherJobs
  <1>11. CASE k = j
    <2>1. row[k].status = "queued" /\ up[k] = {} /\ k \notin conf
      BY <1>3, <1>9, <1>11 DEF JobOK, WaitingOK
    <2>2. \A u \in Threads : ~Activates(u, k) /\ ~Cancels(u, k) /\ (proc[u].job = k => proc[u].pc = "flag")
      BY <1>1, <1>3, <1>9, <1>11, <2>1 DEF JobOK, LateOK, Activates, Cancels, CallsOK,
          StoppedByCancel
    <2>3. \A u \in Threads : ~Activates(u, k)' /\ ~Cancels(u, k)' /\ (proc'[u].job = k => proc'[u].pc = "flag")
      BY <1>1, <1>5, <2>2 DEF Activates, Cancels
    <2>4. WaitingOK(k)' /\ BuildingOK(k)'
      BY <1>4, <1>5, <1>6, <1>11, <2>1 DEF WaitingOK, BuildingOK
    <2>5. LateOK(k)' /\ StoppingOK(k)'
      BY <2>3 DEF LateOK, StoppingOK
    <2>6. EndingOK(k)'
      BY <1>6, <1>11 DEF EndingOK
    <2> QED BY <2>4, <2>5, <2>6 DEF JobOK
  <1> QED BY <1>10, <1>11

\* A cancel reads the status of its job.
LEMMA CancelReadDown ==
  ASSUME Inv, DownInv, NEW t \in Threads, NEW j \in Jobs, CancelRead(t, j)
  PROVE  DownInv'
  <1>1. t \in Agents /\ t # Worker /\ (\A u \in Threads : u \in Agents) /\ Worker \in Agents
    BY AgentsDistinct DEF Agents
  <1>2. /\ proc'[t].op = "cancel" /\ proc'[t].job = j
        /\ proc'[t].pc = "flag" /\ proc'[t].seen = row[j].status
        /\ proc[t].job = NoJob /\ proc[t].op = "none" /\ j # NoJob
        /\ \A b \in Agents \ {t} : proc'[b] = proc[b]
    BY <1>1, NoneOutside DEF CancelRead, Inv, TypeOK, Idle
  <1>3. daemon = "up" /\ UNCHANGED <<daemon, boot, row, up, conf, queue, swallowed, orphaned>>
    BY DEF CancelRead, disk
  <1>4. CallsOK'
    BY <1>1, <1>2, <1>3 DEF DownInv, CallsOK
  <1>5. SUFFICES ASSUME NEW k \in Jobs \ (swallowed' \cup orphaned') PROVE JobOK(k)'
    BY <1>4 DEF DownInv
  <1>6. JobOK(k) /\ CallsOK
    BY <1>3 DEF DownInv
  <1>7. CASE k # j
    BY <1>1, <1>2, <1>3, <1>6, <1>7, NoneOutside, OtherJobs
  <1>8. CASE k = j
    <2>1. \A u \in Threads : Activates(u, k) <=> Activates(u, k)'
      BY <1>1, <1>2 DEF Activates
    <2>2. \A x \in Parts : Starts(x, k) <=> Starts(x, k)'
      BY <1>1, <1>2, <2>1 DEF Starts, Activates
    <2>3. Publishes(k) <=> Publishes(k)'
      BY <1>1, <1>2, <2>1 DEF Publishes, Activates
    <2>4. up[k] \subseteq Parts
      BY DEF Inv, TypeOK
    <2>5. WaitingOK(k)' /\ BuildingOK(k)'
      BY <1>1, <1>2, <1>3, <1>6 DEF JobOK, WaitingOK, BuildingOK
    <2>6. LateOK(k)'
      BY <1>1, <1>2, <1>3, <1>6, <1>8 DEF JobOK, LateOK, Activates, Cancels
    <2>7. StoppingOK(k)'
      BY <1>1, <1>2, <1>3, <1>6, <2>1, <2>2, <2>3 DEF JobOK, StoppingOK, Activates
    <2>8. EndingOK(k)'
      BY <1>3, <1>6, <2>2, <2>3, <2>4 DEF JobOK, EndingOK
    <2> QED BY <2>5, <2>6, <2>7, <2>8 DEF JobOK
  <1> QED BY <1>7, <1>8

\* An activation of a staged job begins; it is the only one.
LEMMA ActivateBeginDown ==
  ASSUME Inv, DownInv, NEW t \in Threads, NEW j \in Jobs, ActivateBegin(t, j)
  PROVE  DownInv'
  <1>1. t \in Agents /\ t # Worker /\ (\A u \in Threads : u \in Agents) /\ Worker \in Agents
    BY AgentsDistinct DEF Agents
  <1>2. /\ proc'[t].op = "activate" /\ proc'[t].job = j /\ proc'[t].pc = "check"
        /\ proc[t].job = NoJob /\ proc[t].op = "none" /\ j # NoJob
        /\ \A b \in Agents \ {t} : proc'[b] = proc[b]
    BY <1>1, NoneOutside DEF ActivateBegin, Inv, TypeOK, Idle
  <1>3. /\ daemon = "up" /\ row[j].status = "staged" /\ \A u \in Threads : proc[u].op # "activate"
        /\ UNCHANGED <<daemon, boot, row, up, conf, queue, swallowed, orphaned>>
    BY DEF ActivateBegin, LockFree, disk
  <1>4. CallsOK'
    BY <1>1, <1>2, <1>3 DEF DownInv, CallsOK, ActivateSteps
  <1>5. SUFFICES ASSUME NEW k \in Jobs \ (swallowed' \cup orphaned') PROVE JobOK(k)'
    BY <1>4 DEF DownInv
  <1>6. JobOK(k) /\ CallsOK
    BY <1>3 DEF DownInv
  <1>7. CASE k # j
    BY <1>1, <1>2, <1>3, <1>6, <1>7, NoneOutside, OtherJobs
  <1>8. CASE k = j
    <2>1. /\ \A x \in Parts : ~Starts(x, k) /\ ~Publishes(k)
      BY <1>3 DEF Starts, Publishes, Activates
    <2>2. WaitingOK(k)' /\ BuildingOK(k)'
      BY <1>1, <1>2, <1>3, <1>6 DEF JobOK, WaitingOK, BuildingOK
    <2>3. LateOK(k)'
      BY <1>1, <1>2, <1>3, <1>6, <1>8 DEF JobOK, LateOK, Activates, Cancels
    <2>4. \A x : ~Past(x, proc'[t].pc)
      BY <1>2 DEF Past
    <2>5. StoppingOK(k)'
      BY <1>1, <1>2, <1>3, <1>6, <2>1, <2>4 DEF JobOK, StoppingOK, Activates, Parts
    <2>6. EndingOK(k)'
      BY <1>3, <1>8 DEF EndingOK
    <2> QED BY <2>2, <2>3, <2>5, <2>6 DEF JobOK
  <1> QED BY <1>7, <1>8

\* A new job has nothing, and no thread.
LEMMA CloneDown ==
  ASSUME Inv, DownInv, NEW j \in Jobs, NEW tgt \in Targets, Clone(j, tgt)
  PROVE  DownInv'
  <1>1. Worker \in Agents /\ \A u \in Threads : u \in Agents
    BY DEF Agents
  <1>2. /\ row'[j].status = "queued" /\ row[j].status = "none"
        /\ \A k \in Jobs \ {j} : row'[k] = row[k]
        /\ daemon = "up"
        /\ UNCHANGED <<daemon, boot, up, conf, proc, swallowed, orphaned>>
    BY DEF Clone, Inv, TypeOK
  <1>3. /\ queue \in Seq(Jobs) /\ Len(queue) \in Nat
        /\ \A i \in 1 .. Len(queue') :
              queue'[i] = j \/ (i \in 1 .. Len(queue) /\ queue'[i] = queue[i])
    BY DEF Clone, Inv, TypeOK
  <1>4. \A a \in Agents : proc[a].job # j
    BY <1>2, NoneOutside DEF Inv, ProcOK, Idle
  <1>5. CallsOK'
    BY <1>2 DEF DownInv, CallsOK
  <1>6. SUFFICES ASSUME NEW k \in Jobs \ (swallowed' \cup orphaned') PROVE JobOK(k)'
    BY <1>5 DEF DownInv
  <1>7. JobOK(k)
    BY <1>2 DEF DownInv
  <1>8. \A x : (Starts(x, k) <=> Starts(x, k)') /\ (Publishes(k) <=> Publishes(k)')
    BY <1>2 DEF Starts, Publishes, Activates
  <1>9. CASE k # j
    <2>1. WaitingOK(k)' /\ BuildingOK(k)'
      BY <1>2, <1>3, <1>7, <1>9 DEF JobOK, WaitingOK, BuildingOK
    <2>2. LateOK(k)' /\ EndingOK(k)'
      BY <1>2, <1>7, <1>8, <1>9 DEF JobOK, LateOK, EndingOK, Activates, Cancels
    <2>3. StoppingOK(k)'
      BY <1>2, <1>7, <1>8, <1>9 DEF JobOK, StoppingOK, Activates
    <2> QED BY <2>1, <2>2, <2>3 DEF JobOK
  <1>10. CASE k = j
    <2>1. WaitingOK(k)' /\ EndingOK(k)'
      BY <1>2, <1>7, <1>10 DEF JobOK, WaitingOK, EndingOK
    <2>2. BuildingOK(k)' /\ LateOK(k)' /\ StoppingOK(k)'
      BY <1>1, <1>2, <1>4, <1>10 DEF BuildingOK, LateOK, StoppingOK, Activates, Cancels
    <2> QED BY <2>1, <2>2 DEF JobOK
  <1> QED BY <1>9, <1>10

\* A crash: a job that had a thread is in flight, or not spoken of any more.
LEMMA CrashDown ==
  ASSUME Inv, DownInv, Crash
  PROVE  DownInv'
  <1>1. /\ \A a \in Agents : proc'[a].op = "none" /\ proc'[a].job = NoJob
        /\ daemon' = "down" /\ boot' = {} /\ queue' = <<>>
        /\ orphaned \subseteq orphaned'
        /\ UNCHANGED <<row, up, conf, swallowed>>
    BY DEF Crash, Idle, disk
  <1>2. Worker \in Agents /\ \A u \in Threads : u \in Agents
    BY DEF Agents
  <1>3. CallsOK'
    BY <1>1, <1>2 DEF CallsOK
  <1>4. SUFFICES ASSUME NEW k \in Jobs \ (swallowed' \cup orphaned') PROVE JobOK(k)'
    BY <1>3 DEF DownInv
  <1>5. JobOK(k)
    BY <1>1 DEF DownInv
  <1>6. row[k].status \in InFlight \/ (k \notin boot /\ \A a \in Agents : proc[a].job # k)
    BY <1>4 DEF Crash
  <1>7. EndingOK(k)'
    <2>1. CASE row[k].status \in InFlight
      BY <1>1, <2>1 DEF EndingOK, InFlight
    <2>2. CASE k \notin boot /\ \A a \in Agents : proc[a].job # k
      <3>1. ~Publishes(k) /\ \A x : ~Starts(x, k)
        BY <1>2, <2>2 DEF Starts, Publishes, Activates
      <3> QED BY <1>1, <1>5, <2>2, <3>1 DEF JobOK, EndingOK
    <2> QED BY <1>6, <2>1, <2>2
  <1>8. row'[k].status \in {"none", "queued"} => up'[k] = {} /\ k \notin conf'
    BY <1>1, <1>5 DEF JobOK, WaitingOK
  <1>9. Worker \in Agents /\ (\A u \in Threads : u \in Agents) /\ NoJob # k
    BY <1>2, NoneOutside
  <1> QED BY <1>1, <1>7, <1>8, <1>9 DEF JobOK, WaitingOK, BuildingOK, LateOK, StoppingOK,
      Activates, Cancels

\* A start marks what was in flight and stops it.
LEMMA BootDown ==
  ASSUME Inv, DownInv, Boot
  PROVE  DownInv'
  <1>1. Worker \in Agents /\ \A u \in Threads : u \in Agents
    BY DEF Agents
  <1>2. daemon # "up" /\ UNCHANGED <<proc, queue, orphaned, conf>>
    BY DEF Boot, BootMark, BootStop, BootServe, disk
  <1>3. queue = <<>> /\ \A a \in Agents : proc[a].op = "none" /\ proc[a].job = NoJob
    BY <1>2 DEF DownInv, CallsOK
  <1>4. \A k \in Jobs : ~Publishes(k) /\ \A x : ~Starts(x, k)
    BY <1>1, <1>3 DEF Starts, Publishes, Activates
  <1>5. CallsOK'
    BY <1>1, <1>2, <1>3 DEF Boot, BootMark, BootStop, BootServe, DownInv, CallsOK
  <1>6. SUFFICES ASSUME NEW k \in Jobs \ (swallowed' \cup orphaned') PROVE JobOK(k)'
    BY <1>5 DEF DownInv
  <1>7. swallowed \subseteq swallowed'
    BY DEF Boot, BootMark, BootStop, BootServe
  <1>8. JobOK(k)
    BY <1>2, <1>7 DEF DownInv
  <1>9. /\ row'[k].status \in {"none", "queued"} => up'[k] = {} /\ k \notin conf'
        /\ EndingOK(k)'
    <2>1. CASE BootMark
      <3>1. row[k].status \in InFlight => row'[k].status = "interrupted"
        BY <2>1 DEF BootMark, BootRows, Inv, TypeOK
      <3>2. row[k].status \notin InFlight => row'[k] = row[k]
        BY <2>1 DEF BootMark, BootRows, Inv, TypeOK
      <3>3. up' = up /\ conf' = conf /\ (row[k].status \in InFlight => k \in boot') /\ boot = {}
        BY <2>1 DEF BootMark, DownInv, CallsOK
      <3> QED BY <1>4, <1>8, <3>1, <3>2, <3>3 DEF JobOK, WaitingOK, EndingOK, InFlight
    <2>2. CASE BootStop
      <3>1. row' = row /\ conf' = conf
        BY <2>2 DEF BootStop
      <3>2. up'[k] \subseteq up[k] /\ (k \in boot' \/ (k \in boot /\ up'[k] = {}) \/ (k \notin boot /\ up'[k] = up[k]))
        BY <1>6, <2>2 DEF BootStop, Inv, TypeOK
      <3> QED BY <1>4, <1>8, <3>1, <3>2 DEF JobOK, WaitingOK, EndingOK
    <2>3. CASE BootServe
      BY <1>4, <1>8, <2>3 DEF BootServe, disk, JobOK, WaitingOK, EndingOK
    <2> QED BY <2>1, <2>2, <2>3 DEF Boot
  <1>10. (\A a \in Agents : proc'[a].job = NoJob) /\ queue' = <<>> /\ NoJob # k
    BY <1>2, <1>3, NoneOutside
  <1> QED BY <1>1, <1>9, <1>10 DEF JobOK, WaitingOK, BuildingOK, LateOK, StoppingOK, Activates,
      Cancels

\* The inductive invariant of what ended: the calls of the threads, and for
\* every job what waits, is copied, activated, cancelled or over.
THEOREM EndingInvariant == Spec => []DownInv
  <1>1. Init => DownInv
    <2> SUFFICES ASSUME Init PROVE DownInv
      OBVIOUS
    <2>1. Worker \in Agents /\ (\A u \in Threads : u \in Agents) /\ \A k \in Jobs : NoJob # k
      BY NoneOutside DEF Agents
    <2>2. \A a \in Agents : proc[a].op = "none" /\ proc[a].job = NoJob
      BY DEF Init, Idle
    <2>3. CallsOK
      BY <2>1, <2>2 DEF Init, CallsOK
    <2>4. \A k \in Jobs : JobOK(k)
      BY <2>1, <2>2 DEF Init, JobOK, WaitingOK, BuildingOK, LateOK, StoppingOK, EndingOK,
          Activates, Cancels
    <2> QED BY <2>3, <2>4 DEF DownInv
  <1>2. Inv /\ DownInv /\ [Next]_vars => DownInv'
    <2> SUFFICES ASSUME Inv, DownInv, [Next]_vars PROVE DownInv'
      OBVIOUS
    <2>1. CASE Crash \/ Boot
      BY <2>1, CrashDown, BootDown
    <2>2. CASE WorkerStep
      BY <2>2, TakeDown, BuildCheckDown, BuildDirectoryDown, BuildDependenciesDown,
         BuildCreateDown, BuildFailsDown, BuildRecordDown, StopWorkerDown DEF WorkerStep
    <2>3. CASE Request
      BY <2>3, CloneDown, CancelReadDown, ActivateBeginDown DEF Request
    <2>4. ASSUME NEW t \in Threads, ThreadStep(t) PROVE DownInv'
      BY <2>4, StopThreadDown, UnpublishLookDown, UnpublishUnlinkDown, UnpublishReloadDown,
         UnpublishFailsDown, CancelFlagDown, CancelSettleDown, ActivateCheckDown,
         ActivateMarkDown, ActivateStartDown, ActivateHealthDown, ActivateStartWebDown,
         ActivateHealthWebDown, ActivatePublishDown, ActivateReloadDown,
         ActivateFinishDown, ActivateFailsDown, ActivateSettleDown DEF ThreadStep
    <2>5. CASE UNCHANGED vars
      BY <2>5 DEF vars, disk, DownInv, CallsOK, JobOK, WaitingOK, BuildingOK, LateOK, StoppingOK,
         EndingOK, Starts, Publishes, Activates, Cancels
    <2> QED BY <2>1, <2>2, <2>3, <2>4, <2>5 DEF Next
  <1> QED BY <1>1, <1>2, OperatorInvariant, PTL DEF Spec

\* A job that ended without success leaves no container running behind it, and
\* no route unless the daemon died, for every set of jobs and threads, and
\* wherever cancels, the activation, the copy and crashes cut into each other.
THEOREM EndedIsDownHolds == Spec => []EndedIsDown
  <1>1. DownInv => EndedIsDown
    <2> SUFFICES ASSUME DownInv, NEW j \in Jobs \ (swallowed \cup orphaned), Quiet(j),
                        row[j].status \in {"failed", "cancelled", "activation_failed", "interrupted"}
                 PROVE  up[j] = {} /\ (j \in conf => row[j].status = "interrupted")
      BY DEF EndedIsDown
    <2>1. JobOK(j) /\ boot = {}
      BY DEF DownInv, CallsOK, Quiet
    <2>2. ~Publishes(j) /\ \A x : ~Starts(x, j)
      BY DEF Starts, Publishes, Activates, Quiet, Agents
    <2> QED BY <2>1, <2>2 DEF JobOK, EndingOK
  <1> QED BY <1>1, EndingInvariant, PTL

=============================================================================
