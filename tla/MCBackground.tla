---------------------------- MODULE MCBackground ----------------------------
(* The two activities that go on behind the requests of the portal: the       *)
(* scheduler with its queue, and the status runs with their streams.  They    *)
(* share no state; in each behaviour one of them runs.                        *)
EXTENDS MCBackupScheduler, StatusStream

CONSTANT r1

\* One status run, watched by its owner.
OnlyRun == [w \in Watchers |-> r1]
OnlySubject == [w \in Watchers |-> "owner"]

\* The scheduler with every fault, the scheduler without any, or the streams.
VARIABLE mode

all == <<mode, svars, streamVars>>

BackgroundInit == mode \in {"faulty", "healthy", "stream"} /\ SchedulerInit /\ StreamInit

Schedule(A) == A /\ UNCHANGED <<mode, streamVars>>
Stream(A) == mode = "stream" /\ A /\ UNCHANGED <<mode, svars>>

BackgroundNext ==
    \/ mode = "faulty" /\ Schedule(SchedulerNext)
    \/ mode = "healthy" /\ Schedule(Healthy)
    \/ Stream(StreamNext)

\* The fairness of HealthySpec and of FairStreamSpec, each for its own mode.
BackgroundSpec ==
    /\ BackgroundInit /\ [][BackgroundNext]_all
    /\ \A r \in Replicas : WF_all(mode = "healthy" /\ Schedule(LoopStep(r)))
    /\ \A p \in Portals : WF_all(mode = "healthy" /\ Schedule(OtherInside(p)))
    /\ \A r \in StatusRuns : WF_all(Stream(Emit(r)))
    /\ \A k \in Conns :
          WF_all(Stream(turn = NoRun /\ Pump(k))) /\ WF_all(Stream(turn = NoRun /\ Notice(k)))
    /\ \A w \in Watchers :
          /\ WF_all(Stream(turn = NoRun /\ (Connect(w) \/ Refuse(w))))
          /\ WF_all(Stream(turn = NoRun /\ (Receive(w) \/ SeesEnd(w))))

\* Without crashes and I/O errors every admitted job is taken up and settled
\* by one of the loops, unless the queue has stopped fail-closed.
HealthyDrains == mode = "healthy" => QueueDrains

\* A browser that keeps its page open reaches run-completed or a definite
\* refusal, unless the run itself was aborted, and when nobody watches any more
\* every slot of the quotas is given back.
StreamEnds == mode = "stream" => WatchEnds /\ SlotsReturn

\* The values the variables of the scheduler, its queue and the streams take.
BackgroundTypeOK == SchedulerTypeOK /\ StreamTypeOK
=============================================================================
