---------------------------- MODULE MCHostAgents ----------------------------
(* The two agents of the host that act for the portal: the Docker action      *)
(* broker and the native operator.  They share no state; in each behaviour    *)
(* one of them runs.                                                          *)
EXTENDS MCDockerActionLease

CONSTANTS Clones, Targets, Threads, Worker, Frontend, NoJob, NoTarget

VARIABLES daemon, boot, row, dirs, up, conf, queue, thread, executed, swallowed, orphaned

operatorVars == <<daemon, boot, row, dirs, up, conf, queue, thread, executed, swallowed, orphaned>>

Operator == INSTANCE ApplicationOperator WITH Jobs <- Clones, proc <- thread

agents == <<vars, mode, operatorVars>>

AgentsInit == Init /\ Operator!Init /\ mode \in {"expiry", "recovery", "operator"}

Broker(A) == mode # "operator" /\ A /\ UNCHANGED <<mode, operatorVars>>
Operate(A) == mode = "operator" /\ A /\ UNCHANGED <<mode, vars>>

AgentsNext == Broker(MixedNext) \/ Operate(Operator!Next)

\* The fairness of MixedSpec and of the operator's FairSpec.
AgentsSpec ==
    /\ AgentsInit /\ [][AgentsNext]_agents
    /\ WF_agents(Broker(Progress)) /\ WF_agents(Broker(Restart))
    /\ WF_agents(Operate(Operator!Boot)) /\ WF_agents(Operate(Operator!WorkerStep))
    /\ \A t \in Threads : WF_agents(Operate(Operator!ThreadStep(t)))

\* A clone job in flight ends, or the daemon that restarts marks it.
InFlightSettles == Operator!InFlightSettles

\* The values the variables of the broker and of the operator take.
AgentsTypeOK == TypeOK /\ Operator!TypeOK
=============================================================================
