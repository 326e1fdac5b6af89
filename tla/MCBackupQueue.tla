--------------------------- MODULE MCBackupQueue ---------------------------
(* Instances of BackupQueue for TLC: every call with a crash at every write,  *)
(* or admissions alone against a moving clock.                                *)
EXTENDS BackupQueue, TLC

\* Jobs 1 and 3 are the same work; 1 and 2 have the same requester.
ThreeKeys == (1 :> "a") @@ (2 :> "b") @@ (3 :> "a")
ThreePrincipals == (1 :> "u") @@ (2 :> "u") @@ (3 :> "v")

VARIABLE mode

\* One admission per requester in a window of two ticks, a ledger of two.
Rate == INSTANCE BackupQueue
        WITH MaxPerPrincipal <- 1, Window <- 2, MaxLedger <- 2

\* What the rate window depends on.
RateNext ==
    \/ \E p \in Procs : Rate!RequestAdmit(p) \/ Rate!Inside(p) \/ Rate!Crash(p)
    \/ Rate!OperatorClearsLock
    \/ Rate!Tick

QueueInit == Init /\ mode \in {"calls", "rate"}
QueueNext ==
    /\ UNCHANGED mode
    /\ \/ mode = "calls" /\ Next /\ UNCHANGED clock
       \/ mode = "rate" /\ RateNext
QueueSpec == QueueInit /\ [][QueueNext]_<<vars, mode>>

\* Old clock readings cost the rate window no more than the time their callers
\* waited, whatever the order of the admissions and compactions.
RateKept == mode = "rate" => Rate!RateBound

\* The window the contract promises, by the instants at which jobs are admitted.
SlidingWindowKept == mode = "rate" => Rate!SlidingWindow

ProcSymmetry == Permutations(Procs)
=============================================================================
