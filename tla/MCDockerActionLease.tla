------------------------ MODULE MCDockerActionLease ------------------------
(* Instances of DockerActionLease: an offsite synchronisation (resolver,      *)
(* restic helper), a claimed backup job (helper, finalizer) and a two-phase    *)
(* restore drill with a finalizer in each phase.                               *)
EXTENDS DockerActionLease

CONSTANTS offsite, backup, drill

Plans ==
    [r \in Requests |-> CASE r = offsite -> <<"local", "remote">>
                          [] r = backup  -> <<"helper", "local">>
                          [] OTHER       -> <<"plain", "local", "local">>]
DrillPhaseEnds == [r \in Requests |-> IF r = drill THEN {2} ELSE {}]
BackupClaims == Requests \cap {backup}
IssuedAtStart == [r \in Requests |-> 0]

\* Either the clock runs and ledger entries expire, without the drill, or it
\* stands still and the broker's own steps are fair.
VARIABLE mode

MixedInit == Init /\ mode \in {"expiry", "recovery"}
MixedNext ==
    /\ UNCHANGED mode
    /\ Next
    /\ mode = "expiry" => \A e \in replay' : e.req # drill
    /\ mode = "recovery" => UNCHANGED clock
MixedSpec ==
    /\ MixedInit /\ [][MixedNext]_<<vars, mode>>
    /\ WF_<<vars, mode>>(Progress /\ UNCHANGED mode)
    /\ WF_<<vars, mode>>(Restart /\ UNCHANGED mode)
=============================================================================
