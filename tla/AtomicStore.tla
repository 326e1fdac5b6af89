---------------------------- MODULE AtomicStore ----------------------------
(* What callers of the Control Center's state store rely on: a dataset is a   *)
(* sequence of records, a successful call adds its record to what is there in *)
(* one step, retention drops the oldest records only, an import replaces a    *)
(* dataset as a whole and its rollback puts back what was exported.  A record *)
(* of a call that failed may be lost later.  The promise ends when two        *)
(* callers are inside one lock.                                               *)
EXTENDS Naturals, Sequences

CONSTANTS Sets, Records, Limit

VARIABLES
    value,      \* the records of each dataset
    failed,     \* records whose calls did not return
    saved,      \* the contents of each dataset at the last export
    exclusive   \* no two callers have been inside one lock

\* The last n elements of s.
Latest(s, n) == IF Len(s) =< n THEN s ELSE SubSeq(s, Len(s) - n + 1, Len(s))

AtomicInit ==
    /\ value = [d \in Sets |-> <<>>]
    /\ saved = [d \in Sets |-> <<>>]
    /\ exclusive = TRUE

Write(d, v) == value' = [value EXCEPT ![d] = v] /\ UNCHANGED saved

Add(d, r) == Write(d, Append(value[d], r))
AddRetained(d, r) == Write(d, Append(Latest(value[d], Limit - 1), r))
Import(d, r) == Write(d, <<r>>)
Restore(d) == Write(d, saved[d])
Drop(d) ==
    /\ value[d] # <<>> /\ value[d][Len(value[d])] \in failed
    /\ Write(d, SubSeq(value[d], 1, Len(value[d]) - 1))
Export(d) == saved' = [saved EXCEPT ![d] = value[d]] /\ UNCHANGED value

AtomicNext ==
    \/ /\ exclusive /\ exclusive'
       /\ \E d \in Sets :
             \/ \E r \in Records : Add(d, r) \/ AddRetained(d, r) \/ Import(d, r)
             \/ Restore(d) \/ Drop(d)
             \/ Export(d)
    \/ ~exclusive'

AtomicSpec == AtomicInit /\ [][AtomicNext]_<<value, saved, exclusive>>
=============================================================================
