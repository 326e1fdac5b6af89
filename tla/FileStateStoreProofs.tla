------------------------- MODULE FileStateStoreProofs -------------------------
(* Proofs about FileStateStore, for any number of processes, datasets and     *)
(* calls and any limits: the inductive invariant StoreInv, and from it the    *)
(* types, the rollback of importSnapshot, the torn log and the refinement of  *)
(* AtomicStore.                                                               *)
(*                                                                            *)
(* What the lock protects is stated for as long as crowded is FALSE: from the *)
(* moment a lock in use is taken for a stale one, only the types, the use of  *)
(* each call and the rollback of an import that is alone still hold.          *)
EXTENDS FileStateStore, SequenceTheorems, FiniteSetTheorems, TLAPS


\* The control points of a call.
Steps == {"rest", "peek", "peekMeta", "wait", "steal", "load", "loadMeta", "check", "checkMeta",
          "retainMeta", "retain", "data", "meta", "back", "unlock", "export", "undone"}
CallKind == {"update", "put", "append", "retain", "import"}
Tokens == [rev : Nat, recs : Seq(Calls \cup {NoCall})]
Callers == [pc : Steps, kind : CallKind \cup {"none"}, call : Calls \cup {NoCall}, ds : DataSets,
            since : Nat, cur : Tokens, expect : Tokens, tidy : BOOLEAN, count : 0 .. RecordLimit,
            phase : {"none", "apply", "undo"}, todo : Seq(DataSets), alone : BOOLEAN, ok : BOOLEAN]

StoreTypes ==
    /\ file \in [DataSets -> [recs : Seq(Calls), tail : {"whole", "open", "half"}]]
    /\ meta \in [DataSets -> [rev : Nat, recs : Seq(Calls), count : 0 .. RecordLimit]]
    /\ lockFile \in [DataSets -> [owner : StoreProcs \cup {NoProc}, at : Nat]]
    /\ caller \in [StoreProcs -> Callers]
    /\ outcome \in [Calls -> {"new", "open", "done", "refused", "crashed"}]
    /\ rollback \in [DataSets -> Seq(Calls)]
    /\ storeTime \in 0 .. MaxStoreTime /\ storeFaults \in 0 .. MaxStoreFaults
    /\ crowded \in BOOLEAN
    /\ \A d \in JsonSets : file[d].tail = "whole"

\* What a call of one kind does and remembers at its steps.
CallerOK(c) ==
    /\ c.pc = "rest" => ~c.alone
    /\ c.pc # "rest" => c.kind # "none" /\ c.call \in Calls
    /\ c.kind \in {"update", "put"} => c.ds \in JsonSets
    /\ c.kind \in {"append", "retain"} => c.ds \in LogSets
    /\ c.pc \in {"peek", "peekMeta"} => c.kind = "put"
    /\ c.pc \in {"retainMeta", "retain"} => c.kind = "retain"
    /\ c.kind = "import" => c.phase = "none" <=> c.pc \in {"export"}
    /\ c.kind # "import" => c.phase = "none" /\ c.todo = <<>> /\ c.pc # "export"
    /\ c.pc = "undone" => c.phase = "undo" /\ c.todo = <<>>
    /\ c.tidy => c.kind = "retain" /\ c.pc \in {"retain", "data", "meta", "unlock"}
    /\ c.tidy /\ c.pc \in {"retain", "data"} => c.count < RecordLimit
    /\ c.pc \in {"peekMeta", "loadMeta", "checkMeta", "retain", "data"} => c.cur.recs \in Seq(Calls)

CallersOK == \A p \in StoreProcs : CallerOK(caller[p])

\* Each call is made once and is open while its process works on it.
CallsOK ==
    \A p \in StoreProcs : caller[p].pc # "rest" =>
        /\ outcome[caller[p].call] = "open"
        /\ \A q \in StoreProcs \ {p} : caller[q].pc # "rest" => caller[q].call # caller[p].call

\* Who is between openSync and the finally clause owns the lock file.
LocksOK == \A p \in StoreProcs, d \in DataSets : Inside(p, d) => lockFile[d].owner = p

\* What was read under the lock is still what the file holds.
ReadsOK ==
    \A p \in StoreProcs : caller[p].pc \in {"loadMeta", "checkMeta", "data"} =>
        /\ file[caller[p].ds].tail # "half"
        /\ file[caller[p].ds].recs = caller[p].cur.recs

Failed == {c \in Calls : outcome[c] \in {"refused", "crashed"}}

\* A line without its newline is of a call that failed, or is about to.
OpenOK ==
    \A d \in DataSets : file[d].tail = "open" =>
        /\ Len(file[d].recs) > 0
        /\ \/ file[d].recs[Len(file[d].recs)] \in Failed
           \/ \E p \in StoreProcs :
                 /\ Inside(p, d) /\ caller[p].pc = "unlock"
                 /\ ~caller[p].ok /\ caller[p].phase # "apply"
                 /\ caller[p].call = file[d].recs[Len(file[d].recs)]

\* Nobody works beside an import that is alone.
AloneOK ==
    \A p \in StoreProcs : caller[p].alone => \A q \in StoreProcs \ {p} : caller[q].pc = "rest"

\* The dataset at hand has been put back.
PutBack(c) == c.pc \in {"meta", "back", "undone"} \/ (c.pc = "unlock" /\ c.ok)

\* What an undo that is alone has passed is as it was exported.
UndoOK ==
    \A p \in StoreProcs : caller[p].alone /\ caller[p].phase = "undo" =>
        \A d \in DataSets :
            \/ file[d].recs = rollback[d]
            \/ d = caller[p].ds /\ ~PutBack(caller[p])
            \/ \E i \in 1 .. Len(caller[p].todo) : caller[p].todo[i] = d

\* The inductive invariant of the store: the lock, and what it protects, hold
\* until a lock in use has been taken for a stale one.
StoreInv ==
    /\ StoreTypes /\ CallersOK /\ CallsOK
    /\ ~crowded => LocksOK /\ ReadsOK /\ OpenOK
    /\ AloneOK /\ UndoOK

-----------------------------------------------------------------------------
(* Facts about the constants and the records                                  *)

\* The order in which an import works has every dataset in it.
LEMMA OrderFacts ==
  /\ InOrder(DataSets) \in Seq(DataSets) /\ InOrder(DataSets) # <<>>
  /\ Head(InOrder(DataSets)) \in DataSets
  /\ Tail(InOrder(DataSets)) \in Seq(DataSets)
  /\ \A d \in DataSets : \/ d = Head(InOrder(DataSets))
                         \/ \E i \in 1 .. Len(Tail(InOrder(DataSets))) :
                               Tail(InOrder(DataSets))[i] = d
<1> DEFINE n == Cardinality(DataSets)
           s == InOrder(DataSets)
<1>1. IsFiniteSet(DataSets) /\ DataSets # {}
  BY Zenon, StoreLimits, FS_Union DEF DataSets
<1>2. n \in Nat
  BY <1>1, FS_CardinalityType
<1>3. ExistsBijection(1 .. n, DataSets)
  BY <1>1, FS_CardinalityType
<1>4. \E f \in [1 .. n -> DataSets] : {f[i] : i \in DOMAIN f} = DataSets
  <2>1. PICK f \in [1 .. n -> DataSets] : \A d \in DataSets : \E i \in 1 .. n : f[i] = d
    BY <1>3 DEF ExistsBijection, Bijection, Surjection
  <2>2. DOMAIN f = 1 .. n
    OBVIOUS
  <2> QED
    BY Zenon, <2>1, <2>2
<1>5. s \in [1 .. n -> DataSets] /\ {s[i] : i \in DOMAIN s} = DataSets
  BY Zenon, <1>4 DEF InOrder
<1> HIDE DEF s
<1>6. s \in Seq(DataSets) /\ Len(s) = n
  BY <1>2, <1>5
<1>7. s # <<>>
  BY <1>1, <1>5, <1>6
<1>8. Head(s) = s[1] /\ \A i \in 1 .. Len(Tail(s)) : Tail(s)[i] = s[i + 1]
  BY <1>6, <1>7, HeadTailProperties
<1>9. Head(s) \in DataSets /\ Tail(s) \in Seq(DataSets) /\ Len(Tail(s)) = n - 1
  BY <1>6, <1>7, HeadTailProperties
<1>10. \A d \in DataSets : d = Head(s) \/ \E i \in 1 .. Len(Tail(s)) : Tail(s)[i] = d
  <2> TAKE d \in DataSets
  <2>1. PICK i \in 1 .. n : s[i] = d
    BY <1>5
  <2>2. CASE i = 1
    BY <2>1, <2>2, <1>8
  <2>3. CASE i # 1
    <3>1. i - 1 \in 1 .. Len(Tail(s)) /\ Tail(s)[i - 1] = d
      BY <2>1, <2>3, <1>2, <1>8, <1>9
    <3> QED
      BY <3>1
  <2> QED
    BY <2>2, <2>3
<1> QED
  BY <1>6, <1>7, <1>9, <1>10 DEF s

\* What is left of a list of datasets without the one that is taken next.
LEMMA NextFacts ==
  ASSUME NEW s \in Seq(DataSets), s # <<>>
  PROVE  /\ Head(s) \in DataSets /\ Tail(s) \in Seq(DataSets)
         /\ \A i \in 1 .. Len(s) : \/ s[i] = Head(s)
                                   \/ \E k \in 1 .. Len(Tail(s)) : Tail(s)[k] = s[i]
<1>1. /\ Head(s) \in DataSets /\ Tail(s) \in Seq(DataSets) /\ Len(Tail(s)) = Len(s) - 1
      /\ \A i \in 1 .. Len(Tail(s)) : Tail(s)[i] = s[i + 1]
  BY HeadTailProperties
<1>2. Head(s) = s[1] /\ Len(s) \in Nat
  BY HeadTailProperties
<1>3. ASSUME NEW i \in 1 .. Len(s), i # 1
      PROVE  i - 1 \in 1 .. Len(Tail(s)) /\ Tail(s)[i - 1] = s[i]
  BY <1>1, <1>2, <1>3
<1> QED
  BY Zenon, <1>1, <1>2, <1>3

\* A process without a call.
LEMMA RestingFacts ==
  /\ Resting \in Callers /\ CallerOK(Resting)
  /\ Resting.pc = "rest" /\ ~Resting.alone /\ Resting.phase = "none"
<1>1. (CHOOSE d \in DataSets : TRUE) \in DataSets
  BY StoreLimits DEF DataSets
<1>2. NoToken \in Tokens
  <2>1. <<NoCall>> \in Seq(Calls \cup {NoCall})
    OBVIOUS
  <2> QED
    BY <2>1 DEF NoToken, Tokens
<1>3. 0 \in 0 .. RecordLimit
  BY StoreLimits
<1>4. <<>> \in Seq(DataSets)
  OBVIOUS
<1>5. Resting \in Callers
  BY <1>1, <1>2, <1>3, <1>4 DEF Resting, Callers, Steps
<1> QED
  BY <1>5 DEF Resting, CallerOK

\* The last records of a sequence are no more than asked for.
LEMMA LastRecordsFacts ==
  ASSUME NEW s \in Seq(Calls), NEW n \in Nat
  PROVE  /\ LastRecords(s, n) \in Seq(Calls)
         /\ Len(LastRecords(s, n)) =< n
<1>1. CASE Len(s) =< n
  BY <1>1 DEF LastRecords
<1>2. CASE ~(Len(s) =< n)
  <2>1. Len(s) \in Nat /\ \A i \in Len(s) - n + 1 .. Len(s) : s[i] \in Calls
    BY <1>2
  <2>2. /\ SubSeq(s, Len(s) - n + 1, Len(s)) \in Seq(Calls)
        /\ Len(SubSeq(s, Len(s) - n + 1, Len(s))) =
              IF Len(s) - n + 1 =< Len(s) THEN Len(s) - (Len(s) - n + 1) + 1 ELSE 0
    BY <2>1, SubSeqProperties
  <2> QED
    BY <1>2, <2>1, <2>2 DEF LastRecords
<1> QED
  BY <1>1, <1>2

-----------------------------------------------------------------------------
(* One process takes a step of its call                                       *)

\* A call goes on.
Goes(p, c) ==
    /\ c.pc # "rest" /\ c.call = caller[p].call /\ c.alone = caller[p].alone
    /\ outcome' = outcome

\* A call ends.
Ends(p, c) ==
    /\ c = Resting
    /\ \E o \in {"done", "refused", "crashed"} :
          outcome' = [outcome EXCEPT ![caller[p].call] = o]

\* The part of the types that is not about the callers.
FileTypes ==
    /\ file \in [DataSets -> [recs : Seq(Calls), tail : {"whole", "open", "half"}]]
    /\ meta \in [DataSets -> [rev : Nat, recs : Seq(Calls), count : 0 .. RecordLimit]]
    /\ lockFile \in [DataSets -> [owner : StoreProcs \cup {NoProc}, at : Nat]]
    /\ rollback \in [DataSets -> Seq(Calls)]
    /\ storeTime \in 0 .. MaxStoreTime /\ storeFaults \in 0 .. MaxStoreFaults
    /\ crowded \in BOOLEAN
    /\ \A d \in JsonSets : file[d].tail = "whole"

\* Two processes inside one lock are one, until a lock in use was removed.
LEMMA Sole ==
  ASSUME LocksOK, NEW p \in StoreProcs, NEW q \in StoreProcs, NEW d \in DataSets,
         Inside(p, d), Inside(q, d)
  PROVE  p = q
BY DEF LocksOK

\* What a change of one caller's record changes.
LEMMA MoveFacts ==
  ASSUME StoreTypes, NEW p \in StoreProcs, NEW c, caller' = [caller EXCEPT ![p] = c]
  PROVE  caller'[p] = c /\ \A q \in StoreProcs \ {p} : caller'[q] = caller[q]
BY DEF StoreTypes

\* The records of the processes stay consistent with each other.
LEMMA CallersKeep ==
  ASSUME StoreInv, NEW p \in StoreProcs, NEW c, Set(p, c), caller[p].pc # "rest",
         c \in Callers, CallerOK(c), Goes(p, c) \/ Ends(p, c)
  PROVE  /\ caller' \in [StoreProcs -> Callers] /\ CallersOK' /\ CallsOK' /\ AloneOK'
         /\ outcome' \in [Calls -> {"new", "open", "done", "refused", "crashed"}]
         /\ Failed \subseteq Failed'
<1>1. caller'[p] = c /\ \A q \in StoreProcs \ {p} : caller'[q] = caller[q]
  BY Zenon, MoveFacts DEF StoreInv, Set
<1>2. caller' \in [StoreProcs -> Callers]
  BY DEF StoreInv, StoreTypes, Set
<1>3. CallersOK'
  BY <1>1 DEF StoreInv, CallersOK
<1>4. caller[p].call \in Calls /\ outcome[caller[p].call] = "open"
  BY DEF StoreInv, CallersOK, CallerOK, CallsOK
<1>5. \A x \in Calls : x # caller[p].call => outcome'[x] = outcome[x]
  BY DEF Goes, Ends, StoreInv, StoreTypes
<1>6. outcome' \in [Calls -> {"new", "open", "done", "refused", "crashed"}]
  BY Zenon DEF Goes, Ends, StoreInv, StoreTypes
<1>7. \A q \in StoreProcs : caller[q].pc # "rest" => caller[q].call \in Calls
  BY DEF StoreInv, CallersOK, CallerOK
<1>8. CallsOK'
  <2>1. CASE Goes(p, c)
    BY <1>1, <2>1 DEF Goes, StoreInv, CallsOK
  <2>2. CASE Ends(p, c)
    <3>1. caller'[p].pc = "rest"
      BY <1>1, <2>2, RestingFacts DEF Ends
    <3> QED
      BY <1>1, <1>5, <1>7, <3>1 DEF StoreInv, CallsOK
  <2> QED
    BY <2>1, <2>2
<1>9. AloneOK'
  <2>1. c.alone => caller[p].alone
    BY Zenon, RestingFacts DEF Goes, Ends
  <2>2. \A q \in StoreProcs \ {p} : ~caller[q].alone
    BY DEF StoreInv, AloneOK
  <2> QED
    BY <1>1, <2>1, <2>2 DEF StoreInv, AloneOK
<1>10. Failed \subseteq Failed'
  BY <1>4, <1>5 DEF Failed
<1> QED
  BY <1>2, <1>3, <1>6, <1>8, <1>9, <1>10

\* What a step of p has to establish beside its own record.
LEMMA StepKeeps ==
  ASSUME StoreInv, NEW p \in StoreProcs, NEW c, Set(p, c), caller[p].pc # "rest",
         c \in Callers, CallerOK(c), Goes(p, c) \/ Ends(p, c), FileTypes',
         ~crowded' => ~crowded,
         \A d \in DataSets : file'[d] # file[d] => Inside(p, d),
         ~crowded' => LocksOK',
         ~crowded' /\ c.pc \in {"loadMeta", "checkMeta", "data"} =>
            file'[c.ds].tail # "half" /\ file'[c.ds].recs = c.cur.recs,
         ~crowded' => \A d \in DataSets : Inside(p, d) /\ file'[d].tail = "open" =>
            /\ Len(file'[d].recs) > 0
            /\ \/ file'[d].recs[Len(file'[d].recs)] \in Failed'
               \/ /\ c.ds = d /\ c.pc = "unlock" /\ ~c.ok /\ c.phase # "apply"
                  /\ c.call = file'[d].recs[Len(file'[d].recs)],
         c.alone /\ c.phase = "undo" => \A d \in DataSets :
            \/ file'[d].recs = rollback'[d]
            \/ d = c.ds /\ ~PutBack(c)
            \/ \E i \in 1 .. Len(c.todo) : c.todo[i] = d
  PROVE  StoreInv'
<1>1. caller'[p] = c /\ \A q \in StoreProcs \ {p} : caller'[q] = caller[q]
  BY Zenon, MoveFacts DEF StoreInv, Set
<1>2. /\ caller' \in [StoreProcs -> Callers] /\ CallersOK' /\ CallsOK' /\ AloneOK'
      /\ outcome' \in [Calls -> {"new", "open", "done", "refused", "crashed"}]
      /\ Failed \subseteq Failed'
  BY CallersKeep
<1>3. StoreTypes'
  BY <1>2 DEF StoreTypes, FileTypes
<1>4. ASSUME ~crowded'  PROVE ReadsOK'
  <2>1. LocksOK /\ ReadsOK
    BY <1>4 DEF StoreInv
  <2> SUFFICES ASSUME NEW q \in StoreProcs, caller'[q].pc \in {"loadMeta", "checkMeta", "data"}
               PROVE  /\ file'[caller'[q].ds].tail # "half"
                      /\ file'[caller'[q].ds].recs = caller'[q].cur.recs
    BY DEF ReadsOK
  <2>2. CASE q = p
    BY <1>1, <1>4, <2>2
  <2>3. CASE q # p
    <3>1. caller'[q] = caller[q] /\ caller[q].ds \in DataSets /\ Inside(q, caller[q].ds)
      BY ZenonT(60), <1>1, <2>3 DEF StoreInv, StoreTypes, Callers, Inside, LockedSteps
    <3>2. ~Inside(p, caller[q].ds)
      BY <2>1, <2>3, <3>1, Sole
    <3> QED
      BY <2>1, <3>1, <3>2 DEF ReadsOK
  <2> QED
    BY <2>2, <2>3
<1>5. ASSUME ~crowded'  PROVE OpenOK'
  <2>1. OpenOK
    BY <1>5 DEF StoreInv
  <2> SUFFICES ASSUME NEW d \in DataSets, file'[d].tail = "open"
               PROVE  /\ Len(file'[d].recs) > 0
                      /\ \/ file'[d].recs[Len(file'[d].recs)] \in Failed'
                         \/ \E q \in StoreProcs :
                               /\ Inside(q, d)' /\ caller'[q].pc = "unlock"
                               /\ ~caller'[q].ok /\ caller'[q].phase # "apply"
                               /\ caller'[q].call = file'[d].recs[Len(file'[d].recs)]
    BY DEF OpenOK
  <2>2. CASE Inside(p, d)
    BY <1>1, <1>5, <2>2 DEF Inside, LockedSteps
  <2>3. CASE ~Inside(p, d)
    <3>1. file'[d] = file[d]
      BY <2>3
    <3>2. \A q \in StoreProcs : Inside(q, d) => Inside(q, d)' /\ caller'[q] = caller[q]
      BY <1>1, <2>3 DEF Inside
    <3> QED
      BY <1>2, <2>1, <3>1, <3>2 DEF OpenOK
  <2> QED
    BY <2>2, <2>3
<1>6. UndoOK'
  <2> SUFFICES ASSUME NEW q \in StoreProcs, caller'[q].alone, caller'[q].phase = "undo",
                      NEW d \in DataSets
               PROVE  \/ file'[d].recs = rollback'[d]
                      \/ d = caller'[q].ds /\ ~PutBack(caller'[q])
                      \/ \E i \in 1 .. Len(caller'[q].todo) : caller'[q].todo[i] = d
    BY DEF UndoOK, PutBack
  <2>1. q = p
    BY <1>1 DEF StoreInv, AloneOK
  <2> QED
    BY <1>1, <2>1
<1> QED
  BY <1>2, <1>3, <1>4, <1>5, <1>6 DEF StoreInv

\* An undo that stays where it is has put back what it had.
LEMMA UndoStays ==
  ASSUME StoreInv, NEW p \in StoreProcs, NEW c, c.alone = caller[p].alone,
         c.phase = caller[p].phase, c.todo = caller[p].todo, c.ds = caller[p].ds,
         PutBack(c) => PutBack(caller[p])
  PROVE  c.alone /\ c.phase = "undo" => \A d \in DataSets :
            \/ file[d].recs = rollback[d]
            \/ d = c.ds /\ ~PutBack(c)
            \/ \E i \in 1 .. Len(c.todo) : c.todo[i] = d
<1> SUFFICES ASSUME c.alone, c.phase = "undo"
             PROVE  \A d \in DataSets : \/ file[d].recs = rollback[d]
                                        \/ d = caller[p].ds /\ ~PutBack(c)
                                        \/ \E i \in 1 .. Len(caller[p].todo) : caller[p].todo[i] = d
  OBVIOUS
<1>1. caller[p].alone /\ caller[p].phase = "undo"
  OBVIOUS
<1> QED
  BY <1>1 DEF StoreInv, UndoOK

\* Nothing but the record changes, and the process does not enter a lock.
LEMMA LookKeeps ==
  ASSUME StoreInv, NEW p \in StoreProcs, NEW c, Set(p, c), caller[p].pc \notin {"rest", "unlock"},
         c \in Callers, CallerOK(c), Goes(p, c), FileTypes',
         c.phase = caller[p].phase, c.todo = caller[p].todo, c.ds = caller[p].ds,
         UNCHANGED <<file, lockFile, rollback, crowded>>,
         c.pc \in LockedSteps => caller[p].pc \in LockedSteps,
         ~crowded /\ c.pc \in {"loadMeta", "checkMeta", "data"} =>
            file[c.ds].tail # "half" /\ file[c.ds].recs = c.cur.recs,
         PutBack(c) => PutBack(caller[p])
  PROVE  StoreInv'
<1>1. caller'[p] = c /\ \A q \in StoreProcs \ {p} : caller'[q] = caller[q]
  BY Zenon, MoveFacts DEF StoreInv, Set
<1>2. ~crowded => LocksOK'
  BY <1>1 DEF StoreInv, LocksOK, Inside
<1>3. Failed' = Failed
  BY DEF Goes, Failed
<1>4. ~crowded => \A d \in DataSets : Inside(p, d) /\ file[d].tail = "open" =>
         Len(file[d].recs) > 0 /\ file[d].recs[Len(file[d].recs)] \in Failed
  <2> SUFFICES ASSUME ~crowded, NEW d \in DataSets, Inside(p, d), file[d].tail = "open"
               PROVE  Len(file[d].recs) > 0 /\ file[d].recs[Len(file[d].recs)] \in Failed
    OBVIOUS
  <2>1. LocksOK /\ OpenOK
    BY DEF StoreInv
  <2>2. \A q \in StoreProcs : Inside(q, d) => caller[q].pc # "unlock"
    BY <2>1, Sole
  <2> QED
    BY <2>1, <2>2 DEF OpenOK
<1>5. c.alone /\ c.phase = "undo" => \A d \in DataSets :
         \/ file[d].recs = rollback[d]
         \/ d = c.ds /\ ~PutBack(c)
         \/ \E i \in 1 .. Len(c.todo) : c.todo[i] = d
  BY ZenonT(60) DEF StoreInv, UndoOK, Goes
<1> QED
  BY <1>2, <1>3, <1>4, <1>5, StepKeeps

-----------------------------------------------------------------------------
(* The steps                                                                  *)

\* Changing the control point of a record changes nothing else of it.
LEMMA WithStep ==
  ASSUME NEW r \in Callers, NEW s \in Steps
  PROVE  LET c == [r EXCEPT !.pc = s] IN
         /\ c \in Callers /\ c.pc = s /\ c.kind = r.kind /\ c.call = r.call /\ c.ds = r.ds
         /\ c.cur = r.cur /\ c.tidy = r.tidy /\ c.count = r.count /\ c.phase = r.phase
         /\ c.todo = r.todo /\ c.alone = r.alone /\ c.ok = r.ok
BY DEF Callers

\* A call that has found an error goes to the finally clause.
LEMMA WithError ==
  ASSUME NEW r \in Callers
  PROVE  LET c == [r EXCEPT !.pc = "unlock", !.ok = FALSE] IN
         /\ c \in Callers /\ c.pc = "unlock" /\ c.kind = r.kind /\ c.call = r.call /\ c.ds = r.ds
         /\ c.cur = r.cur /\ c.tidy = r.tidy /\ c.count = r.count /\ c.phase = r.phase
         /\ c.todo = r.todo /\ c.alone = r.alone /\ c.ok = FALSE
BY Zenon DEF Callers, Steps

\* Goto changes the record of one process.
LEMMA GotoSets ==
  ASSUME NEW p \in StoreProcs, NEW s, Goto(p, s)
  PROVE  Set(p, [caller[p] EXCEPT !.pc = s])
BY DEF Goto, Set

\* What the steps read of the invariant.
LEMMA HereFacts ==
  ASSUME StoreInv, NEW p \in StoreProcs
  PROVE  /\ caller[p] \in Callers /\ CallerOK(caller[p]) /\ FileTypes
         /\ caller[p].pc \in Steps /\ caller[p].ds \in DataSets /\ caller[p].call \in Calls \cup {NoCall}
         /\ caller[p].pc # "rest" => caller[p].call \in Calls
         /\ caller[p].phase \in {"none", "apply", "undo"} /\ caller[p].todo \in Seq(DataSets)
         /\ caller[p].kind \in CallKind \cup {"none"}
         /\ caller[p].cur \in Tokens /\ caller[p].expect \in Tokens
         /\ caller[p].tidy \in BOOLEAN /\ caller[p].ok \in BOOLEAN /\ caller[p].alone \in BOOLEAN
         /\ caller[p].count \in 0 .. RecordLimit
<1>1. caller[p] \in Callers /\ CallerOK(caller[p]) /\ FileTypes
  BY DEF StoreInv, StoreTypes, FileTypes, CallersOK
<1> QED
  BY <1>1 DEF Callers, CallerOK

\* The fields of a dataset's file and of its metadata.
LEMMA FileFacts ==
  ASSUME StoreInv, NEW d \in DataSets
  PROVE  /\ file[d].recs \in Seq(Calls) /\ file[d].tail \in {"whole", "open", "half"}
         /\ meta[d].rev \in Nat /\ meta[d].recs \in Seq(Calls) /\ meta[d].count \in 0 .. RecordLimit
         /\ rollback[d] \in Seq(Calls)
BY DEF StoreInv, StoreTypes

\* A lock is judged stale; nothing else happens.
LEMMA JudgeStaleKeeps == ASSUME StoreInv, NEW p \in StoreProcs, JudgeStale(p)  PROVE StoreInv'
<1> DEFINE c == [caller[p] EXCEPT !.pc = "steal"]
<1>1. Set(p, c) /\ caller[p].pc = "wait"
  BY GotoSets DEF JudgeStale, At
<1>2. "steal" \in Steps
  BY DEF Steps
<1>3. /\ c \in Callers /\ c.pc = "steal" /\ c.kind = caller[p].kind /\ c.call = caller[p].call
      /\ c.ds = caller[p].ds /\ c.tidy = caller[p].tidy /\ c.phase = caller[p].phase
      /\ c.todo = caller[p].todo /\ c.alone = caller[p].alone
  BY <1>2, HereFacts, WithStep
<1> HIDE DEF c
<1>4. CallerOK(c)
  BY <1>1, <1>3, HereFacts DEF CallerOK
<1>5. Goes(p, c) /\ FileTypes'
  BY Zenon, <1>3, HereFacts DEF Goes, JudgeStale, FileTypes
<1>6. ~PutBack(c)
  BY <1>3 DEF PutBack
<1>7. UNCHANGED <<file, lockFile, rollback, crowded>>
  BY DEF JudgeStale
<1> QED
  BY <1>1, <1>3, <1>4, <1>5, <1>6, <1>7, LookKeeps DEF LockedSteps

\* A call that gives up where it stands looks at nothing else.
LEMMA GiveUpKeeps ==
  ASSUME StoreInv, NEW p \in StoreProcs,
         caller[p].pc \in LockedSteps \ {"unlock"},
         Set(p, [caller[p] EXCEPT !.pc = "unlock", !.ok = FALSE]),
         UNCHANGED <<file, meta, lockFile, outcome, rollback, storeTime, crowded>>,
         storeFaults' \in 0 .. MaxStoreFaults
  PROVE  StoreInv'
<1> DEFINE c == [caller[p] EXCEPT !.pc = "unlock", !.ok = FALSE]
<1>1. Set(p, c) /\ caller[p].pc \in LockedSteps /\ caller[p].pc \notin {"rest", "unlock"}
  BY DEF LockedSteps
<1>3. /\ c \in Callers /\ c.pc = "unlock" /\ c.kind = caller[p].kind /\ c.call = caller[p].call
      /\ c.ds = caller[p].ds /\ c.tidy = caller[p].tidy /\ c.phase = caller[p].phase
      /\ c.todo = caller[p].todo /\ c.alone = caller[p].alone /\ c.ok = FALSE
  BY Zenon, HereFacts, WithError
<1> HIDE DEF c
<1>4. CallerOK(c)
  BY <1>1, <1>3, HereFacts DEF CallerOK, LockedSteps
<1>5. Goes(p, c) /\ FileTypes'
  BY <1>3, HereFacts DEF Goes, FileTypes
<1>6. ~PutBack(c)
  BY <1>3 DEF PutBack
<1> QED
  BY <1>1, <1>3, <1>4, <1>5, <1>6, LookKeeps

\* The strict read of the data file.
LEMMA ReadRawKeeps == ASSUME StoreInv, NEW p \in StoreProcs, ReadRaw(p)  PROVE StoreInv'
<1> DEFINE r == caller[p]
           next == CASE r.pc = "peek" -> "peekMeta"
                     [] r.pc = "load" -> "loadMeta"
                     [] r.pc = "check" -> "checkMeta"
           c == [r EXCEPT !.cur.recs = file[r.ds].recs, !.pc = next]
<1>1. /\ r.pc \in {"peek", "load", "check"}
      /\ UNCHANGED <<file, meta, lockFile, outcome, rollback, storeTime, storeFaults, crowded>>
  BY DEF ReadRaw
<1>2. CASE file[r.ds].tail = "half"
  <2>1. Set(p, [r EXCEPT !.pc = "unlock", !.ok = FALSE])
    BY <1>2 DEF ReadRaw
  <2>2. r.pc # "peek"
    BY Zenon, <1>2, HereFacts DEF CallerOK, FileTypes
  <2> QED
    BY Zenon, <1>1, <2>1, <2>2, HereFacts, GiveUpKeeps DEF LockedSteps, FileTypes
<1>3. CASE file[r.ds].tail # "half"
  <2>1. Set(p, c)
    BY Zenon, <1>3 DEF ReadRaw
  <2>2. next \in {"peekMeta", "loadMeta", "checkMeta"} /\ (next = "peekMeta" <=> r.pc = "peek")
    BY <1>1
  <2>3. /\ c \in Callers /\ c.pc = next /\ c.kind = r.kind /\ c.call = r.call
        /\ c.ds = r.ds /\ c.tidy = r.tidy /\ c.phase = r.phase
        /\ c.todo = r.todo /\ c.alone = r.alone /\ c.cur.recs = file[r.ds].recs
    <3>1. file[r.ds].recs \in Seq(Calls) /\ r \in Callers /\ r.cur \in Tokens
      BY HereFacts, FileFacts
    <3>2. [r.cur EXCEPT !.recs = file[r.ds].recs] \in Tokens
      BY <3>1 DEF Tokens
    <3>3. next \in Steps
      BY Zenon, <2>2 DEF Steps
    <3> HIDE DEF next
    <3> QED
      BY Zenon, <3>1, <3>2, <3>3 DEF Callers, Tokens
  <2> HIDE DEF c, next
  <2>4. CallerOK(c)
    BY <1>1, <2>2, <2>3, HereFacts, FileFacts DEF CallerOK
  <2>5. Goes(p, c) /\ FileTypes'
    BY <1>1, <2>2, <2>3, HereFacts DEF Goes, FileTypes
  <2>6. ~PutBack(c)
    BY <2>2, <2>3 DEF PutBack
  <2> QED
    BY <1>1, <1>3, <2>1, <2>2, <2>3, <2>4, <2>5, <2>6, LookKeeps DEF LockedSteps
<1> QED
  BY <1>2, <1>3

\* The read of the metadata and what the caller does with its token.
LEMMA ReadMetaKeeps == ASSUME StoreInv, NEW p \in StoreProcs, ReadMeta(p)  PROVE StoreInv'
<1> DEFINE r == caller[p]
           token == [r.cur EXCEPT !.rev = meta[r.ds].rev]
           peeked == [r EXCEPT !.pc = "wait", !.expect = token, !.since = storeTime]
           appends == [r EXCEPT !.pc = "data", !.cur = token]
           checks == [r EXCEPT !.pc = "check", !.expect = token]
<1>1. /\ r.pc \in {"peekMeta", "loadMeta", "checkMeta"}
      /\ UNCHANGED <<file, meta, lockFile, outcome, rollback, storeTime, storeFaults, crowded>>
  BY DEF ReadMeta
<1>2. r \in Callers /\ r.pc # "rest"
  BY <1>1, HereFacts
<1>3. token \in Tokens /\ token.recs = r.cur.recs
  BY Zenon, HereFacts, FileFacts DEF Tokens
<1>4. storeTime \in Nat
  BY DEF StoreInv, StoreTypes
<1>5. ~crowded /\ r.pc \in {"loadMeta", "checkMeta"} =>
         file[r.ds].tail # "half" /\ file[r.ds].recs = r.cur.recs
  BY DEF StoreInv, ReadsOK
<1>6. FileTypes'
  BY <1>1, HereFacts DEF FileTypes
<1> HIDE DEF token
<1>7. CASE Set(p, peeked) /\ r.pc = "peekMeta"
  <2>1. /\ peeked \in Callers /\ peeked.pc = "wait" /\ peeked.kind = r.kind /\ peeked.call = r.call
        /\ peeked.ds = r.ds /\ peeked.tidy = r.tidy /\ peeked.phase = r.phase
        /\ peeked.todo = r.todo /\ peeked.alone = r.alone
    BY Zenon, <1>2, <1>3, <1>4 DEF Callers, Steps
  <2> DEFINE c == peeked
  <2> HIDE DEF c
  <2>2. Set(p, c)
    BY <1>7 DEF c
  <2>3. /\ c \in Callers /\ c.pc = "wait" /\ c.kind = r.kind /\ c.call = r.call
        /\ c.ds = r.ds /\ c.tidy = r.tidy /\ c.phase = r.phase /\ c.todo = r.todo /\ c.alone = r.alone
    BY <2>1 DEF c
  <2>4. CallerOK(c) /\ Goes(p, c) /\ ~PutBack(c)
    BY <1>1, <1>7, <2>3, HereFacts DEF CallerOK, Goes, PutBack
  <2> QED
    BY <1>1, <1>6, <2>2, <2>3, <2>4, LookKeeps DEF LockedSteps
<1>8. CASE Set(p, appends) /\ (r.pc = "loadMeta" \/ r.pc = "checkMeta")
  <2>1. /\ appends \in Callers /\ appends.pc = "data" /\ appends.kind = r.kind
        /\ appends.call = r.call /\ appends.ds = r.ds /\ appends.tidy = r.tidy
        /\ appends.phase = r.phase /\ appends.todo = r.todo /\ appends.alone = r.alone
        /\ appends.cur.recs = r.cur.recs
    BY Zenon, <1>2, <1>3, <1>4 DEF Callers, Steps
  <2> DEFINE c == appends
  <2> HIDE DEF c
  <2>2. Set(p, c)
    BY <1>8 DEF c
  <2>3. /\ c \in Callers /\ c.pc = "data" /\ c.kind = r.kind /\ c.call = r.call
        /\ c.ds = r.ds /\ c.tidy = r.tidy /\ c.phase = r.phase /\ c.todo = r.todo /\ c.alone = r.alone
        /\ c.cur.recs = r.cur.recs
    BY <2>1 DEF c
  <2>4. CallerOK(c) /\ Goes(p, c) /\ ~PutBack(c)
    BY <1>1, <1>8, <2>3, HereFacts DEF CallerOK, Goes, PutBack
  <2> QED
    BY <1>1, <1>5, <1>6, <1>8, <2>2, <2>3, <2>4, LookKeeps DEF LockedSteps
<1>9. CASE Set(p, checks) /\ r.pc = "loadMeta"
  <2>1. /\ checks \in Callers /\ checks.pc = "check" /\ checks.kind = r.kind
        /\ checks.call = r.call /\ checks.ds = r.ds /\ checks.tidy = r.tidy
        /\ checks.phase = r.phase /\ checks.todo = r.todo /\ checks.alone = r.alone
    BY Zenon, <1>2, <1>3, <1>4 DEF Callers, Steps
  <2> DEFINE c == checks
  <2> HIDE DEF c
  <2>2. Set(p, c)
    BY <1>9 DEF c
  <2>3. /\ c \in Callers /\ c.pc = "check" /\ c.kind = r.kind /\ c.call = r.call
        /\ c.ds = r.ds /\ c.tidy = r.tidy /\ c.phase = r.phase /\ c.todo = r.todo /\ c.alone = r.alone
    BY <2>1 DEF c
  <2>4. CallerOK(c) /\ Goes(p, c) /\ ~PutBack(c)
    BY <1>1, <1>9, <2>3, HereFacts DEF CallerOK, Goes, PutBack
  <2> QED
    BY <1>1, <1>6, <1>9, <2>2, <2>3, <2>4, LookKeeps DEF LockedSteps
<1>10. CASE Set(p, [r EXCEPT !.pc = "unlock", !.ok = FALSE]) /\ r.pc = "checkMeta"
  <2>1. r.pc \in LockedSteps \ {"unlock"} /\ storeFaults' \in 0 .. MaxStoreFaults
    BY <1>1, <1>10, HereFacts DEF LockedSteps, FileTypes
  <2> QED
    BY Zenon, <1>1, <1>10, <2>1, GiveUpKeeps
<1>11. \/ Set(p, peeked) /\ r.pc = "peekMeta"
       \/ Set(p, appends) /\ (r.pc = "loadMeta" \/ r.pc = "checkMeta")
       \/ Set(p, checks) /\ r.pc = "loadMeta"
       \/ Set(p, [r EXCEPT !.pc = "unlock", !.ok = FALSE]) /\ r.pc = "checkMeta"
  <2>1. Set(p, CASE r.pc = "peekMeta" -> peeked
                 [] r.pc = "loadMeta" /\ r.kind = "append" -> appends
                 [] r.pc = "loadMeta" /\ r.kind # "append" -> checks
                 [] r.pc = "checkMeta" /\ r.expect \in {NoToken, token} -> appends
                 [] OTHER -> [r EXCEPT !.pc = "unlock", !.ok = FALSE])
    BY Zenon DEF ReadMeta, token
  <2> HIDE DEF peeked, appends, checks
  <2>2. CASE r.pc = "peekMeta"
    BY <2>1, <2>2
  <2>3. CASE r.pc = "loadMeta" /\ r.kind = "append"
    BY <2>1, <2>3
  <2>4. CASE r.pc = "loadMeta" /\ r.kind # "append"
    BY <2>1, <2>4
  <2>5. CASE r.pc = "checkMeta" /\ r.expect \in {NoToken, token}
    BY <2>1, <2>5
  <2>6. CASE r.pc = "checkMeta" /\ ~(r.expect \in {NoToken, token})
    BY <2>1, <2>6
  <2> QED
    BY <1>1, <2>2, <2>3, <2>4, <2>5, <2>6
<1> QED
  BY <1>7, <1>8, <1>9, <1>10, <1>11

\* appendRetained reads the metadata.
LEMMA RetainMetaKeeps == ASSUME StoreInv, NEW p \in StoreProcs, RetainMeta(p)  PROVE StoreInv'
<1> DEFINE r == caller[p]
           c == [r EXCEPT !.pc = "retain",
                          !.cur = [rev |-> meta[r.ds].rev, recs |-> meta[r.ds].recs],
                          !.count = meta[r.ds].count,
                          !.tidy = meta[r.ds].count \in 1 .. RecordLimit - 1]
<1>1. r.pc = "retainMeta" /\ Set(p, c)
      /\ UNCHANGED <<file, meta, lockFile, outcome, rollback, storeTime, storeFaults, crowded>>
  BY DEF RetainMeta, At
<1>2. meta[r.ds].rev \in Nat /\ meta[r.ds].recs \in Seq(Calls) /\ meta[r.ds].count \in 0 .. RecordLimit
  BY HereFacts, FileFacts
<1>3. /\ c.pc = "retain" /\ c.kind = r.kind /\ c.call = r.call /\ c.ds = r.ds
      /\ c.tidy = (meta[r.ds].count \in 1 .. RecordLimit - 1) /\ c.count = meta[r.ds].count
      /\ c.phase = r.phase /\ c.todo = r.todo /\ c.alone = r.alone /\ c.cur.recs = meta[r.ds].recs
  BY HereFacts DEF Callers
<1>4. c \in Callers
  <2>1. [rev |-> meta[r.ds].rev, recs |-> meta[r.ds].recs] \in Tokens
    BY <1>2 DEF Tokens
  <2>2. (meta[r.ds].count \in 1 .. RecordLimit - 1) \in BOOLEAN
    OBVIOUS
  <2>3. r \in Callers
    BY HereFacts
  <2> HIDE DEF r
  <2> QED
    BY Zenon, <1>2, <2>1, <2>2, <2>3 DEF Callers, Steps
<1> HIDE DEF c
<1>5. r.kind = "retain"
  BY <1>1, HereFacts DEF CallerOK
<1>6. CallerOK(c)
  BY <1>1, <1>2, <1>3, <1>5, HereFacts, StoreLimits DEF CallerOK
<1>7. Goes(p, c) /\ FileTypes' /\ ~PutBack(c)
  BY Zenon, <1>1, <1>3, HereFacts DEF Goes, FileTypes, PutBack
<1> QED
  BY <1>1, <1>3, <1>4, <1>6, <1>7, LookKeeps DEF LockedSteps

\* appendRetained looks at the log.
LEMMA RetainLookKeeps == ASSUME StoreInv, NEW p \in StoreProcs, RetainLook(p)  PROVE StoreInv'
<1> DEFINE r == caller[p]
           f == file[r.ds]
           tidy == r.tidy /\ Len(f.recs) = Len(r.cur.recs) /\ f.tail = "whole"
           c == [r EXCEPT !.pc = "data", !.cur.recs = f.recs, !.tidy = tidy]
<1>1. r.pc = "retain"
      /\ UNCHANGED <<file, meta, lockFile, outcome, rollback, storeTime, storeFaults, crowded>>
  BY DEF RetainLook, At
<1>2. CASE f.tail = "half" \/ (tidy /\ f.recs # r.cur.recs)
  <2>1. Set(p, [r EXCEPT !.pc = "unlock", !.ok = FALSE])
    BY <1>2 DEF RetainLook
  <2>2. r.pc \in LockedSteps \ {"unlock"} /\ storeFaults' \in 0 .. MaxStoreFaults
    BY <1>1, HereFacts DEF LockedSteps, FileTypes
  <2> QED
    BY Zenon, <1>1, <2>1, <2>2, GiveUpKeeps
<1>3. CASE ~(f.tail = "half" \/ (tidy /\ f.recs # r.cur.recs))
  <2>1. Set(p, c)
    BY <1>3 DEF RetainLook
  <2>2. f.recs \in Seq(Calls) /\ r \in Callers /\ r.cur \in Tokens
    BY HereFacts, FileFacts
  <2>3. [r.cur EXCEPT !.recs = f.recs] \in Tokens
    BY <2>2 DEF Tokens
  <2>4. tidy \in BOOLEAN /\ (tidy => r.tidy)
    OBVIOUS
  <2> HIDE DEF tidy
  <2>5. /\ c \in Callers /\ c.pc = "data" /\ c.kind = r.kind /\ c.call = r.call /\ c.ds = r.ds
        /\ c.tidy = tidy /\ c.count = r.count
        /\ c.phase = r.phase /\ c.todo = r.todo /\ c.alone = r.alone /\ c.cur.recs = f.recs
    BY Zenon, <2>2, <2>3, <2>4 DEF Callers, Tokens, Steps
  <2> HIDE DEF c
  <2>6. CallerOK(c)
    BY <1>1, <2>2, <2>4, <2>5, HereFacts DEF CallerOK
  <2>7. Goes(p, c) /\ FileTypes' /\ ~PutBack(c)
    BY Zenon, <1>1, <2>5, HereFacts DEF Goes, FileTypes, PutBack
  <2> QED
    BY <1>1, <1>3, <2>1, <2>5, <2>6, <2>7, LookKeeps DEF LockedSteps
<1> QED
  BY <1>2, <1>3

\* appendRetained gives up at the write.
LEMMA RetainMovedKeeps == ASSUME StoreInv, NEW p \in StoreProcs, RetainMoved(p)  PROVE StoreInv'
<1>1. caller[p].pc \in LockedSteps \ {"unlock"} /\ storeFaults' \in 0 .. MaxStoreFaults
  BY HereFacts DEF LockedSteps, FileTypes, RetainMoved, At
<1> QED
  BY Zenon, <1>1, GiveUpKeeps DEF RetainMoved

\* writeMetadata describes the file.
LEMMA WriteMetaKeeps == ASSUME StoreInv, NEW p \in StoreProcs, WriteMeta(p)  PROVE StoreInv'
<1> DEFINE r == caller[p]
           s == IF r.kind = "retain" THEN "unlock" ELSE "back"
           c == [r EXCEPT !.pc = s]
<1>1. r.pc = "meta" /\ Set(p, c)
      /\ UNCHANGED <<file, lockFile, outcome, rollback, storeTime, storeFaults, crowded>>
  BY GotoSets DEF WriteMeta, At
<1>2. s \in Steps /\ s \in {"unlock", "back"} /\ (s = "unlock" <=> r.kind = "retain")
  BY DEF Steps
<1> HIDE DEF s
<1>3. /\ c \in Callers /\ c.pc = s /\ c.kind = r.kind /\ c.call = r.call
      /\ c.ds = r.ds /\ c.tidy = r.tidy /\ c.phase = r.phase
      /\ c.todo = r.todo /\ c.alone = r.alone
  BY <1>2, HereFacts, WithStep
<1> HIDE DEF c
<1>4. CallerOK(c)
  BY <1>1, <1>2, <1>3, HereFacts DEF CallerOK
<1>5. Goes(p, c) /\ PutBack(r)
  BY <1>1, <1>2, <1>3, HereFacts DEF Goes, PutBack
<1>6. FileTypes'
  <2>1. meta' = [meta EXCEPT ![r.ds] = [rev |-> r.cur.rev + 1, recs |-> file[r.ds].recs, count |-> r.count]]
    BY DEF WriteMeta
  <2>2. /\ r.cur.rev + 1 \in Nat /\ file[r.ds].recs \in Seq(Calls) /\ r.count \in 0 .. RecordLimit
        /\ r.ds \in DataSets
    BY HereFacts, FileFacts DEF Tokens
  <2>3. [rev |-> r.cur.rev + 1, recs |-> file[r.ds].recs, count |-> r.count]
           \in [rev : Nat, recs : Seq(Calls), count : 0 .. RecordLimit]
    BY <2>2
  <2>4. meta' \in [DataSets -> [rev : Nat, recs : Seq(Calls), count : 0 .. RecordLimit]]
    BY <2>1, <2>2, <2>3, HereFacts DEF FileTypes
  <2> QED
    BY <1>1, <2>4, HereFacts DEF FileTypes
<1> QED
  BY <1>1, <1>2, <1>3, <1>4, <1>5, <1>6, LookKeeps DEF LockedSteps

\* The read that ends writeMetadata.
LEMMA ReadBackKeeps == ASSUME StoreInv, NEW p \in StoreProcs, ReadBack(p)  PROVE StoreInv'
<1> DEFINE r == caller[p]
           c == [r EXCEPT !.pc = "unlock", !.ok = file[r.ds].tail # "half"]
<1>1. r.pc = "back" /\ Set(p, c)
      /\ UNCHANGED <<file, meta, lockFile, outcome, rollback, storeTime, storeFaults, crowded>>
  BY DEF ReadBack, At
<1>2. (file[r.ds].tail # "half") \in BOOLEAN /\ r \in Callers
  BY HereFacts
<1>3. /\ c \in Callers /\ c.pc = "unlock" /\ c.kind = r.kind /\ c.call = r.call
      /\ c.ds = r.ds /\ c.tidy = r.tidy /\ c.phase = r.phase
      /\ c.todo = r.todo /\ c.alone = r.alone
  BY Zenon, <1>2 DEF Callers, Steps
<1> HIDE DEF c
<1>4. CallerOK(c)
  BY <1>1, <1>3, HereFacts DEF CallerOK
<1>5. Goes(p, c) /\ PutBack(r) /\ FileTypes'
  BY Zenon, <1>1, <1>3, HereFacts DEF Goes, PutBack, FileTypes
<1> QED
  BY <1>1, <1>3, <1>4, <1>5, LookKeeps DEF LockedSteps

\* The lock file goes and its process with it; who else is inside keeps its own.
LEMMA LeaveLock ==
  ASSUME StoreInv, NEW p \in StoreProcs, NEW c, Set(p, c), c.pc \notin LockedSteps,
         NEW d \in DataSets, RemoveLock(p, d), ~crowded'
  PROVE  ~crowded /\ LocksOK'
<1>1. caller'[p] = c /\ \A q \in StoreProcs \ {p} : caller'[q] = caller[q]
  BY Zenon, MoveFacts DEF StoreInv, Set
<1>2. ~crowded /\ LocksOK
  BY Zenon DEF StoreInv, RemoveLock
<1>3. \A q \in StoreProcs \ {p} : lockFile[d].owner = q => ~Inside(q, d)
  BY Zenon DEF RemoveLock
<1>4. \A x \in DataSets : x # d => lockFile'[x] = lockFile[x]
  BY DEF RemoveLock, StoreInv, StoreTypes
<1> SUFFICES ASSUME NEW q \in StoreProcs, NEW x \in DataSets, Inside(q, x)'
             PROVE  lockFile'[x].owner = q
  BY <1>2 DEF LocksOK
<1>5. q # p /\ Inside(q, x)
  BY <1>1 DEF Inside
<1> QED
  BY <1>2, <1>3, <1>4, <1>5 DEF LocksOK

\* Without the lock file and its history, the types of the files are kept.
LEMMA RemoveTypes ==
  ASSUME StoreInv, NEW p \in StoreProcs, NEW d \in DataSets, RemoveLock(p, d),
         UNCHANGED <<file, meta, rollback, storeTime, storeFaults>>
  PROVE  FileTypes'
<1>1. NoLockFile \in [owner : StoreProcs \cup {NoProc}, at : Nat]
  BY DEF NoLockFile
<1>2. lockFile' \in [DataSets -> [owner : StoreProcs \cup {NoProc}, at : Nat]]
  BY <1>1 DEF RemoveLock, StoreInv, StoreTypes
<1>3. crowded' \in BOOLEAN
  BY DEF RemoveLock, StoreInv, StoreTypes
<1> QED
  BY Zenon, <1>2, <1>3 DEF FileTypes, StoreInv, StoreTypes

\* A lock is taken: nobody was inside it.
LEMMA AcquireKeeps == ASSUME StoreInv, NEW p \in StoreProcs, Acquire(p)  PROVE StoreInv'
<1> DEFINE r == caller[p]
           s == Acquired(r.kind)
           c == [r EXCEPT !.pc = s]
<1>1. /\ r.pc = "wait" /\ Set(p, c) /\ lockFile[r.ds] = NoLockFile
      /\ lockFile' = [lockFile EXCEPT ![r.ds] = [owner |-> p, at |-> storeTime]]
      /\ UNCHANGED <<file, meta, outcome, rollback, storeTime, storeFaults, crowded>>
  BY GotoSets DEF Acquire, At
<1>2. r.kind \in CallKind /\ r.ds \in DataSets /\ r \in Callers
  BY <1>1, HereFacts DEF CallerOK
<1>3. /\ s \in {"load", "check", "retainMeta"} /\ s \in Steps
      /\ s = "retainMeta" => r.kind = "retain"
  BY <1>2 DEF Acquired, CallKind, Steps
<1> HIDE DEF s
<1>4. /\ c \in Callers /\ c.pc = s /\ c.kind = r.kind /\ c.call = r.call
      /\ c.ds = r.ds /\ c.tidy = r.tidy /\ c.phase = r.phase
      /\ c.todo = r.todo /\ c.alone = r.alone
  BY <1>2, <1>3, WithStep
<1> HIDE DEF c
<1>5. CallerOK(c)
  BY <1>1, <1>3, <1>4, HereFacts DEF CallerOK
<1>6. Goes(p, c) /\ ~PutBack(c) /\ ~PutBack(r)
  BY <1>1, <1>3, <1>4, HereFacts DEF Goes, PutBack
<1>7. FileTypes'
  <2>1. [owner |-> p, at |-> storeTime] \in [owner : StoreProcs \cup {NoProc}, at : Nat]
    BY DEF StoreInv, StoreTypes
  <2>2. lockFile' \in [DataSets -> [owner : StoreProcs \cup {NoProc}, at : Nat]]
    BY <1>1, <1>2, <2>1 DEF StoreInv, StoreTypes
  <2> QED
    BY Zenon, <1>1, <2>2, HereFacts DEF FileTypes
<1>8. ASSUME ~crowded  PROVE LocksOK'
  <2>1. LocksOK
    BY <1>8 DEF StoreInv
  <2>2. \A q \in StoreProcs : ~Inside(q, r.ds)
    BY <1>1, <1>2, <2>1, StoreLimits DEF LocksOK, NoLockFile
  <2>3. caller'[p] = c /\ \A q \in StoreProcs \ {p} : caller'[q] = caller[q]
    BY Zenon, <1>1, MoveFacts DEF StoreInv, Set
  <2>4. lockFile'[r.ds].owner = p /\ \A x \in DataSets : x # r.ds => lockFile'[x] = lockFile[x]
    BY <1>1, <1>2 DEF StoreInv, StoreTypes
  <2> SUFFICES ASSUME NEW q \in StoreProcs, NEW x \in DataSets, Inside(q, x)'
               PROVE  lockFile'[x].owner = q
    BY DEF LocksOK
  <2>5. CASE q = p
    BY <1>4, <2>3, <2>4, <2>5 DEF Inside
  <2>6. CASE q # p
    BY <2>1, <2>2, <2>3, <2>4, <2>6 DEF LocksOK, Inside
  <2> QED
    BY <2>5, <2>6
<1>9. \A d \in DataSets : ~Inside(p, d)
  BY <1>1 DEF Inside, LockedSteps
<1>10. c.alone /\ c.phase = "undo" => \A d \in DataSets :
         \/ file[d].recs = rollback[d]
         \/ d = c.ds /\ ~PutBack(c)
         \/ \E i \in 1 .. Len(c.todo) : c.todo[i] = d
  BY Zenon, <1>4, <1>6, UndoStays
<1> QED
  BY <1>1, <1>3, <1>4, <1>5, <1>6, <1>7, <1>8, <1>9, <1>10, StepKeeps

\* A stale lock is removed, or one that is in use.
LEMMA RemoveStaleKeeps == ASSUME StoreInv, NEW p \in StoreProcs, RemoveStale(p)  PROVE StoreInv'
<1> DEFINE r == caller[p]
           c == [r EXCEPT !.pc = "wait"]
<1>1. /\ r.pc = "steal" /\ Set(p, c) /\ RemoveLock(p, r.ds)
      /\ UNCHANGED <<file, meta, outcome, rollback, storeTime, storeFaults>>
  BY GotoSets DEF RemoveStale, At
<1>2. r \in Callers /\ r.ds \in DataSets /\ "wait" \in Steps
  BY HereFacts DEF Steps
<1>3. /\ c \in Callers /\ c.pc = "wait" /\ c.kind = r.kind /\ c.call = r.call
      /\ c.ds = r.ds /\ c.tidy = r.tidy /\ c.phase = r.phase
      /\ c.todo = r.todo /\ c.alone = r.alone
  BY <1>2, WithStep
<1> HIDE DEF c
<1>4. CallerOK(c)
  BY <1>1, <1>3, HereFacts DEF CallerOK
<1>5. Goes(p, c) /\ ~PutBack(c) /\ ~PutBack(r)
  BY <1>1, <1>3, HereFacts DEF Goes, PutBack
<1>6. FileTypes'
  BY <1>1, <1>2, RemoveTypes
<1>7. ~crowded' => ~crowded /\ LocksOK'
  BY <1>1, <1>2, <1>3, LeaveLock DEF LockedSteps
<1>8. \A d \in DataSets : ~Inside(p, d)
  BY <1>1 DEF Inside, LockedSteps
<1>9. c.alone /\ c.phase = "undo" => \A d \in DataSets :
         \/ file[d].recs = rollback[d]
         \/ d = c.ds /\ ~PutBack(c)
         \/ \E i \in 1 .. Len(c.todo) : c.todo[i] = d
  BY ZenonT(60), <1>3, <1>5, UndoStays
<1> QED
  BY <1>1, <1>3, <1>4, <1>5, <1>6, <1>7, <1>8, <1>9, StepKeeps

\* An import that fails starts its rollback over all datasets.
LEMMA RejectedFacts ==
  ASSUME StoreInv, NEW p \in StoreProcs, caller[p].pc # "rest", caller[p].phase = "apply"
  PROVE  LET c == Rejected(caller[p]) IN
         /\ c \in Callers /\ CallerOK(c) /\ c.pc = "wait" /\ c.call = caller[p].call
         /\ c.alone = caller[p].alone
         /\ \A d \in DataSets : \/ d = c.ds
                                \/ \E i \in 1 .. Len(c.todo) : c.todo[i] = d
<1> DEFINE r == caller[p]
           c == [r EXCEPT !.pc = "wait", !.phase = "undo", !.todo = Tail(InOrder(DataSets)),
                          !.ds = Head(InOrder(DataSets)), !.since = storeTime, !.ok = TRUE]
<1>1. Rejected(r) = c
  BY DEF Rejected
<1>2. r \in Callers /\ CallerOK(r) /\ storeTime \in Nat
  BY HereFacts DEF StoreInv, StoreTypes
<1>3. /\ c \in Callers /\ c.pc = "wait" /\ c.kind = r.kind /\ c.call = r.call
      /\ c.ds = Head(InOrder(DataSets)) /\ c.tidy = r.tidy /\ c.phase = "undo"
      /\ c.todo = Tail(InOrder(DataSets)) /\ c.alone = r.alone
  BY Zenon, <1>2, OrderFacts DEF Callers, Steps
<1> HIDE DEF c
<1>4. r.kind = "import"
  BY <1>2 DEF CallerOK
<1>5. CallerOK(c)
  BY <1>2, <1>3, <1>4 DEF CallerOK
<1> QED
  BY <1>1, <1>3, <1>5, OrderFacts

\* A call outside the lock fails.
LEMMA RejectKeeps ==
  ASSUME StoreInv, NEW p \in StoreProcs, caller[p].pc \in {"wait", "export"}, Reject(p),
         UNCHANGED <<file, rollback, crowded>>, FileTypes',
         \A q \in StoreProcs, d \in DataSets :
            q # p /\ lockFile[d].owner = q => lockFile'[d] = lockFile[d]
  PROVE  StoreInv'
<1> DEFINE c == Rejected(caller[p])
<1>1. Set(p, c) /\ caller[p].pc # "rest"
  BY DEF Reject
<1>2. \A d \in DataSets : ~Inside(p, d)
  BY DEF Inside, LockedSteps
<1>3. /\ c \in Callers /\ CallerOK(c)
      /\ Goes(p, c) \/ Ends(p, c)
      /\ c.pc \in {"wait", "rest"}
      /\ c.alone => \A d \in DataSets : \/ d = c.ds /\ ~PutBack(c)
                                        \/ \E i \in 1 .. Len(c.todo) : c.todo[i] = d
  <2>1. CASE caller[p].phase = "apply"
    <3>1. outcome' = outcome
      BY <2>1 DEF Reject
    <3>2. /\ c \in Callers /\ CallerOK(c) /\ c.pc = "wait" /\ c.call = caller[p].call
          /\ c.alone = caller[p].alone
          /\ \A d \in DataSets : \/ d = c.ds
                                 \/ \E i \in 1 .. Len(c.todo) : c.todo[i] = d
      BY <1>1, <2>1, RejectedFacts
    <3> HIDE DEF c
    <3> QED
      BY <3>1, <3>2 DEF Goes, PutBack
  <2>2. CASE caller[p].phase # "apply"
    <3>1. c = Resting /\ outcome' = [outcome EXCEPT ![caller[p].call] = "refused"]
      BY <2>2 DEF Reject, Rejected
    <3> HIDE DEF c
    <3> QED
      BY <3>1, RestingFacts DEF Ends
  <2> QED
    BY <2>1, <2>2
<1> HIDE DEF c
<1>4. ASSUME ~crowded  PROVE LocksOK'
  <2>1. LocksOK
    BY <1>4 DEF StoreInv
  <2>2. caller'[p] = c /\ \A q \in StoreProcs \ {p} : caller'[q] = caller[q]
    BY Zenon, <1>1, MoveFacts DEF StoreInv, Set
  <2>3. c.pc \notin LockedSteps
    BY <1>3 DEF LockedSteps
  <2> QED
    BY <2>1, <2>2, <2>3 DEF LocksOK, Inside
<1>5. c.pc \notin {"loadMeta", "checkMeta", "data"}
  BY <1>3
<1>6. c.alone /\ c.phase = "undo" => \A d \in DataSets :
         \/ file'[d].recs = rollback'[d]
         \/ d = c.ds /\ ~PutBack(c)
         \/ \E i \in 1 .. Len(c.todo) : c.todo[i] = d
  BY <1>3
<1>7. /\ ~crowded' => ~crowded
      /\ \A d \in DataSets : file'[d] # file[d] => Inside(p, d)
      /\ ~crowded' => LocksOK'
  BY <1>4
<1>8. c \in Callers /\ CallerOK(c)
  BY <1>3
<1>9. Goes(p, c) \/ Ends(p, c)
  BY <1>3
<1> QED
  BY <1>1, <1>2, <1>5, <1>6, <1>7, <1>8, <1>9, StepKeeps

\* The lock cannot be had in time.
LEMMA TimeOutKeeps == ASSUME StoreInv, NEW p \in StoreProcs, TimeOut(p)  PROVE StoreInv'
<1>1. /\ caller[p].pc = "wait" /\ Reject(p)
      /\ UNCHANGED <<file, meta, lockFile, rollback, storeTime, storeFaults, crowded>>
  BY DEF TimeOut, At
<1>2. FileTypes'
  BY <1>1, HereFacts DEF FileTypes
<1> QED
  BY <1>1, <1>2, RejectKeeps

\* The owner cannot be written into the new lock file.
LEMMA AcquireFailsKeeps == ASSUME StoreInv, NEW p \in StoreProcs, AcquireFails(p)  PROVE StoreInv'
<1>1. /\ caller[p].pc = "wait" /\ Reject(p) /\ lockFile[caller[p].ds] = NoLockFile
      /\ lockFile' = [lockFile EXCEPT ![caller[p].ds] = [owner |-> p, at |-> storeTime]]
      /\ storeFaults < MaxStoreFaults /\ storeFaults' = storeFaults + 1
      /\ UNCHANGED <<file, meta, rollback, storeTime, crowded>>
  BY DEF AcquireFails, At
<1>2. FileTypes'
  <2>1. [owner |-> p, at |-> storeTime] \in [owner : StoreProcs \cup {NoProc}, at : Nat]
    BY DEF StoreInv, StoreTypes
  <2>2. lockFile' \in [DataSets -> [owner : StoreProcs \cup {NoProc}, at : Nat]]
    BY <1>1, <2>1, HereFacts DEF FileTypes
  <2>3. storeFaults' \in 0 .. MaxStoreFaults
    BY <1>1, StoreLimits DEF StoreInv, StoreTypes
  <2> QED
    BY Zenon, <1>1, <2>2, <2>3, HereFacts DEF FileTypes
<1>3. \A q \in StoreProcs, d \in DataSets :
         q # p /\ lockFile[d].owner = q => lockFile'[d] = lockFile[d]
  BY <1>1, StoreLimits DEF StoreInv, StoreTypes, NoLockFile
<1> QED
  BY <1>1, <1>2, <1>3, RejectKeeps

\* What the finally clause goes on with.
LEMMA ProceedFacts ==
  ASSUME StoreInv, NEW p \in StoreProcs, caller[p].pc = "unlock"
  PROVE  LET r == caller[p]
             c == Proceed(r)
         IN \/ /\ c = Resting
               /\ ~r.ok => r.phase # "apply"
            \/ /\ c \in Callers /\ CallerOK(c) /\ c.pc \in {"wait", "undone"} /\ c.call = r.call
               /\ c.alone = r.alone
               /\ r.ok \/ r.phase = "apply"
               /\ c.phase = "undo" => \A d \in DataSets :
                     \/ d = c.ds /\ c.pc = "wait"
                     \/ \E i \in 1 .. Len(c.todo) : c.todo[i] = d
                     \/ /\ r.phase = "undo" /\ r.ok
                        /\ \A i \in 1 .. Len(r.todo) : r.todo[i] # d
<1> DEFINE r == caller[p]
           c == Proceed(r)
           on == [r EXCEPT !.pc = "wait", !.ds = Head(r.todo), !.todo = Tail(r.todo),
                           !.since = storeTime, !.cur = NoToken, !.expect = NoToken]
           undone == [r EXCEPT !.pc = "undone"]
<1>1. r \in Callers /\ CallerOK(r) /\ storeTime \in Nat /\ r.todo \in Seq(DataSets)
  BY HereFacts DEF StoreInv, StoreTypes
<1>2. CASE ~r.ok
  <2>1. c = Rejected(r)
    BY <1>2 DEF Proceed
  <2>2. CASE r.phase = "apply"
    <3>1. /\ c \in Callers /\ CallerOK(c) /\ c.pc = "wait" /\ c.call = r.call /\ c.alone = r.alone
          /\ \A d \in DataSets : \/ d = c.ds
                                 \/ \E i \in 1 .. Len(c.todo) : c.todo[i] = d
      BY <2>1, <2>2, RejectedFacts
    <3> QED
      BY <2>2, <3>1
  <2>3. CASE r.phase # "apply"
    BY <2>1, <2>3 DEF Rejected
  <2> QED
    BY <2>2, <2>3
<1>3. CASE r.ok /\ r.todo # <<>>
  <2>1. c = on
    BY <1>3 DEF Proceed
  <2>2. NoToken \in Tokens
    <3>1. <<NoCall>> \in Seq(Calls \cup {NoCall})
      OBVIOUS
    <3> QED
      BY <3>1 DEF NoToken, Tokens
  <2>3. /\ Head(r.todo) \in DataSets /\ Tail(r.todo) \in Seq(DataSets)
        /\ \A i \in 1 .. Len(r.todo) : \/ r.todo[i] = Head(r.todo)
                                       \/ \E k \in 1 .. Len(Tail(r.todo)) : Tail(r.todo)[k] = r.todo[i]
    BY <1>1, <1>3, NextFacts
  <2>4. /\ on \in Callers /\ on.pc = "wait" /\ on.kind = r.kind /\ on.call = r.call
        /\ on.ds = Head(r.todo) /\ on.tidy = r.tidy /\ on.phase = r.phase
        /\ on.todo = Tail(r.todo) /\ on.alone = r.alone
    BY Zenon, <1>1, <2>2, <2>3 DEF Callers, Steps
  <2> HIDE DEF on, c
  <2>5. r.kind = "import"
    BY <1>1, <1>3 DEF CallerOK
  <2>6. CallerOK(c)
    BY <1>1, <2>1, <2>4, <2>5 DEF CallerOK
  <2>7. ASSUME c.phase = "undo", NEW d \in DataSets
        PROVE  \/ d = c.ds /\ c.pc = "wait"
               \/ \E i \in 1 .. Len(c.todo) : c.todo[i] = d
               \/ /\ r.phase = "undo" /\ r.ok
                  /\ \A i \in 1 .. Len(r.todo) : r.todo[i] # d
    BY ZenonT(60), <1>3, <2>1, <2>3, <2>4, <2>7
  <2> QED
    BY <1>3, <2>1, <2>4, <2>6, <2>7 DEF c
<1>4. CASE r.ok /\ r.todo = <<>> /\ r.phase = "undo"
  <2>1. c = undone
    BY <1>4 DEF Proceed
  <2>2. /\ undone \in Callers /\ undone.pc = "undone" /\ undone.kind = r.kind
        /\ undone.call = r.call /\ undone.ds = r.ds /\ undone.tidy = r.tidy
        /\ undone.phase = r.phase /\ undone.todo = r.todo /\ undone.alone = r.alone
    BY ZenonT(60), <1>1, WithStep DEF Steps
  <2> HIDE DEF undone, c
  <2>3. r.kind = "import"
    BY <1>1, <1>4 DEF CallerOK
  <2>4. CallerOK(c)
    BY <1>1, <1>4, <2>1, <2>2, <2>3 DEF CallerOK
  <2>5. \A d \in DataSets : \A i \in 1 .. Len(r.todo) : r.todo[i] # d
    BY <1>4
  <2> QED
    BY <1>4, <2>1, <2>2, <2>4, <2>5 DEF c
<1>5. CASE r.ok /\ r.todo = <<>> /\ r.phase # "undo"
  BY <1>5 DEF Proceed
<1> QED
  BY <1>1, <1>2, <1>3, <1>4, <1>5, HereFacts

\* The finally clause.
LEMMA UnlockKeeps == ASSUME StoreInv, NEW p \in StoreProcs, Unlock(p)  PROVE StoreInv'
<1> DEFINE r == caller[p]
           c == Proceed(r)
<1>1. /\ r.pc = "unlock" /\ Set(p, c) /\ RemoveLock(p, r.ds)
      /\ outcome' = IF c = Resting
                    THEN [outcome EXCEPT ![r.call] = IF r.ok THEN "done" ELSE "refused"]
                    ELSE outcome
      /\ UNCHANGED <<file, meta, rollback, storeTime, storeFaults>>
  BY DEF Unlock, At
<1>2. \/ /\ c = Resting
         /\ ~r.ok => r.phase # "apply"
      \/ /\ c \in Callers /\ CallerOK(c) /\ c.pc \in {"wait", "undone"} /\ c.call = r.call
         /\ c.alone = r.alone
         /\ r.ok \/ r.phase = "apply"
         /\ c.phase = "undo" => \A d \in DataSets :
               \/ d = c.ds /\ c.pc = "wait"
               \/ \E i \in 1 .. Len(c.todo) : c.todo[i] = d
               \/ /\ r.phase = "undo" /\ r.ok
                  /\ \A i \in 1 .. Len(r.todo) : r.todo[i] # d
  BY <1>1, ProceedFacts
<1> HIDE DEF c
<1>3. c \in Callers /\ CallerOK(c) /\ c.pc \in {"wait", "undone", "rest"}
  BY <1>2, RestingFacts
<1>4. r.call \in Calls /\ r.ds \in DataSets /\ r.ok \in BOOLEAN
  BY <1>1, HereFacts
<1>5. Goes(p, c) \/ Ends(p, c)
  <2>1. CASE c = Resting
    BY Zenon, <1>1, <2>1 DEF Ends
  <2>2. CASE c # Resting
    <3>1. outcome' = outcome
      BY <1>1, <2>2
    <3> QED
      BY <1>2, <2>2, <3>1 DEF Goes
  <2> QED
    BY <2>1, <2>2
<1>6. FileTypes'
  BY <1>1, <1>4, RemoveTypes
<1>7. ~crowded' => ~crowded /\ LocksOK'
  BY <1>1, <1>3, <1>4, LeaveLock DEF LockedSteps
<1>8. ASSUME ~crowded', NEW d \in DataSets, Inside(p, d), file[d].tail = "open"
      PROVE  Len(file[d].recs) > 0 /\ file[d].recs[Len(file[d].recs)] \in Failed'
  <2>1. OpenOK /\ LocksOK
    BY <1>7, <1>8 DEF StoreInv
  <2>2. Len(file[d].recs) > 0
    BY <1>8, <2>1 DEF OpenOK
  <2>3. CASE file[d].recs[Len(file[d].recs)] \in Failed
    <3>1. Failed \subseteq Failed'
      BY <1>1, <1>3, <1>5, CallersKeep
    <3> QED
      BY <2>2, <2>3, <3>1
  <2>4. CASE file[d].recs[Len(file[d].recs)] \notin Failed
    <3>1. PICK q \in StoreProcs :
             /\ Inside(q, d) /\ ~caller[q].ok /\ caller[q].phase # "apply"
             /\ caller[q].call = file[d].recs[Len(file[d].recs)]
      BY <1>8, <2>1, <2>4 DEF OpenOK
    <3>2. q = p
      BY <1>8, <2>1, <3>1, Sole
    <3>3. c = Resting
      BY <1>2, <3>1, <3>2
    <3>4. outcome'[r.call] = "refused"
      BY <1>1, <1>4, <3>1, <3>2, <3>3 DEF StoreInv, StoreTypes
    <3> QED
      BY <1>4, <2>2, <3>1, <3>2, <3>4 DEF Failed
  <2> QED
    BY <2>3, <2>4
<1>9. ASSUME c.alone, c.phase = "undo", NEW d \in DataSets
      PROVE  \/ file[d].recs = rollback[d]
             \/ d = c.ds /\ ~PutBack(c)
             \/ \E i \in 1 .. Len(c.todo) : c.todo[i] = d
  <2>1. c # Resting
    BY <1>9, RestingFacts
  <2>2. CASE d = c.ds /\ c.pc = "wait"
    BY <2>2 DEF PutBack
  <2>3. CASE \E i \in 1 .. Len(c.todo) : c.todo[i] = d
    BY <2>3
  <2>4. CASE r.phase = "undo" /\ r.ok /\ \A i \in 1 .. Len(r.todo) : r.todo[i] # d
    <3>1. PutBack(r) /\ r.alone
      BY Zenon, <1>1, <1>2, <1>9, <2>1, <2>4 DEF PutBack
    <3> QED
      BY <2>4, <3>1 DEF StoreInv, UndoOK
  <2> QED
    BY Zenon, <1>2, <1>9, <2>1, <2>2, <2>3, <2>4
<1>10. c.pc \notin {"loadMeta", "checkMeta", "data"}
  BY <1>3
<1>11. \A d \in DataSets : file'[d] = file[d] /\ rollback'[d] = rollback[d]
  BY <1>1
<1>12. c.alone /\ c.phase = "undo" => \A d \in DataSets :
          \/ file'[d].recs = rollback'[d]
          \/ d = c.ds /\ ~PutBack(c)
          \/ \E i \in 1 .. Len(c.todo) : c.todo[i] = d
  BY <1>9, <1>11
<1>13. ~crowded' => \A d \in DataSets : Inside(p, d) /\ file'[d].tail = "open" =>
          Len(file'[d].recs) > 0 /\ file'[d].recs[Len(file'[d].recs)] \in Failed'
  BY <1>8, <1>11
<1> QED
  BY <1>1, <1>3, <1>5, <1>6, <1>7, <1>10, <1>11, <1>12, <1>13, StepKeeps

\* A process leaves its call from outside the lock, or dies inside it.
LEMMA QuitKeeps ==
  ASSUME StoreInv, NEW p \in StoreProcs, caller[p].pc # "rest", Set(p, Resting),
         Ends(p, Resting), FileTypes',
         UNCHANGED <<lockFile, rollback, crowded>>,
         \A d \in DataSets : file'[d] # file[d] => Inside(p, d),
         ~crowded => \A d \in DataSets : Inside(p, d) /\ file'[d].tail = "open" =>
            Len(file'[d].recs) > 0 /\ file'[d].recs[Len(file'[d].recs)] \in Failed'
  PROVE  StoreInv'
<1> DEFINE c == Resting
<1>1. c \in Callers /\ CallerOK(c) /\ c.pc = "rest" /\ ~c.alone
  BY RestingFacts
<1>2. Set(p, c) /\ Ends(p, c)
  OBVIOUS
<1> HIDE DEF c
<1>3. ASSUME ~crowded  PROVE LocksOK'
  <2>1. LocksOK
    BY <1>3 DEF StoreInv
  <2>2. caller'[p] = c /\ \A q \in StoreProcs \ {p} : caller'[q] = caller[q]
    BY Zenon, <1>2, MoveFacts DEF StoreInv, Set
  <2>3. c.pc \notin LockedSteps
    BY <1>1 DEF LockedSteps
  <2> QED
    BY <2>1, <2>2, <2>3 DEF LocksOK, Inside
<1> QED
  BY <1>1, <1>2, <1>3, StepKeeps

\* importSnapshot throws.
LEMMA ImportThrowsKeeps == ASSUME StoreInv, NEW p \in StoreProcs, ImportThrows(p)  PROVE StoreInv'
<1>1. /\ caller[p].pc = "undone" /\ Set(p, Resting)
      /\ outcome' = [outcome EXCEPT ![caller[p].call] = "refused"]
      /\ UNCHANGED <<file, meta, lockFile, rollback, storeTime, storeFaults, crowded>>
  BY DEF ImportThrows, At
<1>2. Ends(p, Resting)
  BY <1>1 DEF Ends
<1>3. FileTypes' /\ \A d \in DataSets : ~Inside(p, d)
  BY <1>1, HereFacts DEF FileTypes, Inside, LockedSteps
<1> QED
  BY <1>1, <1>2, <1>3, QuitKeeps

\* A dataset is exported for the rollback.
LEMMA ExportSetKeeps == ASSUME StoreInv, NEW p \in StoreProcs, ExportSet(p)  PROVE StoreInv'
<1> DEFINE r == caller[p]
<1>1. r.pc = "export" /\ UNCHANGED <<file, meta, lockFile, storeTime, storeFaults, crowded>>
  BY DEF ExportSet, At
<1>2. CASE file[r.ds].tail = "half"
  <2>1. Reject(p) /\ rollback' = rollback
    BY <1>2 DEF ExportSet
  <2>2. FileTypes'
    BY <1>1, <2>1, HereFacts DEF FileTypes
  <2> QED
    BY <1>1, <2>1, <2>2, RejectKeeps
<1>3. CASE file[r.ds].tail # "half"
  <2> DEFINE next == [r EXCEPT !.ds = Head(r.todo), !.todo = Tail(r.todo)]
             apply == [r EXCEPT !.pc = "wait", !.phase = "apply", !.since = storeTime,
                                !.ds = Head(InOrder(DataSets)), !.todo = Tail(InOrder(DataSets))]
             c == IF r.todo # <<>> THEN next ELSE apply
  <2>1. Set(p, c) /\ outcome' = outcome /\ rollback' = [rollback EXCEPT ![r.ds] = file[r.ds].recs]
    BY <1>3 DEF ExportSet
  <2>2. /\ r \in Callers /\ CallerOK(r) /\ r.ds \in DataSets /\ r.todo \in Seq(DataSets)
        /\ storeTime \in Nat /\ file[r.ds].recs \in Seq(Calls)
    BY HereFacts, FileFacts DEF StoreInv, StoreTypes
  <2>3. r.kind = "import" /\ r.phase = "none" /\ ~r.tidy
    BY <1>1, <2>2, HereFacts DEF CallerOK
  <2>4. FileTypes'
    <3>1. rollback' \in [DataSets -> Seq(Calls)]
      BY <2>1, <2>2, HereFacts DEF FileTypes
    <3> QED
      BY <1>1, <3>1, HereFacts DEF FileTypes
  <2>5. /\ c \in Callers /\ c.pc \in {"export", "wait"} /\ c.kind = "import" /\ c.call = r.call
        /\ c.tidy = r.tidy /\ c.alone = r.alone
        /\ c.phase = IF c.pc = "export" THEN "none" ELSE "apply"
    <3>1. CASE r.todo # <<>>
      <4>1. Head(r.todo) \in DataSets /\ Tail(r.todo) \in Seq(DataSets)
        BY <2>2, <3>1, NextFacts
      <4>2. /\ next \in Callers /\ next.pc = r.pc /\ next.kind = r.kind /\ next.call = r.call
            /\ next.tidy = r.tidy /\ next.alone = r.alone /\ next.phase = r.phase
        BY Zenon, <2>2, <4>1 DEF Callers
      <4> HIDE DEF next
      <4>3. c = next
        BY <3>1
      <4> HIDE DEF c
      <4> QED
        BY <1>1, <2>3, <4>2, <4>3
    <3>2. CASE r.todo = <<>>
      <4>2. /\ apply \in Callers /\ apply.pc = "wait" /\ apply.kind = r.kind /\ apply.call = r.call
            /\ apply.tidy = r.tidy /\ apply.alone = r.alone /\ apply.phase = "apply"
        BY Zenon, <2>2, OrderFacts DEF Callers, Steps
      <4> HIDE DEF apply
      <4>3. c = apply
        BY <3>2
      <4> HIDE DEF c
      <4> QED
        BY <2>3, <4>2, <4>3
    <3> QED
      BY <3>1, <3>2
  <2> HIDE DEF c
  <2>6. CallerOK(c)
    BY <2>2, <2>3, <2>5, <1>1, HereFacts DEF CallerOK
  <2>7. Goes(p, c)
    BY <2>1, <2>5 DEF Goes
  <2>8. (\A d \in DataSets : ~Inside(p, d)) /\ c.pc \notin LockedSteps
    BY <1>1, <2>5 DEF Inside, LockedSteps
  <2>9. ASSUME ~crowded  PROVE LocksOK'
    <3>1. LocksOK
      BY <2>9 DEF StoreInv
    <3>2. caller'[p] = c /\ \A q \in StoreProcs \ {p} : caller'[q] = caller[q]
      BY Zenon, <2>1, MoveFacts DEF StoreInv, Set
    <3> QED
      BY <1>1, <2>8, <3>1, <3>2 DEF LocksOK, Inside
  <2>10. c.phase # "undo" /\ c.pc \notin {"loadMeta", "checkMeta", "data"} /\ r.pc # "rest"
    BY <1>1, <2>5
  <2> QED
    BY <1>1, <2>1, <2>4, <2>5, <2>6, <2>7, <2>8, <2>9, <2>10, StepKeeps
<1> QED
  BY <1>2, <1>3

\* What a call writes are records of calls, and within the limit when it retains.
LEMMA NewRecordsFacts ==
  ASSUME StoreInv, NEW p \in StoreProcs, caller[p].pc = "data"
  PROVE  LET r == caller[p] IN
         /\ NewRecords(r) \in Seq(Calls)
         /\ Appends(r) => /\ NewRecords(r) = Append(file[r.ds].recs, r.call)
                          /\ r.ds \in LogSets /\ r.phase = "none"
         /\ r.kind = "retain" /\ ~r.tidy =>
               NewRecords(r) = Append(LastRecords(r.cur.recs, RecordLimit - 1), r.call)
         /\ r.kind = "retain" /\ ~r.tidy => Len(NewRecords(r)) \in 0 .. RecordLimit
         /\ r.kind \in {"update", "put"} => NewRecords(r) = Append(r.cur.recs, r.call)
         /\ r.kind = "import" /\ r.phase = "apply" => NewRecords(r) = <<r.call>>
         /\ r.phase = "undo" => NewRecords(r) = rollback[r.ds]
         /\ r.kind \in CallKind
         /\ r.kind = "import" => r.phase \in {"apply", "undo"}
<1> DEFINE r == caller[p]
<1>1. /\ r.ds \in DataSets /\ r.call \in Calls /\ r.kind \in CallKind /\ CallerOK(r)
      /\ r.cur.recs \in Seq(Calls) /\ r.phase \in {"none", "apply", "undo"}
  BY HereFacts DEF CallerOK
<1>2. r.kind = "import" => r.phase \in {"apply", "undo"}
  BY <1>1 DEF CallerOK
<1>3. r.kind # "import" => r.phase = "none"
  BY <1>1 DEF CallerOK
<1>4. file[r.ds].recs \in Seq(Calls) /\ rollback[r.ds] \in Seq(Calls)
  BY <1>1, FileFacts
<1>5. CASE r.kind = "append"
  <2>1. NewRecords(r) = Append(file[r.ds].recs, r.call)
    BY Zenon, <1>5, <1>3 DEF NewRecords
  <2> QED
    BY SMTT(60), <1>1, <1>3, <1>4, <1>5, <2>1 DEF Appends, CallerOK
<1>6. CASE r.kind = "retain" /\ r.tidy
  <2>1. NewRecords(r) = Append(file[r.ds].recs, r.call)
    BY Zenon, <1>6, <1>3 DEF NewRecords
  <2> QED
    BY SMTT(60), <1>1, <1>3, <1>4, <1>6, <2>1 DEF Appends, CallerOK
<1>7. CASE r.kind = "retain" /\ ~r.tidy
  <2>1. NewRecords(r) = Append(LastRecords(r.cur.recs, RecordLimit - 1), r.call)
    BY <1>7, <1>3 DEF NewRecords
  <2>2. /\ LastRecords(r.cur.recs, RecordLimit - 1) \in Seq(Calls)
        /\ Len(LastRecords(r.cur.recs, RecordLimit - 1)) =< RecordLimit - 1
    BY <1>1, StoreLimits, LastRecordsFacts
  <2>3. NewRecords(r) \in Seq(Calls) /\ Len(NewRecords(r)) \in 0 .. RecordLimit
    BY <1>1, <2>1, <2>2, StoreLimits
  <2> QED
    BY <1>1, <1>3, <1>7, <2>1, <2>3 DEF Appends
<1>8. CASE r.kind \in {"update", "put"}
  <2>1. NewRecords(r) = Append(r.cur.recs, r.call)
    BY Zenon, <1>8, <1>3 DEF NewRecords
  <2> QED
    BY <1>1, <1>3, <1>8, <2>1 DEF Appends
<1>9. CASE r.kind = "import" /\ r.phase = "apply"
  <2>1. NewRecords(r) = <<r.call>>
    BY <1>9 DEF NewRecords
  <2> QED
    BY <1>1, <1>9, <2>1 DEF Appends
<1>10. CASE r.kind = "import" /\ r.phase = "undo"
  <2>1. NewRecords(r) = rollback[r.ds]
    BY <1>10 DEF NewRecords
  <2> QED
    BY <1>1, <1>4, <1>10, <2>1 DEF Appends
<1> QED
  BY <1>1, <1>2, <1>5, <1>6, <1>7, <1>8, <1>9, <1>10 DEF CallKind

\* What the file holds after a write.
LEMMA WrittenFacts ==
  ASSUME StoreInv, NEW p \in StoreProcs, caller[p].pc = "data"
  PROVE  LET r == caller[p]
             w == Written(r)
         IN /\ w \in [recs : Seq(Calls), tail : {"whole", "open", "half"}]
            /\ w.tail \in {"whole", "half"}
            /\ r.ds \in JsonSets => w.tail = "whole"
            /\ ~(Appends(r) /\ file[r.ds].tail = "open") => w.recs = NewRecords(r)
            /\ Appends(r) /\ file[r.ds].tail = "open" => w.recs = Front(file[r.ds].recs)
<1> DEFINE r == caller[p]
           w == Written(r)
<1>1. NewRecords(r) \in Seq(Calls) /\ (Appends(r) => r.ds \in LogSets)
  BY NewRecordsFacts
<1>2. file[r.ds].recs \in Seq(Calls) /\ JsonSets \cap LogSets = {}
  BY HereFacts, FileFacts, StoreLimits
<1>3. CASE Appends(r) /\ file[r.ds].tail = "open"
  <2>1. w = [recs |-> Front(file[r.ds].recs), tail |-> "half"]
    BY <1>3 DEF Written
  <2>2. Front(file[r.ds].recs) \in Seq(Calls)
    <3>1. Front(file[r.ds].recs) = SubSeq(file[r.ds].recs, 1, Len(file[r.ds].recs) - 1)
      BY DEF Front
    <3>2. \A i \in 1 .. Len(file[r.ds].recs) - 1 : file[r.ds].recs[i] \in Calls
      BY <1>2
    <3>3. Len(file[r.ds].recs) \in Nat
      BY <1>2
    <3> QED
      BY <3>1, <3>2, <3>3, <1>2, SubSeqProperties
  <2> QED
    BY <1>1, <1>2, <1>3, <2>1, <2>2
<1>4. CASE ~(Appends(r) /\ file[r.ds].tail = "open")
  <2>1. w = [recs |-> NewRecords(r), tail |-> "whole"]
    BY <1>4 DEF Written
  <2> QED
    BY <1>1, <1>4, <2>1
<1> QED
  BY <1>3, <1>4

\* The data file is written.
LEMMA WriteDataKeeps == ASSUME StoreInv, NEW p \in StoreProcs, WriteData(p)  PROVE StoreInv'
<1> DEFINE r == caller[p]
           w == Written(r)
           n == CASE r.kind = "retain" /\ r.tidy -> r.count + 1
                  [] r.kind = "retain" /\ ~r.tidy -> Len(NewRecords(r))
                  [] OTHER -> 0
           c == [r EXCEPT !.pc = "meta", !.count = n]
<1>1. /\ r.pc = "data" /\ Set(p, c) /\ file' = [file EXCEPT ![r.ds] = w]
      /\ UNCHANGED <<meta, lockFile, outcome, rollback, storeTime, storeFaults, crowded>>
  BY DEF WriteData, At
<1>2. r \in Callers /\ CallerOK(r) /\ r.ds \in DataSets /\ r.count \in 0 .. RecordLimit
      /\ r.tidy \in BOOLEAN
  BY HereFacts
<1>3. /\ w \in [recs : Seq(Calls), tail : {"whole", "open", "half"}]
      /\ w.tail \in {"whole", "half"}
      /\ r.ds \in JsonSets => w.tail = "whole"
      /\ r.phase = "undo" => w.recs = rollback[r.ds]
  <2>1. Appends(r) => r.phase = "none"
    BY <1>1, NewRecordsFacts
  <2>2. r.phase = "undo" => NewRecords(r) = rollback[r.ds]
    BY <1>1, NewRecordsFacts
  <2> QED
    BY <1>1, <2>1, <2>2, WrittenFacts
<1> HIDE DEF w
<1>4. n \in 0 .. RecordLimit
  <2>1. CASE r.kind = "retain" /\ r.tidy
    <3>1. r.count < RecordLimit
      BY <1>1, <1>2, <2>1 DEF CallerOK
    <3>2. n = r.count + 1
      BY <2>1
    <3> HIDE DEF n
    <3> QED
      BY <1>2, <3>1, <3>2, StoreLimits
  <2>2. CASE r.kind = "retain" /\ ~r.tidy
    BY <1>1, <2>2, NewRecordsFacts
  <2>3. CASE r.kind # "retain"
    BY <2>3, StoreLimits
  <2> QED
    BY <2>1, <2>2, <2>3
<1> HIDE DEF n
<1>5. /\ c \in Callers /\ c.pc = "meta" /\ c.kind = r.kind /\ c.call = r.call /\ c.ds = r.ds
      /\ c.tidy = r.tidy /\ c.phase = r.phase /\ c.todo = r.todo /\ c.alone = r.alone
  BY Zenon, <1>2, <1>4 DEF Callers, Steps
<1> HIDE DEF c
<1>6. CallerOK(c)
  BY <1>1, <1>2, <1>5 DEF CallerOK
<1>7. Goes(p, c)
  BY <1>1, <1>5 DEF Goes
<1>8. file'[r.ds] = w /\ \A d \in DataSets : d # r.ds => file'[d] = file[d]
  BY <1>1, <1>2 DEF StoreInv, StoreTypes
<1>9. FileTypes'
  <2>1. file' \in [DataSets -> [recs : Seq(Calls), tail : {"whole", "open", "half"}]]
    BY <1>1, <1>2, <1>3, HereFacts DEF FileTypes
  <2>2. \A d \in JsonSets : d \in DataSets /\ file[d].tail = "whole"
    BY HereFacts DEF FileTypes, DataSets
  <2>3. \A d \in JsonSets : file'[d].tail = "whole"
    BY <1>3, <1>8, <2>2
  <2> QED
    BY Zenon, <1>1, <2>1, <2>3, HereFacts DEF FileTypes
<1>10. Inside(p, r.ds) /\ \A d \in DataSets : Inside(p, d) => d = r.ds
  BY <1>1 DEF Inside, LockedSteps
<1>11. ASSUME ~crowded  PROVE LocksOK'
  <2>1. LocksOK
    BY <1>11 DEF StoreInv
  <2>2. caller'[p] = c /\ \A q \in StoreProcs \ {p} : caller'[q] = caller[q]
    BY Zenon, <1>1, MoveFacts DEF StoreInv, Set
  <2> QED
    BY <1>1, <1>5, <2>1, <2>2 DEF LocksOK, Inside, LockedSteps
<1>12. ASSUME c.alone, c.phase = "undo", NEW d \in DataSets
       PROVE  \/ file'[d].recs = rollback'[d]
              \/ d = c.ds /\ ~PutBack(c)
              \/ \E i \in 1 .. Len(c.todo) : c.todo[i] = d
  <2>1. CASE d = r.ds
    BY <1>1, <1>3, <1>5, <1>8, <1>12, <2>1
  <2>2. CASE d # r.ds
    <3>1. r.alone /\ r.phase = "undo"
      BY <1>5, <1>12
    <3>2. \/ file[d].recs = rollback[d]
          \/ \E i \in 1 .. Len(r.todo) : r.todo[i] = d
      BY <2>2, <3>1 DEF StoreInv, UndoOK
    <3> QED
      BY <1>1, <1>5, <1>8, <2>2, <3>2
  <2> QED
    BY <2>1, <2>2
<1>13. c.pc \notin {"loadMeta", "checkMeta", "data"} /\ r.pc # "rest"
  BY <1>1, <1>5
<1>14. \A d \in DataSets : Inside(p, d) => file'[d].tail # "open"
  BY <1>3, <1>8, <1>10
<1>15. \A d \in DataSets : file'[d] # file[d] => Inside(p, d)
  BY <1>8, <1>10
<1> QED
  BY <1>1, <1>5, <1>6, <1>7, <1>9, <1>11, <1>12, <1>13, <1>14, <1>15, StepKeeps

\* What a write that is cut leaves.
LEMMA CutFacts ==
  ASSUME StoreInv, NEW p \in StoreProcs, caller[p].pc = "data", Appends(caller[p]), Cut(caller[p])
  PROVE  LET r == caller[p] IN
         /\ file' \in [DataSets -> [recs : Seq(Calls), tail : {"whole", "open", "half"}]]
         /\ \A d \in JsonSets : file'[d].tail = "whole"
         /\ \A d \in DataSets : d # r.ds => file'[d] = file[d]
         /\ \/ file'[r.ds].recs = file[r.ds].recs /\ file'[r.ds].tail \in {file[r.ds].tail, "half"}
            \/ /\ file'[r.ds].recs = Append(file[r.ds].recs, r.call)
               /\ file[r.ds].tail # "open"
               /\ Len(file'[r.ds].recs) > 0
               /\ file'[r.ds].recs[Len(file'[r.ds].recs)] = r.call
<1> DEFINE r == caller[p]
           half == [file EXCEPT ![r.ds].tail = "half"]
           open == [file EXCEPT ![r.ds] = [recs |-> NewRecords(r), tail |-> "open"]]
<1>1. /\ r.ds \in DataSets /\ r.ds \in LogSets /\ r.call \in Calls
      /\ NewRecords(r) = Append(file[r.ds].recs, r.call) /\ NewRecords(r) \in Seq(Calls)
  BY HereFacts, NewRecordsFacts
<1>2. /\ file \in [DataSets -> [recs : Seq(Calls), tail : {"whole", "open", "half"}]]
      /\ \A d \in JsonSets : file[d].tail = "whole" /\ d # r.ds /\ d \in DataSets
  <2>1. \A d \in JsonSets : d # r.ds /\ d \in DataSets
    BY <1>1, StoreLimits DEF DataSets
  <2> QED
    BY <2>1, HereFacts DEF FileTypes
<1>3. file' = file \/ file' = half \/ (file' = open /\ file[r.ds].tail # "open")
  BY DEF Cut
<1>4. CASE file' = file
  BY <1>2, <1>4
<1>5. CASE file' = half
  BY Zenon, <1>1, <1>2, <1>5
<1>6. CASE file' = open /\ file[r.ds].tail # "open"
  <2>1. [recs |-> NewRecords(r), tail |-> "open"] \in [recs : Seq(Calls), tail : {"whole", "open", "half"}]
    BY <1>1
  <2>2. /\ file' \in [DataSets -> [recs : Seq(Calls), tail : {"whole", "open", "half"}]]
        /\ \A d \in DataSets : d # r.ds => file'[d] = file[d]
        /\ file'[r.ds].recs = NewRecords(r)
    BY <1>1, <1>2, <1>6, <2>1
  <2>3. file[r.ds].recs \in Seq(Calls)
    BY <1>1, <1>2
  <2>4. Len(NewRecords(r)) > 0 /\ NewRecords(r)[Len(NewRecords(r))] = r.call
    BY SMTT(60), <1>1, <2>3
  <2> QED
    BY Zenon, <1>1, <1>2, <1>6, <2>2, <2>4
<1> QED
  BY <1>3, <1>4, <1>5, <1>6

\* A line left without its newline by a cut is of this call or of one that failed.
LEMMA CutOpen ==
  ASSUME StoreInv, NEW p \in StoreProcs, ~crowded, caller[p].pc # "rest",
         IF caller[p].pc = "data" /\ Appends(caller[p]) THEN Cut(caller[p]) ELSE UNCHANGED file,
         NEW d \in DataSets, Inside(p, d), file'[d].tail = "open"
  PROVE  /\ Len(file'[d].recs) > 0
         /\ \/ file'[d].recs[Len(file'[d].recs)] \in Failed
            \/ file'[d].recs[Len(file'[d].recs)] = caller[p].call
<1>1. LocksOK /\ OpenOK
  BY DEF StoreInv
<1>2. caller[p].ds = d
  BY DEF Inside
<1>3. ASSUME file'[d].recs = file[d].recs, file[d].tail = "open"
      PROVE  /\ Len(file'[d].recs) > 0
             /\ \/ file'[d].recs[Len(file'[d].recs)] \in Failed
                \/ file'[d].recs[Len(file'[d].recs)] = caller[p].call
  <2>1. \A q \in StoreProcs : Inside(q, d) => q = p
    BY <1>1, Sole
  <2> QED
    BY <1>1, <1>3, <2>1 DEF OpenOK
<1>4. CASE caller[p].pc = "data" /\ Appends(caller[p])
  <2>1. \/ file'[d].recs = file[d].recs /\ file'[d].tail \in {file[d].tail, "half"}
        \/ /\ Len(file'[d].recs) > 0
           /\ file'[d].recs[Len(file'[d].recs)] = caller[p].call
    BY <1>2, <1>4, CutFacts
  <2> QED
    BY <1>3, <2>1
<1>5. CASE ~(caller[p].pc = "data" /\ Appends(caller[p]))
  BY <1>3, <1>5
<1> QED
  BY <1>4, <1>5

\* A cut changes no other file than the one that is written, inside its lock.
LEMMA CutTypes ==
  ASSUME StoreInv, NEW p \in StoreProcs, storeFaults < MaxStoreFaults,
         IF caller[p].pc = "data" /\ Appends(caller[p]) THEN Cut(caller[p]) ELSE UNCHANGED file,
         storeFaults' = storeFaults + 1,
         UNCHANGED <<meta, lockFile, rollback, storeTime, crowded>>
  PROVE  FileTypes' /\ \A d \in DataSets : file'[d] # file[d] => Inside(p, d)
<1>1. storeFaults' \in 0 .. MaxStoreFaults
  BY StoreLimits DEF StoreInv, StoreTypes
<1>2. CASE caller[p].pc = "data" /\ Appends(caller[p])
  <2>1. /\ file' \in [DataSets -> [recs : Seq(Calls), tail : {"whole", "open", "half"}]]
        /\ \A d \in JsonSets : file'[d].tail = "whole"
        /\ \A d \in DataSets : d # caller[p].ds => file'[d] = file[d]
    BY <1>2, CutFacts
  <2> QED
    BY Zenon, <1>1, <1>2, <2>1, HereFacts DEF FileTypes, Inside, LockedSteps
<1>3. CASE ~(caller[p].pc = "data" /\ Appends(caller[p]))
  BY <1>1, <1>3, HereFacts DEF FileTypes
<1> QED
  BY <1>2, <1>3

\* A write fails.
LEMMA WriteFailsKeeps == ASSUME StoreInv, NEW p \in StoreProcs, WriteFails(p)  PROVE StoreInv'
<1> DEFINE r == caller[p]
           c == [r EXCEPT !.pc = "unlock", !.ok = FALSE]
<1>1. /\ r.pc \in {"data", "meta"} /\ Set(p, c)
      /\ storeFaults < MaxStoreFaults /\ storeFaults' = storeFaults + 1
      /\ IF r.pc = "data" /\ Appends(r) THEN Cut(r) ELSE UNCHANGED file
      /\ UNCHANGED <<meta, lockFile, outcome, rollback, storeTime, crowded>>
  BY DEF WriteFails
<1>2. FileTypes' /\ \A d \in DataSets : file'[d] # file[d] => Inside(p, d)
  BY <1>1, CutTypes
<1>3. CASE r.pc = "data" /\ Appends(r)
  <2>1. r.phase = "none"
    BY <1>3, NewRecordsFacts
  <2>2. /\ c \in Callers /\ c.pc = "unlock" /\ c.kind = r.kind /\ c.call = r.call
        /\ c.ds = r.ds /\ c.tidy = r.tidy /\ c.phase = r.phase
        /\ c.todo = r.todo /\ c.alone = r.alone /\ c.ok = FALSE
    BY Zenon, HereFacts, WithError
  <2> HIDE DEF c
  <2>3. CallerOK(c)
    BY <1>3, <2>2, HereFacts DEF CallerOK
  <2>4. Goes(p, c)
    BY <1>1, <2>2 DEF Goes
  <2>5. ASSUME ~crowded  PROVE LocksOK'
    <3>1. LocksOK
      BY <2>5 DEF StoreInv
    <3>2. caller'[p] = c /\ \A q \in StoreProcs \ {p} : caller'[q] = caller[q]
      BY Zenon, <1>1, MoveFacts DEF StoreInv, Set
    <3> QED
      BY <1>1, <2>2, <3>1, <3>2 DEF LocksOK, Inside, LockedSteps
  <2>6. Failed' = Failed
    BY <1>1 DEF Failed
  <2>7. ~crowded => \A d \in DataSets : Inside(p, d) /\ file'[d].tail = "open" =>
           /\ Len(file'[d].recs) > 0
           /\ \/ file'[d].recs[Len(file'[d].recs)] \in Failed'
              \/ /\ c.ds = d /\ c.pc = "unlock" /\ ~c.ok /\ c.phase # "apply"
                 /\ c.call = file'[d].recs[Len(file'[d].recs)]
    <3> SUFFICES ASSUME ~crowded, NEW d \in DataSets, Inside(p, d), file'[d].tail = "open"
                 PROVE  /\ Len(file'[d].recs) > 0
                        /\ \/ file'[d].recs[Len(file'[d].recs)] \in Failed'
                           \/ /\ c.ds = d /\ c.pc = "unlock" /\ ~c.ok /\ c.phase # "apply"
                              /\ c.call = file'[d].recs[Len(file'[d].recs)]
      OBVIOUS
    <3>1. /\ Len(file'[d].recs) > 0
          /\ \/ file'[d].recs[Len(file'[d].recs)] \in Failed
             \/ file'[d].recs[Len(file'[d].recs)] = r.call
      BY <1>1, CutOpen
    <3>2. r.ds = d
      BY DEF Inside
    <3> QED
      BY <2>1, <2>2, <2>6, <3>1, <3>2
  <2>8. c.pc \notin {"loadMeta", "checkMeta", "data"} /\ r.pc # "rest" /\ c.phase # "undo"
    BY <1>1, <2>1, <2>2
  <2> QED
    BY <1>1, <1>2, <2>2, <2>3, <2>4, <2>5, <2>7, <2>8, StepKeeps
<1>4. CASE ~(r.pc = "data" /\ Appends(r))
  <2>1. r.pc \in LockedSteps \ {"unlock"} /\ storeFaults' \in 0 .. MaxStoreFaults
    BY <1>1, <1>2 DEF LockedSteps, FileTypes
  <2>2. file' = file
    BY <1>1, <1>4
  <2> QED
    BY Zenon, <1>1, <2>1, <2>2, GiveUpKeeps
<1> QED
  BY <1>3, <1>4

\* A process dies.
LEMMA StoreCrashKeeps == ASSUME StoreInv, NEW p \in StoreProcs, StoreCrash(p)  PROVE StoreInv'
<1> DEFINE r == caller[p]
<1>1. /\ r.pc # "rest" /\ Set(p, Resting)
      /\ storeFaults < MaxStoreFaults /\ storeFaults' = storeFaults + 1
      /\ IF r.pc = "data" /\ Appends(r) THEN Cut(r) ELSE UNCHANGED file
      /\ outcome' = [outcome EXCEPT ![r.call] = "crashed"]
      /\ UNCHANGED <<meta, lockFile, rollback, storeTime, crowded>>
  BY DEF StoreCrash, At
<1>2. FileTypes' /\ \A d \in DataSets : file'[d] # file[d] => Inside(p, d)
  BY <1>1, CutTypes
<1>3. Ends(p, Resting)
  BY <1>1 DEF Ends
<1>4. r.call \in Calls /\ r.call \in Failed' /\ Failed \subseteq Failed'
  <2>1. r.call \in Calls
    BY <1>1, HereFacts
  <2> QED
    BY <1>1, <2>1 DEF Failed, StoreInv, StoreTypes
<1>5. ~crowded => \A d \in DataSets : Inside(p, d) /\ file'[d].tail = "open" =>
         Len(file'[d].recs) > 0 /\ file'[d].recs[Len(file'[d].recs)] \in Failed'
  <2> SUFFICES ASSUME ~crowded, NEW d \in DataSets, Inside(p, d), file'[d].tail = "open"
               PROVE  Len(file'[d].recs) > 0 /\ file'[d].recs[Len(file'[d].recs)] \in Failed'
    OBVIOUS
  <2>1. /\ Len(file'[d].recs) > 0
        /\ \/ file'[d].recs[Len(file'[d].recs)] \in Failed
           \/ file'[d].recs[Len(file'[d].recs)] = r.call
    BY <1>1, CutOpen
  <2> QED
    BY <1>4, <2>1
<1> QED
  BY <1>1, <1>2, <1>3, <1>5, QuitKeeps

\* A process begins a call; whoever imports alone is no longer alone.
LEMMA BeginCallKeeps ==
  ASSUME StoreInv, NEW p \in StoreProcs, NEW c \in Calls, NEW d \in DataSets, NEW kind \in Kinds[c],
         BeginCall(p, c, kind, d)
  PROVE  StoreInv'
<1> DEFINE new == [Resting EXCEPT !.pc = FirstStep(kind), !.kind = kind, !.call = c,
                                  !.ds = d, !.since = storeTime,
                                  !.todo = IF kind = "import" THEN Tail(InOrder(DataSets)) ELSE <<>>,
                                  !.alone = \A r \in StoreProcs : At(r, "rest")]
           alone == \A r \in StoreProcs : At(r, "rest")
           todo == IF kind = "import" THEN Tail(InOrder(DataSets)) ELSE <<>>
<1>1. /\ caller[p].pc = "rest" /\ outcome[c] = "new"
      /\ kind \in {"update", "put"} => d \in JsonSets
      /\ kind \in {"append", "retain"} => d \in LogSets
      /\ caller' = [q \in StoreProcs |-> IF q = p THEN new ELSE [caller[q] EXCEPT !.alone = FALSE]]
      /\ outcome' = [outcome EXCEPT ![c] = "open"]
      /\ UNCHANGED <<file, meta, lockFile, rollback, storeTime, storeFaults, crowded>>
  BY Zenon DEF BeginCall, At
<1>2. kind \in CallKind
  BY StoreLimits DEF CallKind
<1>3. /\ new \in Callers /\ new.pc \in {"peek", "export", "wait"} /\ new.kind = kind
      /\ new.pc = "peek" <=> kind = "put"
      /\ new.pc = "export" <=> kind = "import"
      /\ new.call = c /\ new.ds = d /\ new.phase = "none" /\ new.todo = todo
      /\ new.alone = alone /\ ~new.tidy
  <2>1. /\ FirstStep(kind) \in {"peek", "export", "wait"}
        /\ FirstStep(kind) = "peek" <=> kind = "put"
        /\ FirstStep(kind) = "export" <=> kind = "import"
    BY <1>2 DEF FirstStep, CallKind
  <2>2. todo \in Seq(DataSets) /\ storeTime \in Nat
    BY OrderFacts DEF StoreInv, StoreTypes
  <2>3. alone \in BOOLEAN
    OBVIOUS
  <2> DEFINE s == FirstStep(kind)
  <2>4. new = [Resting EXCEPT !.pc = s, !.kind = kind, !.call = c, !.ds = d, !.since = storeTime,
                              !.todo = todo, !.alone = alone]
    OBVIOUS
  <2> HIDE DEF s, new, todo, alone
  <2>5. s \in Steps
    BY <2>1 DEF s, Steps
  <2>6. new \in Callers /\ new.pc = s /\ new.kind = kind /\ new.call = c /\ new.ds = d
        /\ new.phase = Resting.phase /\ new.todo = todo /\ new.alone = alone /\ new.tidy = Resting.tidy
    BY Zenon, <1>2, <2>2, <2>3, <2>4, <2>5, RestingFacts DEF Callers
  <2> QED
    BY <2>1, <2>6 DEF s, Resting
<1> HIDE DEF new
<1>4. caller'[p] = new /\ \A q \in StoreProcs \ {p} : caller'[q] = [caller[q] EXCEPT !.alone = FALSE]
  BY <1>1
<1>5. \A q \in StoreProcs \ {p} :
         /\ caller'[q] \in Callers /\ ~caller'[q].alone
         /\ caller'[q].pc = caller[q].pc /\ caller'[q].kind = caller[q].kind
         /\ caller'[q].call = caller[q].call /\ caller'[q].ds = caller[q].ds
         /\ caller'[q].cur = caller[q].cur /\ caller'[q].tidy = caller[q].tidy
         /\ caller'[q].count = caller[q].count /\ caller'[q].phase = caller[q].phase
         /\ caller'[q].todo = caller[q].todo /\ caller'[q].ok = caller[q].ok
  <2> TAKE q \in StoreProcs \ {p}
  <2>1. caller[q] \in Callers
    BY HereFacts
  <2> DEFINE r == caller[q]
             a == [r EXCEPT !.alone = FALSE]
  <2>2. /\ a \in Callers /\ ~a.alone /\ a.pc = r.pc /\ a.kind = r.kind /\ a.call = r.call
        /\ a.ds = r.ds /\ a.cur = r.cur /\ a.tidy = r.tidy /\ a.count = r.count
        /\ a.phase = r.phase /\ a.todo = r.todo /\ a.ok = r.ok
    BY Zenon, <2>1 DEF Callers
  <2> QED
    BY Zenon, <1>4, <2>2
<1>6. StoreTypes'
  <2>1. \A q \in StoreProcs : caller'[q] \in Callers
    BY <1>3, <1>4, <1>5
  <2>2. caller' \in [StoreProcs -> Callers]
    BY <1>1, <2>1
  <2>3. outcome' \in [Calls -> {"new", "open", "done", "refused", "crashed"}]
    BY <1>1 DEF StoreInv, StoreTypes
  <2> QED
    BY Zenon, <1>1, <2>2, <2>3 DEF StoreInv, StoreTypes
<1>7. CallersOK'
  <2>1. CallerOK(new)
    BY <1>1, <1>2, <1>3, OrderFacts DEF CallerOK, CallKind
  <2>2. \A q \in StoreProcs \ {p} : CallerOK(caller'[q])
    <3> TAKE q \in StoreProcs \ {p}
    <3>1. CallerOK(caller[q])
      BY HereFacts
    <3> QED
      BY <1>5, <3>1 DEF CallerOK
  <2> QED
    BY <1>4, <2>1, <2>2 DEF CallersOK
<1>8. outcome'[c] = "open" /\ \A x \in Calls : x # c => outcome'[x] = outcome[x]
  BY <1>1 DEF StoreInv, StoreTypes
<1>9. CallsOK'
  <2>1. \A q \in StoreProcs : caller[q].pc # "rest" =>
           caller[q].call \in Calls /\ outcome[caller[q].call] = "open" /\ caller[q].call # c
    BY <1>1, HereFacts DEF StoreInv, CallsOK
  <2> QED
    BY <1>3, <1>4, <1>5, <1>8, <2>1 DEF StoreInv, CallsOK
<1>10. Failed' = Failed
  BY <1>1, <1>8 DEF Failed
<1>11. \A q \in StoreProcs, x \in DataSets :
          Inside(q, x)' <=> q # p /\ Inside(q, x)
  BY <1>3, <1>4, <1>5 DEF Inside, LockedSteps
<1>12. ASSUME ~crowded  PROVE LocksOK' /\ ReadsOK' /\ OpenOK'
  <2>1. LocksOK /\ ReadsOK /\ OpenOK
    BY <1>12 DEF StoreInv
  <2>2. LocksOK'
    BY <1>1, <1>11, <2>1 DEF LocksOK
  <2>3. ReadsOK'
    <3>1. new.pc \notin {"loadMeta", "checkMeta", "data"}
      BY <1>3
    <3> QED
      BY <1>1, <1>4, <1>5, <2>1, <3>1 DEF ReadsOK
  <2>4. OpenOK'
    <3> SUFFICES ASSUME NEW x \in DataSets, file[x].tail = "open"
                 PROVE  /\ Len(file[x].recs) > 0
                        /\ \/ file[x].recs[Len(file[x].recs)] \in Failed'
                           \/ \E q \in StoreProcs :
                                 /\ Inside(q, x)' /\ caller'[q].pc = "unlock"
                                 /\ ~caller'[q].ok /\ caller'[q].phase # "apply"
                                 /\ caller'[q].call = file[x].recs[Len(file[x].recs)]
      BY <1>1 DEF OpenOK
    <3>1. Len(file[x].recs) > 0
      BY <2>1 DEF OpenOK
    <3>2. CASE file[x].recs[Len(file[x].recs)] \in Failed
      BY <1>10, <3>1, <3>2
    <3>3. CASE \E q \in StoreProcs :
                  /\ Inside(q, x) /\ caller[q].pc = "unlock"
                  /\ ~caller[q].ok /\ caller[q].phase # "apply"
                  /\ caller[q].call = file[x].recs[Len(file[x].recs)]
      <4>1. PICK q \in StoreProcs :
                  /\ Inside(q, x) /\ caller[q].pc = "unlock"
                  /\ ~caller[q].ok /\ caller[q].phase # "apply"
                  /\ caller[q].call = file[x].recs[Len(file[x].recs)]
        BY <3>3
      <4>2. q # p
        BY <1>1, <4>1
      <4>3. Inside(q, x)'
        BY <1>11, <4>1, <4>2
      <4> QED
        BY <1>5, <3>1, <4>1, <4>2, <4>3
    <3> QED
      BY <2>1, <3>2, <3>3 DEF OpenOK
  <2> QED
    BY <2>2, <2>3, <2>4
<1>13. AloneOK'
  <2>1. alone => \A q \in StoreProcs : caller[q].pc = "rest"
    BY DEF At
  <2> HIDE DEF alone
  <2>2. ASSUME new.alone  PROVE alone
    BY <1>3, <2>2, Zenon
  <2> SUFFICES ASSUME NEW q \in StoreProcs, caller'[q].alone, NEW r \in StoreProcs \ {q}
               PROVE  caller'[r].pc = "rest"
    BY DEF AloneOK
  <2>3. q = p
    BY <1>5
  <2>4. alone
    BY <1>4, <2>2, <2>3
  <2> QED
    BY <1>5, <2>1, <2>3, <2>4
<1>14. UndoOK'
  BY <1>3, <1>4, <1>5 DEF UndoOK
<1> QED
  BY <1>1, <1>6, <1>7, <1>9, <1>12, <1>13, <1>14 DEF StoreInv

\* Nothing of the store changes but the clock.
LEMMA StillKeeps ==
  ASSUME StoreInv, storeTime' \in 0 .. MaxStoreTime,
         UNCHANGED <<file, meta, lockFile, caller, outcome, rollback, storeFaults, crowded>>
  PROVE  StoreInv'
<1>1. StoreTypes'
  BY DEF StoreInv, StoreTypes
<1>2. CallersOK' /\ CallsOK' /\ AloneOK' /\ UndoOK'
  BY DEF StoreInv, CallersOK, CallsOK, AloneOK, UndoOK
<1>3. ~crowded => LocksOK' /\ ReadsOK' /\ OpenOK'
  BY DEF StoreInv, LocksOK, ReadsOK, OpenOK, Inside, Failed
<1> QED
  BY <1>1, <1>2, <1>3 DEF StoreInv

-----------------------------------------------------------------------------
(* The theorems                                                               *)

\* The invariant holds in the initial state.
LEMMA StoreStarts == StoreInit => StoreInv
<1> SUFFICES ASSUME StoreInit PROVE StoreInv
  OBVIOUS
<1>1. \A p \in StoreProcs : caller[p] = Resting
  BY DEF StoreInit
<1>2. StoreTypes
  <2>1. NoLockFile \in [owner : StoreProcs \cup {NoProc}, at : Nat]
    BY DEF NoLockFile
  <2>2. <<>> \in Seq(Calls) /\ 0 \in 0 .. RecordLimit
    BY StoreLimits
  <2>3. \A d \in JsonSets : d \in DataSets
    BY DEF DataSets
  <2>4. file \in [DataSets -> [recs : Seq(Calls), tail : {"whole", "open", "half"}]]
    BY <2>2 DEF StoreInit
  <2>5. meta \in [DataSets -> [rev : Nat, recs : Seq(Calls), count : 0 .. RecordLimit]]
    BY <2>2 DEF StoreInit
  <2>6. /\ lockFile \in [DataSets -> [owner : StoreProcs \cup {NoProc}, at : Nat]]
        /\ caller \in [StoreProcs -> Callers]
        /\ outcome \in [Calls -> {"new", "open", "done", "refused", "crashed"}]
        /\ rollback \in [DataSets -> Seq(Calls)]
    BY <2>1, <2>2, RestingFacts DEF StoreInit
  <2>7. storeTime \in 0 .. MaxStoreTime /\ storeFaults \in 0 .. MaxStoreFaults
    BY StoreLimits DEF StoreInit
  <2>8. \A d \in JsonSets : file[d].tail = "whole"
    BY <2>3 DEF StoreInit
  <2>9. crowded \in BOOLEAN
    BY Zenon DEF StoreInit
  <2> QED
    BY <2>4, <2>5, <2>6, <2>7, <2>8, <2>9 DEF StoreTypes
<1>3. CallersOK /\ CallsOK /\ AloneOK /\ UndoOK
  BY <1>1, RestingFacts DEF CallersOK, CallsOK, AloneOK, UndoOK
<1>4. LocksOK /\ ReadsOK
  BY <1>1, RestingFacts DEF LocksOK, ReadsOK, Inside, LockedSteps
<1>5. OpenOK
  BY DEF StoreInit, OpenOK
<1> QED
  BY <1>2, <1>3, <1>4, <1>5 DEF StoreInv

\* Every step keeps it.
LEMMA StoreSteps == ASSUME StoreInv, [StoreNext]_storeVars  PROVE StoreInv'
<1>1. CASE UNCHANGED storeVars
  <2>1. storeTime' \in 0 .. MaxStoreTime
    BY <1>1 DEF storeVars, StoreInv, StoreTypes
  <2> QED
    BY <1>1, <2>1, StillKeeps DEF storeVars
<1>2. CASE StoreTick
  <2>1. storeTime' \in 0 .. MaxStoreTime
    BY <1>2, StoreLimits DEF StoreTick, StoreInv, StoreTypes
  <2> QED
    BY <1>2, <2>1, StillKeeps DEF StoreTick
<1>3. ASSUME NEW p \in StoreProcs, CallStep(p)  PROVE StoreInv'
  BY <1>3, AcquireKeeps, JudgeStaleKeeps, RemoveStaleKeeps, TimeOutKeeps, UnlockKeeps,
     ReadRawKeeps, ReadMetaKeeps, RetainMetaKeeps, RetainLookKeeps, WriteDataKeeps,
     RetainMovedKeeps, WriteMetaKeeps, ReadBackKeeps, ExportSetKeeps, ImportThrowsKeeps
     DEF CallStep
<1>4. ASSUME NEW p \in StoreProcs, NEW c \in Calls, NEW d \in DataSets, NEW kind \in Kinds[c],
             BeginCall(p, c, kind, d)
      PROVE  StoreInv'
  BY <1>4, BeginCallKeeps
<1>5. ASSUME NEW p \in StoreProcs, AcquireFails(p) \/ WriteFails(p) \/ StoreCrash(p)  PROVE StoreInv'
  BY <1>5, AcquireFailsKeeps, WriteFailsKeeps, StoreCrashKeeps
<1> QED
  BY <1>1, <1>2, <1>3, <1>4, <1>5 DEF StoreNext

\* The inductive invariant of file-store.mjs: the types, the lock as long as no
\* lock in use was removed, and the rollback of an import that is alone.
THEOREM StoreInvariant == StoreSpec => []StoreInv
<1>1. StoreInit => StoreInv
  BY StoreStarts
<1>2. StoreInv /\ [StoreNext]_storeVars => StoreInv'
  BY StoreSteps
<1> QED
  BY <1>1, <1>2, PTL DEF StoreSpec

\* The retained count of the metadata stays within the limit of appendRetained and
\* the files keep their types.
THEOREM StoreTypeCorrect == StoreSpec => []StoreTypeOK
<1>1. StoreInv => StoreTypeOK
  BY DEF StoreInv, StoreTypes, StoreTypeOK
<1> QED
  BY <1>1, StoreInvariant, PTL

\* importSnapshot: when a rollback that was alone has ended, every dataset is what
\* it was when the import exported it.
THEOREM ImportRestoresHolds == StoreSpec => []ImportRestores
<1>1. StoreInv => ImportRestores
  <2> SUFFICES ASSUME StoreInv, NEW p \in StoreProcs, caller[p].pc = "undone", caller[p].alone,
                      NEW d \in DataSets
               PROVE  file[d].recs = rollback[d]
    BY DEF ImportRestores, At
  <2>1. caller[p].phase = "undo" /\ caller[p].todo = <<>>
    BY HereFacts DEF CallerOK
  <2>2. PutBack(caller[p])
    BY DEF PutBack
  <2> QED
    BY <2>1, <2>2 DEF StoreInv, UndoOK
<1> QED
  BY <1>1, StoreInvariant, PTL

\* Beside the files, the writes change neither the rollback snapshot nor the lock.
LEMMA FileMoves ==
  ASSUME NEW p \in StoreProcs, WriteData(p) \/ WriteFails(p) \/ StoreCrash(p)
  PROVE  /\ rollback' = rollback /\ crowded' = crowded
         /\ \/ file' = file
            \/ caller[p].pc = "data" /\ file' = [file EXCEPT ![caller[p].ds] = Written(caller[p])]
            \/ caller[p].pc = "data" /\ Appends(caller[p]) /\ Cut(caller[p])
<1>1. CASE WriteData(p)
  BY <1>1 DEF WriteData, At
<1>2. CASE WriteFails(p)
  BY <1>2 DEF WriteFails
<1>3. CASE StoreCrash(p)
  BY <1>3 DEF StoreCrash
<1> QED
  BY <1>1, <1>2, <1>3

\* The other steps leave the files alone, and all but the export the snapshot.
LEMMA StepMoves ==
  ASSUME [StoreNext]_storeVars
  PROVE  \/ \E p \in StoreProcs : WriteData(p) \/ WriteFails(p) \/ StoreCrash(p)
         \/ \E p \in StoreProcs : ExportSet(p)
         \/ /\ file' = file /\ rollback' = rollback
            /\ ~crowded' => ~crowded
<1>1. CASE UNCHANGED storeVars
  BY <1>1 DEF storeVars
<1>2. CASE StoreTick
  BY <1>2 DEF StoreTick
<1>3. ASSUME NEW p \in StoreProcs, NEW c, NEW d, NEW kind, BeginCall(p, c, kind, d)
      PROVE  file' = file /\ rollback' = rollback /\ crowded' = crowded
  BY Zenon, <1>3 DEF BeginCall
<1>4. ASSUME NEW p \in StoreProcs, CallStep(p) \/ AcquireFails(p)
      PROVE  \/ WriteData(p) \/ ExportSet(p)
             \/ /\ file' = file /\ rollback' = rollback
                /\ ~crowded' => ~crowded
  <2>1. CASE Acquire(p)
    BY <2>1 DEF Acquire
  <2>2. CASE JudgeStale(p)
    BY <2>2 DEF JudgeStale
  <2>3. CASE RemoveStale(p)
    BY Zenon, <2>3 DEF RemoveStale, RemoveLock
  <2>4. CASE TimeOut(p)
    BY <2>4 DEF TimeOut
  <2>5. CASE Unlock(p)
    BY Zenon, <2>5 DEF Unlock, RemoveLock
  <2>6. CASE ReadRaw(p)
    BY <2>6 DEF ReadRaw
  <2>7. CASE ReadMeta(p)
    BY <2>7 DEF ReadMeta
  <2>8. CASE RetainMeta(p)
    BY <2>8 DEF RetainMeta
  <2>9. CASE RetainLook(p)
    BY <2>9 DEF RetainLook
  <2>10. CASE RetainMoved(p)
    BY <2>10 DEF RetainMoved
  <2>11. CASE WriteMeta(p)
    BY <2>11 DEF WriteMeta
  <2>12. CASE ReadBack(p)
    BY <2>12 DEF ReadBack
  <2>13. CASE ImportThrows(p)
    BY <2>13 DEF ImportThrows
  <2>14. CASE AcquireFails(p)
    BY <2>14 DEF AcquireFails
  <2> QED
    BY <1>4, <2>1, <2>2, <2>3, <2>4, <2>5, <2>6, <2>7, <2>8, <2>9, <2>10, <2>11, <2>12, <2>13,
       <2>14 DEF CallStep
<1> QED
  BY <1>1, <1>2, <1>3, <1>4 DEF StoreNext

\* A log that ends in half a line is not touched again while the lock holds.
THEOREM TornFailsClosedHolds == StoreSpec => TornFailsClosed
<1>1. StoreInv /\ [StoreNext]_storeVars =>
         [\A d \in DataSets : file[d].tail = "half" /\ ~crowded' => file'[d] = file[d]]_storeVars
  <2> SUFFICES ASSUME StoreInv, [StoreNext]_storeVars, NEW d \in DataSets,
                      file[d].tail = "half", ~crowded', file' # file
               PROVE  file'[d] = file[d]
    OBVIOUS
  <2>1. PICK p \in StoreProcs : WriteData(p) \/ WriteFails(p) \/ StoreCrash(p)
    BY Zenon, StepMoves DEF ExportSet
  <2>2. /\ caller[p].pc = "data" /\ crowded' = crowded
        /\ \/ file' = [file EXCEPT ![caller[p].ds] = Written(caller[p])]
           \/ Appends(caller[p]) /\ Cut(caller[p])
    BY <2>1, FileMoves
  <2>3. d # caller[p].ds
    BY <2>2 DEF StoreInv, ReadsOK
  <2>4. CASE file' = [file EXCEPT ![caller[p].ds] = Written(caller[p])]
    BY <2>3, <2>4 DEF StoreInv, StoreTypes
  <2>5. CASE Appends(caller[p]) /\ Cut(caller[p])
    BY <2>2, <2>3, <2>5, CutFacts
  <2> QED
    BY <2>2, <2>4, <2>5
<1> QED
  BY <1>1, StoreInvariant, PTL DEF StoreSpec, TornFailsClosed

\* Writing one dataset, seen from AtomicStore.
LEMMA ValueMoves ==
  ASSUME NEW d \in DataSets, NEW v, file'[d].recs = v,
         \A x \in DataSets : x # d => file'[x] = file[x]
  PROVE  [x \in DataSets |-> file[x].recs]' = [[x \in DataSets |-> file[x].recs] EXCEPT ![d] = v]
<1> DEFINE old == [x \in DataSets |-> file[x].recs]
           new == [x \in DataSets |-> file'[x].recs]
<1>1. \A x \in DataSets : new[x] = [old EXCEPT ![d] = v][x]
  OBVIOUS
<1>2. new = [old EXCEPT ![d] = v]
  BY Zenon, <1>1
<1> QED
  BY <1>2

\* While the promise holds, a change of one dataset is a step of AtomicStore.
LEMMA AtomicChange ==
  ASSUME ~crowded, ~crowded', NEW d \in DataSets, NEW r \in Calls,
         \/ Atomic!Add(d, r) \/ Atomic!AddRetained(d, r) \/ Atomic!Import(d, r)
         \/ Atomic!Restore(d) \/ Atomic!Drop(d)
  PROVE  Atomic!AtomicNext
BY DEF Atomic!AtomicNext

\* A finished write is one atomic change of its dataset.
LEMMA WriteIsAtomic ==
  ASSUME StoreInv, NEW p \in StoreProcs, caller[p].pc = "data",
         ~crowded, ~crowded', rollback' = rollback,
         file' = [file EXCEPT ![caller[p].ds] = Written(caller[p])]
  PROVE  Atomic!AtomicNext
<1> DEFINE r == caller[p]
           w == Written(r)
           value == [x \in DataSets |-> file[x].recs]
<1>1. /\ r.ds \in DataSets /\ r.call \in Calls /\ file[r.ds].recs = r.cur.recs
      /\ file[r.ds].recs \in Seq(Calls)
  BY HereFacts, FileFacts DEF StoreInv, ReadsOK
<1>2. file'[r.ds] = w /\ \A x \in DataSets : x # r.ds => file'[x] = file[x]
  BY <1>1 DEF StoreInv, StoreTypes
<1> HIDE DEF w
<1>3. /\ [x \in DataSets |-> file[x].recs]' = [value EXCEPT ![r.ds] = w.recs]
      /\ value[r.ds] = file[r.ds].recs
  <2>1. file'[r.ds].recs = w.recs
    BY <1>2
  <2> QED
    BY <1>1, <1>2, <2>1, ValueMoves
<1>4. PICK d \in DataSets, c \in Calls : d = r.ds /\ c = r.call
  BY <1>1
<1>5. CASE Appends(r) /\ file[r.ds].tail = "open"
  <2>1. w.recs = SubSeq(file[r.ds].recs, 1, Len(file[r.ds].recs) - 1)
    BY <1>5, WrittenFacts DEF w, Front
  <2>2. Len(file[r.ds].recs) > 0 /\ file[r.ds].recs[Len(file[r.ds].recs)] \in Failed
    <3>1. LocksOK /\ OpenOK
      BY DEF StoreInv
    <3>2. Inside(p, r.ds)
      BY DEF Inside, LockedSteps
    <3>3. \A q \in StoreProcs : Inside(q, r.ds) => caller[q].pc # "unlock"
      BY <1>1, <3>1, <3>2, Sole
    <3> QED
      BY <1>1, <1>5, <3>1, <3>3 DEF OpenOK
  <2>3. value[r.ds] # <<>>
    BY <1>1, <1>3, <2>2
  <2>4. Atomic!Drop(d)
    BY Zenon, <1>4, <1>3, <2>1, <2>2, <2>3 DEF Atomic!Drop, Atomic!Write, Failed
  <2> QED
    BY <2>4, AtomicChange
<1>6. CASE ~(Appends(r) /\ file[r.ds].tail = "open")
  <2>1. w.recs = NewRecords(r) /\ r.kind \in CallKind
    BY <1>6, WrittenFacts, NewRecordsFacts DEF w
  <2>2. CASE Appends(r) \/ r.kind \in {"update", "put"}
    <3>1. w.recs = Append(value[r.ds], r.call)
      BY <1>1, <1>3, <2>1, <2>2, NewRecordsFacts
    <3>2. Atomic!Add(d, c)
      BY <1>4, <1>3, <3>1 DEF Atomic!Add, Atomic!Write
    <3> QED
      BY <3>2, AtomicChange
  <2>3. CASE r.kind = "retain" /\ ~r.tidy
    <3>1. w.recs = Append(LastRecords(value[r.ds], RecordLimit - 1), r.call)
      BY <1>1, <1>3, <2>1, <2>3, NewRecordsFacts
    <3>2. Atomic!AddRetained(d, c)
      BY Zenon, <1>4, <1>3, <3>1 DEF Atomic!AddRetained, Atomic!Write, Atomic!Latest, LastRecords
    <3> QED
      BY <3>2, AtomicChange
  <2>4. CASE r.kind = "import" /\ r.phase = "apply"
    <3>1. w.recs = <<r.call>>
      BY <2>1, <2>4, NewRecordsFacts
    <3>2. Atomic!Import(d, c)
      BY <1>4, <1>3, <3>1 DEF Atomic!Import, Atomic!Write
    <3> QED
      BY <3>2, AtomicChange
  <2>5. CASE r.phase = "undo"
    <3>1. w.recs = rollback[r.ds]
      BY <2>1, <2>5, NewRecordsFacts
    <3>2. Atomic!Restore(d)
      BY <1>4, <1>3, <3>1 DEF Atomic!Restore, Atomic!Write
    <3> QED
      BY <3>2, AtomicChange
  <2>6. r.kind = "import" => r.phase \in {"apply", "undo"}
    BY NewRecordsFacts
  <2> QED
    BY <2>1, <2>2, <2>3, <2>4, <2>5, <2>6 DEF CallKind, Appends
<1> QED
  BY <1>5, <1>6

\* A write that is cut adds its record, or none.
LEMMA CutIsAtomic ==
  ASSUME StoreInv, NEW p \in StoreProcs, caller[p].pc = "data", Appends(caller[p]), Cut(caller[p]),
         ~crowded, ~crowded', rollback' = rollback
  PROVE  \/ Atomic!AtomicNext
         \/ [x \in DataSets |-> file[x].recs]' = [x \in DataSets |-> file[x].recs]
<1> DEFINE r == caller[p]
           value == [x \in DataSets |-> file[x].recs]
<1>1. /\ r.ds \in DataSets /\ r.call \in Calls
      /\ \A d \in DataSets : d # r.ds => file'[d] = file[d]
      /\ \/ file'[r.ds].recs = file[r.ds].recs
         \/ file'[r.ds].recs = Append(file[r.ds].recs, r.call)
  BY HereFacts, CutFacts
<1>2. PICK d \in DataSets, c \in Calls : d = r.ds /\ c = r.call
  BY <1>1
<1>3. CASE file'[r.ds].recs = file[r.ds].recs
  <2>1. \A x \in DataSets : file'[x].recs = file[x].recs
    BY <1>1, <1>3
  <2> QED
    BY <2>1
<1>4. CASE file'[r.ds].recs = Append(file[r.ds].recs, r.call)
  <2>1. /\ [x \in DataSets |-> file[x].recs]' =
              [value EXCEPT ![r.ds] = Append(file[r.ds].recs, r.call)]
        /\ value[r.ds] = file[r.ds].recs
    BY Zenon, <1>1, <1>4, ValueMoves
  <2>2. Atomic!Add(d, c)
    BY Zenon, <1>2, <2>1 DEF Atomic!Add, Atomic!Write
  <2> QED
    BY <2>2, AtomicChange
<1> QED
  BY <1>1, <1>3, <1>4

\* file-store.mjs implements AtomicStore: until a lock in use is taken for a stale
\* one, every call is one atomic change of its dataset.
THEOREM StoreImplementsAtomic == StoreSpec => StoreIsAtomic
<1> DEFINE value == [d \in DataSets |-> file[d].recs]
<1>1. StoreInit => Atomic!AtomicInit
  BY DEF StoreInit, Atomic!AtomicInit
<1>2. StoreInv /\ [StoreNext]_storeVars =>
         [Atomic!AtomicNext]_<<value, rollback, ~crowded>>
  <2> SUFFICES ASSUME StoreInv, [StoreNext]_storeVars
               PROVE  Atomic!AtomicNext \/ UNCHANGED <<value, rollback, ~crowded>>
    OBVIOUS
  <2>1. CASE crowded'
    BY <2>1 DEF Atomic!AtomicNext
  <2>2. ASSUME ~crowded', NEW p \in StoreProcs, WriteData(p) \/ WriteFails(p) \/ StoreCrash(p)
        PROVE  Atomic!AtomicNext \/ UNCHANGED <<value, rollback, ~crowded>>
    <3>1. /\ rollback' = rollback /\ crowded' = crowded
          /\ \/ file' = file
             \/ caller[p].pc = "data" /\ file' = [file EXCEPT ![caller[p].ds] = Written(caller[p])]
             \/ caller[p].pc = "data" /\ Appends(caller[p]) /\ Cut(caller[p])
      BY <2>2, FileMoves
    <3>2. ~crowded
      BY <2>2, <3>1
    <3>3. CASE file' = file
      BY <3>1, <3>3
    <3>4. CASE caller[p].pc = "data" /\ file' = [file EXCEPT ![caller[p].ds] = Written(caller[p])]
      BY Zenon, <2>2, <3>1, <3>2, <3>4, WriteIsAtomic
    <3>5. CASE caller[p].pc = "data" /\ Appends(caller[p]) /\ Cut(caller[p])
      BY <2>2, <3>1, <3>2, <3>5, CutIsAtomic
    <3> QED
      BY <3>1, <3>3, <3>4, <3>5
  <2>3. ASSUME ~crowded', NEW p \in StoreProcs, ExportSet(p)
        PROVE  Atomic!AtomicNext \/ UNCHANGED <<value, rollback, ~crowded>>
    <3>1. file' = file /\ crowded' = crowded
      BY <2>3 DEF ExportSet
    <3>2. ~crowded
      BY <2>3, <3>1
    <3>3. caller[p].ds \in DataSets /\ value[caller[p].ds] = file[caller[p].ds].recs
      BY HereFacts
    <3>4. CASE rollback' = [rollback EXCEPT ![caller[p].ds] = file[caller[p].ds].recs]
      <4>1. Atomic!Export(caller[p].ds)
        BY Zenon, <3>1, <3>3, <3>4 DEF Atomic!Export
      <4> QED
        BY <2>3, <3>2, <3>3, <4>1 DEF Atomic!AtomicNext
    <3>5. CASE rollback' = rollback
      BY <3>1, <3>5
    <3> QED
      BY <2>3, <3>4, <3>5 DEF ExportSet
  <2>4. CASE ~crowded' /\ ~crowded /\ file' = file /\ rollback' = rollback
    BY <2>4
  <2> QED
    BY <2>1, <2>2, <2>3, <2>4, StepMoves
<1> QED
  BY <1>1, <1>2, StoreInvariant, PTL DEF StoreSpec, StoreIsAtomic, Atomic!AtomicSpec

===============================================================================
