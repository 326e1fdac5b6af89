------------------------ MODULE RuntimeUpdatesProofs ------------------------
(* Theorems about RuntimeUpdates: type correctness and NeverOverNewData, from *)
(* one inductive invariant, then SettledIsWhole from a second one.            *)
EXTENDS RuntimeUpdates, TLAPS

Waits == {"lock", "bind", "images", "rebind"}       \* nothing changed yet
Rests == Waits \cup {"family", "record", "finish"}  \* between two families
Moves == {"prepared", "policy", "stop", "copy", "rename", "renamed", "disconnect", "create",
          "created", "started", "start", "verify"}  \* a service is replaced
Admits == {"admit", "sign", "profile", "unprofile", "unsign"}
Undoes == {"delete", "back", "reconnect", "repolicy", "revive"}
Fails == {"except", "undo", "report"} \cup Undoes

Boxes == [name : {"own", "aside"}, up : BOOLEAN, policy : BOOLEAN, net : BOOLEAN,
          new : {"none", "created", "up"}]
Entries == [svc : Services, phase : {"prepared", "renamed"}, newId : BOOLEAN, newStarted : BOOLEAN]
Profiles == [gen : Nat, pins : [Admitted -> Nat]]
Records == [status : {"none", "queued", "running", "succeeded", "failed", "rolled-back",
                      "interrupted"},
            recovery : BOOLEAN, journal : BOOLEAN]
Locals == [at : {"idle", "down"} \cup Rests \cup Moves \cup Admits \cup Fails, fam : Nat, svc : Nat,
           backups : Seq(Entries), committed : BOOLEAN, done : Nat, kept : Profiles, undo : Nat,
           stuck : BOOLEAN]

UpdatesTyped ==
    /\ box \in [Services -> Boxes] /\ ident \in [Services -> Nat]
    /\ written \subseteq Services /\ copied \subseteq Services /\ desired \subseteq Families
    /\ profile \in Profiles /\ signature \in Nat
    /\ job \in Records /\ thread \in Locals /\ unseen \subseteq Services
    /\ stored # NoPlan => stored.families \in Seq(Families) /\ stored.families # <<>>

Idles == thread.at \in {"idle", "down"}
Busy == job.status \in {"queued", "running"}
Steps == ServicesOf[Fam]
Backups == DOMAIN thread.backups

\* A thread works on the stored plan; outside the undo nothing is to undo, and
\* what is to undo is a backup.
ThreadOK ==
    /\ ~Idles => Busy /\ stored # NoPlan /\ thread.fam \in 1 .. Len(stored.families)
    /\ thread.undo \in 0 .. Len(thread.backups)
    /\ thread.at \notin Undoes \cup {"undo", "report"} => thread.undo = 0
    /\ thread.at \in Undoes => thread.undo # 0 /\ ~(Fam \in Sensitive /\ Undone.newStarted)
    /\ thread.at \in Undoes \cup {"undo"} => ~thread.committed
    /\ thread.at \in Waits \cup Moves \cup Admits => ~thread.committed
    /\ thread.at \in Waits => thread.backups = <<>>
    /\ thread.at \in {"record", "finish"} => thread.committed

\* The backups are those of the services of the family up to the one at work.
BackupsOK ==
    /\ thread.at \in Moves \cup Admits \cup Fails \cup {"record", "finish"} =>
          /\ Len(thread.backups) =< Len(Steps)
          /\ \A i \in Backups : thread.backups[i].svc = Steps[i]
    /\ thread.at \in Moves =>
          /\ thread.svc \in 1 .. Len(Steps)
          /\ Len(thread.backups) = IF thread.at = "prepared" THEN thread.svc - 1 ELSE thread.svc
    /\ thread.at \in Admits => Len(thread.backups) = Len(Steps)
    /\ thread.at \in Admits \ {"admit"} => Enrolled # {}
    /\ \A i \in Backups : thread.backups[i].newId => thread.backups[i].phase = "renamed"

Opening == {"policy", "stop", "copy", "rename", "renamed"}

\* How far the replacement of the service at work is.
EntryOK ==
    thread.at \in Moves \cup Admits =>
        \A i \in Backups :
            IF i = thread.svc /\ thread.at \in Opening
            THEN thread.backups[i].phase = "prepared" /\ ~thread.backups[i].newStarted
            ELSE /\ thread.backups[i].phase = "renamed"
                 /\ i = thread.svc /\ thread.at \in {"disconnect", "create", "created"}
                    => ~thread.backups[i].newStarted /\ ~thread.backups[i].newId
                 /\ i = thread.svc /\ thread.at = "started" => ~thread.backups[i].newStarted
                 /\ i = thread.svc /\ thread.at = "start" => thread.backups[i].newStarted

\* The original container at work.
OldOK ==
    /\ \A s \in Services : box[s].up => s \in WasUp
    /\ thread.at \in {"stop", "started", "start"} => Svc \in WasUp
    /\ thread.at \in Moves \ {"prepared", "policy", "stop", "verify"} => ~box[Svc].up
    /\ thread.at \in Moves \ {"prepared", "policy", "stop", "copy"} /\ Fam \in Sensitive => Svc \in copied

\* What may have new data is up in its new version, and its backup says so.
WrittenOK ==
    /\ \A s \in written : box[s].new = "up" /\ ~box[s].up /\ s \in copied
    /\ \/ thread.at \in Moves \cup Admits
       \/ thread.at \in Fails /\ ~thread.committed /\ thread.backups # <<>>
       => \A i \in DOMAIN Steps :
              Steps[i] \in written =>
                  i \in Backups /\ Fam \in Sensitive /\ thread.backups[i].newStarted

\* The plan was made for families that had not been updated.
SeenOK ==
    stored # NoPlan =>
        \A f \in Range(stored.families) : \A s \in Range(ServicesOf[f]) : stored.seen[s][2].new = "none"

\* An operation asks for recovery when it has ended.
BusyOK == Busy => ~job.recovery

UpdatesSafe ==
    /\ UpdatesTyped /\ ThreadOK /\ BackupsOK /\ EntryOK /\ OldOK /\ WrittenOK /\ SeenOK /\ BusyOK

----------------------------------------------------------------------------
(* Typing                                                                     *)

\* The assignments of the steps keep the local variables in their sets.
LEMMA LocalsEdit ==
    ASSUME NEW t \in Locals, NEW a \in {"idle", "down"} \cup Rests \cup Moves \cup Admits \cup Fails
    PROVE  /\ [t EXCEPT !.at = a] \in Locals
           /\ \A e \in Seq(Entries) : [t EXCEPT !.backups = e, !.at = a] \in Locals
           /\ [t EXCEPT !.backups = <<>>, !.committed = FALSE, !.svc = 1, !.at = a] \in Locals
           /\ [t EXCEPT !.svc = @ + 1, !.at = a] \in Locals
           /\ [t EXCEPT !.fam = @ + 1, !.at = a] \in Locals
           /\ [t EXCEPT !.committed = TRUE, !.done = @ + 1, !.at = a] \in Locals
           /\ \A p \in Profiles : [t EXCEPT !.at = a, !.kept = p] \in Locals
           /\ \A n \in Nat : [t EXCEPT !.undo = n, !.at = a] \in Locals
           /\ \A k \in BOOLEAN : t.undo # 0 => [t EXCEPT !.undo = @ - 1, !.at = a, !.stuck = @ \/ k] \in Locals
<1>1. <<>> \in Seq(Entries)
  OBVIOUS
<1> DEFINE Ats == {"idle", "down"} \cup Rests \cup Moves \cup Admits \cup Fails
<1>2. /\ a \in Ats /\ t.fam \in Nat /\ t.svc \in Nat /\ t.backups \in Seq(Entries)
      /\ t.committed \in BOOLEAN /\ t.done \in Nat /\ t.kept \in Profiles /\ t.undo \in Nat
      /\ t.stuck \in BOOLEAN
      /\ \A k \in BOOLEAN : (t.stuck \/ k) \in BOOLEAN
      /\ t.svc + 1 \in Nat /\ t.fam + 1 \in Nat /\ t.done + 1 \in Nat
  BY DEF Locals
<1>3. t.undo # 0 => t.undo - 1 \in Nat
  BY <1>2
<1>4. t \in [at : Ats, fam : Nat, svc : Nat, backups : Seq(Entries), committed : BOOLEAN, done : Nat,
             kept : Profiles, undo : Nat, stuck : BOOLEAN]
  BY DEF Locals
<1>5. Locals = [at : Ats, fam : Nat, svc : Nat, backups : Seq(Entries), committed : BOOLEAN, done : Nat,
                kept : Profiles, undo : Nat, stuck : BOOLEAN]
  BY DEF Locals
<1> HIDE DEF Ats
<1>a. [t EXCEPT !.at = a] \in Locals
  BY Zenon, <1>2, <1>4, <1>5
<1>b. \A e \in Seq(Entries) : [t EXCEPT !.backups = e, !.at = a] \in Locals
  BY Zenon, <1>2, <1>4, <1>5
<1>c. [t EXCEPT !.backups = <<>>, !.committed = FALSE, !.svc = 1, !.at = a] \in Locals
  BY Zenon, <1>1, <1>2, <1>4, <1>5
<1>d. [t EXCEPT !.svc = @ + 1, !.at = a] \in Locals
  BY Zenon, <1>2, <1>4, <1>5
<1>e. [t EXCEPT !.fam = @ + 1, !.at = a] \in Locals
  BY Zenon, <1>2, <1>4, <1>5
<1>f. [t EXCEPT !.committed = TRUE, !.done = @ + 1, !.at = a] \in Locals
  BY Zenon, <1>2, <1>4, <1>5
<1>g. \A p \in Profiles : [t EXCEPT !.at = a, !.kept = p] \in Locals
  BY Zenon, <1>2, <1>4, <1>5
<1>h. \A n \in Nat : [t EXCEPT !.undo = n, !.at = a] \in Locals
  BY Zenon, <1>2, <1>4, <1>5
<1>i. \A k \in BOOLEAN : t.undo # 0 => [t EXCEPT !.undo = @ - 1, !.at = a, !.stuck = @ \/ k] \in Locals
  BY Zenon, <1>2, <1>3, <1>4, <1>5
<1> QED BY Zenon, <1>a, <1>b, <1>c, <1>d, <1>e, <1>f, <1>g, <1>h, <1>i

\* The local variables of no thread, and the first profile, are in their sets.
LEMMA NoThreadTyped == NoThread \in Locals /\ FirstProfile \in Profiles
<1>1. FirstProfile \in Profiles
  BY DEF FirstProfile, Profiles
<1>2. <<>> \in Seq(Entries)
  OBVIOUS
<1> QED BY <1>1, <1>2 DEF NoThread, Locals

----------------------------------------------------------------------------
(* The family at work                                                         *)

\* A running thread works on a family of the plan, which has services.
LEMMA Working ==
    ASSUME UpdatesTyped, ThreadOK, ~Idles
    PROVE  /\ stored.families \in Seq(Families) /\ thread.fam \in DOMAIN stored.families
           /\ Fam \in Families /\ Fam \in Range(stored.families)
           /\ Steps \in Seq(Services) /\ Steps # <<>>
           /\ Steps = ServicesOf[Fam]
           /\ \A i, k \in DOMAIN Steps : Steps[i] = Steps[k] => i = k
<1>1. stored.families \in Seq(Families) /\ thread.fam \in DOMAIN stored.families
  BY DEF UpdatesTyped, ThreadOK
<1>2. Fam \in Families
  BY <1>1 DEF Fam
<1>3. Fam \in Range(stored.families)
  BY <1>1 DEF Fam, Range
<1>4. Steps \in Seq(Services) \ {<<>>} /\ IsInjective(Steps)
  BY <1>2, UpdatesAssumption DEF Steps
<1> QED BY <1>1, <1>2, <1>3, <1>4 DEF IsInjective, Steps

\* The service at work in recreate, and the one at work in the undo.
LEMMA AtWork ==
    ASSUME UpdatesTyped, ThreadOK, BackupsOK
    PROVE  /\ thread.at \in Moves => /\ thread.svc \in DOMAIN Steps
                                     /\ Svc = Steps[thread.svc] /\ Svc \in Services
           /\ thread.at \in Moves \ {"prepared"} =>
                 /\ thread.svc \in Backups /\ Entry = thread.backups[thread.svc]
                 /\ Len(thread.backups) = thread.svc /\ Entry \in Entries /\ Entry.svc = Svc
           /\ thread.at \in Undoes =>
                 /\ thread.undo \in Backups /\ thread.undo \in DOMAIN Steps /\ Undone \in Entries
                 /\ Undone = thread.backups[thread.undo]
                 /\ Undone.svc = Steps[thread.undo] /\ Undone.svc \in Services
           /\ thread.at \in Moves \cup Admits \cup Fails => Backups \subseteq DOMAIN Steps
           /\ thread.backups \in Seq(Entries) /\ Backups = 1 .. Len(thread.backups)
           /\ \A i \in Backups : thread.backups[i] \in Entries
<1>1. thread.backups \in Seq(Entries) /\ Backups = 1 .. Len(thread.backups)
      /\ Len(thread.backups) \in Nat /\ \A i \in Backups : thread.backups[i] \in Entries
  BY DEF UpdatesTyped, Locals, Backups
<1>2. thread.at \in Moves \cup Admits \cup Fails =>
        /\ Steps \in Seq(Services) /\ DOMAIN Steps = 1 .. Len(Steps) /\ Len(Steps) \in Nat
        /\ \A i \in DOMAIN Steps : Steps[i] \in Services
  BY Working DEF Idles, Moves, Admits, Fails, Undoes
<1>3. thread.at \in Moves => thread.svc \in DOMAIN Steps /\ Svc = Steps[thread.svc] /\ Svc \in Services
  BY <1>2 DEF BackupsOK, Steps, Svc
<1>4. thread.at \in Moves \cup Admits \cup Fails => Backups \subseteq DOMAIN Steps
  BY <1>1, <1>2 DEF BackupsOK
<1>5. thread.at \in Moves \ {"prepared"} =>
         /\ thread.svc \in Backups /\ Entry = thread.backups[thread.svc]
         /\ Len(thread.backups) = thread.svc /\ Entry \in Entries /\ Entry.svc = Svc
  BY <1>1, <1>2, <1>3 DEF BackupsOK, Entry
<1>6. thread.at \in Undoes => thread.undo \in Backups
  BY <1>1 DEF ThreadOK
<1>7. thread.at \in Undoes =>
         /\ thread.undo \in DOMAIN Steps /\ Undone \in Entries /\ Undone = thread.backups[thread.undo]
         /\ Undone.svc = Steps[thread.undo] /\ Undone.svc \in Services
  BY <1>1, <1>2, <1>4, <1>6 DEF BackupsOK, Undone, Fails
<1> QED BY <1>1, <1>3, <1>4, <1>5, <1>6, <1>7

----------------------------------------------------------------------------
(* What the steps do to the local variables and to the containers             *)

\* What a call changes of a container leaves a container.
LEMMA BoxEdit ==
    ASSUME NEW b \in Boxes
    PROVE  /\ [b EXCEPT !.policy = FALSE] \in Boxes /\ [b EXCEPT !.policy = TRUE] \in Boxes
           /\ [b EXCEPT !.up = FALSE] \in Boxes /\ [b EXCEPT !.up = TRUE] \in Boxes
           /\ [b EXCEPT !.name = "aside"] \in Boxes /\ [b EXCEPT !.name = "own"] \in Boxes
           /\ [b EXCEPT !.net = FALSE] \in Boxes /\ [b EXCEPT !.net = TRUE] \in Boxes
           /\ [b EXCEPT !.new = "none"] \in Boxes /\ [b EXCEPT !.new = "created"] \in Boxes
           /\ [b EXCEPT !.new = "up"] \in Boxes
BY Zenon DEF Boxes

\* What the journal changes of a backup leaves a backup.
LEMMA EntryEdit ==
    ASSUME NEW e \in Entries
    PROVE  /\ [e EXCEPT !.phase = "renamed"] \in Entries
           /\ [e EXCEPT !.newId = TRUE] \in Entries /\ [e EXCEPT !.newStarted = TRUE] \in Entries
BY Zenon DEF Entries

\* What a step changes of the operation record leaves a record.
LEMMA RecordEdit ==
    ASSUME NEW r \in Records
    PROVE  /\ \A x \in {"queued", "running", "succeeded", "failed", "rolled-back", "interrupted"} :
                 [r EXCEPT !.status = x] \in Records
           /\ [r EXCEPT !.journal = TRUE] \in Records
           /\ \A x \in {"failed", "succeeded", "rolled-back", "interrupted"}, k \in BOOLEAN :
                 [r EXCEPT !.status = x, !.recovery = k] \in Records
BY Zenon DEF Records

\* The local variables besides the step and the list of backups.
SameWork ==
    /\ thread' \in Locals
    /\ thread'.fam = thread.fam /\ thread'.svc = thread.svc /\ thread'.committed = thread.committed
    /\ thread'.kept = thread.kept /\ thread'.undo = thread.undo /\ thread'.stuck = thread.stuck

\* A step that only goes on changes no other local variable.
LEMMA GoesOn ==
    ASSUME UpdatesTyped, NEW a \in {"idle", "down"} \cup Rests \cup Moves \cup Admits \cup Fails,
           GoOn(a)
    PROVE  SameWork /\ thread'.at = a /\ thread'.backups = thread.backups
<1>1. thread \in Locals
  BY DEF UpdatesTyped
<1>2. [thread EXCEPT !.at = a] \in Locals
  BY Zenon, <1>1, LocalsEdit
<1> QED BY <1>1, <1>2 DEF GoOn, Locals, SameWork

\* A call of the Engine that goes on at step a, or fails.
Called(s, b, a) ==
    /\ SameWork /\ thread'.backups = thread.backups
    /\ box' \in [Services -> Boxes] /\ \A x \in Services \ {s} : box'[x] = box[x]
    /\ UNCHANGED <<ident, copied, profile, signature, desired, job, stored>>
    /\ unseen \subseteq unseen' /\ unseen' \subseteq Services
    /\ \/ thread'.at = a /\ box'[s] = b
       \/ /\ thread'.at = "except"
          /\ \/ box' = box
             \/ box'[s] = b /\ (b.name = box[s].name \/ s \in unseen')

\* A call of the Engine changes one container, and goes on or raises.
LEMMA CallFacts ==
    ASSUME UpdatesTyped, NEW s \in Services, NEW b \in Boxes, NEW a \in Moves, Call(s, b, Then(a))
    PROVE  Called(s, b, a)
<1>1. box \in [Services -> Boxes] /\ unseen \subseteq Services
  BY DEF UpdatesTyped
<1>2. CASE /\ Fault /\ Raise
           /\ box' \in {box, [box EXCEPT ![s] = b]}
           /\ unseen' = IF b.name # box[s].name /\ box' # box THEN unseen \cup {s} ELSE unseen
  <2>1. SameWork /\ thread'.at = "except" /\ thread'.backups = thread.backups
    BY <1>2, GoesOn DEF Raise, Fails
  <2> QED BY <1>1, <1>2, <2>1 DEF Call, Called, files, request
<1>3. CASE box' = [box EXCEPT ![s] = b] /\ thread' = Then(a) /\ UNCHANGED unseen
  <2>1. SameWork /\ thread'.at = a /\ thread'.backups = thread.backups
    BY <1>3, GoesOn DEF Then, GoOn
  <2> QED BY <1>1, <1>3, <2>1 DEF Call, Called, files, request
<1> QED BY <1>2, <1>3 DEF Call

\* A write of rollback.json that goes on at step a, or fails.
Journaled(e, a) ==
    /\ SameWork /\ thread'.backups = e
    /\ UNCHANGED <<box, ident, written, copied, profile, signature, desired, stored, unseen>>
    /\ job' \in Records /\ job'.status = job.status /\ job'.recovery = job.recovery
    /\ \/ thread'.at = a /\ job'.journal
       \/ thread'.at = "except" /\ job' = job

\* A write of the journal sets the backups, and goes on or raises.
LEMMA JournalFacts ==
    ASSUME UpdatesTyped, NEW e \in Seq(Entries), NEW a \in Moves, Journal(e, a)
    PROVE  Journaled(e, a)
<1>1. thread \in Locals /\ job \in Records
  BY DEF UpdatesTyped
<1>2. /\ [thread EXCEPT !.backups = e, !.at = a] \in Locals
      /\ [thread EXCEPT !.backups = e, !.at = "except"] \in Locals
  BY Zenon, <1>1, LocalsEdit DEF Fails
<1>3. thread' \in Locals /\ SameWork /\ thread'.backups = e
      /\ (thread'.at = a \/ thread'.at = "except")
  BY ZenonT(60), <1>1, <1>2 DEF Journal, Locals, SameWork
<1>4. UNCHANGED <<box, ident, written, copied, profile, signature, desired, stored, unseen>>
  BY DEF Journal, engine, files
<1>5. \/ thread'.at = a /\ job' = [job EXCEPT !.journal = TRUE]
      \/ thread'.at = "except" /\ job' = job
  BY Zenon, <1>1 DEF Journal, Locals
<1> QED BY Zenon, <1>1, <1>3, <1>4, <1>5 DEF Records, Journaled

\* The local variables besides the step and the undo.
SameUndo ==
    /\ thread' \in Locals /\ thread'.fam = thread.fam /\ thread'.svc = thread.svc
    /\ thread'.committed = thread.committed /\ thread'.kept = thread.kept
    /\ thread'.backups = thread.backups

UndoneTo(needed, b, a) ==
    /\ SameUndo
    /\ box' \in [Services -> Boxes] /\ \A x \in Services \ {Undone.svc} : box'[x] = box[x]
    /\ UNCHANGED <<ident, written, copied, profile, signature, desired, job, stored, unseen>>
    /\ \/ /\ box'[Undone.svc] = IF needed THEN b ELSE Old
          /\ thread'.at = a /\ thread'.stuck = thread.stuck
          /\ thread'.undo = IF a = "undo" THEN thread.undo - 1 ELSE thread.undo
       \/ /\ needed /\ (box' = box \/ box'[Undone.svc] = b)
          /\ thread'.at = "undo" /\ thread'.stuck /\ thread'.undo = thread.undo - 1

\* A call of the undo changes the container that is undone, and goes on or
\* ends the undo of this service.
LEMMA UndoFacts ==
    ASSUME UpdatesTyped, ThreadOK, BackupsOK, thread.at \in Undoes,
           NEW needed \in BOOLEAN, NEW b \in Boxes, NEW t, NEW a \in Undoes \cup {"undo"},
           IF a = "undo" THEN t = NextUndo(FALSE) ELSE t = Then(a),
           UndoIf(needed, b, t)
    PROVE  UndoneTo(needed, b, a)
<1>1. /\ box \in [Services -> Boxes] /\ thread \in Locals /\ Undone.svc \in Services
      /\ thread.undo \in Nat /\ thread.undo # 0 /\ thread.stuck \in BOOLEAN
  BY AtWork DEF UpdatesTyped, ThreadOK, Locals
<1>2. /\ \A p \in Undoes : Then(p) \in Locals
      /\ NextUndo(FALSE) \in Locals /\ NextUndo(TRUE) \in Locals
  BY Zenon, <1>1, LocalsEdit DEF Then, NextUndo, Fails
<1>3. thread' = t \/ thread' = NextUndo(TRUE)
  BY Zenon DEF UndoIf, UndoCall
<1>4. thread' \in Locals
  BY Zenon, <1>2, <1>3
<1>5. \A p \in Undoes : thread' = Then(p) =>
         /\ thread'.at = p /\ thread'.undo = thread.undo /\ thread'.stuck = thread.stuck
         /\ thread'.fam = thread.fam /\ thread'.svc = thread.svc
         /\ thread'.committed = thread.committed /\ thread'.kept = thread.kept
         /\ thread'.backups = thread.backups
  BY <1>1 DEF Then, Locals
<1>6. \A k \in BOOLEAN : thread' = NextUndo(k) =>
         /\ thread'.at = "undo" /\ thread'.undo = thread.undo - 1
         /\ thread'.stuck = (thread.stuck \/ k)
         /\ thread'.fam = thread.fam /\ thread'.svc = thread.svc
         /\ thread'.committed = thread.committed /\ thread'.kept = thread.kept
         /\ thread'.backups = thread.backups
  BY <1>1 DEF NextUndo, Locals
<1>7. UNCHANGED <<ident, written, copied, profile, signature, desired, job, stored, unseen>>
  BY Zenon DEF UndoIf, UndoCall, engine, files, request
<1>8. \/ thread' = t /\ box' = IF needed THEN [box EXCEPT ![Undone.svc] = b] ELSE box
      \/ thread' = NextUndo(TRUE) /\ needed /\ box' \in {box, [box EXCEPT ![Undone.svc] = b]}
  BY Zenon DEF UndoIf, UndoCall, engine
<1>9. /\ box' \in [Services -> Boxes] /\ \A x \in Services \ {Undone.svc} : box'[x] = box[x]
      /\ \/ thread' = t /\ box'[Undone.svc] = IF needed THEN b ELSE Old
         \/ /\ thread' = NextUndo(TRUE) /\ needed
            /\ box' = box \/ box'[Undone.svc] = b
  BY Zenon, <1>1, <1>8 DEF Old
<1>10. /\ thread'.fam = thread.fam /\ thread'.svc = thread.svc
       /\ thread'.committed = thread.committed /\ thread'.kept = thread.kept
       /\ thread'.backups = thread.backups
  BY Zenon, <1>3, <1>5, <1>6
<1>11. /\ thread' = t =>
             /\ thread'.at = a /\ thread'.stuck = thread.stuck
             /\ thread'.undo = IF a = "undo" THEN thread.undo - 1 ELSE thread.undo
       /\ thread' = NextUndo(TRUE) =>
             thread'.at = "undo" /\ thread'.stuck /\ thread'.undo = thread.undo - 1
  BY Zenon, <1>1, <1>5, <1>6
<1> QED BY Zenon, <1>4, <1>7, <1>9, <1>10, <1>11 DEF UndoneTo, SameUndo

\* Marking the last backup.
LEMMA Marked ==
    ASSUME UpdatesTyped, ThreadOK, BackupsOK, thread.at \in Moves \ {"prepared"}, NEW e \in Entries
    PROVE  /\ Mark(e) \in Seq(Entries) /\ Len(Mark(e)) = Len(thread.backups)
           /\ DOMAIN Mark(e) = Backups
           /\ Mark(e)[thread.svc] = e
           /\ \A i \in Backups : i # thread.svc => Mark(e)[i] = thread.backups[i]
BY AtWork DEF Mark

\* The calls of recreate.
LEMMA CallActions ==
    ASSUME UpdatesTyped, ThreadOK, BackupsOK
    PROVE  /\ DropPolicy => /\ thread.at = "policy" /\ UNCHANGED written
                            /\ Called(Svc, [box[Svc] EXCEPT !.policy = FALSE],
                                      IF Svc \in WasUp THEN "stop" ELSE "copy")
           /\ Stop => /\ thread.at = "stop" /\ UNCHANGED written
                      /\ Called(Svc, [box[Svc] EXCEPT !.up = FALSE], "copy")
           /\ Rename => /\ thread.at = "rename" /\ UNCHANGED written
                        /\ Called(Svc, [box[Svc] EXCEPT !.name = "aside"], "renamed")
           /\ Disconnect => /\ thread.at = "disconnect" /\ UNCHANGED written
                            /\ Called(Svc, [box[Svc] EXCEPT !.net = FALSE], "create")
           /\ Create => /\ thread.at = "create" /\ UNCHANGED written
                        /\ Called(Svc, [box[Svc] EXCEPT !.new = "created"], "created")
           /\ Start => /\ thread.at = "start"
                       /\ Called(Svc, [box[Svc] EXCEPT !.new = "up"], "verify")
                       /\ written' = IF box' # box /\ Fam \in Sensitive THEN written \cup {Svc} ELSE written
<1>1. thread.at \in Moves => Svc \in Services /\ box[Svc] \in Boxes
  BY AtWork DEF UpdatesTyped
<1> QED BY Zenon, <1>1, BoxEdit, CallFacts DEF DropPolicy, Stop, Rename, Disconnect, Create, Start, In,
    Moves

\* The writes of rollback.json.
LEMMA JournalActions ==
    ASSUME UpdatesTyped, ThreadOK, BackupsOK
    PROVE  /\ JournalPrepared =>
                  /\ thread.at = "prepared"
                  /\ Journaled(Append(thread.backups,
                                      [svc |-> Svc, phase |-> "prepared", newId |-> FALSE,
                                       newStarted |-> FALSE]), "policy")
           /\ JournalRenamed => /\ thread.at = "renamed"
                                /\ Journaled(Mark([Entry EXCEPT !.phase = "renamed"]), "disconnect")
           /\ JournalCreated => /\ thread.at = "created"
                                /\ Journaled(Mark([Entry EXCEPT !.newId = TRUE]),
                                             IF Svc \in WasUp THEN "started" ELSE "verify")
           /\ JournalStarted => /\ thread.at = "started"
                                /\ Journaled(Mark([Entry EXCEPT !.newStarted = TRUE]), "start")
<1>1. JournalPrepared => Svc \in Services /\ thread.backups \in Seq(Entries)
  BY AtWork DEF JournalPrepared, In, Moves
<1>2. JournalPrepared =>
         Append(thread.backups, [svc |-> Svc, phase |-> "prepared", newId |-> FALSE,
                                 newStarted |-> FALSE]) \in Seq(Entries)
  BY <1>1 DEF Entries
<1>3. thread.at \in Moves \ {"prepared"} =>
         /\ Mark([Entry EXCEPT !.phase = "renamed"]) \in Seq(Entries)
         /\ Mark([Entry EXCEPT !.newId = TRUE]) \in Seq(Entries)
         /\ Mark([Entry EXCEPT !.newStarted = TRUE]) \in Seq(Entries)
  BY Zenon, AtWork, Marked, EntryEdit
<1> QED BY Zenon, <1>2, <1>3, JournalFacts
        DEF JournalPrepared, JournalRenamed, JournalCreated, JournalStarted, In, Moves

\* The undo of a service that cannot go on is remembered.
LEMMA GivesUp ==
    ASSUME UpdatesTyped, thread.undo # 0, thread' = NextUndo(TRUE)
    PROVE  SameUndo /\ thread'.at = "undo" /\ thread'.stuck /\ thread'.undo = thread.undo - 1
<1>1. thread \in Locals
  BY DEF UpdatesTyped
<1>2. NextUndo(TRUE) \in Locals
  BY Zenon, <1>1, LocalsEdit DEF NextUndo, Fails
<1> QED BY Zenon, <1>1, <1>2 DEF NextUndo, Locals, SameUndo

\* The calls of the undo.
LEMMA UndoActions ==
    ASSUME UpdatesTyped, ThreadOK, BackupsOK
    PROVE  /\ DeleteNew => /\ thread.at = "delete"
                           /\ UndoneTo(Undone.newId, [Old EXCEPT !.new = "none"], "back")
           /\ RenameBack =>
                 /\ thread.at = "back"
                 /\ UndoneTo(Undone.phase = "renamed", [Old EXCEPT !.name = "own"], "reconnect")
                 /\ thread'.at = "reconnect" => Undone.phase # "renamed" \/ Old.new = "none"
           /\ Reconnect => /\ thread.at = "reconnect"
                           /\ UndoneTo(~Old.net, [Old EXCEPT !.net = TRUE], "repolicy")
           /\ RestorePolicy => /\ thread.at = "repolicy"
                               /\ UndoneTo(TRUE, [Old EXCEPT !.policy = TRUE], "revive")
           /\ StartOld => /\ thread.at = "revive"
                          /\ UndoneTo(Undone.svc \in WasUp, [Old EXCEPT !.up = TRUE], "undo")
<1>1. thread.at \in Undoes => Old \in Boxes /\ Undone \in Entries
  BY AtWork DEF UpdatesTyped, Old
<1>2. thread.at \in Undoes => Undone.newId \in BOOLEAN /\ (~Old.net) \in BOOLEAN
  BY <1>1 DEF Entries, Boxes
<1>3. ASSUME DeleteNew
      PROVE  thread.at = "delete" /\ UndoneTo(Undone.newId, [Old EXCEPT !.new = "none"], "back")
  BY Zenon, <1>1, <1>2, <1>3, BoxEdit, UndoFacts DEF DeleteNew, In, Undoes
<1>4. ASSUME RenameBack
      PROVE  /\ UndoneTo(Undone.phase = "renamed", [Old EXCEPT !.name = "own"], "reconnect")
             /\ thread'.at = "reconnect" => Undone.phase # "renamed" \/ Old.new = "none"
  <2>1. CASE Undone.phase = "renamed" /\ Old.new # "none"
    <3>1. thread' = NextUndo(TRUE) /\ UNCHANGED <<engine, files, request, updateFaults, unseen>>
      BY <1>4, <2>1 DEF RenameBack
    <3>2. thread.at \in Undoes /\ thread.undo # 0
      BY <1>4 DEF RenameBack, In, Undoes, ThreadOK
    <3> QED BY Zenon, <2>1, <3>1, <3>2, GivesUp DEF UndoneTo, SameUndo, engine, files, request,
        UpdatesTyped
  <2>2. CASE ~(Undone.phase = "renamed" /\ Old.new # "none")
    <3>1. thread.at \in Undoes /\ UndoIf(Undone.phase = "renamed", [Old EXCEPT !.name = "own"], Then("reconnect"))
      BY Zenon, <1>4, <2>2 DEF RenameBack, In, Undoes
    <3>2. (Undone.phase = "renamed") \in BOOLEAN /\ [Old EXCEPT !.name = "own"] \in Boxes
      BY Zenon, <1>1, <3>1, BoxEdit
    <3>3. UndoneTo(Undone.phase = "renamed", [Old EXCEPT !.name = "own"], "reconnect")
      BY Zenon, <3>1, <3>2, UndoFacts DEF Undoes
    <3> QED BY <2>2, <3>3
  <2> QED BY <2>1, <2>2
<1>5. ASSUME Reconnect
      PROVE  thread.at = "reconnect" /\ UndoneTo(~Old.net, [Old EXCEPT !.net = TRUE], "repolicy")
  BY Zenon, <1>1, <1>2, <1>5, BoxEdit, UndoFacts DEF Reconnect, In, Undoes
<1>6. ASSUME RestorePolicy
      PROVE  thread.at = "repolicy" /\ UndoneTo(TRUE, [Old EXCEPT !.policy = TRUE], "revive")
  <2>1. thread.at = "repolicy" /\ UndoIf(TRUE, [Old EXCEPT !.policy = TRUE], Then("revive"))
    BY <1>6 DEF RestorePolicy, In, UndoIf
  <2> QED BY Zenon, <1>1, <2>1, BoxEdit, UndoFacts DEF Undoes
<1>7. ASSUME StartOld
      PROVE  thread.at = "revive" /\ UndoneTo(Undone.svc \in WasUp, [Old EXCEPT !.up = TRUE], "undo")
  <2>1. thread.at = "revive" /\ UndoIf(Undone.svc \in WasUp, [Old EXCEPT !.up = TRUE], NextUndo(FALSE))
    BY Zenon, <1>7 DEF StartOld, In
  <2>2. (Undone.svc \in WasUp) \in BOOLEAN
    OBVIOUS
  <2> QED BY Zenon, <1>1, <2>1, <2>2, BoxEdit, UndoFacts DEF Undoes
<1> QED BY Zenon, <1>3, <1>4, <1>5, <1>6, <1>7 DEF RenameBack, In

\* The steps that only go on, with what they write.
LEMMA OtherActions ==
    ASSUME UpdatesTyped, ThreadOK
    PROVE  /\ TakeLock => /\ thread.at = "lock" /\ SameWork /\ thread'.backups = thread.backups
                          /\ thread'.at \in {"bind", "except"}
           /\ Bind \/ Images => /\ thread.at \in {"bind", "images", "rebind"}
                                /\ SameWork /\ thread'.backups = thread.backups
                                /\ thread'.at \in {"images", "rebind", "family", "except"}
           /\ SnapshotDatabase =>
                 /\ thread.at = "copy" /\ SameWork /\ thread'.backups = thread.backups
                 /\ \/ /\ thread'.at = "rename"
                       /\ copied' = IF Fam \in Sensitive THEN copied \cup {Svc} ELSE copied
                    \/ thread'.at = "except" /\ copied' = copied
           /\ WriteSignature =>
                 /\ thread.at = "sign" /\ SameWork /\ thread'.backups = thread.backups
                 /\ signature' \in {signature, profile.gen + 1}
                 /\ \/ thread'.at = "profile" /\ signature' = profile.gen + 1
                    \/ thread'.at = "unprofile"
           /\ RestoreProfile =>
                 /\ thread.at = "unprofile" /\ SameWork /\ thread'.backups = thread.backups
                 /\ \/ thread'.at = "unsign" /\ profile' = thread.kept /\ UNCHANGED unseen
                    \/ thread'.at = "except" /\ profile' = profile /\ unseen' = unseen \cup Enrolled
           /\ RestoreSignature =>
                 /\ thread.at = "unsign" /\ SameWork /\ thread'.backups = thread.backups
                 /\ thread'.at = "except"
                 /\ \/ signature' = thread.kept.gen /\ UNCHANGED unseen
                    \/ signature' = signature /\ unseen' = unseen \cup Enrolled
<1>1. ASSUME TakeLock
      PROVE  /\ thread.at = "lock" /\ SameWork /\ thread'.backups = thread.backups
             /\ thread'.at \in {"bind", "except"}
  BY <1>1, GoesOn DEF TakeLock, In, Raise, Fails, Rests, Waits
<1>2. ASSUME Bind \/ Images
      PROVE  /\ thread.at \in {"bind", "images", "rebind"} /\ SameWork
             /\ thread'.backups = thread.backups
             /\ thread'.at \in {"images", "rebind", "family", "except"}
  <2>1. \E a \in {"images", "rebind", "family", "except"} : GoOn(a)
    BY <1>2 DEF Bind, Images, Raise
  <2> QED BY <1>2, <2>1, GoesOn DEF Bind, Images, In, Fails, Rests, Waits
<1>3. ASSUME SnapshotDatabase
      PROVE  /\ thread.at = "copy" /\ SameWork /\ thread'.backups = thread.backups
             /\ \/ /\ thread'.at = "rename"
                   /\ copied' = IF Fam \in Sensitive THEN copied \cup {Svc} ELSE copied
                \/ thread'.at = "except" /\ copied' = copied
  BY <1>3, GoesOn DEF SnapshotDatabase, In, Raise, Fails, Moves
<1>4. ASSUME WriteSignature
      PROVE  /\ thread.at = "sign" /\ SameWork /\ thread'.backups = thread.backups
             /\ signature' \in {signature, profile.gen + 1}
             /\ \/ thread'.at = "profile" /\ signature' = profile.gen + 1
                \/ thread'.at = "unprofile"
  BY <1>4, GoesOn DEF WriteSignature, In, Admits
<1>5. ASSUME RestoreProfile
      PROVE  /\ thread.at = "unprofile" /\ SameWork /\ thread'.backups = thread.backups
             /\ \/ thread'.at = "unsign" /\ profile' = thread.kept /\ UNCHANGED unseen
                \/ thread'.at = "except" /\ profile' = profile /\ unseen' = unseen \cup Enrolled
  BY <1>5, GoesOn DEF RestoreProfile, In, Raise, Fails, Admits
<1>6. ASSUME RestoreSignature
      PROVE  /\ thread.at = "unsign" /\ SameWork /\ thread'.backups = thread.backups
             /\ thread'.at = "except"
             /\ \/ signature' = thread.kept.gen /\ UNCHANGED unseen
                \/ signature' = signature /\ unseen' = unseen \cup Enrolled
  BY <1>6, GoesOn DEF RestoreSignature, In, Raise, Fails
<1> QED BY <1>1, <1>2, <1>3, <1>4, <1>5, <1>6

\* The next family starts with no backup, and only when it has not drifted.
LEMMA BeginFamilyFacts ==
    ASSUME UpdatesTyped, BeginFamily
    PROVE  /\ thread.at = "family" /\ thread' \in Locals /\ thread'.fam = thread.fam
           /\ thread'.svc = 1 /\ thread'.backups = <<>> /\ ~thread'.committed
           /\ thread'.undo = thread.undo /\ thread'.stuck = thread.stuck
           /\ thread'.at \in {"prepared", "except"}
           /\ thread'.at = "prepared" => ~Drifted(Fam)
<1> DEFINE step == IF Drifted(Fam) THEN "except" ELSE "prepared"
<1>1. thread \in Locals /\ step \in {"prepared", "except"} /\ (step = "prepared" => ~Drifted(Fam))
  BY DEF UpdatesTyped
<1>2. thread' = [thread EXCEPT !.backups = <<>>, !.committed = FALSE, !.svc = 1, !.at = step]
      /\ thread.at = "family"
  BY DEF BeginFamily, In
<1> HIDE DEF step
<1>3. thread' \in Locals
  BY Zenon, <1>1, <1>2, LocalsEdit DEF Moves, Fails
<1> QED BY <1>1, <1>2, <1>3 DEF Locals

\* After a service comes the next one, and after the last one the admission.
LEMMA VerifyFacts ==
    ASSUME UpdatesTyped, Verify
    PROVE  /\ thread.at = "verify" /\ thread' \in Locals /\ thread'.fam = thread.fam
           /\ thread'.backups = thread.backups /\ thread'.committed = thread.committed
           /\ thread'.kept = thread.kept /\ thread'.undo = thread.undo /\ thread'.stuck = thread.stuck
           /\ \/ /\ thread'.at = "prepared" /\ thread'.svc = thread.svc + 1
                 /\ thread.svc < Len(Steps)
              \/ thread'.at = "admit" /\ thread'.svc = thread.svc /\ thread.svc >= Len(Steps)
              \/ thread'.at = "except" /\ thread'.svc = thread.svc
<1>1. thread \in Locals /\ thread.at = "verify"
  BY DEF UpdatesTyped, Verify, In
<1>2. CASE GoOn("except")
  BY <1>1, <1>2, GoesOn DEF SameWork, Fails
<1>3. CASE GoOn("admit") /\ ~(thread.svc < Len(ServicesOf[Fam]))
  <2>1. thread.svc >= Len(Steps)
    BY <1>1, <1>3 DEF Steps, Locals
  <2> QED BY <1>1, <1>3, <2>1, GoesOn DEF SameWork, Admits
<1>4. CASE /\ thread.svc < Len(ServicesOf[Fam])
           /\ thread' = [thread EXCEPT !.svc = @ + 1, !.at = "prepared"]
  <2>1. thread' \in Locals
    BY Zenon, <1>1, <1>4, LocalsEdit DEF Moves
  <2> QED BY <1>1, <1>4, <2>1 DEF Locals, Steps
<1> QED BY <1>2, <1>3, <1>4 DEF Verify, Raise

\* A family whose services are all verified and whose profile is written.
LEMMA CommitFacts ==
    ASSUME UpdatesTyped, thread' = Commit
    PROVE  /\ thread' \in Locals /\ thread'.fam = thread.fam /\ thread'.svc = thread.svc
           /\ thread'.backups = thread.backups /\ thread'.committed
           /\ thread'.undo = thread.undo /\ thread'.at = "record"
<1>1. thread \in Locals
  BY DEF UpdatesTyped
<1>2. Commit \in Locals
  BY Zenon, <1>1, LocalsEdit DEF Commit, Rests
<1> QED BY <1>1, <1>2 DEF Commit, Locals

\* The admission starts from a signed profile of the old containers.
LEMMA AdmitFacts ==
    ASSUME UpdatesTyped, Admit
    PROVE  /\ thread.at = "admit" /\ thread' \in Locals /\ thread'.fam = thread.fam
           /\ thread'.svc = thread.svc /\ thread'.backups = thread.backups
           /\ thread'.undo = thread.undo
           /\ \/ Enrolled = {} /\ thread'.at = "record" /\ thread'.committed
              \/ /\ Enrolled # {} /\ thread'.at = "sign" /\ thread'.kept = profile
                 /\ signature = profile.gen /\ thread'.committed = thread.committed
              \/ thread'.at = "except" /\ thread'.committed = thread.committed
<1>1. thread \in Locals /\ profile \in Profiles /\ thread.at = "admit"
  BY DEF UpdatesTyped, Admit, In
<1>2. CASE Enrolled = {} /\ thread' = Commit
  BY <1>1, <1>2, CommitFacts
<1>3. CASE /\ Enrolled # {} /\ signature = profile.gen
           /\ thread' = [thread EXCEPT !.at = "sign", !.kept = profile]
  <2>1. thread' \in Locals
    BY Zenon, <1>1, <1>3, LocalsEdit DEF Admits
  <2> QED BY <1>1, <1>3, <2>1 DEF Locals
<1>4. CASE Raise
  BY <1>1, <1>4, GoesOn DEF Raise, SameWork, Fails
<1> QED BY <1>2, <1>3, <1>4 DEF Admit

\* The profile is replaced and the family committed, or the write is undone.
LEMMA WriteProfileFacts ==
    ASSUME UpdatesTyped, WriteProfile
    PROVE  /\ thread.at = "profile" /\ thread' \in Locals /\ thread'.fam = thread.fam
           /\ thread'.svc = thread.svc /\ thread'.backups = thread.backups
           /\ thread'.undo = thread.undo
           /\ \/ profile' = NewProfile /\ thread'.at = "record" /\ thread'.committed
              \/ /\ profile' \in {profile, NewProfile} /\ thread'.at = "unprofile"
                 /\ thread'.committed = thread.committed /\ thread'.kept = thread.kept
           /\ NewProfile \in Profiles
<1>1. thread.at = "profile" /\ profile \in Profiles /\ ident \in [Services -> Nat]
      /\ Admitted \subseteq Services /\ MaxDeployments \in Nat
  BY UpdatesAssumption DEF UpdatesTyped, WriteProfile, In
<1>2. NewProfile \in Profiles
  <2>1. profile.gen + 1 \in Nat
    BY <1>1 DEF Profiles
  <2>2. [s \in Admitted |-> IF s \in Enrolled THEN NewOf(s) ELSE profile.pins[s]] \in [Admitted -> Nat]
    BY <1>1 DEF Profiles, NewOf
  <2> QED BY <2>1, <2>2 DEF NewProfile, Profiles
<1>3. CASE profile' = NewProfile /\ thread' = Commit
  BY <1>1, <1>2, <1>3, CommitFacts
<1>4. CASE profile' \in {profile, NewProfile} /\ GoOn("unprofile")
  BY <1>1, <1>2, <1>4, GoesOn DEF SameWork, Admits
<1> QED BY <1>3, <1>4 DEF WriteProfile

\* A family that is recorded is followed by the next one or by the end.
LEMMA RecordFacts ==
    ASSUME UpdatesTyped, ThreadOK, Record
    PROVE  /\ thread.at = "record" /\ thread' \in Locals
           /\ thread'.backups = thread.backups /\ thread'.committed = thread.committed
           /\ thread'.undo = thread.undo
           /\ thread'.at \in {"family", "finish", "except"}
           /\ \/ thread'.fam = thread.fam
              \/ /\ thread'.at = "family" /\ thread'.fam = thread.fam + 1
                 /\ thread.fam < Len(stored.families)
           /\ desired' \in {desired, desired \cup {Fam}}
<1>1. thread \in Locals /\ thread.at = "record"
  BY DEF UpdatesTyped, Record, In
<1>2. CASE Raise /\ desired' \in {desired, desired \cup {Fam}}
  BY <1>1, <1>2, GoesOn DEF Raise, SameWork, Fails
<1>3. CASE /\ thread.fam < Len(stored.families)
           /\ thread' = [thread EXCEPT !.fam = @ + 1, !.at = "family"]
           /\ desired' = desired \cup {Fam}
  <2>1. thread' \in Locals
    BY Zenon, <1>1, <1>3, LocalsEdit DEF Rests
  <2> QED BY <1>1, <1>3, <2>1 DEF Locals
<1>4. CASE thread' = [thread EXCEPT !.at = "finish"] /\ desired' = desired \cup {Fam}
  BY <1>1, <1>4, GoesOn DEF GoOn, SameWork, Rests
<1> QED BY <1>2, <1>3, <1>4 DEF Record

\* The end of the thread, and of the process.
LEMMA EndFacts ==
    ASSUME UpdatesTyped
    PROVE  /\ thread' = NoThread => /\ thread' \in Locals /\ thread'.at = "idle" /\ thread'.undo = 0
                                    /\ thread'.backups = <<>>
           /\ thread' = [NoThread EXCEPT !.at = "down"] =>
                 /\ thread' \in Locals /\ thread'.at = "down" /\ thread'.undo = 0
                 /\ thread'.backups = <<>>
           /\ thread' = [NoThread EXCEPT !.at = "lock"] =>
                 /\ thread' \in Locals /\ thread'.at = "lock" /\ thread'.undo = 0
                 /\ thread'.backups = <<>> /\ thread'.fam = 1 /\ ~thread'.committed /\ ~thread'.stuck
<1>1. /\ [NoThread EXCEPT !.at = "down"] \in Locals
      /\ [NoThread EXCEPT !.at = "lock"] \in Locals
  BY Zenon, NoThreadTyped, LocalsEdit DEF Rests, Waits
<1>2. /\ NoThread.at = "idle" /\ NoThread.undo = 0 /\ NoThread.backups = <<>> /\ NoThread.fam = 1
      /\ ~NoThread.committed /\ ~NoThread.stuck
  BY DEF NoThread
<1>3. ASSUME NEW a, thread' = [NoThread EXCEPT !.at = a]
      PROVE  /\ thread'.at = a /\ thread'.undo = 0 /\ thread'.backups = <<>> /\ thread'.fam = 1
             /\ ~thread'.committed /\ ~thread'.stuck
  BY <1>2, <1>3, NoThreadTyped DEF Locals
<1> QED BY Zenon, <1>1, <1>2, <1>3, NoThreadTyped

\* The undo starts at the last backup.
LEMMA LogErrorFacts ==
    ASSUME UpdatesTyped, LogError
    PROVE  /\ thread.at = "except" /\ thread' \in Locals
           /\ \/ thread' = NoThread
              \/ /\ thread'.fam = thread.fam /\ thread'.svc = thread.svc
                 /\ thread'.backups = thread.backups /\ thread'.committed = thread.committed
                 /\ thread'.undo = Len(thread.backups) /\ thread'.stuck = thread.stuck
                 /\ thread'.at = IF thread.committed THEN "report" ELSE "undo"
<1> DEFINE step == IF thread.committed THEN "report" ELSE "undo"
<1>1. thread \in Locals /\ thread.at = "except" /\ Len(thread.backups) \in Nat
      /\ step \in {"report", "undo"}
  BY DEF UpdatesTyped, LogError, In, Locals
<1>2. CASE thread' = NoThread
  BY <1>1, <1>2, NoThreadTyped
<1>3. CASE thread' = [thread EXCEPT !.undo = Len(thread.backups), !.at = step]
  <2> HIDE DEF step
  <2>1. thread' \in Locals
    BY Zenon, <1>1, <1>3, LocalsEdit DEF Fails
  <2>2. /\ thread'.fam = thread.fam /\ thread'.svc = thread.svc
        /\ thread'.backups = thread.backups /\ thread'.committed = thread.committed
        /\ thread'.undo = Len(thread.backups) /\ thread'.stuck = thread.stuck
        /\ thread'.at = step
    BY <1>1, <1>3 DEF Locals
  <2> QED BY <1>1, <2>1, <2>2 DEF step
<1> QED BY <1>2, <1>3 DEF LogError

\* The undo of a backup is skipped when it may have new data.
LEMMA UndoBackupFacts ==
    ASSUME UpdatesTyped, UndoBackup
    PROVE  /\ thread.at = "undo" /\ SameUndo
           /\ \/ /\ thread.undo = 0 /\ thread'.at = "report"
                 /\ thread'.undo = 0 /\ thread'.stuck = thread.stuck
              \/ /\ thread.undo # 0 /\ Fam \in Sensitive /\ Undone.newStarted
                 /\ thread'.at = "undo" /\ thread'.undo = thread.undo - 1 /\ thread'.stuck
              \/ /\ thread.undo # 0 /\ ~(Fam \in Sensitive /\ Undone.newStarted)
                 /\ thread'.at = "delete" /\ thread'.undo = thread.undo /\ thread'.stuck = thread.stuck
<1>1. thread \in Locals /\ thread.at = "undo"
  BY DEF UpdatesTyped, UndoBackup, In
<1>2. CASE thread.undo = 0 /\ thread' = Then("report")
  <2>1. GoOn("report")
    BY <1>2 DEF Then, GoOn
  <2> QED BY <1>1, <1>2, <2>1, GoesOn DEF SameWork, SameUndo, Fails
<1>3. CASE thread.undo # 0 /\ Fam \in Sensitive /\ Undone.newStarted /\ thread' = NextUndo(TRUE)
  BY Zenon, <1>1, <1>3, GivesUp
<1>4. CASE /\ thread.undo # 0 /\ ~(Fam \in Sensitive /\ Undone.newStarted)
           /\ thread' = Then("delete")
  <2>1. GoOn("delete")
    BY <1>4 DEF Then, GoOn
  <2> QED BY <1>1, <1>4, <2>1, GoesOn DEF SameWork, SameUndo, Fails, Undoes
<1> QED BY Zenon, <1>2, <1>3, <1>4 DEF UndoBackup

----------------------------------------------------------------------------
(* Types                                                                      *)

\* Every step keeps the variables in their sets.
LEMMA TypedStep ==
  ASSUME UpdatesTyped, ThreadOK, BackupsOK, UpdatesNext
  PROVE  UpdatesTyped'
<1>a. /\ thread \in Locals /\ profile \in Profiles /\ signature \in Nat /\ job \in Records
      /\ thread.kept \in Profiles /\ ident \in [Services -> Nat]
  BY DEF UpdatesTyped, Locals
<1>1. CASE Plan
  <2>1. stored'.families \in Seq(Families) /\ stored'.families # <<>>
    BY <1>1 DEF Plan
  <2> QED BY <1>1, <2>1 DEF Plan, UpdatesTyped, engine, admission, files, request
<1>2. CASE Submit
  <2>1. job' \in Records
    BY <1>2 DEF Submit, Records
  <2> QED BY <1>2, <2>1, EndFacts DEF Submit, UpdatesTyped, engine, admission, files, request
<1>3. CASE Expire
  BY <1>3 DEF Expire, UpdatesTyped, engine, admission, files, request
<1>4. CASE TakeLock
  <2>1. job' \in Records
    BY Zenon, <1>4, <1>a, RecordEdit DEF TakeLock
  <2> QED BY <1>4, <2>1, OtherActions DEF TakeLock, UpdatesTyped, engine, admission, files,
      request, SameWork
<1>5. CASE Bind
  BY <1>5, OtherActions DEF Bind, UpdatesTyped, engine, admission, files, request, SameWork
<1>6. CASE Images
  BY <1>6, OtherActions DEF Images, UpdatesTyped, engine, admission, files, request, SameWork
<1>7. CASE BeginFamily
  BY <1>7, BeginFamilyFacts DEF BeginFamily, UpdatesTyped, engine, admission, files, request
<1>8. CASE JournalPrepared
  BY <1>8, JournalActions DEF Journaled, SameWork, UpdatesTyped
<1>9. CASE DropPolicy
  <2>1. written' \subseteq Services
    BY <1>9, CallActions, AtWork DEF UpdatesTyped, Moves
  <2> QED BY <1>9, <2>1, CallActions DEF Called, SameWork, UpdatesTyped
<1>10. CASE Stop
  <2>1. written' \subseteq Services
    BY <1>10, CallActions, AtWork DEF UpdatesTyped, Moves
  <2> QED BY <1>10, <2>1, CallActions DEF Called, SameWork, UpdatesTyped
<1>11. CASE SnapshotDatabase
  <2>1. copied' \subseteq Services
    BY <1>11, OtherActions, AtWork DEF UpdatesTyped, Moves
  <2> QED BY <1>11, <2>1, OtherActions DEF SnapshotDatabase, UpdatesTyped, engine, admission,
      files, request, SameWork
<1>12. CASE Rename
  <2>1. written' \subseteq Services
    BY <1>12, CallActions, AtWork DEF UpdatesTyped, Moves
  <2> QED BY <1>12, <2>1, CallActions DEF Called, SameWork, UpdatesTyped
<1>13. CASE JournalRenamed
  BY <1>13, JournalActions DEF Journaled, SameWork, UpdatesTyped
<1>14. CASE Disconnect
  <2>1. written' \subseteq Services
    BY <1>14, CallActions, AtWork DEF UpdatesTyped, Moves
  <2> QED BY <1>14, <2>1, CallActions DEF Called, SameWork, UpdatesTyped
<1>15. CASE Create
  <2>1. written' \subseteq Services
    BY <1>15, CallActions, AtWork DEF UpdatesTyped, Moves
  <2> QED BY <1>15, <2>1, CallActions DEF Called, SameWork, UpdatesTyped
<1>16. CASE JournalCreated
  BY <1>16, JournalActions DEF Journaled, SameWork, UpdatesTyped
<1>17. CASE JournalStarted
  BY <1>17, JournalActions DEF Journaled, SameWork, UpdatesTyped
<1>18. CASE Start
  <2>1. written' \subseteq Services
    BY <1>18, CallActions, AtWork DEF UpdatesTyped, Moves
  <2> QED BY <1>18, <2>1, CallActions DEF Called, SameWork, UpdatesTyped
<1>19. CASE Verify
  BY <1>19, VerifyFacts DEF Verify, UpdatesTyped, engine, admission, files, request
<1>20. CASE Admit
  BY <1>20, AdmitFacts DEF Admit, UpdatesTyped, engine, admission, files, request
<1>21. CASE WriteSignature
  <2>1. signature' \in Nat
    BY <1>21, <1>a, OtherActions DEF Profiles
  <2> QED BY <1>21, <2>1, OtherActions DEF WriteSignature, UpdatesTyped, engine, admission, files,
      request, SameWork
<1>22. CASE WriteProfile
  BY <1>22, WriteProfileFacts DEF WriteProfile, UpdatesTyped, engine, admission, files, request
<1>23. CASE RestoreProfile
  <2>1. profile' \in Profiles /\ unseen' \subseteq Services
    BY <1>23, <1>a, OtherActions, UpdatesAssumption DEF UpdatesTyped, Enrolled
  <2> QED BY <1>23, <2>1, OtherActions DEF RestoreProfile, UpdatesTyped, engine, admission, files,
      request, SameWork
<1>24. CASE RestoreSignature
  <2>1. signature' \in Nat /\ unseen' \subseteq Services
    BY <1>24, <1>a, OtherActions, UpdatesAssumption DEF UpdatesTyped, Enrolled, Profiles
  <2> QED BY <1>24, <2>1, OtherActions DEF RestoreSignature, UpdatesTyped, engine, admission,
      files, request, SameWork
<1>25. CASE Record
  <2>1. desired' \subseteq Families
    BY <1>25, RecordFacts, Working DEF UpdatesTyped, Idles
  <2> QED BY <1>25, <2>1, RecordFacts DEF Record, UpdatesTyped, engine, admission, files, request
<1>26. CASE Finish
  <2>1. job' \in Records
    BY Zenon, <1>26, <1>a, RecordEdit DEF Finish
  <2>2. thread' \in Locals
    BY <1>26, GoesOn, NoThreadTyped DEF Finish, Raise, SameWork, Fails
  <2> QED BY <1>26, <2>1, <2>2 DEF Finish, UpdatesTyped, engine, admission, files, request
<1>27. CASE LogError
  BY <1>27, LogErrorFacts DEF LogError, UpdatesTyped, engine, admission, files, request
<1>28. CASE UndoBackup
  BY Zenon, <1>28, UndoBackupFacts DEF UndoBackup, UpdatesTyped, engine, admission, files, request,
      SameUndo
<1>29. CASE DeleteNew
  BY <1>29, UndoActions DEF UndoneTo, SameUndo, UpdatesTyped
<1>30. CASE RenameBack
  BY <1>30, UndoActions DEF UndoneTo, SameUndo, UpdatesTyped
<1>31. CASE Reconnect
  BY <1>31, UndoActions DEF UndoneTo, SameUndo, UpdatesTyped
<1>32. CASE RestorePolicy
  BY <1>32, UndoActions DEF UndoneTo, SameUndo, UpdatesTyped
<1>33. CASE StartOld
  BY <1>33, UndoActions DEF UndoneTo, SameUndo, UpdatesTyped
<1>34. CASE Report
  <2>1. thread.stuck \in BOOLEAN
    BY <1>a DEF Locals
  <2>2. job' \in Records
    BY Zenon, <1>34, <1>a, <2>1, RecordEdit DEF Report, Outcome
  <2> QED BY <1>34, <2>2, EndFacts DEF Report, UpdatesTyped, engine, admission, files, request
<1>35. CASE Crash
  BY <1>35, EndFacts DEF Crash, UpdatesTyped, engine, admission, files, request
<1>36. CASE Restart
  <2>1. job.journal \in BOOLEAN
    BY <1>a DEF Records
  <2>2. job' \in Records
    BY Zenon, <1>36, <1>a, <2>1, RecordEdit DEF Restart
  <2> QED BY <1>36, <2>2, EndFacts DEF Restart, UpdatesTyped, engine, admission, files, request
<1>37. ASSUME NEW s \in Services, Redeploy(s) PROVE UpdatesTyped'
  <2>1. ident' \in [Services -> Nat]
    BY <1>37, <1>a DEF Redeploy
  <2>2. profile' \in Profiles /\ signature' \in Nat
    <3>1. CASE UNCHANGED admission
      BY <1>a, <3>1 DEF admission
    <3>2. CASE /\ profile' = [gen |-> profile.gen + 1, pins |-> [profile.pins EXCEPT ![s] = ident[s] + 1]]
               /\ signature' = profile.gen + 1
      <4>1. profile.gen + 1 \in Nat /\ [profile.pins EXCEPT ![s] = ident[s] + 1] \in [Admitted -> Nat]
        <5>1. profile.gen \in Nat /\ profile.pins \in [Admitted -> Nat] /\ ident[s] + 1 \in Nat
          BY <1>a DEF Profiles
        <5>2. ASSUME NEW p \in [Admitted -> Nat], NEW n \in Nat PROVE [p EXCEPT ![s] = n] \in [Admitted -> Nat]
          BY Zenon, <5>2
        <5>3. [profile.pins EXCEPT ![s] = ident[s] + 1] \in [Admitted -> Nat]
          BY <5>1, <5>2
        <5>4. profile.gen + 1 \in Nat
          BY <5>1
        <5> QED BY <5>3, <5>4
      <4> QED BY <3>2, <4>1 DEF Profiles
    <3> QED BY <1>37, <3>1, <3>2 DEF Redeploy
  <2> QED BY <1>37, <2>1, <2>2 DEF Redeploy, UpdatesTyped
<1> QED BY <1>1, <1>2, <1>3, <1>4, <1>5, <1>6, <1>7, <1>8, <1>9, <1>10, <1>11, <1>12, <1>13,
    <1>14, <1>15, <1>16, <1>17, <1>18, <1>19, <1>20, <1>21, <1>22, <1>23, <1>24, <1>25, <1>26,
    <1>27, <1>28, <1>29, <1>30, <1>31, <1>32, <1>33, <1>34, <1>35, <1>36, <1>37 DEF UpdatesNext

----------------------------------------------------------------------------
(* The thread                                                                 *)

\* What depends on the plan and the position of the thread only.
LEMMA SameFamily ==
    ASSUME thread'.fam = thread.fam, stored' = stored
    PROVE  /\ Fam' = Fam /\ Steps' = Steps /\ Enrolled' = Enrolled
           /\ thread'.svc = thread.svc => Svc' = Svc
           /\ thread'.backups = thread.backups => Backups' = Backups /\ Entry' = Entry
           /\ thread'.backups = thread.backups /\ thread'.undo = thread.undo => Undone' = Undone
<1>1. Fam' = Fam
  BY DEF Fam
<1> QED BY <1>1 DEF Steps, Enrolled, Svc, Backups, Entry, Undone

\* Every step keeps ThreadOK.
LEMMA ThreadStep ==
  ASSUME UpdatesTyped, ThreadOK, BackupsOK, UpdatesNext
  PROVE  ThreadOK'
<1>a. /\ thread \in Locals /\ thread' \in Locals /\ job \in Records
  BY TypedStep DEF UpdatesTyped
<1>1. CASE Plan
  BY <1>1 DEF Plan, ThreadOK, Waits, Rests, Moves, Admits, Undoes, Fails, Idles
<1>2. CASE Submit
  BY <1>2, EndFacts DEF Submit, ThreadOK, Waits, Rests, Moves, Admits, Undoes, Fails, Idles, Busy,
      UpdatesTyped, engine, admission, files, request
<1>3. CASE Expire
  BY <1>3 DEF Expire, ThreadOK, Waits, Rests, Moves, Admits, Undoes, Fails, Idles
<1>4. CASE TakeLock
  <2>1. thread.at \in {"lock"} /\ SameWork /\ thread'.backups = thread.backups
    BY <1>4, OtherActions DEF TakeLock, In
  <2>2. thread'.at \in {"bind", "except"}
    BY <1>4, <1>a, <2>1, OtherActions DEF TakeLock, In, GoOn, Raise, Locals
  <2>3. stored' = stored /\ (Busy => Busy')
    BY <1>4, <1>a DEF TakeLock, files, request, Busy, Records
  <2>4. Fam' = Fam
    BY <2>1, <2>3, SameFamily DEF SameWork
  <2> QED BY <2>1, <2>2, <2>3, <2>4 DEF SameWork, ThreadOK, Waits, Rests, Moves, Admits, Undoes,
      Fails, Idles
<1>5. CASE Bind
  <2>1. thread.at \in {"bind", "rebind"} /\ SameWork /\ thread'.backups = thread.backups
    BY <1>5, OtherActions DEF Bind, In
  <2>2. thread'.at \in {"images", "family", "except"}
    BY <1>5, <1>a, <2>1 DEF Bind, In, GoOn, Raise, Locals
  <2>3. stored' = stored /\ (Busy => Busy')
    BY <1>5, <1>a DEF Bind, files, request, Busy, Records
  <2>4. Fam' = Fam
    BY <2>1, <2>3, SameFamily DEF SameWork
  <2> QED BY <2>1, <2>2, <2>3, <2>4 DEF SameWork, ThreadOK, Waits, Rests, Moves, Admits, Undoes,
      Fails, Idles
<1>6. CASE Images
  <2>1. thread.at \in {"images"} /\ SameWork /\ thread'.backups = thread.backups
    BY <1>6, OtherActions DEF Images, In
  <2>2. thread'.at \in {"rebind", "except"}
    BY <1>6, <1>a, <2>1 DEF Images, In, GoOn, Raise, Locals
  <2>3. stored' = stored /\ (Busy => Busy')
    BY <1>6, <1>a DEF Images, files, request, Busy, Records
  <2>4. Fam' = Fam
    BY <2>1, <2>3, SameFamily DEF SameWork
  <2> QED BY <2>1, <2>2, <2>3, <2>4 DEF SameWork, ThreadOK, Waits, Rests, Moves, Admits, Undoes,
      Fails, Idles
<1>7. CASE BeginFamily
  BY <1>7, BeginFamilyFacts, SameFamily DEF BeginFamily, engine, admission, files, request,
      ThreadOK,
      Waits, Rests, Moves, Admits, Undoes, Fails, Idles, Busy
<1>8. CASE JournalPrepared
  <2>1. /\ thread'.fam = thread.fam /\ stored' = stored /\ job'.status = job.status
        /\ thread'.committed = thread.committed
    BY <1>8, JournalActions DEF Journaled, SameWork
  <2>2. thread.undo = 0 /\ thread'.undo = 0 /\ Len(thread'.backups) \in Nat
    BY <1>8, <1>a, JournalActions DEF Journaled, SameWork, ThreadOK, Waits, Rests, Moves, Admits,
        Undoes, Fails, Idles, Locals
  <2> QED BY <1>8, <2>1, <2>2, JournalActions DEF Journaled, SameWork, ThreadOK, Waits, Rests,
      Moves,
      Admits, Undoes, Fails, Idles, Busy
<1>9. CASE DropPolicy
  <2>1. /\ thread'.fam = thread.fam /\ stored' = stored /\ job'.status = job.status
        /\ thread'.committed = thread.committed
    BY <1>9, CallActions DEF Called, SameWork
  <2> QED BY <1>9, <2>1, CallActions, SameFamily DEF Called, SameWork, ThreadOK, Waits, Rests,
      Moves,
      Admits, Undoes, Fails, Idles, Busy
<1>10. CASE Stop
  <2>1. /\ thread'.fam = thread.fam /\ stored' = stored /\ job'.status = job.status
        /\ thread'.committed = thread.committed
    BY <1>10, CallActions DEF Called, SameWork
  <2> QED BY <1>10, <2>1, CallActions, SameFamily DEF Called, SameWork, ThreadOK, Waits, Rests,
      Moves,
      Admits, Undoes, Fails, Idles, Busy
<1>11. CASE SnapshotDatabase
  <2>1. thread.at \in {"copy"} /\ SameWork /\ thread'.backups = thread.backups
    BY <1>11, OtherActions DEF SnapshotDatabase, In
  <2>2. thread'.at \in {"rename", "except"}
    BY <1>11, <1>a, <2>1, OtherActions DEF SnapshotDatabase, In, GoOn, Raise, Locals
  <2>3. stored' = stored /\ (Busy => Busy')
    BY <1>11, <1>a DEF SnapshotDatabase, files, request, Busy, Records
  <2>4. Fam' = Fam
    BY <2>1, <2>3, SameFamily DEF SameWork
  <2> QED BY <2>1, <2>2, <2>3, <2>4 DEF SameWork, ThreadOK, Waits, Rests, Moves, Admits, Undoes,
      Fails, Idles
<1>12. CASE Rename
  <2>1. /\ thread'.fam = thread.fam /\ stored' = stored /\ job'.status = job.status
        /\ thread'.committed = thread.committed
    BY <1>12, CallActions DEF Called, SameWork
  <2> QED BY <1>12, <2>1, CallActions, SameFamily DEF Called, SameWork, ThreadOK, Waits, Rests,
      Moves,
      Admits, Undoes, Fails, Idles, Busy
<1>13. CASE JournalRenamed
  <2>1. /\ thread'.fam = thread.fam /\ stored' = stored /\ job'.status = job.status
        /\ thread'.committed = thread.committed
    BY <1>13, JournalActions DEF Journaled, SameWork
  <2>2. thread.undo = 0 /\ thread'.undo = 0 /\ Len(thread'.backups) \in Nat
    BY <1>13, <1>a, JournalActions DEF Journaled, SameWork, ThreadOK, Waits, Rests, Moves, Admits,
        Undoes, Fails, Idles, Locals
  <2> QED BY <1>13, <2>1, <2>2, JournalActions DEF Journaled, SameWork, ThreadOK, Waits, Rests,
      Moves,
      Admits, Undoes, Fails, Idles, Busy
<1>14. CASE Disconnect
  <2>1. /\ thread'.fam = thread.fam /\ stored' = stored /\ job'.status = job.status
        /\ thread'.committed = thread.committed
    BY <1>14, CallActions DEF Called, SameWork
  <2> QED BY <1>14, <2>1, CallActions, SameFamily DEF Called, SameWork, ThreadOK, Waits, Rests,
      Moves,
      Admits, Undoes, Fails, Idles, Busy
<1>15. CASE Create
  <2>1. /\ thread'.fam = thread.fam /\ stored' = stored /\ job'.status = job.status
        /\ thread'.committed = thread.committed
    BY <1>15, CallActions DEF Called, SameWork
  <2> QED BY <1>15, <2>1, CallActions, SameFamily DEF Called, SameWork, ThreadOK, Waits, Rests,
      Moves,
      Admits, Undoes, Fails, Idles, Busy
<1>16. CASE JournalCreated
  <2>1. /\ thread'.fam = thread.fam /\ stored' = stored /\ job'.status = job.status
        /\ thread'.committed = thread.committed
    BY <1>16, JournalActions DEF Journaled, SameWork
  <2>2. thread.undo = 0 /\ thread'.undo = 0 /\ Len(thread'.backups) \in Nat
    BY <1>16, <1>a, JournalActions DEF Journaled, SameWork, ThreadOK, Waits, Rests, Moves, Admits,
        Undoes, Fails, Idles, Locals
  <2> QED BY <1>16, <2>1, <2>2, JournalActions DEF Journaled, SameWork, ThreadOK, Waits, Rests,
      Moves,
      Admits, Undoes, Fails, Idles, Busy
<1>17. CASE JournalStarted
  <2>1. /\ thread'.fam = thread.fam /\ stored' = stored /\ job'.status = job.status
        /\ thread'.committed = thread.committed
    BY <1>17, JournalActions DEF Journaled, SameWork
  <2>2. thread.undo = 0 /\ thread'.undo = 0 /\ Len(thread'.backups) \in Nat
    BY <1>17, <1>a, JournalActions DEF Journaled, SameWork, ThreadOK, Waits, Rests, Moves, Admits,
        Undoes, Fails, Idles, Locals
  <2> QED BY <1>17, <2>1, <2>2, JournalActions DEF Journaled, SameWork, ThreadOK, Waits, Rests,
      Moves,
      Admits, Undoes, Fails, Idles, Busy
<1>18. CASE Start
  <2>1. /\ thread'.fam = thread.fam /\ stored' = stored /\ job'.status = job.status
        /\ thread'.committed = thread.committed
    BY <1>18, CallActions DEF Called, SameWork
  <2> QED BY <1>18, <2>1, CallActions, SameFamily DEF Called, SameWork, ThreadOK, Waits, Rests,
      Moves,
      Admits, Undoes, Fails, Idles, Busy
<1>19. CASE Verify
  BY <1>19, VerifyFacts, SameFamily DEF Verify, engine, admission, files, request, ThreadOK, Waits,
      Rests, Moves, Admits, Undoes, Fails, Idles, Busy
<1>20. CASE Admit
  BY <1>20, AdmitFacts, SameFamily DEF Admit, engine, admission, files, request, ThreadOK, Waits,
      Rests, Moves, Admits, Undoes, Fails, Idles, Busy
<1>21. CASE WriteSignature
  <2>1. thread.at \in {"sign"} /\ SameWork /\ thread'.backups = thread.backups
    BY <1>21, OtherActions DEF WriteSignature, In
  <2>2. thread'.at \in {"profile", "unprofile"}
    BY <1>21, <1>a, <2>1, OtherActions DEF WriteSignature, In, GoOn, Raise, Locals
  <2>3. stored' = stored /\ (Busy => Busy')
    BY <1>21, <1>a DEF WriteSignature, files, request, Busy, Records
  <2>4. Fam' = Fam
    BY <2>1, <2>3, SameFamily DEF SameWork
  <2> QED BY <2>1, <2>2, <2>3, <2>4 DEF SameWork, ThreadOK, Waits, Rests, Moves, Admits, Undoes,
      Fails, Idles
<1>22. CASE WriteProfile
  BY <1>22, WriteProfileFacts, SameFamily DEF WriteProfile, engine, admission, files, request,
      ThreadOK, Waits, Rests, Moves, Admits, Undoes, Fails, Idles, Busy
<1>23. CASE RestoreProfile
  <2>1. thread.at \in {"unprofile"} /\ SameWork /\ thread'.backups = thread.backups
    BY <1>23, OtherActions DEF RestoreProfile, In
  <2>2. thread'.at \in {"unsign", "except"}
    BY <1>23, <1>a, <2>1, OtherActions DEF RestoreProfile, In, GoOn, Raise, Locals
  <2>3. stored' = stored /\ (Busy => Busy')
    BY <1>23, <1>a DEF RestoreProfile, files, request, Busy, Records
  <2>4. Fam' = Fam
    BY <2>1, <2>3, SameFamily DEF SameWork
  <2> QED BY <2>1, <2>2, <2>3, <2>4 DEF SameWork, ThreadOK, Waits, Rests, Moves, Admits, Undoes,
      Fails, Idles
<1>24. CASE RestoreSignature
  <2>1. thread.at \in {"unsign"} /\ SameWork /\ thread'.backups = thread.backups
    BY <1>24, OtherActions DEF RestoreSignature, In
  <2>2. thread'.at \in {"except"}
    BY <1>24, <1>a, <2>1, OtherActions DEF RestoreSignature, In, GoOn, Raise, Locals
  <2>3. stored' = stored /\ (Busy => Busy')
    BY <1>24, <1>a DEF RestoreSignature, files, request, Busy, Records
  <2>4. Fam' = Fam
    BY <2>1, <2>3, SameFamily DEF SameWork
  <2> QED BY <2>1, <2>2, <2>3, <2>4 DEF SameWork, ThreadOK, Waits, Rests, Moves, Admits, Undoes,
      Fails, Idles
<1>25. CASE Record
  <2>1. stored' = stored /\ job' = job /\ stored.families \in Seq(Families) /\ thread.fam \in Nat
    BY <1>25, <1>a, RecordFacts, Working DEF Record, request, Idles, Locals
  <2>2. thread'.fam \in 1 .. Len(stored.families)
    BY <1>25, <2>1, RecordFacts DEF ThreadOK, Idles
  <2> QED BY <1>25, <2>1, <2>2, RecordFacts DEF ThreadOK, Waits, Rests, Moves, Admits, Undoes,
      Fails,
      Idles, Busy
<1>26. CASE Finish
  BY <1>26, EndFacts, GoesOn, SameFamily DEF Finish, Raise, SameWork, In, ThreadOK, Waits, Rests,
      Moves, Admits, Undoes, Fails, Idles, Busy, UpdatesTyped
<1>27. CASE LogError
  BY SMTT(60), <1>27, <1>a, LogErrorFacts, EndFacts, SameFamily DEF LogError, engine, admission, files,
      request,
      ThreadOK, Waits, Rests, Moves, Admits, Undoes, Fails, Idles, Busy, Locals
<1>28. CASE UndoBackup
  <2>1. /\ thread.at = "undo" /\ thread'.fam = thread.fam /\ stored' = stored /\ job' = job
        /\ thread'.committed = thread.committed /\ thread'.backups = thread.backups
    BY Zenon, <1>28, UndoBackupFacts DEF UndoBackup, SameUndo, engine, admission, files, request
  <2>2. thread.undo \in Nat /\ Len(thread.backups) \in Nat /\ Fam' = Fam
        /\ (thread'.undo = thread.undo => Undone' = Undone)
    BY <1>a, <2>1, SameFamily DEF Locals
  <2> QED BY <1>28, <2>1, <2>2, UndoBackupFacts DEF ThreadOK, Waits, Rests, Moves, Admits, Undoes,
      Fails, Idles, Busy
<1>29. CASE DeleteNew
  <2>1. /\ thread'.fam = thread.fam /\ stored' = stored /\ job'.status = job.status
        /\ thread'.committed = thread.committed
    BY <1>29, UndoActions DEF UndoneTo, SameUndo
  <2>2. Fam' = Fam /\ (thread'.undo = thread.undo => Undone' = Undone)
        /\ thread'.undo \in Nat /\ thread.undo # 0
    BY <1>29, <1>a, <2>1, SameFamily, UndoActions DEF UndoneTo, SameUndo, Locals, ThreadOK, Waits,
        Rests, Moves, Admits, Undoes, Fails, Idles
  <2> QED BY <1>29, <2>1, <2>2, <1>a, UndoActions DEF UndoneTo, SameUndo, ThreadOK, Waits, Rests,
      Moves, Admits, Undoes, Fails, Idles, Busy, Locals
<1>30. CASE RenameBack
  <2>1. /\ thread'.fam = thread.fam /\ stored' = stored /\ job'.status = job.status
        /\ thread'.committed = thread.committed
    BY <1>30, UndoActions DEF UndoneTo, SameUndo
  <2>2. Fam' = Fam /\ (thread'.undo = thread.undo => Undone' = Undone)
        /\ thread'.undo \in Nat /\ thread.undo # 0
    BY <1>30, <1>a, <2>1, SameFamily, UndoActions DEF UndoneTo, SameUndo, Locals, ThreadOK, Waits,
        Rests, Moves, Admits, Undoes, Fails, Idles
  <2> QED BY <1>30, <2>1, <2>2, <1>a, UndoActions DEF UndoneTo, SameUndo, ThreadOK, Waits, Rests,
      Moves, Admits, Undoes, Fails, Idles, Busy, Locals
<1>31. CASE Reconnect
  <2>1. /\ thread'.fam = thread.fam /\ stored' = stored /\ job'.status = job.status
        /\ thread'.committed = thread.committed
    BY <1>31, UndoActions DEF UndoneTo, SameUndo
  <2>2. Fam' = Fam /\ (thread'.undo = thread.undo => Undone' = Undone)
        /\ thread'.undo \in Nat /\ thread.undo # 0
    BY <1>31, <1>a, <2>1, SameFamily, UndoActions DEF UndoneTo, SameUndo, Locals, ThreadOK, Waits,
        Rests, Moves, Admits, Undoes, Fails, Idles
  <2> QED BY <1>31, <2>1, <2>2, <1>a, UndoActions DEF UndoneTo, SameUndo, ThreadOK, Waits, Rests,
      Moves, Admits, Undoes, Fails, Idles, Busy, Locals
<1>32. CASE RestorePolicy
  <2>1. /\ thread'.fam = thread.fam /\ stored' = stored /\ job'.status = job.status
        /\ thread'.committed = thread.committed
    BY <1>32, UndoActions DEF UndoneTo, SameUndo
  <2>2. Fam' = Fam /\ (thread'.undo = thread.undo => Undone' = Undone)
        /\ thread'.undo \in Nat /\ thread.undo # 0
    BY <1>32, <1>a, <2>1, SameFamily, UndoActions DEF UndoneTo, SameUndo, Locals, ThreadOK, Waits,
        Rests, Moves, Admits, Undoes, Fails, Idles
  <2> QED BY <1>32, <2>1, <2>2, <1>a, UndoActions DEF UndoneTo, SameUndo, ThreadOK, Waits, Rests,
      Moves, Admits, Undoes, Fails, Idles, Busy, Locals
<1>33. CASE StartOld
  <2>1. /\ thread'.fam = thread.fam /\ stored' = stored /\ job'.status = job.status
        /\ thread'.committed = thread.committed
    BY <1>33, UndoActions DEF UndoneTo, SameUndo
  <2>2. Fam' = Fam /\ (thread'.undo = thread.undo => Undone' = Undone)
        /\ thread'.undo \in Nat /\ thread.undo # 0
    BY <1>33, <1>a, <2>1, SameFamily, UndoActions DEF UndoneTo, SameUndo, Locals, ThreadOK, Waits,
        Rests, Moves, Admits, Undoes, Fails, Idles
  <2> QED BY <1>33, <2>1, <2>2, <1>a, UndoActions DEF UndoneTo, SameUndo, ThreadOK, Waits, Rests,
      Moves, Admits, Undoes, Fails, Idles, Busy, Locals
<1>34. CASE Report
  BY <1>34, EndFacts DEF Report, ThreadOK, Waits, Rests, Moves, Admits, Undoes, Fails, Idles
<1>35. CASE Crash
  BY <1>35, EndFacts DEF Crash, ThreadOK, Waits, Rests, Moves, Admits, Undoes, Fails, Idles
<1>36. CASE Restart
  BY <1>36, EndFacts DEF Restart, ThreadOK, Waits, Rests, Moves, Admits, Undoes, Fails, Idles
<1>37. ASSUME NEW s \in Services, Redeploy(s) PROVE ThreadOK'
  <2>1. UNCHANGED <<thread, stored, job>>
    BY <1>37 DEF Redeploy
  <2> QED BY <2>1, SameFamily DEF ThreadOK, Idles, Busy
<1> QED BY <1>1, <1>2, <1>3, <1>4, <1>5, <1>6, <1>7, <1>8, <1>9, <1>10, <1>11, <1>12, <1>13,
    <1>14, <1>15, <1>16, <1>17, <1>18, <1>19, <1>20, <1>21, <1>22, <1>23, <1>24, <1>25, <1>26,
    <1>27, <1>28, <1>29, <1>30, <1>31, <1>32, <1>33, <1>34, <1>35, <1>36, <1>37 DEF UpdatesNext

----------------------------------------------------------------------------
(* The backups                                                                *)

\* Every step keeps the backups in line with the services that were replaced.
LEMMA BackupsStep ==
  ASSUME UpdatesTyped, ThreadOK, BackupsOK, EntryOK, UpdatesNext
  PROVE  BackupsOK' /\ EntryOK'
<1>a. /\ thread \in Locals /\ thread' \in Locals /\ thread.svc \in Nat
      /\ thread.backups \in Seq(Entries) /\ thread'.backups \in Seq(Entries)
      /\ Len(thread.backups) \in Nat
  BY TypedStep DEF UpdatesTyped, Locals
<1>b. ~Idles => Steps \in Seq(Services) /\ Steps # <<>> /\ Len(Steps) \in Nat \ {0}
  BY Working
<1>c. Backups = 1 .. Len(thread.backups) /\ Backups' = 1 .. Len(thread'.backups)
  BY <1>a DEF Backups
<1>1. CASE Plan
  BY <1>1 DEF Plan, BackupsOK, EntryOK, Waits, Rests, Moves, Admits, Undoes, Fails, Idles, Opening,
      Backups
<1>2. CASE Submit
  <2>1. thread'.at = "lock" /\ thread'.backups = <<>>
    BY <1>2, EndFacts DEF Submit
  <2>2. Backups' = {}
    BY <1>c, <2>1
  <2> QED BY <2>1, <2>2 DEF BackupsOK, EntryOK, Waits, Rests, Moves, Admits, Undoes, Fails, Idles,
      Opening
<1>3. CASE Expire
  BY <1>3 DEF Expire, BackupsOK, EntryOK, Waits, Rests, Moves, Admits, Undoes, Fails, Idles,
      Opening,
      Backups
<1>4. CASE TakeLock
  <2>1. /\ thread'.fam = thread.fam /\ stored' = stored /\ thread'.svc = thread.svc
        /\ thread'.backups = thread.backups
        /\ thread.at \in {"lock"}
    BY <1>4, OtherActions DEF TakeLock, In, SameWork, request, files
  <2>2. thread'.at \in {"bind", "except"}
    BY <1>4, <1>a, <2>1, OtherActions DEF TakeLock, In, GoOn, Raise, Locals
  <2>3. Steps' = Steps /\ Enrolled' = Enrolled /\ Backups' = Backups
    BY <2>1, SameFamily
  <2> QED BY <1>a, <1>b, <1>c, <2>1, <2>2, <2>3 DEF BackupsOK, EntryOK, ThreadOK, Waits, Rests,
      Moves, Admits, Undoes, Fails, Idles, Opening
<1>5. CASE Bind
  <2>1. /\ thread'.fam = thread.fam /\ stored' = stored /\ thread'.svc = thread.svc
        /\ thread'.backups = thread.backups
        /\ thread.at \in {"bind", "rebind"}
    BY <1>5, OtherActions DEF Bind, In, SameWork, request, files
  <2>2. thread'.at \in {"images", "family", "except"}
    BY <1>5, <1>a, <2>1 DEF Bind, In, GoOn, Raise, Locals
  <2>3. Steps' = Steps /\ Enrolled' = Enrolled /\ Backups' = Backups
    BY <2>1, SameFamily
  <2> QED BY <1>a, <1>b, <1>c, <2>1, <2>2, <2>3 DEF BackupsOK, EntryOK, ThreadOK, Waits, Rests,
      Moves, Admits, Undoes, Fails, Idles, Opening
<1>6. CASE Images
  <2>1. /\ thread'.fam = thread.fam /\ stored' = stored /\ thread'.svc = thread.svc
        /\ thread'.backups = thread.backups
        /\ thread.at \in {"images"}
    BY <1>6, OtherActions DEF Images, In, SameWork, request, files
  <2>2. thread'.at \in {"rebind", "except"}
    BY <1>6, <1>a, <2>1 DEF Images, In, GoOn, Raise, Locals
  <2>3. Steps' = Steps /\ Enrolled' = Enrolled /\ Backups' = Backups
    BY <2>1, SameFamily
  <2> QED BY <1>a, <1>b, <1>c, <2>1, <2>2, <2>3 DEF BackupsOK, EntryOK, ThreadOK, Waits, Rests,
      Moves, Admits, Undoes, Fails, Idles, Opening
<1>7. CASE BeginFamily
  <2>1. /\ thread'.fam = thread.fam /\ stored' = stored /\ thread'.svc = 1 /\ thread'.backups = <<>>
        /\ thread.at = "family" /\ thread'.at \in {"prepared", "except"}
    BY <1>7, BeginFamilyFacts DEF BeginFamily, request
  <2>2. Steps' = Steps /\ Len(thread'.backups) = 0 /\ Backups' = {}
    BY <1>c, <2>1, SameFamily
  <2> QED BY <1>b, <2>1, <2>2 DEF BackupsOK, EntryOK, Waits, Rests, Moves, Admits, Undoes, Fails,
      Idles, Opening
<1>8. CASE JournalPrepared
  <2> DEFINE e == [svc |-> Svc, phase |-> "prepared", newId |-> FALSE, newStarted |-> FALSE]
  <2>1. /\ thread'.fam = thread.fam /\ stored' = stored /\ thread'.svc = thread.svc
        /\ thread'.backups = Append(thread.backups, e) /\ thread.at = "prepared"
        /\ thread'.at \in {"policy", "except"}
    BY <1>8, JournalActions DEF Journaled, SameWork
  <2>2. Steps' = Steps /\ Enrolled' = Enrolled
    BY <2>1, SameFamily
  <2>3. /\ thread.svc \in 1 .. Len(Steps) /\ Len(thread.backups) = thread.svc - 1
        /\ Svc = Steps[thread.svc]
    BY <2>1, AtWork DEF BackupsOK, Moves
  <2>4. e.svc = Svc /\ e.phase = "prepared" /\ ~e.newId /\ ~e.newStarted
    OBVIOUS
  <2> HIDE DEF e
  <2>5. /\ Len(thread'.backups) = thread.svc /\ Backups' = 1 .. thread.svc
        /\ thread'.backups[thread.svc] = e
        /\ \A i \in Backups : thread'.backups[i] = thread.backups[i] /\ i < thread.svc
        /\ \A i \in Backups' : i = thread.svc \/ i \in Backups
    BY <1>a, <1>c, <2>1, <2>3
  <2>6. BackupsOK'
    BY <1>a, <2>1, <2>2, <2>3, <2>4, <2>5, <1>b DEF BackupsOK, Waits, Rests, Moves, Admits,
        Undoes, Fails, Idles
  <2>7. EntryOK'
    BY <1>a, <2>1, <2>2, <2>3, <2>4, <2>5 DEF EntryOK, Waits, Rests, Moves, Admits, Undoes, Fails,
        Idles, Opening
  <2> QED BY <2>6, <2>7
<1>9. CASE DropPolicy
  <2>1. /\ thread'.fam = thread.fam /\ stored' = stored /\ thread'.svc = thread.svc
        /\ thread'.backups = thread.backups
    BY <1>9, CallActions DEF Called, SameWork
  <2>2. Steps' = Steps /\ Enrolled' = Enrolled /\ Backups' = Backups
    BY <2>1, SameFamily
  <2>3. BackupsOK'
    BY <1>9, <1>a, <2>1, <2>2, CallActions DEF Called, BackupsOK, Waits, Rests, Moves, Admits,
        Undoes, Fails, Idles
  <2>4. EntryOK'
    BY <1>9, <1>a, <2>1, <2>2, CallActions DEF Called, EntryOK, Waits, Rests, Moves, Admits, Undoes,
        Fails, Idles, Opening
  <2> QED BY <2>3, <2>4
<1>10. CASE Stop
  <2>1. /\ thread'.fam = thread.fam /\ stored' = stored /\ thread'.svc = thread.svc
        /\ thread'.backups = thread.backups
    BY <1>10, CallActions DEF Called, SameWork
  <2>2. Steps' = Steps /\ Enrolled' = Enrolled /\ Backups' = Backups
    BY <2>1, SameFamily
  <2>3. BackupsOK'
    BY <1>10, <1>a, <2>1, <2>2, CallActions DEF Called, BackupsOK, Waits, Rests, Moves, Admits,
        Undoes, Fails, Idles
  <2>4. EntryOK'
    BY <1>10, <1>a, <2>1, <2>2, CallActions DEF Called, EntryOK, Waits, Rests, Moves, Admits,
        Undoes,
        Fails, Idles, Opening
  <2> QED BY <2>3, <2>4
<1>11. CASE SnapshotDatabase
  <2>1. /\ thread'.fam = thread.fam /\ stored' = stored /\ thread'.svc = thread.svc
        /\ thread'.backups = thread.backups
        /\ thread.at \in {"copy"}
    BY <1>11, OtherActions DEF SnapshotDatabase, In, SameWork, request, files
  <2>2. thread'.at \in {"rename", "except"}
    BY <1>11, <1>a, <2>1, OtherActions DEF SnapshotDatabase, In, GoOn, Raise, Locals
  <2>3. Steps' = Steps /\ Enrolled' = Enrolled /\ Backups' = Backups
    BY <2>1, SameFamily
  <2> QED BY <1>a, <1>b, <1>c, <2>1, <2>2, <2>3 DEF BackupsOK, EntryOK, ThreadOK, Waits, Rests,
      Moves, Admits, Undoes, Fails, Idles, Opening
<1>12. CASE Rename
  <2>1. /\ thread'.fam = thread.fam /\ stored' = stored /\ thread'.svc = thread.svc
        /\ thread'.backups = thread.backups
    BY <1>12, CallActions DEF Called, SameWork
  <2>2. Steps' = Steps /\ Enrolled' = Enrolled /\ Backups' = Backups
    BY <2>1, SameFamily
  <2>3. BackupsOK'
    BY <1>12, <1>a, <2>1, <2>2, CallActions DEF Called, BackupsOK, Waits, Rests, Moves, Admits,
        Undoes, Fails, Idles
  <2>4. EntryOK'
    BY <1>12, <1>a, <2>1, <2>2, CallActions DEF Called, EntryOK, Waits, Rests, Moves, Admits,
        Undoes,
        Fails, Idles, Opening
  <2> QED BY <2>3, <2>4
<1>13. CASE JournalRenamed
  <2> DEFINE e == [Entry EXCEPT !.phase = "renamed"]
  <2>1. /\ thread'.fam = thread.fam /\ stored' = stored /\ thread'.svc = thread.svc
        /\ thread'.backups = Mark(e) /\ thread.at = "renamed"
    BY <1>13, JournalActions DEF Journaled, SameWork
  <2>2. Steps' = Steps /\ Enrolled' = Enrolled
    BY <2>1, SameFamily
  <2>3. /\ thread.svc \in Backups /\ Entry = thread.backups[thread.svc] /\ Entry \in Entries
    BY <2>1, AtWork DEF Moves
  <2>4. e \in Entries /\ e.svc = Entry.svc /\ e.phase = "renamed"
        /\ e.newId = Entry.newId /\ e.newStarted = Entry.newStarted
    BY <2>3, EntryEdit DEF Entries
  <2> HIDE DEF e
  <2>5. /\ Len(thread'.backups) = Len(thread.backups) /\ Backups' = Backups
        /\ thread'.backups[thread.svc] = e
        /\ \A i \in Backups : i # thread.svc => thread'.backups[i] = thread.backups[i]
    <3>1. thread.at \in Moves \ {"prepared"}
      BY <2>1 DEF Moves
    <3>2. /\ Len(Mark(e)) = Len(thread.backups) /\ Mark(e)[thread.svc] = e
          /\ \A i \in Backups : i # thread.svc => Mark(e)[i] = thread.backups[i]
      BY <2>4, <3>1, Marked
    <3> QED BY <1>c, <2>1, <3>2
  <2>6. thread'.at \in {"disconnect", "except"}
    BY <1>13, JournalActions DEF Journaled
  <2>7. BackupsOK'
    BY <1>a, <2>1, <2>2, <2>3, <2>4, <2>5, <2>6 DEF BackupsOK, EntryOK, Waits, Rests, Moves,
        Admits, Undoes, Fails, Idles, Opening
  <2>8. EntryOK'
    BY <1>a, <2>1, <2>2, <2>3, <2>4, <2>5, <2>6 DEF BackupsOK, EntryOK, Waits, Rests, Moves,
        Admits, Undoes, Fails, Idles, Opening
  <2> QED BY <2>7, <2>8
<1>14. CASE Disconnect
  <2>1. /\ thread'.fam = thread.fam /\ stored' = stored /\ thread'.svc = thread.svc
        /\ thread'.backups = thread.backups
    BY <1>14, CallActions DEF Called, SameWork
  <2>2. Steps' = Steps /\ Enrolled' = Enrolled /\ Backups' = Backups
    BY <2>1, SameFamily
  <2>3. BackupsOK'
    BY <1>14, <1>a, <2>1, <2>2, CallActions DEF Called, BackupsOK, Waits, Rests, Moves, Admits,
        Undoes, Fails, Idles
  <2>4. EntryOK'
    BY <1>14, <1>a, <2>1, <2>2, CallActions DEF Called, EntryOK, Waits, Rests, Moves, Admits,
        Undoes,
        Fails, Idles, Opening
  <2> QED BY <2>3, <2>4
<1>15. CASE Create
  <2>1. /\ thread'.fam = thread.fam /\ stored' = stored /\ thread'.svc = thread.svc
        /\ thread'.backups = thread.backups
    BY <1>15, CallActions DEF Called, SameWork
  <2>2. Steps' = Steps /\ Enrolled' = Enrolled /\ Backups' = Backups
    BY <2>1, SameFamily
  <2>3. BackupsOK'
    BY <1>15, <1>a, <2>1, <2>2, CallActions DEF Called, BackupsOK, Waits, Rests, Moves, Admits,
        Undoes, Fails, Idles
  <2>4. EntryOK'
    BY <1>15, <1>a, <2>1, <2>2, CallActions DEF Called, EntryOK, Waits, Rests, Moves, Admits,
        Undoes,
        Fails, Idles, Opening
  <2> QED BY <2>3, <2>4
<1>16. CASE JournalCreated
  <2> DEFINE e == [Entry EXCEPT !.newId = TRUE]
  <2>1. /\ thread'.fam = thread.fam /\ stored' = stored /\ thread'.svc = thread.svc
        /\ thread'.backups = Mark(e) /\ thread.at = "created"
    BY <1>16, JournalActions DEF Journaled, SameWork
  <2>2. Steps' = Steps /\ Enrolled' = Enrolled
    BY <2>1, SameFamily
  <2>3. /\ thread.svc \in Backups /\ Entry = thread.backups[thread.svc] /\ Entry \in Entries
    BY <2>1, AtWork DEF Moves
  <2>4. e \in Entries /\ e.svc = Entry.svc /\ e.newId = TRUE
        /\ e.phase = Entry.phase /\ e.newStarted = Entry.newStarted
    BY Zenon, <2>3, EntryEdit DEF Entries
  <2> HIDE DEF e
  <2>5. /\ Len(thread'.backups) = Len(thread.backups) /\ Backups' = Backups
        /\ thread'.backups[thread.svc] = e
        /\ \A i \in Backups : i # thread.svc => thread'.backups[i] = thread.backups[i]
    <3>1. thread.at \in Moves \ {"prepared"}
      BY <2>1 DEF Moves
    <3>2. /\ Len(Mark(e)) = Len(thread.backups) /\ Mark(e)[thread.svc] = e
          /\ \A i \in Backups : i # thread.svc => Mark(e)[i] = thread.backups[i]
      BY <2>4, <3>1, Marked
    <3> QED BY <1>c, <2>1, <3>2
  <2>6. thread'.at \in {"started", "verify", "except"}
    BY <1>16, JournalActions DEF Journaled
  <2>7. BackupsOK'
    BY <1>a, <2>1, <2>2, <2>3, <2>4, <2>5, <2>6 DEF BackupsOK, EntryOK, Waits, Rests, Moves,
        Admits, Undoes, Fails, Idles, Opening
  <2>8. EntryOK'
    BY <1>a, <2>1, <2>2, <2>3, <2>4, <2>5, <2>6 DEF BackupsOK, EntryOK, Waits, Rests, Moves,
        Admits, Undoes, Fails, Idles, Opening
  <2> QED BY <2>7, <2>8
<1>17. CASE JournalStarted
  <2> DEFINE e == [Entry EXCEPT !.newStarted = TRUE]
  <2>1. /\ thread'.fam = thread.fam /\ stored' = stored /\ thread'.svc = thread.svc
        /\ thread'.backups = Mark(e) /\ thread.at = "started"
    BY <1>17, JournalActions DEF Journaled, SameWork
  <2>2. Steps' = Steps /\ Enrolled' = Enrolled
    BY <2>1, SameFamily
  <2>3. /\ thread.svc \in Backups /\ Entry = thread.backups[thread.svc] /\ Entry \in Entries
    BY <2>1, AtWork DEF Moves
  <2>4. e \in Entries /\ e.svc = Entry.svc /\ e.newStarted = TRUE
        /\ e.phase = Entry.phase /\ e.newId = Entry.newId
    BY Zenon, <2>3, EntryEdit DEF Entries
  <2> HIDE DEF e
  <2>5. /\ Len(thread'.backups) = Len(thread.backups) /\ Backups' = Backups
        /\ thread'.backups[thread.svc] = e
        /\ \A i \in Backups : i # thread.svc => thread'.backups[i] = thread.backups[i]
    <3>1. thread.at \in Moves \ {"prepared"}
      BY <2>1 DEF Moves
    <3>2. /\ Len(Mark(e)) = Len(thread.backups) /\ Mark(e)[thread.svc] = e
          /\ \A i \in Backups : i # thread.svc => Mark(e)[i] = thread.backups[i]
      BY <2>4, <3>1, Marked
    <3> QED BY <1>c, <2>1, <3>2
  <2>6. thread'.at \in {"start", "except"}
    BY <1>17, JournalActions DEF Journaled
  <2>7. BackupsOK'
    BY <1>a, <2>1, <2>2, <2>3, <2>4, <2>5, <2>6 DEF BackupsOK, EntryOK, Waits, Rests, Moves,
        Admits, Undoes, Fails, Idles, Opening
  <2>8. EntryOK'
    BY <1>a, <2>1, <2>2, <2>3, <2>4, <2>5, <2>6 DEF BackupsOK, EntryOK, Waits, Rests, Moves,
        Admits, Undoes, Fails, Idles, Opening
  <2> QED BY <2>7, <2>8
<1>18. CASE Start
  <2>1. /\ thread'.fam = thread.fam /\ stored' = stored /\ thread'.svc = thread.svc
        /\ thread'.backups = thread.backups
    BY <1>18, CallActions DEF Called, SameWork
  <2>2. Steps' = Steps /\ Enrolled' = Enrolled /\ Backups' = Backups
    BY <2>1, SameFamily
  <2>3. BackupsOK'
    BY <1>18, <1>a, <2>1, <2>2, CallActions DEF Called, BackupsOK, Waits, Rests, Moves, Admits,
        Undoes, Fails, Idles
  <2>4. EntryOK'
    BY <1>18, <1>a, <2>1, <2>2, CallActions DEF Called, EntryOK, Waits, Rests, Moves, Admits,
        Undoes,
        Fails, Idles, Opening
  <2> QED BY <2>3, <2>4
<1>19. CASE Verify
  <2>1. /\ thread'.fam = thread.fam /\ stored' = stored /\ thread'.backups = thread.backups
        /\ thread.at = "verify"
    BY <1>19, VerifyFacts DEF Verify, request
  <2>2. Steps' = Steps /\ Enrolled' = Enrolled /\ Backups' = Backups
    BY <2>1, SameFamily
  <2>3. /\ thread.svc \in 1 .. Len(Steps) /\ Len(thread.backups) = thread.svc
        /\ Backups = 1 .. thread.svc
    BY <1>c, <2>1 DEF BackupsOK, Moves
  <2>4. BackupsOK'
    BY <1>19, <1>a, <1>b, <2>1, <2>2, <2>3, VerifyFacts DEF BackupsOK, Waits, Rests, Moves, Admits,
        Undoes, Fails, Idles
  <2>5. EntryOK'
    BY <1>19, <1>a, <1>b, <2>1, <2>2, <2>3, VerifyFacts DEF EntryOK, Waits, Rests, Moves, Admits,
        Undoes, Fails, Idles, Opening
  <2> QED BY <2>4, <2>5
<1>20. CASE Admit
  <2>1. /\ thread'.fam = thread.fam /\ stored' = stored /\ thread'.svc = thread.svc
        /\ thread'.backups = thread.backups
    BY <1>20, AdmitFacts DEF Admit, request
  <2>2. Steps' = Steps /\ Enrolled' = Enrolled /\ Backups' = Backups
    BY <2>1, SameFamily
  <2> QED BY <1>20, <2>1, <2>2, AdmitFacts DEF BackupsOK, EntryOK, Waits, Rests, Moves, Admits,
      Undoes, Fails, Idles, Opening
<1>21. CASE WriteSignature
  <2>1. /\ thread'.fam = thread.fam /\ stored' = stored /\ thread'.svc = thread.svc
        /\ thread'.backups = thread.backups
        /\ thread.at \in {"sign"}
    BY <1>21, OtherActions DEF WriteSignature, In, SameWork, request, files
  <2>2. thread'.at \in {"profile", "unprofile"}
    BY <1>21, <1>a, <2>1, OtherActions DEF WriteSignature, In, GoOn, Raise, Locals
  <2>3. Steps' = Steps /\ Enrolled' = Enrolled /\ Backups' = Backups
    BY <2>1, SameFamily
  <2> QED BY <1>a, <1>b, <1>c, <2>1, <2>2, <2>3 DEF BackupsOK, EntryOK, ThreadOK, Waits, Rests,
      Moves, Admits, Undoes, Fails, Idles, Opening
<1>22. CASE WriteProfile
  <2>1. /\ thread'.fam = thread.fam /\ stored' = stored /\ thread'.svc = thread.svc
        /\ thread'.backups = thread.backups
    BY <1>22, WriteProfileFacts DEF WriteProfile, request
  <2>2. Steps' = Steps /\ Enrolled' = Enrolled /\ Backups' = Backups
    BY <2>1, SameFamily
  <2> QED BY <1>22, <2>1, <2>2, WriteProfileFacts DEF BackupsOK, EntryOK, Waits, Rests, Moves,
      Admits,
      Undoes, Fails, Idles, Opening
<1>23. CASE RestoreProfile
  <2>1. /\ thread'.fam = thread.fam /\ stored' = stored /\ thread'.svc = thread.svc
        /\ thread'.backups = thread.backups
        /\ thread.at \in {"unprofile"}
    BY <1>23, OtherActions DEF RestoreProfile, In, SameWork, request, files
  <2>2. thread'.at \in {"unsign", "except"}
    BY <1>23, <1>a, <2>1, OtherActions DEF RestoreProfile, In, GoOn, Raise, Locals
  <2>3. Steps' = Steps /\ Enrolled' = Enrolled /\ Backups' = Backups
    BY <2>1, SameFamily
  <2> QED BY <1>a, <1>b, <1>c, <2>1, <2>2, <2>3 DEF BackupsOK, EntryOK, ThreadOK, Waits, Rests,
      Moves, Admits, Undoes, Fails, Idles, Opening
<1>24. CASE RestoreSignature
  <2>1. /\ thread'.fam = thread.fam /\ stored' = stored /\ thread'.svc = thread.svc
        /\ thread'.backups = thread.backups
        /\ thread.at \in {"unsign"}
    BY <1>24, OtherActions DEF RestoreSignature, In, SameWork, request, files
  <2>2. thread'.at \in {"except"}
    BY <1>24, <1>a, <2>1, OtherActions DEF RestoreSignature, In, GoOn, Raise, Locals
  <2>3. Steps' = Steps /\ Enrolled' = Enrolled /\ Backups' = Backups
    BY <2>1, SameFamily
  <2> QED BY <1>a, <1>b, <1>c, <2>1, <2>2, <2>3 DEF BackupsOK, EntryOK, ThreadOK, Waits, Rests,
      Moves, Admits, Undoes, Fails, Idles, Opening
<1>25. CASE Record
  <2>1. /\ stored' = stored /\ thread'.backups = thread.backups /\ thread.at = "record"
        /\ thread'.at \in {"family", "finish", "except"}
        /\ thread'.at # "family" => thread'.fam = thread.fam
    BY <1>25, RecordFacts DEF Record, request
  <2>2. Backups' = Backups /\ (thread'.at # "family" => Steps' = Steps)
    BY <1>c, <2>1, SameFamily
  <2> QED BY <2>1, <2>2 DEF BackupsOK, EntryOK, Waits, Rests, Moves, Admits, Undoes, Fails, Idles,
      Opening
<1>26. CASE Finish
  <2>1. CASE thread' = NoThread
    <3>1. thread'.at = "idle" /\ thread'.backups = <<>>
      BY <2>1, EndFacts
    <3>2. Backups' = {}
      BY <1>c, <3>1
    <3> QED BY <3>1, <3>2 DEF BackupsOK, EntryOK, Waits, Rests, Moves, Admits, Undoes, Fails,
        Idles, Opening
  <2>2. CASE Raise
    <3>1. /\ thread'.fam = thread.fam /\ stored' = stored /\ thread'.svc = thread.svc
          /\ thread'.backups = thread.backups /\ thread.at = "finish" /\ thread'.at = "except"
      BY <1>26, <2>2, GoesOn DEF Finish, In, Raise, SameWork, Fails
    <3>2. Steps' = Steps /\ Enrolled' = Enrolled /\ Backups' = Backups
      BY <3>1, SameFamily
    <3> QED BY <3>1, <3>2 DEF BackupsOK, EntryOK, Waits, Rests, Moves, Admits, Undoes, Fails,
        Idles, Opening
  <2> QED BY <1>26, <2>1, <2>2 DEF Finish
<1>27. CASE LogError
  <2>1. CASE thread' = NoThread
    <3>1. thread'.at = "idle" /\ thread'.backups = <<>>
      BY <2>1, EndFacts
    <3>2. Backups' = {}
      BY <1>c, <3>1
    <3> QED BY <3>1, <3>2 DEF BackupsOK, EntryOK, Waits, Rests, Moves, Admits, Undoes, Fails,
        Idles, Opening
  <2>2. CASE thread' # NoThread
    <3>1. /\ thread'.fam = thread.fam /\ stored' = stored /\ thread'.svc = thread.svc
          /\ thread'.backups = thread.backups /\ thread.at = "except"
          /\ thread'.at \in {"report", "undo"}
      BY <1>27, <2>2, LogErrorFacts DEF LogError, request
    <3>2. Steps' = Steps /\ Enrolled' = Enrolled /\ Backups' = Backups
      BY <3>1, SameFamily
    <3> QED BY <3>1, <3>2 DEF BackupsOK, EntryOK, Waits, Rests, Moves, Admits, Undoes, Fails,
        Idles, Opening
  <2> QED BY <2>1, <2>2
<1>28. CASE UndoBackup
  <2>1. /\ thread'.fam = thread.fam /\ stored' = stored /\ thread'.svc = thread.svc
        /\ thread'.backups = thread.backups
        /\ thread.at = "undo" /\ thread'.at \in {"undo", "delete", "report"}
    BY Zenon, <1>28, UndoBackupFacts DEF UndoBackup, SameUndo, request
  <2>2. Steps' = Steps /\ Enrolled' = Enrolled /\ Backups' = Backups
    BY <2>1, SameFamily
  <2> QED BY <2>1, <2>2 DEF BackupsOK, EntryOK, Waits, Rests, Moves, Admits, Undoes, Fails, Idles,
      Opening
<1>29. CASE DeleteNew
  <2>1. /\ thread'.fam = thread.fam /\ stored' = stored /\ thread'.svc = thread.svc
        /\ thread'.backups = thread.backups
        /\ thread.at \in Undoes /\ thread'.at \in Undoes \cup {"undo"}
    BY <1>29, UndoActions DEF UndoneTo, SameUndo, Undoes
  <2>2. Steps' = Steps /\ Enrolled' = Enrolled /\ Backups' = Backups
    BY <2>1, SameFamily
  <2> QED BY <2>1, <2>2 DEF BackupsOK, EntryOK, Waits, Rests, Moves, Admits, Undoes, Fails, Idles,
      Opening
<1>30. CASE RenameBack
  <2>1. /\ thread'.fam = thread.fam /\ stored' = stored /\ thread'.svc = thread.svc
        /\ thread'.backups = thread.backups
        /\ thread.at \in Undoes /\ thread'.at \in Undoes \cup {"undo"}
    BY <1>30, UndoActions DEF UndoneTo, SameUndo, Undoes
  <2>2. Steps' = Steps /\ Enrolled' = Enrolled /\ Backups' = Backups
    BY <2>1, SameFamily
  <2> QED BY <2>1, <2>2 DEF BackupsOK, EntryOK, Waits, Rests, Moves, Admits, Undoes, Fails, Idles,
      Opening
<1>31. CASE Reconnect
  <2>1. /\ thread'.fam = thread.fam /\ stored' = stored /\ thread'.svc = thread.svc
        /\ thread'.backups = thread.backups
        /\ thread.at \in Undoes /\ thread'.at \in Undoes \cup {"undo"}
    BY <1>31, UndoActions DEF UndoneTo, SameUndo, Undoes
  <2>2. Steps' = Steps /\ Enrolled' = Enrolled /\ Backups' = Backups
    BY <2>1, SameFamily
  <2> QED BY <2>1, <2>2 DEF BackupsOK, EntryOK, Waits, Rests, Moves, Admits, Undoes, Fails, Idles,
      Opening
<1>32. CASE RestorePolicy
  <2>1. /\ thread'.fam = thread.fam /\ stored' = stored /\ thread'.svc = thread.svc
        /\ thread'.backups = thread.backups
        /\ thread.at \in Undoes /\ thread'.at \in Undoes \cup {"undo"}
    BY <1>32, UndoActions DEF UndoneTo, SameUndo, Undoes
  <2>2. Steps' = Steps /\ Enrolled' = Enrolled /\ Backups' = Backups
    BY <2>1, SameFamily
  <2> QED BY <2>1, <2>2 DEF BackupsOK, EntryOK, Waits, Rests, Moves, Admits, Undoes, Fails, Idles,
      Opening
<1>33. CASE StartOld
  <2>1. /\ thread'.fam = thread.fam /\ stored' = stored /\ thread'.svc = thread.svc
        /\ thread'.backups = thread.backups
        /\ thread.at \in Undoes /\ thread'.at \in Undoes \cup {"undo"}
    BY <1>33, UndoActions DEF UndoneTo, SameUndo, Undoes
  <2>2. Steps' = Steps /\ Enrolled' = Enrolled /\ Backups' = Backups
    BY <2>1, SameFamily
  <2> QED BY <2>1, <2>2 DEF BackupsOK, EntryOK, Waits, Rests, Moves, Admits, Undoes, Fails, Idles,
      Opening
<1>34. CASE Report
  <2>1. thread'.at = "idle" /\ thread'.backups = <<>>
    BY <1>34, EndFacts DEF Report
  <2>2. Backups' = {}
    BY <1>c, <2>1
  <2> QED BY <2>1, <2>2 DEF BackupsOK, EntryOK, Waits, Rests, Moves, Admits, Undoes, Fails, Idles,
      Opening
<1>35. CASE Crash
  <2>1. thread'.at = "down" /\ thread'.backups = <<>>
    BY <1>35, EndFacts DEF Crash
  <2>2. Backups' = {}
    BY <1>c, <2>1
  <2> QED BY <2>1, <2>2 DEF BackupsOK, EntryOK, Waits, Rests, Moves, Admits, Undoes, Fails, Idles,
      Opening
<1>36. CASE Restart
  <2>1. thread'.at = "idle" /\ thread'.backups = <<>>
    BY <1>36, EndFacts DEF Restart
  <2>2. Backups' = {}
    BY <1>c, <2>1
  <2> QED BY <2>1, <2>2 DEF BackupsOK, EntryOK, Waits, Rests, Moves, Admits, Undoes, Fails, Idles,
      Opening
<1>37. ASSUME NEW s \in Services, Redeploy(s) PROVE BackupsOK' /\ EntryOK'
  <2>1. UNCHANGED <<thread, stored>>
    BY <1>37 DEF Redeploy
  <2>2. Steps' = Steps /\ Enrolled' = Enrolled /\ Backups' = Backups
    BY <2>1, SameFamily
  <2> QED BY <2>1, <2>2 DEF BackupsOK, EntryOK
<1> QED BY <1>1, <1>2, <1>3, <1>4, <1>5, <1>6, <1>7, <1>8, <1>9, <1>10, <1>11, <1>12, <1>13,
    <1>14, <1>15, <1>16, <1>17, <1>18, <1>19, <1>20, <1>21, <1>22, <1>23, <1>24, <1>25, <1>26,
    <1>27, <1>28, <1>29, <1>30, <1>31, <1>32, <1>33, <1>34, <1>35, <1>36, <1>37 DEF UpdatesNext

----------------------------------------------------------------------------
(* The original containers                                                    *)

\* Every step keeps OldOK: the original container is stopped, and its data
\* copied, before the new one is created.
LEMMA OldStep ==
  ASSUME UpdatesTyped, ThreadOK, BackupsOK, EntryOK, OldOK, UpdatesNext
  PROVE  OldOK'
<1>a. /\ thread \in Locals /\ thread' \in Locals /\ box \in [Services -> Boxes]
      /\ \A s \in Services : box[s] \in Boxes
  BY TypedStep DEF UpdatesTyped
<1>b. thread.at \in Moves => Svc \in Services /\ box[Svc] \in Boxes
  BY <1>a, AtWork
<1>c. thread.at \in Undoes => Undone.svc \in Services /\ Old \in Boxes
  BY <1>a, AtWork DEF Old
<1>1. CASE Plan
  <2>1. UNCHANGED <<box, thread>> /\ thread.at = "idle"
    BY <1>1 DEF Plan, engine
  <2> QED BY <2>1 DEF OldOK, Moves
<1>2. CASE Submit
  <2>1. UNCHANGED box /\ thread'.at \in {"lock"}
    BY <1>2, EndFacts DEF Submit, engine
  <2> QED BY <2>1 DEF OldOK, Moves
<1>3. CASE Expire
  <2>1. UNCHANGED <<box, thread>> /\ thread.at = "idle"
    BY <1>3 DEF Expire, engine
  <2> QED BY <2>1 DEF OldOK, Moves
<1>4. CASE TakeLock
  <2>1. /\ thread'.fam = thread.fam /\ stored' = stored /\ thread'.svc = thread.svc
        /\ thread'.backups = thread.backups
        /\ UNCHANGED box /\ thread.at \in {"lock"}
    BY <1>4, OtherActions DEF TakeLock, In, SameWork, request, files, engine
  <2>2. thread'.at \in {"bind", "except"}
    BY <1>4, <1>a, <2>1, OtherActions DEF TakeLock, In, GoOn, Raise, Locals
  <2>3. Svc' = Svc /\ Fam' = Fam
    BY <2>1, SameFamily
  <2> QED BY <2>1, <2>2, <2>3 DEF OldOK, Moves
<1>5. CASE Bind
  <2>1. /\ thread'.fam = thread.fam /\ stored' = stored /\ thread'.svc = thread.svc
        /\ thread'.backups = thread.backups
        /\ UNCHANGED box /\ thread.at \in {"bind", "rebind"}
    BY <1>5, OtherActions DEF Bind, In, SameWork, request, files, engine
  <2>2. thread'.at \in {"images", "family", "except"}
    BY <1>5, <1>a, <2>1 DEF Bind, In, GoOn, Raise, Locals
  <2>3. Svc' = Svc /\ Fam' = Fam
    BY <2>1, SameFamily
  <2> QED BY <2>1, <2>2, <2>3 DEF OldOK, Moves
<1>6. CASE Images
  <2>1. /\ thread'.fam = thread.fam /\ stored' = stored /\ thread'.svc = thread.svc
        /\ thread'.backups = thread.backups
        /\ UNCHANGED box /\ thread.at \in {"images"}
    BY <1>6, OtherActions DEF Images, In, SameWork, request, files, engine
  <2>2. thread'.at \in {"rebind", "except"}
    BY <1>6, <1>a, <2>1 DEF Images, In, GoOn, Raise, Locals
  <2>3. Svc' = Svc /\ Fam' = Fam
    BY <2>1, SameFamily
  <2> QED BY <2>1, <2>2, <2>3 DEF OldOK, Moves
<1>7. CASE BeginFamily
  <2>1. UNCHANGED box /\ thread'.at \in {"prepared", "except"}
    BY <1>7, BeginFamilyFacts DEF BeginFamily, engine
  <2> QED BY <2>1 DEF OldOK, Moves
<1>8. CASE JournalPrepared
  <2>1. /\ thread.at = "prepared" /\ thread'.at \in {"policy", "except"}
        /\ thread'.fam = thread.fam /\ stored' = stored /\ thread'.svc = thread.svc
        /\ UNCHANGED <<box, copied>>
    BY <1>8, JournalActions DEF Journaled, SameWork
  <2>2. Svc' = Svc /\ Fam' = Fam
    BY <2>1, SameFamily
  <2> QED BY <2>1, <2>2 DEF OldOK, Moves
<1>9. CASE DropPolicy
  <2> DEFINE b == [box[Svc] EXCEPT !.policy = FALSE]
  <2>1. /\ b.policy = FALSE /\ b.name = box[Svc].name /\ b.up = box[Svc].up
        /\ b.net = box[Svc].net /\ b.new = box[Svc].new
    BY <1>9, <1>b, CallActions DEF Boxes, Moves
  <2>2. /\ thread.at = "policy" /\ thread'.at \in {"stop", "copy", "except"} /\ Svc' = Svc /\ Fam' = Fam
        /\ Svc \in Services /\ copied' = copied
    BY <1>9, <1>b, CallActions, SameFamily DEF Called, SameWork, Moves
  <2>3. /\ \A s \in Services \ {Svc} : box'[s] = box[s]
        /\ box'[Svc] = b \/ box'[Svc] = box[Svc]
        /\ thread'.at # "except" => box'[Svc] = b
    BY <1>9, CallActions DEF Called
  <2>4. thread'.at = "stop" => Svc \in WasUp
    BY <1>9, CallActions DEF Called, Moves
  <2>5. thread'.at = "copy" => Svc \notin WasUp
    BY <1>9, CallActions DEF Called, Moves
  <2> HIDE DEF b
  <2> QED BY <2>1, <2>2, <2>3, <2>4, <2>5 DEF OldOK, Moves
<1>10. CASE Stop
  <2> DEFINE b == [box[Svc] EXCEPT !.up = FALSE]
  <2>1. /\ b.up = FALSE /\ b.name = box[Svc].name /\ b.policy = box[Svc].policy
        /\ b.net = box[Svc].net /\ b.new = box[Svc].new
    BY <1>10, <1>b, CallActions DEF Boxes, Moves
  <2>2. /\ thread.at = "stop" /\ thread'.at \in {"copy", "except"} /\ Svc' = Svc /\ Fam' = Fam
        /\ Svc \in Services /\ copied' = copied
    BY <1>10, <1>b, CallActions, SameFamily DEF Called, SameWork, Moves
  <2>3. /\ \A s \in Services \ {Svc} : box'[s] = box[s]
        /\ box'[Svc] = b \/ box'[Svc] = box[Svc]
        /\ thread'.at # "except" => box'[Svc] = b
    BY <1>10, CallActions DEF Called
  <2> HIDE DEF b
  <2> QED BY <2>1, <2>2, <2>3 DEF OldOK, Moves
<1>11. CASE SnapshotDatabase
  <2>1. /\ thread'.fam = thread.fam /\ stored' = stored /\ thread'.svc = thread.svc
        /\ thread'.backups = thread.backups
        /\ UNCHANGED box /\ thread.at \in {"copy"}
    BY <1>11, OtherActions DEF SnapshotDatabase, In, SameWork, request, files, engine
  <2>2. thread'.at \in {"rename", "except"}
    BY <1>11, <1>a, <2>1, OtherActions DEF SnapshotDatabase, In, GoOn, Raise, Locals
  <2>3. Svc' = Svc /\ Fam' = Fam
    BY <2>1, SameFamily
  <2>4. Fam \in Sensitive /\ thread'.at # "except" => Svc \in copied'
    BY <1>11, OtherActions
  <2> QED BY <2>1, <2>2, <2>3, <2>4 DEF OldOK, Moves
<1>12. CASE Rename
  <2> DEFINE b == [box[Svc] EXCEPT !.name = "aside"]
  <2>1. /\ b.name = "aside" /\ b.up = box[Svc].up /\ b.policy = box[Svc].policy
        /\ b.net = box[Svc].net /\ b.new = box[Svc].new
    BY <1>12, <1>b, CallActions DEF Boxes, Moves
  <2>2. /\ thread.at = "rename" /\ thread'.at \in {"renamed", "except"} /\ Svc' = Svc /\ Fam' = Fam
        /\ Svc \in Services /\ copied' = copied
    BY <1>12, <1>b, CallActions, SameFamily DEF Called, SameWork, Moves
  <2>3. /\ \A s \in Services \ {Svc} : box'[s] = box[s]
        /\ box'[Svc] = b \/ box'[Svc] = box[Svc]
        /\ thread'.at # "except" => box'[Svc] = b
    BY <1>12, CallActions DEF Called
  <2> HIDE DEF b
  <2> QED BY <2>1, <2>2, <2>3 DEF OldOK, Moves
<1>13. CASE JournalRenamed
  <2>1. /\ thread.at = "renamed" /\ thread'.at \in {"disconnect", "except"}
        /\ thread'.fam = thread.fam /\ stored' = stored /\ thread'.svc = thread.svc
        /\ UNCHANGED <<box, copied>>
    BY <1>13, JournalActions DEF Journaled, SameWork
  <2>2. Svc' = Svc /\ Fam' = Fam
    BY <2>1, SameFamily
  <2> QED BY <2>1, <2>2 DEF OldOK, Moves
<1>14. CASE Disconnect
  <2> DEFINE b == [box[Svc] EXCEPT !.net = FALSE]
  <2>1. /\ b.net = FALSE /\ b.name = box[Svc].name /\ b.up = box[Svc].up
        /\ b.policy = box[Svc].policy /\ b.new = box[Svc].new
    BY <1>14, <1>b, CallActions DEF Boxes, Moves
  <2>2. /\ thread.at = "disconnect" /\ thread'.at \in {"create", "except"} /\ Svc' = Svc /\ Fam' = Fam
        /\ Svc \in Services /\ copied' = copied
    BY <1>14, <1>b, CallActions, SameFamily DEF Called, SameWork, Moves
  <2>3. /\ \A s \in Services \ {Svc} : box'[s] = box[s]
        /\ box'[Svc] = b \/ box'[Svc] = box[Svc]
        /\ thread'.at # "except" => box'[Svc] = b
    BY <1>14, CallActions DEF Called
  <2> HIDE DEF b
  <2> QED BY <2>1, <2>2, <2>3 DEF OldOK, Moves
<1>15. CASE Create
  <2> DEFINE b == [box[Svc] EXCEPT !.new = "created"]
  <2>1. /\ b.new = "created" /\ b.name = box[Svc].name /\ b.up = box[Svc].up
        /\ b.policy = box[Svc].policy /\ b.net = box[Svc].net
    BY <1>15, <1>b, CallActions DEF Boxes, Moves
  <2>2. /\ thread.at = "create" /\ thread'.at \in {"created", "except"} /\ Svc' = Svc /\ Fam' = Fam
        /\ Svc \in Services /\ copied' = copied
    BY <1>15, <1>b, CallActions, SameFamily DEF Called, SameWork, Moves
  <2>3. /\ \A s \in Services \ {Svc} : box'[s] = box[s]
        /\ box'[Svc] = b \/ box'[Svc] = box[Svc]
        /\ thread'.at # "except" => box'[Svc] = b
    BY <1>15, CallActions DEF Called
  <2> HIDE DEF b
  <2> QED BY <2>1, <2>2, <2>3 DEF OldOK, Moves
<1>16. CASE JournalCreated
  <2>1. /\ thread.at = "created" /\ thread'.at \in {"started", "verify", "except"}
        /\ thread'.fam = thread.fam /\ stored' = stored /\ thread'.svc = thread.svc
        /\ UNCHANGED <<box, copied>>
    BY <1>16, JournalActions DEF Journaled, SameWork
  <2>2. Svc' = Svc /\ Fam' = Fam
    BY <2>1, SameFamily
  <2>3. thread'.at = "started" => Svc \in WasUp
    BY <1>16, JournalActions DEF Journaled
  <2> QED BY <2>1, <2>2, <2>3 DEF OldOK, Moves
<1>17. CASE JournalStarted
  <2>1. /\ thread.at = "started" /\ thread'.at \in {"start", "except"}
        /\ thread'.fam = thread.fam /\ stored' = stored /\ thread'.svc = thread.svc
        /\ UNCHANGED <<box, copied>>
    BY <1>17, JournalActions DEF Journaled, SameWork
  <2>2. Svc' = Svc /\ Fam' = Fam
    BY <2>1, SameFamily
  <2> QED BY <2>1, <2>2 DEF OldOK, Moves
<1>18. CASE Start
  <2> DEFINE b == [box[Svc] EXCEPT !.new = "up"]
  <2>1. /\ b.new = "up" /\ b.name = box[Svc].name /\ b.up = box[Svc].up
        /\ b.policy = box[Svc].policy /\ b.net = box[Svc].net
    BY <1>18, <1>b, CallActions DEF Boxes, Moves
  <2>2. /\ thread.at = "start" /\ thread'.at \in {"verify", "except"} /\ Svc' = Svc /\ Fam' = Fam
        /\ Svc \in Services /\ copied' = copied
    BY <1>18, <1>b, CallActions, SameFamily DEF Called, SameWork, Moves
  <2>3. /\ \A s \in Services \ {Svc} : box'[s] = box[s]
        /\ box'[Svc] = b \/ box'[Svc] = box[Svc]
        /\ thread'.at # "except" => box'[Svc] = b
    BY <1>18, CallActions DEF Called
  <2> HIDE DEF b
  <2> QED BY <2>1, <2>2, <2>3 DEF OldOK, Moves
<1>19. CASE Verify
  <2>1. UNCHANGED box /\ thread'.at \in {"prepared", "admit", "except"}
    BY <1>19, VerifyFacts DEF Verify, engine
  <2> QED BY <2>1 DEF OldOK, Moves
<1>20. CASE Admit
  <2>1. UNCHANGED box /\ thread'.at \in {"record", "sign", "except"}
    BY <1>20, AdmitFacts DEF Admit, engine
  <2> QED BY <2>1 DEF OldOK, Moves
<1>21. CASE WriteSignature
  <2>1. /\ thread'.fam = thread.fam /\ stored' = stored /\ thread'.svc = thread.svc
        /\ thread'.backups = thread.backups
        /\ UNCHANGED box /\ thread.at \in {"sign"}
    BY <1>21, OtherActions DEF WriteSignature, In, SameWork, request, files, engine
  <2>2. thread'.at \in {"profile", "unprofile"}
    BY <1>21, <1>a, <2>1, OtherActions DEF WriteSignature, In, GoOn, Raise, Locals
  <2>3. Svc' = Svc /\ Fam' = Fam
    BY <2>1, SameFamily
  <2> QED BY <2>1, <2>2, <2>3 DEF OldOK, Moves
<1>22. CASE WriteProfile
  <2>1. UNCHANGED box /\ thread'.at \in {"record", "unprofile"}
    BY <1>22, WriteProfileFacts DEF WriteProfile, engine
  <2> QED BY <2>1 DEF OldOK, Moves
<1>23. CASE RestoreProfile
  <2>1. /\ thread'.fam = thread.fam /\ stored' = stored /\ thread'.svc = thread.svc
        /\ thread'.backups = thread.backups
        /\ UNCHANGED box /\ thread.at \in {"unprofile"}
    BY <1>23, OtherActions DEF RestoreProfile, In, SameWork, request, files, engine
  <2>2. thread'.at \in {"unsign", "except"}
    BY <1>23, <1>a, <2>1, OtherActions DEF RestoreProfile, In, GoOn, Raise, Locals
  <2>3. Svc' = Svc /\ Fam' = Fam
    BY <2>1, SameFamily
  <2> QED BY <2>1, <2>2, <2>3 DEF OldOK, Moves
<1>24. CASE RestoreSignature
  <2>1. /\ thread'.fam = thread.fam /\ stored' = stored /\ thread'.svc = thread.svc
        /\ thread'.backups = thread.backups
        /\ UNCHANGED box /\ thread.at \in {"unsign"}
    BY <1>24, OtherActions DEF RestoreSignature, In, SameWork, request, files, engine
  <2>2. thread'.at \in {"except"}
    BY <1>24, <1>a, <2>1, OtherActions DEF RestoreSignature, In, GoOn, Raise, Locals
  <2>3. Svc' = Svc /\ Fam' = Fam
    BY <2>1, SameFamily
  <2> QED BY <2>1, <2>2, <2>3 DEF OldOK, Moves
<1>25. CASE Record
  <2>1. UNCHANGED box /\ thread'.at \in {"family", "finish", "except"}
    BY <1>25, RecordFacts DEF Record, engine
  <2> QED BY <2>1 DEF OldOK, Moves
<1>26. CASE Finish
  <2>1. UNCHANGED box /\ thread'.at \in {"idle", "except"}
    BY <1>26, GoesOn, EndFacts DEF Finish, engine, Raise, Fails
  <2> QED BY <2>1 DEF OldOK, Moves
<1>27. CASE LogError
  <2>1. UNCHANGED box /\ thread'.at \in {"report", "undo", "idle"}
    BY <1>27, LogErrorFacts, EndFacts DEF LogError, engine
  <2> QED BY <2>1 DEF OldOK, Moves
<1>28. CASE UndoBackup
  <2>1. UNCHANGED box /\ thread'.at \in {"report", "undo", "delete"}
    BY Zenon, <1>28, UndoBackupFacts DEF UndoBackup, engine
  <2> QED BY <2>1 DEF OldOK, Moves
<1>29. CASE DeleteNew
  <2> DEFINE b == [Old EXCEPT !.new = "none"]
  <2>1. /\ b.new = "none" /\ b.name = Old.name /\ b.up = Old.up
        /\ b.policy = Old.policy /\ b.net = Old.net
    BY <1>29, <1>c, UndoActions DEF Boxes, Undoes
  <2>2. /\ thread.at = "delete" /\ thread'.at \in {"back", "undo"} /\ Undone.svc \in Services
        /\ \A s \in Services \ {Undone.svc} : box'[s] = box[s]
        /\ box'[Undone.svc] = b \/ box'[Undone.svc] = Old
    BY <1>29, <1>c, UndoActions DEF UndoneTo, Undoes, Old
  <2> HIDE DEF b
  <2> QED BY <2>1, <2>2 DEF OldOK, Moves, Old
<1>30. CASE RenameBack
  <2> DEFINE b == [Old EXCEPT !.name = "own"]
  <2>1. /\ b.name = "own" /\ b.up = Old.up /\ b.policy = Old.policy
        /\ b.net = Old.net /\ b.new = Old.new
    BY <1>30, <1>c, UndoActions DEF Boxes, Undoes
  <2>2. /\ thread.at = "back" /\ thread'.at \in {"reconnect", "undo"} /\ Undone.svc \in Services
        /\ \A s \in Services \ {Undone.svc} : box'[s] = box[s]
        /\ box'[Undone.svc] = b \/ box'[Undone.svc] = Old
    BY <1>30, <1>c, UndoActions DEF UndoneTo, Undoes, Old
  <2> HIDE DEF b
  <2> QED BY <2>1, <2>2 DEF OldOK, Moves, Old
<1>31. CASE Reconnect
  <2> DEFINE b == [Old EXCEPT !.net = TRUE]
  <2>1. /\ b.net = TRUE /\ b.name = Old.name /\ b.up = Old.up
        /\ b.policy = Old.policy /\ b.new = Old.new
    BY <1>31, <1>c, UndoActions DEF Boxes, Undoes
  <2>2. /\ thread.at = "reconnect" /\ thread'.at \in {"repolicy", "undo"} /\ Undone.svc \in Services
        /\ \A s \in Services \ {Undone.svc} : box'[s] = box[s]
        /\ box'[Undone.svc] = b \/ box'[Undone.svc] = Old
    BY <1>31, <1>c, UndoActions DEF UndoneTo, Undoes, Old
  <2> HIDE DEF b
  <2> QED BY <2>1, <2>2 DEF OldOK, Moves, Old
<1>32. CASE RestorePolicy
  <2> DEFINE b == [Old EXCEPT !.policy = TRUE]
  <2>1. b.policy = TRUE /\ b.name = Old.name /\ b.up = Old.up /\ b.net = Old.net /\ b.new = Old.new
    BY <1>32, <1>c, UndoActions DEF Boxes, Undoes
  <2>2. /\ thread.at = "repolicy" /\ thread'.at \in {"revive", "undo"} /\ Undone.svc \in Services
        /\ \A s \in Services \ {Undone.svc} : box'[s] = box[s]
        /\ box'[Undone.svc] = b \/ box'[Undone.svc] = Old
    BY <1>32, <1>c, UndoActions DEF UndoneTo, Undoes, Old
  <2> HIDE DEF b
  <2> QED BY <2>1, <2>2 DEF OldOK, Moves, Old
<1>33. CASE StartOld
  <2> DEFINE b == [Old EXCEPT !.up = TRUE]
  <2>1. /\ b.up = TRUE /\ b.name = Old.name /\ b.policy = Old.policy
        /\ b.net = Old.net /\ b.new = Old.new
    BY <1>33, <1>c, UndoActions DEF Boxes, Undoes
  <2>2. /\ thread.at = "revive" /\ thread'.at \in {"undo", "undo"} /\ Undone.svc \in Services
        /\ \A s \in Services \ {Undone.svc} : box'[s] = box[s]
        /\ (box'[Undone.svc] = b /\ Undone.svc \in WasUp) \/ box'[Undone.svc] = Old
    BY <1>33, <1>c, UndoActions DEF UndoneTo, Undoes, Old
  <2> HIDE DEF b
  <2> QED BY <2>1, <2>2 DEF OldOK, Moves, Old
<1>34. CASE Report
  <2>1. UNCHANGED box /\ thread'.at \in {"idle"}
    BY <1>34, EndFacts DEF Report, engine
  <2> QED BY <2>1 DEF OldOK, Moves
<1>35. CASE Crash
  <2>1. UNCHANGED box /\ thread'.at \in {"down"}
    BY <1>35, EndFacts DEF Crash, engine
  <2> QED BY <2>1 DEF OldOK, Moves
<1>36. CASE Restart
  <2>1. UNCHANGED box /\ thread'.at \in {"idle"}
    BY <1>36, EndFacts DEF Restart, engine
  <2> QED BY <2>1 DEF OldOK, Moves
<1>37. ASSUME NEW s \in Services, Redeploy(s) PROVE OldOK'
  <2>1. UNCHANGED <<box, thread, stored, copied>>
    BY <1>37 DEF Redeploy
  <2>2. Svc' = Svc /\ Fam' = Fam
    BY <2>1, SameFamily
  <2> QED BY <2>1, <2>2 DEF OldOK
<1> QED BY <1>1, <1>2, <1>3, <1>4, <1>5, <1>6, <1>7, <1>8, <1>9, <1>10, <1>11, <1>12, <1>13,
    <1>14, <1>15, <1>16, <1>17, <1>18, <1>19, <1>20, <1>21, <1>22, <1>23, <1>24, <1>25, <1>26,
    <1>27, <1>28, <1>29, <1>30, <1>31, <1>32, <1>33, <1>34, <1>35, <1>36, <1>37 DEF UpdatesNext

----------------------------------------------------------------------------
(* What the new versions may have written                                     *)

\* Every step keeps SeenOK.
LEMMA SeenStep ==
    ASSUME SeenOK, UpdatesNext
    PROVE  SeenOK'
<1>1. CASE Plan
  <2>1. /\ stored'.seen = Fingerprint
        /\ \A f \in Range(stored'.families) : CanUpdate(f)
    BY <1>1 DEF Plan, Plannable
  <2>2. \A f \in Range(stored'.families) : Range(ServicesOf[f]) \subseteq Services
    <3>1. Range(stored'.families) \subseteq Families
      BY <1>1 DEF Plan, Range
    <3>2. ASSUME NEW f \in Families PROVE Range(ServicesOf[f]) \subseteq Services
      <4>1. ServicesOf[f] \in Seq(Services)
        BY <3>2, UpdatesAssumption
      <4> QED BY <4>1 DEF Range
    <3> QED BY <3>1, <3>2
  <2>3. \A s \in Services : Fingerprint[s][2] = box[s]
    BY DEF Fingerprint
  <2> QED BY <2>1, <2>2, <2>3 DEF SeenOK, CanUpdate
<1>2. CASE ~Plan
  <2>1. stored' = stored \/ stored' = NoPlan
    BY <1>2 DEF UpdatesNext, Admit, BeginFamily, Bind, Call, Commit, Crash, Create, DeleteNew,
        Disconnect, DropPolicy, Expire, Fault, Finish, GoOn, Images, In, Journal, JournalCreated,
        JournalPrepared, JournalRenamed, JournalStarted, LogError, Mark, NextUndo, Raise,
        Reconnect, Record, Rename, RenameBack, Report, Restart, RestorePolicy, RestoreProfile,
        RestoreSignature, SnapshotDatabase, Start, StartOld, Stop, Submit, TakeLock, Then,
        UndoBackup, UndoCall, UndoIf, Verify, WriteProfile, WriteSignature, admission, engine,
        files, request, Redeploy
  <2> QED BY <2>1 DEF SeenOK
<1> QED BY <1>1, <1>2

\* Every step keeps WrittenOK: a start is journalled before it, and a backup
\* that was started is not undone when its data may be new.
LEMMA WrittenStep ==
  ASSUME UpdatesTyped, ThreadOK, BackupsOK, EntryOK, OldOK, WrittenOK, SeenOK, UpdatesNext
  PROVE  WrittenOK'
<1>a. /\ thread \in Locals /\ thread' \in Locals /\ box \in [Services -> Boxes]
      /\ \A s \in Services : box[s] \in Boxes
      /\ written \subseteq Services
  BY TypedStep DEF UpdatesTyped
<1>b. /\ thread.at \in Moves => /\ Svc \in Services /\ box[Svc] \in Boxes
                                /\ thread.svc \in DOMAIN Steps /\ Svc = Steps[thread.svc]
      /\ thread.at \in Moves \ {"prepared"} => thread.svc \in Backups /\ Entry = thread.backups[thread.svc]
  BY <1>a, AtWork
<1>c. thread.at \in Undoes => Undone.svc \in Services /\ Old \in Boxes /\ Undone.svc \notin written
  <2>1. ASSUME thread.at \in Undoes
        PROVE  /\ Undone.svc \in Services /\ Old \in Boxes /\ thread.undo \in DOMAIN Steps
               /\ Undone.svc = Steps[thread.undo] /\ Undone = thread.backups[thread.undo]
    BY <1>a, <2>1, AtWork DEF Old
  <2>2. ASSUME thread.at \in Undoes
        PROVE  ~thread.committed /\ thread.undo # 0 /\ ~(Fam \in Sensitive /\ Undone.newStarted)
    BY <2>2 DEF ThreadOK
  <2>3. thread.at \in Undoes => thread.backups # <<>>
    BY <1>a DEF ThreadOK, Locals
  <2> QED BY <2>1, <2>2, <2>3 DEF WrittenOK, Fails
<1>1. CASE Plan
  <2>1. UNCHANGED <<box, written, copied, thread>> /\ thread.at = "idle"
    BY <1>1 DEF Plan, engine, files
  <2> QED BY <2>1 DEF WrittenOK, Moves, Admits, Fails, Undoes
<1>2. CASE Submit
  <2>1. UNCHANGED <<box, written, copied>> /\ thread'.at = "lock"
    BY <1>2, EndFacts DEF Submit, engine, files
  <2> QED BY <2>1 DEF WrittenOK, Moves, Admits, Fails, Undoes
<1>3. CASE Expire
  <2>1. UNCHANGED <<box, written, copied, thread>> /\ thread.at = "idle"
    BY <1>3 DEF Expire, engine, files
  <2> QED BY <2>1 DEF WrittenOK, Moves, Admits, Fails, Undoes
<1>4. CASE TakeLock
  <2>1. /\ thread'.fam = thread.fam /\ stored' = stored /\ thread'.svc = thread.svc
        /\ thread'.backups = thread.backups
        /\ UNCHANGED <<box, written>> /\ thread.at \in {"lock"} /\ copied \subseteq copied'
        /\ thread'.committed = thread.committed
    BY <1>4, OtherActions DEF TakeLock, In, SameWork, request, files, engine
  <2>2. thread'.at \in {"bind", "except"}
    BY <1>4, <1>a, <2>1, OtherActions DEF TakeLock, In, GoOn, Raise, Locals
  <2>3. Fam' = Fam /\ Steps' = Steps /\ Backups' = Backups
    BY <2>1, SameFamily
  <2>4. thread.backups = <<>>
    BY <2>1 DEF ThreadOK, Waits
  <2> QED BY <2>1, <2>2, <2>3, <2>4 DEF WrittenOK, Moves, Admits, Fails, Undoes
<1>5. CASE Bind
  <2>1. /\ thread'.fam = thread.fam /\ stored' = stored /\ thread'.svc = thread.svc
        /\ thread'.backups = thread.backups
        /\ UNCHANGED <<box, written>> /\ thread.at \in {"bind", "rebind"} /\ copied \subseteq copied'
        /\ thread'.committed = thread.committed
    BY <1>5, OtherActions DEF Bind, In, SameWork, request, files, engine
  <2>2. thread'.at \in {"images", "family", "except"}
    BY <1>5, <1>a, <2>1 DEF Bind, In, GoOn, Raise, Locals
  <2>3. Fam' = Fam /\ Steps' = Steps /\ Backups' = Backups
    BY <2>1, SameFamily
  <2>4. thread.backups = <<>>
    BY <2>1 DEF ThreadOK, Waits
  <2> QED BY <2>1, <2>2, <2>3, <2>4 DEF WrittenOK, Moves, Admits, Fails, Undoes
<1>6. CASE Images
  <2>1. /\ thread'.fam = thread.fam /\ stored' = stored /\ thread'.svc = thread.svc
        /\ thread'.backups = thread.backups
        /\ UNCHANGED <<box, written>> /\ thread.at \in {"images"} /\ copied \subseteq copied'
        /\ thread'.committed = thread.committed
    BY <1>6, OtherActions DEF Images, In, SameWork, request, files, engine
  <2>2. thread'.at \in {"rebind", "except"}
    BY <1>6, <1>a, <2>1 DEF Images, In, GoOn, Raise, Locals
  <2>3. Fam' = Fam /\ Steps' = Steps /\ Backups' = Backups
    BY <2>1, SameFamily
  <2>4. thread.backups = <<>>
    BY <2>1 DEF ThreadOK, Waits
  <2> QED BY <2>1, <2>2, <2>3, <2>4 DEF WrittenOK, Moves, Admits, Fails, Undoes
<1>7. CASE BeginFamily
  <2>1. /\ thread'.fam = thread.fam /\ thread'.backups = <<>> /\ thread.at = "family"
        /\ thread'.at \in {"prepared", "except"} /\ (thread'.at = "prepared" => ~Drifted(Fam))
        /\ UNCHANGED <<box, written, copied, stored>>
    BY <1>7, BeginFamilyFacts DEF BeginFamily, request, engine, files
  <2>2. Steps' = Steps /\ Fam' = Fam
    BY <2>1, SameFamily
  <2>3. /\ stored # NoPlan /\ Fam \in Range(stored.families) /\ Steps \in Seq(Services)
        /\ Steps = ServicesOf[Fam]
    BY <2>1, Working DEF ThreadOK, Idles
  <2>4. ASSUME ~Drifted(Fam), NEW i \in DOMAIN Steps PROVE Steps[i] \notin written
    <3>1. Steps[i] \in Range(ServicesOf[Fam]) /\ Steps[i] \in Services
      BY <2>3 DEF Range
    <3>2. Fingerprint[Steps[i]] = stored.seen[Steps[i]] /\ Fingerprint[Steps[i]][2] = box[Steps[i]]
      BY <2>4, <3>1 DEF Drifted, Fingerprint
    <3>3. box[Steps[i]].new = "none"
      BY <2>3, <3>1, <3>2 DEF SeenOK
    <3> QED BY <3>3 DEF WrittenOK
  <2> QED BY <2>1, <2>2, <2>4 DEF WrittenOK, Moves, Admits, Fails, Undoes
<1>8. CASE JournalPrepared
  <2>1. /\ thread'.fam = thread.fam /\ UNCHANGED <<box, copied, written, stored>>
        /\ thread.at = "prepared" /\ thread.backups \in Seq(Entries)
    BY <1>8, <1>a, JournalActions DEF Journaled, SameWork, Locals
  <2>2. Fam' = Fam /\ Steps' = Steps
    BY <2>1, SameFamily
  <2>3. \A i \in Backups : i \in Backups' /\ thread'.backups[i] = thread.backups[i]
    BY <1>8, <2>1, JournalActions DEF Journaled, Backups
  <2> QED BY <2>1, <2>2, <2>3 DEF WrittenOK, Moves
<1>9. CASE DropPolicy
  <2> DEFINE b == [box[Svc] EXCEPT !.policy = FALSE]
  <2>1. /\ b.policy = FALSE /\ b.name = box[Svc].name /\ b.up = box[Svc].up
        /\ b.net = box[Svc].net /\ b.new = box[Svc].new
    BY <1>9, <1>b, CallActions DEF Boxes, Moves
  <2>2. /\ thread.at = "policy" /\ Fam' = Fam /\ Steps' = Steps /\ Backups' = Backups
        /\ thread'.backups = thread.backups /\ thread'.at \in {"stop", "copy", "except"}
        /\ Svc \in Services /\ copied' = copied /\ thread'.svc = thread.svc
        /\ thread'.committed = thread.committed
    BY <1>9, <1>b, CallActions, SameFamily DEF Called, SameWork, Moves
  <2>3. /\ \A s \in Services \ {Svc} : box'[s] = box[s]
        /\ box'[Svc] = b \/ box'[Svc] = box[Svc]
    BY <1>9, CallActions DEF Called
  <2>4. written' = written
    BY <1>9, CallActions
  <2> HIDE DEF b
  <2>6. \A s \in written' : box'[s].new = "up" /\ ~box'[s].up /\ s \in copied'
    BY <1>a, <2>1, <2>2, <2>3, <2>4 DEF WrittenOK
  <2> QED BY <2>2, <2>4, <2>6 DEF WrittenOK, Moves, Fails
<1>10. CASE Stop
  <2> DEFINE b == [box[Svc] EXCEPT !.up = FALSE]
  <2>1. /\ b.up = FALSE /\ b.name = box[Svc].name /\ b.policy = box[Svc].policy
        /\ b.net = box[Svc].net /\ b.new = box[Svc].new
    BY <1>10, <1>b, CallActions DEF Boxes, Moves
  <2>2. /\ thread.at = "stop" /\ Fam' = Fam /\ Steps' = Steps /\ Backups' = Backups
        /\ thread'.backups = thread.backups /\ thread'.at \in {"copy", "except"}
        /\ Svc \in Services /\ copied' = copied /\ thread'.svc = thread.svc
        /\ thread'.committed = thread.committed
    BY <1>10, <1>b, CallActions, SameFamily DEF Called, SameWork, Moves
  <2>3. /\ \A s \in Services \ {Svc} : box'[s] = box[s]
        /\ box'[Svc] = b \/ box'[Svc] = box[Svc]
    BY <1>10, CallActions DEF Called
  <2>4. written' = written
    BY <1>10, CallActions
  <2> HIDE DEF b
  <2>6. \A s \in written' : box'[s].new = "up" /\ ~box'[s].up /\ s \in copied'
    BY <1>a, <2>1, <2>2, <2>3, <2>4 DEF WrittenOK
  <2> QED BY <2>2, <2>4, <2>6 DEF WrittenOK, Moves, Fails
<1>11. CASE SnapshotDatabase
  <2>1. /\ thread'.fam = thread.fam /\ stored' = stored /\ thread'.svc = thread.svc
        /\ thread'.backups = thread.backups
        /\ UNCHANGED <<box, written>> /\ thread.at \in {"copy"} /\ copied \subseteq copied'
        /\ thread'.committed = thread.committed
    BY <1>11, OtherActions DEF SnapshotDatabase, In, SameWork, request, files, engine
  <2>2. thread'.at \in {"rename", "except"}
    BY <1>11, <1>a, <2>1, OtherActions DEF SnapshotDatabase, In, GoOn, Raise, Locals
  <2>3. Fam' = Fam /\ Steps' = Steps /\ Backups' = Backups
    BY <2>1, SameFamily
  <2> QED BY <2>1, <2>2, <2>3 DEF WrittenOK, Moves, Admits, Fails, Undoes
<1>12. CASE Rename
  <2> DEFINE b == [box[Svc] EXCEPT !.name = "aside"]
  <2>1. /\ b.name = "aside" /\ b.up = box[Svc].up /\ b.policy = box[Svc].policy
        /\ b.net = box[Svc].net /\ b.new = box[Svc].new
    BY <1>12, <1>b, CallActions DEF Boxes, Moves
  <2>2. /\ thread.at = "rename" /\ Fam' = Fam /\ Steps' = Steps /\ Backups' = Backups
        /\ thread'.backups = thread.backups /\ thread'.at \in {"renamed", "except"}
        /\ Svc \in Services /\ copied' = copied /\ thread'.svc = thread.svc
        /\ thread'.committed = thread.committed
    BY <1>12, <1>b, CallActions, SameFamily DEF Called, SameWork, Moves
  <2>3. /\ \A s \in Services \ {Svc} : box'[s] = box[s]
        /\ box'[Svc] = b \/ box'[Svc] = box[Svc]
    BY <1>12, CallActions DEF Called
  <2>4. written' = written
    BY <1>12, CallActions
  <2> HIDE DEF b
  <2>6. \A s \in written' : box'[s].new = "up" /\ ~box'[s].up /\ s \in copied'
    BY <1>a, <2>1, <2>2, <2>3, <2>4 DEF WrittenOK
  <2> QED BY <2>2, <2>4, <2>6 DEF WrittenOK, Moves, Fails
<1>13. CASE JournalRenamed
  <2> DEFINE e == [Entry EXCEPT !.phase = "renamed"]
  <2>1. /\ thread'.fam = thread.fam /\ UNCHANGED <<box, copied, written, stored>>
        /\ thread'.backups = Mark(e) /\ thread.at = "renamed"
    BY <1>13, JournalActions DEF Journaled, SameWork
  <2>2. Fam' = Fam /\ Steps' = Steps
    BY <2>1, SameFamily
  <2>3. thread.at \in Moves \ {"prepared"} /\ Entry \in Entries
    BY <2>1, AtWork DEF Moves
  <2>4. e \in Entries /\ (Entry.newStarted => e.newStarted)
    BY <2>3, EntryEdit DEF Entries
  <2> HIDE DEF e
  <2>5. /\ DOMAIN Mark(e) = Backups /\ Mark(e)[thread.svc] = e
        /\ \A i \in Backups : i # thread.svc => Mark(e)[i] = thread.backups[i]
    BY <2>3, <2>4, Marked
  <2>6. /\ Backups' = Backups
        /\ \A i \in Backups : thread.backups[i].newStarted => thread'.backups[i].newStarted
    BY <1>b, <2>1, <2>3, <2>4, <2>5 DEF Backups
  <2> QED BY <2>1, <2>2, <2>3, <2>6 DEF WrittenOK
<1>14. CASE Disconnect
  <2> DEFINE b == [box[Svc] EXCEPT !.net = FALSE]
  <2>1. /\ b.net = FALSE /\ b.name = box[Svc].name /\ b.up = box[Svc].up
        /\ b.policy = box[Svc].policy /\ b.new = box[Svc].new
    BY <1>14, <1>b, CallActions DEF Boxes, Moves
  <2>2. /\ thread.at = "disconnect" /\ Fam' = Fam /\ Steps' = Steps /\ Backups' = Backups
        /\ thread'.backups = thread.backups /\ thread'.at \in {"create", "except"}
        /\ Svc \in Services /\ copied' = copied /\ thread'.svc = thread.svc
        /\ thread'.committed = thread.committed
    BY <1>14, <1>b, CallActions, SameFamily DEF Called, SameWork, Moves
  <2>3. /\ \A s \in Services \ {Svc} : box'[s] = box[s]
        /\ box'[Svc] = b \/ box'[Svc] = box[Svc]
    BY <1>14, CallActions DEF Called
  <2>4. written' = written
    BY <1>14, CallActions
  <2> HIDE DEF b
  <2>6. \A s \in written' : box'[s].new = "up" /\ ~box'[s].up /\ s \in copied'
    BY <1>a, <2>1, <2>2, <2>3, <2>4 DEF WrittenOK
  <2> QED BY <2>2, <2>4, <2>6 DEF WrittenOK, Moves, Fails
<1>15. CASE Create
  <2> DEFINE b == [box[Svc] EXCEPT !.new = "created"]
  <2>1. /\ b.new = "created" /\ b.name = box[Svc].name /\ b.up = box[Svc].up
        /\ b.policy = box[Svc].policy /\ b.net = box[Svc].net
    BY <1>15, <1>b, CallActions DEF Boxes, Moves
  <2>2. /\ thread.at = "create" /\ Fam' = Fam /\ Steps' = Steps /\ Backups' = Backups
        /\ thread'.backups = thread.backups /\ thread'.at \in {"created", "except"}
        /\ Svc \in Services /\ copied' = copied /\ thread'.svc = thread.svc
        /\ thread'.committed = thread.committed
    BY <1>15, <1>b, CallActions, SameFamily DEF Called, SameWork, Moves
  <2>3. /\ \A s \in Services \ {Svc} : box'[s] = box[s]
        /\ box'[Svc] = b \/ box'[Svc] = box[Svc]
    BY <1>15, CallActions DEF Called
  <2>4. written' = written
    BY <1>15, CallActions
  <2>5. Svc \notin written
    BY <1>b, <2>2 DEF WrittenOK, EntryOK, Moves, Opening
  <2> HIDE DEF b
  <2>6. \A s \in written' : box'[s].new = "up" /\ ~box'[s].up /\ s \in copied'
    BY <1>a, <2>2, <2>3, <2>4, <2>5 DEF WrittenOK
  <2> QED BY <2>2, <2>4, <2>6 DEF WrittenOK, Moves, Fails
<1>16. CASE JournalCreated
  <2> DEFINE e == [Entry EXCEPT !.newId = TRUE]
  <2>1. /\ thread'.fam = thread.fam /\ UNCHANGED <<box, copied, written, stored>>
        /\ thread'.backups = Mark(e) /\ thread.at = "created"
    BY <1>16, JournalActions DEF Journaled, SameWork
  <2>2. Fam' = Fam /\ Steps' = Steps
    BY <2>1, SameFamily
  <2>3. thread.at \in Moves \ {"prepared"} /\ Entry \in Entries
    BY <2>1, AtWork DEF Moves
  <2>4. e \in Entries /\ (Entry.newStarted => e.newStarted)
    BY Zenon, <2>3, EntryEdit DEF Entries
  <2> HIDE DEF e
  <2>5. /\ DOMAIN Mark(e) = Backups /\ Mark(e)[thread.svc] = e
        /\ \A i \in Backups : i # thread.svc => Mark(e)[i] = thread.backups[i]
    BY <2>3, <2>4, Marked
  <2>6. /\ Backups' = Backups
        /\ \A i \in Backups : thread.backups[i].newStarted => thread'.backups[i].newStarted
    BY <1>b, <2>1, <2>3, <2>4, <2>5 DEF Backups
  <2> QED BY <2>1, <2>2, <2>3, <2>6 DEF WrittenOK
<1>17. CASE JournalStarted
  <2> DEFINE e == [Entry EXCEPT !.newStarted = TRUE]
  <2>1. /\ thread'.fam = thread.fam /\ UNCHANGED <<box, copied, written, stored>>
        /\ thread'.backups = Mark(e) /\ thread.at = "started"
    BY <1>17, JournalActions DEF Journaled, SameWork
  <2>2. Fam' = Fam /\ Steps' = Steps
    BY <2>1, SameFamily
  <2>3. thread.at \in Moves \ {"prepared"} /\ Entry \in Entries
    BY <2>1, AtWork DEF Moves
  <2>4. e \in Entries /\ (Entry.newStarted => e.newStarted)
    BY Zenon, <2>3, EntryEdit DEF Entries
  <2> HIDE DEF e
  <2>5. /\ DOMAIN Mark(e) = Backups /\ Mark(e)[thread.svc] = e
        /\ \A i \in Backups : i # thread.svc => Mark(e)[i] = thread.backups[i]
    BY <2>3, <2>4, Marked
  <2>6. /\ Backups' = Backups
        /\ \A i \in Backups : thread.backups[i].newStarted => thread'.backups[i].newStarted
    BY <1>b, <2>1, <2>3, <2>4, <2>5 DEF Backups
  <2> QED BY <2>1, <2>2, <2>3, <2>6 DEF WrittenOK
<1>18. CASE Start
  <2> DEFINE b == [box[Svc] EXCEPT !.new = "up"]
  <2>1. /\ b.new = "up" /\ b.name = box[Svc].name /\ b.up = box[Svc].up
        /\ b.policy = box[Svc].policy /\ b.net = box[Svc].net
    BY <1>18, <1>b, CallActions DEF Boxes, Moves
  <2>2. /\ thread.at = "start" /\ Fam' = Fam /\ Steps' = Steps /\ Backups' = Backups
        /\ thread'.backups = thread.backups /\ thread'.at \in {"verify", "except"}
        /\ Svc \in Services /\ copied' = copied /\ thread'.svc = thread.svc
        /\ thread'.committed = thread.committed
    BY <1>18, <1>b, CallActions, SameFamily DEF Called, SameWork, Moves
  <2>3. /\ \A s \in Services \ {Svc} : box'[s] = box[s]
        /\ box'[Svc] = b \/ box'[Svc] = box[Svc]
    BY <1>18, CallActions DEF Called
  <2>4. written' \subseteq written \cup {Svc}
        /\ (Svc \in written' \ written => box'[Svc] = b /\ Fam \in Sensitive)
    BY <1>18, CallActions DEF Called
  <2>5. /\ ~box[Svc].up /\ (Fam \in Sensitive => Svc \in copied)
        /\ thread.backups[thread.svc].newStarted /\ thread.svc \in Backups
    BY <1>b, <2>2 DEF OldOK, EntryOK, Moves, Opening
  <2> HIDE DEF b
  <2>6. \A s \in written' : box'[s].new = "up" /\ ~box'[s].up /\ s \in copied'
    BY <1>a, <2>1, <2>2, <2>3, <2>4, <2>5 DEF WrittenOK
  <2>7. \A i, k \in DOMAIN Steps : Steps[i] = Steps[k] => i = k
    BY <2>2, Working DEF Idles
  <2>8. \A i \in DOMAIN Steps :
           Steps[i] \in written' => i \in Backups /\ Fam \in Sensitive /\ thread.backups[i].newStarted
    BY <1>b, <2>2, <2>4, <2>5, <2>7 DEF WrittenOK, Moves
  <2> QED BY <2>2, <2>6, <2>8 DEF WrittenOK
<1>19. CASE Verify
  <2>1. /\ thread'.fam = thread.fam /\ thread'.backups = thread.backups /\ thread.at = "verify"
        /\ UNCHANGED <<box, written, copied, stored>> /\ thread'.at \in {"prepared", "admit", "except"}
    BY <1>19, VerifyFacts DEF Verify, request, engine, files
  <2>2. Fam' = Fam /\ Steps' = Steps /\ Backups' = Backups
    BY <2>1, SameFamily
  <2> QED BY <2>1, <2>2 DEF WrittenOK, Moves
<1>20. CASE Admit
  <2>1. /\ thread'.fam = thread.fam /\ thread'.backups = thread.backups /\ thread.at \in Admits
        /\ UNCHANGED <<box, written, copied, stored>>
        /\ thread'.at \in Admits \cup {"except"} \/ (thread'.at = "record" /\ thread'.committed)
    BY <1>20, AdmitFacts DEF Admit, request, engine, files, Admits
  <2>2. Fam' = Fam /\ Steps' = Steps /\ Backups' = Backups
    BY <2>1, SameFamily
  <2> QED BY <2>1, <2>2 DEF WrittenOK, Moves, Admits, Fails, Undoes
<1>21. CASE WriteSignature
  <2>1. /\ thread'.fam = thread.fam /\ stored' = stored /\ thread'.svc = thread.svc
        /\ thread'.backups = thread.backups
        /\ UNCHANGED <<box, written>> /\ thread.at \in {"sign"} /\ copied \subseteq copied'
        /\ thread'.committed = thread.committed
    BY <1>21, OtherActions DEF WriteSignature, In, SameWork, request, files, engine
  <2>2. thread'.at \in {"profile", "unprofile"}
    BY <1>21, <1>a, <2>1, OtherActions DEF WriteSignature, In, GoOn, Raise, Locals
  <2>3. Fam' = Fam /\ Steps' = Steps /\ Backups' = Backups
    BY <2>1, SameFamily
  <2> QED BY <2>1, <2>2, <2>3 DEF WrittenOK, Moves, Admits, Fails, Undoes
<1>22. CASE WriteProfile
  <2>1. /\ thread'.fam = thread.fam /\ thread'.backups = thread.backups /\ thread.at \in Admits
        /\ UNCHANGED <<box, written, copied, stored>>
        /\ thread'.at \in Admits \cup {"except"} \/ (thread'.at = "record" /\ thread'.committed)
    BY <1>22, WriteProfileFacts DEF WriteProfile, request, engine, files, Admits
  <2>2. Fam' = Fam /\ Steps' = Steps /\ Backups' = Backups
    BY <2>1, SameFamily
  <2> QED BY <2>1, <2>2 DEF WrittenOK, Moves, Admits, Fails, Undoes
<1>23. CASE RestoreProfile
  <2>1. /\ thread'.fam = thread.fam /\ stored' = stored /\ thread'.svc = thread.svc
        /\ thread'.backups = thread.backups
        /\ UNCHANGED <<box, written>> /\ thread.at \in {"unprofile"} /\ copied \subseteq copied'
        /\ thread'.committed = thread.committed
    BY <1>23, OtherActions DEF RestoreProfile, In, SameWork, request, files, engine
  <2>2. thread'.at \in {"unsign", "except"}
    BY <1>23, <1>a, <2>1, OtherActions DEF RestoreProfile, In, GoOn, Raise, Locals
  <2>3. Fam' = Fam /\ Steps' = Steps /\ Backups' = Backups
    BY <2>1, SameFamily
  <2> QED BY <2>1, <2>2, <2>3 DEF WrittenOK, Moves, Admits, Fails, Undoes
<1>24. CASE RestoreSignature
  <2>1. /\ thread'.fam = thread.fam /\ stored' = stored /\ thread'.svc = thread.svc
        /\ thread'.backups = thread.backups
        /\ UNCHANGED <<box, written>> /\ thread.at \in {"unsign"} /\ copied \subseteq copied'
        /\ thread'.committed = thread.committed
    BY <1>24, OtherActions DEF RestoreSignature, In, SameWork, request, files, engine
  <2>2. thread'.at \in {"except"}
    BY <1>24, <1>a, <2>1, OtherActions DEF RestoreSignature, In, GoOn, Raise, Locals
  <2>3. Fam' = Fam /\ Steps' = Steps /\ Backups' = Backups
    BY <2>1, SameFamily
  <2> QED BY <2>1, <2>2, <2>3 DEF WrittenOK, Moves, Admits, Fails, Undoes
<1>25. CASE Record
  <2>1. /\ UNCHANGED <<box, written, copied>> /\ thread.committed /\ thread'.committed
        /\ thread'.at \in {"family", "finish", "except"}
    BY <1>25, RecordFacts DEF Record, engine, files, ThreadOK
  <2> QED BY <2>1 DEF WrittenOK, Moves, Admits, Fails, Undoes
<1>26. CASE Finish
  <2>1. UNCHANGED <<box, written, copied>>
    BY <1>26 DEF Finish, engine, files
  <2>2. thread'.at = "idle" \/ (thread'.at = "except" /\ thread'.committed)
    BY <1>26, EndFacts, GoesOn DEF Finish, Raise, SameWork, Fails, ThreadOK, In
  <2> QED BY <2>1, <2>2 DEF WrittenOK, Moves, Admits, Fails, Undoes
<1>27. CASE LogError
  <2>1. /\ UNCHANGED <<box, written, copied, stored>> /\ thread.at = "except"
    BY <1>27, LogErrorFacts DEF LogError, engine, files, request
  <2>2. CASE thread' = NoThread
    <3>1. thread'.at = "idle"
      BY <2>2, EndFacts
    <3> QED BY <2>1, <3>1 DEF WrittenOK, Moves, Admits, Fails, Undoes
  <2>3. CASE thread' # NoThread
    <3>1. /\ thread'.fam = thread.fam /\ thread'.backups = thread.backups
          /\ thread'.committed = thread.committed /\ thread'.at \in {"report", "undo"}
      BY <1>27, <2>3, LogErrorFacts
    <3>2. Fam' = Fam /\ Steps' = Steps /\ Backups' = Backups
      BY <2>1, <3>1, SameFamily
    <3> QED BY <2>1, <3>1, <3>2 DEF WrittenOK, Moves, Admits, Fails, Undoes
  <2> QED BY <2>2, <2>3
<1>28. CASE UndoBackup
  <2>1. /\ thread'.fam = thread.fam /\ stored' = stored /\ thread'.svc = thread.svc
        /\ thread'.backups = thread.backups
        /\ thread.at = "undo" /\ thread'.committed = thread.committed
        /\ UNCHANGED <<box, written, copied>> /\ thread'.at \in {"undo", "delete", "report"}
    BY Zenon, <1>28, UndoBackupFacts DEF UndoBackup, SameUndo, request, engine, files
  <2>2. Fam' = Fam /\ Steps' = Steps /\ Backups' = Backups
    BY <2>1, SameFamily
  <2>3. ~thread.committed
    BY <2>1 DEF ThreadOK
  <2> QED BY <2>1, <2>2, <2>3 DEF WrittenOK, Fails, Moves, Admits
<1>29. CASE DeleteNew
  <2>1. /\ thread'.fam = thread.fam /\ stored' = stored /\ thread'.svc = thread.svc
        /\ thread'.backups = thread.backups
        /\ UNCHANGED <<written, copied>> /\ thread.at \in Undoes /\ thread'.committed = thread.committed
    BY <1>29, UndoActions DEF UndoneTo, SameUndo, Undoes
  <2>2. Fam' = Fam /\ Steps' = Steps /\ Backups' = Backups
    BY <2>1, SameFamily
  <2>3. \A s \in Services \ {Undone.svc} : box'[s] = box[s]
    BY <1>29, UndoActions DEF UndoneTo
  <2>4. \A s \in written' : box'[s].new = "up" /\ ~box'[s].up /\ s \in copied'
    BY <1>a, <1>c, <2>1, <2>3 DEF WrittenOK
  <2>5. thread.backups # <<>> /\ ~thread.committed
    BY <1>a, <2>1 DEF ThreadOK, Locals
  <2> QED BY <2>1, <2>2, <2>4, <2>5 DEF WrittenOK, Fails
<1>30. CASE RenameBack
  <2>1. /\ thread'.fam = thread.fam /\ stored' = stored /\ thread'.svc = thread.svc
        /\ thread'.backups = thread.backups
        /\ UNCHANGED <<written, copied>> /\ thread.at \in Undoes /\ thread'.committed = thread.committed
    BY <1>30, UndoActions DEF UndoneTo, SameUndo, Undoes
  <2>2. Fam' = Fam /\ Steps' = Steps /\ Backups' = Backups
    BY <2>1, SameFamily
  <2>3. \A s \in Services \ {Undone.svc} : box'[s] = box[s]
    BY <1>30, UndoActions DEF UndoneTo
  <2>4. \A s \in written' : box'[s].new = "up" /\ ~box'[s].up /\ s \in copied'
    BY <1>a, <1>c, <2>1, <2>3 DEF WrittenOK
  <2>5. thread.backups # <<>> /\ ~thread.committed
    BY <1>a, <2>1 DEF ThreadOK, Locals
  <2> QED BY <2>1, <2>2, <2>4, <2>5 DEF WrittenOK, Fails
<1>31. CASE Reconnect
  <2>1. /\ thread'.fam = thread.fam /\ stored' = stored /\ thread'.svc = thread.svc
        /\ thread'.backups = thread.backups
        /\ UNCHANGED <<written, copied>> /\ thread.at \in Undoes /\ thread'.committed = thread.committed
    BY <1>31, UndoActions DEF UndoneTo, SameUndo, Undoes
  <2>2. Fam' = Fam /\ Steps' = Steps /\ Backups' = Backups
    BY <2>1, SameFamily
  <2>3. \A s \in Services \ {Undone.svc} : box'[s] = box[s]
    BY <1>31, UndoActions DEF UndoneTo
  <2>4. \A s \in written' : box'[s].new = "up" /\ ~box'[s].up /\ s \in copied'
    BY <1>a, <1>c, <2>1, <2>3 DEF WrittenOK
  <2>5. thread.backups # <<>> /\ ~thread.committed
    BY <1>a, <2>1 DEF ThreadOK, Locals
  <2> QED BY <2>1, <2>2, <2>4, <2>5 DEF WrittenOK, Fails
<1>32. CASE RestorePolicy
  <2>1. /\ thread'.fam = thread.fam /\ stored' = stored /\ thread'.svc = thread.svc
        /\ thread'.backups = thread.backups
        /\ UNCHANGED <<written, copied>> /\ thread.at \in Undoes /\ thread'.committed = thread.committed
    BY <1>32, UndoActions DEF UndoneTo, SameUndo, Undoes
  <2>2. Fam' = Fam /\ Steps' = Steps /\ Backups' = Backups
    BY <2>1, SameFamily
  <2>3. \A s \in Services \ {Undone.svc} : box'[s] = box[s]
    BY <1>32, UndoActions DEF UndoneTo
  <2>4. \A s \in written' : box'[s].new = "up" /\ ~box'[s].up /\ s \in copied'
    BY <1>a, <1>c, <2>1, <2>3 DEF WrittenOK
  <2>5. thread.backups # <<>> /\ ~thread.committed
    BY <1>a, <2>1 DEF ThreadOK, Locals
  <2> QED BY <2>1, <2>2, <2>4, <2>5 DEF WrittenOK, Fails
<1>33. CASE StartOld
  <2>1. /\ thread'.fam = thread.fam /\ stored' = stored /\ thread'.svc = thread.svc
        /\ thread'.backups = thread.backups
        /\ UNCHANGED <<written, copied>> /\ thread.at \in Undoes /\ thread'.committed = thread.committed
    BY <1>33, UndoActions DEF UndoneTo, SameUndo, Undoes
  <2>2. Fam' = Fam /\ Steps' = Steps /\ Backups' = Backups
    BY <2>1, SameFamily
  <2>3. \A s \in Services \ {Undone.svc} : box'[s] = box[s]
    BY <1>33, UndoActions DEF UndoneTo
  <2>4. \A s \in written' : box'[s].new = "up" /\ ~box'[s].up /\ s \in copied'
    BY <1>a, <1>c, <2>1, <2>3 DEF WrittenOK
  <2>5. thread.backups # <<>> /\ ~thread.committed
    BY <1>a, <2>1 DEF ThreadOK, Locals
  <2> QED BY <2>1, <2>2, <2>4, <2>5 DEF WrittenOK, Fails
<1>34. CASE Report
  <2>1. UNCHANGED <<box, written, copied>> /\ thread'.at = "idle"
    BY <1>34, EndFacts DEF Report, engine, files
  <2> QED BY <2>1 DEF WrittenOK, Moves, Admits, Fails, Undoes
<1>35. CASE Crash
  <2>1. UNCHANGED <<box, written, copied>> /\ thread'.at = "down"
    BY <1>35, EndFacts DEF Crash, engine, files
  <2> QED BY <2>1 DEF WrittenOK, Moves, Admits, Fails, Undoes
<1>36. CASE Restart
  <2>1. UNCHANGED <<box, written, copied>> /\ thread'.at = "idle"
    BY <1>36, EndFacts DEF Restart, engine, files
  <2> QED BY <2>1 DEF WrittenOK, Moves, Admits, Fails, Undoes
<1>37. ASSUME NEW s \in Services, Redeploy(s) PROVE WrittenOK'
  <2>1. UNCHANGED <<box, thread, stored, copied, written>>
    BY <1>37 DEF Redeploy
  <2>2. Fam' = Fam /\ Steps' = Steps /\ Backups' = Backups
    BY <2>1, SameFamily
  <2> QED BY <2>1, <2>2 DEF WrittenOK
<1> QED BY <1>1, <1>2, <1>3, <1>4, <1>5, <1>6, <1>7, <1>8, <1>9, <1>10, <1>11, <1>12, <1>13,
    <1>14, <1>15, <1>16, <1>17, <1>18, <1>19, <1>20, <1>21, <1>22, <1>23, <1>24, <1>25, <1>26,
    <1>27, <1>28, <1>29, <1>30, <1>31, <1>32, <1>33, <1>34, <1>35, <1>36, <1>37 DEF UpdatesNext

----------------------------------------------------------------------------
(* Safety                                                                     *)

\* Every step keeps BusyOK.
LEMMA BusyStep ==
    ASSUME UpdatesTyped, ThreadOK, BackupsOK, BusyOK, UpdatesNext
    PROVE  BusyOK'
<1>1. job \in Records /\ job' \in Records
  BY TypedStep DEF UpdatesTyped
<1>2. CASE Submit
  BY <1>2 DEF Submit, BusyOK
<1>3. CASE TakeLock
  <2>1. Busy /\ (job' = job \/ job' = [job EXCEPT !.status = "running"])
    BY <1>3 DEF TakeLock, In, ThreadOK, Idles
  <2> QED BY <1>1, <2>1 DEF BusyOK, Busy, Records
<1>4. CASE JournalPrepared \/ JournalRenamed \/ JournalCreated \/ JournalStarted
  <2>1. job'.status = job.status /\ job'.recovery = job.recovery
    BY <1>4, JournalActions DEF Journaled
  <2> QED BY <2>1 DEF BusyOK, Busy
<1>5. CASE Finish \/ Report \/ Restart
  <2>1. \/ job' = job
        \/ \E x \in {"succeeded", "rolled-back", "failed", "interrupted"} : \E r :
              job' = [job EXCEPT !.status = x, !.recovery = r]
        \/ job' = [job EXCEPT !.status = "succeeded"]
    BY Zenon, <1>5 DEF Finish, Report, Restart, Outcome
  <2>2. job' = job \/ ~Busy'
    BY Zenon, <1>1, <2>1 DEF Busy, Records
  <2> QED BY <2>2 DEF BusyOK, Busy
<1>6. CASE ~(Submit \/ TakeLock \/ JournalPrepared \/ JournalRenamed \/ JournalCreated
             \/ JournalStarted \/ Finish \/ Report \/ Restart)
  <2>1. job' = job
    BY Zenon, <1>6 DEF UpdatesNext, Plan, Expire, Bind, Images, BeginFamily, DropPolicy, Stop,
        SnapshotDatabase, Rename, Disconnect, Create, Start, Verify, Admit, WriteSignature,
        WriteProfile, RestoreProfile, RestoreSignature, Record, LogError, UndoBackup, DeleteNew,
        RenameBack, Reconnect, RestorePolicy, StartOld, Crash, Redeploy, Call, UndoIf, UndoCall,
        request
  <2> QED BY <2>1 DEF BusyOK, Busy
<1> QED BY <1>2, <1>3, <1>4, <1>5, <1>6

\* The service starts in UpdatesSafe.
LEMMA SafeInit ==
    ASSUME UpdatesInit
    PROVE  UpdatesSafe
<1>1. /\ thread = NoThread /\ stored = NoPlan /\ written = {} /\ NoThread.at = "idle"
      /\ NoThread.undo = 0 /\ NoThread.backups = <<>>
      /\ box = [s \in Services |-> Original(s)] /\ job.status = "none"
  BY DEF UpdatesInit, NoThread
<1>2. UpdatesTyped
  <2>1. box \in [Services -> Boxes] /\ ident \in [Services -> Nat]
    BY DEF UpdatesInit, Original, Boxes
  <2>2. job \in Records /\ thread \in Locals /\ profile \in Profiles /\ signature \in Nat
    BY NoThreadTyped DEF UpdatesInit, Records
  <2> QED BY <1>1, <2>1, <2>2 DEF UpdatesInit, UpdatesTyped
<1>3. ThreadOK
  BY <1>1 DEF ThreadOK, Idles, Waits, Moves, Admits, Undoes
<1>4. BackupsOK /\ EntryOK
  <2>1. Backups = {}
    BY <1>1 DEF Backups
  <2> QED BY <1>1, <2>1 DEF BackupsOK, EntryOK, Moves, Admits, Fails, Undoes
<1>5. OldOK
  <2>1. \A s \in Services : box[s].up => s \in WasUp
    BY Zenon, <1>1 DEF Original
  <2> QED BY <1>1, <2>1 DEF OldOK, Moves
<1>6. WrittenOK /\ SeenOK /\ BusyOK
  BY <1>1 DEF WrittenOK, SeenOK, BusyOK, Busy, Moves, Admits, Fails, Undoes
<1> QED BY <1>2, <1>3, <1>4, <1>5, <1>6 DEF UpdatesSafe

\* Every step keeps UpdatesSafe.
LEMMA SafeStep ==
    ASSUME UpdatesSafe, [UpdatesNext]_updateVars
    PROVE  UpdatesSafe'
<1>1. CASE UpdatesNext
  BY <1>1, TypedStep, ThreadStep, BackupsStep, OldStep, WrittenStep, SeenStep, BusyStep
  DEF UpdatesSafe
<1>2. CASE UNCHANGED updateVars
  BY SMTT(60), <1>2 DEF updateVars, UpdatesSafe, UpdatesTyped, ThreadOK, BackupsOK, EntryOK, OldOK, WrittenOK,
      SeenOK, BusyOK, Idles, Busy, Steps, Backups, Fam, Svc, Undone, Enrolled
<1> QED BY <1>1, <1>2

\* The conjuncts about types, the thread, the journal and the written data are
\* one inductive invariant of apply_job, initialize and the environment.
THEOREM SafeInvariant == UpdatesSpec => []UpdatesSafe
BY SafeInit, SafeStep, PTL DEF UpdatesSpec

\* apply_job: the local variables and the operation record keep their types;
\* the index of the undo stays within the list of backups.
THEOREM UpdatesTypeCorrect == UpdatesSpec => []UpdatesTypeOK
<1>1. ASSUME UpdatesSafe PROVE UpdatesTypeOK
  <2>1. /\ UpdatesTyped /\ ThreadOK
    BY <1>1 DEF UpdatesSafe
  <2>2. /\ job \in Records /\ thread \in Locals /\ box \in [Services -> Boxes]
    BY <2>1 DEF UpdatesTyped
  <2>3. \A i \in DOMAIN thread.backups : thread.backups[i].svc \in Services
    <3>1. thread.backups \in Seq(Entries)
      BY <2>2 DEF Locals
    <3>2. \A e \in Entries : e.svc \in Services
      BY DEF Entries
    <3> QED BY <3>1, <3>2
  <2> QED BY <2>1, <2>2, <2>3 DEF UpdatesTypeOK, UpdatesTyped, ThreadOK, Boxes, Records
<1> QED BY <1>1, SafeInvariant, PTL

\* apply_job and recreate: an old container never runs over data that a new
\* version may have written, and those data were copied first, whatever call
\* fails and wherever the process ends.
THEOREM NeverOverNewDataHolds == UpdatesSpec => []NeverOverNewData
<1>1. UpdatesSafe => NeverOverNewData
  BY DEF UpdatesSafe, WrittenOK, NeverOverNewData
<1> QED BY <1>1, SafeInvariant, PTL

-----------------------------------------------------------------------------
(* SettledIsWhole: while no damage is unseen, every step leaves enough, in    *)
(* the journal or in the profile that was kept, to undo what was done or to   *)
(* ask for recovery.                                                          *)

Fresh(s) == s \in Admitted => profile.pins[s] =< ident[s]
Pinned(s) == s \in Admitted => profile.pins[s] = NewOf(s)
Untouched(s) == box[s] = Original(s) /\ Fresh(s)
Replaced(s) == box[s] = Updated(s) /\ Pinned(s)
Whole(f) == \/ \A s \in Range(ServicesOf[f]) : Untouched(s)
            \/ \A s \in Range(ServicesOf[f]) : Replaced(s)
OthersWhole == \A f \in Families \ {Fam} : Whole(f)
AllWhole == signature = profile.gen /\ \A f \in Families : Whole(f)

\* A backup at "prepared" is of a container that still has its name.
Fits(i) == thread.backups[i].phase = "prepared" =>
             box[Steps[i]].name = "own" /\ box[Steps[i]].net /\ box[Steps[i]].new = "none"

\* The container at work, at each step of recreate.
Shape ==
    /\ box[Svc].policy <=> thread.at \in {"prepared", "policy"}
    /\ box[Svc].up <=> Svc \in WasUp /\ thread.at \in {"prepared", "policy", "stop"}
    /\ box[Svc].name = IF thread.at \in {"prepared", "policy", "stop", "copy", "rename"} THEN "own" ELSE "aside"
    /\ box[Svc].net <=> thread.at \in {"prepared", "disconnect"} \cup Opening
    /\ box[Svc].new = IF thread.at \in {"prepared", "disconnect", "create"} \cup Opening THEN "none"
                      ELSE IF thread.at = "verify" THEN Updated(Svc).new ELSE "created"

\* A profile that is being replaced, or put back.
KeptOK ==
    /\ thread.at \in {"sign", "profile", "unsign"} => profile = thread.kept
    /\ thread.at = "unprofile" =>
          \A s \in Admitted : IF s \in Enrolled THEN thread.kept.pins[s] =< ident[s]
                              ELSE profile.pins[s] = thread.kept.pins[s]
    /\ thread.at = "profile" => signature = profile.gen + 1

\* The undo of one service.
UndoneOK ==
    /\ thread.at \in {"delete", "back"} => Fits(thread.undo)
    /\ thread.at \in {"reconnect", "repolicy", "revive"} => Old.name = "own" /\ Old.new = "none"
    /\ thread.at \in {"repolicy", "revive"} => Old.net
    /\ thread.at = "revive" => Old.policy

ForwardOK ==
    thread.at \in Moves \cup Admits =>
        /\ OthersWhole
        /\ thread.at \in Moves => Shape
        /\ \A i \in DOMAIN Steps :
              /\ thread.at # "unprofile" => Fresh(Steps[i])
              /\ thread.at \in Moves /\ i > thread.svc => box[Steps[i]] = Original(Steps[i])
              /\ thread.at \in Admits \/ i < thread.svc => box[Steps[i]] = Updated(Steps[i])

BackwardOK ==
    thread.at \in Fails =>
        IF thread.committed \/ thread.backups = <<>> THEN AllWhole
        ELSE /\ OthersWhole /\ UndoneOK
             /\ thread.at = "report" => thread.undo = 0
             /\ \A i \in DOMAIN Steps :
                   /\ Fresh(Steps[i])
                   /\ i \notin Backups => box[Steps[i]] = Original(Steps[i])
                   /\ i \in Backups =>
                        IF thread.at = "except" \/ i < thread.undo \/ (thread.at = "undo" /\ i = thread.undo)
                        THEN Fits(i)
                        ELSE i = thread.undo \/ thread.stuck \/ box[Steps[i]] = Original(Steps[i])

\* Without a journal nothing has been changed.
JournalOK ==
    ~job.journal /\ ~Idles =>
        /\ thread.at \in Rests \cup {"prepared"} \cup Fails
        /\ AllWhole
        /\ thread.at = "prepared" => thread.backups = <<>>
        /\ thread.at \in Fails /\ ~thread.committed =>
               \A i \in Backups : /\ thread.backups[i].phase = "prepared"
                                   /\ box[Steps[i]] = Original(Steps[i])

WholeOK ==
    /\ Idles => AllWhole \/ job.recovery \/ (Busy /\ job.journal)
    /\ thread.at \in Rests => AllWhole
    /\ thread.at \notin {"idle", "down", "profile", "unprofile", "unsign"} =>
            signature = profile.gen
    /\ KeptOK /\ ForwardOK /\ BackwardOK /\ JournalOK

\* The inductive invariant of SettledIsWhole.
UpdatesInv == UpdatesSafe /\ (unseen = {} => WholeOK)

----------------------------------------------------------------------------
(* Whole families                                                             *)

\* The fields of a container that was not touched.
LEMMA OriginalFields ==
    ASSUME NEW s
    PROVE  /\ Original(s).name = "own" /\ (Original(s).up <=> s \in WasUp) /\ Original(s).policy
           /\ Original(s).net /\ Original(s).new = "none"
           /\ \A b \in Boxes : /\ b.name = "own" /\ (b.up <=> s \in WasUp) /\ b.policy /\ b.net
                              /\ b.new = "none"
                              => b = Original(s)
<1>1. Original(s).up = (s \in WasUp)
  BY DEF Original
<1>2. ASSUME NEW b \in Boxes, b.name = "own", b.up <=> s \in WasUp, b.policy, b.net, b.new = "none"
      PROVE  b = Original(s)
  <2>1. b.up = (s \in WasUp) /\ b.policy = TRUE /\ b.net = TRUE
    BY <1>2 DEF Boxes
  <2> QED BY <1>2, <2>1 DEF Boxes, Original
<1> QED BY Zenon, <1>1, <1>2 DEF Original

\* The fields of a container that was replaced.
LEMMA UpdatedFields ==
    ASSUME NEW s
    PROVE  /\ Updated(s).name = "aside" /\ Updated(s).new # "none"
           /\ \A b \in Boxes : /\ b.name = "aside" /\ ~b.up /\ ~b.policy /\ ~b.net
                              /\ b.new = Updated(s).new
                              => b = Updated(s)
<1>1. ASSUME NEW b \in Boxes, b.name = "aside", ~b.up, ~b.policy, ~b.net, b.new = Updated(s).new
      PROVE  b = Updated(s)
  <2>1. b.up = FALSE /\ b.policy = FALSE /\ b.net = FALSE
    BY <1>1 DEF Boxes
  <2> QED BY <1>1, <2>1 DEF Boxes, Updated
<1> QED BY <1>1 DEF Updated

\* The services of the family at work, and those of the others.
LEMMA FamilyFacts ==
    ASSUME UpdatesTyped, ThreadOK, ~Idles
    PROVE  /\ Fam \in Families /\ Len(Steps) \in Nat \ {0} /\ DOMAIN Steps = 1 .. Len(Steps)
           /\ \A i \in DOMAIN Steps : Steps[i] \in Services
           /\ \A i, k \in DOMAIN Steps : Steps[i] = Steps[k] => i = k
           /\ \A s \in Range(ServicesOf[Fam]) : \E i \in DOMAIN Steps : s = Steps[i]
           /\ \A i \in DOMAIN Steps : Steps[i] \in Range(ServicesOf[Fam])
           /\ \A f \in Families : Range(ServicesOf[f]) \subseteq Services
           /\ \A f \in Families \ {Fam} : \A s \in Range(ServicesOf[f]) : s \notin Range(Steps)
           /\ \E s \in Range(ServicesOf[Fam]) : s \in Services
<1>1. Fam \in Families /\ Steps \in Seq(Services) /\ Steps # <<>> /\ Steps = ServicesOf[Fam]
      /\ \A i, k \in DOMAIN Steps : Steps[i] = Steps[k] => i = k
  BY Working
<1>2. Len(Steps) \in Nat \ {0} /\ DOMAIN Steps = 1 .. Len(Steps)
      /\ \A i \in DOMAIN Steps : Steps[i] \in Services
  BY <1>1
<1>3. /\ \A s \in Range(ServicesOf[Fam]) : \E i \in DOMAIN Steps : s = Steps[i]
      /\ \A i \in DOMAIN Steps : Steps[i] \in Range(ServicesOf[Fam])
  BY <1>1 DEF Range
<1>4. ASSUME NEW f \in Families PROVE Range(ServicesOf[f]) \subseteq Services
  <2>1. ServicesOf[f] \in Seq(Services)
    BY UpdatesAssumption
  <2> QED BY <2>1 DEF Range
<1>5. \A f \in Families \ {Fam} : \A s \in Range(ServicesOf[f]) : s \notin Range(Steps)
  BY Zenon, <1>1, UpdatesAssumption
<1>6. 1 \in DOMAIN Steps
  BY <1>2
<1> QED BY <1>1, <1>2, <1>3, <1>4, <1>5, <1>6

\* A family stays whole when its containers and pins do not change.
LEMMA SameWhole ==
    ASSUME NEW f \in Families, Whole(f),
           \A s \in Range(ServicesOf[f]) : /\ box'[s] = box[s] /\ ident'[s] = ident[s]
                                           /\ s \in Admitted => profile'.pins[s] = profile.pins[s]
    PROVE  Whole(f)'
<1>1. ASSUME NEW s \in Range(ServicesOf[f]) PROVE (Untouched(s) => Untouched(s)') /\ (Replaced(s) => Replaced(s)')
  BY <1>1 DEF Untouched, Replaced, Fresh, Pinned, NewOf
<1> QED BY <1>1 DEF Whole

\* The other families stay whole when only the family at work changes.
LEMMA OthersKept ==
    ASSUME UpdatesTyped, ThreadOK, ~Idles, OthersWhole, Fam' = Fam, ident' = ident,
           \A s \in Services \ Range(Steps) : box'[s] = box[s],
           \A s \in Admitted \ Range(Steps) : profile'.pins[s] = profile.pins[s]
    PROVE  OthersWhole'
<1>1. ASSUME NEW f \in Families \ {Fam} PROVE Whole(f)'
  <2>1. \A s \in Range(ServicesOf[f]) : s \in Services /\ s \notin Range(Steps)
    BY <1>1, FamilyFacts
  <2>2. Whole(f)
    BY <1>1 DEF OthersWhole
  <2> QED BY <1>1, <2>1, <2>2, SameWhole
<1> QED BY <1>1 DEF OthersWhole

\* All families stay whole when containers and profile do not change.
LEMMA AllKept ==
    ASSUME AllWhole, UNCHANGED <<box, ident, profile, signature>>
    PROVE  AllWhole'
<1>1. ASSUME NEW f \in Families PROVE Whole(f)'
  BY <1>1, SameWhole DEF AllWhole
<1> QED BY <1>1 DEF AllWhole

\* When all families are whole, the one at work and the others are.
LEMMA AllOthers ==
    ASSUME AllWhole
    PROVE  OthersWhole /\ (Fam \in Families => Whole(Fam)) /\ signature = profile.gen
BY DEF AllWhole, OthersWhole

\* The next state is whole when the family at work is, and the others are.
LEMMA AllWholeNext ==
    ASSUME OthersWhole', signature' = profile'.gen, Fam' = Fam,
           \/ \A s \in Range(ServicesOf[Fam]) : Untouched(s)'
           \/ \A s \in Range(ServicesOf[Fam]) : Replaced(s)'
    PROVE  AllWhole'
<1>1. ASSUME NEW f \in Families PROVE Whole(f)'
  <2>1. CASE f = Fam
    BY <2>1 DEF Whole
  <2>2. CASE f # Fam
    BY <2>2 DEF OthersWhole
  <2> QED BY <2>1, <2>2
<1> QED BY <1>1 DEF AllWhole

\* Where a step leads, and what is to show there.
LEMMA ToEnd ==
    ASSUME thread'.at \in {"idle", "down"}, AllWhole' \/ job'.recovery \/ (Busy' /\ job'.journal)
    PROVE  WholeOK'
BY DEF WholeOK, KeptOK, ForwardOK, BackwardOK, JournalOK, Idles, Rests, Waits, Moves, Admits, Fails,
    Undoes

\* A step that leads between two families.
LEMMA ToRest ==
    ASSUME thread'.at \in Rests, AllWhole'
    PROVE  WholeOK'
BY DEF WholeOK, KeptOK, ForwardOK, BackwardOK, JournalOK, Idles, Rests, Waits, Moves, Admits, Fails,
    Undoes, AllWhole

\* A step that fails with nothing to undo.
LEMMA ToWholeFail ==
    ASSUME thread'.at \in Fails, AllWhole', thread'.committed \/ thread'.backups = <<>>
    PROVE  WholeOK'
<1>1. thread'.committed \/ Backups' = {}
  BY DEF Backups
<1> QED BY <1>1 DEF WholeOK, KeptOK, ForwardOK, BackwardOK, JournalOK, Idles, Rests, Waits, Moves,
        Admits, Fails, Undoes, AllWhole

\* A step that goes on with the family at work.
LEMMA ToForward ==
    ASSUME thread'.at \in Moves \cup Admits, ForwardOK', KeptOK',
           thread'.at \notin {"profile", "unprofile", "unsign"} => signature' = profile'.gen,
           JournalOK'
    PROVE  WholeOK'
BY DEF WholeOK, BackwardOK, Idles, Rests, Waits, Moves, Admits, Fails, Undoes

\* A step that fails with something to undo, or undoes it.
LEMMA ToBackward ==
    ASSUME thread'.at \in Fails, BackwardOK', signature' = profile'.gen, JournalOK'
    PROVE  WholeOK'
BY DEF WholeOK, KeptOK, ForwardOK, Idles, Rests, Waits, Moves, Admits, Fails, Undoes

----------------------------------------------------------------------------
(* The steps outside a family at work                                         *)

\* An operation that is cut has a journal, or changed nothing.
LEMMA CutWhole ==
    ASSUME UpdatesSafe, WholeOK, UNCHANGED <<box, ident, profile, signature>>,
           thread'.at \in {"idle", "down"}, job' = job
    PROVE  WholeOK'
<1>1. AllWhole \/ job.recovery \/ (Busy /\ job.journal)
  <2>1. CASE Idles
    BY <2>1 DEF WholeOK
  <2>2. CASE ~Idles
    BY <2>2 DEF WholeOK, JournalOK, UpdatesSafe, ThreadOK
  <2> QED BY <2>1, <2>2
<1>2. AllWhole' \/ job'.recovery \/ (Busy' /\ job'.journal)
  BY <1>1, AllKept DEF Busy
<1> QED BY <1>2, ToEnd

\* Plans, requests, ends of the process and starts of the service.
LEMMA IdleWhole ==
    ASSUME UpdatesSafe, WholeOK, Plan \/ Expire \/ Submit \/ Crash \/ Restart
    PROVE  WholeOK'
<1>1. CASE Plan \/ Expire
  <2>1. UNCHANGED <<box, ident, profile, signature, job>> /\ thread'.at = "idle"
    BY <1>1 DEF Plan, Expire, engine, files
  <2> QED BY <2>1, CutWhole
<1>2. CASE Submit
  <2>1. UNCHANGED <<box, ident, profile, signature>> /\ thread'.at = "lock" /\ thread.at = "idle"
    BY <1>2, EndFacts DEF Submit, engine, files, UpdatesSafe
  <2>2. AllWhole
    BY <1>2, <2>1 DEF Submit, Refused, WholeOK, Idles, Busy
  <2> QED BY <2>1, <2>2, AllKept, ToRest DEF Rests, Waits
<1>3. CASE Crash
  <2>1. UNCHANGED <<box, ident, profile, signature, job>> /\ thread'.at = "down"
    BY <1>3, EndFacts DEF Crash, engine, files, request, UpdatesSafe
  <2> QED BY <2>1, CutWhole
<1>4. CASE Restart
  <2>1. UNCHANGED <<box, ident, profile, signature>> /\ thread'.at = "idle" /\ thread.at = "down"
    BY <1>4, EndFacts DEF Restart, In, engine, files, UpdatesSafe
  <2>2. AllWhole \/ job.recovery \/ (Busy /\ job.journal)
    BY <2>1 DEF WholeOK, Idles
  <2>3. (Busy /\ job.journal => job'.recovery) /\ (~Busy => job' = job)
    <3>1. job \in Records
      BY DEF UpdatesSafe, UpdatesTyped
    <3> QED BY <1>4, <3>1 DEF Restart, Busy, Records
  <2>4. AllWhole' \/ job'.recovery
    BY <2>1, <2>2, <2>3, AllKept DEF UpdatesSafe, BusyOK
  <2> QED BY <2>1, <2>4, ToEnd
<1> QED BY <1>1, <1>2, <1>3, <1>4

\* The steps between two families.
LEMMA RestWhole ==
    ASSUME UpdatesSafe, WholeOK, TakeLock \/ Bind \/ Images \/ Record \/ Finish
    PROVE  WholeOK'
<1>1. /\ UpdatesTyped /\ ThreadOK
  BY DEF UpdatesSafe
<1>2. /\ thread.at \in Rests /\ UNCHANGED <<box, ident, profile, signature>>
      /\ thread'.at \in Rests \cup {"idle", "except"}
      /\ thread'.at = "except" => thread'.committed \/ thread'.backups = <<>>
  <2>1. CASE TakeLock \/ Bind \/ Images
    <3>1. /\ thread.at \in Waits /\ thread'.backups = thread.backups
          /\ thread'.at \in {"bind", "images", "rebind", "family", "except"}
      BY <1>1, <2>1, OtherActions DEF Waits
    <3>2. UNCHANGED <<box, ident, profile, signature>>
      BY <2>1 DEF TakeLock, Bind, Images, engine, files
    <3> QED BY <1>1, <3>1, <3>2 DEF ThreadOK, Rests, Waits
  <2>2. CASE Record
    <3>1. UNCHANGED <<box, ident, profile, signature>>
      BY <2>2 DEF Record, engine, admission
    <3> QED BY <1>1, <2>2, <3>1, RecordFacts DEF ThreadOK, Rests
  <2>3. CASE Finish
    <3>1. UNCHANGED <<box, ident, profile, signature>> /\ thread.at = "finish" /\ thread.committed
      BY <1>1, <2>3 DEF Finish, engine, files, In, ThreadOK
    <3>2. \/ thread' = NoThread
          \/ GoOn("except")
      BY <2>3 DEF Finish, Raise
    <3>3. \/ thread'.at = "idle"
          \/ thread'.at = "except" /\ thread'.committed
      BY Zenon, <1>1, <3>1, <3>2, EndFacts, GoesOn DEF SameWork, Fails
    <3> QED BY <3>1, <3>3 DEF Rests
  <2> QED BY <2>1, <2>2, <2>3
<1>3. AllWhole'
  BY <1>2, AllKept DEF WholeOK
<1> QED BY <1>2, <1>3, ToEnd, ToRest, ToWholeFail DEF Fails

\* An independent deployment replaces a container that was not touched, so its
\* family was not updated.
LEMMA RedeployWhole ==
    ASSUME UpdatesSafe, WholeOK, NEW s \in Services, Redeploy(s)
    PROVE  WholeOK'
<1>1. /\ UNCHANGED <<box, job, thread, stored>> /\ box[s] = Original(s)
      /\ thread.at \in {"idle", "down"} \cup Rests
      /\ ident \in [Services -> Nat] /\ profile \in Profiles
  BY DEF Redeploy, Rests, Waits, UpdatesSafe, UpdatesTyped
<1>2. ident'[s] = ident[s] + 1 /\ \A x \in Services \ {s} : ident'[x] = ident[x]
  BY <1>1 DEF Redeploy
<1>3. /\ signature = profile.gen => signature' = profile'.gen
      /\ \A x \in Admitted \ {s} : profile'.pins[x] = profile.pins[x]
      /\ s \in Admitted => profile'.pins[s] \in {profile.pins[s], ident[s] + 1}
  <2>1. CASE UNCHANGED admission
    BY <2>1 DEF admission
  <2>2. CASE /\ profile' = [gen |-> profile.gen + 1, pins |-> [profile.pins EXCEPT ![s] = ident[s] + 1]]
             /\ signature' = profile.gen + 1 /\ s \in Admitted
    <3>1. profile.pins \in [Admitted -> Nat]
      BY <1>1 DEF Profiles
    <3>2. profile'.pins = [profile.pins EXCEPT ![s] = ident[s] + 1] /\ signature' = profile'.gen
      BY <2>2
    <3> QED BY <3>1, <3>2
  <2> QED BY <2>1, <2>2 DEF Redeploy
<1>4. ASSUME AllWhole, NEW f \in Families PROVE Whole(f)'
  <2>1. \A x \in Range(ServicesOf[f]) : x \in Services
    <3>1. ServicesOf[f] \in Seq(Services)
      BY UpdatesAssumption
    <3> QED BY <3>1 DEF Range
  <2>2. CASE s \notin Range(ServicesOf[f])
    BY <1>1, <1>2, <1>3, <1>4, <2>1, <2>2, SameWhole DEF AllWhole
  <2>3. CASE s \in Range(ServicesOf[f])
    <3>1. \A x \in Range(ServicesOf[f]) : Untouched(x)
      <4>1. box[s].name = "own" /\ Updated(s).name = "aside"
        BY <1>1 DEF Original, Updated
      <4> QED BY <1>4, <2>3, <4>1 DEF AllWhole, Whole, Replaced
    <3>2. ASSUME NEW x \in Range(ServicesOf[f]) PROVE Untouched(x)'
      <4>1. x \in Services /\ Untouched(x)
        BY <2>1, <3>1
      <4>2. x \in Admitted => profile.pins[x] \in Nat /\ ident[x] \in Nat
        BY <1>1, <4>1 DEF Profiles
      <4>3. x \in Admitted => profile'.pins[x] =< ident'[x]
        BY <1>2, <1>3, <4>1, <4>2 DEF Untouched, Fresh
      <4> QED BY <1>1, <4>1, <4>3 DEF Untouched, Fresh
    <3> QED BY <3>2 DEF Whole
  <2> QED BY <2>2, <2>3
<1>5. AllWhole => AllWhole'
  BY <1>3, <1>4 DEF AllWhole
<1>6. CASE Idles
  BY <1>1, <1>5, <1>6, ToEnd DEF WholeOK, Idles, Busy
<1>7. CASE ~Idles
  BY <1>1, <1>5, <1>7, ToRest DEF WholeOK, Idles
<1> QED BY <1>6, <1>7

\* A family that has not drifted was not updated, so it is untouched.
LEMMA BeginFamilyWhole ==
    ASSUME UpdatesSafe, WholeOK, BeginFamily
    PROVE  WholeOK'
<1>1. /\ UpdatesTyped /\ ThreadOK /\ SeenOK /\ thread.at = "family" /\ ~Idles
      /\ UNCHANGED <<box, ident, profile, signature, job, stored>>
  BY DEF UpdatesSafe, BeginFamily, In, engine, files, request, Idles
<1>2. AllWhole
  BY <1>1 DEF WholeOK, Rests
<1>3. AllWhole'
  BY <1>1, <1>2, AllKept
<1>4. CASE thread'.at = "except"
  BY <1>1, <1>3, <1>4, BeginFamilyFacts, ToWholeFail DEF Fails
<1>5. CASE thread'.at = "prepared"
  <2>1. /\ ~Drifted(Fam) /\ Fam' = Fam /\ Steps' = Steps /\ thread'.svc = 1 /\ thread'.backups = <<>>
        /\ Svc' = Steps[1]
    BY <1>1, <1>5, BeginFamilyFacts, SameFamily DEF Svc, Steps
  <2>2. \A s \in Range(ServicesOf[Fam]) : s \in Services /\ box[s].new = "none"
    <3>1. \A s \in Range(ServicesOf[Fam]) : s \in Services /\ Fingerprint[s] = stored.seen[s]
      BY <1>1, <2>1, FamilyFacts DEF Drifted
    <3>2. \A s \in Range(ServicesOf[Fam]) : stored.seen[s][2].new = "none"
      BY <1>1, Working DEF SeenOK, ThreadOK
    <3>3. \A s \in Services : Fingerprint[s][2] = box[s]
      BY DEF Fingerprint
    <3> QED BY <3>1, <3>2, <3>3
  <2>3. \A s \in Range(ServicesOf[Fam]) : Untouched(s)
    <3>1. \A s \in Services : Updated(s).new # "none"
      BY DEF Updated
    <3>2. Whole(Fam)
      BY <1>1, <1>2, FamilyFacts, AllOthers
    <3> QED BY <1>1, <2>2, <3>1, <3>2, FamilyFacts DEF Whole, Replaced
  <2>4. \A i \in DOMAIN Steps : Untouched(Steps[i]) /\ Steps[i] \in Services
    BY <1>1, <2>3, FamilyFacts
  <2>5. 1 \in DOMAIN Steps /\ DOMAIN Steps \subseteq Nat
    BY <1>1, FamilyFacts
  <2>6. Shape'
    <3>1. box'[Svc'] = Original(Svc')
      BY <1>1, <2>1, <2>4, <2>5 DEF Untouched
    <3>2. /\ box'[Svc'].policy /\ (box'[Svc'].up <=> Svc' \in WasUp) /\ box'[Svc'].name = "own"
          /\ box'[Svc'].net /\ box'[Svc'].new = "none"
      BY <3>1, OriginalFields
    <3> QED BY <1>5, <3>2 DEF Shape, Opening
  <2>7. \A i \in DOMAIN Steps : (Fresh(Steps[i]) /\ box[Steps[i]] = Original(Steps[i]))'
    BY <1>1, <2>1, <2>4 DEF Untouched, Fresh
  <2>8. \A i \in DOMAIN Steps : ~(i < thread'.svc)
    BY <2>1, <1>1, FamilyFacts
  <2>9. ForwardOK'
    BY <1>3, <1>5, <2>1, <2>6, <2>7, <2>8 DEF ForwardOK, AllWhole, OthersWhole, Admits
  <2>10. JournalOK'
    BY <1>3, <1>5, <2>1 DEF JournalOK, Fails, Undoes
  <2>11. KeptOK' /\ thread'.at \in Moves
    BY <1>5 DEF KeptOK, Moves
  <2> QED BY <1>3, <2>9, <2>10, <2>11, ToForward DEF AllWhole
<1> QED BY <1>1, <1>4, <1>5, BeginFamilyFacts

----------------------------------------------------------------------------
(* The steps of recreate                                                      *)

\* What holds while the services of a family are replaced.
LEMMA MoveFacts ==
    ASSUME UpdatesSafe, WholeOK, thread.at \in Moves
    PROVE  /\ UpdatesTyped /\ ThreadOK /\ BackupsOK /\ EntryOK /\ ~Idles
           /\ OthersWhole /\ Shape /\ signature = profile.gen
           /\ thread.at # "prepared" => job.journal
           /\ thread.svc \in DOMAIN Steps /\ Svc = Steps[thread.svc] /\ Svc \in Services
           /\ box[Svc] \in Boxes /\ ~thread.committed
           /\ thread.at # "prepared" => Backups = 1 .. thread.svc /\ Len(thread.backups) = thread.svc
           /\ thread.at = "prepared" => Backups = 1 .. (thread.svc - 1)
           /\ \A i \in DOMAIN Steps : /\ Fresh(Steps[i])
                                      /\ i > thread.svc => box[Steps[i]] = Original(Steps[i])
                                      /\ i < thread.svc => box[Steps[i]] = Updated(Steps[i])
<1>1. /\ UpdatesTyped /\ ThreadOK /\ BackupsOK /\ EntryOK /\ ~Idles
  BY DEF UpdatesSafe, Idles, Moves
<1>2. /\ thread.svc \in DOMAIN Steps /\ Svc = Steps[thread.svc] /\ Svc \in Services
      /\ box[Svc] \in Boxes /\ ~thread.committed
  BY <1>1, AtWork DEF ThreadOK, UpdatesTyped
<1>3. /\ Backups = 1 .. Len(thread.backups)
      /\ Len(thread.backups) = IF thread.at = "prepared" THEN thread.svc - 1 ELSE thread.svc
  BY <1>1, AtWork DEF BackupsOK
<1>4. /\ thread.at # "prepared" => job.journal
      /\ signature = profile.gen
  BY <1>1 DEF WholeOK, JournalOK, Rests, Waits, Moves, Fails, Undoes
<1>5. /\ OthersWhole /\ Shape
      /\ \A i \in DOMAIN Steps : /\ Fresh(Steps[i])
                                 /\ i > thread.svc => box[Steps[i]] = Original(Steps[i])
                                 /\ i < thread.svc => box[Steps[i]] = Updated(Steps[i])
  BY DEF WholeOK, ForwardOK, Moves
<1> QED BY <1>1, <1>2, <1>3, <1>4, <1>5

\* A step of recreate that changes the container of one service at most.
LEMMA CallWhole ==
    ASSUME UpdatesSafe, WholeOK, thread.at \in Moves \ {"prepared"},
           SameWork, thread'.backups = thread.backups,
           \A s \in Services \ {Svc} : box'[s] = box[s],
           UNCHANGED <<ident, profile, signature, job, stored>>,
           thread'.at = "except" \/ (thread'.at \in Moves \ {"prepared"} /\ Shape'),
           thread.at \in Opening /\ thread'.at = "except" =>
               box'[Svc].name = "own" /\ box'[Svc].net /\ box'[Svc].new = "none"
    PROVE  WholeOK'
<1>1. /\ UpdatesTyped /\ ThreadOK /\ BackupsOK /\ EntryOK /\ ~Idles
      /\ OthersWhole /\ signature = profile.gen /\ job.journal /\ ~thread.committed
      /\ thread.svc \in DOMAIN Steps /\ Svc = Steps[thread.svc] /\ Svc \in Services
      /\ Backups = 1 .. thread.svc /\ Len(thread.backups) = thread.svc
      /\ \A i \in DOMAIN Steps : /\ Fresh(Steps[i])
                                 /\ i > thread.svc => box[Steps[i]] = Original(Steps[i])
                                 /\ i < thread.svc => box[Steps[i]] = Updated(Steps[i])
  BY MoveFacts
<1>2. /\ DOMAIN Steps = 1 .. Len(Steps) /\ Len(Steps) \in Nat
      /\ \A i \in DOMAIN Steps : Steps[i] \in Services
      /\ \A i, k \in DOMAIN Steps : Steps[i] = Steps[k] => i = k
  BY <1>1, FamilyFacts
<1>3. /\ Fam' = Fam /\ Steps' = Steps /\ Backups' = Backups
      /\ thread'.svc = thread.svc /\ ~thread'.committed /\ job'.journal
  BY <1>1, SameFamily DEF SameWork
<1>4. \A i \in DOMAIN Steps : i # thread.svc => box'[Steps[i]] = box[Steps[i]]
  BY <1>1, <1>2
<1>5. OthersWhole'
  <2>1. \A s \in Services \ Range(Steps) : box'[s] = box[s]
    BY <1>1 DEF Range
  <2> QED BY <1>1, <1>3, <2>1, OthersKept
<1>6. \A i \in DOMAIN Steps : Fresh(Steps[i])'
  BY <1>1, <1>3 DEF Fresh
<1>7. JournalOK'
  BY <1>3 DEF JournalOK
<1>8. CASE thread'.at \in Moves \ {"prepared"} /\ Shape'
  <2>1. \A i \in DOMAIN Steps : /\ i > thread.svc => (box[Steps[i]] = Original(Steps[i]))'
                                /\ i < thread.svc => (box[Steps[i]] = Updated(Steps[i]))'
    BY <1>1, <1>2, <1>3, <1>4
  <2>2. thread'.at \notin Admits
    BY <1>8 DEF Moves, Admits
  <2>3. ForwardOK'
    BY <1>3, <1>5, <1>6, <1>8, <2>1, <2>2 DEF ForwardOK
  <2>4. KeptOK'
    BY <2>2 DEF KeptOK, Admits
  <2> QED BY <1>1, <1>7, <1>8, <2>3, <2>4, ToForward
<1>9. CASE thread'.at = "except"
  <2>1. ASSUME NEW i \in Backups PROVE Fits(i)'
    <3>1. CASE i = thread.svc /\ thread.at \in Opening
      BY <1>1, <1>3, <1>9, <3>1 DEF Fits
    <3>2. CASE ~(i = thread.svc /\ thread.at \in Opening)
      <4>1. thread.backups[i].phase = "renamed"
        BY <1>1, <3>2 DEF EntryOK
      <4> QED BY <4>1 DEF Fits
    <3> QED BY <3>1, <3>2
  <2>2. \A i \in DOMAIN Steps : i \notin Backups => (box[Steps[i]] = Original(Steps[i]))'
    <3>1. \A i \in DOMAIN Steps : i \notin Backups => i > thread.svc /\ i # thread.svc
      BY <1>1, <1>2
    <3> QED BY <1>1, <1>3, <1>4, <3>1
  <2>3. thread'.backups # <<>>
    BY <1>1, <1>2
  <2>4. BackwardOK'
    BY <1>3, <1>5, <1>6, <1>9, <2>1, <2>2, <2>3 DEF BackwardOK, UndoneOK
  <2> QED BY <1>1, <1>7, <1>9, <2>4, ToBackward DEF Fails
<1> QED BY <1>8, <1>9

\* A step that writes the journal.
LEMMA JournalWhole ==
    ASSUME UpdatesSafe, WholeOK, thread.at \in Moves, NEW e, NEW a \in Moves \ {"prepared"},
           Journaled(e, a), DOMAIN e = 1 .. thread.svc,
           \A i \in 1 .. thread.svc :
               e[i].phase = "prepared" => i = thread.svc /\ thread.at = "prepared",
           thread'.at = a => Shape',
           thread.at = "prepared" => e[thread.svc].phase = "prepared"
    PROVE  WholeOK'
<1>1. /\ UpdatesTyped /\ ThreadOK /\ BackupsOK /\ EntryOK /\ ~Idles
      /\ OthersWhole /\ signature = profile.gen /\ ~thread.committed
      /\ (thread.at # "prepared" => job.journal)
      /\ thread.svc \in DOMAIN Steps /\ Svc = Steps[thread.svc] /\ Svc \in Services
      /\ \A i \in DOMAIN Steps : /\ Fresh(Steps[i])
                                 /\ i > thread.svc => box[Steps[i]] = Original(Steps[i])
                                 /\ i < thread.svc => box[Steps[i]] = Updated(Steps[i])
  BY MoveFacts
<1>2. /\ DOMAIN Steps = 1 .. Len(Steps) /\ Len(Steps) \in Nat
      /\ \A i \in DOMAIN Steps : Steps[i] \in Services
  BY <1>1, FamilyFacts
<1>3. /\ SameWork /\ thread'.backups = e
      /\ UNCHANGED <<box, ident, profile, signature, stored>>
      /\ \/ thread'.at = a /\ job'.journal
         \/ thread'.at = "except" /\ job' = job
  BY DEF Journaled
<1>4. /\ Fam' = Fam /\ Steps' = Steps /\ thread'.svc = thread.svc /\ ~thread'.committed
      /\ Backups' = 1 .. thread.svc
  BY <1>1, <1>3, SameFamily DEF SameWork, Backups
<1>5. OthersWhole' /\ \A i \in DOMAIN Steps : Fresh(Steps[i])'
  <2>1. OthersWhole'
    BY <1>1, <1>3, <1>4, OthersKept
  <2> QED BY <1>1, <1>3, <1>4, <2>1 DEF Fresh
<1>6. CASE thread'.at = a /\ job'.journal
  <2>1. \A i \in DOMAIN Steps : /\ i > thread.svc => (box[Steps[i]] = Original(Steps[i]))'
                                /\ i < thread.svc => (box[Steps[i]] = Updated(Steps[i]))'
    BY <1>1, <1>3, <1>4
  <2>2. thread'.at \notin Admits /\ thread'.at \in Moves
    BY <1>6 DEF Moves, Admits
  <2>3. ForwardOK'
    BY <1>4, <1>5, <1>6, <2>1, <2>2 DEF ForwardOK
  <2>4. KeptOK' /\ JournalOK'
    BY <1>6, <2>2 DEF KeptOK, Admits, JournalOK
  <2> QED BY <1>1, <1>3, <2>2, <2>3, <2>4, ToForward
<1>7. CASE thread'.at = "except" /\ job' = job
  <2>1. ASSUME NEW i \in 1 .. thread.svc PROVE Fits(i)'
    <3>1. CASE i = thread.svc /\ thread.at = "prepared"
      <4>1. box[Svc].name = "own" /\ box[Svc].net /\ box[Svc].new = "none"
        BY <3>1, MoveFacts DEF Shape
      <4> QED BY <1>1, <1>3, <1>4, <3>1, <4>1 DEF Fits
    <3>2. CASE ~(i = thread.svc /\ thread.at = "prepared")
      BY <1>3, <3>2 DEF Fits
    <3> QED BY <3>1, <3>2
  <2>2. \A i \in DOMAIN Steps : i \notin 1 .. thread.svc => (box[Steps[i]] = Original(Steps[i]))'
    <3>1. \A i \in DOMAIN Steps : i \notin 1 .. thread.svc => i > thread.svc
      BY <1>1, <1>2
    <3> QED BY <1>1, <1>3, <1>4, <3>1
  <2>3. thread'.backups # <<>>
    <3>1. thread.svc \in DOMAIN e
      BY <1>1, <1>2
    <3> QED BY <1>3, <3>1
  <2>4. BackwardOK'
    BY <1>4, <1>5, <1>7, <2>1, <2>2, <2>3 DEF BackwardOK, UndoneOK
  <2>5. JournalOK'
    <3>1. CASE job.journal
      BY <1>7, <3>1 DEF JournalOK
    <3>2. CASE ~job.journal
      <4>1. thread.at = "prepared" /\ AllWhole /\ thread.backups = <<>> /\ Shape
        BY <1>1, <3>2, MoveFacts DEF WholeOK, JournalOK
      <4>2. thread.svc = 1
        <5>1. Len(thread.backups) = 0
          BY <4>1
        <5> QED BY <1>1, <1>2, <4>1, <5>1 DEF BackupsOK, Moves
      <4>3. box[Svc] = Original(Svc)
        <5>1. Whole(Fam) /\ Svc \in Range(ServicesOf[Fam])
          BY <1>1, <4>1, FamilyFacts, AllOthers
        <5>2. box[Svc] # Updated(Svc)
          BY <4>1, UpdatedFields DEF Shape
        <5> QED BY <5>1, <5>2 DEF Whole, Untouched, Replaced
      <4>4. AllWhole'
        BY <1>3, <4>1, AllKept
      <4>5. \A i \in Backups' : i = 1
        BY <1>4, <4>2
      <4>6. thread'.backups[1].phase = "prepared" /\ (box[Steps[1]] = Original(Steps[1]))'
        BY <1>1, <1>3, <1>4, <4>1, <4>2, <4>3
      <4> QED BY <1>7, <4>4, <4>5, <4>6 DEF JournalOK, Fails
    <3> QED BY <3>1, <3>2
  <2> QED BY <1>1, <1>3, <1>7, <2>4, <2>5, ToBackward DEF Fails
<1> QED BY <1>3, <1>6, <1>7

\* The calls of recreate; a rename without an answer is in unseen.
LEMMA CallsWhole ==
    ASSUME UpdatesSafe, WholeOK, unseen' = {},
           DropPolicy \/ Stop \/ Rename \/ Disconnect \/ Create \/ Start
    PROVE  WholeOK'
<1>1. /\ UpdatesTyped /\ ThreadOK /\ BackupsOK /\ OldOK
  BY DEF UpdatesSafe
<1>2. CASE DropPolicy
  <2> DEFINE b == [box[Svc] EXCEPT !.policy = FALSE]
  <2>1. /\ thread.at = "policy" /\ SameWork /\ thread'.backups = thread.backups
        /\ \A s \in Services \ {Svc} : box'[s] = box[s]
        /\ UNCHANGED <<ident, profile, signature, job, stored>>
        /\ \/ thread'.at \in {"stop", "copy"} /\ box'[Svc] = b
           \/ /\ thread'.at = "except"
              /\ box' = box \/ (box'[Svc] = b /\ (b.name = box[Svc].name \/ Svc \in unseen'))
        /\ thread'.at = "stop" => Svc \in WasUp
        /\ thread'.at = "copy" => Svc \notin WasUp
    BY <1>1, <1>2, CallActions DEF Called
  <2>2. thread.at \in Moves \ {"prepared"}
    BY <2>1 DEF Moves
  <2>3. box[Svc] \in Boxes /\ Shape /\ Svc' = Svc /\ Svc \in Services
    BY <1>1, <2>1, <2>2, MoveFacts, SameFamily DEF SameWork
  <2>4. /\ b.policy = FALSE /\ b.name = box[Svc].name /\ b.up = box[Svc].up
        /\ b.net = box[Svc].net /\ b.new = box[Svc].new
    BY <2>3 DEF Boxes
  <2> HIDE DEF b
  <2>5. CASE thread'.at \in {"stop", "copy"} /\ box'[Svc] = b
    <3>1. Shape' /\ thread'.at \in Moves \ {"prepared"}
      BY <2>1, <2>3, <2>4, <2>5 DEF Shape, Opening, Moves
    <3> QED BY <2>1, <2>2, <2>5, <3>1, CallWhole
  <2>7. CASE thread'.at = "except"
    <3>1. thread.at \in Opening => box'[Svc].name = "own" /\ box'[Svc].net /\ box'[Svc].new = "none"
      BY <2>1, <2>3, <2>4, <2>7 DEF Shape, Opening
    <3> QED BY <2>1, <2>2, <2>7, <3>1, CallWhole
  <2> QED BY <2>1, <2>5, <2>7
<1>3. CASE Stop
  <2> DEFINE b == [box[Svc] EXCEPT !.up = FALSE]
  <2>1. /\ thread.at = "stop" /\ SameWork /\ thread'.backups = thread.backups
        /\ \A s \in Services \ {Svc} : box'[s] = box[s]
        /\ UNCHANGED <<ident, profile, signature, job, stored>>
        /\ \/ thread'.at \in {"copy"} /\ box'[Svc] = b
           \/ /\ thread'.at = "except"
              /\ box' = box \/ (box'[Svc] = b /\ (b.name = box[Svc].name \/ Svc \in unseen'))
    BY <1>1, <1>3, CallActions DEF Called
  <2>2. thread.at \in Moves \ {"prepared"}
    BY <2>1 DEF Moves
  <2>3. box[Svc] \in Boxes /\ Shape /\ Svc' = Svc /\ Svc \in Services
    BY <1>1, <2>1, <2>2, MoveFacts, SameFamily DEF SameWork
  <2>4. /\ b.up = FALSE /\ b.name = box[Svc].name /\ b.policy = box[Svc].policy
        /\ b.net = box[Svc].net /\ b.new = box[Svc].new
    BY <2>3 DEF Boxes
  <2> HIDE DEF b
  <2>5. CASE thread'.at \in {"copy"} /\ box'[Svc] = b
    <3>1. Shape' /\ thread'.at \in Moves \ {"prepared"}
      BY <2>1, <2>3, <2>4, <2>5 DEF Shape, Opening, Moves
    <3> QED BY <2>1, <2>2, <2>5, <3>1, CallWhole
  <2>7. CASE thread'.at = "except"
    <3>1. thread.at \in Opening => box'[Svc].name = "own" /\ box'[Svc].net /\ box'[Svc].new = "none"
      BY <2>1, <2>3, <2>4, <2>7 DEF Shape, Opening
    <3> QED BY <2>1, <2>2, <2>7, <3>1, CallWhole
  <2> QED BY <2>1, <2>5, <2>7
<1>4. CASE Rename
  <2> DEFINE b == [box[Svc] EXCEPT !.name = "aside"]
  <2>1. /\ thread.at = "rename" /\ SameWork /\ thread'.backups = thread.backups
        /\ \A s \in Services \ {Svc} : box'[s] = box[s]
        /\ UNCHANGED <<ident, profile, signature, job, stored>>
        /\ \/ thread'.at \in {"renamed"} /\ box'[Svc] = b
           \/ /\ thread'.at = "except"
              /\ box' = box \/ (box'[Svc] = b /\ (b.name = box[Svc].name \/ Svc \in unseen'))
    BY <1>1, <1>4, CallActions DEF Called
  <2>2. thread.at \in Moves \ {"prepared"}
    BY <2>1 DEF Moves
  <2>3. box[Svc] \in Boxes /\ Shape /\ Svc' = Svc /\ Svc \in Services
    BY <1>1, <2>1, <2>2, MoveFacts, SameFamily DEF SameWork
  <2>4. /\ b.name = "aside" /\ b.up = box[Svc].up /\ b.policy = box[Svc].policy
        /\ b.net = box[Svc].net /\ b.new = box[Svc].new
    BY <2>3 DEF Boxes
  <2> HIDE DEF b
  <2>5. CASE thread'.at \in {"renamed"} /\ box'[Svc] = b
    <3>1. Shape' /\ thread'.at \in Moves \ {"prepared"}
      BY <2>1, <2>3, <2>4, <2>5 DEF Shape, Opening, Moves
    <3> QED BY <2>1, <2>2, <2>5, <3>1, CallWhole
  <2>7. CASE thread'.at = "except"
    <3>1. thread.at \in Opening => box'[Svc].name = "own" /\ box'[Svc].net /\ box'[Svc].new = "none"
      BY <2>1, <2>3, <2>4, <2>7 DEF Shape, Opening
    <3> QED BY <2>1, <2>2, <2>7, <3>1, CallWhole
  <2> QED BY <2>1, <2>5, <2>7
<1>5. CASE Disconnect
  <2> DEFINE b == [box[Svc] EXCEPT !.net = FALSE]
  <2>1. /\ thread.at = "disconnect" /\ SameWork /\ thread'.backups = thread.backups
        /\ \A s \in Services \ {Svc} : box'[s] = box[s]
        /\ UNCHANGED <<ident, profile, signature, job, stored>>
        /\ \/ thread'.at \in {"create"} /\ box'[Svc] = b
           \/ /\ thread'.at = "except"
              /\ box' = box \/ (box'[Svc] = b /\ (b.name = box[Svc].name \/ Svc \in unseen'))
    BY <1>1, <1>5, CallActions DEF Called
  <2>2. thread.at \in Moves \ {"prepared"}
    BY <2>1 DEF Moves
  <2>3. box[Svc] \in Boxes /\ Shape /\ Svc' = Svc /\ Svc \in Services
    BY <1>1, <2>1, <2>2, MoveFacts, SameFamily DEF SameWork
  <2>4. /\ b.net = FALSE /\ b.name = box[Svc].name /\ b.up = box[Svc].up
        /\ b.policy = box[Svc].policy /\ b.new = box[Svc].new
    BY <2>3 DEF Boxes
  <2> HIDE DEF b
  <2>5. CASE thread'.at \in {"create"} /\ box'[Svc] = b
    <3>1. Shape' /\ thread'.at \in Moves \ {"prepared"}
      BY <2>1, <2>3, <2>4, <2>5 DEF Shape, Opening, Moves
    <3> QED BY <2>1, <2>2, <2>5, <3>1, CallWhole
  <2>7. CASE thread'.at = "except"
    <3>1. thread.at \in Opening => box'[Svc].name = "own" /\ box'[Svc].net /\ box'[Svc].new = "none"
      BY <2>1, <2>3, <2>4, <2>7 DEF Shape, Opening
    <3> QED BY <2>1, <2>2, <2>7, <3>1, CallWhole
  <2> QED BY <2>1, <2>5, <2>7
<1>6. CASE Create
  <2> DEFINE b == [box[Svc] EXCEPT !.new = "created"]
  <2>1. /\ thread.at = "create" /\ SameWork /\ thread'.backups = thread.backups
        /\ \A s \in Services \ {Svc} : box'[s] = box[s]
        /\ UNCHANGED <<ident, profile, signature, job, stored>>
        /\ \/ thread'.at \in {"created"} /\ box'[Svc] = b
           \/ /\ thread'.at = "except"
              /\ box' = box \/ (box'[Svc] = b /\ (b.name = box[Svc].name \/ Svc \in unseen'))
    BY <1>1, <1>6, CallActions DEF Called
  <2>2. thread.at \in Moves \ {"prepared"}
    BY <2>1 DEF Moves
  <2>3. box[Svc] \in Boxes /\ Shape /\ Svc' = Svc /\ Svc \in Services
    BY <1>1, <2>1, <2>2, MoveFacts, SameFamily DEF SameWork
  <2>4. /\ b.new = "created" /\ b.name = box[Svc].name /\ b.up = box[Svc].up
        /\ b.policy = box[Svc].policy /\ b.net = box[Svc].net
    BY <2>3 DEF Boxes
  <2> HIDE DEF b
  <2>5. CASE thread'.at \in {"created"} /\ box'[Svc] = b
    <3>1. Shape' /\ thread'.at \in Moves \ {"prepared"}
      BY <2>1, <2>3, <2>4, <2>5 DEF Shape, Opening, Moves
    <3> QED BY <2>1, <2>2, <2>5, <3>1, CallWhole
  <2>7. CASE thread'.at = "except"
    <3>1. thread.at \in Opening => box'[Svc].name = "own" /\ box'[Svc].net /\ box'[Svc].new = "none"
      BY <2>1, <2>3, <2>4, <2>7 DEF Shape, Opening
    <3> QED BY <2>1, <2>2, <2>7, <3>1, CallWhole
  <2> QED BY <2>1, <2>5, <2>7
<1>7. CASE Start
  <2> DEFINE b == [box[Svc] EXCEPT !.new = "up"]
  <2>1. /\ thread.at = "start" /\ SameWork /\ thread'.backups = thread.backups
        /\ \A s \in Services \ {Svc} : box'[s] = box[s]
        /\ UNCHANGED <<ident, profile, signature, job, stored>>
        /\ \/ thread'.at \in {"verify"} /\ box'[Svc] = b
           \/ /\ thread'.at = "except"
              /\ box' = box \/ (box'[Svc] = b /\ (b.name = box[Svc].name \/ Svc \in unseen'))
    BY <1>1, <1>7, CallActions DEF Called
  <2>2. thread.at \in Moves \ {"prepared"}
    BY <2>1 DEF Moves
  <2>3. box[Svc] \in Boxes /\ Shape /\ Svc' = Svc /\ Svc \in Services
    BY <1>1, <2>1, <2>2, MoveFacts, SameFamily DEF SameWork
  <2>4. /\ b.new = "up" /\ b.name = box[Svc].name /\ b.up = box[Svc].up
        /\ b.policy = box[Svc].policy /\ b.net = box[Svc].net
    BY <2>3 DEF Boxes
  <2> HIDE DEF b
  <2>6. Svc \in WasUp
    BY <1>1, <2>1 DEF OldOK
  <2>5. CASE thread'.at \in {"verify"} /\ box'[Svc] = b
    <3>1. Shape' /\ thread'.at \in Moves \ {"prepared"}
      BY <2>1, <2>3, <2>4, <2>5, <2>6 DEF Shape, Opening, Moves, Updated
    <3> QED BY <2>1, <2>2, <2>5, <3>1, CallWhole
  <2>7. CASE thread'.at = "except"
    <3>1. thread.at \in Opening => box'[Svc].name = "own" /\ box'[Svc].net /\ box'[Svc].new = "none"
      BY <2>1, <2>3, <2>4, <2>7 DEF Shape, Opening
    <3> QED BY <2>1, <2>2, <2>7, <3>1, CallWhole
  <2> QED BY <2>1, <2>5, <2>7
<1> QED BY <1>2, <1>3, <1>4, <1>5, <1>6, <1>7

\* The writes of rollback.json.
LEMMA JournalsWhole ==
    ASSUME UpdatesSafe, WholeOK,
           JournalPrepared \/ JournalRenamed \/ JournalCreated \/ JournalStarted
    PROVE  WholeOK'
<1>1. /\ UpdatesTyped /\ ThreadOK /\ BackupsOK /\ EntryOK /\ OldOK
  BY DEF UpdatesSafe
<1>2. ASSUME NEW e, NEW a, Journaled(e, a), thread.at \in Moves
      PROVE  box' = box /\ Svc' = Svc /\ thread'.svc = thread.svc /\ thread.svc \in DOMAIN Steps
             /\ Svc \in Services /\ DOMAIN Steps \subseteq Nat \ {0}
  BY <1>1, <1>2, SameFamily, MoveFacts, FamilyFacts DEF Journaled, SameWork
<1>3. CASE JournalPrepared
  <2> DEFINE new == [svc |-> Svc, phase |-> "prepared", newId |-> FALSE, newStarted |-> FALSE]
             e == Append(thread.backups, new)
  <2>1. thread.at = "prepared" /\ Journaled(e, "policy") /\ thread.at \in Moves
    BY <1>1, <1>3, JournalActions DEF Moves
  <2>2. /\ Backups = 1 .. (thread.svc - 1) /\ thread.backups \in Seq(Entries)
        /\ Len(thread.backups) = thread.svc - 1 /\ thread.svc \in Nat \ {0}
    BY <1>1, <1>2, <2>1, MoveFacts, AtWork DEF BackupsOK
  <2>3. /\ DOMAIN e = 1 .. thread.svc /\ e[thread.svc] = new
        /\ \A i \in 1 .. thread.svc : i # thread.svc => i \in Backups /\ e[i] = thread.backups[i]
    BY <2>2
  <2>4. new.phase = "prepared"
    OBVIOUS
  <2> HIDE DEF new, e
  <2>5. \A i \in 1 .. thread.svc : e[i].phase = "prepared" => i = thread.svc
    BY <1>1, <2>1, <2>3 DEF EntryOK, Opening
  <2>6. thread'.at = "policy" => Shape'
    BY <1>2, <2>1, MoveFacts DEF Shape, Opening
  <2> QED BY Zenon, <2>1, <2>3, <2>4, <2>5, <2>6, JournalWhole DEF Moves
<1>4. ASSUME NEW e, NEW a \in Moves \ {"prepared"}, Journaled(Mark(e), a), e \in Entries, e.phase = "renamed",
             thread.at \in {"renamed", "created", "started"}, thread'.at = a => Shape'
      PROVE  WholeOK'
  <2>1. thread.at \in Moves \ {"prepared"}
    BY <1>4 DEF Moves
  <2>2. /\ DOMAIN Mark(e) = 1 .. thread.svc /\ Mark(e)[thread.svc] = e
        /\ \A i \in Backups : i # thread.svc => Mark(e)[i] = thread.backups[i]
        /\ Backups = 1 .. thread.svc
    BY <1>1, <1>4, <2>1, Marked, MoveFacts
  <2>3. \A i \in 1 .. thread.svc : Mark(e)[i].phase = "renamed"
    BY <1>1, <1>4, <2>1, <2>2 DEF EntryOK
  <2> QED BY Zenon, <1>4, <2>1, <2>2, <2>3, JournalWhole
<1>5. thread.at \in {"renamed", "created", "started"} =>
        /\ thread.at \in Moves /\ Entry \in Entries /\ Entry = thread.backups[thread.svc]
        /\ thread.svc \in Backups /\ box[Svc] \in Boxes
  BY <1>1, AtWork, MoveFacts DEF Moves
<1>6. CASE JournalRenamed
  <2>1. thread.at = "renamed" /\ Journaled(Mark([Entry EXCEPT !.phase = "renamed"]), "disconnect")
    BY <1>1, <1>6, JournalActions
  <2>2. [Entry EXCEPT !.phase = "renamed"] \in Entries /\ [Entry EXCEPT !.phase = "renamed"].phase = "renamed"
    BY <1>5, <2>1, EntryEdit DEF Entries
  <2>3. thread'.at = "disconnect" => Shape'
    BY <1>2, <1>5, <2>1, MoveFacts DEF Shape, Opening
  <2> QED BY Zenon, <1>4, <2>1, <2>2, <2>3 DEF Moves
<1>7. CASE JournalCreated
  <2>1. /\ thread.at = "created"
        /\ Journaled(Mark([Entry EXCEPT !.newId = TRUE]), IF Svc \in WasUp THEN "started" ELSE "verify")
    BY <1>1, <1>7, JournalActions
  <2>2. [Entry EXCEPT !.newId = TRUE] \in Entries /\ [Entry EXCEPT !.newId = TRUE].phase = "renamed"
    <3>1. Entry.phase = "renamed"
      BY <1>1, <1>5, <2>1 DEF EntryOK, Opening
    <3> QED BY Zenon, <1>5, <2>1, <3>1, EntryEdit DEF Entries
  <2>3. thread'.at = (IF Svc \in WasUp THEN "started" ELSE "verify") => Shape'
    BY <1>2, <1>5, <2>1, MoveFacts DEF Shape, Opening, Updated
  <2>4. (IF Svc \in WasUp THEN "started" ELSE "verify") \in Moves \ {"prepared"}
    BY DEF Moves
  <2> QED BY Zenon, <1>4, <2>1, <2>2, <2>3, <2>4
<1>8. CASE JournalStarted
  <2>1. thread.at = "started" /\ Journaled(Mark([Entry EXCEPT !.newStarted = TRUE]), "start")
    BY <1>1, <1>8, JournalActions
  <2>2. [Entry EXCEPT !.newStarted = TRUE] \in Entries /\ [Entry EXCEPT !.newStarted = TRUE].phase = "renamed"
    <3>1. Entry.phase = "renamed"
      BY <1>1, <1>5, <2>1 DEF EntryOK, Opening
    <3> QED BY Zenon, <1>5, <2>1, <3>1, EntryEdit DEF Entries
  <2>3. thread'.at = "start" => Shape'
    BY <1>2, <1>5, <2>1, MoveFacts DEF Shape, Opening
  <2> QED BY Zenon, <1>4, <2>1, <2>2, <2>3 DEF Moves
<1> QED BY <1>3, <1>6, <1>7, <1>8

\* The copy of the data changes no container.
LEMMA SnapshotWhole ==
    ASSUME UpdatesSafe, WholeOK, SnapshotDatabase
    PROVE  WholeOK'
<1>1. /\ thread.at = "copy" /\ SameWork /\ thread'.backups = thread.backups
      /\ UNCHANGED <<box, ident, profile, signature, job, stored>>
      /\ thread'.at \in {"rename", "except"} /\ thread.at \in Moves \ {"prepared"}
  BY OtherActions DEF SnapshotDatabase, UpdatesSafe, engine, admission, request, Moves
<1>2. Shape /\ Svc' = Svc
  BY <1>1, MoveFacts, SameFamily DEF SameWork
<1>3. thread'.at = "rename" => Shape'
  BY <1>1, <1>2 DEF Shape, Opening
<1>4. box'[Svc].name = "own" /\ box'[Svc].net /\ box'[Svc].new = "none"
  BY <1>1, <1>2 DEF Shape, Opening
<1>5. "rename" \in Moves \ {"prepared"}
  BY DEF Moves
<1> QED BY <1>1, <1>3, <1>4, <1>5, CallWhole

\* A service that is verified is replaced.
LEMMA VerifyWhole ==
    ASSUME UpdatesSafe, WholeOK, Verify
    PROVE  WholeOK'
<1>1. /\ thread.at = "verify" /\ thread.at \in Moves \ {"prepared"} /\ UpdatesTyped
      /\ UNCHANGED <<box, ident, profile, signature, job, stored>>
  BY DEF Verify, In, UpdatesSafe, engine, files, request, Moves
<1>2. CASE thread'.at = "except"
  <2>1. SameWork /\ thread'.backups = thread.backups
    BY <1>1, <1>2, VerifyFacts DEF SameWork
  <2> QED BY <1>1, <1>2, <2>1, CallWhole DEF Opening
<1>3. CASE thread'.at # "except"
  <2>1. /\ ThreadOK /\ ~Idles /\ OthersWhole /\ signature = profile.gen /\ job.journal
        /\ thread.svc \in DOMAIN Steps /\ Svc = Steps[thread.svc] /\ box[Svc] \in Boxes /\ Shape
        /\ \A i \in DOMAIN Steps : /\ Fresh(Steps[i])
                                   /\ i > thread.svc => box[Steps[i]] = Original(Steps[i])
                                   /\ i < thread.svc => box[Steps[i]] = Updated(Steps[i])
    BY <1>1, MoveFacts
  <2>2. DOMAIN Steps = 1 .. Len(Steps) /\ Len(Steps) \in Nat
    BY <1>1, <2>1, FamilyFacts
  <2>3. /\ Fam' = Fam /\ Steps' = Steps
        /\ \/ thread'.at = "prepared" /\ thread'.svc = thread.svc + 1 /\ thread.svc < Len(Steps)
           \/ thread'.at = "admit" /\ thread'.svc = thread.svc /\ thread.svc >= Len(Steps)
    BY <1>1, <1>3, VerifyFacts, SameFamily
  <2>4. box[Svc] = Updated(Svc)
    BY <1>1, <2>1, UpdatedFields DEF Shape, Opening
  <2>5. OthersWhole' /\ \A i \in DOMAIN Steps : Fresh(Steps[i])'
    <3>1. OthersWhole'
      BY <1>1, <2>1, <2>3, OthersKept
    <3> QED BY <1>1, <2>1, <2>3, <3>1 DEF Fresh
  <2>6. KeptOK' /\ JournalOK' /\ thread'.at \in Moves \cup Admits
    BY <1>1, <2>1, <2>3 DEF KeptOK, JournalOK, Moves, Admits
  <2>7. CASE thread'.at = "prepared"
    <3>1. thread'.svc = thread.svc + 1 /\ thread'.svc \in DOMAIN Steps /\ Svc' = Steps[thread'.svc]
      BY <2>1, <2>2, <2>3, <2>7 DEF Svc, Steps
    <3>2. \A i \in DOMAIN Steps : /\ i > thread'.svc => (box[Steps[i]] = Original(Steps[i]))'
                                  /\ i < thread'.svc => (box[Steps[i]] = Updated(Steps[i]))'
      <4>1. \A i \in DOMAIN Steps : i < thread'.svc => i < thread.svc \/ i = thread.svc
        BY <2>1, <2>2, <3>1
      <4>2. \A i \in DOMAIN Steps : i > thread'.svc => i > thread.svc
        BY <2>1, <2>2, <3>1
      <4> QED BY <1>1, <2>1, <2>3, <2>4, <4>1, <4>2
    <3>3. Shape'
      <4>1. box'[Svc'] = Original(Svc')
        BY <1>1, <2>1, <2>2, <3>1
      <4>2. /\ box'[Svc'].policy /\ (box'[Svc'].up <=> Svc' \in WasUp) /\ box'[Svc'].name = "own"
            /\ box'[Svc'].net /\ box'[Svc'].new = "none"
        BY <4>1, OriginalFields
      <4> QED BY <2>7, <4>2 DEF Shape, Opening
    <3>4. ForwardOK'
      BY <2>3, <2>5, <2>7, <3>2, <3>3 DEF ForwardOK, Admits
    <3> QED BY <1>1, <2>1, <2>6, <3>4, ToForward
  <2>8. CASE thread'.at = "admit"
    <3>1. \A i \in DOMAIN Steps : (box[Steps[i]] = Updated(Steps[i]))'
      <4>1. \A i \in DOMAIN Steps : i < thread.svc \/ i = thread.svc
        BY <2>1, <2>2, <2>3, <2>8
      <4> QED BY <1>1, <2>1, <2>3, <2>4, <4>1
    <3>2. ForwardOK'
      BY <2>3, <2>5, <2>8, <3>1 DEF ForwardOK, Moves
    <3> QED BY <1>1, <2>1, <2>6, <3>2, ToForward
  <2> QED BY <2>3, <2>7, <2>8
<1> QED BY <1>2, <1>3

----------------------------------------------------------------------------
(* The steps of refresh_admission                                             *)

\* What holds while the profile and its signature are replaced.
LEMMA AdmitsFacts ==
    ASSUME UpdatesSafe, WholeOK, thread.at \in Admits
    PROVE  /\ UpdatesTyped /\ ThreadOK /\ BackupsOK /\ ~Idles /\ OthersWhole /\ job.journal
           /\ ~thread.committed /\ Backups = DOMAIN Steps /\ thread.backups # <<>>
           /\ \A i \in Backups : thread.backups[i].phase = "renamed"
           /\ \A i \in DOMAIN Steps : /\ box[Steps[i]] = Updated(Steps[i])
                                      /\ thread.at # "unprofile" => Fresh(Steps[i])
           /\ thread.at \in Admits \ {"admit"} => Enrolled # {} /\ Enrolled \subseteq Services
           /\ Enrolled \subseteq Range(Steps) /\ profile \in Profiles /\ thread \in Locals
           /\ ident \in [Services -> Nat] /\ thread.kept \in Profiles
<1>1. /\ UpdatesTyped /\ ThreadOK /\ BackupsOK /\ EntryOK /\ ~Idles
  BY DEF UpdatesSafe, Idles, Admits
<1>2. /\ OthersWhole /\ job.journal /\ ~thread.committed
      /\ \A i \in DOMAIN Steps : /\ box[Steps[i]] = Updated(Steps[i])
                                 /\ thread.at # "unprofile" => Fresh(Steps[i])
  BY <1>1 DEF WholeOK, ForwardOK, JournalOK, ThreadOK, Rests, Waits, Fails, Undoes, Admits
<1>3. Backups = DOMAIN Steps /\ thread.backups # <<>>
  <2>1. Len(thread.backups) = Len(Steps) /\ Backups = 1 .. Len(thread.backups)
    BY <1>1, AtWork DEF BackupsOK
  <2> QED BY <1>1, <2>1, FamilyFacts
<1>4. \A i \in Backups : thread.backups[i].phase = "renamed"
  <2>1. thread.at \notin Opening
    BY DEF Admits, Opening
  <2> QED BY <1>1, <2>1 DEF EntryOK
<1>5. /\ thread.at \in Admits \ {"admit"} => Enrolled # {}
      /\ Enrolled \subseteq Services /\ Enrolled \subseteq Range(Steps)
  BY <1>1, UpdatesAssumption DEF BackupsOK, Enrolled, Steps
<1>6. /\ profile \in Profiles /\ thread \in Locals /\ ident \in [Services -> Nat]
      /\ thread.kept \in Profiles
  BY <1>1 DEF UpdatesTyped, Locals
<1> QED BY <1>1, <1>2, <1>3, <1>4, <1>5, <1>6

\* The step that fails leaves the new containers to the undo.
LEMMA AdmitFails ==
    ASSUME UpdatesSafe, WholeOK, thread.at \in Admits \ {"unprofile"}, thread'.at = "except",
           thread'.fam = thread.fam, thread'.backups = thread.backups,
           thread'.committed = thread.committed,
           UNCHANGED <<box, ident, profile, job, stored>>, signature' = profile.gen
    PROVE  WholeOK'
<1>1. /\ Fam' = Fam /\ Steps' = Steps /\ Backups' = Backups
      /\ UpdatesTyped /\ ThreadOK /\ ~Idles
  BY SameFamily, AdmitsFacts
<1>2. OthersWhole'
  BY <1>1, AdmitsFacts, OthersKept
<1>3. \A i \in DOMAIN Steps : Fresh(Steps[i])' /\ i \in Backups
  BY <1>1, AdmitsFacts DEF Fresh
<1>4. \A i \in Backups : Fits(i)'
  BY AdmitsFacts DEF Fits
<1>5. BackwardOK'
  BY <1>1, <1>2, <1>3, <1>4, AdmitsFacts DEF BackwardOK, UndoneOK
<1>6. JournalOK'
  BY AdmitsFacts DEF JournalOK
<1> QED BY <1>5, <1>6, ToBackward DEF Fails

\* The step that goes on, with the profile and its signature.
LEMMA AdmitGoes ==
    ASSUME UpdatesSafe, WholeOK, thread.at \in Admits, thread'.at \in Admits,
           thread'.fam = thread.fam, UNCHANGED <<box, ident, job, stored>>,
           \A s \in Admitted \ Enrolled : profile'.pins[s] = profile.pins[s],
           thread'.at # "unprofile" => \A s \in Enrolled : profile'.pins[s] =< ident[s],
           thread'.at = "admit" => signature' = profile'.gen,
           thread'.at = "sign" => signature' = profile'.gen,
           KeptOK'
    PROVE  WholeOK'
<1>1. /\ Fam' = Fam /\ Steps' = Steps /\ Enrolled' = Enrolled
      /\ UpdatesTyped /\ ThreadOK /\ ~Idles /\ OthersWhole /\ job.journal
      /\ \A i \in DOMAIN Steps : box[Steps[i]] = Updated(Steps[i])
  BY SameFamily, AdmitsFacts
<1>2. OthersWhole'
  <2>1. Enrolled \subseteq Range(Steps)
    BY AdmitsFacts
  <2> QED BY <1>1, <2>1, OthersKept
<1>3. \A i \in DOMAIN Steps : thread'.at # "unprofile" => Fresh(Steps[i])'
  <2>1. \A i \in DOMAIN Steps : Steps[i] \in Admitted => Steps[i] \in Enrolled
    BY <1>1, FamilyFacts DEF Enrolled
  <2> QED BY <1>1, <2>1 DEF Fresh
<1>4. thread'.at \notin Moves
  BY DEF Moves, Admits
<1>5. ForwardOK'
  BY <1>1, <1>2, <1>3, <1>4 DEF ForwardOK
<1>6. JournalOK'
  BY <1>1 DEF JournalOK
<1> QED BY <1>5, <1>6, ToForward DEF Admits

\* The step that commits the family.
LEMMA AdmitCommits ==
    ASSUME UpdatesSafe, WholeOK, thread.at \in Admits, thread'.at = "record",
           thread'.fam = thread.fam, UNCHANGED <<box, ident, stored>>,
           \A s \in Admitted \ Enrolled : profile'.pins[s] = profile.pins[s],
           \A s \in Enrolled : profile'.pins[s] = NewOf(s),
           signature' = profile'.gen
    PROVE  WholeOK'
<1>1. /\ Fam' = Fam /\ Steps' = Steps
      /\ UpdatesTyped /\ ThreadOK /\ ~Idles /\ OthersWhole
      /\ \A i \in DOMAIN Steps : box[Steps[i]] = Updated(Steps[i])
      /\ Enrolled \subseteq Range(Steps)
  BY SameFamily, AdmitsFacts
<1>2. OthersWhole'
  BY <1>1, OthersKept
<1>3. ASSUME NEW s \in Range(ServicesOf[Fam]) PROVE Replaced(s)'
  <2>1. box[s] = Updated(s)
    BY <1>1, FamilyFacts
  <2>2. s \in Admitted => profile'.pins[s] = NewOf(s)
    BY DEF Enrolled
  <2> QED BY <2>1, <2>2 DEF Replaced, Pinned, NewOf
<1>4. AllWhole'
  BY <1>1, <1>2, <1>3, AllWholeNext
<1> QED BY <1>4, ToRest DEF Rests

\* The steps of refresh_admission; a profile that is not put back is in unseen.
LEMMA AdmissionWhole ==
    ASSUME UpdatesSafe, WholeOK, unseen' = {},
           Admit \/ WriteSignature \/ WriteProfile \/ RestoreProfile \/ RestoreSignature
    PROVE  WholeOK'
<1>1. /\ UpdatesTyped /\ ThreadOK
  BY DEF UpdatesSafe
<1>2. ASSUME thread.at \in Admits \ {"unprofile"} PROVE \A s \in Enrolled : profile.pins[s] =< ident[s]
  <2>1. Enrolled \subseteq Range(Steps) /\ \A i \in DOMAIN Steps : Fresh(Steps[i])
    BY <1>2, AdmitsFacts
  <2>2. \A s \in Enrolled : Fresh(s) /\ s \in Admitted
    BY <2>1 DEF Range, Enrolled
  <2> QED BY <2>2 DEF Fresh
<1>3. CASE Admit
  <2>1. /\ thread.at = "admit" /\ thread.at \in Admits /\ signature = profile.gen
        /\ UNCHANGED <<box, ident, profile, signature, job, stored>>
    BY <1>3 DEF Admit, In, engine, files, request, Admits, WholeOK
  <2>2. CASE Enrolled = {} /\ thread'.at = "record"
    BY <1>1, <1>3, <2>1, <2>2, AdmitFacts, AdmitCommits
  <2>3. CASE thread'.at = "sign" /\ thread'.kept = profile
    <3>1. KeptOK'
      BY <2>1, <2>3 DEF KeptOK
    <3> QED BY <1>1, <1>2, <1>3, <2>1, <2>3, <3>1, AdmitFacts, AdmitGoes DEF Admits
  <2>4. CASE thread'.at = "except" /\ thread'.committed = thread.committed
    BY <1>1, <1>3, <2>1, <2>4, AdmitFacts, AdmitFails
  <2> QED BY <1>1, <1>3, <2>2, <2>3, <2>4, AdmitFacts
<1>4. CASE WriteSignature
  <2>1. /\ thread.at = "sign" /\ thread.at \in Admits /\ profile = thread.kept
        /\ UNCHANGED <<box, ident, profile, job, stored>> /\ thread'.fam = thread.fam
        /\ thread'.kept = thread.kept
        /\ \/ thread'.at = "profile" /\ signature' = profile.gen + 1
           \/ thread'.at = "unprofile"
    BY <1>1, <1>4, OtherActions DEF WriteSignature, SameWork, engine, request, Admits, WholeOK,
        KeptOK
  <2>2. KeptOK'
    <3>1. \A s \in Enrolled : profile.pins[s] =< ident[s]
      BY <1>2, <2>1
    <3>2. Enrolled' = Enrolled
      BY <2>1, SameFamily
    <3> QED BY <2>1, <3>1, <3>2 DEF KeptOK
  <2> QED BY <1>2, <2>1, <2>2, AdmitGoes DEF Admits
<1>5. CASE WriteProfile
  <2>1. /\ thread.at = "profile" /\ thread.at \in Admits /\ profile = thread.kept
        /\ signature = profile.gen + 1
        /\ UNCHANGED <<box, ident, signature, job, stored>> /\ thread'.fam = thread.fam
        /\ \/ profile' = NewProfile /\ thread'.at = "record"
           \/ /\ profile' \in {profile, NewProfile} /\ thread'.at = "unprofile"
              /\ thread'.kept = thread.kept
    BY <1>1, <1>5, WriteProfileFacts DEF WriteProfile, engine, request, Admits, WholeOK, KeptOK
  <2>2. /\ \A s \in Admitted \ Enrolled : NewProfile.pins[s] = profile.pins[s]
        /\ \A s \in Enrolled : NewProfile.pins[s] = NewOf(s)
        /\ NewProfile.gen = profile.gen + 1
    BY DEF NewProfile, Enrolled
  <2>3. CASE profile' = NewProfile /\ thread'.at = "record"
    BY <2>1, <2>2, <2>3, AdmitCommits
  <2>4. CASE profile' \in {profile, NewProfile} /\ thread'.at = "unprofile" /\ thread'.kept = thread.kept
    <3>1. \A s \in Admitted \ Enrolled : profile'.pins[s] = profile.pins[s]
      BY <2>2, <2>4
    <3>2. KeptOK'
      <4>1. \A s \in Enrolled : profile.pins[s] =< ident[s]
        BY <1>2, <2>1
      <4>2. Enrolled' = Enrolled
        BY <2>1, SameFamily
      <4> QED BY <2>1, <2>4, <3>1, <4>1, <4>2 DEF KeptOK
    <3> QED BY <2>1, <2>4, <3>1, <3>2, AdmitGoes DEF Admits
  <2> QED BY <2>1, <2>3, <2>4
<1>6. CASE RestoreProfile
  <2>1. /\ thread.at = "unprofile" /\ thread.at \in Admits /\ thread'.at = "unsign"
        /\ profile' = thread.kept
        /\ UNCHANGED <<box, ident, job, stored>> /\ thread'.fam = thread.fam
        /\ thread'.kept = thread.kept
    <3>1. thread.at = "unprofile" /\ UNCHANGED <<box, ident, job, stored>>
      BY <1>6 DEF RestoreProfile, In, engine, request
    <3>2. Enrolled # {}
      BY <3>1, AdmitsFacts DEF Admits
    <3> QED BY <1>1, <1>6, <3>1, <3>2, OtherActions DEF SameWork, Admits
  <2>2. \A s \in Admitted : IF s \in Enrolled THEN thread.kept.pins[s] =< ident[s]
                            ELSE profile.pins[s] = thread.kept.pins[s]
    BY <2>1 DEF WholeOK, KeptOK
  <2>3. KeptOK'
    BY <2>1 DEF KeptOK
  <2>4. Enrolled \subseteq Admitted
    BY DEF Enrolled
  <2> QED BY <2>1, <2>2, <2>3, <2>4, AdmitGoes DEF Admits
<1>7. CASE RestoreSignature
  <2>1. /\ thread.at = "unsign" /\ UNCHANGED <<box, ident, profile, job, stored>>
        /\ profile = thread.kept
    BY <1>7 DEF RestoreSignature, In, engine, request, WholeOK, KeptOK
  <2>2. Enrolled # {} /\ thread.at \in Admits
    BY <2>1, AdmitsFacts DEF Admits
  <2>3. /\ thread'.at = "except" /\ signature' = profile.gen
        /\ thread'.fam = thread.fam /\ thread'.backups = thread.backups
        /\ thread'.committed = thread.committed
    BY <1>1, <1>7, <2>1, <2>2, OtherActions DEF SameWork
  <2> QED BY <2>1, <2>2, <2>3, AdmitFails
<1> QED BY <1>3, <1>4, <1>5, <1>6, <1>7

----------------------------------------------------------------------------
(* The except clause                                                          *)

\* What holds in the except clause.
LEMMA FailFacts ==
    ASSUME UpdatesSafe, WholeOK, thread.at \in Fails
    PROVE  /\ UpdatesTyped /\ ThreadOK /\ BackupsOK /\ ~Idles /\ signature = profile.gen
           /\ thread.committed \/ thread.backups = <<>> => AllWhole
           /\ ~job.journal => AllWhole
           /\ Backups \subseteq DOMAIN Steps /\ Backups = 1 .. Len(thread.backups)
           /\ Len(thread.backups) \in Nat /\ thread.undo \in 0 .. Len(thread.backups)
           /\ thread.stuck \in BOOLEAN /\ thread \in Locals
<1>1. /\ UpdatesTyped /\ ThreadOK /\ BackupsOK /\ ~Idles
  BY DEF UpdatesSafe, Idles, Fails, Undoes
<1>2. /\ signature = profile.gen /\ (thread.committed \/ thread.backups = <<>> => AllWhole)
      /\ (~job.journal => AllWhole)
  BY <1>1 DEF WholeOK, BackwardOK, JournalOK, Fails, Undoes
<1>3. thread.backups \in Seq(Entries) /\ thread.stuck \in BOOLEAN /\ thread \in Locals
  BY <1>1 DEF UpdatesTyped, Locals
<1> QED BY <1>1, <1>2, <1>3, AtWork DEF ThreadOK

\* What holds in the except clause while something is to undo.
LEMMA BackFacts ==
    ASSUME UpdatesSafe, WholeOK, thread.at \in Fails, ~thread.committed, thread.backups # <<>>
    PROVE  /\ OthersWhole /\ UndoneOK
           /\ \A i \in DOMAIN Steps :
                 /\ Fresh(Steps[i])
                 /\ i \notin Backups => box[Steps[i]] = Original(Steps[i])
                 /\ i \in Backups =>
                      IF thread.at = "except" \/ i < thread.undo \/ (thread.at = "undo" /\ i = thread.undo)
                      THEN Fits(i)
                      ELSE i = thread.undo \/ thread.stuck \/ box[Steps[i]] = Original(Steps[i])
BY DEF WholeOK, BackwardOK

\* A step of the except clause that changes one container at most.
LEMMA FailWhole ==
    ASSUME UpdatesSafe, WholeOK, thread.at \in Fails, thread'.at \in Fails,
           thread'.fam = thread.fam, thread'.backups = thread.backups,
           thread'.committed = thread.committed,
           UNCHANGED <<ident, profile, signature, job, stored>>,
           \A s \in Services \ {Undone.svc} : box'[s] = box[s],
           box' = box \/ thread.at \in Undoes,
           ~job.journal => box' = box,
           ~thread.committed /\ thread.backups # <<>> =>
               /\ UndoneOK'
               /\ thread'.at = "report" => thread'.undo = 0
               /\ \A i \in Backups :
                     IF thread'.at = "except" \/ i < thread'.undo \/ (thread'.at = "undo" /\ i = thread'.undo)
                     THEN thread.at = "except" \/ i < thread.undo \/ (thread.at = "undo" /\ i = thread.undo)
                     ELSE \/ i = thread'.undo \/ thread'.stuck
                          \/ i > thread.undo /\ thread.at # "except" /\ ~thread.stuck
                          \/ i = thread.undo /\ box'[Steps[i]] = Original(Steps[i])
    PROVE  WholeOK'
<1>1. /\ UpdatesTyped /\ ThreadOK /\ BackupsOK /\ ~Idles /\ signature' = profile'.gen
      /\ Backups \subseteq DOMAIN Steps /\ Backups \subseteq Nat /\ thread.undo \in Nat
      /\ ~job.journal => AllWhole
  BY FailFacts
<1>2. /\ Fam' = Fam /\ Steps' = Steps /\ Backups' = Backups
  BY SameFamily
<1>3. CASE thread.committed \/ thread.backups = <<>>
  <2>1. box' = box
    BY <1>1, <1>3 DEF ThreadOK, Undoes
  <2>2. AllWhole'
    BY <1>3, <2>1, FailFacts, AllKept
  <2> QED BY <1>3, <2>2, ToWholeFail
<1>4. CASE ~thread.committed /\ thread.backups # <<>>
  <2>1. /\ OthersWhole
        /\ \A i \in DOMAIN Steps :
              /\ Fresh(Steps[i])
              /\ i \notin Backups => box[Steps[i]] = Original(Steps[i])
              /\ i \in Backups =>
                   IF thread.at = "except" \/ i < thread.undo \/ (thread.at = "undo" /\ i = thread.undo)
                   THEN Fits(i)
                   ELSE i = thread.undo \/ thread.stuck \/ box[Steps[i]] = Original(Steps[i])
    BY <1>4, BackFacts
  <2>2. \A i \in DOMAIN Steps : i # thread.undo \/ thread.at \notin Undoes => box'[Steps[i]] = box[Steps[i]]
    <3>1. CASE box' = box
      BY <3>1
    <3>2. CASE thread.at \in Undoes
      <4>1. thread.undo \in DOMAIN Steps /\ Undone.svc = Steps[thread.undo]
        BY <1>1, <3>2, AtWork
      <4> QED BY <1>1, <3>2, <4>1, FamilyFacts
    <3> QED BY <3>1, <3>2
  <2>3. OthersWhole'
    <3>1. \A s \in Services \ Range(Steps) : box'[s] = box[s]
      <4>1. CASE box' = box
        BY <4>1
      <4>2. CASE thread.at \in Undoes
        <5>1. thread.undo \in DOMAIN Steps /\ Undone.svc = Steps[thread.undo]
          BY <1>1, <4>2, AtWork
        <5>2. Undone.svc \in Range(Steps)
          BY <5>1 DEF Range
        <5> QED BY <5>2
      <4> QED BY <4>1, <4>2
    <3> QED BY <1>1, <1>2, <2>1, <3>1, OthersKept
  <2>4. \A i \in DOMAIN Steps : Fresh(Steps[i])'
    BY <1>2, <2>1 DEF Fresh
  <2>5. \A i \in DOMAIN Steps : i \notin Backups => (box[Steps[i]] = Original(Steps[i]))'
    <3>1. thread.at \in Undoes => thread.undo \in Backups
      BY <1>1, AtWork
    <3> QED BY <1>2, <2>1, <2>2, <3>1
  <2>6. ASSUME NEW i \in Backups
        PROVE  IF thread'.at = "except" \/ i < thread'.undo \/ (thread'.at = "undo" /\ i = thread'.undo)
               THEN Fits(i)'
               ELSE i = thread'.undo \/ thread'.stuck \/ (box[Steps[i]] = Original(Steps[i]))'
    <3>1. CASE thread'.at = "except" \/ i < thread'.undo \/ (thread'.at = "undo" /\ i = thread'.undo)
      <4>1. thread.at = "except" \/ i < thread.undo \/ (thread.at = "undo" /\ i = thread.undo)
        BY <1>4, <3>1
      <4>2. Fits(i) /\ i \in DOMAIN Steps
        BY <1>1, <2>1, <4>1
      <4>3. i # thread.undo \/ thread.at \notin Undoes
        BY <1>1, <4>1 DEF Undoes
      <4>4. box'[Steps[i]] = box[Steps[i]]
        BY <2>2, <4>2, <4>3
      <4> QED BY <1>2, <3>1, <4>2, <4>4 DEF Fits
    <3>2. CASE ~(thread'.at = "except" \/ i < thread'.undo \/ (thread'.at = "undo" /\ i = thread'.undo))
      <4>1. CASE i > thread.undo /\ thread.at # "except" /\ ~thread.stuck
        <5>1. ~(i < thread.undo) /\ i # thread.undo /\ i \in DOMAIN Steps
          BY <1>1, <4>1
        <5> QED BY <1>2, <2>1, <2>2, <3>2, <4>1, <5>1
      <4>2. CASE i = thread'.undo \/ thread'.stuck
        BY <3>2, <4>2
      <4>3. CASE i = thread.undo /\ box'[Steps[i]] = Original(Steps[i])
        BY <1>2, <3>2, <4>3
      <4> QED BY <1>4, <3>2, <4>1, <4>2, <4>3
    <3> QED BY <3>1, <3>2
  <2>7. UndoneOK' /\ (thread'.at = "report" => thread'.undo = 0)
    BY <1>4
  <2>8. BackwardOK'
    BY <1>2, <1>4, <2>3, <2>4, <2>5, <2>6, <2>7 DEF BackwardOK
  <2>9. JournalOK'
    <3>1. CASE job.journal
      BY <3>1 DEF JournalOK
    <3>2. CASE ~job.journal
      <4>1. \A i \in Backups : thread.backups[i].phase = "prepared" /\ box[Steps[i]] = Original(Steps[i])
        BY <1>1, <1>4, <3>2 DEF WholeOK, JournalOK
      <4>2. AllWhole' /\ box' = box
        BY <1>1, <3>2, AllKept
      <4>3. \A i \in Backups : (thread.backups[i].phase = "prepared" /\ box[Steps[i]] = Original(Steps[i]))'
        BY <1>2, <4>1, <4>2
      <4> QED BY <1>2, <4>2, <4>3 DEF JournalOK, Fails, Undoes
    <3> QED BY <3>1, <3>2
  <2> QED BY <1>1, <2>8, <2>9, ToBackward
<1> QED BY <1>3, <1>4

\* The except clause begins: every backup is to undo.
LEMMA LogErrorWhole ==
    ASSUME UpdatesSafe, WholeOK, LogError
    PROVE  WholeOK'
<1>1. /\ thread.at = "except" /\ UpdatesTyped /\ thread.at \in Fails
      /\ UNCHANGED <<box, ident, profile, signature, job, stored>>
  BY DEF LogError, In, UpdatesSafe, engine, files, request, Fails
<1>2. CASE thread' = NoThread
  BY <1>1, <1>2, EndFacts, CutWhole
<1>3. CASE thread' # NoThread
  <2>1. /\ thread'.fam = thread.fam /\ thread'.backups = thread.backups
        /\ thread'.committed = thread.committed /\ thread'.undo = Len(thread.backups)
        /\ thread'.at = IF thread.committed THEN "report" ELSE "undo"
    BY <1>1, <1>3, LogErrorFacts
  <2>2. ~thread.committed => UndoneOK'
    BY <2>1 DEF UndoneOK
  <2>3. \A i \in Backups : i < thread'.undo \/ i = thread'.undo
    BY <1>1, <2>1, FailFacts
  <2> QED BY <1>1, <2>1, <2>2, <2>3, FailWhole DEF Fails
<1> QED BY <1>2, <1>3

\* A backup is skipped or its undo begins.
LEMMA UndoBackupWhole ==
    ASSUME UpdatesSafe, WholeOK, UndoBackup
    PROVE  WholeOK'
<1>1. /\ thread.at = "undo" /\ UpdatesTyped /\ thread.at \in Fails
      /\ UNCHANGED <<box, ident, profile, signature, job, stored>>
  BY DEF UndoBackup, In, UpdatesSafe, engine, files, request, Fails
<1>2. /\ Backups \subseteq DOMAIN Steps /\ Backups \subseteq Nat \ {0} /\ thread.undo \in Nat
      /\ thread.stuck \in BOOLEAN /\ Steps' = Steps
  BY <1>1, FailFacts, UndoBackupFacts, SameFamily DEF SameUndo
<1>3. SameUndo
  BY <1>1, UndoBackupFacts
<1>4. CASE thread.undo = 0 /\ thread'.at = "report" /\ thread'.undo = 0 /\ thread'.stuck = thread.stuck
  <2>1. UndoneOK'
    BY <1>4 DEF UndoneOK
  <2>2. \A i \in Backups : i > thread.undo /\ ~(i < thread'.undo)
    BY <1>2, <1>4
  <2> QED BY <1>1, <1>2, <1>3, <1>4, <2>1, <2>2, FailWhole DEF Fails, SameUndo
<1>5. CASE thread.undo # 0 /\ thread'.at = "undo" /\ thread'.undo = thread.undo - 1 /\ thread'.stuck
  <2>1. UndoneOK'
    BY <1>5 DEF UndoneOK
  <2>2. \A i \in Backups : i < thread'.undo \/ i = thread'.undo => i < thread.undo
    BY <1>2, <1>5
  <2> QED BY <1>1, <1>2, <1>3, <1>5, <2>1, <2>2, FailWhole DEF Fails, SameUndo
<1>6. CASE /\ thread.undo # 0 /\ thread'.at = "delete" /\ thread'.undo = thread.undo
           /\ thread'.stuck = thread.stuck
  <2>1. ~thread.committed /\ thread.backups # <<>> => UndoneOK'
    <3>1. ASSUME ~thread.committed, thread.backups # <<>> PROVE Fits(thread.undo)
      <4>1. thread.undo \in Backups
        BY <1>1, <1>6, FailFacts
      <4> QED BY <1>1, <1>2, <3>1, <4>1, BackFacts
    <3>2. Fits(thread.undo) => Fits(thread.undo)'
      BY <1>1, <1>2, <1>3, <1>6 DEF Fits, SameUndo
    <3> QED BY <1>6, <3>1, <3>2 DEF UndoneOK, Fits
  <2>2. \A i \in Backups : i < thread.undo \/ i = thread.undo \/ i > thread.undo
    BY <1>2
  <2> QED BY <1>1, <1>2, <1>3, <1>6, <2>1, <2>2, FailWhole DEF Fails, Undoes, SameUndo
<1> QED BY <1>1, <1>4, <1>5, <1>6, UndoBackupFacts

\* The report of the except clause: what could not be undone asks for recovery.
LEMMA ReportWhole ==
    ASSUME UpdatesSafe, WholeOK, Report
    PROVE  WholeOK'
<1>1. /\ thread.at = "report" /\ UpdatesTyped /\ thread.at \in Fails /\ thread'.at = "idle"
      /\ UNCHANGED <<box, ident, profile, signature, stored>>
  BY EndFacts DEF Report, In, UpdatesSafe, engine, files, Fails
<1>2. CASE job' = job
  BY <1>1, <1>2, CutWhole
<1>3. CASE job' = [job EXCEPT !.status = Outcome, !.recovery = thread.stuck]
  <2>1. job'.recovery = thread.stuck
    <3>1. job \in Records
      BY <1>1 DEF UpdatesTyped
    <3> QED BY <1>3, <3>1 DEF Records
  <2>2. CASE thread.committed \/ thread.backups = <<>>
    BY <1>1, <2>2, FailFacts, AllKept, ToEnd
  <2>3. CASE thread.stuck
    BY <1>1, <2>1, <2>3, ToEnd
  <2>4. CASE ~(thread.committed \/ thread.backups = <<>>) /\ ~thread.stuck
    <3>1. /\ OthersWhole /\ thread.undo = 0
          /\ \A i \in DOMAIN Steps : /\ Fresh(Steps[i])
                                     /\ box[Steps[i]] = Original(Steps[i])
      <4>1. thread.undo = 0
        BY <1>1, <2>4 DEF WholeOK, BackwardOK
      <4>2. \A i \in Backups : ~(i < thread.undo) /\ i # thread.undo
        BY <1>1, <4>1, FailFacts
      <4> QED BY <1>1, <2>4, <4>1, <4>2, BackFacts
    <3>2. \A s \in Range(ServicesOf[Fam]) : Untouched(s)
      BY <1>1, <3>1, FailFacts, FamilyFacts DEF Untouched
    <3>3. AllWhole
      BY <1>1, <3>1, <3>2, FailFacts DEF AllWhole, OthersWhole, Whole
    <3> QED BY <1>1, <3>3, AllKept, ToEnd
  <2> QED BY <2>2, <2>3, <2>4
<1> QED BY <1>2, <1>3 DEF Report

\* A call of the undo that goes on, or ends the undo of its service.
LEMMA UndoneWhole ==
    ASSUME UpdatesSafe, WholeOK, thread.at \in Undoes, NEW needed \in BOOLEAN, NEW b,
           NEW a \in Undoes \cup {"undo"}, UndoneTo(needed, b, a),
           ~job.journal /\ needed => b = Old,
           thread'.at = a /\ a # "undo" => UndoneOK',
           a = "undo" /\ ~thread'.stuck => box'[Undone.svc] = Original(Undone.svc)
    PROVE  WholeOK'
<1>1. /\ thread.at \in Fails /\ UpdatesTyped /\ ThreadOK /\ BackupsOK
  BY DEF Fails, UpdatesSafe
<1>2. /\ Backups \subseteq DOMAIN Steps /\ Backups \subseteq Nat \ {0} /\ thread.undo \in Nat \ {0}
      /\ thread.stuck \in BOOLEAN /\ Steps' = Steps /\ thread.undo \in Backups
      /\ Undone.svc = Steps[thread.undo] /\ Undone.svc \in Services
  BY <1>1, FailFacts, AtWork, SameFamily DEF SameUndo, UndoneTo
<1>3. /\ SameUndo /\ UNCHANGED <<ident, profile, signature, job, stored>>
      /\ box' \in [Services -> Boxes] /\ \A s \in Services \ {Undone.svc} : box'[s] = box[s]
      /\ \/ /\ box'[Undone.svc] = IF needed THEN b ELSE Old
            /\ thread'.at = a /\ thread'.stuck = thread.stuck
            /\ thread'.undo = IF a = "undo" THEN thread.undo - 1 ELSE thread.undo
         \/ /\ needed /\ (box' = box \/ box'[Undone.svc] = b)
            /\ thread'.at = "undo" /\ thread'.stuck /\ thread'.undo = thread.undo - 1
  BY DEF UndoneTo
<1>4. ~job.journal => box' = box
  <2>1. ~job.journal => box'[Undone.svc] = box[Undone.svc]
    BY <1>3 DEF Old
  <2>2. box \in [Services -> Boxes]
    BY <1>1 DEF UpdatesTyped
  <2> QED BY <1>3, <2>1, <2>2
<1>5. CASE thread'.at = "undo" /\ thread'.undo = thread.undo - 1
  <2>1. UndoneOK'
    BY <1>5 DEF UndoneOK
  <2>2. \A i \in Backups : i < thread'.undo \/ i = thread'.undo => i < thread.undo
    BY <1>2, <1>5
  <2>3. \A i \in Backups : i < thread'.undo \/ i = thread'.undo \/ i > thread.undo \/ i = thread.undo
    BY <1>2, <1>5
  <2>4. thread'.stuck \/ (a = "undo" /\ thread'.stuck = thread.stuck)
    BY <1>3, <1>5
  <2>5. thread'.stuck \/ (~thread.stuck /\ box'[Steps[thread.undo]] = Original(Steps[thread.undo]))
    BY <1>2, <2>4
  <2>6. \A i \in Backups :
           IF thread'.at = "except" \/ i < thread'.undo \/ (thread'.at = "undo" /\ i = thread'.undo)
           THEN i < thread.undo
           ELSE \/ thread'.stuck
                \/ i > thread.undo /\ thread.at # "except" /\ ~thread.stuck
                \/ i = thread.undo /\ box'[Steps[i]] = Original(Steps[i])
    BY <1>5, <2>2, <2>3, <2>5 DEF Undoes
  <2> QED BY <1>1, <1>2, <1>3, <1>4, <1>5, <2>1, <2>6, FailWhole DEF Fails, SameUndo
<1>6. CASE thread'.at = a /\ a # "undo" /\ thread'.undo = thread.undo /\ thread'.stuck = thread.stuck
  <2>1. UndoneOK' /\ thread'.at \in Undoes
    BY <1>6
  <2>2. \A i \in Backups : i < thread.undo \/ i = thread.undo \/ i > thread.undo
    BY <1>2
  <2> QED BY <1>1, <1>2, <1>3, <1>4, <1>6, <2>1, <2>2, FailWhole DEF Fails, Undoes, SameUndo
<1> QED BY <1>3, <1>5, <1>6

\* The calls of the undo; without a journal they change nothing.
LEMMA UndoesWhole ==
    ASSUME UpdatesSafe, WholeOK,
           DeleteNew \/ RenameBack \/ Reconnect \/ RestorePolicy \/ StartOld
    PROVE  WholeOK'
<1>1. /\ UpdatesTyped /\ ThreadOK /\ BackupsOK /\ OldOK /\ UndoneOK
  <2>1. /\ UpdatesTyped /\ ThreadOK /\ BackupsOK /\ OldOK /\ thread.at \in Undoes
    BY Zenon DEF UpdatesSafe, DeleteNew, RenameBack, Reconnect, RestorePolicy, StartOld, In, Undoes
  <2>2. ~thread.committed /\ thread.backups # <<>> /\ thread.at \in Fails
    BY <2>1, AtWork DEF ThreadOK, Fails
  <2> QED BY <2>1, <2>2, BackFacts
<1>2. ASSUME thread.at \in Undoes
      PROVE  /\ Old \in Boxes /\ Undone \in Entries /\ thread.undo \in Backups /\ Undone.svc \in Services
             /\ Undone.newId => Undone.phase = "renamed"
             /\ ~job.journal => Undone.phase = "prepared" /\ Old = Original(Undone.svc)
             /\ Old.up => Undone.svc \in WasUp
             /\ Undone = thread.backups[thread.undo] /\ Undone.svc = Steps[thread.undo]
             /\ Old = box[Undone.svc]
  <2>1. /\ Undone \in Entries /\ Undone = thread.backups[thread.undo]
        /\ Undone.svc = Steps[thread.undo] /\ thread.undo \in Backups /\ Undone.svc \in Services
    BY <1>1, <1>2, AtWork
  <2>2. Old \in Boxes /\ (Old.up => Undone.svc \in WasUp)
    BY <1>1, <2>1 DEF Old, OldOK, UpdatesTyped
  <2>3. Undone.newId => Undone.phase = "renamed"
    BY <1>1, <2>1 DEF BackupsOK
  <2>4. ~job.journal => Undone.phase = "prepared" /\ Old = Original(Undone.svc)
    <3>1. ~Idles /\ thread.at \in Fails /\ ~thread.committed
      BY <1>1, <1>2 DEF Idles, Undoes, Fails, ThreadOK
    <3> QED BY <2>1, <3>1 DEF WholeOK, JournalOK, Old
  <2> QED BY <2>1, <2>2, <2>3, <2>4 DEF Old
<1>3. ASSUME NEW needed, NEW b, NEW a, UndoneTo(needed, b, a), thread'.undo = thread.undo
      PROVE  /\ Undone' = Undone /\ Old' = box'[Undone.svc]
             /\ Undone.svc = Steps[thread.undo] /\ Undone = thread.backups[thread.undo]
                => (Fits(thread.undo)' <=> (Undone.phase = "prepared" =>
                       Old'.name = "own" /\ Old'.net /\ Old'.new = "none"))
  <2>1. Undone' = Undone /\ Steps' = Steps /\ thread'.backups = thread.backups
    BY <1>3, SameFamily DEF UndoneTo, SameUndo
  <2>2. Old' = box'[Undone.svc]
    BY <2>1 DEF Old
  <2> QED BY <1>3, <2>1, <2>2 DEF Fits
<1>4. CASE DeleteNew
  <2> DEFINE b == [Old EXCEPT !.new = "none"]
             needed == Undone.newId
  <2>1. thread.at = "delete" /\ UndoneTo(needed, b, "back") /\ thread.at \in Undoes
    BY <1>1, <1>4, UndoActions DEF Undoes
  <2>2. /\ b.new = "none" /\ b.name = Old.name /\ b.up = Old.up
        /\ b.policy = Old.policy /\ b.net = Old.net
    BY <1>2, <2>1 DEF Boxes
  <2>5. b \in Boxes
    BY Zenon, <1>2, <2>1, BoxEdit
  <2>6. needed \in BOOLEAN
    BY <1>2, <2>1 DEF Boxes, Entries
  <2> HIDE DEF b
  <2>3. ~job.journal => ~needed
    BY <1>2, <2>1
  <2>4. thread'.at = "back" => UndoneOK'
    <3> SUFFICES ASSUME thread'.at = "back" PROVE UndoneOK'
      OBVIOUS
    <3>1. thread'.undo = thread.undo /\ box'[Undone.svc] = IF needed THEN b ELSE Old
      BY <2>1 DEF UndoneTo
    <3>2. Undone' = Undone /\ Old' = box'[Undone.svc]
      BY <1>3, <2>1, <3>1
    <3>3. Undone.phase = "prepared" => Old'.name = "own" /\ Old'.net /\ Old'.new = "none"
      <4>1. Fits(thread.undo) =>
               (Undone.phase = "prepared" => Old.name = "own" /\ Old.net /\ Old.new = "none")
        BY <1>2, <2>1 DEF Fits
      <4>2. Undone.phase = "prepared" => ~needed
        BY <1>2, <2>1
      <4> QED BY <1>1, <2>1, <3>1, <3>2, <4>1, <4>2 DEF UndoneOK
    <3>4. Fits(thread.undo)'
      BY <1>2, <1>3, <2>1, <3>1, <3>3
    <3> QED BY <3>4 DEF UndoneOK
  <2> HIDE DEF needed
  <2> QED BY <2>1, <2>2, <2>3, <2>4, <2>5, <2>6, UndoneWhole DEF Undoes
<1>5. CASE RenameBack
  <2> DEFINE b == [Old EXCEPT !.name = "own"]
             needed == Undone.phase = "renamed"
  <2>1. thread.at = "back" /\ UndoneTo(needed, b, "reconnect") /\ thread.at \in Undoes
    BY <1>1, <1>5, UndoActions DEF Undoes
  <2>2. /\ b.name = "own" /\ b.up = Old.up /\ b.policy = Old.policy
        /\ b.net = Old.net /\ b.new = Old.new
    BY <1>2, <2>1 DEF Boxes
  <2>5. b \in Boxes
    BY Zenon, <1>2, <2>1, BoxEdit
  <2>6. needed \in BOOLEAN
    BY <1>2, <2>1 DEF Boxes, Entries
  <2> HIDE DEF b
  <2>3. ~job.journal => ~needed
    BY <1>2, <2>1
  <2>4. thread'.at = "reconnect" => UndoneOK'
    <3> SUFFICES ASSUME thread'.at = "reconnect" PROVE UndoneOK'
      OBVIOUS
    <3>1. thread'.undo = thread.undo /\ box'[Undone.svc] = IF needed THEN b ELSE Old
      BY <2>1 DEF UndoneTo
    <3>2. Undone' = Undone /\ Old' = box'[Undone.svc]
      BY <1>3, <2>1, <3>1
    <3>3. Undone.phase # "renamed" \/ Old.new = "none"
      BY <1>1, <1>5, UndoActions
    <3>4. Fits(thread.undo) =>
             (Undone.phase = "prepared" => Old.name = "own" /\ Old.net /\ Old.new = "none")
      BY <1>2, <2>1 DEF Fits
    <3>5. Undone.phase = "prepared" \/ Undone.phase = "renamed"
      BY <1>2, <2>1 DEF Entries
    <3>6. Old'.name = "own" /\ Old'.new = "none"
      BY <1>1, <2>1, <2>2, <3>1, <3>2, <3>3, <3>4, <3>5 DEF UndoneOK
    <3> QED BY <3>6 DEF UndoneOK
  <2> HIDE DEF needed
  <2> QED BY <2>1, <2>2, <2>3, <2>4, <2>5, <2>6, UndoneWhole DEF Undoes
<1>6. CASE Reconnect
  <2> DEFINE b == [Old EXCEPT !.net = TRUE]
             needed == ~Old.net
  <2>1. thread.at = "reconnect" /\ UndoneTo(needed, b, "repolicy") /\ thread.at \in Undoes
    BY <1>1, <1>6, UndoActions DEF Undoes
  <2>2. /\ b.net = TRUE /\ b.name = Old.name /\ b.up = Old.up
        /\ b.policy = Old.policy /\ b.new = Old.new
    BY <1>2, <2>1 DEF Boxes
  <2>5. b \in Boxes
    BY Zenon, <1>2, <2>1, BoxEdit
  <2>6. needed \in BOOLEAN
    BY <1>2, <2>1 DEF Boxes, Entries
  <2> HIDE DEF b
  <2>3. ~job.journal => ~needed
    BY <1>2, <2>1, OriginalFields
  <2>4. thread'.at = "repolicy" => UndoneOK'
    <3> SUFFICES ASSUME thread'.at = "repolicy" PROVE UndoneOK'
      OBVIOUS
    <3>1. thread'.undo = thread.undo /\ box'[Undone.svc] = IF needed THEN b ELSE Old
      BY <2>1 DEF UndoneTo
    <3>2. Undone' = Undone /\ Old' = box'[Undone.svc]
      BY <1>3, <2>1, <3>1
    <3>3. Old'.name = "own" /\ Old'.new = "none" /\ Old'.net
      BY <1>1, <2>1, <2>2, <3>1, <3>2 DEF UndoneOK
    <3> QED BY <3>3 DEF UndoneOK
  <2> HIDE DEF needed
  <2> QED BY <2>1, <2>2, <2>3, <2>4, <2>5, <2>6, UndoneWhole DEF Undoes
<1>7. CASE RestorePolicy
  <2> DEFINE b == [Old EXCEPT !.policy = TRUE]
             needed == TRUE
  <2>1. thread.at = "repolicy" /\ UndoneTo(needed, b, "revive") /\ thread.at \in Undoes
    BY Zenon, <1>1, <1>7, UndoActions DEF Undoes
  <2>2. b.policy = TRUE /\ b.name = Old.name /\ b.up = Old.up /\ b.net = Old.net /\ b.new = Old.new
    BY <1>2, <2>1 DEF Boxes
  <2>5. b \in Boxes
    BY Zenon, <1>2, <2>1, BoxEdit
  <2>6. needed \in BOOLEAN
    BY <1>2, <2>1 DEF Boxes, Entries
  <2> HIDE DEF b
  <2>3. ~job.journal /\ needed => b = Old
    <3>1. ~job.journal /\ needed => b = Original(Undone.svc)
      <4>1. ~job.journal => Old = Original(Undone.svc)
        BY <1>2, <2>1
      <4> QED BY <2>2, <2>5, <4>1, OriginalFields
    <3> QED BY <1>2, <2>1, <3>1
  <2>4. thread'.at = "revive" => UndoneOK'
    <3> SUFFICES ASSUME thread'.at = "revive" PROVE UndoneOK'
      OBVIOUS
    <3>1. thread'.undo = thread.undo /\ box'[Undone.svc] = IF needed THEN b ELSE Old
      BY <2>1 DEF UndoneTo
    <3>2. Undone' = Undone /\ Old' = box'[Undone.svc]
      BY Zenon, <1>3, <2>1, <3>1
    <3>3. Old'.name = "own" /\ Old'.new = "none" /\ Old'.net /\ Old'.policy
      BY <1>1, <2>1, <2>2, <3>1, <3>2 DEF UndoneOK
    <3> QED BY <3>3 DEF UndoneOK
  <2> HIDE DEF needed
  <2> QED BY <2>1, <2>2, <2>3, <2>4, <2>5, <2>6, UndoneWhole DEF Undoes
<1>8. CASE StartOld
  <2> DEFINE b == [Old EXCEPT !.up = TRUE]
             needed == Undone.svc \in WasUp
  <2>1. thread.at = "revive" /\ UndoneTo(needed, b, "undo") /\ thread.at \in Undoes
    BY <1>1, <1>8, UndoActions DEF Undoes
  <2>2. /\ b.up = TRUE /\ b.name = Old.name /\ b.policy = Old.policy
        /\ b.net = Old.net /\ b.new = Old.new
    BY <1>2, <2>1 DEF Boxes
  <2>5. b \in Boxes
    BY Zenon, <1>2, <2>1, BoxEdit
  <2>6. needed \in BOOLEAN
    BY <1>2, <2>1 DEF Boxes, Entries
  <2> HIDE DEF b
  <2>3. ~job.journal /\ needed => b = Old
    <3>1. ~job.journal /\ needed => b = Original(Undone.svc)
      <4>1. ~job.journal => Old = Original(Undone.svc)
        BY <1>2, <2>1
      <4> QED BY <2>2, <2>5, <4>1, OriginalFields
    <3> QED BY <1>2, <2>1, <3>1
  <2>4. ~thread'.stuck => box'[Undone.svc] = Original(Undone.svc)
    <3>1. ~thread'.stuck => box'[Undone.svc] = IF needed THEN b ELSE Old
      BY <2>1 DEF UndoneTo
    <3>2. Old.name = "own" /\ Old.new = "none" /\ Old.net /\ Old.policy
      BY <1>1, <2>1 DEF UndoneOK
    <3>3. CASE needed
      BY Zenon, <2>2, <2>5, <3>1, <3>2, <3>3, OriginalFields
    <3>4. CASE ~needed
      BY <1>2, <2>1, <3>1, <3>2, <3>4, OriginalFields
    <3> QED BY <3>3, <3>4
  <2> HIDE DEF needed
  <2> QED BY <2>1, <2>2, <2>3, <2>4, <2>5, <2>6, UndoneWhole DEF Undoes
<1> QED BY <1>4, <1>5, <1>6, <1>7, <1>8

----------------------------------------------------------------------------
(* What an operation leaves                                                   *)

\* Damage that nobody was told of is not forgotten.
LEMMA UnseenGrows ==
    ASSUME UpdatesTyped, ThreadOK, BackupsOK, UpdatesNext
    PROVE  unseen \subseteq unseen'
<1>1. CASE DropPolicy \/ Stop \/ Rename \/ Disconnect \/ Create \/ Start
  BY <1>1, CallActions DEF Called
<1>2. CASE RestoreProfile \/ RestoreSignature
  BY <1>2 DEF RestoreProfile, RestoreSignature
<1>3. CASE ~(DropPolicy \/ Stop \/ Rename \/ Disconnect \/ Create \/ Start \/ RestoreProfile
             \/ RestoreSignature)
  <2>1. unseen' = unseen
    BY Zenon, <1>3 DEF UpdatesNext, Plan, Submit, Expire, TakeLock, Bind, Images, BeginFamily,
        JournalPrepared, SnapshotDatabase, JournalRenamed, JournalCreated, JournalStarted, Verify,
        Admit, WriteSignature, WriteProfile, Record, Finish, LogError, UndoBackup, DeleteNew,
        RenameBack, Reconnect, RestorePolicy, StartOld, Report, Crash, Restart, Redeploy, Journal,
        UndoIf, UndoCall
  <2> QED BY <2>1
<1> QED BY <1>1, <1>2, <1>3

\* The service starts with every family untouched.
LEMMA WholeInit ==
    ASSUME UpdatesInit
    PROVE  WholeOK
<1>1. /\ thread.at = "idle" /\ box = [s \in Services |-> Original(s)]
      /\ ident = [s \in Services |-> 0]
      /\ profile.pins = [s \in Admitted |-> 0] /\ signature = profile.gen
  BY DEF UpdatesInit, NoThread, FirstProfile
<1>2. ASSUME NEW f \in Families PROVE Whole(f)
  <2>1. Range(ServicesOf[f]) \subseteq Services
    <3>1. ServicesOf[f] \in Seq(Services)
      BY UpdatesAssumption
    <3> QED BY <3>1 DEF Range
  <2> QED BY <1>1, <2>1 DEF Whole, Untouched, Fresh
<1>3. AllWhole
  BY <1>1, <1>2 DEF AllWhole
<1> QED BY <1>1, <1>3 DEF WholeOK, KeptOK, ForwardOK, BackwardOK, JournalOK, Idles, Rests, Waits,
        Moves, Admits, Fails, Undoes

\* Every step without unseen damage keeps WholeOK.
LEMMA WholeStep ==
    ASSUME UpdatesSafe, WholeOK, unseen' = {}, [UpdatesNext]_updateVars
    PROVE  WholeOK'
<1>1. CASE UpdatesNext
  BY <1>1, IdleWhole, RestWhole, RedeployWhole, BeginFamilyWhole, CallsWhole, JournalsWhole,
     SnapshotWhole, VerifyWhole, AdmissionWhole, LogErrorWhole, UndoBackupWhole, UndoesWhole,
     ReportWhole
  DEF UpdatesNext
<1>2. CASE UNCHANGED updateVars
  <2>1. UNCHANGED <<box, ident, profile, signature, job, stored, thread>>
    BY <1>2 DEF updateVars
  <2>2. /\ Fam' = Fam /\ Steps' = Steps /\ Enrolled' = Enrolled /\ Svc' = Svc /\ Backups' = Backups
        /\ Undone' = Undone
    BY <2>1, SameFamily
  <2>3. AllWhole => AllWhole'
    BY <2>1, AllKept
  <2>4. OthersWhole => OthersWhole'
    <3>1. ASSUME OthersWhole, NEW f \in Families \ {Fam} PROVE Whole(f)'
      BY <2>1, <3>1, SameWhole DEF OthersWhole
    <3> QED BY <2>2, <3>1 DEF OthersWhole
  <2>5. KeptOK'
    BY <2>1, <2>2 DEF WholeOK, KeptOK
  <2>6. (Shape => Shape') /\ (UndoneOK => UndoneOK')
    <3>1. Old' = Old /\ \A i : Fits(i)' = Fits(i)
      BY <2>1, <2>2 DEF Old, Fits
    <3> QED BY <2>1, <2>2, <3>1 DEF Shape, UndoneOK
  <2>7. ForwardOK'
    BY <2>1, <2>2, <2>4, <2>6 DEF WholeOK, ForwardOK, Fresh
  <2>8. BackwardOK'
    BY <2>1, <2>2, <2>3, <2>4, <2>6 DEF WholeOK, BackwardOK, Fresh, Fits
  <2>9. JournalOK'
    BY <2>1, <2>2, <2>3 DEF WholeOK, JournalOK, Idles
  <2> QED BY <2>1, <2>3, <2>5, <2>7, <2>8, <2>9 DEF WholeOK, Idles, Busy
<1> QED BY <1>1, <1>2

\* UpdatesSafe, and WholeOK while there is no unseen damage, are one inductive
\* invariant: every step leaves enough, in the journal or in the profile that
\* was kept, to undo what was done or to ask for recovery.
THEOREM WholeInvariant == UpdatesSpec => []UpdatesInv
<1>1. UpdatesInit => UpdatesInv
  BY SafeInit, WholeInit DEF UpdatesInv
<1>2. UpdatesInv /\ [UpdatesNext]_updateVars => UpdatesInv'
  <2> SUFFICES ASSUME UpdatesInv, [UpdatesNext]_updateVars PROVE UpdatesInv'
    OBVIOUS
  <2>1. UpdatesSafe /\ UpdatesSafe'
    BY SafeStep DEF UpdatesInv
  <2>2. unseen \subseteq unseen'
    BY <2>1, UnseenGrows DEF updateVars, UpdatesSafe
  <2>3. unseen' = {} => WholeOK'
    BY <2>1, <2>2, WholeStep DEF UpdatesInv
  <2> QED BY <2>1, <2>3 DEF UpdatesInv
<1> QED BY <1>1, <1>2, PTL DEF UpdatesSpec

\* apply_job and initialize: an operation that has ended and asks for no
\* recovery leaves every family as it was or entirely updated, and a signed
\* profile that names its containers, for every number of families, services,
\* failures and ends of the process.
THEOREM SettledIsWholeHolds == UpdatesSpec => []SettledIsWhole
<1>1. UpdatesInv => SettledIsWhole
  <2> SUFFICES ASSUME UpdatesInv, thread.at = "idle", ~Refused, unseen = {}
               PROVE  /\ signature = profile.gen
                      /\ \A f \in Families : OldWhole(f) \/ NewWhole(f)
    BY DEF SettledIsWhole
  <2>1. UpdatesTyped /\ AllWhole
    BY DEF UpdatesInv, UpdatesSafe, WholeOK, Idles, Refused, Busy
  <2>2. ASSUME NEW f \in Families PROVE OldWhole(f) \/ NewWhole(f)
    <3>1. Range(ServicesOf[f]) \subseteq Services
      <4>1. ServicesOf[f] \in Seq(Services)
        BY UpdatesAssumption
      <4> QED BY <4>1 DEF Range
    <3>2. \A s \in Range(ServicesOf[f]) : Fresh(s) => (s \in Admitted => profile.pins[s] # NewOf(s))
      <4>1. \A s \in Admitted : profile.pins[s] \in Nat /\ ident[s] \in Nat /\ MaxDeployments \in Nat
        BY <2>1, UpdatesAssumption DEF UpdatesTyped, Profiles
      <4> QED BY <4>1 DEF Fresh, NewOf
    <3> QED BY <2>1, <3>2 DEF AllWhole, Whole, Untouched, Replaced, Pinned, OldWhole, NewWhole
  <2> QED BY <2>1, <2>2 DEF AllWhole
<1> QED BY <1>1, WholeInvariant, PTL

============================================================================
