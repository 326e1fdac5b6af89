---------------------------- MODULE StatusStream ----------------------------
(* Live status runs of the Control Center: the executor of status/executor.mjs *)
(* writes each event to the retained log and then publishes it, the broker of *)
(* status/event-stream.mjs queues it for every subscription, one pump per     *)
(* connection sends the replay and then the queue, and the browser's          *)
(* EventSource reconnects with the identifier of the last event it has seen.  *)
(*                                                                            *)
(* The server is one JavaScript thread: an action is what runs between two    *)
(* awaits.  An event is its run and its sequence number; the last one of a    *)
(* run is run-completed.  Byte limits and keep-alive contents are left out.   *)
EXTENDS Naturals, Sequences, FiniteSets

CONSTANTS
    StatusRuns, Watchers, Conns,
    WatchedRun,      \* the run a watcher asked for
    Subject,         \* the principal of a watcher
    LastEvent,       \* sequence number of run-completed
    Delayed,         \* statusRunStepDelayMs > 0
    MaxSubscribers, MaxPerSubject, MaxPerRun,
    MaxQueue,        \* maxQueueEvents
    LogLimit,        \* statusEventRetentionMaxRecords
    MaxCuts,         \* bound of lost, expired and stalled connections
    MaxAppendFaults, \* bound of failed appends
    NoRun, NoConn

ASSUME StreamLimits ==
    /\ LastEvent \in Nat \ {0} /\ MaxQueue \in Nat \ {0} /\ LogLimit \in Nat \ {0}
    /\ Delayed \in BOOLEAN /\ NoRun \notin StatusRuns /\ NoConn \notin Conns
    /\ WatchedRun \in [Watchers -> StatusRuns]

VARIABLES
    eventLog,     \* statusRunEvents: the retained records of all runs
    executor,     \* of each run: its state, its sequence, the last one on disk
    turn,         \* a run whose next event follows without an await
    conn,         \* each connection: its pump, its subscription, its frames
    subscribers,  \* broker.subscribers and its two indexes
    watcher,      \* the EventSource of each browser
    cuts, appendFaults

streamVars == <<eventLog, executor, turn, conn, subscribers, watcher, cuts, appendFaults>>

FreeConn == [pc |-> "free", run |-> NoRun, subject |-> NoRun, cursor |-> 0, mark |-> 0,
             replay |-> <<>>, queue |-> <<>>, item |-> 0, closed |-> "no",
             lost |-> FALSE, wire |-> <<>>]

StreamInit ==
    /\ eventLog = <<>>
    /\ executor = [r \in StatusRuns |-> [state |-> "running", seq |-> 0, durable |-> 0]]
    /\ turn = NoRun
    /\ conn = [k \in Conns |-> FreeConn]
    /\ subscribers = {}
    /\ watcher = [w \in Watchers |-> [state |-> "connecting", seen |-> 0, conn |-> NoConn]]
    /\ cuts = 0 /\ appendFaults = 0

----------------------------------------------------------------------------
(* The broker                                                                 *)

\* Mutant: a full queue drops the event.
PushDrops(c, seq) ==
    CASE c.closed # "no" \/ seq =< c.mark -> c
      [] c.closed = "no" /\ seq > c.mark /\ c.pc = "wait" ->
           [c EXCEPT !.mark = seq, !.pc = "take", !.item = seq]
      [] c.closed = "no" /\ seq > c.mark /\ c.pc # "wait" /\ Len(c.queue) >= MaxQueue ->
           [c EXCEPT !.mark = seq]
      [] OTHER -> [c EXCEPT !.mark = seq, !.queue = Append(c.queue, seq)]

\* push: a waiting pump gets the event, a full queue closes the subscription.
Push(c, seq) ==
    CASE c.closed # "no" \/ seq =< c.mark -> c
      [] c.closed = "no" /\ seq > c.mark /\ c.pc = "wait" ->
           [c EXCEPT !.mark = seq, !.pc = "take", !.item = seq]
      [] c.closed = "no" /\ seq > c.mark /\ c.pc # "wait" /\ Len(c.queue) >= MaxQueue ->
           [c EXCEPT !.mark = 0, !.closed = "overflow", !.queue = <<>>]
      [] OTHER -> [c EXCEPT !.mark = seq, !.queue = Append(c.queue, seq)]

Subscribed(r) == {k \in subscribers : conn[k].run = r}

Publish(r, seq) ==
    LET after == [k \in Conns |-> IF k \in Subscribed(r) THEN Push(conn[k], seq) ELSE conn[k]] IN
    /\ conn' = after
    /\ subscribers' = {k \in subscribers : after[k].closed = "no"}

\* Quotas are looked at in this order; the answer is 429 for each of them.
QuotaLeft(w) ==
    /\ Cardinality(subscribers) < MaxSubscribers
    /\ Cardinality({k \in subscribers : conn[k].subject = Subject[w]}) < MaxPerSubject
    /\ Cardinality(Subscribed(WatchedRun[w])) < MaxPerRun

----------------------------------------------------------------------------
(* executeStatusChecks: every event is appended, then published.              *)

Retained(log, e) ==
    Append(IF Len(log) < LogLimit THEN log ELSE SubSeq(log, Len(log) - LogLimit + 2, Len(log)), e)

\* Events without an await before the next one: the completion of the last
\* check, and with no delay the start of the run and every completion.
NoAwaitAfter(seq) == seq # LastEvent /\ seq % 2 = 1 /\ (~Delayed \/ seq = LastEvent - 1)

Emit(r) ==
    LET seq == executor[r].seq + 1 IN
    /\ turn \in {NoRun, r} /\ executor[r].state = "running"
    /\ eventLog' = Retained(eventLog, [run |-> r, seq |-> seq])
    /\ Publish(r, seq)
    /\ executor' = [executor EXCEPT ![r] =
          [state |-> IF seq = LastEvent THEN "completed" ELSE "running",
           seq |-> seq, durable |-> seq]]
    /\ turn' = IF NoAwaitAfter(seq) THEN r ELSE NoRun
    /\ UNCHANGED <<watcher, cuts, appendFaults>>

\* appendRetained throws before or after the record is on disk: the error goes
\* through emit and ends the run.
EmitFails(r) ==
    LET seq == executor[r].seq + 1 IN
    /\ turn \in {NoRun, r} /\ executor[r].state = "running" /\ appendFaults < MaxAppendFaults
    /\ \/ UNCHANGED eventLog /\ executor' = [executor EXCEPT ![r].state = "aborted"]
       \/ /\ eventLog' = Retained(eventLog, [run |-> r, seq |-> seq])
          /\ executor' = [executor EXCEPT ![r].state = "aborted", ![r].durable = seq]
    /\ turn' = NoRun
    /\ appendFaults' = appendFaults + 1
    /\ UNCHANGED <<conn, subscribers, watcher, cuts>>

----------------------------------------------------------------------------
(* streamStatusRunEvents: subscription, replay and its validation are one     *)
(* turn of the event loop.                                                    *)

\* The retained events of the run after the cursor.
Later(r, after) == {i \in DOMAIN eventLog : eventLog[i].run = r /\ eventLog[i].seq > after}

\* What validateStatusEventReplay lets pass: the cursor is still retained, and
\* the later events, in the order of the log, have the numbers that follow it.
ReplayOK(r, after) ==
    LET later == Later(r, after) IN
    /\ after > 0 => \E i \in DOMAIN eventLog : eventLog[i] = [run |-> r, seq |-> after]
    /\ \A i, j \in later : i < j => eventLog[i].seq < eventLog[j].seq
    /\ {eventLog[i].seq : i \in later} = after + 1 .. after + Cardinality(later)

\* The later events, when they were validated.
Replay(r, after) == [i \in 1 .. Cardinality(Later(r, after)) |-> after + i]

FreeConns == {k \in Conns : conn[k] = FreeConn}

\* Mutant: the Last-Event-ID header is not read.
ConnectFromStart(w) ==
    LET r == WatchedRun[w]
        k == CHOOSE f \in FreeConns : TRUE
    IN
    /\ watcher[w].state = "connecting" /\ FreeConns # {}
    /\ QuotaLeft(w) /\ ReplayOK(r, 0)
    /\ conn' = [conn EXCEPT ![k] =
          [FreeConn EXCEPT !.pc = "loop", !.run = r, !.subject = Subject[w], !.replay = Replay(r, 0)]]
    /\ subscribers' = subscribers \cup {k}
    /\ watcher' = [watcher EXCEPT ![w].state = "open", ![w].conn = k]
    /\ UNCHANGED <<eventLog, executor, turn, cuts, appendFaults>>

Connect(w) ==
    LET r == WatchedRun[w]
        after == watcher[w].seen
        k == CHOOSE f \in FreeConns : TRUE
    IN
    /\ watcher[w].state = "connecting" /\ FreeConns # {}
    /\ QuotaLeft(w) /\ ReplayOK(r, after)
    /\ conn' = [conn EXCEPT ![k] =
          [FreeConn EXCEPT !.pc = "loop", !.run = r, !.subject = Subject[w],
                           !.cursor = after, !.mark = after, !.replay = Replay(r, after)]]
    /\ subscribers' = subscribers \cup {k}
    /\ watcher' = [watcher EXCEPT ![w].state = "open", ![w].conn = k]
    /\ UNCHANGED <<eventLog, executor, turn, cuts, appendFaults>>

\* An answer other than 200 closes the EventSource for good.
Refuse(w) ==
    /\ watcher[w].state = "connecting"
    /\ \/ ~QuotaLeft(w)
       \/ QuotaLeft(w) /\ ~ReplayOK(WatchedRun[w], watcher[w].seen)
    /\ watcher' = [watcher EXCEPT ![w].state = IF QuotaLeft(w) THEN "gap" ELSE "busy"]
    /\ UNCHANGED <<eventLog, executor, turn, conn, subscribers, cuts, appendFaults>>

----------------------------------------------------------------------------
(* pumpStatusEventStream                                                      *)

\* The finally clauses close the subscription; a browser that is still there
\* reads what was sent before an end, and may lose it when the answer is
\* destroyed.
Gone(how) == [FreeConn EXCEPT !.pc = how, !.closed = "finished"]

Finish(k, c, how) ==
    /\ subscribers' = subscribers \ {k}
    /\ conn' = [conn EXCEPT ![k] = IF c.lost THEN FreeConn ELSE [Gone(how) EXCEPT !.wire = c.wire]]

\* The frame is accepted: the cursor moves, and run-completed ends the stream.
Accepted(k, c) ==
    IF c.item = LastEvent
    THEN Finish(k, c, "ended")
    ELSE /\ conn' = [conn EXCEPT ![k] = [c EXCEPT !.pc = "loop", !.item = 0,
                                                  !.cursor = IF c.item = 0 THEN @ ELSE c.item]]
         /\ UNCHANGED subscribers

\* writeSseFrame refuses a connection it knows is gone; an event that does not
\* follow the cursor ends the stream; response.write may ask to wait.  (An event
\* before the cursor is passed over in the code; none comes, since subscription
\* and replay are one turn.)
WriteFrame(k, c) ==
    LET sent == IF c.lost THEN c ELSE [c EXCEPT !.wire = Append(@, c.item)] IN
    IF c.closed = "gone" \/ c.item # c.cursor + 1
    THEN Finish(k, c, "destroyed")
    ELSE \/ Accepted(k, sent)
         \/ conn' = [conn EXCEPT ![k] = [sent EXCEPT !.pc = "blocked"]] /\ UNCHANGED subscribers

\* The replay goes first, then what subscription.next() returns.
PumpNext(k) ==
    LET c == conn[k] IN
    /\ c.pc = "loop"
    /\ \/ /\ c.replay # <<>>
          /\ WriteFrame(k, [c EXCEPT !.item = Head(c.replay), !.replay = Tail(c.replay)])
       \/ /\ c.replay = <<>> /\ c.queue # <<>>
          /\ WriteFrame(k, [c EXCEPT !.item = Head(c.queue), !.queue = Tail(c.queue)])
       \/ /\ c.replay = <<>> /\ c.queue = <<>> /\ c.closed # "no"
          /\ Finish(k, c, "destroyed")
       \/ /\ c.replay = <<>> /\ c.queue = <<>> /\ c.closed = "no"
          /\ conn' = [conn EXCEPT ![k].pc = "wait"]
          /\ UNCHANGED subscribers
    /\ UNCHANGED <<eventLog, executor, turn, watcher, cuts, appendFaults>>

\* A pump that waited has been given an event.
PumpWakes(k) ==
    /\ conn[k].pc = "take"
    /\ WriteFrame(k, conn[k])
    /\ UNCHANGED <<eventLog, executor, turn, watcher, cuts, appendFaults>>

Drain(k) ==
    /\ conn[k].pc = "blocked"
    /\ Accepted(k, conn[k])
    /\ UNCHANGED <<eventLog, executor, turn, watcher, cuts, appendFaults>>

\* The keep-alive frame meets back pressure.
Heartbeat(k) ==
    /\ conn[k].pc = "wait"
    /\ conn' = [conn EXCEPT ![k].pc = "blocked", ![k].item = 0]
    /\ UNCHANGED <<eventLog, executor, turn, subscribers, watcher, cuts, appendFaults>>

\* Back pressure for backpressureTimeoutMs, or a stream of maxDurationMs.
PumpExpires(k) ==
    /\ cuts < MaxCuts
    /\ \/ conn[k].pc = "blocked" /\ Finish(k, conn[k], "destroyed")
       \/ conn[k].pc \in {"loop", "wait"} /\ conn[k].replay = <<>> /\ Finish(k, conn[k], "ended")
    /\ cuts' = cuts + 1
    /\ UNCHANGED <<eventLog, executor, turn, watcher, appendFaults>>

\* The server notices that the peer is gone: abort, and close of the
\* subscription; a pump that waits or is blocked wakes up.
Notice(k) ==
    LET c == conn[k] IN
    /\ c.lost /\ c.pc \in {"loop", "wait", "take", "blocked"} /\ c.closed # "gone"
    /\ IF c.pc = "blocked" THEN Finish(k, conn[k], "destroyed")
       ELSE /\ subscribers' = subscribers \ {k}
            /\ conn' = [conn EXCEPT ![k] =
                  [c EXCEPT !.closed = "gone", !.queue = <<>>, !.mark = 0,
                            !.pc = IF c.pc = "wait" THEN "loop" ELSE c.pc]]
    /\ UNCHANGED <<eventLog, executor, turn, watcher, cuts, appendFaults>>

----------------------------------------------------------------------------
(* watchStatusRun in the browser                                              *)

\* The connection k is dropped from the browser's side.
Dropped(k) ==
    IF conn[k].pc \in {"ended", "destroyed"} THEN FreeConn
    ELSE [conn[k] EXCEPT !.lost = TRUE, !.wire = <<>>]

Receive(w) ==
    LET k == watcher[w].conn
        seq == Head(conn[k].wire)
    IN
    /\ watcher[w].state = "open" /\ conn[k].wire # <<>>
    /\ IF seq = LastEvent
       THEN /\ watcher' = [watcher EXCEPT ![w] = [state |-> "completed", seen |-> seq, conn |-> NoConn]]
            /\ conn' = [conn EXCEPT ![k] = Dropped(k)]
       ELSE /\ watcher' = [watcher EXCEPT ![w].seen = seq]
            /\ conn' = [conn EXCEPT ![k].wire = Tail(@)]
    /\ UNCHANGED <<eventLog, executor, turn, subscribers, cuts, appendFaults>>

Reconnect(w) == [watcher EXCEPT ![w].state = "connecting", ![w].conn = NoConn]

SeesEnd(w) ==
    LET k == watcher[w].conn IN
    /\ watcher[w].state = "open"
    /\ conn[k].pc = "destroyed" \/ (conn[k].pc = "ended" /\ conn[k].wire = <<>>)
    /\ watcher' = Reconnect(w)
    /\ conn' = [conn EXCEPT ![k] = FreeConn]
    /\ UNCHANGED <<eventLog, executor, turn, subscribers, cuts, appendFaults>>

\* The network loses the connection; the browser is first to know.
Cut(w) ==
    LET k == watcher[w].conn IN
    /\ watcher[w].state = "open" /\ cuts < MaxCuts
    /\ watcher' = Reconnect(w)
    /\ conn' = [conn EXCEPT ![k] = Dropped(k)]
    /\ cuts' = cuts + 1
    /\ UNCHANGED <<eventLog, executor, turn, subscribers, appendFaults>>

\* Six minutes without run-completed.
GiveUp(w) ==
    LET k == watcher[w].conn IN
    /\ watcher[w].state \in {"connecting", "open"}
    /\ watcher' = [watcher EXCEPT ![w].state = "timedout", ![w].conn = NoConn]
    /\ conn' = IF k = NoConn THEN conn ELSE [conn EXCEPT ![k] = Dropped(k)]
    /\ UNCHANGED <<eventLog, executor, turn, subscribers, cuts, appendFaults>>

----------------------------------------------------------------------------
Pump(k) == PumpNext(k) \/ PumpWakes(k) \/ Drain(k)

StreamNext ==
    \/ \E r \in StatusRuns : Emit(r) \/ EmitFails(r)
    \/ /\ turn = NoRun
       /\ \/ \E k \in Conns : Pump(k) \/ Heartbeat(k) \/ PumpExpires(k) \/ Notice(k)
          \/ \E w \in Watchers : Connect(w) \/ Refuse(w) \/ Receive(w) \/ SeesEnd(w) \/ Cut(w) \/ GiveUp(w)

StreamSpec == StreamInit /\ [][StreamNext]_streamVars

\* The executor goes on, sockets drain, pumps run, closed sockets are noticed,
\* browsers read and reconnect.  Nobody is forced to give up.
StreamFairness ==
    /\ \A r \in StatusRuns : WF_streamVars(Emit(r))
    /\ \A k \in Conns : WF_streamVars(turn = NoRun /\ Pump(k)) /\ WF_streamVars(turn = NoRun /\ Notice(k))
    /\ \A w \in Watchers :
          /\ WF_streamVars(turn = NoRun /\ (Connect(w) \/ Refuse(w)))
          /\ WF_streamVars(turn = NoRun /\ (Receive(w) \/ SeesEnd(w)))
FairStreamSpec == StreamSpec /\ StreamFairness

----------------------------------------------------------------------------
(* Properties                                                                 *)

\* Log, executor, connections and browsers; the log stays within its retention
\* and a queue of event-stream.mjs within maxQueueEvents.
StreamTypeOK ==
    /\ eventLog \in Seq([run : StatusRuns, seq : 1 .. LastEvent]) /\ Len(eventLog) =< LogLimit
    /\ executor \in [StatusRuns -> [state : {"running", "completed", "aborted"},
                                    seq : 0 .. LastEvent, durable : 0 .. LastEvent]]
    /\ \A k \in Conns : /\ conn[k].pc \in {"free", "loop", "wait", "take", "blocked", "ended", "destroyed"}
                        /\ Len(conn[k].queue) =< MaxQueue /\ conn[k].item \in 0 .. LastEvent
    /\ watcher \in [Watchers -> [state : {"connecting", "open", "completed", "gap", "busy", "timedout"},
                                 seen : 0 .. LastEvent, conn : Conns \cup {NoConn}]]

\* Across overflow, lost connections, reconnects and retention a browser gets
\* every event of its run once and in order, or it is told that it cannot; and
\* the page "advances only from persisted ordered events" (CONTROL-CENTER-UI.md),
\* also when appendStatusRunEvent fails.
SeenInOrder ==
    [][\A w \in Watchers :
          watcher'[w].seen # watcher[w].seen
          => /\ watcher'[w].seen = watcher[w].seen + 1
             /\ watcher'[w].seen =< executor'[WatchedRun[w]].durable]_streamVars

\* A browser that keeps its page open reaches run-completed or a definite
\* refusal, unless the run itself was aborted.
WatchEnds ==
    \A w \in Watchers :
        <>(watcher[w].state \notin {"connecting", "open"} \/ executor[WatchedRun[w]].state = "aborted")

\* When nobody watches any more every slot is given back.
SlotsReturn ==
    (\A w \in Watchers : watcher[w].state \notin {"connecting", "open"}) ~> subscribers = {}
=============================================================================
