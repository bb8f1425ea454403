----------------------------- MODULE EventStream -----------------------------
(***************************************************************************)
(* Durable task events, the wake-up hub and task.events.follow.            *)
(*                                                                         *)
(* A transition commits one event to the task's log in portus.db, which    *)
(* keeps the last Retention events, and then wakes the streams that follow *)
(* the task through bounded channels.  A stream runs on its connection's   *)
(* thread: it subscribes, reads a page under the state mutex, writes it,   *)
(* and waits for a wake-up or for its idle timeout.  Reading a page runs   *)
(* refresh_all first, so a read may itself commit and publish events.      *)
(***************************************************************************)
EXTENDS Naturals, FiniteSets

CONSTANTS Tasks, Streams,
          Retention,   \* MAX_SIGNIFICANT_EVENTS_PER_OBJECT
          Capacity,    \* DEFAULT_SUBSCRIBER_CAPACITY
          StreamLimit, \* limit parameter of the streams
          Resume,      \* after_sequence values clients ask for
          MaxEvents,   \* bound on the events that requests commit per task
          MaxFaults    \* bound on failed reads, writes and notifications

ASSUME SizesAssumption ==
  /\ Retention \in Nat \ {0} /\ Capacity \in Nat \ {0} /\ StreamLimit \in Nat \ {0}
ASSUME ResumeAssumption == Resume \subseteq Nat
ASSUME StreamBoundsAssumption == MaxEvents \in Nat /\ MaxFaults \in Nat

VARIABLES
  retained,  \* significant_events of each task: the retained sequence numbers
  newest,    \* tasks.last_event_sequence
  terminal,  \* tasks whose state is terminal
  exited,    \* tasks whose child has exited and was not yet refreshed
  subs,      \* streams whose Subscriber is in EventHub.subscribers
  queued,    \* wake-ups in each stream's channel
  step,      \* where each stream's thread is
  task,      \* the task it follows
  start,     \* the after_sequence it was asked for
  position,  \* its cursor
  page,      \* the page it read last
  seen,      \* sequence numbers its client received
  faults

log    == <<retained, newest, terminal, exited>>
hub    == <<subs, queued>>
vars   == <<log, hub, step, task, start, position, page, seen, faults>>

Closed == {"ended", "gap", "timeout", "error", "broken"}
Steps  == {"new", "read", "write", "wait", "final_read", "final_write"} \cup Closed
Following(s, t) == step[s] \notin Closed \cup {"new"} /\ task[s] = t

NoPage == [events |-> {}, latest |-> 0, gap |-> FALSE, more |-> FALSE, over |-> FALSE]
-----------------------------------------------------------------------------
(***************************************************************************)
(* The log.                                                                *)
(***************************************************************************)
\* prune_object_tx
pruned(kept, n) == {s \in kept : s + Retention > n}

\* Events committed in one step, one for each task of T.
insert_significant_events(T) ==
  /\ newest' = [t \in Tasks |-> IF t \in T THEN newest[t] + 1 ELSE newest[t]]
  /\ retained' = [t \in Tasks |->
                IF t \in T THEN pruned(retained[t] \cup {newest[t] + 1}, newest[t] + 1)
                           ELSE retained[t]]

\* Mutant: a full channel drops the subscriber.
publish_or_drop(T) ==
  LET full == {s \in subs : task[s] \in T /\ queued[s] = Capacity}
  IN  /\ subs' = {s \in subs \ full : task[s] \in T => Following(s, task[s])}
      /\ queued' = [s \in Streams |->
                      IF s \in subs' /\ task[s] \in T THEN queued[s] + 1
                                                      ELSE queued[s]]

\* EventHub::publish_object to the subscribers that filter on a task of T:
\* try_send never blocks, a full channel only counts the miss, and a dropped
\* receiver removes the subscriber.
publish(T) ==
  /\ subs' = {s \in subs : task[s] \in T => Following(s, task[s])}
  /\ queued' = [s \in Streams |->
                  IF s \in subs' /\ task[s] \in T /\ queued[s] < Capacity
                    THEN queued[s] + 1 ELSE queued[s]]

\* The transition a request makes, and the notify_event after it, which may
\* fail although the event is committed.
transition_task(t, over, notified) ==
  /\ t \notin terminal /\ newest[t] < MaxEvents
  /\ insert_significant_events({t})
  /\ terminal' = IF over THEN terminal \cup {t} ELSE terminal
  /\ exited'   = IF over THEN exited \ {t} ELSE exited
  /\ \/ notified /\ publish({t}) /\ UNCHANGED faults
     \/ ~notified /\ faults < MaxFaults /\ faults' = faults + 1 /\ UNCHANGED hub
  /\ UNCHANGED <<step, task, start, position, page, seen>>

process_exits(t) ==
  /\ t \notin terminal \cup exited
  /\ exited' = exited \cup {t}
  /\ UNCHANGED <<retained, newest, terminal, hub, step, task, start, position, page,
                 seen, faults>>

\* refresh_all records the exited children in T, and forgets the others.
refresh(T) ==
  /\ insert_significant_events(T)
  /\ terminal' = terminal \cup T
  /\ exited' = {}
  /\ publish(T)

\* refresh_all on behalf of another client.
refresh_all ==
  /\ exited # {}
  /\ refresh(exited)
  /\ UNCHANGED <<step, task, start, position, page, seen, faults>>
-----------------------------------------------------------------------------
(***************************************************************************)
(* serve_task_event_stream.                                                *)
(***************************************************************************)
subscribe_object(s, t, a) ==
  /\ step[s] = "new"
  /\ step'   = [step EXCEPT ![s] = "read"]
  /\ task'   = [task EXCEPT ![s] = t]
  /\ start'  = [start EXCEPT ![s] = a]
  /\ position'  = [position EXCEPT ![s] = a]
  /\ subs'   = subs \cup {s}
  /\ UNCHANGED <<log, queued, page, seen, faults>>

\* significant_events_for_object and task_events_visible: the StreamLimit
\* lowest retained sequence numbers above a.
Above(t, a)    == {n \in retained'[t] : n > a}
Lowest(S)      == {n \in S : Cardinality({m \in S : m < n}) < StreamLimit}

\* Mutant: the gap test forgets that a + 1 itself may be the first one gone.
gap_off_by_one(t, a) == retained'[t] # {} /\ \A n \in retained'[t] : a + 2 < n

gap_before_page(t, a) == retained'[t] # {} /\ \A n \in retained'[t] : a + 1 < n

task_events_visible(t, a) ==
  [events |-> Lowest(Above(t, a)),
   latest |-> newest'[t],
   gap    |-> gap_before_page(t, a),
   more   |-> Lowest(Above(t, a)) # Above(t, a),
   over   |-> t \in terminal']

\* Mutant: the stream reads the log without refreshing the tasks.
read_log_only(s) ==
  /\ step[s] \in {"read", "final_read"}
  /\ UNCHANGED <<log, hub, faults>>
  /\ page' = [page EXCEPT ![s] = task_events_visible(task[s], position[s])]
  /\ step' = [step EXCEPT ![s] =
                IF page'[s].gap THEN "gap"
                ELSE IF step[s] = "read" THEN "write" ELSE "final_write"]
  /\ UNCHANGED <<task, start, position, seen>>

\* task_event_page_for_stream, and the error frame when it fails.
read_page(s) ==
  /\ step[s] \in {"read", "final_read"}
  /\ \/ /\ refresh(exited)
        /\ page' = [page EXCEPT ![s] = task_events_visible(task[s], position[s])]
        /\ step' = [step EXCEPT ![s] =
                      IF page'[s].gap THEN "gap"
                      ELSE IF step[s] = "read" THEN "write" ELSE "final_write"]
        /\ UNCHANGED faults
     \/ /\ faults < MaxFaults /\ faults' = faults + 1
        /\ \E T \in SUBSET exited : refresh(T)
        /\ step' = [step EXCEPT ![s] = "error"]
        /\ UNCHANGED page
  /\ UNCHANGED <<task, start, position, seen>>

\* The stream is over: the task is terminal and its last event was written.
finished(s) == page[s].over /\ position'[s] >= page[s].latest

next_step(s) ==
  CASE step[s] = "write" /\ page[s].more -> "read"
    [] step[s] = "write" /\ ~page[s].more -> IF finished(s) THEN "ended" ELSE "wait"
    [] OTHER -> IF finished(s) THEN "ended" ELSE "timeout"

\* emit_task_event_page, then the end frame, the timeout frame or another turn
\* of the loop.  A write that fails closes the connection after a part of it.
emit_task_event_page(s) ==
  /\ step[s] \in {"write", "final_write"}
  /\ LET fresh == {n \in page[s].events : n > position[s]} IN
     \/ /\ seen'  = [seen EXCEPT ![s] = @ \cup fresh]
        /\ position' = [position EXCEPT ![s] =
                       IF fresh = {} THEN @
                       ELSE CHOOSE n \in fresh : \A m \in fresh : m <= n]
        /\ step' = [step EXCEPT ![s] = next_step(s)]
        /\ UNCHANGED faults
     \/ /\ faults < MaxFaults /\ faults' = faults + 1
        /\ \E n \in fresh \cup {position[s]} :
             /\ seen'  = [seen EXCEPT ![s] = @ \cup {m \in fresh : m <= n}]
             /\ position' = [position EXCEPT ![s] = n]
        /\ step' = [step EXCEPT ![s] = "broken"]
  /\ UNCHANGED <<log, hub, task, start, page>>

\* recv_timeout: a buffered wake-up, or none for io_timeout.
recv_wakeup(s) ==
  /\ step[s] = "wait" /\ queued[s] > 0
  /\ queued' = [queued EXCEPT ![s] = @ - 1]
  /\ step' = [step EXCEPT ![s] = "read"]
  /\ UNCHANGED <<log, subs, task, start, position, page, seen, faults>>

recv_timeout(s) ==
  /\ step[s] = "wait" /\ queued[s] = 0
  /\ step' = [step EXCEPT ![s] = "final_read"]
  /\ UNCHANGED <<log, hub, task, start, position, page, seen, faults>>
-----------------------------------------------------------------------------
\* Tasks exist: create_task committed event 1.
Init ==
  /\ retained = [t \in Tasks |-> {1}] /\ newest = [t \in Tasks |-> 1]
  /\ terminal = {} /\ exited = {}
  /\ subs = {} /\ queued = [s \in Streams |-> 0]
  /\ step = [s \in Streams |-> "new"]
  /\ task \in [Streams -> Tasks]
  /\ start = [s \in Streams |-> 0] /\ position = [s \in Streams |-> 0]
  /\ page = [s \in Streams |-> NoPage]
  /\ seen = [s \in Streams |-> {}]
  /\ faults = 0

StreamStep(s) ==
  read_page(s) \/ emit_task_event_page(s) \/ recv_wakeup(s) \/ recv_timeout(s)

Next ==
  \/ \E t \in Tasks, over, notified \in BOOLEAN : transition_task(t, over, notified)
  \/ \E t \in Tasks : process_exits(t)
  \/ refresh_all
  \/ \E s \in Streams, t \in Tasks, a \in Resume : subscribe_object(s, t, a)
  \/ \E s \in Streams : StreamStep(s)

Spec == Init /\ [][Next]_vars
-----------------------------------------------------------------------------
(***************************************************************************)
(* Properties.                                                             *)
(***************************************************************************)
PageRecords == [events : SUBSET Nat, latest : Nat, gap : BOOLEAN, more : BOOLEAN,
          over : BOOLEAN]

\* Every variable holds a value of its type; channels stay within capacity.
TypeOK ==
  /\ retained \in [Tasks -> SUBSET Nat] /\ newest \in [Tasks -> Nat]
  /\ terminal \subseteq Tasks /\ exited \subseteq Tasks
  /\ subs \subseteq Streams /\ queued \in [Streams -> 0..Capacity]
  /\ step \in [Streams -> Steps] /\ task \in [Streams -> Tasks]
  /\ start \in [Streams -> Nat] /\ position \in [Streams -> Nat]
  /\ page \in [Streams -> PageRecords]
  /\ seen \in [Streams -> SUBSET Nat]
  /\ faults \in 0..MaxFaults

\* The log of a task is the unbroken run of its newest events, never more than
\* Retention of them, and none is lost before it has to be.
RetainedHistory ==
  \A t \in Tasks : retained[t] = {n \in 1..newest[t] : n + Retention > newest[t]}

\* However commits, pruning and paging interleave, a client has received
\* exactly the events after its resume point up to the stream's cursor: "stale
\* resume never silently skips history" (docs/EVENTS_AUDIT.md).
NoSilentGap ==
  \A s \in Streams : seen[s] = (start[s] + 1)..position[s]

\* A stream that sent its end frame follows a finished task and has delivered
\* every event of it after the resume point.
EndIsComplete ==
  \A s \in Streams :
    step[s] = "ended" => task[s] \in terminal /\ position[s] >= newest[task[s]]

\* A stream gives up with a stale_resource frame only when the next event it
\* needs is no longer retained.
GapIsReal ==
  \A s \in Streams : step[s] = "gap" => position[s] + 1 \notin retained[task[s]]

\* No lost wake-up: a stream that sleeps although its task has events it has
\* not delivered has a wake-up in its channel, unless a notification failed.
NoLostWakeup ==
  faults = 0 =>
    \A s \in Streams :
      step[s] = "wait" /\ position[s] < newest[task[s]] => queued[s] > 0

(***************************************************************************)
(* Liveness: connection threads keep running and recv_timeout expires.     *)
(***************************************************************************)
FairSpec == Spec /\ \A s \in Streams : WF_vars(StreamStep(s))

\* The reads that a stream still makes by itself.
Reading == {"read", "write", "wait", "final_read"}

\* A follower is enough to learn of an exit: the reads of the stream refresh the
\* tasks, so that the task becomes terminal and the client gets the end frame,
\* even if no other client asks and every wake-up is lost.  The stream ends
\* otherwise only when its write failed; when the task is terminal and the
\* client is behind (a gap, or a last page that did not hold all); or when a
\* read failed, this one's or another's, which may have forgotten the exit
\* (refresh_all takes the children before it records them).
ExitClosesStreams ==
  \A s \in Streams :
    step[s] \in Reading /\ task[s] \in exited \cup terminal ~>
        \/ step[s] = "broken"
        \/ \E r \in Streams : step[r] = "error"
        \/ /\ task[s] \in terminal
           /\ \/ step[s] \in {"ended", "gap"}
              \/ step[s] = "timeout" /\ page[s].more

\* What a follower is told is what happened, however commits, pruning, paging
\* and time-outs interleave: the log keeps the newest events, the stream
\* delivers them without a silent gap, reports only real gaps and ends only
\* when it has delivered everything (event.rs, serve_task_event_stream).
ClientSeesHistory ==
  TypeOK /\ RetainedHistory /\ NoSilentGap /\ GapIsReal /\ EndIsComplete
=============================================================================
