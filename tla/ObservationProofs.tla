-------------------------- MODULE ObservationProofs --------------------------
(***************************************************************************)
(* What a client observes of the runtime.  First durable events and the    *)
(* streams that follow them, for every number of tasks and streams and     *)
(* every retention, channel capacity and page limit.  Then what the System *)
(* Index presents, for any machine, any callers' requests, any             *)
(* interleaving of collectors and any restarts: a handle names one         *)
(* resource for ever, and what is shown as current is current.  Last, what *)
(* the records of health and of recovery attempts are good for.            *)
(*                                                                         *)
(* The tables of the index are an operand of most operations, so their     *)
(* invariant speaks of any index x (TablesOK), and the lemmas of one batch *)
(* applied to it.                                                          *)
(***************************************************************************)
EXTENDS EventStream, HealthRecovery, FiniteSetTheorems, WellFoundedInduction, TLAPS

-----------------------------------------------------------------------------
(***************************************************************************)
(* The inductive invariant.                                                *)
(***************************************************************************)
\* Each task has committed an event, and its rows are its newest ones.
LogInv ==
  \A t \in Tasks :
    newest[t] >= 1 /\ retained[t] = {n \in 1..newest[t] : n + Retention > newest[t]}

\* A child that waits to be refreshed belongs to a task that is not over.
ExitedAreOpen == exited \cap terminal = {}

\* A page that is about to be written holds the events right after the cursor;
\* it reaches the latest event known when it was read unless more follow, and
\* for a task that was over nothing was committed since.
PageFits(s) ==
  /\ page[s].latest <= newest[task[s]]
  /\ page[s].over => task[s] \in terminal /\ page[s].latest = newest[task[s]]
  /\ \E k \in Nat : /\ page[s].events = (position[s] + 1)..k
                    /\ page[s].more \/ k >= page[s].latest

\* What the client of a stream has been told.
StreamInv(s) ==
  /\ start[s] <= position[s] /\ (step[s] = "new" => start[s] = position[s])
  /\ seen[s] = (start[s] + 1)..position[s]
  /\ step[s] \in {"write", "final_write"} => PageFits(s)
  /\ step[s] = "ended" => task[s] \in terminal /\ position[s] >= newest[task[s]]
  /\ step[s] = "gap" => position[s] + 1 + Retention <= newest[task[s]]

HistoryInv == TypeOK /\ LogInv /\ ExitedAreOpen /\ \A s \in Streams : StreamInv(s)

\* A stream whose thread runs is subscribed, and as long as no notification
\* failed, an event committed after the last page was read has left a wake-up.
WakeupInv(s) ==
  /\ Following(s, task[s]) => s \in subs
  /\ faults = 0 /\ step[s] = "wait" /\ position[s] < newest[task[s]] => queued[s] > 0
  /\ faults = 0 /\ step[s] = "write" /\ page[s].latest < newest[task[s]] => queued[s] > 0

StreamsInv == HistoryInv /\ \A s \in Streams : WakeupInv(s)
-----------------------------------------------------------------------------
(***************************************************************************)
(* What the operators of the model do.                                     *)
(***************************************************************************)
\* Committing one event for each task of T keeps the log an unbroken run of
\* the newest events (insert_significant_event_tx, prune_object_tx).
LEMMA CommitKeepsLog ==
  ASSUME TypeOK, LogInv, NEW T \in SUBSET Tasks, insert_significant_events(T)
  PROVE  /\ newest' \in [Tasks -> Nat] /\ retained' \in [Tasks -> SUBSET Nat]
         /\ LogInv'
         /\ \A t \in Tasks : newest'[t] >= newest[t]
         /\ \A t \in Tasks \ T : newest'[t] = newest[t]
<1> USE SizesAssumption
<1>1. newest' \in [Tasks -> Nat] /\ retained' \in [Tasks -> SUBSET Nat]
  BY DEF TypeOK, insert_significant_events, pruned
<1>2. ASSUME NEW t \in Tasks
      PROVE  /\ newest'[t] >= 1 /\ newest'[t] >= newest[t]
             /\ t \notin T => newest'[t] = newest[t]
             /\ retained'[t] = {n \in 1..newest'[t] : n + Retention > newest'[t]}
  <2>1. newest[t] \in Nat /\ newest[t] >= 1 /\ retained[t] = {n \in 1..newest[t] : n + Retention > newest[t]}
    BY DEF TypeOK, LogInv
  <2>2. CASE t \in T
    <3>1. newest'[t] = newest[t] + 1 BY <2>2 DEF insert_significant_events
    <3>2. retained'[t] = {n \in retained[t] \cup {newest[t] + 1} : n + Retention > newest[t] + 1}
      BY <2>2 DEF insert_significant_events, pruned
    <3> QED BY <2>1, <2>2, <3>1, <3>2
  <2>3. CASE t \notin T BY <2>1, <2>3 DEF insert_significant_events
  <2> QED BY <2>2, <2>3
<1> QED BY <1>1, <1>2 DEF LogInv

\* Publishing keeps every stream that still runs subscribed and leaves it a
\* wake-up, whether its channel had room or was full (EventHub::publish_object).
LEMMA PublishWakes ==
  ASSUME TypeOK, NEW T \in SUBSET Tasks, publish(T)
  PROVE  /\ subs' \subseteq Streams /\ queued' \in [Streams -> 0..Capacity]
         /\ \A s \in Streams : s \in subs /\ Following(s, task[s]) => s \in subs'
         /\ \A s \in Streams : queued'[s] >= queued[s]
         /\ \A s \in Streams : s \in subs' /\ task[s] \in T => queued'[s] > 0
<1> USE SizesAssumption
<1>1. subs' \subseteq Streams /\ \A s \in Streams : s \in subs /\ Following(s, task[s]) => s \in subs'
  BY DEF TypeOK, publish
<1>2. ASSUME NEW s \in Streams
      PROVE  /\ queued'[s] \in 0..Capacity /\ queued'[s] >= queued[s]
             /\ s \in subs' /\ task[s] \in T => queued'[s] > 0
  BY DEF TypeOK, publish
<1> QED BY <1>1, <1>2 DEF publish

\* Counting the events of an unbroken run below one of them.
LEMMA RunBelow ==
  ASSUME NEW a \in Nat, NEW l \in Nat, NEW n \in (a + 1)..l
  PROVE  Cardinality({m \in (a + 1)..l : m < n}) = n - 1 - a
<1>1. {m \in (a + 1)..l : m < n} = (a + 1)..(n - 1) OBVIOUS
<1>2. Cardinality((a + 1)..(n - 1)) = IF a + 1 > n - 1 THEN 0 ELSE (n - 1) - (a + 1) + 1
  <2>1. a + 1 \in Int /\ n - 1 \in Int OBVIOUS
  <2> QED BY <2>1, FS_Interval
<1>3. Cardinality({m \in (a + 1)..l : m < n}) = Cardinality((a + 1)..(n - 1)) BY <1>1, Zenon
<1>4. (IF a + 1 > n - 1 THEN 0 ELSE (n - 1) - (a + 1) + 1) = n - 1 - a OBVIOUS
<1> QED BY <1>2, <1>3, <1>4

\* A page that reports no gap starts right after the cursor, has no hole, and
\* reaches the newest event unless it says that more follow
\* (significant_events_for_object, task_events_visible).
LEMMA PageIsARun ==
  ASSUME LogInv', newest' \in [Tasks -> Nat], NEW t \in Tasks, NEW a \in Nat, ~gap_before_page(t, a)
  PROVE  \E k \in Nat : /\ Lowest(Above(t, a)) = (a + 1)..k
                        /\ Lowest(Above(t, a)) # Above(t, a) \/ k >= newest'[t]
<1> USE SizesAssumption
<1> DEFINE l == newest'[t]
<1>1. l \in Nat /\ l >= 1 /\ retained'[t] = {n \in 1..l : n + Retention > l} BY DEF LogInv
<1> HIDE DEF l
<1>2. CASE a >= l
  <2>1. Above(t, a) = {} BY <1>1, <1>2 DEF Above
  <2>2. Lowest(Above(t, a)) = {} BY <2>1 DEF Lowest
  <2>3. (a + 1)..a = {} OBVIOUS
  <2> QED BY <1>2, <2>2, <2>3 DEF l
<1>3. CASE a < l
  <2>0. l \in retained'[t] BY <1>1
  <2>1. PICK n \in retained'[t] : ~(a + 1 < n) BY <2>0 DEF gap_before_page
  <2>2. Above(t, a) = (a + 1)..l BY <1>1, <1>3, <2>1 DEF Above
  <2> DEFINE k == IF a + StreamLimit <= l THEN a + StreamLimit ELSE l
  <2>3. Lowest((a + 1)..l) = {m \in (a + 1)..l : m - 1 - a < StreamLimit}
    BY <1>1, RunBelow, ZenonT(30) DEF Lowest
  <2>4. k \in Nat /\ Lowest((a + 1)..l) = (a + 1)..k
    <3>1. k \in Nat BY <1>1
    <3>2. \A m \in (a + 1)..l : m - 1 - a < StreamLimit <=> m <= k BY <1>1
    <3>3. {m \in (a + 1)..l : m - 1 - a < StreamLimit} = {m \in (a + 1)..l : m <= k} BY <3>2
    <3>4. {m \in (a + 1)..l : m <= k} = (a + 1)..k BY <1>1
    <3> QED BY <2>3, <3>1, <3>3, <3>4
  <2>5. Lowest((a + 1)..l) = (a + 1)..l => k >= l
    <3> SUFFICES ASSUME Lowest((a + 1)..l) = (a + 1)..l PROVE k >= l OBVIOUS
    <3>1. l \in (a + 1)..l BY <1>1, <1>3
    <3> QED BY <1>1, <2>4, <3>1
  <2> QED BY <2>2, <2>4, <2>5 DEF l
<1> QED BY <1>1, <1>2, <1>3
-----------------------------------------------------------------------------
(***************************************************************************)
(* The steps of the log.  None touches what a stream holds, so a stream    *)
(* keeps its invariant when the log only grows and closed tasks stay.      *)
(***************************************************************************)
\* What a commit does to the streams: sequence numbers only grow, and nothing
\* is committed for a task that is over.
LogGrows ==
  /\ newest' \in [Tasks -> Nat] /\ retained' \in [Tasks -> SUBSET Nat]
  /\ LogInv'
  /\ terminal \subseteq terminal' /\ terminal' \subseteq Tasks
  /\ \A t \in Tasks : newest'[t] >= newest[t]
  /\ \A t \in terminal : newest'[t] = newest[t]

\* A stream whose own state does not change keeps its invariant while the log
\* grows.
LEMMA StreamKeeps ==
  ASSUME TypeOK, LogGrows, NEW s \in Streams, StreamInv(s),
         step'[s] = step[s], task'[s] = task[s], start'[s] = start[s],
         position'[s] = position[s], page'[s] = page[s], seen'[s] = seen[s]
  PROVE  StreamInv(s)'
<1> USE SizesAssumption
<1>1. task[s] \in Tasks /\ position[s] \in Nat /\ start[s] \in Nat /\ page[s] \in PageRecords
  BY DEF TypeOK
<1>2. /\ newest[task[s]] \in Nat /\ newest'[task[s]] \in Nat /\ newest'[task[s]] >= newest[task[s]]
      /\ task[s] \in terminal => task[s] \in terminal' /\ newest'[task[s]] = newest[task[s]]
  BY <1>1 DEF TypeOK, LogGrows
<1>3. PageFits(s) => PageFits(s)'
  BY <1>1, <1>2 DEF PageFits, PageRecords
<1> QED BY <1>1, <1>2, <1>3 DEF StreamInv

\* Refreshing some of the exited children is a commit.
LEMMA RefreshGrows ==
  ASSUME TypeOK, LogInv, ExitedAreOpen, NEW T \in SUBSET exited, refresh(T)
  PROVE  LogGrows /\ ExitedAreOpen' /\ exited' \subseteq Tasks
<1>1. T \in SUBSET Tasks BY DEF TypeOK
<1>2. insert_significant_events(T) /\ terminal' = terminal \cup T /\ exited' = {} BY DEF refresh
<1>3. \A t \in terminal : t \in Tasks \ T BY DEF TypeOK, ExitedAreOpen
<1> QED BY <1>1, <1>2, <1>3, CommitKeepsLog DEF LogGrows, TypeOK, ExitedAreOpen

LEMMA RefreshPublishes ==
  ASSUME TypeOK, NEW T \in SUBSET exited, refresh(T)
  PROVE  publish(T) /\ T \in SUBSET Tasks
  BY DEF refresh, TypeOK

LEMMA TransitionStep ==
  ASSUME HistoryInv, NEW t \in Tasks, NEW over \in BOOLEAN, NEW notified \in BOOLEAN,
         transition_task(t, over, notified)
  PROVE  HistoryInv'
<1> USE DEF HistoryInv
<1>1. insert_significant_events({t}) /\ t \notin terminal BY DEF transition_task
<1>2. LogGrows
  BY <1>1, CommitKeepsLog DEF transition_task, LogGrows, TypeOK
<1>3. ExitedAreOpen' BY <1>1 DEF transition_task, ExitedAreOpen
<1>4. faults' \in 0..MaxFaults BY StreamBoundsAssumption DEF transition_task, TypeOK
<1>5. subs' \subseteq Streams /\ queued' \in [Streams -> 0..Capacity]
  <2>1. CASE publish({t}) BY <2>1, PublishWakes
  <2>2. CASE UNCHANGED hub BY <2>2 DEF hub, TypeOK
  <2> QED BY <2>1, <2>2 DEF transition_task
<1>6. UNCHANGED <<step, task, start, position, page, seen>> BY DEF transition_task
<1>7. exited' \subseteq Tasks BY DEF transition_task, TypeOK
<1>8. TypeOK' BY <1>2, <1>4, <1>5, <1>6, <1>7 DEF TypeOK, LogGrows
<1>9. \A s \in Streams : StreamInv(s)' BY <1>2, <1>6, StreamKeeps
<1> QED BY <1>2, <1>3, <1>8, <1>9 DEF LogGrows

LEMMA ExitStep ==
  ASSUME HistoryInv, NEW t \in Tasks, process_exits(t)
  PROVE  HistoryInv'
<1> USE DEF HistoryInv
<1>1. UNCHANGED <<retained, newest, terminal, hub, step, task, start, position, page, seen, faults>>
  BY DEF process_exits
<1>2. TypeOK' BY <1>1 DEF process_exits, TypeOK, hub
<1>3. LogInv' /\ ExitedAreOpen' BY <1>1 DEF process_exits, LogInv, ExitedAreOpen
<1>4. \A s \in Streams : StreamInv(s)' BY <1>1 DEF StreamInv, PageFits
<1> QED BY <1>2, <1>3, <1>4

LEMMA RefreshAllStep ==
  ASSUME HistoryInv, refresh_all
  PROVE  HistoryInv'
<1> USE DEF HistoryInv
<1>1. refresh(exited) /\ UNCHANGED <<step, task, start, position, page, seen, faults>>
  BY DEF refresh_all
<1>2. LogGrows /\ ExitedAreOpen' /\ exited' \subseteq Tasks BY <1>1, RefreshGrows
<1>3. subs' \subseteq Streams /\ queued' \in [Streams -> 0..Capacity]
  BY <1>1, RefreshPublishes, PublishWakes
<1>4. TypeOK' BY <1>1, <1>2, <1>3 DEF TypeOK, LogGrows
<1>5. \A s \in Streams : StreamInv(s)' BY <1>1, <1>2, StreamKeeps
<1> QED BY <1>2, <1>4, <1>5 DEF LogGrows
-----------------------------------------------------------------------------
(***************************************************************************)
(* The steps of a stream's thread.                                         *)
(***************************************************************************)
LEMMA SubscribeStep ==
  ASSUME HistoryInv, NEW s \in Streams, NEW t \in Tasks, NEW a \in Resume,
         subscribe_object(s, t, a)
  PROVE  HistoryInv'
<1> USE DEF HistoryInv
<1>1. a \in Nat BY ResumeAssumption
<1>2. UNCHANGED <<log, queued, page, seen, faults>> BY DEF subscribe_object
<1>3. TypeOK' BY <1>1, <1>2 DEF subscribe_object, TypeOK, log, Steps
<1>4. LogInv' /\ ExitedAreOpen' BY <1>2 DEF log, LogInv, ExitedAreOpen
<1>5. ASSUME NEW r \in Streams PROVE StreamInv(r)'
  <2>1. CASE r = s
    <3>0. step[s] = "new" /\ start[s] \in Nat /\ start[s] = position[s] /\ seen[s] = (start[s] + 1)..position[s]
      BY DEF subscribe_object, StreamInv, TypeOK
    <3>1. /\ step'[s] = "read" /\ start'[s] = a /\ position'[s] = a /\ seen'[s] = {}
      BY <1>2, <3>0 DEF subscribe_object, TypeOK
    <3>2. (a + 1)..a = {} BY <1>1
    <3> QED BY <1>1, <2>1, <3>1, <3>2 DEF StreamInv
  <2>2. CASE r # s
    <3>1. StreamInv(r) OBVIOUS
    <3> QED BY <1>2, <2>2, <3>1 DEF subscribe_object, TypeOK, log, StreamInv, PageFits
  <2> QED BY <2>1, <2>2
<1> QED BY <1>3, <1>4, <1>5

\* A page is read: the refresh before it may commit, and the page that is kept
\* fits the log it was read from.
LEMMA ReadStep ==
  ASSUME HistoryInv, NEW s \in Streams, read_page(s)
  PROVE  HistoryInv'
<1> USE SizesAssumption DEF HistoryInv
<1>1. PICK T \in SUBSET exited : refresh(T) BY DEF read_page
<1>2. LogGrows /\ ExitedAreOpen' /\ exited' \subseteq Tasks BY <1>1, RefreshGrows
<1>3. subs' \subseteq Streams /\ queued' \in [Streams -> 0..Capacity]
  BY <1>1, RefreshPublishes, PublishWakes
<1>4. UNCHANGED <<task, start, position, seen>> BY DEF read_page
<1>5. faults' \in 0..MaxFaults BY StreamBoundsAssumption DEF read_page, TypeOK
<1>6. step[s] \in {"read", "final_read"} /\ task[s] \in Tasks /\ position[s] \in Nat
  BY DEF read_page, TypeOK
<1>7. /\ \A r \in Streams \ {s} : step'[r] = step[r] /\ page'[r] = page[r]
      /\ step' \in [Streams -> Steps]
  BY DEF read_page, TypeOK, Steps, Closed
<1> DEFINE p == task_events_visible(task[s], position[s])
<1>8. \/ page'[s] = p /\ step'[s] = IF p.gap THEN "gap"
                                    ELSE IF step[s] = "read" THEN "write" ELSE "final_write"
      \/ page'[s] = page[s] /\ step'[s] = "error"
  BY DEF read_page, TypeOK
<1>9. p \in PageRecords BY <1>2, <1>6 DEF task_events_visible, PageRecords, Lowest, Above, LogGrows, gap_before_page
<1>10. TypeOK'
  <2>1. page' \in [Streams -> PageRecords] BY <1>9 DEF read_page, TypeOK
  <2> QED BY <1>2, <1>3, <1>4, <1>5, <1>7, <2>1 DEF TypeOK, LogGrows
<1>11. ASSUME NEW r \in Streams \ {s} PROVE StreamInv(r)'
  BY <1>2, <1>4, <1>7, StreamKeeps
<1>12. StreamInv(s)'
  <2>0. StreamInv(s) OBVIOUS
  <2> DEFINE l == newest'[task[s]]
  <2>1. l \in Nat /\ l >= 1 /\ retained'[task[s]] = {n \in 1..l : n + Retention > l}
    BY <1>2, <1>6 DEF LogGrows, LogInv
  <2>2. CASE page'[s] = page[s] /\ step'[s] = "error"
    BY <1>4, <2>0, <2>2 DEF StreamInv
  <2>3. CASE page'[s] = p /\ p.gap /\ step'[s] = "gap"
    <3>1. gap_before_page(task[s], position[s]) BY <2>3 DEF task_events_visible
    <3>2. l \in retained'[task[s]] /\ position[s] + 1 \notin retained'[task[s]] /\ position[s] + 1 < l
      BY <1>6, <2>1, <3>1 DEF gap_before_page
    <3>3. position[s] + 1 + Retention <= l BY <1>6, <2>1, <3>2
    <3> QED BY <1>4, <2>0, <2>3, <3>3 DEF StreamInv
  <2>4. CASE page'[s] = p /\ ~p.gap /\ step'[s] \in {"write", "final_write"}
    <3>1. ~gap_before_page(task[s], position[s]) BY <2>4 DEF task_events_visible
    <3>2. PICK k \in Nat : /\ Lowest(Above(task[s], position[s])) = (position[s] + 1)..k
                           /\ \/ Lowest(Above(task[s], position[s])) # Above(task[s], position[s])
                              \/ k >= l
      BY <1>2, <1>6, <3>1, PageIsARun DEF LogGrows
    <3>3. page'[s].latest = l /\ page'[s].events = (position[s] + 1)..k
      BY <2>4, <3>2 DEF task_events_visible
    <3>4. page'[s].over => task[s] \in terminal'
      <4>1. p.over = (task[s] \in terminal') BY DEF task_events_visible
      <4> QED BY <2>4, <4>1, Zenon
    <3>5. page'[s].more \/ k >= l
      <4>1. p.more = (Lowest(Above(task[s], position[s])) # Above(task[s], position[s]))
        BY DEF task_events_visible
      <4> QED BY <2>4, <3>2, <4>1, Zenon
    <3>6. PageFits(s)' BY <1>4, <2>1, <3>3, <3>4, <3>5 DEF PageFits
    <3> QED BY <1>4, <2>0, <2>4, <3>6 DEF StreamInv
  <2> QED BY <1>6, <1>8, <2>2, <2>3, <2>4
<1> QED BY <1>2, <1>10, <1>11, <1>12 DEF LogGrows

\* A page is written, in whole or in part, and the cursor moves to the last
\* event the client got.
LEMMA EmitStep ==
  ASSUME HistoryInv, NEW s \in Streams, emit_task_event_page(s)
  PROVE  /\ HistoryInv'
         /\ step'[s] = "wait" => position'[s] >= page[s].latest
<1> USE DEF HistoryInv
<1>1. UNCHANGED <<log, hub, task, start, page>> /\ step[s] \in {"write", "final_write"}
  BY DEF emit_task_event_page
<1>2. StreamInv(s) /\ PageFits(s) BY <1>1 DEF StreamInv
<1>3. /\ position[s] \in Nat /\ start[s] \in Nat /\ task[s] \in Tasks /\ page[s] \in PageRecords
      /\ seen[s] \in SUBSET Nat /\ newest[task[s]] \in Nat
  BY DEF TypeOK
<1>4. PICK k \in Nat : /\ page[s].events = (position[s] + 1)..k
                       /\ page[s].more \/ k >= page[s].latest
  BY <1>2 DEF PageFits
<1> DEFINE fresh == {n \in page[s].events : n > position[s]}
<1>5. fresh = (position[s] + 1)..k BY <1>3, <1>4
<1>6. page[s].latest \in Nat BY <1>3 DEF PageRecords
<1> HIDE DEF fresh
<1>7. PICK n \in Nat :
        /\ n >= position[s]
        /\ position' = [position EXCEPT ![s] = n]
        /\ seen' = [seen EXCEPT ![s] = @ \cup {m \in fresh : m <= n}]
        /\ n > position[s] => n \in fresh
        /\ \/ /\ faults' = faults /\ step' = [step EXCEPT ![s] = next_step(s)]
              /\ n >= k
           \/ faults < MaxFaults /\ faults' = faults + 1 /\ step' = [step EXCEPT ![s] = "broken"]
  <2>1. CASE /\ seen'  = [seen EXCEPT ![s] = @ \cup fresh]
             /\ position' = [position EXCEPT ![s] = IF fresh = {} THEN @
                                              ELSE CHOOSE n \in fresh : \A m \in fresh : m <= n]
             /\ step' = [step EXCEPT ![s] = next_step(s)]
             /\ UNCHANGED faults
    <3>1. CASE fresh = {}
      <4>1. position[s] >= k
        <5>1. position[s] \in Nat /\ k \in Nat BY <1>3
        <5>2. position[s] < k => position[s] + 1 \in (position[s] + 1)..k BY <5>1
        <5>3. ~(position[s] < k) BY <1>5, <3>1, <5>2
        <5> QED BY <5>1, <5>3
      <4>2. position' = [position EXCEPT ![s] = position[s]] BY <2>1, <3>1
      <4>3. fresh = {m \in fresh : m <= position[s]} BY <3>1
      <4>4. seen' = [seen EXCEPT ![s] = @ \cup {m \in fresh : m <= position[s]}] BY <2>1, <4>3, Zenon
      <4>5. position[s] >= position[s] /\ ~(position[s] > position[s]) BY <1>3
      <4> QED BY <1>3, <2>1, <4>1, <4>2, <4>4, <4>5, Zenon
    <3>2. CASE fresh # {}
      <4>1. k \in fresh /\ \A m \in fresh : m <= k BY <1>3, <1>5, <3>2
      <4>2. (CHOOSE n \in fresh : \A m \in fresh : m <= n) = k
        <5> DEFINE c == CHOOSE n \in fresh : \A m \in fresh : m <= n
        <5>1. c \in fresh /\ \A m \in fresh : m <= c BY <4>1
        <5>2. c <= k /\ k <= c /\ c \in Nat BY <1>3, <1>5, <4>1, <5>1
        <5> QED BY <5>2
      <4>3. fresh = {m \in fresh : m <= k} BY <4>1
      <4>4. position' = [position EXCEPT ![s] = k] BY <2>1, <3>2, <4>2
      <4>5. k >= position[s] BY <1>3, <1>5, <4>1
      <4> QED BY <1>3, <2>1, <4>1, <4>3, <4>4, <4>5
    <3> QED BY <3>1, <3>2
  <2>2. CASE /\ faults < MaxFaults /\ faults' = faults + 1
             /\ \E n \in fresh \cup {position[s]} :
                  /\ seen'  = [seen EXCEPT ![s] = @ \cup {m \in fresh : m <= n}]
                  /\ position' = [position EXCEPT ![s] = n]
             /\ step' = [step EXCEPT ![s] = "broken"]
    <3>1. PICK n \in fresh \cup {position[s]} :
            /\ seen'  = [seen EXCEPT ![s] = @ \cup {m \in fresh : m <= n}]
            /\ position' = [position EXCEPT ![s] = n]
      BY <2>2
    <3>2. n \in Nat /\ n >= position[s] /\ (n > position[s] => n \in fresh) BY <1>3, <1>5, <3>1
    <3> QED BY <2>2, <3>1, <3>2
  <2> QED BY <2>1, <2>2 DEF emit_task_event_page, fresh
<1>8. position'[s] = n /\ seen'[s] = seen[s] \cup {m \in fresh : m <= n} BY <1>7 DEF TypeOK
<1>9. next_step(s) \in {"read", "ended", "wait", "timeout"} BY DEF next_step
<1>10. TypeOK'
  <2>1. faults' \in 0..MaxFaults BY <1>7, StreamBoundsAssumption DEF TypeOK
  <2>2. seen' \in [Streams -> SUBSET Nat] BY <1>3, <1>5, <1>7 DEF TypeOK
  <2>3. step' \in [Streams -> Steps] BY <1>7, <1>9 DEF TypeOK, Steps, Closed
  <2> QED BY <1>1, <1>7, <2>1, <2>2, <2>3 DEF TypeOK, log, hub
<1>11. LogInv' /\ ExitedAreOpen' BY <1>1 DEF log, LogInv, ExitedAreOpen
<1>12. ASSUME NEW r \in Streams, r # s PROVE StreamInv(r)'
  <2>1. StreamInv(r) OBVIOUS
  <2> QED BY <1>1, <1>7, <1>12, <2>1, SMTT(30) DEF TypeOK, log, StreamInv, PageFits
<1>13. start[s] <= n /\ seen'[s] = (start[s] + 1)..n
  <2>1. start[s] <= position[s] /\ seen[s] = (start[s] + 1)..position[s] BY <1>2 DEF StreamInv
  <2>2. {m \in fresh : m <= n} = (position[s] + 1)..n
    <3>1. CASE n = position[s] BY <1>3, <1>5, <3>1
    <3>2. CASE n \in (position[s] + 1)..k BY <1>3, <1>5, <3>2
    <3> QED BY <1>3, <1>5, <1>7, <3>1, <3>2
  <2>3. start[s] <= n /\ (start[s] + 1)..position[s] \cup (position[s] + 1)..n = (start[s] + 1)..n
    BY <1>3, <1>7, <2>1
  <2> QED BY <1>8, <2>1, <2>2, <2>3, Zenon
<1>14. step'[s] \in {"read", "ended", "wait", "timeout", "broken"} BY <1>7, <1>9 DEF TypeOK
<1>15. step'[s] = "ended" => page[s].over /\ n >= page[s].latest
  BY <1>7, <1>8 DEF TypeOK, next_step, finished
<1>16. step'[s] = "wait" => ~page[s].more /\ n >= k
  BY <1>7 DEF TypeOK, next_step
<1>17. step'[s] = "wait" => n >= page[s].latest BY <1>4, <1>6, <1>16
<1>18. StreamInv(s)'
  BY <1>1, <1>2, <1>3, <1>6, <1>8, <1>13, <1>14, <1>15 DEF StreamInv, PageFits, log
<1> QED BY <1>8, <1>10, <1>11, <1>12, <1>17, <1>18

LEMMA ReceiveStep ==
  ASSUME HistoryInv, NEW s \in Streams, recv_wakeup(s) \/ recv_timeout(s)
  PROVE  HistoryInv'
<1> USE DEF HistoryInv
<1>1. UNCHANGED <<log, subs, task, start, position, page, seen, faults>>
  BY DEF recv_wakeup, recv_timeout, hub
<1>2. TypeOK'
  <2>1. queued' \in [Streams -> 0..Capacity]
    BY SizesAssumption DEF recv_wakeup, recv_timeout, hub, TypeOK
  <2>2. step' \in [Streams -> Steps] BY DEF recv_wakeup, recv_timeout, TypeOK, Steps
  <2> QED BY <1>1, <2>1, <2>2 DEF TypeOK, log
<1>3. LogInv' /\ ExitedAreOpen' BY <1>1 DEF log, LogInv, ExitedAreOpen
<1>4. ASSUME NEW r \in Streams PROVE StreamInv(r)'
  <2>1. StreamInv(r) OBVIOUS
  <2>2. step'[r] = step[r] \/ step'[r] \in {"read", "final_read"}
    BY DEF recv_wakeup, recv_timeout, TypeOK
  <2>3. step[r] = "new" <=> step'[r] = "new" BY DEF recv_wakeup, recv_timeout, TypeOK
  <2> QED BY <1>1, <2>1, <2>2, <2>3 DEF log, StreamInv, PageFits
<1> QED BY <1>2, <1>3, <1>4

LEMMA InitHistory == Init => HistoryInv
<1> SUFFICES ASSUME Init PROVE HistoryInv OBVIOUS
<1>1. TypeOK
  <2>1. NoPage \in PageRecords BY DEF NoPage, PageRecords
  <2> QED BY <2>1, SizesAssumption, StreamBoundsAssumption DEF Init, TypeOK, Steps
<1>2. LogInv
  <2>1. {1} = {n \in 1..1 : n + Retention > 1} BY SizesAssumption
  <2> QED BY <2>1 DEF Init, LogInv
<1>3. ExitedAreOpen BY DEF Init, ExitedAreOpen
<1>4. \A s \in Streams : StreamInv(s)
  <2>1. (0 + 1)..0 = {} OBVIOUS
  <2> QED BY <2>1 DEF Init, StreamInv
<1> QED BY <1>1, <1>2, <1>3, <1>4 DEF HistoryInv

LEMMA NextHistory == HistoryInv /\ [Next]_vars => HistoryInv'
<1> SUFFICES ASSUME HistoryInv, [Next]_vars PROVE HistoryInv' OBVIOUS
<1>1. ASSUME NEW t \in Tasks, NEW over \in BOOLEAN, NEW notified \in BOOLEAN,
             transition_task(t, over, notified)
      PROVE  HistoryInv' BY <1>1, TransitionStep
<1>2. ASSUME NEW t \in Tasks, process_exits(t) PROVE HistoryInv' BY <1>2, ExitStep
<1>3. CASE refresh_all BY <1>3, RefreshAllStep
<1>4. ASSUME NEW s \in Streams, NEW t \in Tasks, NEW a \in Resume, subscribe_object(s, t, a)
      PROVE  HistoryInv' BY <1>4, SubscribeStep
<1>5. ASSUME NEW s \in Streams, StreamStep(s) PROVE HistoryInv'
  BY <1>5, ReadStep, EmitStep, ReceiveStep DEF StreamStep
<1>6. CASE UNCHANGED vars
  BY <1>6 DEF vars, log, hub, HistoryInv, TypeOK, LogInv, ExitedAreOpen, StreamInv, PageFits
<1> QED BY <1>1, <1>2, <1>3, <1>4, <1>5, <1>6 DEF Next

\* The invariant says what a client may rely on.
LEMMA HistoryIsSeen == HistoryInv => ClientSeesHistory
<1> SUFFICES ASSUME HistoryInv PROVE ClientSeesHistory OBVIOUS
<1> USE DEF HistoryInv
<1>1. RetainedHistory BY DEF LogInv, RetainedHistory
<1>2. NoSilentGap BY DEF StreamInv, NoSilentGap
<1>3. EndIsComplete BY DEF StreamInv, EndIsComplete
<1>4. GapIsReal
  <2> SUFFICES ASSUME NEW s \in Streams, step[s] = "gap" PROVE position[s] + 1 \notin retained[task[s]]
    BY DEF GapIsReal
  <2>1. /\ position[s] \in Nat /\ task[s] \in Tasks /\ newest[task[s]] \in Nat
        /\ position[s] + 1 + Retention <= newest[task[s]]
    BY DEF TypeOK, StreamInv
  <2> QED BY <2>1, SizesAssumption DEF LogInv
<1> QED BY <1>1, <1>2, <1>3, <1>4 DEF ClientSeesHistory

\* The types of EventStream's variables hold in every reachable state: cursors
\* stay numbers, channels within their capacity and steps within the loop of
\* serve_task_event_stream.
THEOREM StreamTypes == Spec => []TypeOK
<1>1. HistoryInv => TypeOK BY DEF HistoryInv
<1> QED BY <1>1, InitHistory, NextHistory, PTL DEF Spec

\* For every retention, page limit and channel capacity, every number of tasks
\* and streams, and any failures: the log keeps exactly the newest events, a
\* client has received every event between its resume point and the cursor, a
\* stale_resource frame is only sent for an event that is gone, and a stream
\* ends only when its task is over and all of it was delivered
\* (event.rs insert_significant_event_tx, serve_task_event_stream).
THEOREM HistoryIsDelivered == Spec => []ClientSeesHistory
  BY InitHistory, NextHistory, HistoryIsSeen, PTL DEF Spec
-----------------------------------------------------------------------------
(***************************************************************************)
(* Wake-ups.                                                               *)
(***************************************************************************)
\* A commit that is published leaves every stream that sleeps, or is about to,
\* a wake-up for what it has not read.
LEMMA CommitWakes ==
  ASSUME StreamsInv, NEW T \in SUBSET Tasks, publish(T), insert_significant_events(T),
         faults' = 0 => faults = 0,
         NEW s \in Streams, step'[s] = step[s], task'[s] = task[s],
         position'[s] = position[s], page'[s] = page[s]
  PROVE  WakeupInv(s)'
<1> USE DEF StreamsInv, HistoryInv
<1>1. WakeupInv(s) /\ task[s] \in Tasks /\ newest[task[s]] \in Nat /\ queued[s] \in Nat
  BY DEF TypeOK
<1>2. /\ s \in subs /\ Following(s, task[s]) => s \in subs'
      /\ queued'[s] >= queued[s] /\ queued'[s] \in Nat
      /\ s \in subs' /\ task[s] \in T => queued'[s] > 0
  BY PublishWakes
<1>3. task[s] \notin T => newest'[task[s]] = newest[task[s]] BY <1>1, CommitKeepsLog
<1>4. Following(s, task[s])' = Following(s, task[s]) BY DEF Following
<1>5. step[s] \in {"wait", "write"} => Following(s, task[s]) BY DEF Following, Closed
<1> QED BY <1>1, <1>2, <1>3, <1>4, <1>5 DEF WakeupInv

LEMMA ReadWakes ==
  ASSUME StreamsInv, NEW s \in Streams, read_page(s), NEW r \in Streams
  PROVE  WakeupInv(r)'
<1> USE DEF StreamsInv, HistoryInv
<1>1. PICK T \in SUBSET exited : refresh(T) BY DEF read_page
<1>2. publish(T) /\ insert_significant_events(T) /\ T \in SUBSET Tasks
  BY <1>1, RefreshPublishes DEF refresh
<1>3. faults' = 0 => faults = 0 BY StreamBoundsAssumption DEF read_page, TypeOK
<1>4. task' = task /\ position' = position BY DEF read_page
<1>5. CASE r # s
  <2>1. step'[r] = step[r] /\ page'[r] = page[r] BY <1>5 DEF read_page, TypeOK
  <2> QED BY <1>2, <1>3, <1>4, <2>1, CommitWakes
<1>6. CASE r = s
  <2>1. Following(s, task[s]) /\ s \in subs
    <3>1. WakeupInv(s) OBVIOUS
    <3>2. Following(s, task[s]) BY DEF read_page, Following, Closed
    <3> QED BY <3>1, <3>2 DEF WakeupInv
  <2>2. s \in subs' BY <1>2, <2>1, PublishWakes
  <2>3. step'[s] # "wait" /\ (step'[s] = "write" => page'[s].latest = newest'[task[s]])
    BY DEF read_page, TypeOK, task_events_visible
  <2>4. newest'[task[s]] \in Nat BY <1>2, CommitKeepsLog DEF TypeOK
  <2> QED BY <1>4, <1>6, <2>2, <2>3, <2>4 DEF WakeupInv
<1> QED BY <1>5, <1>6

\* No step loses the wake-up of a stream.
LEMMA NextWakes == StreamsInv /\ [Next]_vars => \A s \in Streams : WakeupInv(s)'
<1> SUFFICES ASSUME StreamsInv, [Next]_vars, NEW r \in Streams PROVE WakeupInv(r)' OBVIOUS
<1> USE DEF StreamsInv, HistoryInv
<1>0. WakeupInv(r) OBVIOUS
<1>1. ASSUME NEW t \in Tasks, NEW over \in BOOLEAN, NEW notified \in BOOLEAN,
             transition_task(t, over, notified)
      PROVE  WakeupInv(r)'
  <2>1. UNCHANGED <<step, task, position, page>> /\ insert_significant_events({t})
    BY <1>1 DEF transition_task
  <2>2. CASE publish({t}) /\ UNCHANGED faults
    BY <2>1, <2>2, CommitWakes
  <2>3. CASE faults' = faults + 1 /\ UNCHANGED hub
    <3>1. faults' # 0 BY <2>3, StreamBoundsAssumption DEF TypeOK
    <3> QED BY <1>0, <2>1, <2>3, <3>1 DEF WakeupInv, Following, hub
  <2> QED BY <1>1, <2>2, <2>3 DEF transition_task
<1>2. ASSUME NEW t \in Tasks, process_exits(t) PROVE WakeupInv(r)'
  BY <1>0, <1>2 DEF process_exits, hub, WakeupInv, Following
<1>3. CASE refresh_all
  <2>1. refresh(exited) /\ UNCHANGED <<step, task, position, page, faults>> BY <1>3 DEF refresh_all
  <2>2. publish(exited) /\ insert_significant_events(exited) /\ exited \in SUBSET Tasks
    BY <2>1 DEF refresh, TypeOK
  <2> QED BY <2>1, <2>2, CommitWakes
<1>4. ASSUME NEW s \in Streams, NEW t \in Tasks, NEW a \in Resume, subscribe_object(s, t, a)
      PROVE  WakeupInv(r)'
  BY <1>0, <1>4 DEF subscribe_object, TypeOK, log, WakeupInv, Following, Closed
<1>5. ASSUME NEW s \in Streams, read_page(s) PROVE WakeupInv(r)' BY <1>5, ReadWakes
<1>6. ASSUME NEW s \in Streams, emit_task_event_page(s) PROVE WakeupInv(r)'
  <2>1. UNCHANGED <<log, hub, task, page>> BY <1>6 DEF emit_task_event_page
  <2>2. faults' = 0 => faults = 0 BY <1>6, StreamBoundsAssumption DEF emit_task_event_page, TypeOK
  <2>3. CASE r # s
    <3>1. step'[r] = step[r] /\ position'[r] = position[r]
      BY <1>6, <2>3 DEF emit_task_event_page, TypeOK
    <3> QED BY <1>0, <2>1, <2>2, <3>1 DEF WakeupInv, Following, log, hub
  <2>4. CASE r = s
    <3>1. step[s] \in {"write", "final_write"} /\ Following(s, task[s]) /\ s \in subs
      BY <1>0, <1>6, <2>4 DEF emit_task_event_page, Following, Closed, WakeupInv
    <3>2. step'[s] # "write" BY <1>6 DEF emit_task_event_page, TypeOK, next_step
    <3>3. step'[s] = "wait" => position'[s] >= page[s].latest /\ position'[s] \in Nat
      BY <1>6, EmitStep DEF TypeOK
    <3>4. step'[s] = "wait" => step[s] = "write"
      BY <1>6 DEF emit_task_event_page, TypeOK, next_step
    <3>5. page[s].latest \in Nat /\ newest[task[s]] \in Nat BY DEF TypeOK, PageRecords
    <3> QED BY <1>0, <2>1, <2>2, <2>4, <3>1, <3>2, <3>3, <3>4, <3>5 DEF WakeupInv, log, hub
  <2> QED BY <2>3, <2>4
<1>7. ASSUME NEW s \in Streams, recv_wakeup(s) \/ recv_timeout(s) PROVE WakeupInv(r)'
  <2>1. UNCHANGED <<log, subs, task, position, page, faults>>
    BY <1>7 DEF recv_wakeup, recv_timeout, hub
  <2>2. CASE r # s
    <3>1. step'[r] = step[r] /\ queued'[r] = queued[r]
      BY <1>7, <2>2 DEF recv_wakeup, recv_timeout, hub, TypeOK
    <3> QED BY <1>0, <2>1, <3>1 DEF WakeupInv, Following, log
  <2>3. CASE r = s
    <3>1. step[s] = "wait" /\ step'[s] \in {"read", "final_read"}
      BY <1>7 DEF recv_wakeup, recv_timeout, TypeOK
    <3> QED BY <1>0, <2>1, <2>3, <3>1 DEF WakeupInv, Following, Closed
  <2> QED BY <2>2, <2>3
<1>8. CASE UNCHANGED vars BY <1>0, <1>8 DEF vars, log, hub, WakeupInv, Following
<1> QED BY <1>1, <1>2, <1>3, <1>4, <1>5, <1>6, <1>7, <1>8 DEF Next, StreamStep

\* No wake-up is lost: whatever interleaves with reading, writing and falling
\* asleep, a stream that sleeps on undelivered events has a wake-up in its
\* channel, as long as no notification failed (EventHub::publish_object with a
\* full channel, subscribe_object before the first read).
THEOREM WakeupsAreKept == Spec => []NoLostWakeup
<1>1. Init => StreamsInv
  BY InitHistory DEF Init, StreamsInv, WakeupInv, Following
<1>2. StreamsInv /\ [Next]_vars => StreamsInv'
  BY NextHistory, NextWakes DEF StreamsInv
<1>3. StreamsInv => NoLostWakeup BY DEF StreamsInv, WakeupInv, NoLostWakeup
<1> QED BY <1>1, <1>2, <1>3, PTL DEF Spec

-----------------------------------------------------------------------------
(***************************************************************************)
(* Types.                                                                  *)
(***************************************************************************)
Sources == Collected \cup {"correlation"}
Generations == Nat \X Nat
Resources == Apps \cup Procs \cup Windows \cup Workspaces \cup Services \cup Provs
                \cup Capabilities \cup ProviderResources
Refs == [kind : Sources, gen : Generations, id : Resources]
Ids == Resources \cup (Nat \X Resources)
IdsFor(src) == IF src = "correlation" THEN Nat \X Resources ELSE Resources
Links == Refs \cup {NoLink}
Freshness == {"recent", "stale", "unavailable", "historical"}
Rows ==
    [h : Nat \ {0}, src : Sources, gen : Generations, id : Ids, link : Links,
     fresh : Freshness, said : Freshness, owner : {NoOwner, "user"}]
Statuses == [gen : Generations, health : {"healthy", "degraded", "unavailable", "unknown"}]

\* A generation of the kind its source reports.
GenOf(src, gen) ==
    /\ gen \in Generations
    /\ src = "proc" => gen[2] = 0
    /\ src = "correlation" => gen = Constant

\* What a source reports of what it sees: only an instance, or a resource of a
\* provider, is not recent.
Reported(src, o) ==
    /\ o.fresh \in {"recent", "stale", "unavailable"}
    /\ src = "correlation" => o.fresh \in {"recent", "stale"}
    /\ src # "correlation" /\ ~IsProviderResource(src, o.id) => o.fresh = "recent"

BatchOK(b) ==
    /\ b.src \in Sources /\ GenOf(b.src, b.gen)
    /\ b.health \in {"healthy", "degraded", "unavailable"} /\ IsFiniteSet(b.obs)
    /\ \A o \in b.obs : /\ o.id \in IdsFor(b.src) /\ o.link \in Links
                        /\ Reported(b.src, o)
    /\ \A o, p \in b.obs : o.id = p.id => o = p

Observations == [id : Resources, link : Links, fresh : Freshness]
BatchRelations ==
    [from : Refs, to : Refs,
     kind : {"window_workspace", "provider_capability", "provider_resource"}]
Batches ==
    {b \in [src : Collected, gen : Generations, health : {"healthy", "degraded", "unavailable"},
            obs : SUBSET Observations, rels : SUBSET BatchRelations] :
        BatchOK(b)}

(***************************************************************************)
(* The tables.                                                             *)
(***************************************************************************)
SameName(r, s) == r.src = s.src /\ r.gen = s.gen /\ r.id = s.id
\* A handle names one row, and so does an identity.
Keyed(rows) == \A r, s \in rows : r.h = s.h \/ SameName(r, s) => r = s

SourcesOK(sources) ==
    /\ DOMAIN sources \subseteq Sources
    /\ \A s \in DOMAIN sources : sources[s] \in Statuses

\* A resource of a provider that shows what the registry said of it.
SaidSo(r) == IsProviderResource(r.src, r.id) /\ r.fresh = r.said

RowOK(r, sources, next) ==
    /\ r.h < next /\ r.src \in DOMAIN sources /\ r.owner = OwnerOf(r.src, r.id)
    /\ GenOf(r.src, r.gen) /\ r.id \in IdsFor(r.src)
    /\ r.fresh # "historical" =>
          /\ r.gen = sources[r.src].gen
          /\ sources[r.src].health = "unavailable" => r.fresh = "unavailable"
    /\ r.src # "correlation" /\ sources[r.src].health = "healthy" =>
          r.fresh \in {"recent", "historical"} \/ SaidSo(r)

IsIndex(x) ==
    x \in [rows : {x.rows}, rels : {x.rels}, sources : {x.sources}, state : {x.state},
           generation : {x.generation}, next : {x.next}]

TablesOK(x) ==
    /\ IsIndex(x)
    /\ x.rows \subseteq Rows /\ IsFiniteSet(x.rows) /\ Keyed(x.rows)
    /\ x.next \in Nat \ {0} /\ SourcesOK(x.sources)
    /\ \A r \in x.rows : RowOK(r, x.sources, x.next)
    /\ \A l \in x.rels : \E f, t \in x.rows : f.h = l.from /\ t.h = l.to

\* No handle that x has given is given again.
NewHandles(x, y) ==
    /\ x.next <= y.next
    /\ \A s \in y.rows : s.h < x.next => \E r \in x.rows : r.h = s.h

\* Every row of x is still there, perhaps with another freshness.
Keeps(x, y) ==
    /\ \A r \in x.rows : \E s \in y.rows : s.h = r.h /\ SameName(r, s)
    /\ NewHandles(x, y)

\* Rows of the same handles as before, and no handle given.
LEMMA SameHandles ==
  ASSUME NEW x, TablesOK(x), NEW y, y.next = x.next,
         \A q \in y.rows : \E r \in x.rows : r.h = q.h
  PROVE  NewHandles(x, y)
BY DEF NewHandles, TablesOK

LEMMA KeptAsItIs ==
  ASSUME NEW x, TablesOK(x)  PROVE Keeps(x, x)
BY SameHandles DEF Keeps, SameName

\* An instance shown as recent has its process and its relation.
Backed(x) ==
    \A r \in x.rows : r.src = "correlation" /\ r.fresh = "recent" =>
        \E p \in x.rows :
            /\ p.src = "proc" /\ p.fresh = "recent" /\ InstanceId(p) = r.id
            /\ \E l \in x.rels : l.from = r.h /\ l.to = p.h /\ l.kind = "instance_process"

\* A healthy index has no poor source of the system, and no stale instance.
ReadAgain(x) ==
    /\ \A s \in SystemSources \cap DOMAIN x.sources : x.sources[s].health \notin Poor
    /\ \A r \in x.rows : r.src = "correlation" => r.fresh \in {"recent", "historical"}

StateOK(x) ==
    /\ x.state \in {"initializing", "rebuilding", "healthy", "degraded"}
    /\ x.state \in {"healthy", "degraded"} => Backed(x)
    /\ x.state = "healthy" => ReadAgain(x)

(***************************************************************************)
(* The machine and the requests.                                           *)
(***************************************************************************)
WorldOK ==
    /\ world \in [present : SUBSET Resources, cond : {world.cond}, boot : Nat, session : Nat,
                  sessions : Nat, ended : {world.ended},
                  avail : [ProviderResources -> Availability]]
    /\ DOMAIN world.cond = DOMAIN Conditions
    /\ \A s \in DOMAIN Conditions : world.cond[s] \in Conditions[s]

StageNames == {"applications", "proc", "graphical", "openrc", "providers"}
\* The graphical collector takes the boot of the batch before it.
RequestOK(q) ==
    \/ q \in [pc : {"idle"}, answer : Answers]
    \/ /\ q \in [pc : {"collecting"}, todo : Seq(StageNames), batches : Seq(Batches), want : {q.want}]
       /\ q.batches = <<>> /\ q.todo # <<>> => q.todo[1] # "graphical"

IndexInv ==
    /\ WorldOK /\ TablesOK(index) /\ StateOK(index)
    /\ DOMAIN calls = Callers /\ \A c \in Callers : RequestOK(calls[c])

(***************************************************************************)
(* Rows whose freshness is set, and the rows of an earlier generation.     *)
(***************************************************************************)
\* q is r but for its freshness.
Aged(q, r) ==
    /\ q.h = r.h /\ q.src = r.src /\ q.gen = r.gen /\ q.id = r.id /\ q.link = r.link
    /\ q.owner = r.owner /\ q.said = r.said

LEMMA FreshnessSet ==
  ASSUME NEW rows, rows \subseteq Rows, IsFiniteSet(rows), Keyed(rows),
         NEW which, NEW fresh \in Freshness
  PROVE  LET T == SetFresh(rows, which, fresh) IN
         /\ T \subseteq Rows /\ IsFiniteSet(T) /\ Keyed(T)
         /\ \A q \in T : \E r \in rows :
               Aged(q, r) /\ q.fresh = IF r \in which THEN fresh ELSE r.fresh
         /\ \A r \in rows : \E q \in T :
               Aged(q, r) /\ q.fresh = IF r \in which THEN fresh ELSE r.fresh
<1> DEFINE T == SetFresh(rows, which, fresh)
           f == [r \in rows |-> IF r \in which THEN [r EXCEPT !.fresh = fresh] ELSE r]
<1>1. ASSUME NEW r \in rows
      PROVE  /\ f[r] \in T /\ f[r] \in Rows /\ Aged(f[r], r)
             /\ f[r].fresh = IF r \in which THEN fresh ELSE r.fresh
  <2>1. r \in Rows  OBVIOUS
  <2>2. f[r] \in T  BY DEF SetFresh
  <2>3. CASE r \in which
    <3>1. f[r] = [r EXCEPT !.fresh = fresh]  BY <2>3
    <3> HIDE DEF f, T
    <3> QED BY <2>1, <2>2, <2>3, <3>1 DEF Rows, Aged
  <2>4. CASE r \notin which  BY <2>1, <2>2, <2>4 DEF Aged
  <2> QED BY <2>3, <2>4
<1>2. \A q \in T : \E r \in rows : q = f[r]  BY DEF SetFresh
<1>3. IsFiniteSet(T)
  <2>1. f \in Surjection(rows, T)
    <3> HIDE DEF T
    <3>1. f \in [rows -> T]  BY <1>1
    <3> QED BY <1>2, <3>1 DEF Surjection
  <2> QED BY <2>1, FS_Surjection
<1> HIDE DEF T, f
<1>4. Keyed(T)
  <2> SUFFICES ASSUME NEW q1 \in T, NEW q2 \in T, q1.h = q2.h \/ SameName(q1, q2)  PROVE q1 = q2
    BY DEF Keyed
  <2>1. PICK r1 \in rows, r2 \in rows : q1 = f[r1] /\ q2 = f[r2]  BY <1>2
  <2>2. Aged(q1, r1) /\ Aged(q2, r2)  BY <1>1, <2>1
  <2>3. r1 = r2  BY <2>2 DEF Aged, SameName, Keyed
  <2> QED BY <2>1, <2>3
<1>5. T \subseteq Rows  BY <1>1, <1>2
<1>6. \A q \in T : \E r \in rows :
        Aged(q, r) /\ q.fresh = IF r \in which THEN fresh ELSE r.fresh
  BY <1>1, <1>2
<1>7. \A r \in rows : \E q \in T :
        Aged(q, r) /\ q.fresh = IF r \in which THEN fresh ELSE r.fresh
  BY <1>1
<1> QED BY <1>3, <1>4, <1>5, <1>6, <1>7 DEF T

\* The rows of the source of b that are current belong to its generation.
LEMMA Expired ==
  ASSUME NEW rows, rows \subseteq Rows, IsFiniteSet(rows), Keyed(rows), NEW b
  PROVE  LET T == expire_generations(rows, b) IN
         /\ T \subseteq Rows /\ IsFiniteSet(T) /\ Keyed(T)
         /\ \A q \in T : \E r \in rows :
               /\ Aged(q, r) /\ q.fresh \in {r.fresh, "historical"}
               /\ q.src # b.src => q.fresh = r.fresh
         /\ \A r \in rows : \E q \in T :
               /\ Aged(q, r) /\ q.fresh \in {r.fresh, "historical"}
               /\ q.src # b.src => q.fresh = r.fresh
         /\ \A q \in Current(T, b.src) : q.gen = b.gen
<1> DEFINE W == {r \in Current(rows, b.src) : r.gen # b.gen}
           T == SetFresh(rows, W, "historical")
<1>1. expire_generations(rows, b) = T  BY DEF expire_generations
<1>2. \A r \in rows : r \in W <=> r.src = b.src /\ r.fresh # "historical" /\ r.gen # b.gen
  BY DEF Current
<1> HIDE DEF W
<1>3. /\ T \subseteq Rows /\ IsFiniteSet(T) /\ Keyed(T)
      /\ \A q \in T : \E r \in rows :
               Aged(q, r) /\ q.fresh = IF r \in W THEN "historical" ELSE r.fresh
      /\ \A r \in rows : \E q \in T :
               Aged(q, r) /\ q.fresh = IF r \in W THEN "historical" ELSE r.fresh
  BY FreshnessSet DEF Freshness
<1> HIDE DEF T
<1>4. \A q \in T : \E r \in rows :
               /\ Aged(q, r) /\ q.fresh \in {r.fresh, "historical"}
               /\ q.src # b.src => q.fresh = r.fresh
  BY <1>2, <1>3 DEF Aged
<1>5. \A r \in rows : \E q \in T :
               /\ Aged(q, r) /\ q.fresh \in {r.fresh, "historical"}
               /\ q.src # b.src => q.fresh = r.fresh
  BY <1>2, <1>3 DEF Aged
<1>6. \A q \in Current(T, b.src) : q.gen = b.gen  BY <1>2, <1>3 DEF Aged, Current
<1> QED BY <1>1, <1>3, <1>4, <1>5, <1>6

(***************************************************************************)
(* The rows that the observations of a batch become.                       *)
(***************************************************************************)
LEMMA SequenceOfSet ==
  ASSUME NEW S, IsFiniteSet(S)
  PROVE  LET f == SetToSeq(S) IN
         /\ f \in [1..Cardinality(S) -> S]
         /\ \A i, j \in 1..Cardinality(S) : f[i] = f[j] => i = j
         /\ Len(f) = Cardinality(S)
         /\ \A x \in S : \E i \in 1..Cardinality(S) : f[i] = x
<1> DEFINE n == Cardinality(S)  f == SetToSeq(S)
<1>1. n \in Nat /\ ExistsBijection(1..n, S)  BY FS_CardinalityType
<1>2. PICK g \in [1..n -> S] : IsInjective(g)
  BY <1>1 DEF ExistsBijection, Bijection, Injection
<1>3. f \in [1..n -> S] /\ IsInjective(f)  BY <1>2 DEF SetToSeq
<1> HIDE DEF f, n
<1>4. \A i, j \in 1..n : f[i] = f[j] => i = j  BY <1>3 DEF IsInjective
<1>5. f \in Surjection(1..n, S)
  <2>1. f \in Injection(1..n, S)  BY <1>3 DEF Injection
  <2>2. IsFiniteSet(1..n) /\ Cardinality(1..n) = n  BY <1>1, FS_Interval
  <2> QED BY <2>1, <2>2, FS_Injection DEF n
<1>6. \A x \in S : \E i \in 1..n : f[i] = x  BY <1>5 DEF Surjection
<1>7. Len(f) = n  BY <1>1, <1>3
<1> QED BY <1>3, <1>4, <1>6, <1>7 DEF f, n

\* What the observation o of b becomes, n the row.
Becomes(o, n, b) ==
    /\ n.src = b.src /\ n.gen = b.gen /\ n.id = o.id /\ n.link = o.link
    /\ n.owner = OwnerOf(b.src, o.id) /\ n.fresh = o.fresh /\ n.said = o.fresh

LEMMA ObservedRows ==
  ASSUME NEW rows, rows \subseteq Rows, Keyed(rows), NEW next \in Nat \ {0},
         \A r \in rows : r.h < next, NEW b, BatchOK(b)
  PROVE  LET new == observed_rows(rows, b, next) IN
         /\ new \subseteq Rows /\ IsFiniteSet(new) /\ Keyed(new)
         /\ Cardinality({n \in new : n.h >= next}) \in Nat
         /\ \A n \in new : n.h < next + Cardinality({q \in new : q.h >= next})
         /\ \A n \in new : n.h < next =>
               \E r \in existing(rows, b) : r.h = n.h /\ r.id = n.id
         /\ \A n \in new : \A r \in existing(rows, b) : n.id = r.id => n.h = r.h
         /\ \A n \in new : \E o \in b.obs : Becomes(o, n, b)
         /\ \A o \in b.obs : \E n \in new : Becomes(o, n, b)
<1> DEFINE K == existing(rows, b)
           S == {o \in b.obs : \A r \in K : r.id # o.id}
           k == Cardinality(S)
           seq == SetToSeq(S)
           handle(o) == IF \E r \in K : r.id = o.id THEN (CHOOSE r \in K : r.id = o.id).h
                        ELSE next + (CHOOSE i \in 1..Len(seq) : seq[i] = o) - 1
           row(o) == [h |-> handle(o), src |-> b.src, gen |-> b.gen, id |-> o.id, link |-> o.link,
                      fresh |-> o.fresh, said |-> o.fresh, owner |-> OwnerOf(b.src, o.id)]
           new == {row(o) : o \in b.obs}
           f == [o \in b.obs |-> row(o)]
           fresh_ones == {n \in new : n.h >= next}
<1>1. new = observed_rows(rows, b, next)  BY DEF observed_rows
<1>2. /\ b.src \in Sources /\ b.gen \in Generations /\ IsFiniteSet(b.obs)
      /\ \A o \in b.obs : o.id \in Ids /\ o.link \in Links
      /\ \A o \in b.obs : o.fresh \in Freshness
      /\ \A o, p \in b.obs : o.id = p.id => o = p
  BY DEF BatchOK, GenOf, IdsFor, Ids, Reported, Freshness
<1>3. K \subseteq rows /\ \A r, s \in K : r.id = s.id => r = s
  BY DEF existing, Current, Keyed, SameName
<1>4. /\ IsFiniteSet(S) /\ k \in Nat /\ seq \in [1..k -> S] /\ Len(seq) = k
      /\ \A i, j \in 1..k : seq[i] = seq[j] => i = j
      /\ \A o \in S : \E i \in 1..k : seq[i] = o
  <2>1. IsFiniteSet(S)  BY <1>2, FS_Subset
  <2> QED BY <2>1, SequenceOfSet, FS_CardinalityType
<1>5. \A o \in b.obs : \A r \in K : r.id = o.id => handle(o) = r.h  BY <1>3
<1>6. ASSUME NEW o \in S
      PROVE  \E i \in 1..k : seq[i] = o /\ handle(o) = next + i - 1
  <2>1. PICK i \in 1..k : seq[i] = o  BY <1>4
  <2>2. (CHOOSE j \in 1..Len(seq) : seq[j] = o) = i  BY <2>1, <1>4
  <2> QED BY <2>1, <2>2
<1>7. \A o \in b.obs : o \in S \/ \E r \in K : r.id = o.id  OBVIOUS
<1>8. \A r \in K : r.h \in Nat \ {0} /\ r.h < next  BY <1>3 DEF Rows
<1>9. \A o \in b.obs : handle(o) \in Nat \ {0} /\ handle(o) < next + k
  <2> SUFFICES ASSUME NEW o \in b.obs  PROVE handle(o) \in Nat \ {0} /\ handle(o) < next + k
    OBVIOUS
  <2>1. CASE o \in S
    <3>1. PICK i \in 1..k : handle(o) = next + i - 1  BY <2>1, <1>6
    <3> HIDE DEF handle, k
    <3> QED BY <3>1, <1>4
  <2>2. CASE \E r \in K : r.id = o.id
    <3>1. PICK r \in K : handle(o) = r.h  BY <2>2, <1>5
    <3> HIDE DEF handle, k, K
    <3> QED BY <3>1, <1>8, <1>4
  <2> QED BY <1>7, <2>1, <2>2
<1>10. \A o \in b.obs : o \in S <=> handle(o) >= next
  <2> SUFFICES ASSUME NEW o \in b.obs  PROVE o \in S <=> handle(o) >= next
    OBVIOUS
  <2>1. CASE o \in S
    <3>1. PICK i \in 1..k : handle(o) = next + i - 1  BY <2>1, <1>6
    <3> HIDE DEF handle, k
    <3> QED BY <3>1, <1>4, <2>1
  <2>2. ASSUME NEW r \in K, r.id = o.id  PROVE o \notin S /\ ~(handle(o) >= next)
    <3>1. handle(o) = r.h  BY <2>2, <1>5
    <3>2. o \notin S  BY <2>2
    <3> HIDE DEF handle, K, S
    <3> QED BY <3>1, <3>2, <1>8
  <2> QED BY <1>7, <2>1, <2>2
<1>11. ASSUME NEW o \in b.obs, NEW p \in b.obs, handle(o) = handle(p)
       PROVE  o = p
  <2>1. CASE o \in S /\ p \in S
    <3>1. PICK i \in 1..k : seq[i] = o /\ handle(o) = next + i - 1  BY <2>1, <1>6
    <3>2. PICK j \in 1..k : seq[j] = p /\ handle(p) = next + j - 1  BY <2>1, <1>6
    <3>3. i = j
      <4>1. next + i - 1 = next + j - 1  BY <1>11, <3>1, <3>2
      <4> HIDE DEF k
      <4> QED BY <4>1, <1>4
    <3> QED BY <3>1, <3>2, <3>3
  <2>2. CASE o \notin S /\ p \notin S
    <3>1. PICK r \in K : r.id = o.id  BY <2>2, <1>7
    <3>2. PICK s \in K : s.id = p.id  BY <2>2, <1>7
    <3>3. handle(o) = r.h /\ handle(p) = s.h  BY <3>1, <3>2, <1>5
    <3>4. r = s
      <4> HIDE DEF handle, K
      <4> QED BY <3>3, <1>3, <1>11 DEF Keyed
    <3> QED BY <3>1, <3>2, <3>4, <1>2
  <2>3. o \in S <=> p \in S
    <3> HIDE DEF handle, S
    <3> QED BY <1>10, <1>11
  <2> QED BY <2>1, <2>2, <2>3
<1> HIDE DEF handle
<1>12. \A o \in b.obs : Becomes(o, row(o), b) /\ row(o).h = handle(o)  BY DEF Becomes
<1>13. new \subseteq Rows
  <2> SUFFICES ASSUME NEW o \in b.obs  PROVE row(o) \in Rows
    OBVIOUS
  <2>1. handle(o) \in Nat \ {0}  BY <1>9
  <2>2. OwnerOf(b.src, o.id) \in {NoOwner, "user"}
    BY MachineIsFinite DEF OwnerOf, IsProviderResource, NoOwner
  <2>3. o.fresh \in Freshness  BY <1>2
  <2> HIDE DEF S, k, K
  <2> QED BY <1>2, <2>1, <2>2, <2>3 DEF Rows
<1> HIDE DEF row
<1>14. IsFiniteSet(new)
  <2>1. f \in [b.obs -> new] /\ \A n \in new : \E o \in b.obs : f[o] = n  OBVIOUS
  <2>2. f \in Surjection(b.obs, new)  BY <2>1 DEF Surjection
  <2> QED BY <1>2, <2>2, FS_Surjection
<1>15. Keyed(new)
  <2> SUFFICES ASSUME NEW o \in b.obs, NEW p \in b.obs,
                      row(o).h = row(p).h \/ SameName(row(o), row(p))
               PROVE  row(o) = row(p)
    BY DEF Keyed
  <2>1. CASE row(o).h = row(p).h  BY <2>1, <1>11, <1>12
  <2>2. CASE SameName(row(o), row(p))
    <3>1. o.id = p.id  BY <2>2, <1>12 DEF SameName, Becomes
    <3> QED BY <3>1, <1>2
  <2> QED BY <2>1, <2>2
<1>16. k <= Cardinality(fresh_ones) /\ Cardinality(fresh_ones) \in Nat
  <2> DEFINE g == [o \in S |-> row(o)]
  <2>1. IsFiniteSet(fresh_ones)  BY <1>14, FS_Subset
  <2>2. g \in Injection(S, fresh_ones)
    <3>1. \A o \in S : row(o) \in fresh_ones  BY <1>10, <1>12
    <3>2. \A o, p \in S : row(o) = row(p) => o = p  BY <1>11, <1>12
    <3> HIDE DEF fresh_ones, S
    <3>3. g \in [S -> fresh_ones]  BY <3>1
    <3>4. IsInjective(g)  BY <3>2 DEF IsInjective
    <3> QED BY <3>3, <3>4 DEF Injection
  <2> QED BY <2>1, <2>2, FS_Injection, FS_CardinalityType
<1>17. \A n \in new : n.h < next + Cardinality(fresh_ones)
  <2> SUFFICES ASSUME NEW o \in b.obs  PROVE row(o).h < next + Cardinality(fresh_ones)
    OBVIOUS
  <2>1. handle(o) \in Nat /\ handle(o) < next + k /\ row(o).h = handle(o)  BY <1>9, <1>12
  <2> HIDE DEF fresh_ones, k
  <2> QED BY <2>1, <1>16, <1>4
<1>18. \A n \in new : n.h < next => \E r \in K : r.h = n.h /\ r.id = n.id
  <2> SUFFICES ASSUME NEW o \in b.obs, row(o).h < next
               PROVE  \E r \in K : r.h = row(o).h /\ r.id = row(o).id
    OBVIOUS
  <2>1. o \notin S
    <3>1. handle(o) < next /\ handle(o) \in Nat  BY <1>12, <1>9
    <3> HIDE DEF S
    <3> QED BY <3>1, <1>10
  <2>2. PICK r \in K : r.id = o.id  BY <2>1, <1>7
  <2> QED BY <2>2, <1>5, <1>12 DEF Becomes
<1>19. \A n \in new : \A r \in K : n.id = r.id => n.h = r.h
  BY <1>5, <1>12 DEF Becomes
<1>20. \A n \in new : \E o \in b.obs : Becomes(o, n, b)  BY <1>12
<1>21. \A o \in b.obs : \E n \in new : Becomes(o, n, b)  BY <1>12
<1> HIDE DEF new, K
<1> QED BY <1>1, <1>13, <1>14, <1>15, <1>16, <1>17, <1>18, <1>19, <1>20, <1>21 DEF fresh_ones, K

(***************************************************************************)
(* One batch: the observations.                                            *)
(***************************************************************************)
\* What becomes of the row r when a batch of its source does not show it.
Unseen(q, r, b, fresh) ==
    /\ Aged(q, r)
    /\ q.src # b.src => q = r
    /\ q.src = b.src => q.fresh = "historical" \/ (q.fresh = fresh /\ q.gen = b.gen)

LEMMA UnseenRows ==
  ASSUME NEW rows, rows \subseteq Rows, IsFiniteSet(rows), Keyed(rows), NEW b,
         NEW fresh \in Freshness
  PROVE  LET aged == expire_generations(rows, b)
             T == SetFresh(aged, Current(aged, b.src), fresh)
         IN /\ T \subseteq Rows /\ IsFiniteSet(T) /\ Keyed(T)
            /\ \A q \in T : \E r \in rows : Unseen(q, r, b, fresh)
            /\ \A r \in rows : \E q \in T : Unseen(q, r, b, fresh)
<1> DEFINE aged == expire_generations(rows, b)
           C == Current(aged, b.src)
           T == SetFresh(aged, C, fresh)
<1>1. /\ aged \subseteq Rows /\ IsFiniteSet(aged) /\ Keyed(aged)
      /\ \A q \in aged : \E r \in rows :
               Aged(q, r) /\ (q.src # b.src => q.fresh = r.fresh)
      /\ \A r \in rows : \E q \in aged :
               Aged(q, r) /\ (q.src # b.src => q.fresh = r.fresh)
      /\ \A q \in C : q.gen = b.gen
  BY Expired
<1>2. \A q \in aged : q \in C <=> q.src = b.src /\ q.fresh # "historical"  BY DEF Current
<1> HIDE DEF aged, C
<1>3. /\ T \subseteq Rows /\ IsFiniteSet(T) /\ Keyed(T)
      /\ \A q \in T : \E r \in aged :
               Aged(q, r) /\ q.fresh = IF r \in C THEN fresh ELSE r.fresh
      /\ \A r \in aged : \E q \in T :
               Aged(q, r) /\ q.fresh = IF r \in C THEN fresh ELSE r.fresh
  BY <1>1, FreshnessSet
<1> HIDE DEF T
<1>4. ASSUME NEW q \in T, NEW e \in aged, NEW r \in rows, Aged(q, e), Aged(e, r),
             q.fresh = IF e \in C THEN fresh ELSE e.fresh,
             e.src # b.src => e.fresh = r.fresh
      PROVE  Unseen(q, r, b, fresh)
  <2>1. q \in Rows /\ r \in Rows  BY <1>3
  <2>2. Aged(q, r)  BY <1>4 DEF Aged
  <2>3. q.src # b.src => q.fresh = r.fresh  BY <1>2, <1>4 DEF Aged
  <2>4. q.src # b.src => q = r  BY <2>1, <2>2, <2>3 DEF Aged, Rows
  <2>5. q.src = b.src => q.fresh = "historical" \/ (q.fresh = fresh /\ q.gen = b.gen)
    BY <1>1, <1>2, <1>4 DEF Aged
  <2> QED BY <2>2, <2>4, <2>5 DEF Unseen
<1>5. \A q \in T : \E r \in rows : Unseen(q, r, b, fresh)
  <2> SUFFICES ASSUME NEW q \in T  PROVE \E r \in rows : Unseen(q, r, b, fresh)
    OBVIOUS
  <2>1. PICK e \in aged : Aged(q, e) /\ q.fresh = IF e \in C THEN fresh ELSE e.fresh  BY <1>3
  <2>2. PICK r \in rows : Aged(e, r) /\ (e.src # b.src => e.fresh = r.fresh)  BY <1>1
  <2> QED BY <1>4, <2>1, <2>2
<1>6. \A r \in rows : \E q \in T : Unseen(q, r, b, fresh)
  <2> SUFFICES ASSUME NEW r \in rows  PROVE \E q \in T : Unseen(q, r, b, fresh)
    OBVIOUS
  <2>1. PICK e \in aged : Aged(e, r) /\ (e.src # b.src => e.fresh = r.fresh)  BY <1>1
  <2>2. PICK q \in T : Aged(q, e) /\ q.fresh = IF e \in C THEN fresh ELSE e.fresh  BY <1>3
  <2> QED BY <1>4, <2>1, <2>2
<1> QED BY <1>3, <1>5, <1>6 DEF aged, C, T

\* What a batch of b leaves of the rows of its source and of the others.
Told(x, y, b) ==
    /\ y.sources = upsert_source_status(x, b)
    /\ \A s \in y.rows : s.src # b.src => s \in x.rows
    /\ \A r \in x.rows : r.src # b.src => r \in y.rows
    /\ b.health # "unavailable" =>
          /\ \A s \in y.rows : s.src = b.src =>
                \/ s.fresh \in {"historical", unseen_freshness(b)}
                \/ \E o \in b.obs : Becomes(o, s, b)
          /\ \A o \in b.obs : \E s \in y.rows : Becomes(o, s, b)
    /\ Keeps(x, y)
    /\ y.state = x.state

LEMMA StatusOfBatch ==
  ASSUME NEW x, SourcesOK(x.sources), NEW b, BatchOK(b)
  PROVE  LET sources == upsert_source_status(x, b) IN
         /\ SourcesOK(sources) /\ b.src \in DOMAIN sources /\ DOMAIN x.sources \subseteq DOMAIN sources
         /\ sources[b.src].gen = b.gen /\ sources[b.src].health = b.health
         /\ \A s \in DOMAIN x.sources : s # b.src => sources[s] = x.sources[s]
<1> DEFINE D == DOMAIN x.sources \cup {b.src}
           sources == [s \in D |-> IF s = b.src THEN [gen |-> b.gen, health |-> b.health]
                                   ELSE x.sources[s]]
<1>1. upsert_source_status(x, b) = sources  BY DEF upsert_source_status
<1>2. [gen |-> b.gen, health |-> b.health] \in Statuses  BY DEF Statuses, BatchOK, GenOf
<1>3. \A s \in D : sources[s] \in Statuses /\ s \in Sources
  BY <1>2 DEF SourcesOK, BatchOK
<1>4. DOMAIN sources = D  OBVIOUS
<1>5. SourcesOK(sources)  BY <1>3, <1>4 DEF SourcesOK
<1> QED BY <1>1, <1>4, <1>5

LEMMA UnseenRowOK ==
  ASSUME NEW x, TablesOK(x), NEW b, BatchOK(b), NEW fresh, NEW r \in x.rows, NEW q,
         Unseen(q, r, b, fresh),
         b.health = "unavailable" => fresh = "unavailable",
         b.health = "healthy" => fresh = "historical"
  PROVE  RowOK(q, upsert_source_status(x, b), x.next)
<1> DEFINE sources == upsert_source_status(x, b)
<1>1. RowOK(r, x.sources, x.next) /\ SourcesOK(x.sources)  BY DEF TablesOK
<1>2. /\ b.src \in DOMAIN sources /\ DOMAIN x.sources \subseteq DOMAIN sources
      /\ sources[b.src].gen = b.gen /\ sources[b.src].health = b.health
      /\ \A s \in DOMAIN x.sources : s # b.src => sources[s] = x.sources[s]
  BY <1>1, StatusOfBatch
<1> HIDE DEF sources
<1>3. /\ q.h < x.next /\ q.src \in DOMAIN sources /\ q.owner = OwnerOf(q.src, q.id)
      /\ GenOf(q.src, q.gen) /\ q.id \in IdsFor(q.src)
  BY <1>1, <1>2 DEF RowOK, Unseen, Aged
<1>4. CASE q.src # b.src
  <2>1. q = r /\ sources[q.src] = x.sources[q.src]  BY <1>1, <1>2, <1>4 DEF Unseen, RowOK
  <2> QED BY <1>1, <1>3, <2>1 DEF RowOK, sources
<1>5. CASE q.src = b.src
  <2>1. q.fresh = "historical" \/ (q.fresh = fresh /\ q.gen = b.gen)  BY <1>5 DEF Unseen
  <2> QED BY <1>2, <1>3, <1>5, <2>1 DEF RowOK, sources
<1> QED BY <1>4, <1>5

LEMMA ReconciledUnavailable ==
  ASSUME NEW x, TablesOK(x), NEW b, BatchOK(b), b.health = "unavailable"
  PROVE  LET y == reconcile_index_source(x, b)
         IN TablesOK(y) /\ Told(x, y, b) /\ y.rels = x.rels
<1> DEFINE aged == expire_generations(x.rows, b)
           T == SetFresh(aged, Current(aged, b.src), "unavailable")
           y == [x EXCEPT !.rows = T, !.sources = upsert_source_status(x, b)]
<1>1. reconcile_index_source(x, b) = y  BY DEF reconcile_index_source
<1>2. /\ x.rows \subseteq Rows /\ IsFiniteSet(x.rows) /\ Keyed(x.rows) /\ SourcesOK(x.sources)
      /\ IsIndex(x)
      /\ x.next \in Nat \ {0}
      /\ \A l \in x.rels : \E f, t \in x.rows : f.h = l.from /\ t.h = l.to
  BY DEF TablesOK
<1>3. /\ T \subseteq Rows /\ IsFiniteSet(T) /\ Keyed(T)
      /\ \A q \in T : \E r \in x.rows : Unseen(q, r, b, "unavailable")
      /\ \A r \in x.rows : \E q \in T : Unseen(q, r, b, "unavailable")
  BY <1>2, UnseenRows DEF Freshness
<1> HIDE DEF T
<1>4. /\ y.rows = T /\ y.sources = upsert_source_status(x, b) /\ y.rels = x.rels
      /\ y.state = x.state /\ y.next = x.next /\ IsIndex(y)
  <2>1. y = [x EXCEPT !.rows = T, !.sources = upsert_source_status(x, b)]  OBVIOUS
  <2>2. IsIndex(x)  BY <1>2
  <2> HIDE DEF y
  <2> QED BY <2>1, <2>2 DEF IsIndex
<1> HIDE DEF y
<1>5. \A q \in y.rows : RowOK(q, y.sources, y.next)
  <2> SUFFICES ASSUME NEW q \in T  PROVE RowOK(q, upsert_source_status(x, b), x.next)
    BY <1>4
  <2>1. PICK r \in x.rows : Unseen(q, r, b, "unavailable")  BY <1>3
  <2> QED BY <2>1, UnseenRowOK
<1>6. SourcesOK(y.sources)  BY <1>2, <1>4, StatusOfBatch
<1>7. \A r \in x.rows : \E q \in y.rows : q.h = r.h /\ SameName(r, q)
  BY <1>3, <1>4 DEF Unseen, Aged, SameName
<1>8. \A l \in y.rels : \E f, t \in y.rows : f.h = l.from /\ t.h = l.to
  <2> SUFFICES ASSUME NEW l \in x.rels  PROVE \E f, t \in y.rows : f.h = l.from /\ t.h = l.to
    BY <1>4
  <2>1. PICK f \in x.rows, t \in x.rows : f.h = l.from /\ t.h = l.to  BY <1>2
  <2>2. PICK f1 \in y.rows : f1.h = f.h  BY <1>7
  <2>3. PICK t1 \in y.rows : t1.h = t.h  BY <1>7
  <2> QED BY <2>1, <2>2, <2>3
<1>9. TablesOK(y)  BY <1>2, <1>3, <1>4, <1>5, <1>6, <1>8 DEF TablesOK
<1>10. Keeps(x, y)
  <2>1. \A q \in y.rows : \E r \in x.rows : r.h = q.h  BY <1>3, <1>4 DEF Unseen, Aged
  <2>2. NewHandles(x, y)  BY <1>4, <2>1, SameHandles
  <2> QED BY <1>7, <2>2 DEF Keeps
<1>11. /\ \A s \in y.rows : s.src # b.src => s \in x.rows
       /\ \A r \in x.rows : r.src # b.src => r \in y.rows
  BY <1>3, <1>4 DEF Unseen, Aged
<1>12. Told(x, y, b)  BY <1>4, <1>10, <1>11 DEF Told
<1> QED BY <1>1, <1>4, <1>9, <1>12

\* A reported resource: its row keeps the handle that the rows of x have for it.
LEMMA ReconciledSeen ==
  ASSUME NEW x, TablesOK(x), NEW b, BatchOK(b), b.health # "unavailable",
         ~Failed(reconcile_index_source(x, b))
  PROVE  LET y == reconcile_index_source(x, b)
         IN TablesOK(y) /\ Told(x, y, b) /\ y.rels = x.rels
<1> DEFINE aged == expire_generations(x.rows, b)
           new == observed_rows(aged, b, x.next)
           unseen == SetFresh(aged, Current(aged, b.src), unseen_freshness(b))
           rows == {r \in unseen : \A n \in new : n.h # r.h} \cup new
           k == Cardinality({n \in new : n.h >= x.next})
           y == [x EXCEPT !.rows = rows, !.sources = upsert_source_status(x, b), !.next = @ + k]
<1>1. /\ x.rows \subseteq Rows /\ IsFiniteSet(x.rows) /\ Keyed(x.rows) /\ SourcesOK(x.sources)
      /\ IsIndex(x)
      /\ x.next \in Nat \ {0} /\ \A r \in x.rows : RowOK(r, x.sources, x.next)
      /\ \A l \in x.rels : \E f, t \in x.rows : f.h = l.from /\ t.h = l.to
  BY DEF TablesOK
<1>2. reconcile_index_source(x, b) = y /\ ~identity_conflict(unseen, new)
  <2>1. CASE identity_conflict(unseen, new)
    <3>1. reconcile_index_source(x, b) = [x EXCEPT !.state = "failed"]
      BY <2>1 DEF reconcile_index_source
    <3>2. [x EXCEPT !.state = "failed"].state = "failed"  BY <1>1
    <3> QED BY <3>1, <3>2 DEF Failed
  <2>2. CASE ~identity_conflict(unseen, new)  BY <2>2 DEF reconcile_index_source
  <2> QED BY <2>1, <2>2
<1>3. /\ aged \subseteq Rows /\ IsFiniteSet(aged) /\ Keyed(aged)
      /\ \A q \in aged : \E r \in x.rows : Aged(q, r)
  BY <1>1, Expired
<1>4. /\ unseen \subseteq Rows /\ IsFiniteSet(unseen) /\ Keyed(unseen)
      /\ \A q \in unseen : \E r \in x.rows : Unseen(q, r, b, unseen_freshness(b))
      /\ \A r \in x.rows : \E q \in unseen : Unseen(q, r, b, unseen_freshness(b))
  BY <1>1, UnseenRows DEF Freshness, unseen_freshness
<1>5. \A r \in aged : r.h < x.next  BY <1>1, <1>3 DEF RowOK, Aged
<1>6. /\ new \subseteq Rows /\ IsFiniteSet(new) /\ Keyed(new) /\ k \in Nat
      /\ \A n \in new : n.h < x.next + k
      /\ \A n \in new : n.h < x.next =>
            \E r \in existing(aged, b) : r.h = n.h /\ r.id = n.id
      /\ \A n \in new : \E o \in b.obs : Becomes(o, n, b)
      /\ \A o \in b.obs : \E n \in new : Becomes(o, n, b)
  <2> HIDE DEF aged
  <2> QED BY <1>1, <1>3, <1>5, ObservedRows
<1>7. \A n \in new, r \in unseen : SameName(n, r) => n.h = r.h
  BY <1>2 DEF identity_conflict, SameName
<1>8. \A e \in existing(aged, b) : e \in aged /\ e.src = b.src /\ e.gen = b.gen
  BY DEF existing, Current
<1>9. \A e \in aged : \E r \in x.rows : r.h = e.h /\ SameName(r, e)
  BY <1>3 DEF Aged, SameName
<1> HIDE DEF aged, new, unseen, k
<1>10. /\ y.rows = rows /\ y.sources = upsert_source_status(x, b) /\ y.rels = x.rels
       /\ y.state = x.state /\ y.next = x.next + k /\ IsIndex(y)
  <2>1. y = [x EXCEPT !.rows = rows, !.sources = upsert_source_status(x, b), !.next = @ + k]
    OBVIOUS
  <2>2. IsIndex(x)  BY <1>1
  <2> HIDE DEF y, rows
  <2> QED BY <2>1, <2>2 DEF IsIndex
<1> HIDE DEF y
<1>11. rows \subseteq Rows  BY <1>4, <1>6
<1>12. IsFiniteSet(rows)
  <2>1. IsFiniteSet({r \in unseen : \A n \in new : n.h # r.h})  BY <1>4, FS_Subset
  <2> QED BY <1>6, <2>1, FS_Union
<1>13. Keyed(rows)
  <2> SUFFICES ASSUME NEW q \in rows, NEW r \in rows, q.h = r.h \/ SameName(q, r)  PROVE q = r
    BY DEF Keyed
  <2>1. CASE q \in new /\ r \in new  BY <1>6, <2>1 DEF Keyed
  <2>2. CASE q \notin new /\ r \notin new  BY <1>4, <2>2 DEF Keyed
  <2>3. CASE q \in new /\ r \notin new  BY <1>7, <2>3
  <2>4. CASE q \notin new /\ r \in new  BY <1>7, <2>4 DEF SameName
  <2> QED BY <2>1, <2>2, <2>3, <2>4
<1>14. ASSUME NEW r \in x.rows  PROVE \E q \in rows : q.h = r.h /\ SameName(r, q)
  <2>1. PICK u \in unseen : Unseen(u, r, b, unseen_freshness(b))  BY <1>4
  <2>2. u.h = r.h /\ SameName(r, u)  BY <2>1 DEF Unseen, Aged, SameName
  <2>3. CASE \A n \in new : n.h # u.h  BY <2>2, <2>3
  <2>4. ASSUME NEW n \in new, n.h = u.h  PROVE SameName(r, n)
    <3>1. n.h < x.next  BY <1>1, <2>2, <2>4 DEF RowOK
    <3>2. PICK e \in existing(aged, b) : e.h = n.h /\ e.id = n.id  BY <1>6, <3>1
    <3>3. PICK r1 \in x.rows : r1.h = e.h /\ SameName(r1, e)  BY <1>8, <1>9, <3>2
    <3>4. r1 = r  BY <1>1, <2>2, <2>4, <3>2, <3>3 DEF Keyed
    <3>5. n.src = b.src /\ n.gen = b.gen  BY <1>6 DEF Becomes
    <3> QED BY <1>8, <3>2, <3>3, <3>4, <3>5 DEF SameName
  <2> QED BY <2>2, <2>3, <2>4
<1>15. /\ \A s \in rows : s.src # b.src => s \in x.rows
       /\ \A r \in x.rows : r.src # b.src => r \in rows
  <2>1. \A n \in new : n.src = b.src  BY <1>6 DEF Becomes
  <2>2. ASSUME NEW s \in rows, s.src # b.src  PROVE s \in x.rows
    <3>1. s \in unseen  BY <2>1, <2>2
    <3> QED BY <1>4, <2>2, <3>1 DEF Unseen
  <2>3. ASSUME NEW r \in x.rows, r.src # b.src  PROVE r \in rows
    <3>1. PICK q \in rows : q.h = r.h /\ SameName(r, q)  BY <1>14
    <3>2. q.src # b.src  BY <2>3, <3>1 DEF SameName
    <3>3. q \in x.rows  BY <2>2, <3>2
    <3> QED BY <1>1, <3>1, <3>3 DEF Keyed
  <2> QED BY <2>2, <2>3
<1>16. \A q \in y.rows : RowOK(q, y.sources, y.next)
  <2> DEFINE sources == upsert_source_status(x, b)
  <2>1. ASSUME NEW q \in unseen  PROVE RowOK(q, sources, x.next)
    <3>1. PICK r \in x.rows : Unseen(q, r, b, unseen_freshness(b))  BY <1>4
    <3>2. b.health = "healthy" => unseen_freshness(b) = "historical"  BY DEF unseen_freshness
    <3> QED BY <3>1, <3>2, UnseenRowOK
  <2>2. ASSUME NEW q \in unseen  PROVE RowOK(q, sources, x.next + k)
    <3>1. q.h \in Nat /\ q.h < x.next  BY <2>1, <1>4 DEF RowOK, Rows
    <3>2. q.h < x.next + k  BY <3>1, <1>1, <1>6
    <3> HIDE DEF sources
    <3> QED BY <2>1, <3>2 DEF RowOK
  <2>3. ASSUME NEW n \in new  PROVE RowOK(n, sources, x.next + k)
    <3>1. PICK o \in b.obs : Becomes(o, n, b)  BY <1>6
    <3>2. /\ b.src \in DOMAIN sources /\ sources[b.src].gen = b.gen
          /\ sources[b.src].health = b.health
      BY <1>1, StatusOfBatch
    <3>3. n.fresh = "recent" \/ SaidSo(n) \/ b.src = "correlation"
      BY <3>1 DEF Becomes, BatchOK, Reported, SaidSo
    <3> HIDE DEF sources
    <3> QED BY <1>6, <3>1, <3>2, <3>3 DEF RowOK, Becomes, BatchOK
  <2> HIDE DEF sources
  <2>4. \A q \in rows : RowOK(q, sources, x.next + k)  BY <2>2, <2>3
  <2> QED BY <1>10, <2>4 DEF sources
<1>17. SourcesOK(y.sources)  BY <1>1, <1>10, StatusOfBatch
<1>18. \A l \in y.rels : \E f, t \in y.rows : f.h = l.from /\ t.h = l.to
  <2> SUFFICES ASSUME NEW l \in x.rels  PROVE \E f, t \in rows : f.h = l.from /\ t.h = l.to
    BY <1>10
  <2>1. PICK f \in x.rows, t \in x.rows : f.h = l.from /\ t.h = l.to  BY <1>1
  <2>2. PICK f1 \in rows : f1.h = f.h  BY <1>14
  <2>3. PICK t1 \in rows : t1.h = t.h  BY <1>14
  <2> QED BY <2>1, <2>2, <2>3
<1>19. \A s \in rows : s.src = b.src =>
          s.fresh \in {"historical", unseen_freshness(b)} \/ \E o \in b.obs : Becomes(o, s, b)
  <2>1. ASSUME NEW s \in unseen, s.src = b.src
        PROVE  s.fresh \in {"historical", unseen_freshness(b)}
    BY <1>4, <2>1 DEF Unseen
  <2> QED BY <1>6, <2>1
<1>20. \A o \in b.obs : \E s \in rows : Becomes(o, s, b)  BY <1>6
<1>21. Keeps(x, y)
  <2>1. \A r \in x.rows : \E s \in rows : s.h = r.h /\ SameName(r, s)  BY <1>14
  <2>2. ASSUME NEW s \in rows, s.h < x.next  PROVE \E r \in x.rows : r.h = s.h
    <3>1. CASE s \in unseen  BY <1>4, <3>1 DEF Unseen, Aged
    <3>2. CASE s \in new
      <4>1. PICK e \in existing(aged, b) : e.h = s.h  BY <1>6, <2>2, <3>2
      <4> QED BY <1>8, <1>9, <4>1
    <3> QED BY <3>1, <3>2
  <2> HIDE DEF rows
  <2>3. x.next <= y.next  BY <1>1, <1>6, <1>10
  <2>4. NewHandles(x, y)  BY <1>10, <2>2, <2>3 DEF NewHandles
  <2> QED BY <1>10, <2>1, <2>4 DEF Keeps
<1> HIDE DEF rows
<1>22. y.next \in Nat \ {0}  BY <1>1, <1>6, <1>10
<1>23. TablesOK(y)  BY <1>10, <1>11, <1>12, <1>13, <1>16, <1>17, <1>18, <1>22 DEF TablesOK
<1>24. Told(x, y, b)  BY <1>10, <1>15, <1>19, <1>20, <1>21 DEF Told
<1> QED BY <1>2, <1>10, <1>23, <1>24

(***************************************************************************)
(* One batch: its relations, and the whole transaction.                    *)
(***************************************************************************)
Relation(f, t, kind, src) == [from |-> f.h, to |-> t.h, kind |-> kind, src |-> src]

LEMMA RelationsReplaced ==
  ASSUME NEW x, TablesOK(x), NEW b
  PROVE  LET y == replace_index_relations_for_source(x, b) IN
         /\ TablesOK(y) /\ y.rows = x.rows /\ y.sources = x.sources /\ y.state = x.state
         /\ y.next = x.next
         /\ \A l \in b.rels :
               \A f \in resolve_current_authoritative_ref(x.rows, l.from),
                  t \in resolve_current_authoritative_ref(x.rows, l.to) :
                  f.h # t.h => Relation(f, t, l.kind, b.src) \in y.rels
<1> DEFINE resolved(l) == {[from |-> f.h, to |-> t.h, kind |-> l.kind, src |-> b.src] :
                              f \in resolve_current_authoritative_ref(x.rows, l.from),
                              t \in resolve_current_authoritative_ref(x.rows, l.to)}
           rels == {l \in x.rels : l.src # b.src}
                   \cup {l \in UNION {resolved(l) : l \in b.rels} : l.from # l.to}
           y == [x EXCEPT !.rels = rels]
<1>1. replace_index_relations_for_source(x, b) = y
  <2>1. IsIndex(x)  BY DEF TablesOK
  <2> QED BY DEF replace_index_relations_for_source
<1>2. \A l \in rels : \E f, t \in x.rows : f.h = l.from /\ t.h = l.to
  <2> SUFFICES ASSUME NEW l \in rels  PROVE \E f, t \in x.rows : f.h = l.from /\ t.h = l.to
    OBVIOUS
  <2>1. CASE l \in x.rels  BY <2>1 DEF TablesOK
  <2>2. CASE l \in UNION {resolved(m) : m \in b.rels}
    <3>1. PICK m \in b.rels : l \in resolved(m)  BY <2>2
    <3>2. PICK f \in resolve_current_authoritative_ref(x.rows, m.from),
               t \in resolve_current_authoritative_ref(x.rows, m.to) :
                  l = [from |-> f.h, to |-> t.h, kind |-> m.kind, src |-> b.src]
      BY <3>1
    <3>3. f \in x.rows /\ t \in x.rows  BY DEF resolve_current_authoritative_ref
    <3> QED BY <3>2, <3>3
  <2> QED BY <2>1, <2>2
<1>3. ASSUME NEW l \in b.rels,
             NEW f \in resolve_current_authoritative_ref(x.rows, l.from),
             NEW t \in resolve_current_authoritative_ref(x.rows, l.to), f.h # t.h
      PROVE  Relation(f, t, l.kind, b.src) \in rels
  <2>1. Relation(f, t, l.kind, b.src) \in resolved(l)  BY DEF Relation
  <2>2. Relation(f, t, l.kind, b.src) \in UNION {resolved(m) : m \in b.rels}  BY <2>1
  <2>3. Relation(f, t, l.kind, b.src).from = f.h /\ Relation(f, t, l.kind, b.src).to = t.h
    BY DEF Relation
  <2> HIDE DEF resolved
  <2> QED BY <1>3, <2>2, <2>3
<1> HIDE DEF rels
<1>4. /\ IsIndex(y) /\ y.rels = rels /\ y.rows = x.rows /\ y.sources = x.sources
      /\ y.state = x.state /\ y.next = x.next
  <2>1. y = [x EXCEPT !.rels = rels]  OBVIOUS
  <2>2. IsIndex(x)  BY DEF TablesOK
  <2> HIDE DEF y
  <2> QED BY <2>1, <2>2 DEF IsIndex
<1> HIDE DEF y
<1>5. TablesOK(y)  BY <1>2, <1>4 DEF TablesOK
<1> QED BY <1>1, <1>3, <1>4, <1>5

LEMMA FailedTables ==
  ASSUME NEW x, TablesOK(x), NEW state
  PROVE  LET y == [x EXCEPT !.state = state]
         IN TablesOK(y) /\ y.rows = x.rows /\ y.rels = x.rels /\ y.sources = x.sources
            /\ y.state = state /\ Keeps(x, y)
<1> DEFINE y == [x EXCEPT !.state = state]
<1>1. /\ IsIndex(y) /\ y.state = state /\ y.rels = x.rels /\ y.rows = x.rows
      /\ y.sources = x.sources /\ y.next = x.next
  <2>1. y = [x EXCEPT !.state = state]  OBVIOUS
  <2>2. IsIndex(x)  BY DEF TablesOK
  <2> HIDE DEF y
  <2> QED BY <2>1, <2>2 DEF IsIndex
<1> HIDE DEF y
<1>2. TablesOK(y)  BY <1>1 DEF TablesOK
<1>3. Keeps(x, y)  BY <1>1, SameHandles DEF Keeps, SameName
<1> QED BY <1>1, <1>2, <1>3 DEF y

LEMMA KeepsOn ==
  ASSUME NEW x, NEW y, NEW z, TablesOK(x), TablesOK(y), TablesOK(z), Keeps(x, y), Keeps(y, z)
  PROVE  Keeps(x, z)
<1>1. /\ x.next \in Nat /\ y.next \in Nat /\ z.next \in Nat
      /\ \A s \in z.rows : s.h \in Nat
  BY DEF TablesOK, Rows
<1>2. NewHandles(x, y) /\ NewHandles(y, z)  BY DEF Keeps
<1>3. x.next <= z.next  BY <1>1, <1>2 DEF NewHandles
<1>4. ASSUME NEW s \in z.rows, s.h < x.next  PROVE \E r \in x.rows : r.h = s.h
  <2>1. s.h < y.next  BY <1>1, <1>2, <1>4 DEF NewHandles
  <2>2. PICK q \in y.rows : q.h = s.h  BY <1>2, <2>1 DEF NewHandles
  <2> QED BY <1>2, <1>4, <2>2 DEF NewHandles
<1>5. NewHandles(x, z)  BY <1>3, <1>4 DEF NewHandles
<1> QED BY <1>5 DEF Keeps, SameName

\* A batch that fails leaves the tables; one that does not tells what it saw.
LEMMA BatchApplied ==
  ASSUME NEW x, TablesOK(x), NEW b, BatchOK(b)
  PROVE  LET y == ApplyBatch(x, b) IN
         /\ TablesOK(y) /\ Keeps(x, y)
         /\ ~Failed(y) => ~Failed(x) /\ Told(x, y, b)
         /\ ~Failed(y) /\ b.health # "unavailable" =>
              \A l \in b.rels :
                 \A f \in resolve_current_authoritative_ref(y.rows, l.from),
                    t \in resolve_current_authoritative_ref(y.rows, l.to) :
                    f.h # t.h => Relation(f, t, l.kind, b.src) \in y.rels
<1> DEFINE y == ApplyBatch(x, b)
           z == reconcile_index_source(x, b)
<1>1. CASE Failed(x)
  <2>1. y = x  BY <1>1 DEF ApplyBatch
  <2>2. Keeps(x, x)  BY KeptAsItIs
  <2> QED BY <1>1, <2>1, <2>2
<1>2. CASE ~Failed(x) /\ Failed(z)
  <2>1. y = z  BY <1>2 DEF ApplyBatch
  <2>2. b.health # "unavailable" /\ z = [x EXCEPT !.state = "failed"]
    <3>1. CASE b.health = "unavailable"
      <4>1. Told(x, z, b)  BY <3>1, ReconciledUnavailable
      <4> QED BY <4>1, <1>2 DEF Told, Failed
    <3>2. CASE b.health # "unavailable"
      <4>1. z = [x EXCEPT !.state = "failed"] \/ z.state = x.state
        <5>1. IsIndex(x)  BY DEF TablesOK
        <5>2. ASSUME NEW R, NEW S, NEW k,
                     z = [x EXCEPT !.rows = R, !.sources = S, !.next = @ + k]
              PROVE  z.state = x.state
          <6> HIDE DEF z
          <6> QED BY <5>1, <5>2 DEF IsIndex
        <5> QED BY <3>2, <5>2 DEF reconcile_index_source
      <4> QED BY <3>2, <4>1, <1>2 DEF Failed
    <3> QED BY <3>1, <3>2
  <2>3. TablesOK(z) /\ Keeps(x, z)  BY <2>2, FailedTables
  <2> HIDE DEF z
  <2> QED BY <1>2, <2>1, <2>3
<1>3. CASE ~Failed(x) /\ ~Failed(z)
  <2>1. y = replace_index_relations_for_source(z, b)  BY <1>3 DEF ApplyBatch
  <2>2. TablesOK(z) /\ Told(x, z, b)  BY <1>3, ReconciledUnavailable, ReconciledSeen
  <2> HIDE DEF y, z
  <2>3. /\ TablesOK(y) /\ y.rows = z.rows /\ y.sources = z.sources /\ y.state = z.state
        /\ y.next = z.next
        /\ \A l \in b.rels :
              \A f \in resolve_current_authoritative_ref(z.rows, l.from),
                 t \in resolve_current_authoritative_ref(z.rows, l.to) :
                 f.h # t.h => Relation(f, t, l.kind, b.src) \in y.rels
    BY <2>1, <2>2, RelationsReplaced
  <2>4. Told(x, y, b)  BY <2>2, <2>3 DEF Told, Keeps, NewHandles
  <2>5. Keeps(x, y)  BY <2>4 DEF Told
  <2> QED BY <1>3, <2>3, <2>4, <2>5 DEF y
<1> QED BY <1>1, <1>2, <1>3

(***************************************************************************)
(* The batches of a reconciliation, one after the other.  The recursive    *)
(* function of Applied exists for every number of batches, and what each   *)
(* batch keeps all of them keep: by the least number of batches for which  *)
(* it would not be so.                                                     *)
(***************************************************************************)
LEMMA Least ==
  ASSUME NEW S \in SUBSET Nat, S # {}
  PROVE  \E n \in S : \A m \in S : n <= m
<1> DEFINE R == OpToRel(<, Nat)
<1>1. IsWellFoundedOn(R, Nat)  BY NatLessThanWellFounded
<1>2. PICK n \in S : \A m \in S : <<m, n>> \notin R  BY <1>1, WFMin
<1>3. \A m \in S : ~(m < n)  BY <1>2 DEF OpToRel
<1> QED BY <1>3

Run(g, x, batches, n) ==
    g = [i \in 0..n |-> IF i = 0 THEN x ELSE ApplyBatch(g[i - 1], batches[i])]

LEMMA RunExists ==
  ASSUME NEW x, NEW batches, NEW n \in Nat
  PROVE  \E g : Run(g, x, batches, n)
<1> DEFINE S == {m \in Nat : ~ \E g : Run(g, x, batches, m)}
<1> SUFFICES ASSUME S # {}  PROVE FALSE
  OBVIOUS
<1>1. PICK m \in S : \A k \in S : m <= k  BY Least
<1>2. CASE m = 0
  <2> DEFINE g == [i \in 0..0 |-> x]
  <2>1. g = [i \in 0..0 |-> IF i = 0 THEN x ELSE ApplyBatch(g[i - 1], batches[i])]  OBVIOUS
  <2>2. Run(g, x, batches, 0)  BY <2>1 DEF Run
  <2> QED BY <1>1, <1>2, <2>2
<1>3. CASE m # 0
  <2>1. m \in Nat /\ m - 1 \in Nat /\ m - 1 \notin S  BY <1>1, <1>3
  <2>2. PICK g : Run(g, x, batches, m - 1)  BY <2>1
  <2> DEFINE h == [i \in 0..m |-> IF i = m THEN ApplyBatch(g[m - 1], batches[m]) ELSE g[i]]
  <2>3. \A i \in 0..(m - 1) : g[i] = IF i = 0 THEN x ELSE ApplyBatch(g[i - 1], batches[i])
    BY <2>2 DEF Run
  <2>4. \A i \in 0..(m - 1) : h[i] = g[i]  BY <2>1
  <2>5. ASSUME NEW i \in 0..m
        PROVE  h[i] = IF i = 0 THEN x ELSE ApplyBatch(h[i - 1], batches[i])
    <3>1. CASE i = m
      <4>1. h[i] = ApplyBatch(g[m - 1], batches[m]) /\ h[m - 1] = g[m - 1]  BY <2>1, <2>4, <3>1
      <4> HIDE DEF h
      <4> QED BY <1>3, <3>1, <4>1
    <3>2. CASE i = 0
      <4>1. 0 \in 0..(m - 1)  BY <2>1
      <4>2. h[0] = g[0] /\ g[0] = x  BY <2>3, <2>4, <4>1
      <4> HIDE DEF h
      <4> QED BY <3>2, <4>2
    <3>3. CASE i # m /\ i # 0
      <4>1. i \in 0..(m - 1) /\ i - 1 \in 0..(m - 1)  BY <2>1, <3>3
      <4>2. h[i] = g[i] /\ h[i - 1] = g[i - 1]  BY <2>4, <4>1
      <4> HIDE DEF h
      <4> QED BY <2>3, <3>3, <4>1, <4>2
    <3> QED BY <3>1, <3>2, <3>3
  <2>6. h = [i \in 0..m |-> h[i]]  OBVIOUS
  <2> HIDE DEF h
  <2>7. Run(h, x, batches, m)  BY <2>5, <2>6 DEF Run
  <2> QED BY <1>1, <2>7
<1> QED BY <1>2, <1>3

\* The first n batches, applied to the tables of a daemon that reconciles.
LEMMA AppliedOK ==
  ASSUME TablesOK(index), NEW batches, NEW n \in Nat, \A i \in 1..n : BatchOK(batches[i])
  PROVE  /\ TablesOK(Applied(batches, n)) /\ Keeps(index, Applied(batches, n))
         /\ ~Failed(Applied(batches, n)) => Applied(batches, n).state = "initializing"
<1>1. PICK x : x = [index EXCEPT !.state = "initializing"]  OBVIOUS
<1>2. TablesOK(x) /\ Keeps(index, x) /\ x.state = "initializing"
  BY <1>1, FailedTables
<1> DEFINE after == CHOOSE g : Run(g, x, batches, n)
<1>3. Applied(batches, n) = after[n]  BY <1>1 DEF Applied, Run
<1>4. Run(after, x, batches, n)  BY RunExists
<1> HIDE DEF after
<1>5. \A i \in 0..n : after[i] = IF i = 0 THEN x ELSE ApplyBatch(after[i - 1], batches[i])
  BY <1>4 DEF Run
<1> DEFINE Good(y) == /\ TablesOK(y) /\ Keeps(index, y)
                      /\ ~Failed(y) => y.state = "initializing"
           S == {i \in 0..n : ~Good(after[i])}
<1>6. S = {}
  <2> SUFFICES ASSUME S # {}  PROVE FALSE
    OBVIOUS
  <2>1. PICK m \in S : \A k \in S : m <= k
    <3>1. S \in SUBSET Nat  OBVIOUS
    <3> HIDE DEF S
    <3> QED BY <3>1, Least
  <2>2. m \in 0..n /\ ~Good(after[m])  OBVIOUS
  <2>3. CASE m = 0
    <3>1. after[m] = x  BY <1>5, <2>2, <2>3
    <3> QED BY <1>2, <2>2, <3>1
  <2>4. CASE m # 0
    <3>1. m - 1 \in 0..n /\ m \in 1..n /\ m - 1 \notin S  BY <2>1, <2>2, <2>4
    <3>2. Good(after[m - 1])  BY <3>1
    <3>3. after[m] = ApplyBatch(after[m - 1], batches[m])  BY <1>5, <2>2, <2>4
    <3>4. BatchOK(batches[m])  BY <3>1
    <3>5. PICK y, b : y = after[m - 1] /\ b = batches[m]  OBVIOUS
    <3>6. /\ TablesOK(after[m]) /\ Keeps(y, after[m])
          /\ ~Failed(after[m]) => ~Failed(y) /\ Told(y, after[m], b)
      BY <3>2, <3>3, <3>4, <3>5, BatchApplied
    <3>7. Keeps(index, after[m])  BY <3>2, <3>5, <3>6, KeepsOn
    <3>8. ~Failed(after[m]) => after[m].state = "initializing"
      BY <3>2, <3>5, <3>6 DEF Told
    <3> QED BY <2>2, <3>6, <3>7, <3>8
  <2> QED BY <2>3, <2>4
<1>7. n \in 0..n  OBVIOUS
<1>8. Good(after[n])  BY <1>6, <1>7
<1> QED BY <1>3, <1>8

(***************************************************************************)
(* Correlation: the last batch of a reconciliation.                        *)
(***************************************************************************)
LEMMA CorrelationOK ==
  ASSUME NEW x, TablesOK(x), NEW told \in {"healthy", "degraded"}
  PROVE  LET b == correlate(x.rows, told) IN
         /\ BatchOK(b) /\ b.src = "correlation" /\ b.gen = Constant /\ b.health = told
         /\ b.obs = {[id |-> InstanceId(p), link |-> NoLink, fresh |-> p.fresh] : p \in Leaders(x.rows)}
         /\ \A p \in Leaders(x.rows) :
               Link(Ref("correlation", Constant, InstanceId(p)), RowRef(p), "instance_process") \in b.rels
<1> DEFINE b == correlate(x.rows, told)
           L == Leaders(x.rows)
           obs == {[id |-> InstanceId(p), link |-> NoLink, fresh |-> p.fresh] : p \in L}
<1>1. /\ b.src = "correlation" /\ b.gen = Constant /\ b.health = told /\ b.obs = obs
      /\ \A p \in L :
            Link(Ref("correlation", Constant, InstanceId(p)), RowRef(p), "instance_process") \in b.rels
  BY DEF correlate, healthy_batch
<1> HIDE DEF b
<1>2. L \subseteq x.rows /\ \A p \in L : p.src = "proc" /\ p.fresh \in {"recent", "stale"}
  BY DEF Leaders, Usable
<1>3. /\ x.rows \subseteq Rows /\ IsFiniteSet(x.rows) /\ Keyed(x.rows)
      /\ \A r \in x.rows : RowOK(r, x.sources, x.next)
  BY DEF TablesOK
<1> HIDE DEF L
<1>4. IsFiniteSet(obs)
  <2> DEFINE f == [p \in L |-> [id |-> InstanceId(p), link |-> NoLink, fresh |-> p.fresh]]
  <2>1. f \in [L -> obs] /\ \A o \in obs : \E p \in L : f[p] = o  OBVIOUS
  <2>2. f \in Surjection(L, obs)  BY <2>1 DEF Surjection
  <2>3. IsFiniteSet(L)  BY <1>2, <1>3, FS_Subset
  <2> QED BY <2>2, <2>3, FS_Surjection
<1>5. \A p \in L : /\ p.id \in Resources /\ p.gen = <<p.gen[1], 0>> /\ p.gen[1] \in Nat
  BY <1>2, <1>3 DEF RowOK, GenOf, Generations, IdsFor
<1>6. \A p \in L : InstanceId(p) \in IdsFor("correlation")
  BY <1>5 DEF InstanceId, IdsFor
<1>7. \A p, q \in L : InstanceId(p) = InstanceId(q) => p = q
  <2> SUFFICES ASSUME NEW p \in L, NEW q \in L, InstanceId(p) = InstanceId(q)  PROVE p = q
    OBVIOUS
  <2>1. p.gen[1] = q.gen[1] /\ p.id = q.id  BY DEF InstanceId
  <2>2. p.gen = q.gen  BY <1>5, <2>1
  <2>3. SameName(p, q)  BY <1>2, <2>1, <2>2 DEF SameName
  <2> QED BY <1>2, <1>3, <2>3 DEF Keyed
<1>8. \A o \in obs : /\ o.id \in IdsFor("correlation") /\ o.link \in Links
                     /\ o.fresh \in {"recent", "stale"}
  BY <1>2, <1>6 DEF Links
<1>9. \A o, p \in obs : o.id = p.id => o = p  BY <1>7
<1>10. Constant \in Generations  BY DEF Constant, Generations
<1> HIDE DEF obs
<1>11. BatchOK(b)
  BY <1>1, <1>4, <1>8, <1>9, <1>10 DEF BatchOK, Reported, GenOf, Sources
<1> QED BY <1>1, <1>11 DEF b, obs, L

\* A healthy reconciliation found every source healthy.
Sound(y) == \A s \in SystemSources \cap DOMAIN y.sources : y.sources[s].health \notin Poor

LEMMA Correlated ==
  ASSUME NEW x, TablesOK(x), NEW told \in {"healthy", "degraded"},
         NEW y, y = ApplyBatch(x, correlate(x.rows, told)), ~Failed(y)
  PROVE  /\ Backed(y)
         /\ Sound(y) => ReadAgain(y)
<1>1. PICK b : b = correlate(x.rows, told)  OBVIOUS
<1>2. /\ BatchOK(b) /\ b.src = "correlation" /\ b.gen = Constant /\ b.health = told
      /\ b.obs = {[id |-> InstanceId(p), link |-> NoLink, fresh |-> p.fresh] : p \in Leaders(x.rows)}
      /\ \A p \in Leaders(x.rows) :
            Link(Ref("correlation", Constant, InstanceId(p)), RowRef(p), "instance_process") \in b.rels
  BY <1>1, CorrelationOK
<1>3. /\ TablesOK(y) /\ Told(x, y, b)
      /\ \A l \in b.rels :
            \A f \in resolve_current_authoritative_ref(y.rows, l.from),
               t \in resolve_current_authoritative_ref(y.rows, l.to) :
               f.h # t.h => Relation(f, t, l.kind, b.src) \in y.rels
  <2>1. y = ApplyBatch(x, b)  BY <1>1
  <2> QED BY <1>2, <2>1, BatchApplied
\* A current row of correlation comes from a leader that is still there.
<1>4. ASSUME NEW r \in y.rows, r.src = "correlation",
             r.fresh \notin {"historical", unseen_freshness(b)}
      PROVE  \E p \in Leaders(x.rows) :
                p \in y.rows /\ r.id = InstanceId(p) /\ r.fresh = p.fresh /\ r.gen = Constant
  <2>1. PICK o \in b.obs : Becomes(o, r, b)  BY <1>2, <1>3, <1>4 DEF Told
  <2>2. PICK p \in Leaders(x.rows) : o.id = InstanceId(p) /\ o.fresh = p.fresh  BY <1>2, <2>1
  <2>3. p \in x.rows /\ p.src = "proc"  BY DEF Leaders, Usable
  <2>4. p \in y.rows  BY <1>2, <1>3, <2>3 DEF Told
  <2> QED BY <1>2, <2>1, <2>2, <2>4 DEF Becomes
<1>5. \A p \in Leaders(x.rows) : p.src = "proc" /\ p.fresh \in {"recent", "stale"}
  BY DEF Leaders, Usable
<1>6. ASSUME NEW r \in y.rows, r.src = "correlation", r.fresh = "recent"
      PROVE  \E p \in y.rows :
                /\ p.src = "proc" /\ p.fresh = "recent" /\ InstanceId(p) = r.id
                /\ \E l \in y.rels : l.from = r.h /\ l.to = p.h /\ l.kind = "instance_process"
  <2>1. PICK p \in Leaders(x.rows) :
                p \in y.rows /\ r.id = InstanceId(p) /\ r.fresh = p.fresh /\ r.gen = Constant
    BY <1>4, <1>6 DEF unseen_freshness
  <2>2. p.src = "proc"  BY <1>5
  <2>3. PICK l \in b.rels :
           l = Link(Ref("correlation", Constant, InstanceId(p)), RowRef(p), "instance_process")
    BY <1>2
  <2>4. /\ l.from = Ref("correlation", Constant, InstanceId(p)) /\ l.to = RowRef(p)
        /\ l.kind = "instance_process"
    BY <2>3 DEF Link
  <2>5. RowRef(r) = l.from  BY <1>6, <2>1, <2>4 DEF RowRef
  <2>6. r \in resolve_current_authoritative_ref(y.rows, l.from)
    BY <1>6, <2>5 DEF resolve_current_authoritative_ref
  <2>7. p \in resolve_current_authoritative_ref(y.rows, l.to)
    BY <1>6, <2>1, <2>4 DEF resolve_current_authoritative_ref
  <2>8. r.h # p.h  BY <1>3, <1>6, <2>1, <2>2 DEF TablesOK, Keyed
  <2>9. Relation(r, p, l.kind, b.src) \in y.rels  BY <1>3, <2>6, <2>7, <2>8
  <2>10. /\ Relation(r, p, l.kind, b.src).from = r.h /\ Relation(r, p, l.kind, b.src).to = p.h
         /\ Relation(r, p, l.kind, b.src).kind = "instance_process"
    BY <2>4 DEF Relation
  <2>11. p.fresh = "recent"  BY <1>6, <2>1
  <2> QED BY <2>1, <2>2, <2>9, <2>10, <2>11
<1>7. Backed(y)  BY <1>6 DEF Backed
<1>8. ASSUME Sound(y)  PROVE ReadAgain(y)
  <2>1. /\ SourcesOK(x.sources) /\ SourcesOK(y.sources) /\ y.sources = upsert_source_status(x, b)
        /\ \A r \in y.rows : RowOK(r, y.sources, y.next)
    BY <1>3 DEF TablesOK, Told
  <2>2. "correlation" \in DOMAIN y.sources /\ y.sources["correlation"].health = told
    BY <1>2, <2>1, StatusOfBatch
  <2>3. told = "healthy"  BY <1>8, <2>2 DEF Sound, SystemSources, Poor
  <2>4. unseen_freshness(b) = "historical"  BY <1>2, <2>3 DEF unseen_freshness
  <2>5. ASSUME NEW r \in y.rows, r.src = "correlation"  PROVE r.fresh \in {"recent", "historical"}
    <3>1. CASE r.fresh = "historical"  BY <3>1
    <3>2. CASE r.fresh # "historical"
      <4>1. PICK p \in Leaders(x.rows) : p \in y.rows /\ r.fresh = p.fresh
        BY <1>4, <2>4, <2>5, <3>2
      <4>2. p.src = "proc" /\ p.fresh # "historical"  BY <1>5
      <4>3. RowOK(p, y.sources, y.next)  BY <2>1, <4>1
      <4>4. "proc" \in DOMAIN y.sources /\ y.sources["proc"] \in Statuses
        BY <2>1, <4>2, <4>3 DEF RowOK, SourcesOK
      <4>5. y.sources["proc"].health = "healthy"
        BY <1>8, <4>4 DEF Sound, SystemSources, Poor, Statuses
      <4> QED BY <4>1, <4>2, <4>3, <4>5 DEF RowOK, SaidSo, IsProviderResource
    <3> QED BY <3>1, <3>2
  <2> QED BY <1>8, <2>5 DEF Sound, ReadAgain
<1> QED BY <1>7, <1>8

LEMMA ReconciledIndex ==
  ASSUME TablesOK(index), NEW batches \in Seq(Batches),
         NEW xx, xx = Applied(batches, Len(batches))
  PROVE  LET z == reconcile_index_domain(xx, batches) IN
         TablesOK(z) /\ Keeps(index, z) /\ (~Failed(z) => StateOK(z))
<1> DEFINE partial == \E b \in ToSet(batches) : b.health \in Poor
           hh == IF partial THEN "degraded" ELSE "healthy"
           yy == ApplyBatch(xx, correlate(xx.rows, hh))
           degraded == \E s \in SystemSources \cap DOMAIN yy.sources : yy.sources[s].health \in Poor
           z == reconcile_index_domain(xx, batches)
<1>1. z = IF Failed(yy) THEN yy ELSE [yy EXCEPT !.state = IF degraded THEN "degraded" ELSE "healthy"]
  BY DEF reconcile_index_domain
<1>2. hh \in {"healthy", "degraded"}  OBVIOUS
<1>3. TablesOK(xx) /\ Keeps(index, xx)
  <2>1. Len(batches) \in Nat /\ \A i \in 1..Len(batches) : batches[i] \in Batches  OBVIOUS
  <2>2. \A i \in 1..Len(batches) : BatchOK(batches[i])  BY <2>1 DEF Batches
  <2> QED BY <2>1, <2>2, AppliedOK
<1> HIDE DEF z, hh
<1>4. PICK x, told : x = xx /\ told = hh  OBVIOUS
<1>5. PICK y : y = yy  OBVIOUS
<1>6. y = ApplyBatch(x, correlate(x.rows, told)) /\ told \in {"healthy", "degraded"}
  BY <1>2, <1>4, <1>5
<1>7. TablesOK(x) /\ Keeps(index, x)  BY <1>3, <1>4
<1>8. TablesOK(y) /\ Keeps(x, y)
  <2>1. BatchOK(correlate(x.rows, told))  BY <1>6, <1>7, CorrelationOK
  <2> QED BY <1>6, <1>7, <2>1, BatchApplied
<1>9. Keeps(index, y)  BY <1>7, <1>8, KeepsOn
<1> HIDE DEF yy
<1>10. ASSUME Failed(y)  PROVE TablesOK(z) /\ Keeps(index, z) /\ Failed(z)
  BY <1>1, <1>5, <1>8, <1>9, <1>10
<1>11. ASSUME ~Failed(y)  PROVE TablesOK(z) /\ Keeps(index, z) /\ StateOK(z)
  <2>1. Backed(y) /\ (Sound(y) => ReadAgain(y))  BY <1>6, <1>7, <1>11, Correlated
  <2>2. PICK state : state = IF degraded THEN "degraded" ELSE "healthy"  OBVIOUS
  <2>3. z = [y EXCEPT !.state = state]  BY <1>1, <1>5, <1>11, <2>2
  <2>4. degraded <=> ~Sound(y)  BY <1>5 DEF Sound
  <2>5. /\ TablesOK(z) /\ z.rows = y.rows /\ z.rels = y.rels /\ z.sources = y.sources
        /\ z.state = state /\ Keeps(y, z)
    BY <1>8, <2>3, FailedTables
  <2>6. Keeps(index, z)  BY <1>8, <1>9, <2>5, KeepsOn
  <2>7. Backed(z) /\ (Sound(y) => ReadAgain(z))  BY <2>1, <2>5 DEF Backed, ReadAgain
  <2>8. StateOK(z)  BY <2>2, <2>4, <2>5, <2>7 DEF StateOK
  <2> QED BY <2>5, <2>6, <2>8
<1> QED BY <1>10, <1>11 DEF z

(***************************************************************************)
(* What the collectors return.                                             *)
(***************************************************************************)
LEMMA CollectedBatch ==
  ASSUME NEW src \in Collected, NEW gen \in Generations, src = "proc" => gen[2] = 0,
         NEW told \in {"healthy", "degraded", "unavailable"},
         NEW obs \in SUBSET Observations, IsFiniteSet(obs),
         \A o, p \in obs : o.id = p.id => o = p,
         \A o \in obs : Reported(src, o),
         NEW rels \in SUBSET BatchRelations
  PROVE  healthy_batch(src, gen, told, obs, rels) \in Batches
<1> DEFINE b == healthy_batch(src, gen, told, obs, rels)
<1>1. b = [src |-> src, gen |-> gen, health |-> told, obs |-> obs, rels |-> rels]
  BY DEF healthy_batch
<1> HIDE DEF b
<1>2. b \in [src : Collected, gen : Generations, health : {"healthy", "degraded", "unavailable"},
             obs : SUBSET Observations, rels : SUBSET BatchRelations]
  BY <1>1
<1>3. b.src = src /\ b.gen = gen /\ b.health = told /\ b.obs = obs  BY <1>1
<1>4. src # "correlation" /\ src \in Sources  BY DEF Collected, IdsOf, Sources
<1>5. \A o \in obs : o.id \in Resources /\ o.link \in Links  BY DEF Observations
<1>6. GenOf(src, gen)  BY <1>4 DEF GenOf
<1>7. BatchOK(b)  BY <1>3, <1>4, <1>5, <1>6 DEF BatchOK, IdsFor
<1> QED BY <1>2, <1>7 DEF Batches, b

\* One observation for each of some resources of a finite machine.
LEMMA ObservationsOf ==
  ASSUME NEW ids \in SUBSET Resources, NEW obs, NEW f,
         \A i \in ids : f[i] \in obs /\ f[i] \in [id : {i}, link : Links, fresh : Freshness],
         \A o \in obs : \E i \in ids : o = f[i]
  PROVE  /\ obs \in SUBSET Observations /\ IsFiniteSet(obs)
         /\ \A o, p \in obs : o.id = p.id => o = p
<1> DEFINE g == [i \in ids |-> f[i]]
<1>1. IsFiniteSet(ids)  BY MachineIsFinite, FS_Subset DEF Resources
<1>2. g \in [ids -> obs] /\ \A o \in obs : \E i \in ids : g[i] = o  OBVIOUS
<1>3. g \in Surjection(ids, obs)  BY <1>2 DEF Surjection
<1>4. IsFiniteSet(obs)  BY <1>1, <1>3, FS_Surjection
<1>5. \A i \in ids : f[i].id = i /\ f[i] \in Observations  BY DEF Observations
<1>6. \A o \in obs : o \in Observations  BY <1>5
<1>7. \A o, p \in obs : o.id = p.id => o = p
  <2> SUFFICES ASSUME NEW o \in obs, NEW p \in obs, o.id = p.id  PROVE o = p
    OBVIOUS
  <2>1. PICK i \in ids : o = f[i]  OBVIOUS
  <2>2. PICK j \in ids : p = f[j]  OBVIOUS
  <2> QED BY <1>5, <2>1, <2>2
<1> QED BY <1>4, <1>6, <1>7

LEMMA ObservedOK ==
  ASSUME NEW ids \in SUBSET Resources
  PROVE  /\ Observed(ids) \in SUBSET Observations /\ IsFiniteSet(Observed(ids))
         /\ \A o, p \in Observed(ids) : o.id = p.id => o = p
         /\ \A o \in Observed(ids) : \A src \in Collected : Reported(src, o)
<1> DEFINE f == [i \in ids |-> [id |-> i, link |-> NoLink, fresh |-> "recent"]]
<1>1. PICK obs : obs = Observed(ids)  OBVIOUS
<1>2. \A i \in ids : f[i] \in obs /\ f[i] \in [id : {i}, link : Links, fresh : Freshness]
  BY <1>1 DEF Observed, Links, Freshness
<1>3. \A o \in obs : \E i \in ids : o = f[i]  BY <1>1 DEF Observed
<1> HIDE DEF f
<1>4. /\ obs \in SUBSET Observations /\ IsFiniteSet(obs)
      /\ \A o, p \in obs : o.id = p.id => o = p
  BY <1>2, <1>3, ObservationsOf
<1>5. \A o \in obs : o.fresh = "recent"  BY <1>1 DEF Observed
<1>6. \A o \in obs : \A src \in Collected : Reported(src, o)
  BY <1>5 DEF Reported, Collected, IdsOf
<1> QED BY <1>1, <1>4, <1>6

LEMMA UnavailableOK ==
  ASSUME NEW src \in Collected, NEW gen \in Generations, src = "proc" => gen[2] = 0
  PROVE  unavailable(src, gen) \in Batches
<1>1. IsFiniteSet({})  BY FS_EmptySet
<1>2. healthy_batch(src, gen, "unavailable", {}, {}) \in Batches  BY <1>1, CollectedBatch
<1> QED BY <1>2 DEF unavailable

LEMMA GenerationsOK ==
  ASSUME WorldOK
  PROVE  /\ boot_id \in Nat /\ <<boot_id, 0>> \in Generations /\ Constant \in Generations
         /\ \A boot \in Nat : discover_graphical_context(boot) \in Generations
         /\ world.present \subseteq Resources
BY DEF WorldOK, boot_id, Generations, Constant, discover_graphical_context

LEMMA StageOK ==
  ASSUME WorldOK, NEW stage \in StageNames, NEW batches \in Seq(Batches),
         stage = "graphical" => batches # <<>>, NEW got \in Stage(stage, batches)
  PROVE  got \in Seq(Batches) /\ got # <<>>
<1> USE GenerationsOK
<1>1. \A src \in Collected : src \in {"applications", "proc", "x11", "i3", "openrc", "providers"}
  BY DEF Collected, IdsOf
<1>2. \A src \in {"applications", "proc", "x11", "i3", "openrc", "providers"} : src \in Collected
  BY DEF Collected, IdsOf
<1>3. ASSUME NEW src, NEW ids \in Seen(src)  PROVE ids \in SUBSET Resources
  BY <1>3 DEF Seen
<1>4. \A src : Scanned(src) \in {"healthy", "degraded"}  BY DEF Scanned
<1>5. Constant[2] = 0 /\ {} \in SUBSET BatchRelations  BY DEF Constant
<1>6. CASE stage = "applications"
  <2>1. \A b \in collect_applications : b \in Batches
    BY <1>2, <1>3, <1>4, <1>5, ObservedOK, UnavailableOK, CollectedBatch DEF collect_applications
  <2>2. PICK b \in collect_applications : got = <<b>>  BY <1>6 DEF Stage
  <2> QED BY <2>1, <2>2
<1>7. CASE stage = "proc"
  <2>1. \A b \in collect_processes : b \in Batches
    <3>1. CASE boot_id = 0
      BY <1>2, <1>5, <3>1, UnavailableOK DEF collect_processes
    <3>2. CASE boot_id # 0 /\ world.cond.proc = "down"
      BY <1>2, <3>2, UnavailableOK DEF collect_processes
    <3>3. CASE boot_id # 0 /\ world.cond.proc # "down"
      <4>1. ASSUME NEW ids \in Seen("proc")
            PROVE  healthy_batch("proc", <<boot_id, 0>>, Scanned("proc"), Observed(ids), {}) \in Batches
        BY <1>2, <1>3, <1>4, <1>5, ObservedOK, CollectedBatch
      <4> QED BY <3>3, <4>1 DEF collect_processes
    <3> QED BY <3>1, <3>2, <3>3
  <2>2. PICK b \in collect_processes : got = <<b>>  BY <1>7 DEF Stage
  <2> QED BY <2>1, <2>2
<1>8. CASE stage = "openrc"
  <2>1. ASSUME NEW ids \in Seen("openrc")
        PROVE  healthy_batch("openrc", <<boot_id, 0>>, "healthy", Observed(ids), {}) \in Batches
    BY <1>2, <1>3, <1>5, ObservedOK, CollectedBatch
  <2>2. unavailable("openrc", <<boot_id, 0>>) \in Batches  BY <1>2, UnavailableOK
  <2>3. \A b \in collect_openrc : b \in Batches  BY <2>1, <2>2 DEF collect_openrc
  <2>4. PICK b \in collect_openrc : got = <<b>>  BY <1>8 DEF Stage
  <2> QED BY <2>3, <2>4
<1>9. CASE stage = "providers"
  <2>1. PICK told : told = CASE world.cond.providers = "ok" -> "healthy"
                             [] world.cond.providers = "partial" -> "degraded"
                             [] world.cond.providers = "down" -> "unavailable"
    OBVIOUS
  <2>2. PICK b \in provider_index_batch : got = <<b>>  BY <1>9 DEF Stage
  <2> DEFINE plain == Observed((world.present \cap Provs) \cup Registered(Capabilities))
             held == {[id |-> v, link |-> NoLink, fresh |-> availability_freshness(v)] :
                         v \in Registered(ProviderResources)}
             ref(i) == Ref("providers", Constant, i)
             says(i, kind) == [from |-> ref(ProviderOf[i]), to |-> ref(i), kind |-> kind]
             rels == {says(i, "provider_capability") : i \in Registered(Capabilities)}
                     \cup {says(i, "provider_resource") : i \in Registered(ProviderResources)}
  <2>3. b = healthy_batch("providers", Constant, told, plain \cup held, rels)
    BY <2>1, <2>2 DEF provider_index_batch
  <2>4. told \in {"healthy", "degraded", "unavailable"}
    <3>1. world.cond.providers \in {"ok", "partial", "down"}  BY DEF WorldOK, Conditions
    <3> QED BY <2>1, <3>1
  <2>5. /\ Registered(Capabilities) \subseteq Capabilities
        /\ Registered(ProviderResources) \subseteq ProviderResources
    BY DEF Registered
  <2>6. rels \in SUBSET BatchRelations
    <3>1. \A i \in Provs \cup Capabilities \cup ProviderResources : ref(i) \in Refs
      BY <1>2 DEF Ref, Refs, Sources, Resources
    <3>2. \A i \in Capabilities \cup ProviderResources : ref(ProviderOf[i]) \in Refs
      BY <3>1, MachineIsFinite
    <3> HIDE DEF ref
    <3> QED BY <2>5, <3>1, <3>2 DEF BatchRelations
  <2>7. /\ plain \in SUBSET Observations /\ IsFiniteSet(plain)
        /\ \A o, p \in plain : o.id = p.id => o = p
        /\ \A o \in plain : Reported("providers", o)
    <3>1. (world.present \cap Provs) \cup Registered(Capabilities) \in SUBSET Resources
      BY <2>5 DEF Resources
    <3> QED BY <1>2, <3>1, ObservedOK
  <2>8. \A v \in ProviderResources : availability_freshness(v) \in {"recent", "stale", "unavailable"}
    BY DEF availability_freshness, WorldOK, Availability
  <2>9. /\ held \in SUBSET Observations /\ IsFiniteSet(held)
        /\ \A o, p \in held : o.id = p.id => o = p
    <3> DEFINE f == [v \in Registered(ProviderResources) |->
                        [id |-> v, link |-> NoLink, fresh |-> availability_freshness(v)]]
    <3>1. Registered(ProviderResources) \in SUBSET Resources  BY <2>5 DEF Resources
    <3>2. \A v \in Registered(ProviderResources) :
             f[v] \in held /\ f[v] \in [id : {v}, link : Links, fresh : Freshness]
      BY <2>5, <2>8 DEF Links, Freshness
    <3>3. \A o \in held : \E v \in Registered(ProviderResources) : o = f[v]  OBVIOUS
    <3> HIDE DEF f, held
    <3> QED BY <3>1, <3>2, <3>3, ObservationsOf
  <2>10. \A o \in held : Reported("providers", o)
    BY <2>5, <2>8 DEF Reported, IsProviderResource
  <2>11. \A o \in plain : o.id \in Provs \cup Capabilities  BY <2>5 DEF Observed
  <2>12. \A o \in held : o.id \in ProviderResources  BY <2>5
  <2>13. b \in Batches
    <3> HIDE DEF plain, held, rels
    <3>1. PICK obs : obs = plain \cup held  OBVIOUS
    <3>2. obs \in SUBSET Observations /\ IsFiniteSet(obs)  BY <2>7, <2>9, <3>1, FS_Union
    <3>3. \A o, p \in obs : o.id = p.id => o = p
      BY <2>7, <2>9, <2>11, <2>12, <3>1, RegistryIdentities
    <3>4. \A o \in obs : Reported("providers", o)  BY <2>7, <2>10, <3>1
    <3> QED BY <1>2, <1>5, <2>3, <2>4, <2>6, <3>1, <3>2, <3>3, <3>4, CollectedBatch
  <2> QED BY <2>2, <2>13
<1>10. CASE stage = "graphical"
  <2>1. PICK gen : gen = discover_graphical_context(Last(batches).gen[1])  OBVIOUS
  <2>2. gen \in Generations
    <3>1. Len(batches) \in 1..Len(batches)  BY <1>10
    <3>2. batches[Len(batches)] \in Batches  BY <3>1
    <3>3. Last(batches).gen \in Generations  BY <3>2 DEF Batches, Last
    <3>4. Last(batches).gen[1] \in Nat  BY <3>3 DEF Generations
    <3> QED BY <2>1, <3>4
  <2>3. gen[1] \in Nat  BY <2>2 DEF Generations
  <2>4. ASSUME NEW b \in collect_i3(gen)  PROVE b \in Batches
    <3> DEFINE rels == {[from |-> Ref("x11", gen, w), to |-> Ref("i3", gen, WorkspaceOf[w]),
                         kind |-> "window_workspace"] : w \in world.present \cap Windows}
    <3>1. rels \in SUBSET BatchRelations
      <4>1. \A w \in Windows : w \in Resources /\ WorkspaceOf[w] \in Resources
        BY MachineIsFinite DEF Resources
      <4>2. \A w \in Windows : Ref("x11", gen, w) \in Refs /\ Ref("i3", gen, WorkspaceOf[w]) \in Refs
        BY <1>2, <2>2, <4>1 DEF Ref, Refs, Sources
      <4> QED BY <4>2 DEF BatchRelations
    <3>2. healthy_batch("i3", gen, "healthy", Observed(world.present \cap Workspaces), rels) \in Batches
      <4> HIDE DEF rels
      <4> QED BY <1>2, <2>2, <3>1, ObservedOK, CollectedBatch
    <3>3. unavailable("i3", gen) \in Batches  BY <1>2, <2>2, UnavailableOK
    <3> QED BY <2>4, <3>2, <3>3 DEF collect_i3
  <2>5. ASSUME NEW b \in collect_x11(gen)  PROVE b \in Batches
    <3>1. ASSUME NEW ids \in Seen("x11")
          PROVE  healthy_batch("x11", gen, Scanned("x11"),
                   {[id |-> w, link |-> process_reference_if_owned(gen[1], w), fresh |-> "recent"] :
                       w \in ids}, {})
                 \in Batches
      <4> DEFINE f == [w \in ids |-> [id |-> w, link |-> process_reference_if_owned(gen[1], w),
                                      fresh |-> "recent"]]
      <4>1. PICK obs : obs = {[id |-> w, link |-> process_reference_if_owned(gen[1], w),
                               fresh |-> "recent"] : w \in ids}
        OBVIOUS
      <4>2. \A w \in ids : process_reference_if_owned(gen[1], w) \in Links
        BY <1>2, <2>3
        DEF process_reference_if_owned, process_ref, Ref, Refs, Links, Sources, Generations
      <4>3. \A w \in ids : f[w] \in obs /\ f[w] \in [id : {w}, link : Links, fresh : Freshness]
        BY <4>1, <4>2 DEF Freshness
      <4>4. \A o \in obs : \E w \in ids : o = f[w]  BY <4>1
      <4> HIDE DEF f
      <4>5. /\ obs \in SUBSET Observations /\ IsFiniteSet(obs)
            /\ \A o, p \in obs : o.id = p.id => o = p
        <5>1. ids \in SUBSET Resources  BY <1>3
        <5> QED BY <4>3, <4>4, <5>1, ObservationsOf
      <4>7. \A o \in obs : Reported("x11", o)  BY <4>1 DEF Reported
      <4>6. healthy_batch("x11", gen, Scanned("x11"), obs, {}) \in Batches
        BY <1>2, <1>4, <1>5, <2>2, <4>5, <4>7, CollectedBatch
      <4> QED BY <4>1, <4>6
    <3>2. unavailable("x11", gen) \in Batches  BY <1>2, <2>2, UnavailableOK
    <3> QED BY <2>5, <3>1, <3>2 DEF collect_x11
  <2>6. got \in collect_graphical(Last(batches).gen[1])  BY <1>10 DEF Stage
  <2>7. CASE gen = Constant
    <3>1. got = <<unavailable("i3", gen), unavailable("x11", gen)>>
      BY <2>1, <2>6, <2>7 DEF collect_graphical
    <3>2. unavailable("i3", gen) \in Batches /\ unavailable("x11", gen) \in Batches
      BY <1>2, <2>2, UnavailableOK
    <3> QED BY <3>1, <3>2
  <2>8. CASE gen # Constant
    <3>1. PICK i \in collect_i3(gen), x \in collect_x11(gen) : got = <<i, x>>
      BY <2>1, <2>6, <2>8 DEF collect_graphical
    <3>2. i \in Batches /\ x \in Batches  BY <2>4, <2>5
    <3> QED BY <3>1, <3>2
  <2> QED BY <2>7, <2>8
<1> QED BY <1>6, <1>7, <1>8, <1>9, <1>10 DEF StageNames

LEMMA CollectorsOK ==
  ASSUME NEW domain, NEW c
  PROVE  /\ collect(domain, c) \in Seq(StageNames)
         /\ collect(domain, c)[1] # "graphical"
<1> DEFINE Fine(s) == s \in Seq(StageNames) /\ s[1] # "graphical"
<1>1. Fine(<<"applications">>) /\ Fine(<<"openrc">>)  BY DEF StageNames
<1>2. Fine(<<"providers">>) /\ Fine(<<"proc">>)  BY DEF StageNames
<1>3. Fine(<<"proc", "graphical">>)  BY DEF StageNames
<1>4. Fine(<<"applications", "proc", "openrc", "providers">>)  BY DEF StageNames
<1>5. Fine(<<"applications", "proc", "graphical", "openrc", "providers">>)  BY DEF StageNames
<1> HIDE DEF Fine
<1>6. Fine(collect(domain, c))  BY <1>1, <1>2, <1>3, <1>4, <1>5 DEF collect
<1> QED BY <1>6 DEF Fine

(***************************************************************************)
(* The tables under the operations of the daemon.                          *)
(***************************************************************************)
\* A rebuild empties the tables; whatever else happens keeps the rows.
TablesStep(x, y) ==
    TablesOK(y) /\ StateOK(y) /\ (Keeps(x, y) \/ (y.rows = {} /\ y.next = x.next))

LEMMA IndexRestarted ==
  ASSUME NEW x, TablesOK(x)
  PROVE  LET y == prepare_index_restart(x)
         IN TablesOK(y) /\ StateOK(y) /\ Keeps(x, y)
<1> DEFINE recent == {r \in x.rows : r.fresh = "recent"}
           rows == SetFresh(x.rows, recent, "stale")
           sources == [s \in DOMAIN x.sources |-> [x.sources[s] EXCEPT !.health = "unknown"]]
           y == prepare_index_restart(x)
<1>1. /\ x.rows \subseteq Rows /\ IsFiniteSet(x.rows) /\ Keyed(x.rows) /\ SourcesOK(x.sources)
      /\ IsIndex(x)
      /\ x.next \in Nat \ {0} /\ \A r \in x.rows : RowOK(r, x.sources, x.next)
      /\ \A l \in x.rels : \E f, t \in x.rows : f.h = l.from /\ t.h = l.to
  BY DEF TablesOK
<1>2. /\ rows \subseteq Rows /\ IsFiniteSet(rows) /\ Keyed(rows)
      /\ \A q \in rows : \E r \in x.rows :
            Aged(q, r) /\ q.fresh = IF r \in recent THEN "stale" ELSE r.fresh
      /\ \A r \in x.rows : \E q \in rows :
            Aged(q, r) /\ q.fresh = IF r \in recent THEN "stale" ELSE r.fresh
  <2> HIDE DEF recent
  <2>1. "stale" \in Freshness  BY DEF Freshness
  <2> QED BY <1>1, <2>1, FreshnessSet
<1>3. /\ DOMAIN sources = DOMAIN x.sources
      /\ \A s \in DOMAIN sources : /\ sources[s].gen = x.sources[s].gen
                                   /\ sources[s].health = "unknown" /\ sources[s] \in Statuses
  BY <1>1 DEF SourcesOK, Statuses
<1>4. /\ IsIndex(y) /\ y.rows = rows /\ y.sources = sources /\ y.rels = x.rels
      /\ y.next = x.next /\ y.state = "initializing"
  <2>1. y = [x EXCEPT !.rows = rows, !.sources = sources, !.state = "initializing"]
    BY <1>1 DEF prepare_index_restart, IsIndex
  <2>2. IsIndex(x)  BY <1>1
  <2> HIDE DEF y, rows, sources
  <2> QED BY <2>1, <2>2 DEF IsIndex
<1> HIDE DEF y, rows, sources, recent
<1>5. SourcesOK(sources)  BY <1>1, <1>3 DEF SourcesOK
<1>6. \A q \in rows : RowOK(q, sources, x.next)
  <2> SUFFICES ASSUME NEW q \in rows  PROVE RowOK(q, sources, x.next)
    OBVIOUS
  <2>1. PICK r \in x.rows : Aged(q, r) /\ q.fresh = IF r \in recent THEN "stale" ELSE r.fresh
    BY <1>2
  <2>2. RowOK(r, x.sources, x.next)  BY <1>1
  <2>3. q.fresh # "historical" => r.fresh # "historical"
    BY <2>1 DEF recent
  <2>4. /\ q.h < x.next /\ q.src \in DOMAIN sources /\ q.owner = OwnerOf(q.src, q.id)
        /\ GenOf(q.src, q.gen) /\ q.id \in IdsFor(q.src)
        /\ q.fresh # "historical" => q.gen = sources[q.src].gen
        /\ sources[q.src].health = "unknown"
    BY <1>3, <2>1, <2>2, <2>3 DEF RowOK, Aged
  <2> QED BY <2>4 DEF RowOK
<1>7. \A r \in x.rows : \E q \in rows : q.h = r.h /\ SameName(r, q)
  BY <1>2 DEF Aged, SameName
<1>8. Keeps(x, y)
  <2>1. \A q \in y.rows : \E r \in x.rows : r.h = q.h  BY <1>2, <1>4 DEF Aged
  <2>2. NewHandles(x, y)  BY <1>4, <2>1, SameHandles
  <2> QED BY <1>4, <1>7, <2>2 DEF Keeps
<1>9. \A l \in y.rels : \E f, t \in y.rows : f.h = l.from /\ t.h = l.to
  <2> SUFFICES ASSUME NEW l \in x.rels  PROVE \E f, t \in rows : f.h = l.from /\ t.h = l.to
    BY <1>4
  <2>1. PICK f \in x.rows, t \in x.rows : f.h = l.from /\ t.h = l.to  BY <1>1
  <2>2. PICK f1 \in rows : f1.h = f.h  BY <1>7
  <2>3. PICK t1 \in rows : t1.h = t.h  BY <1>7
  <2> QED BY <2>1, <2>2, <2>3
<1>10. TablesOK(y)  BY <1>1, <1>2, <1>4, <1>5, <1>6, <1>9 DEF TablesOK
<1>11. StateOK(y)  BY <1>4 DEF StateOK
<1> QED BY <1>8, <1>10, <1>11 DEF y

LEMMA IndexEmptied ==
  ASSUME NEW x, TablesOK(x)
  PROVE  LET y == rebuild_index_derived(x)
         IN TablesOK(y) /\ StateOK(y) /\ y.rows = {} /\ y.next = x.next
<1> DEFINE y == rebuild_index_derived(x)
<1>1. EmptyIndex.sources = [s \in {} |-> "unknown"]  BY DEF EmptyIndex
<1>2. PICK sources : sources = EmptyIndex.sources  OBVIOUS
<1>3. /\ IsIndex(y) /\ y.rows = {} /\ y.rels = {} /\ y.sources = sources /\ y.next = x.next
      /\ y.state = "rebuilding"
  <2>1. y = [x EXCEPT !.rows = {}, !.rels = {}, !.sources = sources, !.generation = @ + 1,
                      !.state = "rebuilding"]
    BY <1>2 DEF rebuild_index_derived
  <2>2. IsIndex(x)  BY DEF TablesOK
  <2> HIDE DEF y
  <2> QED BY <2>1, <2>2 DEF IsIndex
<1>4. SourcesOK(sources)  BY <1>1, <1>2 DEF SourcesOK
<1>5. IsFiniteSet({})  BY FS_EmptySet
<1>6. x.next \in Nat \ {0}  BY DEF TablesOK
<1> HIDE DEF y
<1>7. TablesOK(y)  BY <1>3, <1>4, <1>5, <1>6 DEF TablesOK, Keyed
<1>8. StateOK(y)  BY <1>3 DEF StateOK
<1> QED BY <1>3, <1>7, <1>8 DEF y

LEMMA EmptyIndexOK == TablesOK(EmptyIndex) /\ StateOK(EmptyIndex)
<1>1. IsFiniteSet({})  BY FS_EmptySet
<1>2. PICK y, sources : y = EmptyIndex /\ sources = [s \in {} |-> "unknown"]  OBVIOUS
<1>3. /\ IsIndex(y) /\ y.rows = {} /\ y.rels = {} /\ y.sources = sources /\ y.next = 1
      /\ y.state = "initializing"
  <2>1. y = [rows |-> {}, rels |-> {}, sources |-> sources, state |-> "initializing",
             generation |-> 1, next |-> 1]
    BY <1>2 DEF EmptyIndex
  <2> QED BY <2>1 DEF IsIndex
<1>4. SourcesOK(sources)  BY <1>2 DEF SourcesOK
<1>5. TablesOK(y)  BY <1>1, <1>3, <1>4 DEF TablesOK, Keyed
<1>6. StateOK(y)  BY <1>3 DEF StateOK
<1> QED BY <1>2, <1>5, <1>6

\* The batches that a request has collected fit the tables.
LEMMA CollectedOK ==
  ASSUME NEW batches \in Seq(Batches), TablesOK(index), NEW n \in 0..Len(batches)
  PROVE  /\ TablesOK(Applied(batches, n)) /\ Keeps(index, Applied(batches, n))
<1>1. Len(batches) \in Nat /\ n \in Nat /\ \A i \in 1..n : batches[i] \in Batches  OBVIOUS
<1>2. \A i \in 1..n : BatchOK(batches[i])  BY <1>1 DEF Batches
<1> QED BY <1>1, <1>2, AppliedOK

LEMMA ReconcileApplied ==
  ASSUME IndexInv, NEW c \in Callers, ApplyReconcile(c)
  PROVE  TablesStep(index, index') /\ DOMAIN calls' = Callers /\ \A d \in Callers : RequestOK(calls'[d])
<1>1. RequestOK(calls[c]) /\ calls[c].pc = "collecting" /\ TablesOK(index)
  BY DEF IndexInv, ApplyReconcile
<1>2. calls[c].batches \in Seq(Batches)  BY <1>1 DEF RequestOK
<1>3. PICK x, z : /\ x = Applied(calls[c].batches, Len(calls[c].batches))
                  /\ z = reconcile_index_domain(x, calls[c].batches)
  OBVIOUS
<1>4. TablesOK(z) /\ Keeps(index, z) /\ (~Failed(z) => StateOK(z))
  BY <1>1, <1>2, <1>3, ReconciledIndex
<1>5. index' = IF Failed(z) THEN [z EXCEPT !.state = "initializing"] ELSE z
  BY <1>3 DEF ApplyReconcile
<1>6. TablesStep(index, index')
  <2>1. CASE Failed(z)
    <3>1. PICK y : y = [z EXCEPT !.state = "initializing"]  OBVIOUS
    <3>2. TablesOK(y) /\ y.state = "initializing" /\ Keeps(z, y)  BY <1>4, <3>1, FailedTables
    <3>3. Keeps(index, y)  BY <1>1, <1>4, <3>2, KeepsOn
    <3>4. StateOK(y)  BY <3>2 DEF StateOK
    <3>5. index' = y  BY <1>5, <2>1, <3>1
    <3> QED BY <3>2, <3>3, <3>4, <3>5 DEF TablesStep
  <2>2. CASE ~Failed(z)
    <3>1. index' = z  BY <1>5, <2>2
    <3> QED BY <1>4, <2>2, <3>1 DEF TablesStep
  <2> QED BY <2>1, <2>2
<1>7. PICK a : a \in Answers /\ calls' = [calls EXCEPT ![c] = Answer(a)]
  <2> DEFINE gone == \A r \in z.rows : r.h # calls[c].want \/ r.fresh = "historical"
  <2>1. calls' = [calls EXCEPT ![c] = Answer(CASE Failed(z) -> "failed"
                            [] ~Failed(z) /\ calls[c].want # 0 /\ gone -> "stale_resource"
                            [] OTHER -> "ok")]
    BY <1>3 DEF ApplyReconcile
  <2> HIDE DEF gone
  <2>2. (CASE Failed(z) -> "failed"
           [] ~Failed(z) /\ calls[c].want # 0 /\ gone -> "stale_resource"
           [] OTHER -> "ok") \in Answers
    BY DEF Answers
  <2> QED BY <2>1, <2>2
<1>8. RequestOK(Answer(a))  BY <1>7 DEF RequestOK, Answer
<1>9. DOMAIN calls = Callers /\ \A d \in Callers : RequestOK(calls[d])  BY DEF IndexInv
<1> QED BY <1>6, <1>7, <1>8, <1>9

LEMMA RestartStep ==
  ASSUME IndexInv, NEW c \in Callers, Restart(c)
  PROVE  /\ TablesStep(index, index') /\ WorldOK'
         /\ DOMAIN calls' = Callers /\ \A d \in Callers : RequestOK(calls'[d])
<1>1. PICK n \in 0..(IF calls[c].pc = "collecting" /\ calls[c].todo = <<>>
                     THEN Len(calls[c].batches) ELSE 0) :
         index' = prepare_index_restart(IF n = 0 THEN index ELSE Applied(calls[c].batches, n))
  BY DEF Restart
<1>2. TablesOK(index) /\ RequestOK(calls[c])  BY DEF IndexInv
<1>3. PICK x : x = IF n = 0 THEN index ELSE Applied(calls[c].batches, n)  OBVIOUS
<1>4. TablesOK(x) /\ Keeps(index, x)
  <2>1. CASE n = 0
    <3>1. Keeps(index, index)  BY <1>2, KeptAsItIs
    <3> QED BY <1>2, <1>3, <2>1, <3>1
  <2>2. CASE n # 0
    <3>1. calls[c].pc = "collecting"  BY <2>2
    <3>2. calls[c].batches \in Seq(Batches)  BY <1>2, <3>1 DEF RequestOK
    <3>3. n \in 0..Len(calls[c].batches)  BY <2>2
    <3>4. PICK batches : batches = calls[c].batches  OBVIOUS
    <3>5. TablesOK(Applied(batches, n)) /\ Keeps(index, Applied(batches, n))
      BY <1>2, <3>2, <3>3, <3>4, CollectedOK
    <3> QED BY <1>3, <2>2, <3>4, <3>5
  <2> QED BY <2>1, <2>2
<1>5. PICK y : y = prepare_index_restart(x)  OBVIOUS
<1>6. TablesOK(y) /\ StateOK(y) /\ Keeps(x, y)  BY <1>4, <1>5, IndexRestarted
<1>7. Keeps(index, y)  BY <1>2, <1>4, <1>6, KeepsOn
<1>8. index' = y  BY <1>1, <1>3, <1>5
<1>9. TablesStep(index, index')  BY <1>6, <1>7, <1>8 DEF TablesStep
<1>10. WorldOK'
  <2>1. PICK present \in SUBSET Resources, boot \in Nat :
           \/ world' = world
           \/ world' = [world EXCEPT !.boot = boot, !.session = 0, !.sessions = 0,
                                     !.ended = {}, !.present = present]
    <3>1. world.boot \in Nat /\ world.present \in SUBSET Resources  BY DEF IndexInv, WorldOK
    <3>2. world.boot + 1 \in Nat /\ world.present \ (Procs \cup Windows) \in SUBSET Resources
      BY <3>1
    <3> QED BY <3>2 DEF Restart
  <2>2. CASE world' = world  BY <2>2 DEF IndexInv, WorldOK
  <2>3. CASE world' = [world EXCEPT !.boot = boot, !.session = 0, !.sessions = 0,
                                    !.ended = {}, !.present = present]
    <3>1. world' \in [present : SUBSET Resources, cond : {world.cond}, boot : Nat, session : Nat,
                      sessions : Nat, ended : {{}}, avail : {world.avail}]
      BY <2>3 DEF IndexInv, WorldOK
    <3>2. world'.cond = world.cond /\ world'.ended = {} /\ world'.avail = world.avail  BY <3>1
    <3> QED BY <3>1, <3>2 DEF IndexInv, WorldOK
  <2> QED BY <2>1, <2>2, <2>3
<1>11. calls' = [d \in Callers |-> Answer("none")]  BY DEF Restart
<1>12. RequestOK(Answer("none"))  BY DEF RequestOK, Answer, Answers
<1> QED BY <1>9, <1>10, <1>11, <1>12

LEMMA WorldStep ==
  ASSUME IndexInv, ResourceChange \/ AvailabilityChange \/ ConditionChange \/ SessionChange
  PROVE  WorldOK' /\ index' = index /\ calls' = calls
<1>1. WorldOK  BY DEF IndexInv
<1>2. index' = index /\ calls' = calls
  BY DEF ResourceChange, AvailabilityChange, ConditionChange, SessionChange
<1>3. CASE ResourceChange
  <2>1. PICK i \in UNION {IdsOf[s] : s \in Collected} :
           \/ world' = [world EXCEPT !.present = @ \ {i},
                           !.ended = IF i \in Procs \cup Provs THEN @ \cup {i} ELSE @]
           \/ world' = [world EXCEPT !.present = @ \cup {i}]
    BY <1>3 DEF ResourceChange
  <2>2. i \in Resources  BY DEF Collected, IdsOf, Resources
  <2>3. PICK ended : ended = IF i \in Procs \cup Provs THEN world.ended \cup {i} ELSE world.ended
    OBVIOUS
  <2>4. CASE world' = [world EXCEPT !.present = @ \ {i},
                          !.ended = IF i \in Procs \cup Provs THEN @ \cup {i} ELSE @]
    <3>1. world' = [world EXCEPT !.present = @ \ {i}, !.ended = ended]  BY <2>3, <2>4
    <3>2. world' \in [present : SUBSET Resources, cond : {world.cond}, boot : Nat, session : Nat,
                      sessions : Nat, ended : {ended}, avail : {world.avail}]
      BY <1>1, <3>1 DEF WorldOK
    <3>3. world'.cond = world.cond /\ world'.ended = ended /\ world'.avail = world.avail  BY <3>2
    <3> QED BY <1>1, <1>2, <3>2, <3>3 DEF WorldOK
  <2>5. CASE world' = [world EXCEPT !.present = @ \cup {i}]  BY <1>1, <1>2, <2>2, <2>5 DEF WorldOK
  <2> QED BY <2>1, <2>4, <2>5
<1>4. CASE ConditionChange
  <2>1. PICK s \in DOMAIN Conditions :
           \E v \in Conditions[s] : world' = [world EXCEPT !.cond[s] = v]
    BY <1>4 DEF ConditionChange
  <2>2. PICK v \in Conditions[s] : world' = [world EXCEPT !.cond[s] = v]  BY <2>1
  <2> DEFINE cond == [world.cond EXCEPT ![s] = v]
  <2>3. world' = [world EXCEPT !.cond = cond]  BY <2>2
  <2>4. DOMAIN cond = DOMAIN Conditions /\ \A t \in DOMAIN Conditions : cond[t] \in Conditions[t]
    BY <1>1, <2>2 DEF WorldOK
  <2> HIDE DEF cond
  <2>5. world' \in [present : SUBSET Resources, cond : {cond}, boot : Nat, session : Nat,
                    sessions : Nat, ended : {world.ended}, avail : {world.avail}]
    BY <1>1, <2>3 DEF WorldOK
  <2>6. world'.cond = cond /\ world'.ended = world.ended /\ world'.avail = world.avail  BY <2>5
  <2> QED BY <1>1, <1>2, <2>4, <2>5, <2>6 DEF WorldOK
<1>5. CASE SessionChange
  <2>1. PICK session \in Nat, sessions \in Nat :
           world' = [world EXCEPT !.session = session, !.sessions = sessions]
    <3>1. world.sessions \in Nat /\ world.sessions + 1 \in Nat  BY <1>1 DEF WorldOK
    <3>2. world' = [world EXCEPT !.session = 0] =>
             world' = [world EXCEPT !.session = 0, !.sessions = world.sessions]
      BY <1>1 DEF WorldOK
    <3> QED BY <1>5, <3>1, <3>2 DEF SessionChange
  <2> QED BY <1>1, <1>2, <2>1 DEF WorldOK
<1>6. CASE AvailabilityChange
  <2>1. PICK v \in ProviderResources, a \in Availability : world' = [world EXCEPT !.avail[v] = a]
    BY <1>6 DEF AvailabilityChange, Registered
  <2>2. PICK avail : avail = [world.avail EXCEPT ![v] = a]  OBVIOUS
  <2>3. world' = [world EXCEPT !.avail = avail]  BY <2>1, <2>2
  <2>4. avail \in [ProviderResources -> Availability]  BY <1>1, <2>2 DEF WorldOK
  <2> QED BY <1>1, <1>2, <2>3, <2>4 DEF WorldOK
<1> QED BY <1>3, <1>4, <1>5, <1>6

LEMMA CallStep ==
  ASSUME IndexInv, NEW c \in Callers, IndexCall(c)
  PROVE  /\ TablesStep(index, index') /\ world' = world
         /\ DOMAIN calls' = Callers /\ \A d \in Callers : RequestOK(calls'[d])
<1>1. /\ TablesOK(index) /\ StateOK(index)
      /\ DOMAIN calls = Callers /\ \A d \in Callers : RequestOK(calls[d])
  BY DEF IndexInv
<1>2. ASSUME NEW domain, NEW want  PROVE RequestOK(Request(collect(domain, c), want))
  <2>1. PICK todo : todo = collect(domain, c)  OBVIOUS
  <2>2. todo \in Seq(StageNames) /\ todo[1] # "graphical"  BY <2>1, CollectorsOK
  <2>3. <<>> \in Seq(Batches)  OBVIOUS
  <2>4. RequestOK(Request(todo, want))  BY <2>2, <2>3 DEF RequestOK, Request
  <2> QED BY <2>1, <2>4
<1>3. PICK domain, want : calls' = [calls EXCEPT ![c] = Request(collect(domain, c), want)]
  BY DEF IndexCall, index_rescan, index_refresh, index_rebuild
<1>4. DOMAIN calls' = Callers /\ \A d \in Callers : RequestOK(calls'[d])
  BY <1>1, <1>2, <1>3
<1>5. world' = world  BY DEF IndexCall, index_rescan, index_refresh, index_rebuild
<1>6. TablesStep(index, index')
  <2>1. CASE index' = index
    <3>1. Keeps(index, index)  BY <1>1, KeptAsItIs
    <3> QED BY <1>1, <2>1, <3>1 DEF TablesStep
  <2>2. CASE index' = rebuild_index_derived(index)
    <3>1. PICK y : y = rebuild_index_derived(index)  OBVIOUS
    <3>2. TablesOK(y) /\ StateOK(y) /\ y.rows = {} /\ y.next = index.next
      BY <1>1, <3>1, IndexEmptied
    <3> QED BY <2>2, <3>1, <3>2 DEF TablesStep
  <2> QED BY <2>1, <2>2 DEF IndexCall, index_rescan, index_refresh, index_rebuild
<1> QED BY <1>4, <1>5, <1>6

LEMMA CollectStep ==
  ASSUME IndexInv, NEW c \in Callers, CollectStage(c)
  PROVE  /\ index' = index /\ world' = world
         /\ DOMAIN calls' = Callers /\ \A d \in Callers : RequestOK(calls'[d])
<1>1. /\ WorldOK /\ DOMAIN calls = Callers /\ \A d \in Callers : RequestOK(calls[d])
  BY DEF IndexInv
<1>2. PICK q : q = calls[c]  OBVIOUS
<1>3. /\ q \in [pc : {"collecting"}, todo : Seq(StageNames), batches : Seq(Batches), want : {q.want}]
      /\ q.batches = <<>> /\ q.todo # <<>> => q.todo[1] # "graphical"
      /\ q.todo # <<>>
  BY <1>1, <1>2 DEF RequestOK, CollectStage
<1>4. PICK got \in Stage(Head(q.todo), q.batches) :
         calls' = [calls EXCEPT ![c].todo = Tail(@), ![c].batches = @ \o got]
  BY <1>2 DEF CollectStage
<1>5. Head(q.todo) \in StageNames /\ q.batches \in Seq(Batches)
  BY <1>3
<1>6. Head(q.todo) = "graphical" => q.batches # <<>>  BY <1>3
<1>7. got \in Seq(Batches) /\ got # <<>>
  <2>1. PICK stage, batches : stage = Head(q.todo) /\ batches = q.batches  OBVIOUS
  <2> QED BY <1>1, <1>4, <1>5, <1>6, <2>1, StageOK
<1>8. PICK todo, batches : todo = Tail(q.todo) /\ batches = q.batches \o got  OBVIOUS
<1>9. todo \in Seq(StageNames) /\ batches \in Seq(Batches) /\ batches # <<>>
  BY <1>3, <1>7, <1>8
<1>10. PICK new : new = [q EXCEPT !.todo = todo, !.batches = batches]  OBVIOUS
<1>11. new \in [pc : {"collecting"}, todo : Seq(StageNames), batches : Seq(Batches), want : {new.want}]
       /\ new.batches = batches
  BY <1>3, <1>9, <1>10
<1>12. RequestOK(new)  BY <1>9, <1>11 DEF RequestOK
<1>13. calls' = [calls EXCEPT ![c] = new]  BY <1>2, <1>4, <1>8, <1>10
<1>14. DOMAIN calls' = Callers /\ \A d \in Callers : RequestOK(calls'[d])
  BY <1>1, <1>12, <1>13
<1> QED BY <1>14 DEF CollectStage

LEMMA IndexStep ==
  ASSUME IndexInv, [HealthNext]_allVars
  PROVE  IndexInv' /\ TablesStep(index, index')
<1>1. /\ WorldOK /\ TablesOK(index) /\ StateOK(index) /\ Keeps(index, index)
      /\ DOMAIN calls = Callers /\ \A d \in Callers : RequestOK(calls[d])
  BY KeptAsItIs DEF IndexInv
<1>2. ASSUME index' = index  PROVE TablesStep(index, index')
  BY <1>1, <1>2 DEF TablesStep
<1> DEFINE Kept == /\ TablesStep(index, index') /\ WorldOK'
                   /\ DOMAIN calls' = Callers /\ \A d \in Callers : RequestOK(calls'[d])
<1>3. ASSUME world' = world  PROVE WorldOK'
  BY <1>1, <1>3 DEF WorldOK
<1>4. ASSUME world' = world, index' = index, calls' = calls  PROVE Kept
  BY <1>1, <1>2, <1>3, <1>4
<1>5. ASSUME NEW c \in Callers, IndexCall(c)  PROVE Kept
  BY <1>3, <1>5, CallStep
<1>6. ASSUME NEW c \in Callers, CollectStage(c)  PROVE Kept
  BY <1>2, <1>3, <1>6, CollectStep
<1>7. ASSUME NEW c \in Callers, ApplyReconcile(c)  PROVE Kept
  <2>1. world' = world  BY <1>7 DEF ApplyReconcile
  <2> QED BY <1>3, <1>7, <2>1, ReconcileApplied
<1>8. ASSUME ResourceChange \/ AvailabilityChange \/ ConditionChange \/ SessionChange  PROVE Kept
  BY <1>1, <1>2, <1>8, WorldStep
<1>9. ASSUME NEW c \in Callers, Restart(c)  PROVE Kept
  BY <1>9, RestartStep
<1>10. Kept
  <2>1. CASE UNCHANGED allVars
    <3>1. world' = world /\ index' = index /\ calls' = calls  BY <2>1 DEF allVars, idxVars
    <3> QED BY <1>4, <3>1
  <2>2. CASE \E c \in Callers : HealthCollect(c) \/ HealthRecord(c)
    <3>1. world' = world /\ index' = index /\ calls' = calls
      BY <2>2 DEF HealthCollect, HealthRecord, idxVars
    <3> QED BY <1>4, <3>1
  <2>3. CASE AuditFails \/ ServiceChange \/ Tick \/ SuperviseRestart \/ RecordOtherRecovery
    <3>1. world' = world /\ index' = index /\ calls' = calls
      BY <2>3 DEF AuditFails, ServiceChange, Tick, SuperviseRestart, RecordOtherRecovery
    <3> QED BY <1>4, <3>1
  <2>4. CASE \E c \in Callers : HealthRestart(c)
    <3>1. PICK c \in Callers : Restart(c)  BY <2>4 DEF HealthRestart
    <3> QED BY <1>9, <3>1
  <2>5. CASE \E c \in Callers : IndexCall(c) \/ CollectStage(c) \/ ApplyReconcile(c)
    BY <1>5, <1>6, <1>7, <2>5
  <2>6. CASE ResourceChange \/ AvailabilityChange \/ ConditionChange \/ SessionChange
    BY <1>8, <2>6
  <2> HIDE DEF Kept
  <2> QED BY <2>1, <2>2, <2>3, <2>4, <2>5, <2>6 DEF HealthNext
<1>11. TablesOK(index') /\ StateOK(index')  BY <1>10 DEF TablesStep
<1>12. IndexInv'
  BY <1>10, <1>11 DEF IndexInv
<1> QED BY <1>10, <1>12

(***************************************************************************)
(* What a caller sees of tables that fit.                                  *)
(***************************************************************************)
LEMMA HonestTables ==
  ASSUME IndexInv
  PROVE  IndexIsHonest
<1>1. /\ TablesOK(index) /\ StateOK(index)
      /\ DOMAIN calls = Callers /\ \A c \in Callers : RequestOK(calls[c])
  BY DEF IndexInv
<1>2. /\ index.rows \subseteq Rows /\ Keyed(index.rows) /\ index.next \in Nat \ {0}
      /\ SourcesOK(index.sources)
      /\ \A r \in index.rows : RowOK(r, index.sources, index.next)
      /\ \A l \in index.rels : \E f, t \in index.rows : f.h = l.from /\ t.h = l.to
  BY <1>1 DEF TablesOK
<1>3. IdxTypeOK
  <2>1. index.state \in {"initializing", "rebuilding", "healthy", "degraded"}  BY <1>1 DEF StateOK
  <2>2. \A r \in index.rows : r.h \in 1..(index.next - 1) /\ r.src \in DOMAIN index.sources
    BY <1>2 DEF RowOK, Rows
  <2>3. ASSUME NEW r \in index.rows, NEW s \in index.rows,
               r.h = s.h \/ (<<r.src, r.gen>> = <<s.src, s.gen>> /\ r.id = s.id)
        PROVE  r = s
    BY <1>2, <2>3 DEF Keyed, SameName
  <2>4. \A c \in Callers : calls[c].pc = "idle" => calls[c].answer \in Answers
    BY <1>1 DEF RequestOK
  <2> QED BY <1>2, <2>1, <2>2, <2>3, <2>4 DEF IdxTypeOK
<1>4. CurrentRowsMatchSource  BY <1>2 DEF CurrentRowsMatchSource, RowOK
<1>5. HealthyIsHonest
  <2> SUFFICES ASSUME NEW c \in Callers, index_status_value(c) = "healthy"
               PROVE  /\ \A r \in index.rows :
                            Visible(c, r) => r.fresh \in {"recent", "historical"} \/ SaidSo(r)
                      /\ ~index_sources_partial_for(c, [src |-> "any"])
    BY DEF HealthyIsHonest, SaidSo
  <2>1. /\ index.state = "healthy"
        /\ c = "user" => \A s \in {"i3", "x11"} \cap DOMAIN index.sources :
                            index.sources[s].health \notin Poor
    BY DEF index_status_value
  <2>2. ReadAgain(index)  BY <1>1, <2>1 DEF StateOK
  <2>3. ASSUME NEW s \in DOMAIN index.sources, s \in SystemSources \/ c = "user"
        PROVE  index.sources[s].health \notin Poor
    <3>1. s \in SystemSources \cup {"i3", "x11"}
      BY <1>2 DEF SourcesOK, Sources, Collected, IdsOf, SystemSources
    <3> QED BY <2>1, <2>2, <2>3, <3>1 DEF ReadAgain, SystemSources
  <2>4. ASSUME NEW r \in index.rows, Visible(c, r)
        PROVE  r.fresh \in {"recent", "historical"} \/ SaidSo(r)
    <3>1. RowOK(r, index.sources, index.next)  BY <1>2
    <3>2. CASE r.src = "correlation"  BY <2>2, <3>2 DEF ReadAgain
    <3>3. CASE r.src # "correlation"
      <4>1. r.src \in DOMAIN index.sources /\ r.owner = OwnerOf(r.src, r.id)  BY <3>1 DEF RowOK
      <4>2. r.src \in SystemSources \/ c = "user"
        BY <2>4, <4>1
        DEF Visible, OwnerOf, IsProviderResource, Unowned, SystemSources, Callers, NoOwner
      <4>3. index.sources[r.src].health \notin Poor  BY <2>3, <4>1, <4>2
      <4>4. index.sources[r.src].health = "healthy"
        BY <1>2, <4>1, <4>3 DEF SourcesOK, Statuses, Poor
      <4> QED BY <3>1, <3>3, <4>4 DEF RowOK
    <3> QED BY <3>2, <3>3
  <2>5. ~index_sources_partial_for(c, [src |-> "any"])
    BY <2>3 DEF index_sources_partial_for
  <2> QED BY <2>4, <2>5
<1>6. InstanceIsBacked  BY <1>1 DEF InstanceIsBacked, StateOK, Backed
<1> QED BY <1>3, <1>4, <1>5, <1>6 DEF IndexIsHonest

---------------------------------------------------------------------------
\* The inductive invariant of the index: rows fit their columns, their keys and
\* the status of their source, what is collected fits the tables, and the state
\* of the index says what a finished reconciliation derived (index.rs, core.rs).
THEOREM IndexInvariant == HealthSpec => []IndexInv
<1>1. HealthInit => IndexInv
  <2> SUFFICES ASSUME HealthInit  PROVE IndexInv
    OBVIOUS
  <2>1. WorldOK
    <3>1. UNION {IdsOf[s] : s \in Collected} \subseteq Resources
      BY DEF Collected, IdsOf, Resources
    <3>2. "ok" \in Conditions["applications"] /\ \A s \in DOMAIN Conditions : "ok" \in Conditions[s]
      BY DEF Conditions
    <3>3. [v \in ProviderResources |-> "available"] \in [ProviderResources -> Availability]
      BY DEF Availability
    <3> QED BY <3>1, <3>2, <3>3 DEF HealthInit, IdxInit, WorldOK
  <2>2. RequestOK(Answer("none"))  BY DEF RequestOK, Answer, Answers
  <2>3. calls = [c \in Callers |-> Answer("none")] /\ index = EmptyIndex
    BY DEF HealthInit, IdxInit
  <2> QED BY <2>1, <2>2, <2>3, EmptyIndexOK DEF IndexInv
<1>2. IndexInv /\ [HealthNext]_allVars => IndexInv'  BY IndexStep
<1> QED BY <1>1, <1>2, PTL DEF HealthSpec

\* For any machine, any requests and any restarts, what the index presents as
\* current is current (reconcile_index_source, reconcile_index_domain,
\* correlate, prepare_index_restart, index_status_value).
THEOREM IndexHonest == HealthSpec => []IndexIsHonest
<1>1. IndexInv => IndexIsHonest  BY HonestTables
<1> QED BY <1>1, IndexInvariant, PTL

\* No step gives the handle of a row to another resource or generation, and no
\* handle that was given is given again, not even after a rebuild or a restart
\* (observed_rows, rebuild_index_derived).
THEOREM HandlesAreStable == HealthSpec => HandleIsOneResource
<1> DEFINE Stable == /\ \A r \in index.rows, s \in index'.rows :
                           r.h = s.h => <<r.src, r.gen>> = <<s.src, s.gen>> /\ r.id = s.id
                     /\ index.next <= index'.next
                     /\ \A s \in index'.rows : s.h < index.next => \E r \in index.rows : r.h = s.h
<1>1. IndexInv /\ [HealthNext]_allVars => [Stable]_idxVars
  <2> SUFFICES ASSUME IndexInv, [HealthNext]_allVars  PROVE Stable
    OBVIOUS
  <2>1. PICK x, y : x = index /\ y = index'  OBVIOUS
  <2>2. TablesOK(y) /\ (Keeps(x, y) \/ (y.rows = {} /\ y.next = x.next))
    BY <2>1, IndexStep DEF TablesStep
  <2>3. ASSUME NEW r \in x.rows, NEW s \in y.rows, r.h = s.h  PROVE SameName(r, s)
    <3>1. PICK q \in y.rows : q.h = r.h /\ SameName(r, q)  BY <2>2, <2>3 DEF Keeps
    <3>2. q = s  BY <2>2, <2>3, <3>1 DEF TablesOK, Keyed
    <3> QED BY <3>1, <3>2
  <2>4. NewHandles(x, y)
    <3>1. x.next \in Nat  BY <2>1 DEF IndexInv, TablesOK
    <3> QED BY <2>2, <3>1 DEF Keeps, NewHandles
  <2> QED BY <2>1, <2>3, <2>4 DEF SameName, NewHandles
<1> HIDE DEF Stable
<1>2. HealthSpec => [][Stable]_idxVars  BY <1>1, IndexInvariant, PTL DEF HealthSpec
<1> QED BY <1>2 DEF HandleIsOneResource, Stable

---------------------------------------------------------------------------
(***************************************************************************)
(* The observations of health and their events.                            *)
(***************************************************************************)
Tells(h) ==
    /\ h \in [rows : {h.rows}, events : {h.events}, torn : {h.torn}, calls : {h.calls}]
    /\ \A x \in DOMAIN h.rows \ h.torn : x \in DOMAIN h.events /\ h.events[x] = h.rows[x]

\* Recording, whole or cut short, keeps the events in step with the rows.
LEMMA RecordTells ==
  ASSUME NEW h, Tells(h), NEW snapshot, NEW which
  PROVE  /\ Tells(record_health_observation(h, snapshot, which))
         /\ \A x : which = {x} => Tells(RecordTorn(h, snapshot, x))
<1> DEFINE C == Changed(h.rows, snapshot, which)
           rows == Put(h.rows, snapshot, which)
           events == Put(h.events, snapshot, C)
<1>1. /\ DOMAIN rows = DOMAIN h.rows \cup which
      /\ \A x \in which : rows[x] = snapshot[x]
      /\ \A x \in DOMAIN h.rows : x \notin which => rows[x] = h.rows[x]
  BY DEF Put
<1>2. /\ DOMAIN events = DOMAIN h.events \cup C
      /\ \A x \in C : events[x] = snapshot[x]
      /\ \A x \in DOMAIN h.events : x \notin C => events[x] = h.events[x]
  <2> HIDE DEF C
  <2> QED BY DEF Put
<1>3. \A x : x \in C <=> x \in which /\ (x \notin DOMAIN h.rows \/ h.rows[x] # snapshot[x])
  BY DEF Changed
<1>4. \A x \in DOMAIN h.rows \ h.torn : x \in DOMAIN h.events /\ h.events[x] = h.rows[x]
  BY DEF Tells
<1>5. h \in [rows : {h.rows}, events : {h.events}, torn : {h.torn}, calls : {h.calls}]
  BY DEF Tells
<1> DEFINE whole == record_health_observation(h, snapshot, which)
<1>6. whole = [h EXCEPT !.rows = rows, !.events = events, !.torn = h.torn \ C]
  BY <1>5 DEF record_health_observation
<1> HIDE DEF C, rows, events, whole
<1>7. /\ whole \in [rows : {whole.rows}, events : {whole.events}, torn : {whole.torn},
                    calls : {whole.calls}]
      /\ whole.rows = rows /\ whole.events = events /\ whole.torn = h.torn \ C
  BY <1>5, <1>6
<1>8. ASSUME NEW x \in DOMAIN rows \ (h.torn \ C)
      PROVE  x \in DOMAIN events /\ events[x] = rows[x]
  <2>1. CASE x \in C  BY <1>1, <1>2, <1>3, <2>1
  <2>2. CASE x \notin C
    <3>1. x \in DOMAIN h.rows /\ rows[x] = h.rows[x]
      BY <1>1, <1>3, <2>2
    <3> QED BY <1>2, <1>4, <1>8, <2>2, <3>1
  <2> QED BY <2>1, <2>2
<1>9. Tells(whole)  BY <1>7, <1>8 DEF Tells
<1>10. ASSUME NEW x, which = {x}  PROVE Tells(RecordTorn(h, snapshot, x))
  <2> DEFINE torn == RecordTorn(h, snapshot, x)
  <2>1. torn = [h EXCEPT !.rows = rows, !.torn = h.torn \cup C]
    BY <1>5, <1>10 DEF RecordTorn, rows, C
  <2> HIDE DEF torn
  <2>2. /\ torn \in [rows : {torn.rows}, events : {torn.events}, torn : {torn.torn},
                     calls : {torn.calls}]
        /\ torn.rows = rows /\ torn.events = h.events /\ torn.torn = h.torn \cup C
    BY <1>5, <2>1
  <2>3. ASSUME NEW z \in DOMAIN rows \ (h.torn \cup C)
        PROVE  z \in DOMAIN h.events /\ h.events[z] = rows[z]
    <3>1. z \in DOMAIN h.rows /\ rows[z] = h.rows[z]  BY <1>1, <1>3, <2>3
    <3> QED BY <1>4, <2>3, <3>1
  <2>4. Tells(torn)  BY <2>2, <2>3 DEF Tells
  <2> QED BY <2>4 DEF torn
<1> QED BY <1>9, <1>10 DEF whole

LEMMA CallsTell ==
  ASSUME NEW h, Tells(h), NEW new, NEW g, g = [h EXCEPT !.calls = new]
  PROVE  Tells(g)
BY DEF Tells

\* The last event of a component tells what its row shows, whichever requests
\* write late and wherever the daemon dies (record_health_observation).
THEOREM EventsTell == HealthSpec => []EventsTellHealth
<1>1. HealthInit => Tells(health)
  <2> SUFFICES ASSUME HealthInit  PROVE Tells(health)
    OBVIOUS
  <2>1. health = [rows |-> NoSnapshot, events |-> NoSnapshot, torn |-> {},
                  calls |-> [c \in Callers |-> NoSnapshot]]
    BY DEF HealthInit
  <2>2. DOMAIN NoSnapshot = {}  BY DEF NoSnapshot
  <2> QED BY <2>1, <2>2 DEF Tells
<1>2. Tells(health) /\ [HealthNext]_allVars => Tells(health)'
  <2> SUFFICES ASSUME Tells(health), [HealthNext]_allVars  PROVE Tells(health')
    BY DEF Tells
  <2>1. CASE UNCHANGED health  BY <2>1
  <2>2. ASSUME NEW c \in Callers, HealthCollect(c)  PROVE Tells(health')
    <3>1. PICK new : health' = [health EXCEPT !.calls = new]
      <4>1. PICK sample \in Samples :
               health' = [health EXCEPT !.calls[c] = current_health_catalogue(c, sample)]
        BY <2>2 DEF HealthCollect
      <4> QED BY <4>1
    <3> QED BY <3>1, CallsTell
  <2>3. ASSUME NEW c \in Callers, HealthRecord(c)  PROVE Tells(health')
    <3>1. PICK snapshot : snapshot = health.calls[c]  OBVIOUS
    <3>2. PICK h : h = record_health_observation(health, snapshot, DOMAIN snapshot)  OBVIOUS
    <3>3. Tells(h)  BY <3>2, RecordTells
    <3>4. health' = [h EXCEPT !.calls[c] = NoSnapshot]
      BY <2>3, <3>1, <3>2 DEF HealthRecord
    <3>5. PICK new : health' = [h EXCEPT !.calls = new]  BY <3>4
    <3> QED BY <3>3, <3>5, CallsTell
  <2>4. ASSUME NEW c \in Callers, HealthRestart(c)  PROVE Tells(health')
    <3>1. PICK snapshot : snapshot = health.calls[c]  OBVIOUS
    <3>2. PICK new : new = [d \in Callers |-> NoSnapshot]  OBVIOUS
    <3>3. \/ health' = [health EXCEPT !.calls = new]
          \/ \E last \in DOMAIN snapshot : \E done \in {{}, DOMAIN snapshot \ {last}} :
                health' = [RecordTorn(record_health_observation(health, snapshot, done),
                                      snapshot, last) EXCEPT !.calls = new]
      BY <2>4, <3>1, <3>2 DEF HealthRestart
    <3>4. CASE health' = [health EXCEPT !.calls = new]  BY <3>4, CallsTell
    <3>5. ASSUME NEW last, NEW done,
                 health' = [RecordTorn(record_health_observation(health, snapshot, done),
                                       snapshot, last) EXCEPT !.calls = new]
          PROVE  Tells(health')
      <4>1. PICK h : h = record_health_observation(health, snapshot, done)  OBVIOUS
      <4>2. Tells(h)  BY <4>1, RecordTells
      <4>3. PICK g : g = RecordTorn(h, snapshot, last)  OBVIOUS
      <4>4. Tells(g)  BY <4>2, <4>3, RecordTells
      <4>5. health' = [g EXCEPT !.calls = new]  BY <3>5, <4>1, <4>3
      <4> QED BY <4>4, <4>5, CallsTell
    <3> QED BY <3>3, <3>4, <3>5
  <2>5. \/ UNCHANGED health
        \/ \E c \in Callers : HealthCollect(c) \/ HealthRecord(c) \/ HealthRestart(c)
    BY DEF HealthNext, allVars, healthVars, AuditFails, ServiceChange, Tick, SuperviseRestart,
           RecordOtherRecovery
  <2> QED BY <2>1, <2>2, <2>3, <2>4, <2>5
<1>3. Tells(health) => EventsTellHealth  BY DEF Tells, EventsTellHealth
<1> QED BY <1>1, <1>2, <1>3, PTL DEF HealthSpec

---------------------------------------------------------------------------
(***************************************************************************)
(* The restart budget.  A restart is in the history unless it is too old   *)
(* or as many attempts as the history holds were recorded after it.        *)
(***************************************************************************)
Kinds == {"restart", "reconcile"}
Attempts == [n : Nat, kind : Kinds, at : Nat]
Restarts == [n : Nat, at : Nat, stable : BOOLEAN]

HistoryOK(attempts, last, now) ==
    /\ attempts \subseteq Attempts /\ IsFiniteSet(attempts)
    /\ \A a \in attempts : a.n \in 1..last /\ a.at <= now
    /\ \A a, b \in attempts : a.n = b.n => a = b

\* The history has the attempt, or has dropped it for its age or its rank.
Remembered(a, attempts, last, now) ==
    \/ a \in attempts
    \/ a.at < now - RECOVERY_HISTORY_MAX_AGE
    \/ last - a.n >= MAX_RECOVERY_ATTEMPTS_PER_COMPONENT

RestartOf(r) == Attempt(r.n, "restart", r.at)

RestartsOK(restarts, attempts, last, now) ==
    /\ \A k \in DOMAIN restarts :
          /\ restarts[k].n \in 1..last /\ restarts[k].at <= now
          /\ Remembered(RestartOf(restarts[k]), attempts, last, now)
    /\ \A i, j \in DOMAIN restarts :
          i < j => restarts[i].n < restarts[j].n /\ restarts[i].at <= restarts[j].at

BudgetOf(restarts) ==
    \A i \in 1..(Len(restarts) - MAX_RESTART_ATTEMPTS) :
        /\ restarts[i + MAX_RESTART_ATTEMPTS].at - restarts[i].at <= RESTART_WINDOW
        /\ restarts[i + MAX_RESTART_ATTEMPTS].n - restarts[i].n <= MAX_RECOVERY_ATTEMPTS_PER_COMPONENT
        => \E k \in (i + 1)..(i + MAX_RESTART_ATTEMPTS) : restarts[k].stable

RecoveryOK(r) ==
    /\ r \in [attempts : SUBSET Attempts, last : Nat, now : Nat,
              healthy_since : {r.healthy_since}, restarts : Seq(Restarts)]
    /\ HistoryOK(r.attempts, r.last, r.now)
    /\ RestartsOK(r.restarts, r.attempts, r.last, r.now)
    /\ BudgetOf(r.restarts)

RecoveryInv == RecoveryOK(recovery)

\* One more attempt: what was remembered still is, and the new one is there.
LEMMA AttemptRecorded ==
  ASSUME NEW attempts, NEW last \in Nat, NEW now \in Nat, HistoryOK(attempts, last, now),
         NEW kind \in Kinds
  PROVE  LET a == Attempt(last + 1, kind, now)
             new == record_recovery_attempt(attempts, a)
         IN /\ HistoryOK(new, last + 1, now)
            /\ Remembered(a, new, last + 1, now)
            /\ \A b \in Attempts : b.n \in 1..last /\ Remembered(b, attempts, last, now) =>
                  Remembered(b, new, last + 1, now)
<1> DEFINE a == Attempt(last + 1, kind, now)
           young == YoungFor(attempts, a)
           Later(b) == {c \in young : c.n > b.n}
           new == {b \in young : Cardinality(Later(b)) < MAX_RECOVERY_ATTEMPTS_PER_COMPONENT}
<1>1. record_recovery_attempt(attempts, a) = new  BY DEF record_recovery_attempt
<1>2. a \in Attempts /\ a.n = last + 1 /\ a.at = now  BY DEF Attempt, Attempts
<1>3. /\ attempts \subseteq Attempts /\ IsFiniteSet(attempts)
      /\ \A b \in attempts : b.n \in 1..last /\ b.at <= now
      /\ \A b, c \in attempts : b.n = c.n => b = c
  BY DEF HistoryOK
<1>4. \A b : b \in young <=> (b \in attempts \/ b = a) /\ b.at >= now - RECOVERY_HISTORY_MAX_AGE
  BY <1>2 DEF YoungFor
<1>5. RECOVERY_HISTORY_MAX_AGE \in Nat /\ MAX_RECOVERY_ATTEMPTS_PER_COMPONENT \in Nat
  BY WindowFitsHistory, BudgetFitsHistory
<1> HIDE DEF a, young
<1>6. IsFiniteSet(young)
  <2>1. IsFiniteSet(attempts \cup {a})  BY <1>3, FS_AddElement
  <2>2. young \subseteq attempts \cup {a}  BY <1>4
  <2> QED BY <2>1, <2>2, FS_Subset
<1>7. /\ young \subseteq Attempts
      /\ \A b \in young : b.n \in 1..(last + 1) /\ b.at <= now
      /\ \A b, c \in young : b.n = c.n => b = c
  <2>1. \A b \in young : b \in Attempts  BY <1>2, <1>3, <1>4
  <2>2. \A b \in young : b.n \in 1..(last + 1) /\ b.at <= now  BY <1>2, <1>3, <1>4
  <2>3. \A b, c \in young : b.n = c.n => b = c  BY <1>2, <1>3, <1>4
  <2> QED BY <2>1, <2>2, <2>3
\* No more attempts are later than b than there are numbers after its own.
<1>8. ASSUME NEW b \in young  PROVE Cardinality(Later(b)) <= (last + 1) - b.n
  <2> DEFINE numbers == (b.n + 1)..(last + 1)
             f == [c \in Later(b) |-> c.n]
  <2>1. b.n \in 1..(last + 1)  BY <1>7
  <2>2. IsFiniteSet(numbers) /\ Cardinality(numbers) = (last + 1) - b.n
    <3>1. b.n \in Nat /\ b.n <= last + 1  BY <2>1
    <3>2. PICK m : m = b.n + 1  OBVIOUS
    <3>3. m \in Int /\ last + 1 \in Int  BY <3>1, <3>2
    <3>4. IsFiniteSet(m..(last + 1))
          /\ Cardinality(m..(last + 1)) = (IF m > last + 1 THEN 0 ELSE (last + 1) - m + 1)
      BY <3>3, FS_Interval
    <3>5. (IF m > last + 1 THEN 0 ELSE (last + 1) - m + 1) = (last + 1) - b.n
      BY <3>1, <3>2
    <3> QED BY <3>2, <3>4, <3>5
  <2>3. f \in [Later(b) -> numbers]  BY <1>7, <2>1
  <2>4. IsInjective(f)  BY <1>7 DEF IsInjective
  <2> HIDE DEF numbers, f
  <2>5. f \in Injection(Later(b), numbers)  BY <2>3, <2>4 DEF Injection
  <2>6. Cardinality(Later(b)) <= Cardinality(numbers)  BY <2>2, <2>5, FS_Injection
  <2> QED BY <2>2, <2>6
<1>9. \A b \in young : Cardinality(Later(b)) \in Nat
  <2> SUFFICES ASSUME NEW b \in young  PROVE Cardinality(Later(b)) \in Nat
    OBVIOUS
  <2>1. IsFiniteSet(Later(b))  BY <1>6, FS_Subset
  <2> QED BY <2>1, FS_CardinalityType
<1> HIDE DEF Later
<1>10. HistoryOK(new, last + 1, now)
  <2>1. IsFiniteSet(new)  BY <1>6, FS_Subset
  <2>2. new \subseteq Attempts  BY <1>7
  <2>3. \A b \in new : b.n \in 1..(last + 1) /\ b.at <= now  BY <1>7
  <2>4. \A b, c \in new : b.n = c.n => b = c  BY <1>7
  <2> HIDE DEF new
  <2> QED BY <2>1, <2>2, <2>3, <2>4 DEF HistoryOK
<1>11. ASSUME NEW b \in Attempts, b.n \in 1..(last + 1), b \in attempts \/ b = a
       PROVE  Remembered(b, new, last + 1, now)
  <2>1. CASE b \notin young
    <3>1. ~(b.at >= now - RECOVERY_HISTORY_MAX_AGE)  BY <1>4, <1>11, <2>1
    <3>2. b.at \in Nat  BY <1>11 DEF Attempts
    <3>3. b.at < now - RECOVERY_HISTORY_MAX_AGE  BY <1>5, <3>1, <3>2
    <3> QED BY <3>3 DEF Remembered
  <2>2. CASE b \in young /\ Cardinality(Later(b)) < MAX_RECOVERY_ATTEMPTS_PER_COMPONENT
    BY <2>2 DEF Remembered
  <2>3. CASE b \in young /\ ~(Cardinality(Later(b)) < MAX_RECOVERY_ATTEMPTS_PER_COMPONENT)
    <3>1. Cardinality(Later(b)) \in Nat /\ Cardinality(Later(b)) <= (last + 1) - b.n
      BY <1>8, <1>9, <2>3
    <3>2. (last + 1) - b.n >= MAX_RECOVERY_ATTEMPTS_PER_COMPONENT
      BY <1>5, <1>11, <2>3, <3>1
    <3> QED BY <3>2 DEF Remembered
  <2> QED BY <2>1, <2>2, <2>3
<1> HIDE DEF new
<1>12. Remembered(a, new, last + 1, now)  BY <1>2, <1>11
<1>13. ASSUME NEW b \in Attempts, b.n \in 1..last, Remembered(b, attempts, last, now)
       PROVE  Remembered(b, new, last + 1, now)
  <2>1. CASE b \in attempts
    <3>1. b.n \in 1..(last + 1)  BY <1>13
    <3> QED BY <1>11, <2>1, <3>1
  <2>2. CASE b.at < now - RECOVERY_HISTORY_MAX_AGE  BY <2>2 DEF Remembered
  <2>3. CASE last - b.n >= MAX_RECOVERY_ATTEMPTS_PER_COMPONENT
    <3>1. (last + 1) - b.n >= MAX_RECOVERY_ATTEMPTS_PER_COMPONENT  BY <1>5, <1>13, <2>3
    <3> QED BY <3>1 DEF Remembered
  <2> QED BY <1>13, <2>1, <2>2, <2>3 DEF Remembered
<1> QED BY <1>1, <1>10, <1>12, <1>13 DEF a, new

\* When the budget allows one more restart without a stable period, fewer than
\* MAX_RESTART_ATTEMPTS of those in the window are remembered.
LEMMA BudgetUsed ==
  ASSUME RecoveryInv, NEW i \in 1..Len(recovery.restarts),
         i = (Len(recovery.restarts) + 1) - MAX_RESTART_ATTEMPTS,
         recovery.now - recovery.restarts[i].at <= RESTART_WINDOW,
         (recovery.last + 1) - recovery.restarts[i].n <= MAX_RECOVERY_ATTEMPTS_PER_COMPONENT,
         ~stable(recovery.now, recovery.healthy_since)
  PROVE  evaluate_restart_budget(
             recovery.now,
             restart_attempt_times_since(recovery.attempts, recovery.now - RESTART_WINDOW),
             recovery.healthy_since) = 0
<1> DEFINE restarts == recovery.restarts
           len == Len(restarts)
           now == recovery.now
           since == restart_attempt_times_since(recovery.attempts, now - RESTART_WINDOW)
           used == {a \in since : now - RESTART_WINDOW <= a.at /\ a.at <= now}
           f == [k \in i..len |-> RestartOf(restarts[k])]
<1>1. /\ restarts \in Seq(Restarts) /\ len \in Nat /\ now \in Nat /\ recovery.last \in Nat
      /\ recovery.attempts \subseteq Attempts /\ IsFiniteSet(recovery.attempts)
      /\ RestartsOK(restarts, recovery.attempts, recovery.last, now)
  BY DEF RecoveryInv, RecoveryOK, HistoryOK
<1>2. /\ MAX_RESTART_ATTEMPTS \in Nat \ {0} /\ MAX_RECOVERY_ATTEMPTS_PER_COMPONENT \in Nat
      /\ RESTART_WINDOW \in Nat /\ RECOVERY_HISTORY_MAX_AGE \in Nat
      /\ RESTART_WINDOW < RECOVERY_HISTORY_MAX_AGE
  BY WindowFitsHistory, BudgetFitsHistory
<1>3. \A k \in 1..len : /\ restarts[k] \in Restarts /\ restarts[k].n \in 1..recovery.last
                        /\ restarts[k].at <= now
                        /\ Remembered(RestartOf(restarts[k]), recovery.attempts, recovery.last, now)
  BY <1>1 DEF RestartsOK
<1>4. \A k, l \in 1..len : k < l => restarts[k].n < restarts[l].n /\ restarts[k].at <= restarts[l].at
  BY <1>1 DEF RestartsOK
<1> HIDE DEF restarts, len, now
<1>5. i \in 1..len /\ i = (len + 1) - MAX_RESTART_ATTEMPTS
      /\ now - restarts[i].at <= RESTART_WINDOW
      /\ (recovery.last + 1) - restarts[i].n <= MAX_RECOVERY_ATTEMPTS_PER_COMPONENT
  BY DEF restarts, len, now
<1>6. ASSUME NEW k \in i..len  PROVE RestartOf(restarts[k]) \in used
  <2>1. k \in 1..len  BY <1>1, <1>5
  <2>2. restarts[i] \in Restarts /\ restarts[k] \in Restarts  BY <1>3, <1>5, <2>1
  <2>3. k = i \/ i < k  BY <1>1, <1>5
  <2>4. restarts[i].at <= restarts[k].at /\ restarts[i].n <= restarts[k].n
    BY <1>4, <1>5, <2>1, <2>2, <2>3 DEF Restarts
  <2>5. PICK a : a = RestartOf(restarts[k])  OBVIOUS
  <2>6. a.n = restarts[k].n /\ a.at = restarts[k].at /\ a.kind = "restart"
    BY <2>5 DEF RestartOf, Attempt
  <2>7. a.at \in Nat /\ a.n \in Nat /\ restarts[i].at \in Nat /\ restarts[i].n \in Nat
    BY <2>2, <2>6 DEF Restarts
  <2>8. now - RESTART_WINDOW <= a.at /\ a.at <= now
    <3>1. now \in Nat /\ RESTART_WINDOW \in Nat  BY <1>1, <1>2
    <3>2. now - restarts[i].at <= RESTART_WINDOW  BY <1>5
    <3>3. restarts[i].at <= a.at  BY <2>4, <2>6
    <3>4. a.at <= now  BY <1>3, <2>1, <2>6
    <3>5. PICK x : x = restarts[i].at  OBVIOUS
    <3>6. PICK y : y = a.at  OBVIOUS
    <3>7. x \in Nat /\ y \in Nat  BY <2>7, <3>5, <3>6
    <3>8. now - RESTART_WINDOW <= y  BY <3>1, <3>2, <3>3, <3>5, <3>6, <3>7
    <3> QED BY <3>4, <3>6, <3>8
  <2>9. ~(a.at < now - RECOVERY_HISTORY_MAX_AGE)
    BY <1>1, <1>2, <2>7, <2>8
  <2>10. ~(recovery.last - a.n >= MAX_RECOVERY_ATTEMPTS_PER_COMPONENT)
    <3>1. recovery.last \in Nat /\ MAX_RECOVERY_ATTEMPTS_PER_COMPONENT \in Nat  BY <1>1, <1>2
    <3>2. PICK l : l = recovery.last  OBVIOUS
    <3>3. PICK x : x = restarts[i].n  OBVIOUS
    <3>4. PICK y : y = a.n  OBVIOUS
    <3>5. l \in Nat /\ x \in Nat /\ y \in Nat  BY <2>7, <3>1, <3>2, <3>3, <3>4
    <3>6. x <= y  BY <2>4, <2>6, <3>3, <3>4
    <3>7. (l + 1) - x <= MAX_RECOVERY_ATTEMPTS_PER_COMPONENT  BY <1>5, <3>2, <3>3
    <3>8. ~(l - y >= MAX_RECOVERY_ATTEMPTS_PER_COMPONENT)  BY <3>1, <3>5, <3>6, <3>7
    <3> QED BY <3>2, <3>4, <3>8
  <2>11. a \in recovery.attempts  BY <1>3, <2>1, <2>5, <2>9, <2>10 DEF Remembered
  <2>12. a \in since  BY <2>6, <2>7, <2>8, <2>11, <1>1, <1>2 DEF restart_attempt_times_since
  <2> HIDE DEF since
  <2> QED BY <2>5, <2>8, <2>12
<1>7. IsFiniteSet(used)
  <2>1. used \subseteq recovery.attempts  BY DEF restart_attempt_times_since
  <2> QED BY <1>1, <2>1, FS_Subset
<1> HIDE DEF used
<1>8. f \in Injection(i..len, used)
  <2>1. f \in [i..len -> used]  BY <1>6
  <2>2. ASSUME NEW k \in i..len, NEW l \in i..len, f[k] = f[l]  PROVE k = l
    <3>1. k \in 1..len /\ l \in 1..len  BY <1>1, <1>5
    <3>2. restarts[k].n = restarts[l].n  BY <2>2 DEF RestartOf, Attempt
    <3>3. restarts[k].n \in Nat /\ restarts[l].n \in Nat  BY <1>3, <3>1 DEF Restarts
    <3>4. ~(k < l) /\ ~(l < k)  BY <1>4, <3>1, <3>2, <3>3
    <3> QED BY <3>1, <3>4
  <2> HIDE DEF f
  <2>3. DOMAIN f = i..len  BY <2>1
  <2> QED BY <2>1, <2>2, <2>3 DEF Injection, IsInjective
<1>9. IsFiniteSet(i..len) /\ Cardinality(i..len) = MAX_RESTART_ATTEMPTS
  <2>1. i \in Int /\ len \in Int /\ ~(i > len)  BY <1>1, <1>5
  <2>2. len - i + 1 = MAX_RESTART_ATTEMPTS
    <3>1. PICK max \in Nat : max = MAX_RESTART_ATTEMPTS  BY <1>2
    <3>2. len \in Nat /\ i = (len + 1) - max  BY <1>1, <1>5, <3>1
    <3>3. len - i + 1 = max  BY <3>2
    <3> QED BY <3>1, <3>3
  <2> QED BY <2>1, <2>2, FS_Interval
<1>10. Cardinality(used) \in Nat /\ Cardinality(used) >= MAX_RESTART_ATTEMPTS
  <2>1. Cardinality(i..len) <= Cardinality(used)  BY <1>7, <1>8, FS_Injection
  <2>2. Cardinality(used) \in Nat  BY <1>7, FS_CardinalityType
  <2> QED BY <1>2, <1>9, <2>1, <2>2
<1>11. evaluate_restart_budget(now, since, recovery.healthy_since) = 0
  BY <1>10 DEF evaluate_restart_budget, used, now
<1> QED BY <1>11 DEF now

\* Time passes: what was remembered is remembered, or has become too old.
LEMMA TickOK ==
  ASSUME NEW r, RecoveryOK(r), NEW q, q = [r EXCEPT !.now = @ + 1]
  PROVE  RecoveryOK(q)
<1>1. r \in [attempts : SUBSET Attempts, last : Nat, now : Nat,
             healthy_since : {r.healthy_since}, restarts : Seq(Restarts)]
  BY DEF RecoveryOK
<1>2. /\ q.attempts = r.attempts /\ q.last = r.last /\ q.now = r.now + 1
      /\ q.healthy_since = r.healthy_since /\ q.restarts = r.restarts
      /\ q \in [attempts : SUBSET Attempts, last : Nat, now : Nat,
                healthy_since : {r.healthy_since}, restarts : Seq(Restarts)]
  BY <1>1
<1>3. /\ HistoryOK(r.attempts, r.last, r.now) /\ BudgetOf(r.restarts)
      /\ RestartsOK(r.restarts, r.attempts, r.last, r.now)
  BY DEF RecoveryOK
<1>4. PICK now \in Nat, last \in Nat, attempts \in SUBSET Attempts :
         now = r.now /\ last = r.last /\ attempts = r.attempts
  BY <1>1
<1>5. PICK restarts \in Seq(Restarts) : restarts = r.restarts  BY <1>1
<1>6. \A n \in Nat : n <= now => n <= now + 1  OBVIOUS
<1>7. HistoryOK(attempts, last, now + 1)
  <2>1. HistoryOK(attempts, last, now)  BY <1>3, <1>4
  <2>2. \A a \in attempts : a.at \in Nat  BY DEF Attempts
  <2> QED BY <1>6, <2>1, <2>2 DEF HistoryOK
<1>8. RestartsOK(restarts, attempts, last, now + 1)
  <2>1. RestartsOK(restarts, attempts, last, now)  BY <1>3, <1>4, <1>5
  <2>2. ASSUME NEW k \in DOMAIN restarts
        PROVE  /\ restarts[k].at <= now + 1
               /\ Remembered(RestartOf(restarts[k]), attempts, last, now + 1)
    <3>1. restarts[k] \in Restarts  OBVIOUS
    <3>2. restarts[k].at \in Nat  BY <3>1 DEF Restarts
    <3>3. restarts[k].at <= now + 1  BY <1>6, <2>1, <3>2 DEF RestartsOK
    <3>4. PICK a : a = RestartOf(restarts[k])  OBVIOUS
    <3>5. a.at \in Nat  BY <3>2, <3>4 DEF RestartOf, Attempt
    <3>6. Remembered(a, attempts, last, now)  BY <2>1, <3>4 DEF RestartsOK
    <3>7. a.at < now - RECOVERY_HISTORY_MAX_AGE => a.at < (now + 1) - RECOVERY_HISTORY_MAX_AGE
      BY <3>5, WindowFitsHistory
    <3>8. Remembered(a, attempts, last, now + 1)  BY <3>6, <3>7 DEF Remembered
    <3> QED BY <3>3, <3>4, <3>8
  <2> QED BY <2>1, <2>2 DEF RestartsOK
<1>9. /\ HistoryOK(q.attempts, q.last, q.now) /\ BudgetOf(q.restarts)
      /\ RestartsOK(q.restarts, q.attempts, q.last, q.now)
  BY <1>2, <1>3, <1>4, <1>5, <1>7, <1>8
<1> QED BY <1>2, <1>9 DEF RecoveryOK

LEMMA ServiceOK ==
  ASSUME NEW r, RecoveryOK(r), NEW since, NEW q, q = [r EXCEPT !.healthy_since = since]
  PROVE  RecoveryOK(q)
<1>1. r \in [attempts : SUBSET Attempts, last : Nat, now : Nat,
             healthy_since : {r.healthy_since}, restarts : Seq(Restarts)]
  BY DEF RecoveryOK
<1>2. /\ q.attempts = r.attempts /\ q.last = r.last /\ q.now = r.now
      /\ q.healthy_since = since /\ q.restarts = r.restarts
      /\ q \in [attempts : SUBSET Attempts, last : Nat, now : Nat,
                healthy_since : {since}, restarts : Seq(Restarts)]
  BY <1>1
<1> QED BY <1>2 DEF RecoveryOK

\* An attempt is recorded; the restarts stay remembered.
LEMMA AttemptOK ==
  ASSUME NEW r, RecoveryOK(r), NEW kind \in Kinds, NEW q,
         q = [r EXCEPT !.last = @ + 1,
                       !.attempts = record_recovery_attempt(@, Attempt(r.last + 1, kind, r.now))]
  PROVE  /\ RecoveryOK(q)
         /\ Remembered(Attempt(r.last + 1, kind, r.now), q.attempts, r.last + 1, r.now)
         /\ q.last = r.last + 1 /\ q.now = r.now /\ q.restarts = r.restarts
<1>1. r \in [attempts : SUBSET Attempts, last : Nat, now : Nat,
             healthy_since : {r.healthy_since}, restarts : Seq(Restarts)]
  BY DEF RecoveryOK
<1>2. PICK now \in Nat, last \in Nat, attempts \in SUBSET Attempts :
         now = r.now /\ last = r.last /\ attempts = r.attempts
  BY <1>1
<1>3. PICK restarts \in Seq(Restarts) : restarts = r.restarts  BY <1>1
<1>4. PICK new : new = record_recovery_attempt(attempts, Attempt(last + 1, kind, now))  OBVIOUS
<1>5. /\ HistoryOK(attempts, last, now) /\ BudgetOf(restarts)
      /\ RestartsOK(restarts, attempts, last, now)
  BY <1>2, <1>3 DEF RecoveryOK
<1>6. /\ HistoryOK(new, last + 1, now)
      /\ Remembered(Attempt(last + 1, kind, now), new, last + 1, now)
      /\ \A b \in Attempts : b.n \in 1..last /\ Remembered(b, attempts, last, now) =>
            Remembered(b, new, last + 1, now)
  BY <1>4, <1>5, AttemptRecorded
<1>7. q = [r EXCEPT !.last = @ + 1, !.attempts = new]  BY <1>2, <1>4
<1>8. new \subseteq Attempts  BY <1>6 DEF HistoryOK
<1>9. /\ q.attempts = new /\ q.last = last + 1 /\ q.now = now /\ q.restarts = restarts
      /\ q \in [attempts : SUBSET Attempts, last : Nat, now : Nat,
                healthy_since : {q.healthy_since}, restarts : Seq(Restarts)]
  <2>1. last + 1 \in Nat /\ r.last + 1 = last + 1  BY <1>2
  <2>2. q.attempts = new /\ q.last = last + 1 /\ q.now = now /\ q.restarts = restarts
    BY <1>1, <1>2, <1>3, <1>7, <2>1
  <2>3. q.healthy_since = r.healthy_since  BY <1>1, <1>7
  <2>4. q \in [attempts : SUBSET Attempts, last : Nat, now : Nat,
               healthy_since : {r.healthy_since}, restarts : Seq(Restarts)]
    BY <1>1, <1>2, <1>7, <1>8, <2>1
  <2> QED BY <2>2, <2>3, <2>4
<1>10. RestartsOK(restarts, new, last + 1, now)
  <2>1. ASSUME NEW k \in DOMAIN restarts
        PROVE  /\ restarts[k].n \in 1..(last + 1)
               /\ Remembered(RestartOf(restarts[k]), new, last + 1, now)
    <3>1. restarts[k] \in Restarts  OBVIOUS
    <3>2. restarts[k].n \in 1..last  BY <1>5 DEF RestartsOK
    <3>3. PICK a : a = RestartOf(restarts[k])  OBVIOUS
    <3>4. a \in Attempts /\ a.n = restarts[k].n
      BY <3>1, <3>3 DEF RestartOf, Attempt, Attempts, Restarts, Kinds
    <3>5. Remembered(a, attempts, last, now)  BY <1>5, <3>3 DEF RestartsOK
    <3>6. Remembered(a, new, last + 1, now)  BY <1>6, <3>2, <3>4, <3>5
    <3> QED BY <3>2, <3>3, <3>6
  <2> QED BY <1>5, <2>1 DEF RestartsOK
<1>11. RecoveryOK(q)  BY <1>5, <1>6, <1>9, <1>10 DEF RecoveryOK
<1> QED BY <1>2, <1>3, <1>6, <1>9, <1>11

\* The supervisor restarts the service within its budget.
LEMMA RestartOK ==
  ASSUME RecoveryInv,
         evaluate_restart_budget(
            recovery.now,
            restart_attempt_times_since(recovery.attempts, recovery.now - RESTART_WINDOW),
            recovery.healthy_since) # 0,
         NEW q,
         q = [Recorded("restart") EXCEPT
                !.restarts = Append(@, [n |-> recovery.last + 1, at |-> recovery.now,
                                        stable |-> stable(recovery.now, recovery.healthy_since)]),
                !.healthy_since = NotHealthy]
  PROVE  RecoveryOK(q)
<1>1. RecoveryOK(recovery) /\ "restart" \in Kinds  BY DEF RecoveryInv, Kinds
<1>2. PICK r : r = Recorded("restart")  OBVIOUS
<1>3. PICK last \in Nat, now \in Nat : last = recovery.last /\ now = recovery.now
  BY <1>1 DEF RecoveryOK
<1>4. PICK restarts \in Seq(Restarts) : restarts = recovery.restarts  BY <1>1 DEF RecoveryOK
<1>5. /\ RecoveryOK(r) /\ r.last = last + 1 /\ r.now = now /\ r.restarts = restarts
      /\ Remembered(Attempt(last + 1, "restart", now), r.attempts, last + 1, now)
  BY <1>1, <1>2, <1>3, <1>4, AttemptOK DEF Recorded
<1>6. PICK x : x = [n |-> last + 1, at |-> now, stable |-> stable(now, recovery.healthy_since)]
  OBVIOUS
<1>7. q = [r EXCEPT !.restarts = Append(@, x), !.healthy_since = NotHealthy]
  BY <1>2, <1>3, <1>6
<1>8. x \in Restarts /\ x.n = last + 1 /\ x.at = now
      /\ x.stable = stable(now, recovery.healthy_since)
  BY <1>6 DEF Restarts, stable
<1>9. PICK new : new = Append(restarts, x)  OBVIOUS
<1>10. PICK len \in Nat : len = Len(restarts)  OBVIOUS
<1>11. /\ new \in Seq(Restarts) /\ Len(new) = len + 1 /\ new[len + 1] = x
       /\ \A k \in 1..len : new[k] = restarts[k]
       /\ DOMAIN new = 1..(len + 1) /\ DOMAIN restarts = 1..len
  <2>1. x \in Restarts /\ restarts \in Seq(Restarts)  BY <1>8
  <2>2. new \in Seq(Restarts) /\ Len(new) = Len(restarts) + 1  BY <1>9, <2>1
  <2>3. new[Len(restarts) + 1] = x  BY <1>9, <2>1
  <2>4. \A k \in 1..Len(restarts) : new[k] = restarts[k]  BY <1>9, <2>1
  <2>5. DOMAIN new = 1..Len(new) /\ DOMAIN restarts = 1..Len(restarts)  BY <2>1, <2>2
  <2> QED BY <1>10, <2>2, <2>3, <2>4, <2>5
<1>12. r \in [attempts : SUBSET Attempts, last : Nat, now : Nat,
              healthy_since : {r.healthy_since}, restarts : Seq(Restarts)]
  BY <1>5 DEF RecoveryOK
<1>13. /\ q.attempts = r.attempts /\ q.last = last + 1 /\ q.now = now /\ q.restarts = new
       /\ q \in [attempts : SUBSET Attempts, last : Nat, now : Nat,
                 healthy_since : {q.healthy_since}, restarts : Seq(Restarts)]
  BY <1>5, <1>7, <1>9, <1>11, <1>12
<1>14. /\ RestartsOK(restarts, r.attempts, last + 1, now) /\ BudgetOf(restarts)
       /\ HistoryOK(r.attempts, last + 1, now)
       /\ RestartsOK(restarts, recovery.attempts, last, now)
  BY <1>1, <1>3, <1>4, <1>5 DEF RecoveryOK
<1>15. RestartsOK(new, r.attempts, last + 1, now)
  <2>1. ASSUME NEW k \in DOMAIN new
        PROVE  /\ new[k].n \in 1..(last + 1) /\ new[k].at <= now
               /\ Remembered(RestartOf(new[k]), r.attempts, last + 1, now)
    <3>1. CASE k \in 1..len  BY <1>11, <1>14, <3>1 DEF RestartsOK
    <3>2. CASE k = len + 1
      <4>1. RestartOf(new[k]) = Attempt(last + 1, "restart", now)
        BY <1>8, <1>11, <3>2 DEF RestartOf
      <4> QED BY <1>5, <1>8, <1>11, <3>2, <4>1
    <3> QED BY <1>11, <3>1, <3>2
  <2>2. ASSUME NEW i \in DOMAIN new, NEW j \in DOMAIN new, i < j
        PROVE  new[i].n < new[j].n /\ new[i].at <= new[j].at
    <3>1. i \in 1..len  BY <1>11, <2>2
    <3>2. CASE j \in 1..len  BY <1>11, <1>14, <2>2, <3>1, <3>2 DEF RestartsOK
    <3>3. CASE j = len + 1
      <4>1. restarts[i].n \in 1..last /\ restarts[i].at <= now
        BY <1>11, <1>14, <3>1 DEF RestartsOK
      <4>2. restarts[i].n < last + 1  BY <4>1
      <4> QED BY <1>8, <1>11, <3>1, <3>3, <4>1, <4>2
    <3> QED BY <1>11, <3>2, <3>3
  <2> QED BY <2>1, <2>2 DEF RestartsOK
<1>16. BudgetOf(new)
  <2>0. MAX_RESTART_ATTEMPTS \in Nat \ {0}  BY BudgetFitsHistory
  <2> SUFFICES ASSUME NEW i \in 1..(Len(new) - MAX_RESTART_ATTEMPTS),
                      new[i + MAX_RESTART_ATTEMPTS].at - new[i].at <= RESTART_WINDOW,
                      new[i + MAX_RESTART_ATTEMPTS].n - new[i].n
                        <= MAX_RECOVERY_ATTEMPTS_PER_COMPONENT
               PROVE  \E k \in (i + 1)..(i + MAX_RESTART_ATTEMPTS) : new[k].stable
    BY DEF BudgetOf
  <2>1. PICK j \in Nat : j = i + MAX_RESTART_ATTEMPTS  BY <2>0
  <2>2. i \in 1..len /\ j \in 1..(len + 1) /\ i + 1 <= j  BY <1>11, <2>0, <2>1
  <2>3. CASE j \in 1..len
    <3>1. i \in 1..(Len(restarts) - MAX_RESTART_ATTEMPTS)  BY <1>10, <2>0, <2>1, <2>2, <2>3
    <3>2. new[j] = restarts[j] /\ new[i] = restarts[i]  BY <1>11, <2>2, <2>3
    <3>3. PICK k \in (i + 1)..j : restarts[k].stable
      BY <1>14, <2>1, <3>1, <3>2 DEF BudgetOf
    <3>4. k \in 1..len  BY <2>2, <2>3
    <3>5. new[k].stable  BY <1>11, <3>3, <3>4
    <3> QED BY <2>1, <3>5
  <2>4. CASE j = len + 1
    <3>1. new[j] = x /\ new[i] = restarts[i]  BY <1>11, <2>2, <2>4
    <3>2. now - restarts[i].at <= RESTART_WINDOW
          /\ (last + 1) - restarts[i].n <= MAX_RECOVERY_ATTEMPTS_PER_COMPONENT
      BY <1>8, <2>1, <3>1
    <3>3. i = (len + 1) - MAX_RESTART_ATTEMPTS  BY <2>0, <2>1, <2>2, <2>4
    <3>4. stable(now, recovery.healthy_since)
      <4> SUFFICES ASSUME ~stable(now, recovery.healthy_since)  PROVE FALSE
        OBVIOUS
      <4>1. /\ i \in 1..Len(recovery.restarts)
            /\ i = (Len(recovery.restarts) + 1) - MAX_RESTART_ATTEMPTS
        BY <1>4, <1>10, <2>2, <3>3
      <4>2. /\ recovery.now - recovery.restarts[i].at <= RESTART_WINDOW
            /\ (recovery.last + 1) - recovery.restarts[i].n
                 <= MAX_RECOVERY_ATTEMPTS_PER_COMPONENT
        BY <1>3, <1>4, <3>2
      <4>3. ~stable(recovery.now, recovery.healthy_since)  BY <1>3
      <4> QED BY <4>1, <4>2, <4>3, BudgetUsed
    <3>5. new[j].stable  BY <1>8, <3>1, <3>4
    <3>6. j \in (i + 1)..j  BY <2>2
    <3> QED BY <2>1, <3>5, <3>6
  <2>5. j \in 1..len \/ j = len + 1  BY <2>2
  <2> QED BY <2>3, <2>4, <2>5
<1>17. /\ HistoryOK(q.attempts, q.last, q.now) /\ BudgetOf(q.restarts)
       /\ RestartsOK(q.restarts, q.attempts, q.last, q.now)
  BY <1>13, <1>14, <1>15, <1>16
<1> QED BY <1>13, <1>17 DEF RecoveryOK

\* The restarts of a service stay within the budget, whatever else is recorded
\* and pruned (SuperviseRestart, record_recovery_attempt).
THEOREM RestartBudget == HealthSpec => []RestartBudgetHolds
<1>1. HealthInit => RecoveryInv
  <2> SUFFICES ASSUME HealthInit  PROVE RecoveryOK(recovery)
    BY DEF RecoveryInv
  <2>1. recovery = [attempts |-> {}, last |-> 0, now |-> 0, healthy_since |-> 0, restarts |-> <<>>]
    BY DEF HealthInit
  <2>2. HistoryOK({}, 0, 0)  BY FS_EmptySet DEF HistoryOK
  <2>3. RestartsOK(<<>>, {}, 0, 0)  BY DEF RestartsOK
  <2>4. BudgetOf(<<>>)
    <3>1. 1..(Len(<<>>) - MAX_RESTART_ATTEMPTS) = {}  BY BudgetFitsHistory
    <3> QED BY <3>1 DEF BudgetOf
  <2> QED BY <2>1, <2>2, <2>3, <2>4 DEF RecoveryOK
<1>2. RecoveryInv /\ [HealthNext]_allVars => RecoveryInv'
  <2> SUFFICES ASSUME RecoveryInv, [HealthNext]_allVars  PROVE RecoveryOK(recovery')
    BY DEF RecoveryInv, RecoveryOK
  <2>1. CASE UNCHANGED recovery  BY <2>1 DEF RecoveryInv
  <2>2. CASE ServiceChange
    <3>1. PICK since : recovery' = [recovery EXCEPT !.healthy_since = since]
      BY <2>2 DEF ServiceChange
    <3> QED BY <3>1, ServiceOK DEF RecoveryInv
  <2>3. CASE Tick  BY <2>3, TickOK DEF Tick, RecoveryInv
  <2>4. CASE SuperviseRestart  BY <2>4, RestartOK DEF SuperviseRestart
  <2>5. CASE RecordOtherRecovery
    <3>1. "reconcile" \in Kinds  BY DEF Kinds
    <3>2. recovery' = Recorded("reconcile")  BY <2>5 DEF RecordOtherRecovery
    <3> QED BY <3>1, <3>2, AttemptOK DEF RecoveryInv, Recorded
  <2>6. \/ UNCHANGED recovery
        \/ ServiceChange \/ Tick \/ SuperviseRestart \/ RecordOtherRecovery
    BY DEF HealthNext, allVars, healthVars, AuditFails, HealthCollect, HealthRecord, HealthRestart
  <2> QED BY <2>1, <2>2, <2>3, <2>4, <2>5, <2>6
<1>3. RecoveryInv => RestartBudgetHolds
  BY DEF RecoveryInv, RecoveryOK, BudgetOf, RestartBudgetHolds
<1> QED BY <1>1, <1>2, <1>3, PTL DEF HealthSpec

\* The records of health hold under late writers, crashes and pruning.
THEOREM HealthRecords == HealthSpec => []HealthRecordsHold
<1>1. EventsTellHealth /\ RestartBudgetHolds => HealthRecordsHold  BY DEF HealthRecordsHold
<1> QED BY <1>1, EventsTell, RestartBudget, PTL
=============================================================================
