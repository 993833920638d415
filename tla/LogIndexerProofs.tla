-------------------------- MODULE LogIndexerProofs --------------------------
(***************************************************************************)
(* The indexer passes over no event, as long as at most one block is mined *)
(* between the two queries of an execution.  NoEventSkipped is not         *)
(* inductive: an execution moves the saved block by what it read before    *)
(* its awaits.  The invariant says, for each phase of an execution, which  *)
(* blocks are in the store by then, and which come with it.                *)
(*                                                                         *)
(* Executions that do not overlap publish no event twice: OnceInv adds     *)
(* that what is still to be read or published is known to no relayer.      *)
(***************************************************************************)
EXTENDS LogIndexer, WellFoundedInduction, TLAPS

\* The chain only grows, and an event names the block it is in.
History ==
  /\ head \in Blocks /\ logs \in [Blocks -> SUBSET Events]
  /\ \A b \in Blocks : (b > head => logs[b] = {}) /\ \A e \in logs[b] : e.block = b

\* A block that was not there when the events were asked for is the last one asked
\* for, if it is there when its existence is.
Timely == MaxAdvance <= 1

\* The blocks from the first to the saved one are stored, and only blocks are.
Store ==
  /\ initialized \in BOOLEAN /\ setup \subseteq 1..head
  /\ start \in Nat /\ saved \in Nat
  /\ ~ initialized => start = 0 /\ saved = 0
  /\ initialized => 1 <= start /\ start <= head /\ start <= saved /\ saved <= head + 1
  /\ \A e \in stored : e \in Events /\ e.block <= head /\ e \in logs[e.block]
  /\ initialized /\ Timely => \A b \in Blocks : start <= b /\ b < saved => logs[b] \subseteq stored

\* The range an execution asks for starts where the store ends.
Asked(k) ==
  /\ start <= k.from /\ k.from <= k.to /\ k.from <= head + 1
  /\ Timely => \A b \in Blocks : start <= b /\ b < k.from => logs[b] \subseteq stored

\* What the node had of it, a block with all its events or none, with what was
\* stored, leaves no gap.
Logged(k) ==
  /\ start <= k.to /\ k.seenAt <= head /\ head <= k.seenAt + MaxAdvance
  /\ \A e \in k.found : start <= e.block /\ e.block <= k.seenAt /\ e \in logs[e.block]
  /\ Timely => \A b \in Blocks : start <= b /\ b <= k.to /\ b <= k.seenAt
                                   => logs[b] \subseteq stored \cup k.found
  /\ \A e \in k.found : e.block <= k.to /\ logs[e.block] \subseteq k.found

Probing(k) ==
  /\ start <= k.to /\ k.seenAt <= head /\ head <= k.seenAt + MaxAdvance
  /\ Timely => \A b \in Blocks : start <= b /\ b <= k.to /\ b <= k.seenAt => logs[b] \subseteq stored

\* The last block of the range may be new, those before it are not.
ProbedRange(k) ==
  k.exists => /\ start <= k.to /\ k.to <= head
              /\ Timely => \A b \in Blocks : start <= b /\ b < k.to => logs[b] \subseteq stored

Progress(k) ==
  /\ k.phase # "idle" => initialized
  /\ k.phase = "asked" => Asked(k)
  /\ k.phase = "logged" => Logged(k)
  /\ k.phase = "probing" => Probing(k)
  /\ k.phase = "probed" => ProbedRange(k)

Executions == task \in [Tasks -> TaskType] /\ \A t \in Tasks : Progress(task[t])

Publication ==
  /\ subscribed \subseteq Subscribers
  /\ received \in [Subscribers -> [Events -> Nat]]
  /\ undelivered \subseteq Subscribers \X Events
  /\ faults \in 0..MaxFaults /\ restarts \in 0..MaxRestarts

IndexerInv == History /\ Store /\ Executions /\ Publication

-----------------------------------------------------------------------------
(* Operators. *)

\* The library's Min of two numbers.
LEMMA MinOfTwo ==
  ASSUME NEW m \in Nat, NEW n \in Nat
  PROVE  Min({m, n}) = IF m <= n THEN m ELSE n
<1>1. \A x \in {m, n} : (\A y \in {m, n} : x <= y) <=> x = IF m <= n THEN m ELSE n
  OBVIOUS
<1> QED BY <1>1 DEF Min

\* The library's Max of a set of blocks is one, and the last.
LEMMA MaxOfBlocks ==
  ASSUME NEW S \in SUBSET Nat, NEW n \in Nat, \A x \in S : x <= n, S # {}
  PROVE  Max(S) \in S /\ \A x \in S : x <= Max(S)
<1> DEFINE T == {n - x : x \in S}
           R == OpToRel(<, Nat)
<1>1. T \subseteq Nat /\ T # {}
  <2>1. \A x \in S : n - x \in Nat
    OBVIOUS
  <2>2. PICK x \in S : TRUE
    OBVIOUS
  <2> QED BY <2>1, <2>2
<1>2. PICK z \in T : \A y \in T : ~ (<<y, z>> \in R)
  BY <1>1, NatLessThanWellFounded, WFMin
<1>3. \A x, y \in Nat : x < y => <<x, y>> \in R
  BY DEF OpToRel
<1>4. \A y \in T : z <= y
  <2> HIDE DEF R, T
  <2> TAKE y \in T
  <2>1. y \in Nat /\ z \in Nat /\ ~ (y < z)
    BY <1>1, <1>2, <1>3
  <2> QED BY <2>1
<1> HIDE DEF R
<1>5. PICK last \in S : z = n - last
  OBVIOUS
<1>6. \A x \in S : last >= x
  <2> TAKE x \in S
  <2>1. n - x \in T
    OBVIOUS
  <2>2. z <= n - x
    BY <1>4, <2>1
  <2> QED BY <1>5, <2>2
<1>7. \E x \in S : \A y \in S : x >= y
  BY <1>6
<1>8. Max(S) \in S /\ \A y \in S : Max(S) >= y
  BY <1>7 DEF Max
<1> QED BY <1>8

\* The events of a range that is mined.
LEMMA EventsOfRange ==
  ASSUME History, NEW first \in Nat, 1 <= first, NEW last \in Nat, last <= head
  PROVE  \A e : e \in EventsOf(first, last)
                  <=> /\ e \in Events /\ first <= e.block /\ e.block <= last
                      /\ e \in logs[e.block]
<1>1. first..last \subseteq Blocks
  BY IndexerAssumption DEF History, Blocks
<1>2. \A b \in first..last : logs[b] \subseteq Events /\ \A e \in logs[b] : e.block = b
  BY <1>1 DEF History
<1>3. \A e : e \in EventsOf(first, last) <=> \E b \in first..last : e \in logs[b]
  BY DEF EventsOf
<1>4. \A e \in Events : e.block \in Nat
  BY IndexerAssumption DEF Events, Blocks
<1> QED BY <1>1, <1>2, <1>3, <1>4

\* What an execution keeps at each phase.
LEMMA TaskFields ==
  ASSUME NEW k \in TaskType
  PROVE  /\ k.phase \in {"idle", "asked", "logged", "probing", "probed", "publishing"}
         /\ k.phase = "idle" => k = Idle
         /\ k.phase = "asked" => k.from \in Nat /\ k.to \in Nat
         /\ k.phase = "logged" => k.to \in Nat /\ k.seenAt \in Blocks /\ k.found \subseteq Events
         /\ k.phase = "probing" => k.to \in Nat /\ k.seenAt \in Blocks
         /\ k.phase = "probed" => k.to \in Nat /\ k.exists \in BOOLEAN
         /\ k.phase = "publishing" => /\ k.rest \subseteq Events /\ k.chunk \subseteq Events
                                      /\ k.targets \subseteq Subscribers
BY DEF TaskType, Idle

\* The blocks up to the head are there.
LEMMA BlockFacts ==
  ASSUME History
  PROVE  /\ head \in Nat /\ 1 <= head /\ head <= MaxHead /\ MaxHead \in Nat
         /\ \A b \in Blocks : b \in Nat /\ 1 <= b
         /\ \A b \in Nat : 1 <= b /\ b <= head => b \in Blocks
         /\ \A e \in Events : e.block \in Blocks
         /\ \A b \in Blocks : logs[b] \subseteq Events
BY IndexerAssumption DEF History, Blocks, Events

\* A block is filled with events of its own.
LEMMA ContentsAreEvents ==
  ASSUME NEW b \in Blocks, NEW events \in BlockContents(b)
  PROVE  events \subseteq Events /\ \A e \in events : e.block = b
<1>0. PICK n \in 0..MaxPerBlock : \E peer \in [1..n -> PeerIds] :
        events = {[block |-> b, index |-> i, peer |-> peer[i]] : i \in 1..n}
  BY DEF BlockContents
<1>1. PICK peer \in [1..n -> PeerIds] :
        events = {[block |-> b, index |-> i, peer |-> peer[i]] : i \in 1..n}
  BY <1>0
<1>2. \A i \in 1..n : i \in 1..MaxPerBlock /\ peer[i] \in PeerIds
  BY IndexerAssumption
<1> QED BY <1>1, <1>2 DEF Events

-----------------------------------------------------------------------------
\* Nothing is read and nothing stored at first.
LEMMA IndexerInvInit == IndexerInit => IndexerInv
<1> SUFFICES ASSUME IndexerInit PROVE IndexerInv
  OBVIOUS
<1>1. 1 \in Blocks /\ \A b \in Blocks : b > 1 => b # 1
  BY IndexerAssumption DEF Blocks
<1>2. PICK events \in BlockContents(1) : logs = [b \in Blocks |-> IF b = 1 THEN events ELSE {}]
  BY DEF IndexerInit
<1>3. events \subseteq Events /\ \A e \in events : e.block = 1
  BY <1>1, ContentsAreEvents, <1>2
<1>4. History
  BY <1>1, <1>2, <1>3 DEF IndexerInit, History
<1>5. Store
  BY DEF IndexerInit, Store
<1>6. Executions
  BY DEF IndexerInit, Executions, TaskType, Progress, Idle
<1>7. Publication
  BY IndexerAssumption DEF IndexerInit, Publication
<1> QED BY <1>4, <1>5, <1>6, <1>7 DEF IndexerInv

-----------------------------------------------------------------------------
(* What the steps have in common. *)

\* An execution keeps its place while others fill the store.
LEMMA ProgressKept ==
  ASSUME NEW k, Progress(k), UNCHANGED <<head, logs, start, initialized>>, stored \subseteq stored'
  PROVE  Progress(k)'
<1> USE DEF Progress
<1>1. Asked(k) => Asked(k)'
  BY DEF Asked
<1>2. Logged(k) => Logged(k)'
  BY DEF Logged
<1>3. Probing(k) => Probing(k)'
  BY DEF Probing
<1>4. ProbedRange(k) => ProbedRange(k)'
  BY DEF ProbedRange
<1> QED BY <1>1, <1>2, <1>3, <1>4

\* One execution moves on.
LEMMA ExecutionStep ==
  ASSUME Executions, NEW t \in Tasks, NEW k \in TaskType, task' = [task EXCEPT ![t] = k],
         UNCHANGED <<head, logs, start, initialized>>, stored \subseteq stored', Progress(k)'
  PROVE  Executions'
<1>1. task' \in [Tasks -> TaskType]
  BY DEF Executions
<1>2. \A u \in Tasks : Progress(task[u])'
  <2> TAKE u \in Tasks
  <2>1. task'[u] = IF u = t THEN k ELSE task[u]
    BY DEF Executions
  <2>2. Progress(task[u])
    BY DEF Executions
  <2> QED BY <2>1, <2>2, ProgressKept
<1> QED BY <1>1, <1>2 DEF Executions

-----------------------------------------------------------------------------
(* The steps. *)

\* A new block is no part of what was read, and makes the answers under way older by one.
LEMMA MineStep == ASSUME IndexerInv, Mine PROVE IndexerInv'
<1>1. History /\ Store /\ Executions /\ Publication
  BY DEF IndexerInv
<1>2. PICK events \in BlockContents(head + 1) : logs' = [logs EXCEPT ![head + 1] = events]
  BY DEF Mine
<1>3. head \in Nat /\ 1 <= head /\ head + 1 \in Blocks /\ head' = head + 1
  BY <1>1, BlockFacts DEF Mine, Blocks
<1>4. events \subseteq Events /\ \A e \in events : e.block = head + 1
  BY <1>2, <1>3, ContentsAreEvents
<1>5. /\ logs' \in [Blocks -> SUBSET Events] /\ logs'[head + 1] = events
      /\ \A b \in Blocks : b # head + 1 => logs'[b] = logs[b]
  BY <1>1, <1>2, <1>3, <1>4 DEF History
<1>6. \A b \in Blocks : b <= head => logs'[b] = logs[b]
  BY <1>3, <1>5, <1>1, BlockFacts
<1>7. History'
  <2>1. \A b \in Blocks : b > head + 1 => logs'[b] = {}
    BY <1>1, <1>3, <1>5, BlockFacts DEF History
  <2>2. \A b \in Blocks : \A e \in logs'[b] : e.block = b
    BY <1>1, <1>4, <1>5 DEF History
  <2>3. head' \in Blocks
    BY <1>3
  <2> QED BY <1>3, <1>5, <2>1, <2>2, <2>3 DEF History
<1>8. UNCHANGED <<storeVars, publishVars, task, boundVars>>
  BY DEF Mine
<1>9. Store'
  <2>1. UNCHANGED <<initialized, setup, start, saved, stored>>
    BY <1>8 DEF storeVars
  <2>2. setup' \subseteq 1..head'
    BY <1>1, <1>3, <2>1 DEF Store
  <2>3. \A e \in stored : e \in Events /\ e.block <= head' /\ e \in logs'[e.block]
    BY <1>1, <1>3, <1>6, BlockFacts DEF Store
  <2>4. initialized /\ Timely => \A b \in Blocks : start <= b /\ b < saved => logs'[b] \subseteq stored
    BY <1>1, <1>3, <1>6, BlockFacts DEF Store
  <2> QED BY <1>1, <1>3, <2>1, <2>2, <2>3, <2>4 DEF Store
<1>10. Executions'
  <2>1. task' = task /\ initialized' = initialized /\ start' = start /\ stored' = stored
    BY <1>8 DEF storeVars
  <2> SUFFICES ASSUME NEW t \in Tasks PROVE Progress(task[t])'
    BY <1>1, <2>1 DEF Executions
  <2> DEFINE k == task[t]
  <2>2. k \in TaskType /\ Progress(k) /\ k' = k
    BY <1>1, <2>1 DEF Executions
  <2>3. k.phase \in {"logged", "probing"} => head - k.seenAt < MaxAdvance
    BY DEF Mine
  <2>4. start \in Nat
    BY <1>1 DEF Store
  <2> HIDE DEF k
  <2>5. k.phase = "asked" => Asked(k)'
    BY <1>1, <1>3, <1>6, <2>1, <2>2, <2>4, TaskFields, BlockFacts DEF Progress, Asked
  <2>6. k.phase = "logged" => Logged(k)'
    <3> SUFFICES ASSUME k.phase = "logged" PROVE Logged(k)'
      OBVIOUS
    <3>1. k.seenAt \in Nat /\ k.seenAt <= head /\ Logged(k) /\ k.found \subseteq Events
      BY <1>1, <2>2, TaskFields, BlockFacts DEF Progress, Logged
    <3>2. head + 1 <= k.seenAt + MaxAdvance
      BY <1>3, <2>3, <3>1, IndexerAssumption
    <3>3. \A e \in k.found : e.block \in Blocks /\ e.block <= head
      BY <1>1, <1>3, <3>1, BlockFacts DEF Logged
    <3> QED BY <1>1, <1>3, <1>6, <2>1, <2>2, <3>1, <3>2, <3>3, BlockFacts DEF Logged
  <2>7. k.phase = "probing" => Probing(k)'
    <3> SUFFICES ASSUME k.phase = "probing" PROVE Probing(k)'
      OBVIOUS
    <3>1. k.seenAt \in Nat /\ k.seenAt <= head /\ Probing(k)
      BY <1>1, <2>2, TaskFields, BlockFacts DEF Progress, Probing
    <3>2. head + 1 <= k.seenAt + MaxAdvance
      BY <1>3, <2>3, <3>1, IndexerAssumption
    <3> QED BY <1>1, <1>3, <1>6, <2>1, <2>2, <3>1, <3>2, BlockFacts DEF Probing
  <2>8. k.phase = "probed" => ProbedRange(k)'
    BY <1>1, <1>3, <1>6, <2>1, <2>2, <2>4, TaskFields, BlockFacts DEF Progress, ProbedRange
  <2>9. Progress(k)'
    BY <2>1, <2>2, <2>5, <2>6, <2>7, <2>8 DEF Progress
  <2> QED BY <2>9 DEF k
<1>11. Publication'
  BY <1>1, <1>8 DEF Publication, publishVars, boundVars
<1> QED BY <1>7, <1>9, <1>10, <1>11 DEF IndexerInv

\* The node's answer to set_lend_pool names a block that exists.
LEMMA SetLendPoolStep == ASSUME IndexerInv, SetLendPool PROVE IndexerInv'
<1>1. History /\ Store /\ Executions /\ Publication
  BY DEF IndexerInv
<1>2. UNCHANGED <<head, logs, initialized, start, saved, stored, task, subscribed, received, undelivered,
                  faults, restarts>>
  BY DEF SetLendPool, chainVars, publishVars, boundVars
<1>3. setup' \subseteq 1..head
  <2>1. head \in 1..head
    BY <1>1, BlockFacts
  <2>2. setup' = setup \cup {head}
    BY DEF SetLendPool
  <2> QED BY <1>1, <2>1, <2>2 DEF Store
<1>4. Executions'
  BY <1>1, <1>2, ProgressKept DEF Executions
<1> QED BY <1>1, <1>2, <1>3, <1>4 DEF IndexerInv, History, Store, Publication

\* Only a store that was never set up is, and it starts with nothing to read.
LEMMA SetLendPoolAnsweredStep == ASSUME IndexerInv, SetLendPoolAnswered PROVE IndexerInv'
<1>1. History /\ Store /\ Executions /\ Publication
  BY DEF IndexerInv
<1>2. UNCHANGED <<head, logs, stored, task, subscribed, received, undelivered, faults, restarts>>
  BY DEF SetLendPoolAnswered, chainVars, publishVars, boundVars
<1>3. PICK number \in setup :
        /\ setup' = setup \ {number}
        /\ IF initialized THEN UNCHANGED <<initialized, start, saved>> ELSE SetupStore(number)
  BY DEF SetLendPoolAnswered
<1>4. number \in Nat /\ 1 <= number /\ number <= head /\ head \in Nat
  BY <1>1, BlockFacts DEF Store
<1>5. Store'
  <2>1. CASE initialized
    BY <1>1, <1>2, <1>3, <2>1 DEF Store
  <2>2. CASE ~ initialized
    <3>1. initialized' = TRUE /\ start' = number /\ saved' = number
      BY <1>3, <2>2 DEF SetupStore
    <3>2. \A b \in Blocks : ~ (start' <= b /\ b < saved')
      BY <1>1, <1>4, <3>1, BlockFacts
    <3> QED BY <1>1, <1>2, <1>3, <1>4, <3>1, <3>2 DEF Store
  <2> QED BY <2>1, <2>2
<1>6. Executions'
  <2>1. CASE initialized
    BY <1>1, <1>2, <1>3, <2>1, ProgressKept DEF Executions
  <2>2. CASE ~ initialized
    <3>1. \A t \in Tasks : task[t].phase = "idle"
      BY <1>1, <2>2 DEF Executions, Progress
    <3>2. \A t \in Tasks : Progress(task[t])'
      BY <1>2, <3>1 DEF Progress
    <3> QED BY <1>1, <1>2, <3>2 DEF Executions
  <2> QED BY <2>1, <2>2
<1> QED BY <1>1, <1>2, <1>5, <1>6 DEF IndexerInv, History, Publication

\* A new deployment waits for the executions, and starts with an empty store.
LEMMA RestartStep == ASSUME IndexerInv, Restart PROVE IndexerInv'
<1>1. History /\ Store /\ Executions /\ Publication
  BY DEF IndexerInv
<1>2. UNCHANGED <<head, logs, setup, task, received, undelivered, faults>>
  BY DEF Restart, chainVars
<1>3. restarts' \in 0..MaxRestarts /\ subscribed' = {}
  BY <1>1, IndexerAssumption DEF Restart, Publication
<1>4. Store'
  BY <1>1, <1>2 DEF Restart, Store
<1>5. Executions'
  <2>1. \A t \in Tasks : task[t].phase = "idle"
    BY DEF Restart, Idle
  <2>2. \A t \in Tasks : Progress(task[t])'
    BY <1>2, <2>1 DEF Progress
  <2> QED BY <1>1, <1>2, <2>2 DEF Executions
<1> QED BY <1>1, <1>2, <1>3, <1>4, <1>5 DEF IndexerInv, History, Publication

\* Subscriptions change nothing here.
LEMMA AddSubscriberStep == ASSUME IndexerInv, AddSubscriber PROVE IndexerInv'
<1>1. History /\ Store /\ Executions /\ Publication
  BY DEF IndexerInv
<1>2. UNCHANGED <<head, logs, initialized, setup, start, saved, stored, task, received, undelivered,
                  faults, restarts>>
  BY DEF AddSubscriber, chainVars, storeVars, boundVars
<1>3. Executions'
  BY <1>1, <1>2, ProgressKept DEF Executions
<1>4. Publication'
  BY <1>1, <1>2 DEF AddSubscriber, Publication
<1> QED BY <1>1, <1>2, <1>3, <1>4 DEF IndexerInv, History, Store

\* A step of an execution that leaves the chain, the store and the relayers alone.
LEMMA QuietStep ==
  ASSUME IndexerInv, NEW t \in Tasks, NEW k \in TaskType, Progress(k)',
         task' = [task EXCEPT ![t] = k], UNCHANGED <<chainVars, storeVars, publishVars, restarts>>,
         faults' \in 0..MaxFaults
  PROVE  IndexerInv'
<1>1. History /\ Store /\ Executions /\ Publication
  BY DEF IndexerInv
<1>2. UNCHANGED <<head, logs, initialized, setup, start, saved, stored, subscribed, received, undelivered>>
  BY DEF chainVars, storeVars, publishVars
<1>3. Executions'
  BY <1>1, <1>2, ExecutionStep
<1> QED BY <1>1, <1>2, <1>3 DEF IndexerInv, History, Store, Publication

\* An execution that ended claims nothing.
LEMMA IdleProgress == Idle \in TaskType /\ Progress(Idle) /\ Progress(Idle)'
BY DEF TaskType, Progress, Idle

\* A query starts at the saved block, to which all is stored.
LEMMA QueryStep ==
  ASSUME IndexerInv, NEW t \in Tasks, NEW to \in Nat, saved <= to, Query(t, to)
  PROVE  IndexerInv'
<1>1. History /\ Store /\ Executions /\ Publication
  BY DEF IndexerInv
<1>2. PICK k : k = [phase |-> "asked", from |-> saved, to |-> to]
  OBVIOUS
<1>3. task' = [task EXCEPT ![t] = k] /\ UNCHANGED <<chainVars, storeVars, publishVars, boundVars>>
  BY <1>2 DEF Query
<1>4. initialized /\ UNCHANGED <<head, logs, initialized, saved, start, stored, faults, restarts>>
  BY <1>3 DEF Query, chainVars, storeVars, boundVars
<1>5. k \in TaskType
  BY <1>1, <1>2 DEF TaskType, Store
<1>6. Asked(k)'
  BY <1>1, <1>2, <1>4 DEF Asked, Store
<1>7. Progress(k)'
  BY <1>2, <1>4, <1>6 DEF Progress
<1>8. faults' \in 0..MaxFaults
  BY <1>1, <1>4 DEF Publication
<1> QED BY <1>3, <1>4, <1>5, <1>7, <1>8, QuietStep

\* The answer holds every event of the range that is mined.
LEMMA LogsAnsweredStep == ASSUME IndexerInv, NEW t \in Tasks, LogsAnswered(t) PROVE IndexerInv'
<1>1. History /\ Store /\ Executions /\ Publication
  BY DEF IndexerInv
<1>2. PICK old : old = task[t]
  OBVIOUS
<1>3. old \in TaskType /\ old.phase = "asked" /\ Asked(old) /\ initialized
  BY <1>1, <1>2 DEF Executions, Progress, LogsAnswered
<1>4. old.from \in Nat /\ old.to \in Nat
  BY <1>3, TaskFields
<1>5. PICK last : last = IF old.to <= head THEN old.to ELSE head
  OBVIOUS
<1>6. Min({old.to, head}) = last /\ last \in Nat /\ last <= head /\ last <= old.to
  BY <1>1, <1>4, <1>5, BlockFacts, MinOfTwo
<1>7. PICK k : k = [phase |-> "logged", to |-> old.to, seenAt |-> head, found |-> EventsOf(old.from, last)]
  OBVIOUS
<1>8. /\ task' = [task EXCEPT ![t] = k] /\ UNCHANGED <<chainVars, storeVars, publishVars, boundVars>>
      /\ UNCHANGED <<head, logs, initialized, saved, start, stored, faults, restarts>>
  BY <1>2, <1>6, <1>7 DEF LogsAnswered, chainVars, storeVars, boundVars
<1>9. \A e : e \in k.found <=> /\ e \in Events /\ old.from <= e.block /\ e.block <= last
                               /\ e \in logs[e.block]
  <2>1. 1 <= old.from
    BY <1>1, <1>3, <1>4 DEF Asked, Store
  <2> QED BY <1>1, <1>4, <1>6, <1>7, <2>1, EventsOfRange
<1>10. k \in TaskType
  BY <1>1, <1>4, <1>7, <1>9, BlockFacts DEF TaskType, History
<1>11. Logged(k)'
  <2>0. start \in Nat /\ start <= old.from /\ old.from <= old.to /\ head \in Nat
    BY <1>1, <1>3, BlockFacts DEF Asked, Store
  <2>1. k.to = old.to /\ k.seenAt = head
    BY <1>7
  <2>2. \A e \in k.found : e.block \in Blocks /\ e \in logs[e.block]
    BY <1>1, <1>9, BlockFacts
  <2>3. \A e \in k.found : start <= e.block /\ e.block <= head /\ e.block <= old.to
    BY <1>1, <1>4, <1>6, <1>9, <2>0, <2>2, BlockFacts
  <2>4. Timely => \A b \in Blocks : start <= b /\ b <= old.to /\ b <= head => logs[b] \subseteq stored \cup k.found
    <3> SUFFICES ASSUME Timely, NEW b \in Blocks, start <= b, b <= old.to, b <= head
                 PROVE  logs[b] \subseteq stored \cup k.found
      OBVIOUS
    <3>1. CASE b < old.from
      BY <1>3, <3>1 DEF Asked
    <3>2. CASE old.from <= b
      <4>1. b <= last
        BY <1>5
      <4>2. \A e \in logs[b] : e \in Events /\ e.block = b
        BY <1>1 DEF History
      <4> QED BY <1>9, <3>2, <4>1, <4>2
    <3> QED BY <1>1, <1>4, <3>1, <3>2, BlockFacts
  <2>5. start <= old.to
    BY <1>4, <2>0
  <2>6. head <= head + MaxAdvance /\ head <= head
    BY <2>0, IndexerAssumption
  <2>7. \A e \in k.found : logs[e.block] \subseteq k.found
    <3> SUFFICES ASSUME NEW e \in k.found, NEW f \in logs[e.block] PROVE f \in k.found
      OBVIOUS
    <3>1. f \in Events /\ f.block = e.block
      BY <1>1, <2>2 DEF History
    <3> QED BY <1>9, <3>1
  <2> QED BY <1>8, <2>1, <2>2, <2>3, <2>4, <2>5, <2>6, <2>7 DEF Logged
<1>12. Progress(k)'
  BY <1>3, <1>7, <1>8, <1>11 DEF Progress
<1>13. faults' \in 0..MaxFaults
  BY <1>1, <1>8 DEF Publication
<1> QED BY <1>8, <1>10, <1>12, <1>13, QuietStep

\* The saved block moves behind the last event read: all before it is stored.
LEMMA FoundSomeStep == ASSUME IndexerInv, NEW t \in Tasks, FoundSome(t) PROVE IndexerInv'
<1>1. History /\ Store /\ Executions /\ Publication
  BY DEF IndexerInv
<1>2. PICK old : old = task[t]
  OBVIOUS
<1>3. old \in TaskType /\ old.phase = "logged" /\ old.found # {} /\ Logged(old) /\ initialized
  BY <1>1, <1>2 DEF Executions, Progress, FoundSome
<1>4. /\ UNCHANGED <<initialized, setup, start, chainVars, publishVars, boundVars>>
      /\ UNCHANGED <<head, logs, subscribed, received, undelivered, faults, restarts>>
  BY DEF FoundSome, chainVars, publishVars, boundVars
<1>5. CASE \E e \in old.found : ~ Convertible(e)
  <2>1. task' = [task EXCEPT ![t] = Idle] /\ UNCHANGED <<saved, stored>>
    BY <1>2, <1>5 DEF FoundSome, Panic
  <2>2. UNCHANGED storeVars
    BY <1>4, <2>1 DEF storeVars
  <2>3. faults' \in 0..MaxFaults
    BY <1>1, <1>4 DEF Publication
  <2> QED BY <1>4, <2>1, <2>2, <2>3, IdleProgress, QuietStep
<1>6. CASE ~ \E e \in old.found : ~ Convertible(e)
  <2>1. PICK last : last = LastBlock(old.found)
    OBVIOUS
  <2>2. PICK k : k = [phase |-> "publishing", rest |-> old.found, chunk |-> {}, targets |-> {}]
    OBVIOUS
  <2>3. stored' = stored \cup old.found /\ saved' = last + 1 /\ task' = [task EXCEPT ![t] = k]
    <3>1. /\ stored' = {e \in stored : \A new \in old.found : new.block # e.block} \cup old.found
          /\ saved' = last + 1 /\ task' = [task EXCEPT ![t] = k]
      BY <1>2, <1>6, <2>1, <2>2 DEF FoundSome, StoreAndPublish, AddEvents, UpdateSavedBlock
    \* What is replaced is found again.
    <3>2. \A e \in stored, new \in old.found : new.block = e.block => e \in old.found
      <4> SUFFICES ASSUME NEW e \in stored, NEW new \in old.found, new.block = e.block
                   PROVE  e \in old.found
        OBVIOUS
      <4>1. e \in logs[e.block]
        BY <1>1 DEF Store
      <4> QED BY <1>3, <4>1 DEF Logged
    <3> QED BY <3>1, <3>2
  <2>4. old.to \in Nat /\ old.seenAt \in Nat /\ old.seenAt <= head /\ old.found \subseteq Events
    BY <1>1, <1>3, TaskFields, BlockFacts DEF Logged
  <2>5. \A e \in old.found : /\ e \in Events /\ e.block \in Nat /\ 1 <= e.block /\ start <= e.block
                             /\ e.block <= old.seenAt /\ e.block <= old.to /\ e \in logs[e.block]
    BY <1>1, <1>3, <2>4, BlockFacts DEF Logged
  <2>6. last \in Nat /\ start <= last /\ last <= old.to /\ last <= old.seenAt
    <3> DEFINE S == {e.block : e \in old.found}
    <3>1. S \in SUBSET Nat /\ S # {} /\ \A b \in S : b <= old.to /\ b <= old.seenAt /\ start <= b
      BY <1>3, <2>5
    <3> HIDE DEF S
    <3>2. Max(S) \in S
      BY <2>4, <3>1, MaxOfBlocks
    <3>3. last = Max(S)
      BY <2>1 DEF LastBlock, S
    <3> QED BY <3>1, <3>2, <3>3
  <2>7. Store'
    <3>0. head \in Nat /\ start \in Nat
      BY <1>1, BlockFacts DEF Store
    <3>1. \A e \in stored' : e \in Events /\ e.block <= head /\ e \in logs[e.block]
      BY <1>1, <2>3, <2>4, <2>5, <3>0 DEF Store
    <3>2. Timely => \A b \in Blocks : start <= b /\ b < last + 1 => logs[b] \subseteq stored'
      <4> SUFFICES ASSUME Timely, NEW b \in Blocks, start <= b, b < last + 1 PROVE logs[b] \subseteq stored'
        OBVIOUS
      <4>1. b <= old.to /\ b <= old.seenAt
        BY <1>1, <2>4, <2>6, BlockFacts
      <4> QED BY <1>3, <2>3, <4>1 DEF Logged
    <3>3. saved' \in Nat /\ start <= saved' /\ saved' <= head + 1
      BY <2>3, <2>4, <2>6, <3>0
    <3> QED BY <1>1, <1>3, <1>4, <2>3, <3>1, <3>2, <3>3 DEF Store
  <2>8. k \in TaskType /\ Progress(k)'
    BY <1>3, <1>4, <2>2, <2>4 DEF TaskType, Progress
  <2>9. Executions'
    BY <1>1, <1>4, <2>3, <2>8, ExecutionStep
  <2> QED BY <1>1, <1>4, <2>7, <2>9 DEF IndexerInv, History, Publication
<1> QED BY <1>5, <1>6

\* No event was found up to the block seen, so all before is stored.
LEMMA FoundNoneStep == ASSUME IndexerInv, NEW t \in Tasks, FoundNone(t) PROVE IndexerInv'
<1>1. History /\ Store /\ Executions /\ Publication
  BY DEF IndexerInv
<1>2. PICK old : old = task[t]
  OBVIOUS
<1>3. old \in TaskType /\ old.phase = "logged" /\ old.found = {} /\ Logged(old) /\ initialized
  BY <1>1, <1>2 DEF Executions, Progress, FoundNone
<1>4. PICK k : k = [phase |-> "probing", to |-> old.to, seenAt |-> old.seenAt]
  OBVIOUS
<1>5. /\ task' = [task EXCEPT ![t] = k] /\ UNCHANGED <<chainVars, storeVars, publishVars, boundVars>>
      /\ UNCHANGED <<head, logs, initialized, saved, start, stored, faults, restarts>>
  BY <1>2, <1>4 DEF FoundNone, chainVars, storeVars, boundVars
<1>6. k \in TaskType
  BY <1>3, <1>4, TaskFields DEF TaskType
<1>7. Probing(k)'
  BY <1>3, <1>4, <1>5 DEF Logged, Probing
<1>8. Progress(k)'
  BY <1>3, <1>4, <1>5, <1>7 DEF Progress
<1>9. faults' \in 0..MaxFaults
  BY <1>1, <1>5 DEF Publication
<1> QED BY <1>5, <1>6, <1>8, <1>9, QuietStep

\* At most one block is new since the node was asked for the events: the last.
LEMMA BlockAnsweredStep ==
  ASSUME IndexerInv, NEW t \in Tasks, BlockAnswered(t)
  PROVE  IndexerInv'
<1>1. History /\ Store /\ Executions /\ Publication
  BY DEF IndexerInv
<1>2. PICK old : old = task[t]
  OBVIOUS
<1>3. old \in TaskType /\ old.phase = "probing" /\ Probing(old) /\ initialized
  BY <1>1, <1>2 DEF Executions, Progress, BlockAnswered
<1>4. PICK k : k = [phase |-> "probed", to |-> old.to, exists |-> old.to <= head]
  OBVIOUS
<1>5. /\ task' = [task EXCEPT ![t] = k] /\ UNCHANGED <<chainVars, storeVars, publishVars, boundVars>>
      /\ UNCHANGED <<head, logs, initialized, saved, start, stored, faults, restarts>>
  BY <1>2, <1>4 DEF BlockAnswered, chainVars, storeVars, boundVars
<1>6. k \in TaskType
  BY <1>3, <1>4, TaskFields DEF TaskType
<1>7. ProbedRange(k)'
  <2>1. old.to \in Nat /\ old.seenAt \in Nat /\ head \in Nat /\ MaxAdvance \in Nat
    BY <1>1, <1>3, TaskFields, BlockFacts, IndexerAssumption
  <2>2. Timely /\ old.to <= head => old.to <= old.seenAt + 1
    BY <1>3, <2>1 DEF Probing, Timely
  <2>3. ASSUME Timely, old.to <= head, NEW b \in Blocks, start <= b, b < old.to
        PROVE  logs[b] \subseteq stored
    <3>1. b <= old.to /\ b <= old.seenAt
      BY <1>1, <2>1, <2>2, <2>3, BlockFacts
    <3> QED BY <1>3, <2>3, <3>1 DEF Probing
  <2>4. k.exists <=> old.to <= head
    BY <1>4
  <2>5. start <= old.to /\ k.to = old.to
    BY <1>3, <1>4 DEF Probing
  <2> QED BY <1>5, <2>3, <2>4, <2>5 DEF ProbedRange
<1>8. Progress(k)'
  BY <1>3, <1>4, <1>5, <1>7 DEF Progress
<1>9. faults' \in 0..MaxFaults
  BY <1>1, <1>5 DEF Publication
<1> QED BY <1>5, <1>6, <1>8, <1>9, QuietStep

\* The saved block moves to a block that exists.
LEMMA ProbedStep == ASSUME IndexerInv, NEW t \in Tasks, Probed(t) PROVE IndexerInv'
<1>1. History /\ Store /\ Executions /\ Publication
  BY DEF IndexerInv
<1>2. PICK old : old = task[t]
  OBVIOUS
<1>3. old \in TaskType /\ old.phase = "probed" /\ ProbedRange(old) /\ initialized
  BY <1>1, <1>2 DEF Executions, Progress, Probed
<1>4. /\ UNCHANGED <<initialized, setup, start, stored, head, logs, subscribed, received, undelivered,
                     faults, restarts>>
      /\ task' = [task EXCEPT ![t] = Idle]
      /\ IF old.exists THEN saved' = old.to ELSE UNCHANGED saved
  BY <1>2 DEF Probed, chainVars, publishVars, boundVars, UpdateSavedBlock
<1>5. Store'
  <2>1. CASE old.exists
    <3>1. old.to \in Nat /\ start <= old.to /\ old.to <= head + 1
      BY <1>1, <1>3, <2>1, TaskFields, BlockFacts DEF ProbedRange
    <3>2. Timely => \A b \in Blocks : start <= b /\ b < old.to => logs[b] \subseteq stored
      BY <1>3, <2>1 DEF ProbedRange
    <3> QED BY <1>1, <1>3, <1>4, <2>1, <3>1, <3>2 DEF Store
  <2>2. CASE ~ old.exists
    BY <1>1, <1>4, <2>2 DEF Store
  <2> QED BY <2>1, <2>2
<1>6. Executions'
  BY <1>1, <1>4, IdleProgress, ExecutionStep
<1> QED BY <1>1, <1>4, <1>5, <1>6 DEF IndexerInv, History, Publication

\* A failing call ends the execution and moves nothing.
LEMMA QueryFailsStep == ASSUME IndexerInv, NEW t \in Tasks, QueryFails(t) PROVE IndexerInv'
<1>1. faults' \in 0..MaxFaults
  BY IndexerAssumption DEF IndexerInv, Publication, QueryFails
<1> QED BY <1>1, IdleProgress, QuietStep DEF QueryFails, Panic

\* The execution ends with its last chunk.
LEMMA PublishedStep == ASSUME IndexerInv, NEW t \in Tasks, Published(t) PROVE IndexerInv'
<1>1. faults' \in 0..MaxFaults /\ UNCHANGED restarts
  BY DEF IndexerInv, Publication, Published, boundVars
<1> QED BY <1>1, IdleProgress, QuietStep DEF Published

\* Publication touches what the relayers were told, never the store.
LEMMA PublishingStep ==
  ASSUME IndexerInv, NEW t \in Tasks, task[t].phase = "publishing", NEW k \in TaskType, k.phase = "publishing",
         task' = [task EXCEPT ![t] = k], UNCHANGED <<chainVars, storeVars>>, Publication'
  PROVE  IndexerInv'
<1>1. History /\ Store /\ Executions
  BY DEF IndexerInv
<1>2. UNCHANGED <<head, logs, initialized, setup, start, saved, stored>>
  BY DEF chainVars, storeVars
<1>3. initialized
  BY <1>1 DEF Executions, Progress
<1>4. Progress(k)'
  BY <1>2, <1>3 DEF Progress
<1>5. Executions'
  BY <1>1, <1>2, <1>4, ExecutionStep
<1> QED BY <1>1, <1>2, <1>5 DEF IndexerInv, History, Store

\* A chunk is a part of what is to be published.
LEMMA NextChunkStep == ASSUME IndexerInv, NEW t \in Tasks, NextChunk(t) PROVE IndexerInv'
<1>1. task[t].phase = "publishing" /\ task[t] \in TaskType /\ Publication
  BY DEF IndexerInv, Executions, NextChunk
<1>2. PICK chunk \in kSubset(Min({ChunkSize, Cardinality(task[t].rest)}), task[t].rest) :
        task' = [task EXCEPT ![t] = [phase |-> "publishing", rest |-> task[t].rest \ chunk,
                                     chunk |-> chunk, targets |-> subscribed]]
  BY DEF NextChunk
<1>3. PICK k : k = [phase |-> "publishing", rest |-> task[t].rest \ chunk,
                    chunk |-> chunk, targets |-> subscribed]
  OBVIOUS
<1>4. chunk \subseteq task[t].rest
  BY DEF kSubset
<1>5. k \in TaskType /\ k.phase = "publishing" /\ task' = [task EXCEPT ![t] = k]
  BY <1>1, <1>2, <1>3, <1>4, TaskFields DEF TaskType, Publication
<1>6. Publication' /\ UNCHANGED <<chainVars, storeVars>>
  BY <1>1 DEF NextChunk, publishVars, boundVars, Publication
<1> QED BY <1>1, <1>5, <1>6, PublishingStep

\* One target less to call.
LEMMA AnsweredStep ==
  ASSUME IndexerInv, NEW t \in Tasks, NEW s \in Subscribers, task[t].phase = "publishing",
         task' = [task EXCEPT ![t].targets = @ \ {s}], UNCHANGED <<chainVars, storeVars>>, Publication'
  PROVE  IndexerInv'
<1>1. task[t] \in TaskType
  BY DEF IndexerInv, Executions
<1>2. PICK k : k = [task[t] EXCEPT !.targets = @ \ {s}]
  OBVIOUS
<1>3. task' = [task EXCEPT ![t] = k]
  BY <1>2
<1>4. task[t] \in [phase : {"publishing"}, rest : SUBSET Events, chunk : SUBSET Events,
                   targets : SUBSET Subscribers]
  BY <1>1 DEF TaskType, Idle
<1>5. k \in [phase : {"publishing"}, rest : SUBSET Events, chunk : SUBSET Events,
             targets : SUBSET Subscribers]
  BY <1>2, <1>4
<1>6. k \in TaskType /\ k.phase = "publishing"
  BY <1>5 DEF TaskType
<1> QED BY <1>3, <1>6, PublishingStep

\* A delivery counts, and touches no store.
LEMMA DeliverStep ==
  ASSUME IndexerInv, NEW t \in Tasks, NEW s \in Subscribers, Deliver(t, s)
  PROVE  IndexerInv'
<1>1. Publication
  BY DEF IndexerInv
<1>2. \A e \in Events : (IF e \in task[t].chunk THEN received[s][e] + 1 ELSE received[s][e]) \in Nat
  BY <1>1 DEF Publication
<1>3. received' \in [Subscribers -> [Events -> Nat]]
  BY <1>1, <1>2 DEF Publication, Deliver
<1>4. UNCHANGED <<subscribed, undelivered, faults, restarts>>
  BY DEF Deliver, boundVars
<1>5. Publication'
  BY <1>1, <1>3, <1>4 DEF Publication
<1> QED BY <1>5, AnsweredStep DEF Deliver

\* A delivery that fails is noted, and touches no store.
LEMMA UndeliveredStep ==
  ASSUME IndexerInv, NEW t \in Tasks, NEW s \in Subscribers, Undelivered(t, s), faults' \in 0..MaxFaults
  PROVE  IndexerInv'
<1>1. Publication /\ task[t] \in TaskType /\ task[t].phase = "publishing"
  BY DEF IndexerInv, Executions, Undelivered
<1>2. task[t].chunk \subseteq Events
  BY <1>1, TaskFields
<1>3. undelivered' \subseteq Subscribers \X Events
  BY <1>1, <1>2 DEF Publication, Undelivered
<1>4. UNCHANGED <<subscribed, received, restarts>>
  BY DEF Undelivered
<1>5. Publication'
  BY <1>1, <1>3, <1>4 DEF Publication
<1> QED BY <1>1, <1>5, AnsweredStep DEF Undelivered

\* So it is whether the fault is counted or not.
LEMMA DeliverFailsStep ==
  ASSUME IndexerInv, NEW t \in Tasks, NEW s \in Subscribers, DeliverFails(t, s)
  PROVE  IndexerInv'
<1>1. faults' \in 0..MaxFaults
  BY IndexerAssumption DEF IndexerInv, Publication, DeliverFails
<1> QED BY <1>1, UndeliveredStep DEF DeliverFails

\* The steps of one execution.
LEMMA ProceedStep ==
  ASSUME IndexerInv, NEW t \in Tasks, Proceed(t)
  PROVE  IndexerInv'
<1>1. CASE Step(t)
  BY <1>1, LogsAnsweredStep, FoundSomeStep, FoundNoneStep, BlockAnsweredStep, ProbedStep,
     NextChunkStep, PublishedStep DEF Step
<1>2. CASE \E s \in Subscribers : Deliver(t, s)
  BY <1>2, DeliverStep
<1> QED BY <1>1, <1>2 DEF Proceed

\* The steps from outside.
LEMMA StimulusStep == ASSUME IndexerInv, Stimulus PROVE IndexerInv'
<1>1. ASSUME NEW t \in Tasks, SaveLogs(t) PROVE IndexerInv'
  <2>1. saved + Window \in Nat /\ saved <= saved + Window
    BY IndexerAssumption DEF IndexerInv, Store
  <2> QED BY <1>1, <2>1, QueryStep DEF SaveLogs
<1>2. ASSUME NEW t \in Tasks, SaveLogsTo(t) PROVE IndexerInv'
  <2>1. PICK to \in Blocks : saved < to /\ Query(t, to)
    BY <1>2 DEF SaveLogsTo
  <2>2. to \in Nat /\ saved \in Nat /\ saved <= to
    BY <2>1, BlockFacts DEF IndexerInv, Store
  <2> QED BY <2>1, <2>2, QueryStep
<1> QED BY <1>1, <1>2, MineStep, SetLendPoolStep, SetLendPoolAnsweredStep, AddSubscriberStep DEF Stimulus

\* Every step keeps the invariant.
LEMMA IndexerInvStep ==
  ASSUME IndexerInv, [IndexerNext]_indexerVars
  PROVE  IndexerInv'
<1>1. CASE UNCHANGED indexerVars
  <2>1. UNCHANGED <<chainVars, storeVars, publishVars, task, boundVars>>
    BY <1>1 DEF indexerVars
  <2>2. UNCHANGED <<head, logs, initialized, setup, start, saved, stored, subscribed, received, undelivered,
                    task, faults, restarts>>
    BY <2>1 DEF chainVars, storeVars, publishVars, boundVars
  <2>3. Executions'
    BY <2>2, ProgressKept DEF IndexerInv, Executions
  <2> QED BY <2>2, <2>3 DEF IndexerInv, History, Store, Publication
<1>2. CASE Stimulus \/ Restart
  BY <1>2, StimulusStep, RestartStep
<1>3. ASSUME NEW t \in Tasks, Proceed(t) \/ QueryFails(t) \/ \E s \in Subscribers : DeliverFails(t, s)
      PROVE  IndexerInv'
  BY <1>3, ProceedStep, QueryFailsStep, DeliverFailsStep
<1> QED BY <1>1, <1>2, <1>3 DEF IndexerNext

-----------------------------------------------------------------------------
\* What the invariant says of the types.
LEMMA InvGivesTypes == ASSUME IndexerInv PROVE IndexerTypeOK
<1>1. History /\ Store /\ Executions /\ Publication
  BY DEF IndexerInv
<1>2. stored \subseteq EventsOf(1, head)
  <2>1. \A e \in stored : e \in Events /\ 1 <= e.block /\ e.block <= head /\ e \in logs[e.block]
    BY <1>1, BlockFacts DEF Store
  <2> QED BY <1>1, <2>1, BlockFacts, EventsOfRange
<1>3. start \in 0..head /\ saved \in start..(head + 1)
  BY <1>1, BlockFacts DEF Store
<1> QED BY <1>1, <1>2, <1>3 DEF History, Store, Executions, Publication, IndexerTypeOK

\* What it says of the events between the first and the saved block.
LEMMA InvSkipsNone == ASSUME IndexerInv, MaxAdvance <= 1 PROVE NoEventSkipped
<1> SUFFICES EventsOf(start, saved - 1) \subseteq stored
  BY DEF NoEventSkipped
<1>1. History /\ Store
  BY DEF IndexerInv
<1>2. CASE ~ initialized
  BY <1>1, <1>2 DEF Store, EventsOf
<1>3. CASE initialized
  <2>1. \A b \in start..(saved - 1) : b \in Blocks /\ start <= b /\ b < saved
    BY <1>1, <1>3, BlockFacts DEF Store
  <2>2. \A b \in start..(saved - 1) : logs[b] \subseteq stored
    BY <1>1, <1>3, <2>1 DEF Store, Timely
  <2> QED BY <2>2 DEF EventsOf
<1> QED BY <1>2, <1>3

\* The indexer stays within its types however its executions overlap and fail, and
\* however long they take.
THEOREM IndexerTypeCorrect == IndexerSpec => []IndexerTypeOK
<1>1. IndexerInv => IndexerTypeOK
  BY InvGivesTypes
<1> QED BY <1>1, IndexerInvInit, IndexerInvStep, PTL DEF IndexerSpec

\* No event is passed over, for any window, any number of overlapping executions,
\* faults, deployments and blocks, if at most one block is mined between the two
\* queries of an execution; IndexerSkips shows that it takes two to lose one.
THEOREM IndexerSkipsNone == MaxAdvance <= 1 => (IndexerSpec => []NoEventSkipped)
<1> SUFFICES ASSUME MaxAdvance <= 1 PROVE IndexerSpec => []NoEventSkipped
  OBVIOUS
<1>1. IndexerInv => NoEventSkipped
  BY InvSkipsNone
<1> QED BY <1>1, IndexerInvInit, IndexerInvStep, PTL DEF IndexerSpec

-----------------------------------------------------------------------------
(* One execution at a time: no event is published twice.                   *)

\* save_logs is not called again before it has ended.
Serial == \A t, u \in Tasks : t = u

\* What relayer s may have been told of e before this deployment tells it.
Fresh(s, e) == received[s][e] <= restarts /\ (e.block > start => received[s][e] = 0)

\* No relayer knows what is not read yet, nor a new store what is behind its start.
Unread ==
  /\ \A s \in Subscribers, e \in Events : initialized /\ e.block >= saved => Fresh(s, e)
  /\ ~ initialized => \A s \in Subscribers, e \in Events :
       received[s][e] <= restarts /\ \A n \in setup : received[s][e] > 0 => e.block <= n
  /\ \A s \in Subscribers, e \in Events : received[s][e] > 0 => e.block <= head

\* Alone, an execution finds the saved block where it read it, and publishes only
\* what is still fresh.
Ahead(k) ==
  /\ k.phase = "asked" => k.from = saved
  /\ k.phase = "logged" => k.to >= saved /\ \A e \in k.found : e.block >= saved
  /\ k.phase = "probing" => k.to >= saved
  /\ k.phase = "probed" => k.to >= saved
  /\ k.phase = "publishing" =>
       /\ k.rest \cap k.chunk = {}
       /\ \A e \in k.rest : e.block < saved /\ e.block >= start /\ \A s \in Subscribers : Fresh(s, e)
       /\ \A e \in k.chunk : e.block < saved /\ e.block >= start /\ \A s \in k.targets : Fresh(s, e)

\* The invariant behind PublishedAtMostOnce.
OnceInv == IndexerInv /\ PublishedAtMostOnce /\ Unread /\ \A t \in Tasks : Ahead(task[t])
-----------------------------------------------------------------------------
\* What the arithmetic of the steps needs.
LEMMA OnceFacts ==
  ASSUME IndexerInv
  PROVE  /\ head \in Nat /\ start \in Nat /\ saved \in Nat /\ restarts \in Nat
         /\ \A e \in Events : e.block \in Nat
         /\ \A s \in Subscribers, e \in Events : received[s][e] \in Nat
         /\ initialized => start <= saved /\ saved <= head + 1
         /\ \A t \in Tasks : task[t] \in TaskType /\ Progress(task[t])
<1>1. \A e \in Events : e.block \in Nat
  BY BlockFacts DEF IndexerInv
<1>2. restarts \in Nat
  BY IndexerAssumption DEF IndexerInv, Publication
<1>3. \A t \in Tasks : task[t] \in TaskType /\ Progress(task[t])
  BY DEF IndexerInv, Executions
<1>4. head \in Nat
  BY BlockFacts DEF IndexerInv
<1>5. start \in Nat /\ saved \in Nat /\ (initialized => start <= saved /\ saved <= head + 1)
  BY DEF IndexerInv, Store
<1>6. \A s \in Subscribers, e \in Events : received[s][e] \in Nat
  BY DEF IndexerInv, Publication
<1> QED BY <1>1, <1>2, <1>3, <1>4, <1>5, <1>6

\* No relayer was called at first.
LEMMA OnceInvInit == IndexerInit => OnceInv
<1> SUFFICES ASSUME IndexerInit PROVE OnceInv
  OBVIOUS
<1>1. IndexerInv
  BY IndexerInvInit
<1>2. /\ \A s \in Subscribers, e \in Events : received[s][e] = 0
      /\ initialized = FALSE /\ restarts = 0 /\ \A t \in Tasks : task[t] = Idle
  BY DEF IndexerInit
<1>3. PublishedAtMostOnce /\ Unread
  BY <1>2 DEF PublishedAtMostOnce, Unread
<1>4. \A t \in Tasks : Ahead(task[t])
  BY <1>2 DEF Ahead, Idle
<1> QED BY <1>1, <1>3, <1>4 DEF OnceInv

\* The only execution moves on, and no relayer is called.
LEMMA AloneStep ==
  ASSUME Serial, OnceInv, IndexerInv', NEW t \in Tasks, NEW k, task' = [task EXCEPT ![t] = k],
         UNCHANGED <<head, initialized, setup, start, received, restarts>>, saved <= saved', Ahead(k)'
  PROVE  OnceInv'
<1>1. IndexerInv /\ PublishedAtMostOnce /\ Unread
  BY DEF OnceInv
<1>2. PublishedAtMostOnce'
  BY <1>1 DEF PublishedAtMostOnce
<1>3. \A s \in Subscribers, e \in Events : Fresh(s, e) => Fresh(s, e)'
  BY DEF Fresh
<1>4. \A s \in Subscribers, e \in Events : initialized' /\ e.block >= saved' => Fresh(s, e)'
  <2>1. saved' \in Nat
    BY DEF IndexerInv, Store
  <2> SUFFICES ASSUME NEW s \in Subscribers, NEW e \in Events, initialized, e.block >= saved'
               PROVE  Fresh(s, e)'
    OBVIOUS
  <2>2. e.block >= saved
    BY <1>1, <2>1, OnceFacts
  <2> QED BY <1>1, <1>3, <2>2 DEF Unread
<1>5. Unread'
  BY <1>1, <1>4 DEF Unread
<1>6. \A u \in Tasks : Ahead(task[u])'
  <2> TAKE u \in Tasks
  <2>1. u = t
    BY DEF Serial
  <2>2. task'[u] = k
    BY <1>1, <2>1 DEF IndexerInv, Executions
  <2> QED BY <2>2 DEF Ahead
<1> QED BY <1>2, <1>5, <1>6 DEF OnceInv

\* No execution moves, nor the store.
LEMMA OthersStep ==
  ASSUME OnceInv, IndexerInv', UNCHANGED <<initialized, setup, start, saved, received, restarts, task>>,
         head <= head'
  PROVE  OnceInv'
<1>1. IndexerInv /\ PublishedAtMostOnce /\ Unread
  BY DEF OnceInv
<1>2. PublishedAtMostOnce'
  BY <1>1 DEF PublishedAtMostOnce
<1>3. Unread'
  <2>1. head' \in Nat
    BY IndexerAssumption DEF IndexerInv, History, Blocks
  <2>2. \A s \in Subscribers, e \in Events : received[s][e] > 0 => e.block <= head'
    BY <1>1, <2>1, OnceFacts DEF Unread
  <2> QED BY <1>1, <2>2 DEF Unread, Fresh
<1>4. \A t \in Tasks : Ahead(task[t])'
  BY DEF OnceInv, Ahead, Fresh
<1> QED BY <1>2, <1>3, <1>4 DEF OnceInv

\* A block that is mined now is behind everything that was read.
LEMMA MineOnce == ASSUME OnceInv, IndexerInv', Mine PROVE OnceInv'
<1>1. UNCHANGED <<initialized, setup, start, saved, received, restarts, task>>
  BY DEF Mine, storeVars, publishVars, boundVars
<1>2. head <= head'
  BY OnceFacts DEF OnceInv, Mine
<1> QED BY <1>1, <1>2, OthersStep

\* A relayer that subscribes late knows less than it might.
LEMMA AddSubscriberOnce == ASSUME OnceInv, IndexerInv', AddSubscriber PROVE OnceInv'
<1>1. UNCHANGED <<initialized, setup, start, saved, received, restarts, task, head>>
  BY DEF AddSubscriber, chainVars, storeVars, boundVars
<1>2. head <= head'
  BY <1>1, OnceFacts DEF OnceInv
<1> QED BY <1>1, <1>2, OthersStep

\* The store is to start with the latest block, so with none that is behind a delivery.
LEMMA SetLendPoolOnce == ASSUME OnceInv, IndexerInv', SetLendPool PROVE OnceInv'
<1>1. IndexerInv /\ PublishedAtMostOnce /\ Unread
  BY DEF OnceInv
<1>2. /\ UNCHANGED <<initialized, start, saved, received, restarts, task, head>>
      /\ setup' = setup \cup {head}
  BY DEF SetLendPool, chainVars, publishVars, boundVars
<1>3. PublishedAtMostOnce'
  BY <1>1, <1>2 DEF PublishedAtMostOnce
<1>4. Unread'
  BY <1>1, <1>2 DEF Unread, Fresh
<1>5. \A t \in Tasks : Ahead(task[t])'
  BY <1>2 DEF OnceInv, Ahead, Fresh
<1> QED BY <1>3, <1>4, <1>5 DEF OnceInv

\* A new store starts where the deliveries of the last one end, or at its last block.
LEMMA SetLendPoolAnsweredOnce ==
  ASSUME OnceInv, IndexerInv', SetLendPoolAnswered
  PROVE  OnceInv'
<1>1. IndexerInv /\ PublishedAtMostOnce /\ Unread
  BY DEF OnceInv
<1>2. UNCHANGED <<received, restarts, task, head>>
  BY DEF SetLendPoolAnswered, chainVars, publishVars, boundVars
<1>3. PICK number \in setup :
        /\ setup' = setup \ {number}
        /\ IF initialized THEN UNCHANGED <<initialized, start, saved>> ELSE SetupStore(number)
  BY DEF SetLendPoolAnswered
<1>4. CASE initialized
  <2>1. PublishedAtMostOnce'
    BY <1>1, <1>2, <1>3, <1>4 DEF PublishedAtMostOnce
  <2>2. Unread'
    BY <1>1, <1>2, <1>3, <1>4 DEF Unread, Fresh
  <2>3. \A t \in Tasks : Ahead(task[t])'
    BY <1>2, <1>3, <1>4 DEF OnceInv, Ahead, Fresh
  <2> QED BY <2>1, <2>2, <2>3 DEF OnceInv
<1>5. CASE ~ initialized
  <2>1. initialized' = TRUE /\ start' = number /\ saved' = number /\ number \in Nat
    BY <1>1, <1>3, <1>5 DEF SetupStore, IndexerInv, Store
  <2>2. \A t \in Tasks : task[t].phase = "idle"
    BY <1>1, <1>5, OnceFacts, TaskFields DEF Progress
  <2>3. \A s \in Subscribers, e \in Events : received[s][e] <= restarts /\ (received[s][e] > 0 => e.block <= number)
    BY <1>1, <1>5 DEF Unread
  <2>4. \A s \in Subscribers, e \in Events : e.block > number => received[s][e] = 0
    BY <1>1, <2>1, <2>3, OnceFacts
  <2>5. \A s \in Subscribers, e \in Events : received[s][e] <= 1 + restarts
    BY <1>1 DEF PublishedAtMostOnce
  <2>6. PublishedAtMostOnce'
    BY <1>2, <2>1, <2>4, <2>5 DEF PublishedAtMostOnce
  <2>7. \A s \in Subscribers, e \in Events : Fresh(s, e)'
    BY <1>2, <2>1, <2>3, <2>4 DEF Fresh
  <2>8. \A s \in Subscribers, e \in Events : received[s][e] > 0 => e.block <= head
    BY <1>1 DEF Unread
  <2>9. Unread'
    BY <1>2, <2>1, <2>7, <2>8 DEF Unread
  <2>10. \A t \in Tasks : Ahead(task[t])'
    BY <1>2, <2>2 DEF Ahead
  <2> QED BY <2>6, <2>9, <2>10 DEF OnceInv
<1> QED BY <1>4, <1>5

\* Another deployment may tell everything once more.
LEMMA RestartOnce == ASSUME OnceInv, IndexerInv', Restart PROVE OnceInv'
<1>1. IndexerInv /\ PublishedAtMostOnce /\ Unread
  BY DEF OnceInv
<1>2. /\ UNCHANGED <<received, task, head, setup>> /\ setup = {}
      /\ restarts' = restarts + 1 /\ initialized' = FALSE
      /\ \A t \in Tasks : task[t] = Idle
  BY DEF Restart, chainVars
<1>3. \A s \in Subscribers, e \in Events : received[s][e] <= 1 + restarts
  BY <1>1 DEF PublishedAtMostOnce
<1>4. \A s \in Subscribers, e \in Events : received[s][e] <= restarts' /\ received[s][e] <= 1 + restarts'
  BY <1>1, <1>2, <1>3, OnceFacts
<1>5. PublishedAtMostOnce' /\ Unread'
  BY <1>1, <1>2, <1>4 DEF PublishedAtMostOnce, Unread
<1>6. \A t \in Tasks : Ahead(task[t])'
  BY <1>2 DEF Ahead, Idle
<1> QED BY <1>5, <1>6 DEF OnceInv

\* The query starts at the saved block.
LEMMA QueryOnce ==
  ASSUME Serial, OnceInv, IndexerInv', NEW t \in Tasks, NEW to, Query(t, to)
  PROVE  OnceInv'
<1>1. PICK k : k = [phase |-> "asked", from |-> saved, to |-> to]
  OBVIOUS
<1>2. /\ task' = [task EXCEPT ![t] = k]
      /\ UNCHANGED <<head, initialized, setup, start, saved, received, restarts>>
  BY <1>1 DEF Query, chainVars, storeVars, publishVars, boundVars
<1>3. Ahead(k)'
  BY <1>1, <1>2 DEF Ahead
<1>4. saved <= saved'
  BY <1>2, OnceFacts DEF OnceInv
<1> QED BY <1>2, <1>3, <1>4, AloneStep

\* What is found is not read yet: the saved block stayed where it was.
LEMMA LogsAnsweredOnce ==
  ASSUME Serial, OnceInv, IndexerInv', NEW t \in Tasks, LogsAnswered(t)
  PROVE  OnceInv'
<1>1. PICK old : old = task[t]
  OBVIOUS
<1>2. IndexerInv /\ Progress(old) /\ old \in TaskType /\ old.phase = "asked" /\ Ahead(old)
  BY <1>1, OnceFacts DEF OnceInv, LogsAnswered
<1>3. initialized /\ Asked(old) /\ old.from = saved /\ old.to \in Nat
  BY <1>2, TaskFields DEF Progress, Ahead
<1>4. PICK k : k = [phase |-> "logged", to |-> old.to, seenAt |-> head,
                    found |-> EventsOf(old.from, Min({old.to, head}))]
  OBVIOUS
<1>5. /\ task' = [task EXCEPT ![t] = k]
      /\ UNCHANGED <<head, initialized, setup, start, saved, received, restarts>>
  BY <1>1, <1>4 DEF LogsAnswered, chainVars, storeVars, publishVars, boundVars
<1>6. \A e \in k.found : e.block >= saved
  <2>1. head \in Nat /\ Min({old.to, head}) \in Nat /\ Min({old.to, head}) <= head
    BY <1>2, <1>3, OnceFacts, MinOfTwo
  <2>2. 1 <= saved /\ saved \in Nat /\ History
    BY <1>2, <1>3 DEF IndexerInv, Store
  <2>3. \A e \in EventsOf(old.from, Min({old.to, head})) : e \in Events /\ saved <= e.block
    BY <1>3, <2>1, <2>2, EventsOfRange
  <2> QED BY <1>2, <1>4, <2>2, <2>3, OnceFacts
<1>7. k.to >= saved
  BY <1>3, <1>4 DEF Asked
<1>8. Ahead(k)'
  BY <1>4, <1>5, <1>6, <1>7 DEF Ahead
<1>9. saved <= saved'
  BY <1>2, <1>5, OnceFacts
<1> QED BY <1>5, <1>8, <1>9, AloneStep

\* An execution that ends is ahead of nothing.
LEMMA IdleAhead == Ahead(Idle)'
BY DEF Ahead, Idle

\* What is found is behind the old saved block and before the new one: nobody knows it.
LEMMA FoundSomeOnce ==
  ASSUME Serial, OnceInv, IndexerInv', NEW t \in Tasks, FoundSome(t)
  PROVE  OnceInv' /\ saved <= saved'
<1>1. PICK old : old = task[t]
  OBVIOUS
<1>2. IndexerInv /\ Unread /\ Progress(old) /\ old \in TaskType /\ old.phase = "logged" /\ Ahead(old)
  BY <1>1, OnceFacts DEF OnceInv, FoundSome
<1>3. /\ initialized /\ Logged(old) /\ old.found \subseteq Events /\ old.found # {}
      /\ \A e \in old.found : e.block >= saved
  BY <1>1, <1>2, TaskFields DEF Progress, Ahead, FoundSome
<1>4. UNCHANGED <<head, initialized, setup, start, received, restarts>>
  BY DEF FoundSome, chainVars, publishVars, boundVars
<1>5. CASE \E e \in old.found : ~Convertible(e)
  <2>1. task' = [task EXCEPT ![t] = Idle] /\ saved' = saved
    BY <1>1, <1>5 DEF FoundSome, Panic
  <2>2. saved <= saved'
    BY <1>2, <2>1, OnceFacts
  <2> QED BY <1>4, <2>1, <2>2, IdleAhead, AloneStep
<1>6. CASE ~ \E e \in old.found : ~Convertible(e)
  <2>1. PICK k : k = [phase |-> "publishing", rest |-> old.found, chunk |-> {}, targets |-> {}]
    OBVIOUS
  <2>2. task' = [task EXCEPT ![t] = k] /\ saved' = LastBlock(old.found) + 1
    BY <1>1, <1>6, <2>1 DEF FoundSome, StoreAndPublish, UpdateSavedBlock
  <2>3. LastBlock(old.found) \in Nat /\ \A e \in old.found : e.block <= LastBlock(old.found)
    <3> DEFINE S == {e.block : e \in old.found}
    <3>1. S \in SUBSET Nat /\ S # {} /\ \A x \in S : x <= head
      <4>1. \A e \in old.found : e.block \in Nat /\ e.block <= head
        <5> SUFFICES ASSUME NEW e \in old.found PROVE e.block \in Nat /\ e.block <= head
          OBVIOUS
        <5>1. e.block <= old.seenAt /\ old.seenAt <= head /\ old.seenAt \in Nat
          BY <1>2, <1>3, TaskFields, BlockFacts DEF Logged, IndexerInv
        <5> QED BY <1>2, <1>3, <5>1, OnceFacts
      <4> QED BY <1>3, <4>1
    <3> HIDE DEF S
    <3>2. Max(S) \in S /\ \A x \in S : x <= Max(S)
      BY <1>2, <3>1, OnceFacts, MaxOfBlocks
    <3>3. Max(S) \in Nat
      BY <3>1, <3>2
    <3> QED BY <3>2, <3>3 DEF S, LastBlock
  <2>4. \A e \in old.found : e.block < saved' /\ saved <= e.block /\ start <= e.block
    BY <1>2, <1>3, <2>2, <2>3, OnceFacts
  <2>5. saved <= saved'
    <3>1. PICK e \in old.found : TRUE
      BY <1>3
    <3> QED BY <1>2, <1>3, <2>2, <2>3, <2>4, <3>1, OnceFacts
  <2>6. \A e \in old.found : \A s \in Subscribers : Fresh(s, e)'
    BY <1>2, <1>3, <1>4 DEF Unread, Fresh
  <2>7. Ahead(k)'
    BY <1>4, <2>1, <2>4, <2>6, OnceFacts, <1>2, <1>3, <2>2, <2>3 DEF Ahead
  <2> QED BY <1>4, <2>2, <2>5, <2>7, AloneStep
<1> QED BY <1>5, <1>6

\* The range that is probed is that of the query.
LEMMA FoundNoneOnce ==
  ASSUME Serial, OnceInv, IndexerInv', NEW t \in Tasks, FoundNone(t)
  PROVE  OnceInv'
<1>1. PICK old : old = task[t]
  OBVIOUS
<1>2. IndexerInv /\ old.phase = "logged" /\ Ahead(old)
  BY <1>1 DEF OnceInv, FoundNone
<1>3. PICK k : k = [phase |-> "probing", to |-> old.to, seenAt |-> old.seenAt]
  OBVIOUS
<1>4. /\ task' = [task EXCEPT ![t] = k]
      /\ UNCHANGED <<head, initialized, setup, start, saved, received, restarts>>
  BY <1>1, <1>3 DEF FoundNone, chainVars, storeVars, publishVars, boundVars
<1>5. Ahead(k)'
  BY <1>2, <1>3, <1>4 DEF Ahead
<1>6. saved <= saved'
  BY <1>2, <1>4, OnceFacts
<1> QED BY <1>4, <1>5, <1>6, AloneStep

\* So is the one whose last block is there.
LEMMA BlockAnsweredOnce ==
  ASSUME Serial, OnceInv, IndexerInv', NEW t \in Tasks, BlockAnswered(t)
  PROVE  OnceInv'
<1>1. PICK old : old = task[t]
  OBVIOUS
<1>2. IndexerInv /\ old.phase = "probing" /\ Ahead(old)
  BY <1>1 DEF OnceInv, BlockAnswered
<1>3. PICK k : k = [phase |-> "probed", to |-> old.to, exists |-> old.to <= head]
  OBVIOUS
<1>4. /\ task' = [task EXCEPT ![t] = k]
      /\ UNCHANGED <<head, initialized, setup, start, saved, received, restarts>>
  BY <1>1, <1>3 DEF BlockAnswered, chainVars, storeVars, publishVars, boundVars
<1>5. Ahead(k)'
  BY <1>2, <1>3, <1>4 DEF Ahead
<1>6. saved <= saved'
  BY <1>2, <1>4, OnceFacts
<1> QED BY <1>4, <1>5, <1>6, AloneStep

\* The saved block moves up to the end of the range.
LEMMA ProbedOnce ==
  ASSUME Serial, OnceInv, IndexerInv', NEW t \in Tasks, Probed(t)
  PROVE  OnceInv' /\ saved <= saved'
<1>1. IndexerInv /\ task[t].phase = "probed" /\ Ahead(task[t]) /\ task[t] \in TaskType
  BY OnceFacts DEF OnceInv, Probed
<1>2. /\ UNCHANGED <<head, initialized, setup, start, received, restarts>>
      /\ task' = [task EXCEPT ![t] = Idle]
      /\ IF task[t].exists THEN saved' = task[t].to ELSE saved' = saved
  BY DEF Probed, chainVars, publishVars, boundVars, UpdateSavedBlock
<1>3. saved <= saved'
  BY <1>1, <1>2, OnceFacts, TaskFields DEF Ahead
<1> QED BY <1>2, <1>3, IdleAhead, AloneStep

\* A failed query and the end of a publication change nothing but the execution.
LEMMA EndOnce ==
  ASSUME Serial, OnceInv, IndexerInv', NEW t \in Tasks, QueryFails(t) \/ Published(t)
  PROVE  OnceInv'
<1>1. /\ UNCHANGED <<head, initialized, setup, start, saved, received, restarts>>
      /\ task' = [task EXCEPT ![t] = Idle]
  BY DEF QueryFails, Published, Panic, chainVars, storeVars, publishVars, boundVars
<1>2. saved <= saved'
  BY <1>1, OnceFacts DEF OnceInv
<1> QED BY <1>1, <1>2, IdleAhead, AloneStep

\* The chunk leaves what remains to be published.
LEMMA NextChunkOnce ==
  ASSUME Serial, OnceInv, IndexerInv', NEW t \in Tasks, NextChunk(t)
  PROVE  OnceInv'
<1>1. IndexerInv /\ task[t].phase = "publishing" /\ Ahead(task[t])
  BY DEF OnceInv, NextChunk
<1>2. PICK chunk \in kSubset(Min({ChunkSize, Cardinality(task[t].rest)}), task[t].rest) :
        task' = [task EXCEPT ![t] = [phase |-> "publishing", rest |-> task[t].rest \ chunk,
                                     chunk |-> chunk, targets |-> subscribed]]
  BY DEF NextChunk
<1>3. PICK k : k = [phase |-> "publishing", rest |-> task[t].rest \ chunk,
                    chunk |-> chunk, targets |-> subscribed]
  OBVIOUS
<1>4. chunk \subseteq task[t].rest
  BY DEF kSubset
<1>5. /\ task' = [task EXCEPT ![t] = k]
      /\ UNCHANGED <<head, initialized, setup, start, saved, received, restarts>>
  BY <1>2, <1>3 DEF NextChunk, chainVars, storeVars, publishVars, boundVars
<1>6. k.targets \subseteq Subscribers
  BY <1>1, <1>3 DEF IndexerInv, Publication
<1>7. \A e \in task[t].rest : e.block < saved /\ e.block >= start /\ \A s \in Subscribers : Fresh(s, e)
  BY <1>1 DEF Ahead
<1>8. \A e \in task[t].rest : \A s \in Subscribers : Fresh(s, e)'
  BY <1>5, <1>7 DEF Fresh
<1>9. Ahead(k)'
  BY <1>3, <1>4, <1>5, <1>6, <1>7, <1>8 DEF Ahead
<1>10. saved <= saved'
  BY <1>1, <1>5, OnceFacts
<1> QED BY <1>5, <1>9, <1>10, AloneStep

\* A relayer is called with a chunk once, and is a target of it no longer.
LEMMA DeliverOnce ==
  ASSUME Serial, OnceInv, IndexerInv', NEW t \in Tasks, NEW s \in Subscribers, Deliver(t, s)
  PROVE  OnceInv'
<1>1. PICK old : old = task[t]
  OBVIOUS
<1>2. /\ IndexerInv /\ PublishedAtMostOnce /\ Unread /\ Progress(old) /\ old \in TaskType
      /\ Ahead(old) /\ old.phase = "publishing" /\ s \in old.targets
  BY <1>1, OnceFacts DEF OnceInv, Deliver
<1>3. initialized /\ old.targets \subseteq Subscribers
  BY <1>2, TaskFields DEF Progress
<1>4. /\ UNCHANGED <<head, initialized, setup, start, saved, restarts>>
      /\ task' = [task EXCEPT ![t].targets = @ \ {s}]
  BY DEF Deliver, chainVars, storeVars, boundVars
<1>5. /\ \A r \in Subscribers, e \in Events :
           received'[r][e] = IF r = s /\ e \in old.chunk THEN received[r][e] + 1 ELSE received[r][e]
  BY <1>1, <1>2 DEF Deliver, IndexerInv, Publication
<1>6. \A e \in old.chunk : e.block < saved /\ e.block >= start /\ Fresh(s, e)
  BY <1>2 DEF Ahead
<1>7. PublishedAtMostOnce'
  <2> SUFFICES ASSUME NEW r \in Subscribers, NEW e \in Events
               PROVE  /\ received'[r][e] <= 1 + restarts
                      /\ e.block > start => received'[r][e] <= 1
    BY <1>4 DEF PublishedAtMostOnce
  <2>1. /\ received[r][e] <= 1 + restarts
        /\ e.block > start => received[r][e] <= 1
    BY <1>2, <1>3 DEF PublishedAtMostOnce
  <2>2. CASE r = s /\ e \in old.chunk
    BY <1>2, <1>5, <1>6, <2>2, OnceFacts DEF Fresh
  <2>3. CASE ~ (r = s /\ e \in old.chunk)
    BY <1>5, <2>1, <2>3
  <2> QED BY <2>2, <2>3
<1>8. \A r \in Subscribers, e \in Events :
        Fresh(r, e) /\ ~ (r = s /\ e \in old.chunk) => Fresh(r, e)'
  BY <1>4, <1>5 DEF Fresh
<1>9. Unread'
  <2>1. \A r \in Subscribers, e \in Events : e.block >= saved => Fresh(r, e)'
    <3> TAKE r \in Subscribers, e \in Events
    <3>1. e.block >= saved => e \notin old.chunk
      BY <1>2, <1>6, OnceFacts
    <3> QED BY <1>2, <1>3, <1>8, <3>1 DEF Unread
  <2>2. \A r \in Subscribers, e \in Events : received'[r][e] > 0 => e.block <= head
    <3> TAKE r \in Subscribers, e \in Events
    <3>1. e \in old.chunk => e.block <= head
      BY <1>2, <1>3, <1>6, OnceFacts
    <3> QED BY <1>2, <1>5, <3>1 DEF Unread
  <2> QED BY <1>3, <1>4, <2>1, <2>2 DEF Unread
<1>10. PICK k : k = [old EXCEPT !.targets = @ \ {s}]
  OBVIOUS
<1>11. task' = [task EXCEPT ![t] = k]
  BY <1>1, <1>4, <1>10
<1>12. /\ k.phase = "publishing" /\ k.rest = old.rest /\ k.chunk = old.chunk
       /\ k.targets = old.targets \ {s}
  <2>1. old \in [phase : {"publishing"}, rest : SUBSET Events, chunk : SUBSET Events,
                 targets : SUBSET Subscribers]
    BY <1>2 DEF TaskType, Idle
  <2> QED BY <1>10, <2>1
<1>13. Ahead(k)'
  <2>1. /\ old.rest \cap old.chunk = {} /\ old.rest \subseteq Events /\ old.chunk \subseteq Events
        /\ \A e \in old.rest : e.block < saved /\ e.block >= start /\ \A r \in Subscribers : Fresh(r, e)
        /\ \A e \in old.chunk : \A r \in old.targets : Fresh(r, e)
    BY <1>2, TaskFields DEF Ahead
  <2>2. \A e \in old.rest : \A r \in Subscribers : Fresh(r, e)'
    BY <1>8, <2>1
  <2>3. \A e \in old.chunk : \A r \in old.targets \ {s} : Fresh(r, e)'
    BY <1>3, <1>8, <2>1
  <2> QED BY <1>4, <1>6, <1>12, <2>1, <2>2, <2>3 DEF Ahead
<1>14. \A u \in Tasks : Ahead(task[u])'
  <2> TAKE u \in Tasks
  <2>1. u = t
    BY DEF Serial
  <2>2. task'[u] = k
    BY <1>2, <1>11, <2>1 DEF IndexerInv, Executions
  <2> QED BY <1>13, <2>2 DEF Ahead
<1> QED BY <1>7, <1>9, <1>14 DEF OnceInv

\* A call that fails is not made again, and delivers nothing.
LEMMA UndeliveredOnce ==
  ASSUME Serial, OnceInv, IndexerInv', NEW t \in Tasks, NEW s \in Subscribers, Undelivered(t, s)
  PROVE  OnceInv'
<1>1. PICK old : old = task[t]
  OBVIOUS
<1>2. IndexerInv /\ old \in TaskType /\ Ahead(old) /\ old.phase = "publishing"
  BY <1>1, OnceFacts DEF OnceInv, Undelivered
<1>3. /\ UNCHANGED <<head, initialized, setup, start, saved, received, restarts>>
      /\ task' = [task EXCEPT ![t].targets = @ \ {s}]
  BY DEF Undelivered, chainVars, storeVars
<1>4. PICK k : k = [old EXCEPT !.targets = @ \ {s}]
  OBVIOUS
<1>5. task' = [task EXCEPT ![t] = k]
  BY <1>1, <1>3, <1>4
<1>6. /\ k.phase = "publishing" /\ k.rest = old.rest /\ k.chunk = old.chunk
      /\ k.targets \subseteq old.targets
  <2>1. old \in [phase : {"publishing"}, rest : SUBSET Events, chunk : SUBSET Events,
                 targets : SUBSET Subscribers]
    BY <1>2 DEF TaskType, Idle
  <2> QED BY <1>4, <2>1
<1>7. Ahead(k)'
  BY <1>2, <1>3, <1>6 DEF Ahead, Fresh
<1>8. saved <= saved'
  BY <1>2, <1>3, OnceFacts
<1> QED BY <1>3, <1>5, <1>7, <1>8, AloneStep

\* Every step keeps the invariant, and the saved block falls with a deployment only.
LEMMA OnceInvStep ==
  ASSUME Serial, OnceInv, [IndexerNext]_indexerVars
  PROVE  OnceInv' /\ (initialized /\ initialized' => saved' >= saved)
<1>1. IndexerInv /\ IndexerInv'
  BY IndexerInvStep DEF OnceInv
<1>2. ASSUME UNCHANGED saved PROVE saved' >= saved
  BY <1>1, <1>2, OnceFacts
<1>3. CASE UNCHANGED indexerVars
  <2>1. UNCHANGED <<initialized, setup, start, saved, received, restarts, task, head>>
    BY <1>3 DEF indexerVars, chainVars, storeVars, publishVars, boundVars
  <2>2. head <= head'
    BY <1>1, <2>1, OnceFacts
  <2> QED BY <1>1, <1>2, <2>1, <2>2, OthersStep
<1>4. CASE Mine \/ AddSubscriber \/ SetLendPool
  <2>1. UNCHANGED saved
    BY <1>4 DEF Mine, AddSubscriber, SetLendPool, storeVars
  <2> QED BY <1>1, <1>2, <1>4, <2>1, MineOnce, AddSubscriberOnce, SetLendPoolOnce
<1>5. CASE SetLendPoolAnswered
  <2>1. initialized => UNCHANGED saved
    BY <1>5 DEF SetLendPoolAnswered
  <2> QED BY <1>1, <1>2, <1>5, <2>1, SetLendPoolAnsweredOnce
<1>6. CASE Restart
  <2>1. ~ initialized'
    BY <1>6 DEF Restart
  <2> QED BY <1>1, <1>6, <2>1, RestartOnce
<1>7. ASSUME NEW t \in Tasks, SaveLogs(t) \/ SaveLogsTo(t)
      PROVE  OnceInv' /\ UNCHANGED saved
  <2>1. PICK to : Query(t, to)
    BY <1>7 DEF SaveLogs, SaveLogsTo
  <2> QED BY <1>1, <2>1, QueryOnce DEF Query, storeVars
<1>8. ASSUME NEW t \in Tasks, FoundSome(t) \/ Probed(t)
      PROVE  OnceInv' /\ saved <= saved'
  BY <1>1, <1>8, FoundSomeOnce, ProbedOnce
<1>9. ASSUME NEW t \in Tasks, LogsAnswered(t) \/ FoundNone(t) \/ BlockAnswered(t) \/ QueryFails(t)
                              \/ NextChunk(t) \/ Published(t)
      PROVE  OnceInv' /\ UNCHANGED saved
  <2>1. UNCHANGED saved
    BY <1>9 DEF LogsAnswered, FoundNone, BlockAnswered, QueryFails, NextChunk, Published, storeVars
  <2> QED BY <1>1, <1>9, <2>1, LogsAnsweredOnce, FoundNoneOnce, BlockAnsweredOnce, EndOnce, NextChunkOnce
<1>10. ASSUME NEW t \in Tasks, NEW s \in Subscribers, Deliver(t, s) \/ DeliverFails(t, s)
       PROVE  OnceInv' /\ UNCHANGED saved
  <2>1. UNCHANGED saved
    BY <1>10 DEF Deliver, DeliverFails, Undelivered, storeVars
  <2> QED BY <1>1, <1>10, <2>1, DeliverOnce, UndeliveredOnce DEF DeliverFails
<1>11. CASE Stimulus
  BY <1>2, <1>4, <1>5, <1>7, <1>11 DEF Stimulus
<1>12. saved \in Nat /\ saved' \in Nat
  BY <1>1 DEF IndexerInv, Store
<1>13. ASSUME NEW t \in Tasks, Proceed(t) \/ QueryFails(t) \/ \E s \in Subscribers : DeliverFails(t, s)
       PROVE  OnceInv' /\ saved' >= saved
  BY <1>2, <1>8, <1>9, <1>10, <1>12, <1>13 DEF Proceed, Step
<1> QED BY <1>3, <1>6, <1>11, <1>13 DEF IndexerNext

\* No relayer is called twice with one event by one deployment, for any window,
\* chunk size, number of relayers, faults and deployments, as long as one execution
\* ends before the next begins.
THEOREM IndexerPublishesOnce == Serial => (IndexerSpec => []PublishedAtMostOnce)
<1> SUFFICES ASSUME Serial PROVE IndexerSpec => []PublishedAtMostOnce
  OBVIOUS
<1>1. OnceInv /\ [IndexerNext]_indexerVars => OnceInv'
  BY OnceInvStep
<1>2. OnceInv => PublishedAtMostOnce
  BY DEF OnceInv
<1> QED BY <1>1, <1>2, OnceInvInit, PTL DEF IndexerSpec

\* Within one deployment the saved block only rises, for the same executions: no
\* block before it is asked for a second time.
THEOREM IndexerOnlyAdvances == Serial => (IndexerSpec => SavedNeverFalls)
<1> SUFFICES ASSUME Serial PROVE IndexerSpec => SavedNeverFalls
  OBVIOUS
<1>1. OnceInv /\ [IndexerNext]_indexerVars => OnceInv'
  BY OnceInvStep
<1>2. OnceInv /\ [IndexerNext]_indexerVars
        => [initialized /\ initialized' => saved' >= saved]_indexerVars
  BY OnceInvStep
<1> QED BY <1>1, <1>2, OnceInvInit, PTL DEF IndexerSpec, SavedNeverFalls
=============================================================================
