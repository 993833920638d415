------------------------------ MODULE LogIndexer ------------------------------
(***************************************************************************)
(* chainsight/src/lock_indexer: the canister that reads the LockCreated    *)
(* events of one chain and publishes them to its subscribers, the          *)
(* relayers.  unlock_indexer is the same program for LockReleased.         *)
(*                                                                         *)
(* A canister runs one message at a time, but gives way at every await:    *)
(* the calls to the chain's RPC node and to the subscribers.  A task is    *)
(* one execution of save_logs or save_logs_to; its phase says which await  *)
(* it stands at, and whether the answer is on its way back:                *)
(*                                                                         *)
(*   asked -> logged -> (publishing | probing -> probed) -> done           *)
(*                                                                         *)
(* A continuation that panics loses the task and every change it made      *)
(* since its last await.                                                   *)
(***************************************************************************)
EXTENDS Networks, FiniteSets, FiniteSetsExt

CONSTANTS
  Tasks,        \* bound: executions of save_logs that can overlap
  Subscribers,  \* the relayers that may subscribe
  Window,       \* 100000: the blocks save_logs asks for at once
  ChunkSize,    \* 800: the events in one call to a subscriber
  PeerIds,      \* the chain ids that events name
  MaxHead,      \* bound: blocks of the chain
  MaxPerBlock,  \* bound: events in one block
  MaxFaults,    \* bound: calls that fail
  MaxSetups,    \* bound: set_lend_pool calls under way
  MaxRestarts,  \* bound: deployments after the first
  MaxAdvance    \* timing: blocks mined between a task's two RPC queries

ASSUME IndexerAssumption ==
  /\ Window \in Nat \ {0} /\ ChunkSize \in Nat \ {0}
  /\ PeerIds \subseteq Nat
  /\ MaxHead \in Nat \ {0} /\ MaxPerBlock \in Nat
  /\ MaxFaults \in Nat /\ MaxSetups \in Nat /\ MaxRestarts \in Nat /\ MaxAdvance \in Nat

VARIABLES
  head,        \* the chain's latest block
  logs,        \* logs[b]: the events of block b
  initialized, \* STORE_INITIALZED
  setup,       \* the block numbers answered to set_lend_pool calls under way
  start,       \* the block the store was set up with
  saved,       \* SAVED_BLOCK_STORE: the next query starts there
  stored,      \* STATE: the events in the store
  subscribed,  \* SUBSCRIBERS
  task,        \* task[t]: the execution t
  received,    \* received[s][e]: how often relayer s was called with e
  undelivered, \* the <<relayer, event>> pairs whose call failed
  faults,      \* how many calls failed
  restarts     \* how often the canisters were deployed anew

chainVars == <<head, logs>>
storeVars == <<initialized, setup, start, saved, stored>>
publishVars == <<subscribed, received, undelivered>>
boundVars == <<faults, restarts>>
indexerVars == <<chainVars, storeVars, publishVars, task, boundVars>>

Blocks == 1..MaxHead
Events == [block : Blocks, index : 1..MaxPerBlock, peer : PeerIds]
EventsOf(first, last) == UNION {logs[b] : b \in first..last}

\* What a block can contain: some events, numbered from one.
BlockContents(b) ==
  UNION {{{[block |-> b, index |-> i, peer |-> peer[i]] : i \in 1..n} : peer \in [1..n -> PeerIds]}
           : n \in 0..MaxPerBlock}

Idle == [phase |-> "idle"]

IndexerInit ==
  /\ head = 1
  /\ \E events \in BlockContents(1) : logs = [b \in Blocks |-> IF b = 1 THEN events ELSE {}]
  /\ initialized = FALSE
  /\ setup = {}
  /\ start = 0 /\ saved = 0
  /\ stored = {}
  /\ subscribed = {}
  /\ task = [t \in Tasks |-> Idle]
  /\ received = [s \in Subscribers |-> [e \in Events |-> 0]]
  /\ undelivered = {}
  /\ faults = 0 /\ restarts = 0

-----------------------------------------------------------------------------
(* The chain. *)

\* Between the two queries of a task the chain grows by at most MaxAdvance blocks.
Mine ==
  /\ head < MaxHead
  /\ \A t \in Tasks : task[t].phase \in {"logged", "probing"} =>
       head - task[t].seenAt < MaxAdvance
  /\ head' = head + 1
  /\ \E events \in BlockContents(head + 1) : logs' = [logs EXCEPT ![head + 1] = events]
  /\ UNCHANGED <<storeVars, publishVars, task, boundVars>>

-----------------------------------------------------------------------------
(* The store. *)

\* store::setup, with the flag that set_lend_pool keeps.
SetupStore(number) ==
  initialized' = TRUE /\ start' = number /\ saved' = number

\* store::add_events, once for each block that has some: it replaces what the store
\* had of that block.  It also saves the number of the block, which its caller writes
\* again before the next await.
AddEvents(events) ==
  stored' = {e \in stored : \A new \in events : new.block # e.block} \cup events

\* store::update_saved_block.
UpdateSavedBlock(number) == saved' = number

-----------------------------------------------------------------------------
(* Set-up and subscriptions. *)

\* set_lend_pool, up to its await: the node answers with its latest block.
SetLendPool ==
  /\ Cardinality(setup \cup {head}) <= MaxSetups
  /\ setup' = setup \cup {head}
  /\ UNCHANGED <<initialized, start, saved, stored, chainVars, publishVars, task, boundVars>>

\* Mutation: every call sets up the store anew.
SetLendPoolAnsweredAgain ==
  \E number \in setup :
    /\ setup' = setup \ {number}
    /\ SetupStore(number)
    /\ UNCHANGED <<stored, chainVars, publishVars, task, boundVars>>

\* set_lend_pool, after its await: only the first call sets up the store.
SetLendPoolAnswered ==
  \E number \in setup :
    /\ setup' = setup \ {number}
    /\ IF initialized THEN UNCHANGED <<initialized, start, saved>>
       ELSE SetupStore(number)
    /\ UNCHANGED <<stored, chainVars, publishVars, task, boundVars>>

\* The canisters are stopped, which waits for the calls under way, deleted and
\* deployed again: nothing of what the indexer kept survives.
Restart ==
  /\ restarts < MaxRestarts /\ initialized
  /\ setup = {} /\ \A t \in Tasks : task[t] = Idle
  /\ restarts' = restarts + 1
  /\ initialized' = FALSE /\ start' = 0 /\ saved' = 0 /\ stored' = {}
  /\ subscribed' = {}
  /\ UNCHANGED <<setup, received, undelivered, chainVars, task, faults>>

AddSubscriber ==
  \E s \in Subscribers \ subscribed :
    /\ subscribed' = subscribed \cup {s}
    /\ UNCHANGED <<received, undelivered, chainVars, storeVars, task, boundVars>>

-----------------------------------------------------------------------------
(* The tasks.  The deployment calls set_lend_pool before any of them. *)

\* LockCreatedEvent::from and LockReleasedEvent::from panic for an unknown id.
Convertible(e) == e.peer \in SupportedIds

Query(t, to) ==
  /\ initialized /\ task[t].phase = "idle"
  /\ task' = [task EXCEPT ![t] = [phase |-> "asked", from |-> saved, to |-> to]]
  /\ UNCHANGED <<chainVars, storeVars, publishVars, boundVars>>

\* save_logs, from the timer or a caller, up to its first await.
SaveLogs(t) == Query(t, saved + Window)

\* save_logs_to.
SaveLogsTo(t) == \E to \in Blocks : saved < to /\ Query(t, to)

\* The node answers eth_getLogs with what it has of the range.
LogsAnswered(t) ==
  /\ task[t].phase = "asked"
  /\ task' = [task EXCEPT ![t] =
                [phase |-> "logged", to |-> task[t].to, seenAt |-> head,
                 found |-> EventsOf(task[t].from, Min({task[t].to, head}))]]
  /\ UNCHANGED <<chainVars, storeVars, publishVars, boundVars>>

\* The events go into the store, the saved block moves, and publication begins.
StoreAndPublish(t, events, next) ==
  /\ AddEvents(events) /\ UpdateSavedBlock(next)
  /\ task' = [task EXCEPT ![t] = [phase |-> "publishing", rest |-> events,
                                  chunk |-> {}, targets |-> {}]]

\* The task panics: nothing of it remains.
Panic(t) == task' = [task EXCEPT ![t] = Idle]

LastBlock(events) == Max({e.block : e \in events})

\* Mutation: the saved block is that of the last event, not the one behind it.
FoundSomeAtLast(t) ==
  /\ task[t].phase = "logged" /\ task[t].found # {}
  /\ IF \E e \in task[t].found : ~Convertible(e)
     THEN Panic(t) /\ UNCHANGED <<saved, stored>>
     ELSE StoreAndPublish(t, task[t].found, LastBlock(task[t].found))
  /\ UNCHANGED <<initialized, setup, start, chainVars, publishVars, boundVars>>

\* Mutation: an event that cannot be converted is skipped instead of failing the task.
FoundSomeSkippingBad(t) ==
  /\ task[t].phase = "logged" /\ task[t].found # {}
  /\ StoreAndPublish(t, {e \in task[t].found : Convertible(e)}, LastBlock(task[t].found) + 1)
  /\ UNCHANGED <<initialized, setup, start, chainVars, publishVars, boundVars>>

\* Mutation: the execution returns once the events are saved.
FoundSomeUnpublished(t) ==
  /\ task[t].phase = "logged" /\ task[t].found # {}
  /\ AddEvents(task[t].found) /\ UpdateSavedBlock(LastBlock(task[t].found) + 1)
  /\ Panic(t)
  /\ UNCHANGED <<initialized, setup, start, chainVars, publishVars, boundVars>>

\* After find: the events are converted (a bad one panics), put into the store
\* and the saved block set behind the last of them, all before the next await.
FoundSome(t) ==
  /\ task[t].phase = "logged" /\ task[t].found # {}
  /\ IF \E e \in task[t].found : ~Convertible(e)
     THEN Panic(t) /\ UNCHANGED <<saved, stored>>
     ELSE StoreAndPublish(t, task[t].found, LastBlock(task[t].found) + 1)
  /\ UNCHANGED <<initialized, setup, start, chainVars, publishVars, boundVars>>

\* No event: ask whether the last block of the range exists yet.
FoundNone(t) ==
  /\ task[t].phase = "logged" /\ task[t].found = {}
  /\ task' = [task EXCEPT ![t] = [phase |-> "probing", to |-> task[t].to,
                                  seenAt |-> task[t].seenAt]]
  /\ UNCHANGED <<chainVars, storeVars, publishVars, boundVars>>

BlockAnswered(t) ==
  /\ task[t].phase = "probing"
  /\ task' = [task EXCEPT ![t] = [phase |-> "probed", to |-> task[t].to,
                                  exists |-> task[t].to <= head]]
  /\ UNCHANGED <<chainVars, storeVars, publishVars, boundVars>>

\* Mutation: the query ends with to, so the next one might start behind it.
ProbedBehind(t) ==
  /\ task[t].phase = "probed"
  /\ IF task[t].exists THEN UpdateSavedBlock(task[t].to + 1) ELSE UNCHANGED saved
  /\ task' = [task EXCEPT ![t] = Idle]
  /\ UNCHANGED <<initialized, setup, start, stored, chainVars, publishVars, boundVars>>

\* Mutation: whether the block exists is not looked at.
ProbedUnchecked(t) ==
  /\ task[t].phase = "probed"
  /\ UpdateSavedBlock(task[t].to)
  /\ task' = [task EXCEPT ![t] = Idle]
  /\ UNCHANGED <<initialized, setup, start, stored, chainVars, publishVars, boundVars>>

\* It does: the next query starts with it.  Else the next one repeats this one.
Probed(t) ==
  /\ task[t].phase = "probed"
  /\ IF task[t].exists THEN UpdateSavedBlock(task[t].to) ELSE UNCHANGED saved
  /\ task' = [task EXCEPT ![t] = Idle]
  /\ UNCHANGED <<initialized, setup, start, stored, chainVars, publishVars, boundVars>>

\* An RPC call fails: its unwrap panics and the task is gone.
QueryFails(t) ==
  /\ task[t].phase \in {"asked", "probing"} /\ faults < MaxFaults
  /\ faults' = faults + 1
  /\ Panic(t)
  /\ UNCHANGED <<chainVars, storeVars, publishVars, restarts>>

\* publish: the next chunk, for those who are subscribed by now.
NextChunk(t) ==
  /\ task[t].phase = "publishing" /\ task[t].targets = {} /\ task[t].rest # {}
  /\ \E chunk \in kSubset(Min({ChunkSize, Cardinality(task[t].rest)}), task[t].rest) :
       task' = [task EXCEPT ![t] = [phase |-> "publishing", rest |-> task[t].rest \ chunk,
                                    chunk |-> chunk, targets |-> subscribed]]
  /\ UNCHANGED <<chainVars, storeVars, publishVars, boundVars>>

\* on_update of subscriber s is answered; then the next is called.
Deliver(t, s) ==
  /\ task[t].phase = "publishing" /\ s \in task[t].targets
  /\ received' = [received EXCEPT ![s] =
                    [e \in Events |-> IF e \in task[t].chunk THEN @[e] + 1 ELSE @[e]]]
  /\ task' = [task EXCEPT ![t].targets = @ \ {s}]
  /\ UNCHANGED <<subscribed, undelivered, chainVars, storeVars, boundVars>>

\* The call is answered by an error: publish prints it and goes on.
Undelivered(t, s) ==
  /\ task[t].phase = "publishing" /\ s \in task[t].targets
  /\ undelivered' = undelivered \cup ({s} \X task[t].chunk)
  /\ task' = [task EXCEPT ![t].targets = @ \ {s}]
  /\ UNCHANGED <<subscribed, received, chainVars, storeVars, restarts>>

DeliverFails(t, s) ==
  /\ faults < MaxFaults
  /\ faults' = faults + 1
  /\ Undelivered(t, s)

Published(t) ==
  /\ task[t].phase = "publishing" /\ task[t].targets = {} /\ task[t].rest = {}
  /\ task' = [task EXCEPT ![t] = Idle]
  /\ UNCHANGED <<chainVars, storeVars, publishVars, boundVars>>

\* The indexer's own steps of a task, from one await to the next.
Step(t) ==
  \/ LogsAnswered(t) \/ FoundSome(t) \/ FoundNone(t) \/ BlockAnswered(t) \/ Probed(t)
  \/ NextChunk(t) \/ Published(t)

Proceed(t) == Step(t) \/ \E s \in Subscribers : Deliver(t, s)

\* What starts by itself, or from outside.
Stimulus ==
  \/ Mine \/ SetLendPool \/ SetLendPoolAnswered \/ AddSubscriber
  \/ \E t \in Tasks : SaveLogs(t) \/ SaveLogsTo(t)

IndexerNext ==
  \/ Stimulus \/ Restart
  \/ \E t \in Tasks : \/ Proceed(t) \/ QueryFails(t)
                      \/ \E s \in Subscribers : DeliverFails(t, s)

IndexerSpec == IndexerInit /\ [][IndexerNext]_indexerVars
-----------------------------------------------------------------------------
(* Properties. *)

TaskType ==
  {Idle}
    \cup [phase : {"asked"}, from : Nat, to : Nat]
    \cup [phase : {"logged"}, to : Nat, seenAt : Blocks, found : SUBSET Events]
    \cup [phase : {"probing"}, to : Nat, seenAt : Blocks]
    \cup [phase : {"probed"}, to : Nat, exists : BOOLEAN]
    \cup [phase : {"publishing"}, rest : SUBSET Events, chunk : SUBSET Events,
          targets : SUBSET Subscribers]

\* Every variable has its type; the blocks of a query and of the store exist or
\* are still to come.
IndexerTypeOK ==
  /\ head \in Blocks /\ logs \in [Blocks -> SUBSET Events]
  /\ initialized \in BOOLEAN /\ setup \subseteq 1..head
  /\ start \in 0..head /\ saved \in start..(head + 1)
  /\ stored \subseteq EventsOf(1, head)
  /\ subscribed \subseteq Subscribers
  /\ \A t \in Tasks : task[t] \in TaskType
  /\ received \in [Subscribers -> [Events -> Nat]]
  /\ undelivered \subseteq Subscribers \X Events
  /\ faults \in 0..MaxFaults /\ restarts \in 0..MaxRestarts

\* No event is passed over: everything between the block the store was set up
\* with and the saved block is stored, however the tasks overlap and fail.  So
\* the saved block can never pass an event that cannot be converted either.
NoEventSkipped == EventsOf(start, saved - 1) \subseteq stored

\* One onLockCreated transaction per lock (README.md:117): no relayer is called
\* twice with one event.  Only a deployment that starts with a block its
\* predecessor has read publishes the events of that one block again.
PublishedAtMostOnce ==
  \A s \in Subscribers, e \in Events :
    /\ received[s][e] <= 1 + restarts
    /\ e.block > start /\ initialized => received[s][e] <= 1

\* Between two deployments the saved block never falls, also when set_lend_pool is
\* called again: no event is read a second time.
SavedNeverFalls == [][initialized /\ initialized' => saved' >= saved]_indexerVars
=============================================================================
