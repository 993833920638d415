------------------------------ MODULE LockRelay ------------------------------
(***************************************************************************)
(* chainsight/src/lock_relayer behind the indexer that publishes to it: a  *)
(* call of on_update sends one transaction for each event of its batch, to *)
(* the adapter of the chain the event names.  unlock_relayer is the same   *)
(* program for the events of unlock_indexer.                               *)
(*                                                                         *)
(* publish awaits the call, so that a task has at most one under way:      *)
(*                                                                         *)
(*   OnUpdate -> (Send -> Sent | SendFails)* -> Answered | Trapped         *)
(*                                                                         *)
(* A trap ends the call with an error, which publish prints; it undoes     *)
(* nothing of the iterations before it, as each ended with an await.       *)
(***************************************************************************)
EXTENDS LogIndexer

CONSTANTS
  Home,            \* the network the indexer reads
  AdapterNetworks  \* the networks whose adapter the deployment names

ASSUME RelayAssumption ==
  Home \in SupportedNetwork /\ AdapterNetworks \subseteq SupportedNetwork

VARIABLES
  adapters,  \* the networks in CHAINSIGHT_ADDRESSES
  call,      \* call[t]: the on_update call that task t waits for
  sent,      \* sent[s][e]: the transactions relayer s sent for event e
  printed    \* the <<relayer, event>> pairs whose transaction failed

relayVars == <<indexerVars, adapters, call, sent, printed>>

NoCall == [phase |-> "none"]

RelayInit ==
  /\ IndexerInit
  /\ adapters = {}
  /\ call = [t \in Tasks |-> NoCall]
  /\ sent = [s \in Subscribers |-> [e \in Events |-> 0]]
  /\ printed = {}

-----------------------------------------------------------------------------
(* The transaction of an event. *)

\* lock_relayer: onLockCreated on the chain the lock is for, naming its own.
LockCreatedTx(e) ==
  LET event == [dst_chain_id |-> from(e.peer), src_chain_id |-> Home]
  IN  [to |-> event.dst_chain_id, names |-> get_network_info(event.src_chain_id).chain_id]

\* unlock_relayer: unlockAssetOf on the chain of the lock, naming its own.
LockReleasedTx(e) ==
  LET event == [src_chain_id |-> from(e.peer), dst_chain_id |-> Home]
  IN  [to |-> event.src_chain_id, names |-> get_network_info(event.dst_chain_id).chain_id]

HasAdapter(e) == LockCreatedTx(e).to \in adapters

-----------------------------------------------------------------------------
(* The calls. *)

set_chainsight_adapter_address(n) ==
  /\ n \in AdapterNetworks
  /\ adapters' = adapters \cup {n}
  /\ UNCHANGED <<indexerVars, call, sent, printed>>

\* publish calls the next subscriber.
OnUpdate(t, s) ==
  /\ task[t].phase = "publishing" /\ s \in task[t].targets /\ call[t] = NoCall
  /\ call' = [call EXCEPT ![t] = [phase |-> "next", by |-> s, rest |-> task[t].chunk]]
  /\ UNCHANGED <<indexerVars, adapters, sent, printed>>

\* An iteration, up to its await: the transaction of event e is on its way.
Send(t, e) ==
  /\ call[t].phase = "next" /\ e \in call[t].rest /\ HasAdapter(e)
  /\ call' = [call EXCEPT ![t] = [phase |-> "sending", by |-> @.by, event |-> e,
                                  rest |-> @.rest \ {e}]]
  /\ UNCHANGED <<indexerVars, adapters, sent, printed>>

Reply(t) ==
  /\ call[t].phase = "sending"
  /\ call' = [call EXCEPT ![t] = [phase |-> "next", by |-> @.by, rest |-> @.rest]]
  /\ UNCHANGED <<indexerVars, adapters>>

Count(t) == sent' = [sent EXCEPT ![call[t].by][call[t].event] = @ + 1]

\* The node accepts the transaction.
Sent(t) == Reply(t) /\ Count(t) /\ UNCHANGED printed

\* Mutation: the failed event is tried again.
SendRetried(t) ==
  /\ call[t].phase = "sending"
  /\ call' = [call EXCEPT ![t] = [phase |-> "next", by |-> @.by, rest |-> @.rest \cup {@.event}]]
  /\ UNCHANGED <<indexerVars, adapters, printed>>
  /\ Count(t) \/ UNCHANGED sent

\* An error is printed, and the event forgotten: the request failed, or the node
\* refused it, or only the answer did not make it.
SendFails(t) ==
  /\ Reply(t)
  /\ printed' = printed \cup {<<call[t].by, call[t].event>>}
  /\ Count(t) \/ UNCHANGED sent

\* The loop is done: publish goes on with the next subscriber.
Answered(t) ==
  /\ call[t].phase = "next" /\ call[t].rest = {}
  /\ Deliver(t, call[t].by)
  /\ call' = [call EXCEPT ![t] = NoCall]
  /\ UNCHANGED <<adapters, sent, printed>>

\* Mutation: an event whose network has no adapter is passed over.
SkippedUnknown(t) ==
  /\ call[t].phase = "next"
  /\ \E e \in call[t].rest :
       /\ ~HasAdapter(e)
       /\ call' = [call EXCEPT ![t].rest = @ \ {e}]
  /\ UNCHANGED <<indexerVars, adapters, sent, printed>>

\* The next event's network has no adapter: expect panics, and the rest of the
\* batch is lost.
Trapped(t) ==
  /\ call[t].phase = "next" /\ \E e \in call[t].rest : ~HasAdapter(e)
  /\ Undelivered(t, call[t].by) /\ UNCHANGED faults
  /\ call' = [call EXCEPT ![t] = NoCall]
  /\ UNCHANGED <<adapters, sent, printed>>

\* The call never reaches the relayer.
CallFails(t, s) ==
  /\ call[t] = NoCall
  /\ DeliverFails(t, s)
  /\ UNCHANGED <<adapters, call, sent, printed>>

Redeploy ==
  /\ Restart
  /\ adapters' = {}
  /\ UNCHANGED <<call, sent, printed>>

IndexerStep(t) == Step(t) /\ UNCHANGED <<adapters, call, sent, printed>>

RelayStep(t) ==
  \/ \E s \in Subscribers : OnUpdate(t, s)
  \/ \E e \in Events : Send(t, e)
  \/ Sent(t) \/ SendFails(t) \/ Answered(t) \/ Trapped(t)

RelayNext ==
  \/ (Stimulus \/ \E t \in Tasks : QueryFails(t)) /\ UNCHANGED <<adapters, call, sent, printed>>
  \/ Redeploy
  \/ \E n \in AdapterNetworks : set_chainsight_adapter_address(n)
  \/ \E t \in Tasks : \/ IndexerStep(t) \/ RelayStep(t)
                      \/ \E s \in Subscribers : CallFails(t, s)

\* set_lend_pool and do_task are called once the canisters are deployed: the timer
\* starts save_logs again and again, and the platform answers every call.
Fairness ==
  /\ WF_relayVars(SetLendPool /\ UNCHANGED <<adapters, call, sent, printed>>)
  /\ WF_relayVars(SetLendPoolAnswered /\ UNCHANGED <<adapters, call, sent, printed>>)
  /\ \A t \in Tasks :
       /\ WF_relayVars(SaveLogs(t) /\ UNCHANGED <<adapters, call, sent, printed>>)
       /\ WF_relayVars(IndexerStep(t) \/ RelayStep(t))

RelaySpec == RelayInit /\ [][RelayNext]_relayVars /\ Fairness
-----------------------------------------------------------------------------
(* Properties. *)

CallType ==
  {NoCall}
    \cup [phase : {"next"}, by : Subscribers, rest : SUBSET Events]
    \cup [phase : {"sending"}, by : Subscribers, event : Events, rest : SUBSET Events]

\* Every variable has its type; a call belongs to a task that publishes, and has
\* a part of that task's chunk to go.
RelayTypeOK ==
  /\ IndexerTypeOK
  /\ adapters \subseteq AdapterNetworks
  /\ \A t \in Tasks :
       /\ call[t] \in CallType
       /\ call[t] # NoCall => /\ task[t].phase = "publishing"
                              /\ call[t].by \in task[t].targets
                              /\ call[t].rest \subseteq task[t].chunk
  /\ sent \in [Subscribers -> [Events -> Nat]]
  /\ printed \subseteq Subscribers \X Events

\* A call that publish saw succeed took care of its whole batch: for every event
\* there is a transaction, or an error was printed.
NothingDroppedSilently ==
  \A s \in Subscribers, e \in Events :
    received[s][e] > 0 => sent[s][e] > 0 \/ <<s, e>> \in printed

\* One onLockCreated transaction per lock (README.md:117), whatever calls fail on
\* the way, except for the block a deployment reads again.
SentAtMostOnce ==
  \A s \in Subscribers, e \in Events :
    /\ sent[s][e] <= 1 + restarts
    /\ e.block > start /\ initialized => sent[s][e] <= 1

\* A transaction goes to the chain whose id the event names, tells it the id of
\* the chain the event is from, as that chain names itself, and comes from the
\* account that the scripts fund.
SentToNamedChain ==
  \A s \in Subscribers, e \in Events :
    sent[s][e] > 0 =>
      /\ SameChain(e.peer) /\ SignedAsShown(from(e.peer))
      /\ LockReleasedTx([peer |-> LockCreatedTx(e).names]).to = Home

\* An event that cannot be converted stands in the way: the query that finds it
\* panics, each time.
Blocked == initialized /\ \E e \in EventsOf(start, head) \ stored : ~Convertible(e)

Handled(s, e) == sent[s][e] > 0 \/ <<s, e>> \in printed \cup undelivered

\* A block mined after set-up, not stored yet and with a relayer subscribed, leads
\* to a transaction for each of its events, or to an error that is printed here or
\* by publish, unless an event blocks the indexer for good or the canisters are
\* deployed anew.
SentOrReported ==
  \A s \in Subscribers, b \in Blocks, life \in 0..MaxRestarts :
    (/\ initialized /\ restarts = life /\ s \in subscribed
     /\ b \in start..head /\ ~(logs[b] \subseteq stored))
      ~> ((\A e \in logs[b] : Handled(s, e)) \/ Blocked \/ restarts > life)
=============================================================================
