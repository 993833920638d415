--------------------------- MODULE LockRelayProofs ---------------------------
(***************************************************************************)
(* What the relayer adds to the indexer, for any number of executions,     *)
(* relayers, faults, traps and deployments.                                *)
(*                                                                         *)
(* A step of the whole is one of the indexer, a stutter, or a trap, which  *)
(* the indexer sees as a failed call: its invariants carry over.  On top,  *)
(* RelayInv ties every call to the execution that waits for it; DroppedInv *)
(* and SentInv follow each event of a chunk through the call, from the     *)
(* rest of the batch by way of the transaction under way to one that was   *)
(* sent or an error that was printed; NamedInv follows what is known of    *)
(* the chain it names.                                                     *)
(***************************************************************************)
EXTENDS LockRelay, LogIndexerProofs

\* Whoever waits for a call publishes, and the call has a part of its chunk to go.
Waits(t) ==
  call[t] # NoCall =>
    /\ task[t].phase = "publishing" /\ call[t].by \in task[t].targets
    /\ call[t].rest \subseteq task[t].chunk
    /\ call[t].phase = "sending" => call[t].event \in task[t].chunk \ call[t].rest

\* The variables of the relayers.
Relayers ==
  /\ adapters \subseteq AdapterNetworks
  /\ call \in [Tasks -> CallType]
  /\ sent \in [Subscribers -> [Events -> Nat]]
  /\ printed \subseteq Subscribers \X Events

RelayInv == IndexerInv /\ Relayers /\ \A t \in Tasks : Waits(t)

-----------------------------------------------------------------------------
\* What a call keeps at each phase.
LEMMA CallFields ==
  ASSUME NEW c \in CallType
  PROVE  /\ c.phase \in {"none", "next", "sending"}
         /\ c.phase = "none" <=> c = NoCall
         /\ c # NoCall => c.by \in Subscribers /\ c.rest \subseteq Events
         /\ c.phase = "sending" => c.event \in Events
BY DEF CallType, NoCall

\* What the invariant says of one execution and its call.
LEMMA CallFacts ==
  ASSUME RelayInv, NEW t \in Tasks
  PROVE  /\ call[t] \in CallType /\ task[t] \in TaskType /\ Progress(task[t]) /\ Waits(t)
         /\ call[t] # NoCall => /\ call[t].by \in Subscribers /\ call[t].rest \subseteq Events
                                /\ task[t].chunk \subseteq Events
<1>1. call[t] \in CallType /\ task[t] \in TaskType /\ Progress(task[t]) /\ Waits(t)
  BY DEF RelayInv, Relayers, IndexerInv, Executions
<1> QED BY <1>1, CallFields, TaskFields DEF Waits

\* No relayer is called at first.
LEMMA RelayInvInit == RelayInit => RelayInv
<1> SUFFICES ASSUME RelayInit PROVE RelayInv
  OBVIOUS
<1>1. IndexerInv
  BY IndexerInvInit DEF RelayInit
<1>2. Relayers /\ \A t \in Tasks : Waits(t)
  BY DEF RelayInit, Relayers, CallType, Waits
<1> QED BY <1>1, <1>2 DEF RelayInv

\* A step of the whole is one of the indexer, or a trap.
LEMMA IndexerSide ==
  ASSUME RelayInv, [RelayNext]_relayVars
  PROVE  \/ [IndexerNext]_indexerVars
         \/ \E t \in Tasks, s \in Subscribers : Undelivered(t, s) /\ UNCHANGED faults
<1>1. CASE UNCHANGED relayVars
  BY <1>1 DEF relayVars
<1>2. CASE Stimulus \/ Redeploy \/ \E t \in Tasks : QueryFails(t)
  BY <1>2 DEF IndexerNext, Redeploy
<1>3. CASE \E n \in AdapterNetworks : set_chainsight_adapter_address(n)
  BY <1>3 DEF set_chainsight_adapter_address
<1>4. ASSUME NEW t \in Tasks, IndexerStep(t) \/ \E s \in Subscribers : CallFails(t, s)
      PROVE  IndexerNext
  BY <1>4 DEF IndexerStep, CallFails, IndexerNext, Proceed
<1>5. ASSUME NEW t \in Tasks, (\E s \in Subscribers : OnUpdate(t, s)) \/ (\E e \in Events : Send(t, e))
                              \/ Sent(t) \/ SendFails(t)
      PROVE  UNCHANGED indexerVars
  BY <1>5 DEF OnUpdate, Send, Sent, SendFails, Reply
<1>6. ASSUME NEW t \in Tasks, Answered(t)
      PROVE  IndexerNext
  <2>1. call[t].by \in Subscribers
    BY <1>6, CallFacts, CallFields DEF Answered, NoCall
  <2> QED BY <1>6, <2>1 DEF Answered, IndexerNext, Proceed
<1>7. ASSUME NEW t \in Tasks, Trapped(t)
      PROVE  \E s \in Subscribers : Undelivered(t, s) /\ UNCHANGED faults
  <2>1. call[t].by \in Subscribers
    BY <1>7, CallFacts, CallFields DEF Trapped, NoCall
  <2> QED BY <1>7, <2>1 DEF Trapped
<1> QED BY <1>1, <1>2, <1>3, <1>4, <1>5, <1>6, <1>7 DEF RelayNext, RelayStep

\* So the indexer's invariant holds with relayers behind it.
LEMMA IndexerInvKept ==
  ASSUME RelayInv, [RelayNext]_relayVars
  PROVE  IndexerInv'
<1>1. IndexerInv /\ faults \in 0..MaxFaults
  BY DEF RelayInv, IndexerInv, Publication
<1> QED BY <1>1, IndexerSide, IndexerInvStep, UndeliveredStep

-----------------------------------------------------------------------------
(* What the steps have in common. *)

\* The steps of the indexer in which no call ends or begins.
Indexing(t) == Step(t) \/ QueryFails(t) \/ SaveLogs(t) \/ SaveLogsTo(t)
Outside == Mine \/ SetLendPool \/ SetLendPoolAnswered \/ AddSubscriber \/ Restart

\* They leave alone whoever waits for a call.
LEMMA WaitersStay ==
  ASSUME RelayInv, Outside \/ \E t \in Tasks : Indexing(t)
  PROVE  \A u \in Tasks : call[u] # NoCall => task'[u] = task[u]
<1> SUFFICES ASSUME NEW u \in Tasks, call[u] # NoCall PROVE task'[u] = task[u]
  OBVIOUS
<1>1. /\ task[u].phase = "publishing" /\ task[u].targets # {}
      /\ task \in [Tasks -> TaskType]
  BY CallFacts DEF Waits, RelayInv, IndexerInv, Executions
<1>2. CASE Outside
  BY <1>2 DEF Outside, Mine, SetLendPool, SetLendPoolAnswered, AddSubscriber, Restart
<1>3. ASSUME NEW t \in Tasks, Indexing(t) PROVE task'[u] = task[u]
  <2>1. t # u
    BY <1>1, <1>3 DEF Indexing, Step, QueryFails, SaveLogs, SaveLogsTo, Query, LogsAnswered, FoundSome,
       FoundNone, BlockAnswered, Probed, NextChunk, Published
  <2>2. \E k : task' = [task EXCEPT ![t] = k]
    BY <1>3 DEF Indexing, Step, QueryFails, SaveLogs, SaveLogsTo, Query, LogsAnswered, FoundSome,
       StoreAndPublish, Panic, FoundNone, BlockAnswered, Probed, NextChunk, Published
  <2> QED BY <1>1, <2>1, <2>2
<1> QED BY <1>2, <1>3

\* No call changes, nor what its execution keeps.
LEMMA SameCalls ==
  ASSUME RelayInv, IndexerInv', UNCHANGED <<call, sent, printed>>, adapters' \subseteq AdapterNetworks,
         \A u \in Tasks : call[u] # NoCall => task'[u] = task[u]
  PROVE  RelayInv'
<1>1. Relayers'
  BY DEF RelayInv, Relayers
<1>2. \A u \in Tasks : Waits(u)'
  BY DEF RelayInv, Waits
<1> QED BY <1>1, <1>2 DEF RelayInv

\* One call changes, and at most the execution that waits for it.
LEMMA OneCall ==
  ASSUME RelayInv, IndexerInv', NEW t \in Tasks, NEW c \in CallType, call' = [call EXCEPT ![t] = c],
         \A u \in Tasks \ {t} : task'[u] = task[u], UNCHANGED adapters,
         sent' \in [Subscribers -> [Events -> Nat]], printed' \subseteq Subscribers \X Events,
         c # NoCall => /\ task'[t].phase = "publishing" /\ c.by \in task'[t].targets
                       /\ c.rest \subseteq task'[t].chunk
                       /\ c.phase = "sending" => c.event \in task'[t].chunk \ c.rest
  PROVE  RelayInv'
<1>1. Relayers'
  BY DEF RelayInv, Relayers
<1>2. \A u \in Tasks : Waits(u)'
  <2> TAKE u \in Tasks
  <2>1. call'[u] = IF u = t THEN c ELSE call[u]
    BY DEF RelayInv, Relayers
  <2>2. CASE u = t
    BY <2>1, <2>2 DEF Waits
  <2>3. CASE u # t
    <3>1. Waits(u) /\ task'[u] = task[u] /\ call'[u] = call[u]
      BY <2>1, <2>3, CallFacts
    <3> QED BY <3>1 DEF Waits
  <2> QED BY <2>2, <2>3
<1> QED BY <1>1, <1>2 DEF RelayInv

\* One more transaction of one relayer for one event.
LEMMA CountTyped ==
  ASSUME Relayers, NEW t \in Tasks, Count(t) \/ UNCHANGED sent, call[t].by \in Subscribers,
         call[t].event \in Events
  PROVE  /\ sent' \in [Subscribers -> [Events -> Nat]]
         /\ Count(t) => \A s \in Subscribers, e \in Events :
              sent'[s][e] = IF s = call[t].by /\ e = call[t].event THEN sent[s][e] + 1 ELSE sent[s][e]
<1>1. CASE UNCHANGED sent
  <2>1. ~ Count(t)
    <3>1. \A s \in Subscribers : sent[s][call[t].event] \in Nat
      BY DEF Relayers
    <3>2. ASSUME Count(t) PROVE sent'[call[t].by][call[t].event] = sent[call[t].by][call[t].event] + 1
      BY <3>2 DEF Count, Relayers
    <3> QED BY <1>1, <3>1, <3>2
  <2> QED BY <1>1, <2>1 DEF Relayers
<1>2. CASE Count(t)
  BY <1>2 DEF Count, Relayers
<1> QED BY <1>1, <1>2

-----------------------------------------------------------------------------
(* The steps of a call. *)

\* It begins with all of the chunk, for one of its targets.
LEMMA OnUpdateStep ==
  ASSUME RelayInv, IndexerInv', NEW t \in Tasks, NEW s \in Subscribers, OnUpdate(t, s)
  PROVE  RelayInv'
<1>1. PICK c : c = [phase |-> "next", by |-> s, rest |-> task[t].chunk]
  OBVIOUS
<1>2. call' = [call EXCEPT ![t] = c] /\ UNCHANGED <<task, adapters, sent, printed>>
  BY <1>1 DEF OnUpdate, indexerVars
<1>3. task[t].phase = "publishing" /\ s \in task[t].targets /\ task[t].chunk \subseteq Events
  BY CallFacts, TaskFields DEF OnUpdate
<1>4. c \in CallType /\ c.phase # "sending"
  BY <1>1, <1>3 DEF CallType
<1>5. Relayers
  BY DEF RelayInv
<1> QED BY <1>1, <1>2, <1>3, <1>4, <1>5, OneCall DEF Relayers

\* One event leaves the rest, to be sent.
LEMMA SendStep ==
  ASSUME RelayInv, IndexerInv', NEW t \in Tasks, NEW e \in Events, Send(t, e)
  PROVE  RelayInv'
<1>0. PICK old : old = call[t]
  OBVIOUS
<1>1. PICK c : c = [phase |-> "sending", by |-> old.by, event |-> e, rest |-> old.rest \ {e}]
  OBVIOUS
<1>2. /\ call' = [call EXCEPT ![t] = c] /\ UNCHANGED <<task, adapters, sent, printed>>
      /\ e \in old.rest /\ old.phase = "next"
  BY <1>0, <1>1 DEF Send, indexerVars, RelayInv, Relayers
<1>3. old # NoCall
  BY <1>2 DEF NoCall
<1>4. /\ task[t].phase = "publishing" /\ old.by \in task[t].targets /\ old.rest \subseteq task[t].chunk
      /\ old.by \in Subscribers /\ old.rest \subseteq Events
  BY <1>0, <1>3, CallFacts DEF Waits
<1>5. c \in CallType
  BY <1>1, <1>4 DEF CallType
<1>6. Relayers
  BY DEF RelayInv
<1> QED BY <1>1, <1>2, <1>4, <1>5, <1>6, OneCall DEF Relayers

\* What the answer of the node leaves of the call.
LEMMA ReplyFacts ==
  ASSUME RelayInv, NEW t \in Tasks, Reply(t)
  PROVE  /\ call[t].by \in Subscribers /\ call[t].event \in Events /\ call[t].rest \subseteq Events
         /\ task[t].phase = "publishing" /\ call[t].by \in task[t].targets
         /\ call[t].event \in task[t].chunk \ call[t].rest /\ call[t].rest \subseteq task[t].chunk
         /\ UNCHANGED <<indexerVars, adapters>>
         /\ \E c \in CallType : /\ c = [phase |-> "next", by |-> call[t].by, rest |-> call[t].rest]
                                /\ call' = [call EXCEPT ![t] = c]
<1>1. call[t].phase = "sending" /\ UNCHANGED <<indexerVars, adapters>>
  BY DEF Reply
<1>2. call[t] # NoCall
  BY <1>1 DEF NoCall
<1>3. Waits(t) /\ call[t].by \in Subscribers /\ call[t].rest \subseteq Events /\ call[t].event \in Events
  BY <1>1, <1>2, CallFacts, CallFields
<1>4. [phase |-> "next", by |-> call[t].by, rest |-> call[t].rest] \in CallType
  BY <1>3 DEF CallType
<1>5. call' = [call EXCEPT ![t] = [phase |-> "next", by |-> call[t].by, rest |-> call[t].rest]]
  BY DEF Reply, RelayInv, Relayers
<1> QED BY <1>1, <1>2, <1>3, <1>4, <1>5 DEF Waits

\* The transaction is accepted or not, and the loop goes on.
LEMMA ReplyStep ==
  ASSUME RelayInv, IndexerInv', NEW t \in Tasks, Sent(t) \/ SendFails(t)
  PROVE  RelayInv'
<1>1. Reply(t) /\ (Count(t) \/ UNCHANGED sent)
      /\ (UNCHANGED printed \/ printed' = printed \cup {<<call[t].by, call[t].event>>})
  BY DEF Sent, SendFails
<1>2. PICK c \in CallType : /\ c = [phase |-> "next", by |-> call[t].by, rest |-> call[t].rest]
                            /\ call' = [call EXCEPT ![t] = c]
  BY <1>1, ReplyFacts
<1>3. Relayers
  BY DEF RelayInv
<1>4. sent' \in [Subscribers -> [Events -> Nat]] /\ printed' \subseteq Subscribers \X Events
  BY <1>1, <1>3, ReplyFacts, CountTyped DEF Relayers
<1>5. UNCHANGED <<task, adapters>>
  BY <1>1, ReplyFacts DEF indexerVars
<1>6. /\ c.by \in task[t].targets /\ c.rest \subseteq task[t].chunk /\ task[t].phase = "publishing"
      /\ c.phase # "sending"
  BY <1>1, <1>2, ReplyFacts
<1> QED BY <1>2, <1>4, <1>5, <1>6, OneCall

\* The call is over.
LEMMA CallEnds ==
  ASSUME RelayInv, IndexerInv', NEW t \in Tasks, Answered(t) \/ Trapped(t)
  PROVE  RelayInv'
<1>1. call' = [call EXCEPT ![t] = NoCall] /\ UNCHANGED <<adapters, sent, printed>>
  BY DEF Answered, Trapped
<1>2. \E k : task' = [task EXCEPT ![t] = k]
  BY DEF Answered, Trapped, Deliver, Undelivered
<1>3. \A u \in Tasks \ {t} : task'[u] = task[u]
  BY <1>2 DEF RelayInv, IndexerInv, Executions
<1>4. NoCall \in CallType /\ Relayers
  BY DEF CallType, RelayInv
<1> QED BY <1>1, <1>3, <1>4, OneCall DEF Relayers

\* The call never began.
LEMMA CallFailsStep ==
  ASSUME RelayInv, IndexerInv', NEW t \in Tasks, NEW s \in Subscribers, CallFails(t, s)
  PROVE  RelayInv'
<1>1. UNCHANGED <<adapters, call, sent, printed>> /\ call[t] = NoCall
  BY DEF CallFails
<1>2. \E k : task' = [task EXCEPT ![t] = k]
  BY DEF CallFails, DeliverFails, Undelivered
<1>3. \A u \in Tasks : call[u] # NoCall => task'[u] = task[u]
  BY <1>1, <1>2 DEF RelayInv, IndexerInv, Executions
<1> QED BY <1>1, <1>3, SameCalls DEF RelayInv, Relayers

\* What a step of the whole can be.
LEMMA RelayCases ==
  ASSUME [RelayNext]_relayVars
  PROVE  \/ (Outside \/ \E t \in Tasks : Indexing(t)) /\ UNCHANGED <<call, sent, printed>>
              /\ (adapters' = {} \/ UNCHANGED adapters)
         \/ \E n \in AdapterNetworks : set_chainsight_adapter_address(n)
         \/ \E t \in Tasks : \/ RelayStep(t)
                             \/ \E s \in Subscribers : CallFails(t, s)
         \/ UNCHANGED relayVars
BY DEF RelayNext, Stimulus, Redeploy, IndexerStep, Outside, Indexing

\* Every step keeps the invariant.
LEMMA RelayInvStep ==
  ASSUME RelayInv, [RelayNext]_relayVars
  PROVE  RelayInv'
<1>1. IndexerInv' /\ adapters \subseteq AdapterNetworks
  BY IndexerInvKept DEF RelayInv, Relayers
<1>2. CASE /\ (Outside \/ \E t \in Tasks : Indexing(t)) /\ UNCHANGED <<call, sent, printed>>
           /\ (adapters' = {} \/ UNCHANGED adapters)
  BY <1>1, <1>2, WaitersStay, SameCalls
<1>3. CASE \E n \in AdapterNetworks : set_chainsight_adapter_address(n)
  <2>1. UNCHANGED <<task, call, sent, printed>> /\ adapters' \subseteq AdapterNetworks
    BY <1>1, <1>3 DEF set_chainsight_adapter_address, indexerVars
  <2> QED BY <1>1, <2>1, SameCalls
<1>4. ASSUME NEW t \in Tasks, RelayStep(t) PROVE RelayInv'
  BY <1>1, <1>4, OnUpdateStep, SendStep, ReplyStep, CallEnds DEF RelayStep
<1>5. ASSUME NEW t \in Tasks, NEW s \in Subscribers, CallFails(t, s) PROVE RelayInv'
  BY <1>1, <1>5, CallFailsStep
<1>6. CASE UNCHANGED relayVars
  <2>1. UNCHANGED <<task, call, sent, printed, adapters>>
    BY <1>6 DEF relayVars, indexerVars
  <2> QED BY <1>1, <2>1, SameCalls
<1> QED BY <1>2, <1>3, <1>4, <1>5, <1>6, RelayCases

\* The indexer and the relayer stay within their types, and every call belongs to an
\* execution that publishes, whatever fails, traps or overlaps.
THEOREM RelayTypeCorrect == RelaySpec => []RelayTypeOK
<1>1. ASSUME RelayInv PROVE RelayTypeOK
  <2>1. IndexerTypeOK
    BY <1>1, InvGivesTypes DEF RelayInv
  <2>2. Relayers /\ \A t \in Tasks : Waits(t)
    BY <1>1 DEF RelayInv
  <2> QED BY <2>1, <2>2 DEF RelayTypeOK, Relayers, Waits
<1>2. RelayInv => RelayTypeOK
  BY <1>1
<1> QED BY <1>2, RelayInvInit, RelayInvStep, PTL DEF RelaySpec

\* With relayers behind it, the indexer passes over no event either.
THEOREM RelaySkipsNone == MaxAdvance <= 1 => (RelaySpec => []NoEventSkipped)
<1> SUFFICES ASSUME MaxAdvance <= 1 PROVE RelaySpec => []NoEventSkipped
  OBVIOUS
<1>1. RelayInv => NoEventSkipped
  BY InvSkipsNone DEF RelayInv
<1> QED BY <1>1, RelayInvInit, RelayInvStep, PTL DEF RelaySpec

-----------------------------------------------------------------------------
(* Nothing is dropped silently.                                            *)

\* The call of t has still to deal with e, or awaits the answer to its transaction.
InHand(t, e) == e \in call[t].rest \/ (call[t].phase = "sending" /\ e = call[t].event)

\* Relayer s dealt with e.
Reported(s, e) == sent[s][e] > 0 \/ <<s, e>> \in printed

\* A call has dealt with what it has no longer in hand.
Covered(t) ==
  call[t] # NoCall => \A e \in task[t].chunk : InHand(t, e) \/ Reported(call[t].by, e)

\* The invariant behind NothingDroppedSilently.
DroppedInv == RelayInv /\ NothingDroppedSilently /\ \A t \in Tasks : Covered(t)

\* What a step deals with stays dealt with.
LEMMA ReportedKept ==
  ASSUME RelayInv, [RelayNext]_relayVars, NEW s \in Subscribers, NEW e \in Events, Reported(s, e)
  PROVE  Reported(s, e)'
<1>1. sent[s][e] \in Nat
  BY DEF RelayInv, Relayers
<1>2. CASE UNCHANGED <<sent, printed>>
  BY <1>2 DEF Reported
<1>3. ASSUME NEW t \in Tasks, Sent(t) \/ SendFails(t) PROVE Reported(s, e)'
  <2>1. printed \subseteq printed' /\ Reply(t) /\ (Count(t) \/ UNCHANGED sent)
    BY <1>3 DEF Sent, SendFails
  <2>2. sent'[s][e] = sent[s][e] \/ sent'[s][e] = sent[s][e] + 1
    BY <2>1, ReplyFacts, CountTyped DEF RelayInv
  <2> QED BY <1>1, <2>1, <2>2 DEF Reported
<1> QED BY <1>2, <1>3, RelayCases DEF set_chainsight_adapter_address, RelayStep, OnUpdate, Send, Answered, Trapped,
   CallFails, relayVars

\* A step that calls no relayer drops nothing, if every call has what it had.
LEMMA CoveredStep ==
  ASSUME DroppedInv, RelayInv', [RelayNext]_relayVars, UNCHANGED received,
         \A u \in Tasks : call'[u] # NoCall =>
           \/ call'[u] = call[u] /\ task'[u] = task[u]
           \/ Covered(u)'
  PROVE  DroppedInv'
<1>1. RelayInv /\ NothingDroppedSilently
  BY DEF DroppedInv
<1>2. NothingDroppedSilently'
  <2> SUFFICES ASSUME NEW s \in Subscribers, NEW e \in Events, received[s][e] > 0
               PROVE  Reported(s, e)'
    BY DEF NothingDroppedSilently, Reported
  <2> QED BY <1>1, ReportedKept DEF NothingDroppedSilently, Reported
<1>3. ASSUME NEW u \in Tasks, call'[u] # NoCall PROVE Covered(u)'
  <2>1. CASE call'[u] = call[u] /\ task'[u] = task[u]
    <3>1. PICK by : by = call[u].by
      OBVIOUS
    <3>2. by \in Subscribers /\ task[u].chunk \subseteq Events /\ Covered(u)
      BY <1>1, <1>3, <2>1, <3>1, CallFacts DEF DroppedInv
    <3>3. \A e \in task[u].chunk : Reported(by, e) => Reported(by, e)'
      BY <1>1, <3>2, ReportedKept
    <3> QED BY <1>3, <2>1, <3>1, <3>2, <3>3 DEF Covered, InHand, Reported
  <2> QED BY <1>3, <2>1
<1> QED BY <1>2, <1>3 DEF DroppedInv, Covered

\* The steps of the indexer between its calls touch no call.
LEMMA IndexingDrops ==
  ASSUME DroppedInv, RelayInv', [RelayNext]_relayVars, Outside \/ \E t \in Tasks : Indexing(t), UNCHANGED call
  PROVE  DroppedInv'
<1>1. UNCHANGED received
  BY DEF Outside, Indexing, Mine, SetLendPool, SetLendPoolAnswered, AddSubscriber, Restart, Step, QueryFails, SaveLogs,
     SaveLogsTo, Query, LogsAnswered, FoundSome, FoundNone, BlockAnswered, Probed, NextChunk, Published, publishVars
<1> QED BY <1>1, WaitersStay, CoveredStep DEF DroppedInv

\* A call begins with everything in hand.
LEMMA OnUpdateDrops ==
  ASSUME DroppedInv, RelayInv', [RelayNext]_relayVars, NEW t \in Tasks, NEW s \in Subscribers, OnUpdate(t, s)
  PROVE  DroppedInv'
<1>1. /\ call' = [call EXCEPT ![t] = [phase |-> "next", by |-> s, rest |-> task[t].chunk]]
      /\ UNCHANGED <<task, received>> /\ call \in [Tasks -> CallType]
  BY DEF OnUpdate, indexerVars, publishVars, DroppedInv, RelayInv, Relayers
<1>2. call'[t].rest = task'[t].chunk
  BY <1>1
<1>3. Covered(t)'
  BY <1>2 DEF Covered, InHand
<1> QED BY <1>1, <1>3, CoveredStep

\* What leaves the rest is what is under way.
LEMMA SendDrops ==
  ASSUME DroppedInv, RelayInv', [RelayNext]_relayVars, NEW t \in Tasks, NEW x \in Events, Send(t, x)
  PROVE  DroppedInv'
<1>1. PICK old : old = call[t]
  OBVIOUS
<1>2. /\ call' = [call EXCEPT ![t] = [phase |-> "sending", by |-> old.by, event |-> x, rest |-> old.rest \ {x}]]
      /\ UNCHANGED <<task, received, sent, printed>> /\ call \in [Tasks -> CallType] /\ old.phase = "next"
  BY <1>1 DEF Send, indexerVars, publishVars, DroppedInv, RelayInv, Relayers
<1>3. /\ call'[t].phase = "sending" /\ call'[t].by = old.by /\ call'[t].event = x
      /\ call'[t].rest = old.rest \ {x}
  BY <1>2
<1>4. \A e \in task[t].chunk : e \in old.rest \/ Reported(old.by, e)
  BY <1>1, <1>2 DEF DroppedInv, Covered, InHand, NoCall
<1>5. Covered(t)'
  BY <1>2, <1>3, <1>4 DEF Covered, InHand, Reported
<1> QED BY <1>2, <1>5, CoveredStep

\* The event under way was sent, or its error is printed.
LEMMA ReplyDrops ==
  ASSUME DroppedInv, RelayInv', [RelayNext]_relayVars, NEW t \in Tasks, Sent(t) \/ SendFails(t)
  PROVE  DroppedInv'
<1>1. PICK old : old = call[t]
  OBVIOUS
<1>2. Reply(t) /\ old.phase = "sending" /\ old # NoCall
  BY <1>1 DEF Sent, SendFails, Reply, NoCall
<1>3. RelayInv /\ Relayers /\ Covered(t)
  BY DEF DroppedInv, RelayInv
<1>4. /\ old.by \in Subscribers /\ old.event \in Events /\ task[t].chunk \subseteq Events
      /\ UNCHANGED <<task, received>>
  BY <1>1, <1>2, <1>3, ReplyFacts, CallFacts DEF indexerVars, publishVars
<1>5. /\ call' = [call EXCEPT ![t] = [phase |-> "next", by |-> old.by, rest |-> old.rest]]
      /\ call'[t].phase = "next" /\ call'[t].by = old.by /\ call'[t].rest = old.rest
  BY <1>1, <1>2, <1>3 DEF Reply, Relayers
<1>6. Reported(old.by, old.event)'
  <2>1. CASE Sent(t)
    <3>1. sent'[old.by][old.event] = sent[old.by][old.event] + 1
      BY <1>1, <1>3, <1>4, <2>1, CountTyped DEF Sent
    <3>2. sent[old.by][old.event] \in Nat
      BY <1>3, <1>4 DEF Relayers
    <3> QED BY <3>1, <3>2 DEF Reported
  <2>2. CASE SendFails(t)
    BY <1>1, <2>2 DEF SendFails, Reported
  <2> QED BY <2>1, <2>2
<1>7. \A e \in task[t].chunk : e \in old.rest \/ Reported(old.by, e)'
  <2> TAKE e \in task[t].chunk
  <2>1. e \in old.rest \/ e = old.event \/ Reported(old.by, e)
    BY <1>1, <1>2, <1>3 DEF Covered, InHand
  <2> QED BY <1>3, <1>4, <1>6, <2>1, ReportedKept
<1>8. Covered(t)'
  BY <1>4, <1>5, <1>7 DEF Covered, InHand, Reported
<1> QED BY <1>4, <1>5, <1>8, CoveredStep

\* Only a call that ran to its end counts as received.
LEMMA AnsweredDrops ==
  ASSUME DroppedInv, RelayInv', [RelayNext]_relayVars, NEW t \in Tasks, Answered(t)
  PROVE  DroppedInv'
<1>1. PICK old : old = call[t]
  OBVIOUS
<1>2. /\ old.phase = "next" /\ old # NoCall /\ old.rest = {} /\ Deliver(t, old.by)
      /\ call' = [call EXCEPT ![t] = NoCall] /\ UNCHANGED <<sent, printed>>
  BY <1>1 DEF Answered, NoCall
<1>3. RelayInv /\ IndexerInv /\ Covered(t) /\ NothingDroppedSilently /\ call \in [Tasks -> CallType]
  BY DEF DroppedInv, RelayInv, Relayers
<1>4. \A e \in task[t].chunk : Reported(old.by, e)
  BY <1>1, <1>2, <1>3 DEF Covered, InHand
<1>5. \A s \in Subscribers, e \in Events :
        received'[s][e] = received[s][e] \/ (s = old.by /\ e \in task[t].chunk)
  BY <1>2, <1>3 DEF Deliver, IndexerInv, Publication
<1>6. NothingDroppedSilently'
  BY <1>2, <1>3, <1>4, <1>5 DEF NothingDroppedSilently, Reported
<1>7. ASSUME NEW u \in Tasks, call'[u] # NoCall PROVE Covered(u)'
  <2>1. u # t /\ call'[u] = call[u]
    BY <1>2, <1>3, <1>7
  <2>2. task'[u] = task[u]
    BY <1>2, <1>3, <2>1 DEF Deliver, IndexerInv, Executions
  <2>3. Covered(u)
    BY DEF DroppedInv
  <2> QED BY <1>2, <2>1, <2>2, <2>3 DEF Covered, InHand, Reported
<1> QED BY <1>6, <1>7 DEF DroppedInv, Covered

\* A call that fails, in its middle or before it, is none that was received.
LEMMA FailedDrops ==
  ASSUME DroppedInv, RelayInv', [RelayNext]_relayVars, NEW t \in Tasks,
         Trapped(t) \/ \E s \in Subscribers : CallFails(t, s)
  PROVE  DroppedInv'
<1>1. UNCHANGED received /\ \E k : task' = [task EXCEPT ![t] = k]
  BY DEF Trapped, CallFails, DeliverFails, Undelivered
<1>2. call' = [call EXCEPT ![t] = NoCall]
  BY DEF Trapped, CallFails, DroppedInv, RelayInv, Relayers
<1>3. \A u \in Tasks : call'[u] # NoCall => call'[u] = call[u] /\ task'[u] = task[u]
  BY <1>1, <1>2 DEF DroppedInv, RelayInv, Relayers, IndexerInv, Executions
<1> QED BY <1>1, <1>3, CoveredStep

\* Every step keeps the invariant.
LEMMA DroppedInvStep ==
  ASSUME DroppedInv, [RelayNext]_relayVars
  PROVE  DroppedInv'
<1>1. RelayInv'
  BY RelayInvStep DEF DroppedInv
<1>2. CASE (Outside \/ \E t \in Tasks : Indexing(t)) /\ UNCHANGED call
  BY <1>1, <1>2, IndexingDrops
<1>3. CASE UNCHANGED <<task, received, call>>
  BY <1>1, <1>3, CoveredStep
<1>4. ASSUME NEW t \in Tasks, RelayStep(t) PROVE DroppedInv'
  BY <1>1, <1>4, OnUpdateDrops, SendDrops, ReplyDrops, AnsweredDrops, FailedDrops DEF RelayStep
<1>5. ASSUME NEW t \in Tasks, NEW s \in Subscribers, CallFails(t, s) PROVE DroppedInv'
  BY <1>1, <1>5, FailedDrops
<1>6. UNCHANGED relayVars \/ (\E n \in AdapterNetworks : set_chainsight_adapter_address(n))
        => UNCHANGED <<task, received, call>>
  BY DEF relayVars, indexerVars, publishVars, set_chainsight_adapter_address
<1> QED BY <1>2, <1>3, <1>4, <1>5, <1>6, RelayCases

\* Of a batch that publish saw taken care of, every event was sent or its error
\* printed, for any number of relayers and overlapping executions, whatever calls
\* and transactions fail: what a trap leaves undone is never taken for received.
THEOREM RelayDropsNothing == RelaySpec => []NothingDroppedSilently
<1>1. DroppedInv => NothingDroppedSilently
  BY DEF DroppedInv
<1>2. RelayInit => DroppedInv
  <2>1. RelayInit => NothingDroppedSilently
    BY DEF RelayInit, IndexerInit, NothingDroppedSilently
  <2>2. RelayInit => \A t \in Tasks : Covered(t)
    BY DEF RelayInit, Covered
  <2> QED BY <2>1, <2>2, RelayInvInit DEF DroppedInv
<1> QED BY <1>1, <1>2, DroppedInvStep, PTL DEF RelaySpec

-----------------------------------------------------------------------------
(* One execution at a time: one transaction per event.                     *)

\* With relayers behind it, the indexer publishes no event twice either, and its
\* saved block falls with a deployment only.
LEMMA OnceInvKept ==
  ASSUME Serial, RelayInv, OnceInv, [RelayNext]_relayVars
  PROVE  OnceInv' /\ (initialized /\ initialized' => saved' >= saved)
<1>1. CASE [IndexerNext]_indexerVars
  BY <1>1, OnceInvStep
<1>2. ASSUME NEW t \in Tasks, NEW s \in Subscribers, Undelivered(t, s)
      PROVE  OnceInv' /\ saved' >= saved
  <2>1. IndexerInv' /\ UNCHANGED saved /\ saved \in Nat
    BY <1>2, IndexerInvKept, OnceFacts DEF OnceInv, Undelivered, storeVars
  <2> QED BY <1>2, <2>1, UndeliveredOnce
<1> QED BY <1>1, <1>2, IndexerSide

\* No relayer is told an event twice by one deployment, also when relayers trap.
THEOREM RelayPublishesOnce == Serial => (RelaySpec => []PublishedAtMostOnce)
<1> SUFFICES ASSUME Serial PROVE RelaySpec => []PublishedAtMostOnce
  OBVIOUS
<1>1. RelayInv /\ OnceInv /\ [RelayNext]_relayVars => RelayInv' /\ OnceInv'
  BY RelayInvStep, OnceInvKept
<1>2. RelayInit => RelayInv /\ OnceInv
  BY RelayInvInit, OnceInvInit DEF RelayInit
<1>3. OnceInv => PublishedAtMostOnce
  BY DEF OnceInv
<1> QED BY <1>1, <1>2, <1>3, PTL DEF RelaySpec

\* Nor does the saved block fall within one deployment when relayers trap.
THEOREM RelayOnlyAdvances == Serial => (RelaySpec => SavedNeverFalls)
<1> SUFFICES ASSUME Serial PROVE RelaySpec => SavedNeverFalls
  OBVIOUS
<1>1. RelayInv /\ OnceInv /\ [RelayNext]_relayVars => RelayInv' /\ OnceInv'
  BY RelayInvStep, OnceInvKept
<1>2. RelayInv /\ OnceInv /\ [RelayNext]_relayVars
        => [initialized /\ initialized' => saved' >= saved]_indexerVars
  BY OnceInvKept
<1>3. RelayInit => RelayInv /\ OnceInv
  BY RelayInvInit, OnceInvInit DEF RelayInit
<1> QED BY <1>1, <1>2, <1>3, PTL DEF RelaySpec, SavedNeverFalls

\* What relayer s may have sent for e before this deployment has it send more.
FreshTx(s, e) == sent[s][e] <= restarts /\ (e.block > start => sent[s][e] = 0)

\* Relayer s will be told e, or has it in hand.
Owed(t, s, e) ==
  /\ task[t].phase = "publishing"
  /\ \/ e \in task[t].rest
     \/ /\ e \in task[t].chunk /\ s \in task[t].targets
        /\ call[t] # NoCall /\ call[t].by = s => InHand(t, e)

\* Nothing was sent for what is not read yet, nor for what is behind a new start.
UnreadTx ==
  /\ \A s \in Subscribers, e \in Events : initialized /\ e.block >= saved => FreshTx(s, e)
  /\ ~ initialized => \A s \in Subscribers, e \in Events :
       sent[s][e] <= restarts /\ \A n \in setup : sent[s][e] > 0 => e.block <= n
  /\ \A s \in Subscribers, e \in Events : sent[s][e] > 0 => e.block <= head

OwedFresh == \A t \in Tasks, s \in Subscribers, e \in Events : Owed(t, s, e) => FreshTx(s, e)

\* The invariant behind SentAtMostOnce.
SentInv == RelayInv /\ OnceInv /\ SentAtMostOnce /\ UnreadTx /\ OwedFresh

\* What the arithmetic of the steps needs.
LEMMA SentFacts ==
  ASSUME RelayInv
  PROVE  /\ head \in Nat /\ start \in Nat /\ saved \in Nat /\ restarts \in Nat
         /\ \A e \in Events : e.block \in Nat
         /\ \A s \in Subscribers, e \in Events : sent[s][e] \in Nat
         /\ initialized => start <= saved /\ saved <= head + 1
<1>1. \A s \in Subscribers, e \in Events : sent[s][e] \in Nat
  BY DEF RelayInv, Relayers
<1> QED BY <1>1, OnceFacts DEF RelayInv

\* Before the store is set up no execution runs.
LEMMA NobodyRuns ==
  ASSUME RelayInv, ~ initialized \/ \A t \in Tasks : task[t] = Idle
  PROVE  \A t \in Tasks : task[t].phase = "idle"
BY CallFacts, TaskFields DEF Progress, Idle

\* No transaction is sent, and nothing is owed but what was, or what is read now.
LEMMA QuietSent ==
  ASSUME SentInv, RelayInv', OnceInv', UNCHANGED <<sent, start, restarts, initialized>>,
         initialized => saved <= saved', head <= head', setup' \subseteq setup \cup {head},
         \A t \in Tasks, s \in Subscribers, e \in Events :
           Owed(t, s, e)' => Owed(t, s, e) \/ (initialized /\ e.block >= saved)
  PROVE  SentInv'
<1>1. RelayInv /\ SentAtMostOnce /\ UnreadTx /\ OwedFresh
  BY DEF SentInv
<1>2. \A s \in Subscribers, e \in Events : FreshTx(s, e) => FreshTx(s, e)'
  BY DEF FreshTx
<1>3. saved' \in Nat /\ head' \in Nat
  BY DEF RelayInv, IndexerInv, Store, History, Blocks
<1>4. \A s \in Subscribers, e \in Events : initialized /\ e.block >= saved' => FreshTx(s, e)'
  BY <1>1, <1>2, <1>3, SentFacts DEF UnreadTx
<1>5. \A s \in Subscribers, e \in Events : sent[s][e] > 0 => e.block <= head /\ e.block <= head'
  BY <1>1, <1>3, SentFacts DEF UnreadTx
<1>6. UnreadTx'
  BY <1>1, <1>4, <1>5 DEF UnreadTx
<1>7. OwedFresh'
  BY <1>1, <1>2 DEF OwedFresh, UnreadTx
<1>8. SentAtMostOnce'
  BY <1>1 DEF SentAtMostOnce
<1> QED BY <1>6, <1>7, <1>8 DEF SentInv

\* A step without a transaction that keeps the store owes nothing new.
LEMMA StoreStaysSent ==
  ASSUME SentInv, RelayInv', OnceInv', UNCHANGED <<sent, head, setup, start, saved, restarts, initialized>>,
         \A t \in Tasks, s \in Subscribers, e \in Events : Owed(t, s, e)' => Owed(t, s, e)
  PROVE  SentInv'
<1>1. head <= head' /\ saved <= saved'
  BY SentFacts DEF SentInv
<1> QED BY <1>1, QuietSent

\* Blocks, answers and subscribers to come owe nothing.
LEMMA OutsideSent ==
  ASSUME SentInv, RelayInv', OnceInv', UNCHANGED <<call, sent>>,
         Mine \/ SetLendPool \/ AddSubscriber \/ (initialized /\ SetLendPoolAnswered)
  PROVE  SentInv'
<1>1. UNCHANGED <<start, saved, restarts, initialized, task>>
  BY DEF Mine, SetLendPool, AddSubscriber, SetLendPoolAnswered, storeVars, boundVars
<1>2. head <= head' /\ saved <= saved'
  BY <1>1, SentFacts DEF SentInv, Mine, SetLendPool, AddSubscriber, SetLendPoolAnswered, chainVars
<1>3. setup' \subseteq setup \cup {head}
  BY DEF Mine, SetLendPool, AddSubscriber, SetLendPoolAnswered, storeVars
<1>4. \A t \in Tasks, s \in Subscribers, e \in Events : Owed(t, s, e)' => Owed(t, s, e)
  BY <1>1 DEF Owed, InHand
<1> QED BY <1>1, <1>2, <1>3, <1>4, QuietSent

\* A new store starts where the transactions of the last one end, or at its last block.
LEMMA SetUpSent ==
  ASSUME SentInv, RelayInv', OnceInv', UNCHANGED sent, ~ initialized, SetLendPoolAnswered
  PROVE  SentInv'
<1>1. RelayInv /\ SentAtMostOnce /\ UnreadTx
  BY DEF SentInv
<1>2. PICK number \in setup : SetupStore(number)
  BY DEF SetLendPoolAnswered
<1>3. UNCHANGED <<sent, restarts, task, head>> /\ initialized' /\ start' = number /\ saved' = number
      /\ number \in Nat
  BY <1>1, <1>2 DEF SetLendPoolAnswered, SetupStore, chainVars, boundVars, RelayInv, IndexerInv, Store
<1>4. \A s \in Subscribers, e \in Events : sent[s][e] <= restarts /\ (sent[s][e] > 0 => e.block <= number)
  BY <1>1 DEF UnreadTx
<1>5. \A s \in Subscribers, e \in Events : e.block > number => sent[s][e] = 0
  BY <1>1, <1>3, <1>4, SentFacts
<1>6. \A s \in Subscribers, e \in Events : sent[s][e] <= 1 + restarts
  BY <1>1 DEF SentAtMostOnce
<1>7. \A s \in Subscribers, e \in Events : FreshTx(s, e)'
  BY <1>3, <1>4, <1>5 DEF FreshTx
<1>8. SentAtMostOnce'
  BY <1>3, <1>5, <1>6 DEF SentAtMostOnce
<1>9. UnreadTx' /\ OwedFresh'
  BY <1>1, <1>3, <1>7 DEF UnreadTx, OwedFresh
<1> QED BY <1>8, <1>9 DEF SentInv

\* Another deployment may send everything once more.
LEMMA RestartSent ==
  ASSUME SentInv, RelayInv', OnceInv', UNCHANGED sent, Restart
  PROVE  SentInv'
<1>1. RelayInv /\ SentAtMostOnce /\ UnreadTx
  BY DEF SentInv
<1>2. /\ UNCHANGED <<task, head, setup>> /\ setup = {}
      /\ restarts' = restarts + 1 /\ initialized' = FALSE
      /\ \A t \in Tasks : task[t] = Idle
  BY DEF Restart, chainVars
<1>3. \A s \in Subscribers, e \in Events : sent[s][e] <= restarts' /\ sent[s][e] <= 1 + restarts'
  BY <1>1, <1>2, SentFacts DEF SentAtMostOnce
<1>4. SentAtMostOnce' /\ UnreadTx'
  BY <1>1, <1>2, <1>3 DEF SentAtMostOnce, UnreadTx
<1>5. OwedFresh'
  BY <1>2 DEF OwedFresh, Owed, Idle
<1> QED BY <1>4, <1>5 DEF SentInv

\* What an execution takes up to publish was not read before.
LEMMA IndexingSent ==
  ASSUME SentInv, RelayInv', OnceInv', UNCHANGED <<call, sent>>, initialized /\ initialized' => saved' >= saved,
         NEW t \in Tasks, Indexing(t)
  PROVE  SentInv'
<1>1. RelayInv /\ task \in [Tasks -> TaskType] /\ Progress(task[t]) /\ Ahead(task[t]) /\ task[t] \in TaskType
  BY DEF SentInv, RelayInv, IndexerInv, Executions, OnceInv
<1>2. UNCHANGED <<start, restarts, initialized, head, setup>>
  BY DEF Indexing, Step, QueryFails, SaveLogs, SaveLogsTo, Query, LogsAnswered, FoundSome,
     FoundNone, BlockAnswered, Probed, NextChunk, Published, chainVars, storeVars, boundVars
<1>3. saved \in Nat /\ saved' \in Nat /\ head <= head'
  BY <1>1, <1>2, SentFacts DEF RelayInv, IndexerInv, Store
<1>4. \E k : task' = [task EXCEPT ![t] = k]
  BY DEF Indexing, Step, QueryFails, SaveLogs, SaveLogsTo, Query, LogsAnswered, FoundSome,
     StoreAndPublish, Panic, FoundNone, BlockAnswered, Probed, NextChunk, Published
<1>5. \/ task'[t].phase # "publishing"
      \/ /\ task[t].phase = "logged" /\ task'[t].rest = task[t].found /\ task'[t].chunk = {}
      \/ /\ task[t].phase = "publishing" /\ task'[t].rest \subseteq task[t].rest
         /\ task'[t].chunk \subseteq task[t].rest
  <2>1. CASE FoundSome(t)
    <3>1. CASE task' = [task EXCEPT ![t] = Idle]
      BY <1>1, <3>1 DEF Idle
    <3>2. CASE StoreAndPublish(t, task[t].found, LastBlock(task[t].found) + 1)
      BY <1>1, <2>1, <3>2 DEF StoreAndPublish, FoundSome
    <3> QED BY <2>1, <3>1, <3>2 DEF FoundSome, Panic
  <2>2. CASE NextChunk(t)
    <3>1. PICK chunk \in kSubset(Min({ChunkSize, Cardinality(task[t].rest)}), task[t].rest) :
            task' = [task EXCEPT ![t] = [phase |-> "publishing", rest |-> task[t].rest \ chunk,
                                         chunk |-> chunk, targets |-> subscribed]]
      BY <2>2 DEF NextChunk
    <3>2. chunk \subseteq task[t].rest
      BY DEF kSubset
    <3> QED BY <1>1, <2>2, <3>1, <3>2 DEF NextChunk
  <2>3. CASE Probed(t) \/ QueryFails(t) \/ Published(t)
    BY <1>1, <2>3 DEF Probed, QueryFails, Published, Panic, Idle
  <2>4. CASE LogsAnswered(t) \/ FoundNone(t) \/ BlockAnswered(t)
    BY <1>1, <2>4 DEF LogsAnswered, FoundNone, BlockAnswered
  <2>5. CASE SaveLogs(t) \/ SaveLogsTo(t)
    BY <1>1, <2>5 DEF SaveLogs, SaveLogsTo, Query
  <2> QED BY <2>1, <2>2, <2>3, <2>4, <2>5 DEF Indexing, Step
<1>6. ASSUME NEW u \in Tasks, NEW s \in Subscribers, NEW e \in Events, Owed(u, s, e)'
      PROVE  Owed(u, s, e) \/ (initialized /\ e.block >= saved)
  <2>1. CASE u # t
    <3>1. task'[u] = task[u]
      BY <1>1, <1>4, <2>1
    <3> QED BY <1>6, <3>1 DEF Owed, InHand
  <2>2. CASE u = t
    <3>1. task'[t].phase = "publishing" /\ (e \in task'[t].rest \/ e \in task'[t].chunk)
      BY <1>6, <2>2 DEF Owed
    <3>2. CASE task[t].phase = "logged" /\ task'[t].rest = task[t].found /\ task'[t].chunk = {}
      BY <1>1, <3>1, <3>2 DEF Progress, Ahead
    <3>3. CASE task[t].phase = "publishing" /\ e \in task[t].rest
      BY <2>2, <3>3 DEF Owed
    <3> QED BY <1>5, <3>1, <3>2, <3>3
  <2> QED BY <2>1, <2>2
<1> QED BY <1>2, <1>3, <1>6, QuietSent

\* A call has in hand what its relayer is owed.
LEMMA OnUpdateSent ==
  ASSUME SentInv, RelayInv', OnceInv', NEW t \in Tasks, NEW r \in Subscribers, OnUpdate(t, r)
  PROVE  SentInv'
<1>1. UNCHANGED <<task, sent, head, setup, start, saved, restarts, initialized>>
  BY DEF OnUpdate, indexerVars, chainVars, storeVars, boundVars
<1>2. /\ call \in [Tasks -> CallType] /\ call[t] = NoCall
      /\ call' = [call EXCEPT ![t] = [phase |-> "next", by |-> r, rest |-> task[t].chunk]]
  BY DEF OnUpdate, SentInv, RelayInv, Relayers
<1>3. \A u \in Tasks, s \in Subscribers, e \in Events : Owed(u, s, e)' => Owed(u, s, e)
  <2> TAKE u \in Tasks
  <2>1. CASE u = t
    BY <1>1, <1>2, <2>1 DEF Owed
  <2>2. CASE u # t
    BY <1>1, <1>2, <2>2 DEF Owed, InHand
  <2> QED BY <2>1, <2>2
<1> QED BY <1>1, <1>3, StoreStaysSent

\* An event under way is as much in hand as it was.
LEMMA SendSent ==
  ASSUME SentInv, RelayInv', OnceInv', NEW t \in Tasks, NEW x \in Events, Send(t, x)
  PROVE  SentInv'
<1>1. UNCHANGED <<task, sent, head, setup, start, saved, restarts, initialized>>
  BY DEF Send, indexerVars, chainVars, storeVars, boundVars
<1>2. PICK old : old = call[t]
  OBVIOUS
<1>3. /\ call \in [Tasks -> CallType] /\ old.phase = "next" /\ x \in old.rest
      /\ call' = [call EXCEPT ![t] = [phase |-> "sending", by |-> old.by, event |-> x, rest |-> old.rest \ {x}]]
  BY <1>2 DEF Send, SentInv, RelayInv, Relayers
<1>4. /\ call'[t].phase = "sending" /\ call'[t].by = old.by /\ call'[t].event = x
      /\ call'[t].rest = old.rest \ {x} /\ call'[t] # NoCall
  BY <1>3 DEF NoCall
<1>5. \A u \in Tasks, s \in Subscribers, e \in Events : Owed(u, s, e)' => Owed(u, s, e)
  <2> TAKE u \in Tasks
  <2>1. CASE u = t
    BY <1>1, <1>2, <1>3, <1>4, <2>1 DEF Owed, InHand
  <2>2. CASE u # t
    BY <1>1, <1>3, <2>2 DEF Owed, InHand
  <2> QED BY <2>1, <2>2
<1> QED BY <1>1, <1>5, StoreStaysSent

\* The target whose call ends is owed nothing more of the chunk.
LEMMA CallEndsSent ==
  ASSUME SentInv, RelayInv', OnceInv', NEW t \in Tasks,
         Answered(t) \/ Trapped(t) \/ \E s \in Subscribers : CallFails(t, s)
  PROVE  SentInv'
<1>1. UNCHANGED <<sent, head, setup, start, saved, restarts, initialized>>
  BY DEF Answered, Trapped, CallFails, Deliver, DeliverFails, Undelivered, chainVars, storeVars, boundVars
<1>2. PICK r : /\ task' = [task EXCEPT ![t].targets = @ \ {r}] /\ task[t].phase = "publishing"
               /\ call[t] # NoCall => r = call[t].by
  <2>1. CASE Answered(t)
    BY <2>1 DEF Answered, Deliver
  <2>2. CASE Trapped(t)
    BY <2>2 DEF Trapped, Undelivered
  <2>3. CASE \E s \in Subscribers : CallFails(t, s)
    BY <2>3 DEF CallFails, DeliverFails, Undelivered
  <2> QED BY <2>1, <2>2, <2>3
<1>3. call \in [Tasks -> CallType] /\ task \in [Tasks -> TaskType] /\ call' = [call EXCEPT ![t] = NoCall]
  BY DEF Answered, Trapped, CallFails, SentInv, RelayInv, Relayers, IndexerInv, Executions
<1>4. /\ task'[t].rest = task[t].rest /\ task'[t].chunk = task[t].chunk
      /\ task'[t].targets = task[t].targets \ {r}
  <2>1. task[t] \in [phase : {"publishing"}, rest : SUBSET Events, chunk : SUBSET Events,
                     targets : SUBSET Subscribers]
    BY <1>2, <1>3 DEF TaskType, Idle
  <2> QED BY <1>2, <1>3, <2>1
<1>5. \A u \in Tasks, s \in Subscribers, e \in Events : Owed(u, s, e)' => Owed(u, s, e)
  <2> TAKE u \in Tasks
  <2>1. CASE u = t
    BY <1>2, <1>3, <1>4, <2>1 DEF Owed
  <2>2. CASE u # t
    BY <1>2, <1>3, <2>2 DEF Owed, InHand
  <2> QED BY <2>1, <2>2
<1> QED BY <1>1, <1>5, StoreStaysSent

\* The transaction of an event is counted once: the event is in hand no longer.
LEMMA ReplySent ==
  ASSUME Serial, SentInv, RelayInv', OnceInv', NEW t \in Tasks, Sent(t) \/ SendFails(t)
  PROVE  SentInv'
<1>1. PICK old : old = call[t]
  OBVIOUS
<1>2. /\ Reply(t) /\ old.phase = "sending" /\ old # NoCall /\ (Count(t) \/ UNCHANGED sent)
      /\ RelayInv /\ OnceInv /\ Relayers /\ SentAtMostOnce /\ UnreadTx /\ OwedFresh
  BY <1>1 DEF Sent, SendFails, Reply, NoCall, SentInv, RelayInv
<1>3. /\ old.by \in Subscribers /\ old.event \in Events /\ task[t].phase = "publishing"
      /\ old.by \in task[t].targets /\ old.event \in task[t].chunk \ old.rest
  BY <1>1, <1>2, ReplyFacts
<1>4. UNCHANGED <<task, head, setup, start, saved, restarts, initialized>>
  BY <1>2 DEF Reply, indexerVars, chainVars, storeVars, boundVars
<1>5. /\ call \in [Tasks -> CallType]
      /\ call' = [call EXCEPT ![t] = [phase |-> "next", by |-> old.by, rest |-> old.rest]]
      /\ call'[t].phase = "next" /\ call'[t].by = old.by /\ call'[t].rest = old.rest /\ call'[t] # NoCall
  BY <1>1, <1>2 DEF Reply, Relayers, NoCall
<1>6. \A u \in Tasks, s \in Subscribers, e \in Events : Owed(u, s, e)' => Owed(u, s, e)
  <2> TAKE u \in Tasks
  <2>1. u = t
    BY DEF Serial
  <2> QED BY <1>1, <1>2, <1>4, <1>5, <2>1 DEF Owed, InHand
<1>7. CASE UNCHANGED sent
  BY <1>4, <1>6, <1>7, StoreStaysSent
<1>8. CASE Count(t)
  <2>1. \A s \in Subscribers, e \in Events :
          sent'[s][e] = IF s = old.by /\ e = old.event THEN sent[s][e] + 1 ELSE sent[s][e]
    BY <1>1, <1>2, <1>3, <1>8, CountTyped
  <2>2. FreshTx(old.by, old.event)
    BY <1>1, <1>2, <1>3 DEF OwedFresh, Owed, InHand
  <2>3. initialized /\ old.event.block < saved /\ old.event.block <= head /\ task[t].rest \cap task[t].chunk = {}
    <3>1. initialized
      BY <1>2, <1>3, CallFacts DEF Progress
    <3>2. old.event.block < saved /\ task[t].rest \cap task[t].chunk = {}
      BY <1>2, <1>3 DEF OnceInv, Ahead
    <3> QED BY <1>2, <1>3, <3>1, <3>2, SentFacts
  <2>4. \A s \in Subscribers, e \in Events :
          FreshTx(s, e) /\ ~ (s = old.by /\ e = old.event) => FreshTx(s, e)'
    BY <1>4, <2>1 DEF FreshTx
  <2>5. SentAtMostOnce'
    <3> SUFFICES ASSUME NEW s \in Subscribers, NEW e \in Events
                 PROVE  /\ sent'[s][e] <= 1 + restarts
                        /\ e.block > start => sent'[s][e] <= 1
      BY <1>4 DEF SentAtMostOnce
    <3>1. CASE s = old.by /\ e = old.event
      BY <1>2, <1>3, <2>1, <2>2, <3>1, SentFacts DEF FreshTx
    <3>2. CASE ~ (s = old.by /\ e = old.event)
      BY <1>2, <2>1, <2>3, <3>2 DEF SentAtMostOnce
    <3> QED BY <3>1, <3>2
  <2>6. UnreadTx'
    <3>1. \A s \in Subscribers, e \in Events : e.block >= saved => FreshTx(s, e)'
      <4> TAKE s \in Subscribers, e \in Events
      <4>1. e.block >= saved => e # old.event
        BY <1>2, <1>3, <2>3, SentFacts
      <4> QED BY <1>2, <2>3, <2>4, <4>1 DEF UnreadTx
    <3>2. \A s \in Subscribers, e \in Events : sent'[s][e] > 0 => e.block <= head
      BY <1>2, <2>1, <2>3 DEF UnreadTx
    <3> QED BY <1>4, <2>3, <3>1, <3>2 DEF UnreadTx
  <2>7. OwedFresh'
    <3> SUFFICES ASSUME NEW u \in Tasks, NEW s \in Subscribers, NEW e \in Events, Owed(u, s, e)'
                 PROVE  FreshTx(s, e)'
      BY DEF OwedFresh
    <3>1. u = t
      BY DEF Serial
    <3>2. ~ (s = old.by /\ e = old.event)
      BY <1>3, <1>4, <1>5, <2>3, <3>1 DEF Owed, InHand
    <3> QED BY <1>2, <1>6, <2>4, <3>2 DEF OwedFresh
  <2> QED BY <1>2, <2>5, <2>6, <2>7 DEF SentInv
<1> QED BY <1>2, <1>7, <1>8

\* Every step keeps the invariant.
LEMMA SentInvStep ==
  ASSUME Serial, SentInv, [RelayNext]_relayVars
  PROVE  SentInv'
<1>1. RelayInv' /\ OnceInv' /\ (initialized /\ initialized' => saved' >= saved)
  BY RelayInvStep, OnceInvKept DEF SentInv
<1>2. CASE Outside /\ UNCHANGED <<call, sent>>
  BY <1>1, <1>2, OutsideSent, SetUpSent, RestartSent DEF Outside
<1>3. ASSUME NEW t \in Tasks, Indexing(t), UNCHANGED <<call, sent>> PROVE SentInv'
  BY <1>1, <1>3, IndexingSent
<1>4. ASSUME NEW t \in Tasks, RelayStep(t) \/ \E s \in Subscribers : CallFails(t, s)
      PROVE  SentInv'
  BY <1>1, <1>4, OnUpdateSent, SendSent, ReplySent, CallEndsSent DEF RelayStep
<1>5. CASE UNCHANGED relayVars \/ \E n \in AdapterNetworks : set_chainsight_adapter_address(n)
  <2>1. UNCHANGED <<task, call, sent, head, setup, start, saved, restarts, initialized>>
    BY <1>5 DEF relayVars, indexerVars, chainVars, storeVars, boundVars, set_chainsight_adapter_address
  <2>2. \A t \in Tasks, s \in Subscribers, e \in Events : Owed(t, s, e)' => Owed(t, s, e)
    BY <2>1 DEF Owed, InHand
  <2> QED BY <1>1, <2>1, <2>2, StoreStaysSent
<1> QED BY <1>2, <1>3, <1>4, <1>5, RelayCases

\* Nothing was sent at first.
LEMMA SentInvInit == RelayInit => SentInv
<1> SUFFICES ASSUME RelayInit PROVE SentInv
  OBVIOUS
<1>1. RelayInv /\ OnceInv
  BY RelayInvInit, OnceInvInit DEF RelayInit
<1>2. /\ \A s \in Subscribers, e \in Events : sent[s][e] = 0
      /\ initialized = FALSE /\ restarts = 0 /\ \A t \in Tasks : task[t] = Idle
  BY DEF RelayInit, IndexerInit
<1>3. SentAtMostOnce /\ UnreadTx /\ OwedFresh
  BY <1>2 DEF SentAtMostOnce, UnreadTx, OwedFresh, Owed, Idle
<1> QED BY <1>1, <1>3 DEF SentInv

\* One deployment sends at most one transaction of a relayer for an event, whatever
\* calls and transactions fail on the way, for any number of relayers, faults and
\* deployments, as long as one execution ends before the next begins.
THEOREM RelaySendsOnce == Serial => (RelaySpec => []SentAtMostOnce)
<1> SUFFICES ASSUME Serial PROVE RelaySpec => []SentAtMostOnce
  OBVIOUS
<1>1. SentInv /\ [RelayNext]_relayVars => SentInv'
  BY SentInvStep
<1>2. SentInv => SentAtMostOnce
  BY DEF SentInv
<1> QED BY <1>1, <1>2, SentInvInit, PTL DEF RelaySpec

-----------------------------------------------------------------------------
(* A transaction goes to the chain its event names.                        *)

\* The networks that know themselves by one id, and whose transactions are signed
\* with the key of the funded account.
Agreed == SupportedNetwork \ (EthereumNetworks \cup {"Local"})

\* The networks, one by one.
LEMMA TheNetworks ==
  SupportedNetwork = {"Mainnet", "Ropsten", "Rinkeby", "Kovan", "Goerli", "Local", "Mumbai",
                      "Shiden", "Astar", "ScrollAlpha", "ArbitrumGoerli", "OptimismTestnet"}
<1>1. 1..12 = {1, 2, 3, 4, 5, 6, 7, 8, 9, 10, 11, 12}
  OBVIOUS
<1>2. SupportedNetwork = {Declared[1], Declared[2], Declared[3], Declared[4], Declared[5], Declared[6],
                          Declared[7], Declared[8], Declared[9], Declared[10], Declared[11], Declared[12]}
  BY <1>1 DEF SupportedNetwork
<1> QED BY <1>2 DEF Declared

\* The id a network signs its transactions for is the one it is known by, but for
\* the development chain.
LEMMA KnownByItsId ==
  ASSUME NEW n \in SupportedNetwork, n # "Local"
  PROVE  NETWORKS[n].chain_id \in SupportedIds /\ from(NETWORKS[n].chain_id) = n
BY TheNetworks DEF NETWORKS, chain_id, SupportedIds, from

\* An id that names a network is the one its transactions are signed for.
LEMMA NamedByItsId ==
  ASSUME NEW id \in SupportedIds, from(id) # "Local"
  PROVE  from(id) \in SupportedNetwork /\ NETWORKS[from(id)].chain_id = id
<1>1. ASSUME NEW n \in SupportedNetwork, from(id) = n, chain_id[n] = id
      PROVE  from(id) \in SupportedNetwork /\ NETWORKS[from(id)].chain_id = id
  BY <1>1 DEF NETWORKS
<1>2. \E n \in SupportedNetwork : from(id) = n /\ chain_id[n] = id
  BY TheNetworks DEF SupportedIds, from, chain_id
<1> QED BY <1>1, <1>2

\* The event names a chain, and the deployment has an adapter there.
Deliverable(e) == Convertible(e) /\ from(e.peer) \in AdapterNetworks

\* What is published can be converted, what is sent has an adapter to go to.
Named(t) ==
  /\ task[t].phase = "publishing" => \A e \in task[t].rest \cup task[t].chunk : Convertible(e)
  /\ call[t].phase = "sending" => Deliverable(call[t].event)

\* The invariant behind SentToNamedChain.
NamedInv ==
  /\ RelayInv
  /\ \A t \in Tasks : Named(t)
  /\ \A s \in Subscribers, e \in Events : sent[s][e] > 0 => Deliverable(e)

\* A step that sends nothing keeps what was sent.
LEMMA NamedStep ==
  ASSUME NamedInv, RelayInv', UNCHANGED sent, \A t \in Tasks : Named(t)'
  PROVE  NamedInv'
BY DEF NamedInv

\* An execution publishes what it could convert.
LEMMA IndexingNamed ==
  ASSUME NamedInv, RelayInv', UNCHANGED <<call, sent>>, NEW t \in Tasks, Indexing(t)
  PROVE  NamedInv'
<1>1. task \in [Tasks -> TaskType] /\ Named(t)
  BY DEF NamedInv, RelayInv, IndexerInv, Executions
<1>2. \E k : task' = [task EXCEPT ![t] = k]
  BY DEF Indexing, Step, QueryFails, SaveLogs, SaveLogsTo, Query, LogsAnswered, FoundSome,
     StoreAndPublish, Panic, FoundNone, BlockAnswered, Probed, NextChunk, Published
<1>3. task'[t].phase = "publishing" => \A e \in task'[t].rest \cup task'[t].chunk : Convertible(e)
  <2>1. CASE FoundSome(t)
    <3>1. CASE \E e \in task[t].found : ~Convertible(e)
      BY <1>1, <2>1, <3>1 DEF FoundSome, Panic, Idle
    <3>2. CASE ~ \E e \in task[t].found : ~Convertible(e)
      BY <1>1, <2>1, <3>2 DEF StoreAndPublish, FoundSome
    <3> QED BY <3>1, <3>2
  <2>2. CASE NextChunk(t)
    <3>1. PICK chunk \in kSubset(Min({ChunkSize, Cardinality(task[t].rest)}), task[t].rest) :
            task' = [task EXCEPT ![t] = [phase |-> "publishing", rest |-> task[t].rest \ chunk,
                                         chunk |-> chunk, targets |-> subscribed]]
      BY <2>2 DEF NextChunk
    <3>2. chunk \subseteq task[t].rest
      BY DEF kSubset
    <3> QED BY <1>1, <2>2, <3>1, <3>2 DEF NextChunk, Named
  <2>3. CASE Probed(t) \/ QueryFails(t) \/ Published(t)
    BY <1>1, <2>3 DEF Probed, QueryFails, Published, Panic, Idle
  <2>4. CASE LogsAnswered(t) \/ FoundNone(t) \/ BlockAnswered(t)
    BY <1>1, <2>4 DEF LogsAnswered, FoundNone, BlockAnswered
  <2>5. CASE SaveLogs(t) \/ SaveLogsTo(t)
    BY <1>1, <2>5 DEF SaveLogs, SaveLogsTo, Query
  <2> QED BY <2>1, <2>2, <2>3, <2>4, <2>5 DEF Indexing, Step
<1>4. ASSUME NEW u \in Tasks PROVE Named(u)'
  <2>1. Named(u)
    BY DEF NamedInv
  <2>2. CASE u = t
    BY <1>3, <2>1, <2>2 DEF Named, Deliverable
  <2>3. CASE u # t
    BY <1>1, <1>2, <2>1, <2>3 DEF Named, Deliverable
  <2> QED BY <2>2, <2>3
<1> QED BY <1>4, NamedStep

\* A call begins or ends with the chunk as it is.
LEMMA CallNamed ==
  ASSUME NamedInv, RelayInv', NEW t \in Tasks,
         \/ \E s \in Subscribers : OnUpdate(t, s) \/ CallFails(t, s)
         \/ Answered(t) \/ Trapped(t)
  PROVE  NamedInv'
<1>1. /\ task \in [Tasks -> TaskType] /\ call \in [Tasks -> CallType] /\ Named(t)
      /\ UNCHANGED sent
  BY DEF NamedInv, RelayInv, Relayers, IndexerInv, Executions, OnUpdate, CallFails, Answered, Trapped
<1>2. /\ task[t].phase = "publishing"
      /\ task' = task \/ \E s : task' = [task EXCEPT ![t].targets = @ \ {s}]
  BY DEF OnUpdate, CallFails, DeliverFails, Answered, Deliver, Trapped, Undelivered, indexerVars
<1>3. task'[t].rest = task[t].rest /\ task'[t].chunk = task[t].chunk
  <2>1. task[t] \in [phase : {"publishing"}, rest : SUBSET Events, chunk : SUBSET Events,
                     targets : SUBSET Subscribers]
    BY <1>1, <1>2 DEF TaskType, Idle
  <2> QED BY <1>1, <1>2, <2>1
<1>4. call'[t].phase # "sending" /\ \A u \in Tasks \ {t} : call'[u] = call[u]
  <2>1. CASE \E s \in Subscribers : OnUpdate(t, s)
    BY <1>1, <2>1 DEF OnUpdate
  <2>2. CASE Answered(t) \/ Trapped(t)
    BY <1>1, <2>2 DEF Answered, Trapped, NoCall
  <2>3. CASE \E s \in Subscribers : CallFails(t, s)
    BY <1>1, <2>3 DEF CallFails, NoCall
  <2> QED BY <2>1, <2>2, <2>3
<1>5. ASSUME NEW u \in Tasks PROVE Named(u)'
  <2>1. Named(u)
    BY DEF NamedInv
  <2>2. CASE u = t
    BY <1>2, <1>3, <1>4, <2>1, <2>2 DEF Named
  <2>3. CASE u # t
    BY <1>1, <1>2, <1>4, <2>1, <2>3 DEF Named, Deliverable
  <2> QED BY <2>2, <2>3
<1> QED BY <1>1, <1>5, NamedStep

\* A transaction is prepared for a network with an adapter.
LEMMA SendNamed ==
  ASSUME NamedInv, RelayInv', NEW t \in Tasks, NEW x \in Events, Send(t, x)
  PROVE  NamedInv'
<1>1. PICK old : old = call[t]
  OBVIOUS
<1>2. /\ UNCHANGED <<task, sent>> /\ call \in [Tasks -> CallType] /\ old.phase = "next" /\ x \in old.rest
      /\ call' = [call EXCEPT ![t] = [phase |-> "sending", by |-> old.by, event |-> x, rest |-> old.rest \ {x}]]
  BY <1>1 DEF Send, NamedInv, RelayInv, Relayers, indexerVars
<1>3. x \in task[t].chunk /\ task[t].phase = "publishing"
  BY <1>1, <1>2, CallFacts DEF NamedInv, Waits, NoCall
<1>4. from(x.peer) \in AdapterNetworks
  BY DEF Send, HasAdapter, LockCreatedTx, NamedInv, RelayInv, Relayers
<1>5. Deliverable(x)
  BY <1>3, <1>4 DEF NamedInv, Named, Deliverable
<1>6. call'[t].event = x
  BY <1>2
<1>7. ASSUME NEW u \in Tasks PROVE Named(u)'
  <2>1. Named(u)
    BY DEF NamedInv
  <2>2. CASE u = t
    BY <1>2, <1>5, <1>6, <2>1, <2>2 DEF Named, Deliverable
  <2>3. CASE u # t
    BY <1>2, <2>1, <2>3 DEF Named, Deliverable
  <2> QED BY <2>2, <2>3
<1> QED BY <1>2, <1>7, NamedStep

\* What was prepared is what is sent.
LEMMA ReplyNamed ==
  ASSUME NamedInv, RelayInv', NEW t \in Tasks, Sent(t) \/ SendFails(t)
  PROVE  NamedInv'
<1>1. PICK old : old = call[t]
  OBVIOUS
<1>2. /\ Reply(t) /\ old.phase = "sending" /\ (Count(t) \/ UNCHANGED sent)
      /\ RelayInv /\ Relayers /\ Deliverable(old.event)
  BY <1>1 DEF Sent, SendFails, Reply, NamedInv, RelayInv, Named
<1>3. UNCHANGED task /\ old.by \in Subscribers /\ old.event \in Events
  BY <1>1, <1>2, ReplyFacts DEF indexerVars
<1>4. \A s \in Subscribers, e \in Events : sent'[s][e] > 0 => Deliverable(e)
  <2>1. CASE UNCHANGED sent
    BY <2>1 DEF NamedInv
  <2>2. CASE Count(t)
    <3>1. \A s \in Subscribers, e \in Events : sent'[s][e] # sent[s][e] => e = old.event
      BY <1>1, <1>2, <1>3, <2>2, CountTyped
    <3> QED BY <1>2, <3>1 DEF NamedInv
  <2> QED BY <1>2, <2>1, <2>2
<1>5. call'[t].phase = "next" /\ \A u \in Tasks \ {t} : call'[u] = call[u]
  BY <1>2 DEF Reply, Relayers
<1>6. ASSUME NEW u \in Tasks PROVE Named(u)'
  <2>1. Named(u)
    BY DEF NamedInv
  <2> QED BY <1>3, <1>5, <2>1 DEF Named, Deliverable
<1> QED BY <1>4, <1>6 DEF NamedInv, Deliverable

\* Every step keeps the invariant.
LEMMA NamedInvStep ==
  ASSUME NamedInv, [RelayNext]_relayVars
  PROVE  NamedInv'
<1>1. RelayInv'
  BY RelayInvStep DEF NamedInv
<1>2. CASE UNCHANGED <<task, call, sent>>
  <2>1. \A t \in Tasks : Named(t)'
    BY <1>2 DEF NamedInv, Named, Deliverable
  <2> QED BY <1>1, <1>2, <2>1, NamedStep
<1>3. CASE Outside /\ UNCHANGED <<call, sent>>
  <2>1. UNCHANGED task
    BY <1>3 DEF Outside, Mine, SetLendPool, SetLendPoolAnswered, AddSubscriber, Restart
  <2> QED BY <1>2, <1>3, <2>1
<1>4. ASSUME NEW t \in Tasks, Indexing(t), UNCHANGED <<call, sent>> PROVE NamedInv'
  BY <1>1, <1>4, IndexingNamed
<1>5. ASSUME NEW t \in Tasks, RelayStep(t) \/ \E s \in Subscribers : CallFails(t, s) PROVE NamedInv'
  BY <1>1, <1>5, CallNamed, SendNamed, ReplyNamed DEF RelayStep
<1>6. UNCHANGED relayVars \/ (\E n \in AdapterNetworks : set_chainsight_adapter_address(n))
        => UNCHANGED <<task, call, sent>>
  BY DEF relayVars, indexerVars, set_chainsight_adapter_address
<1> QED BY <1>2, <1>3, <1>4, <1>5, <1>6, RelayCases

\* Every transaction goes to the chain the event names, names the indexer's chain as
\* the other side knows it, and comes from the funded account, for every choice of
\* networks among those the table agrees with itself about: it knows the development
\* chain by an id it does not sign for, and signs for the Ethereum networks with a
\* key that is still to be done.
THEOREM RelaySendsToNamed ==
  Home # "Local" /\ AdapterNetworks \subseteq Agreed => (RelaySpec => []SentToNamedChain)
<1> SUFFICES ASSUME Home # "Local", AdapterNetworks \subseteq Agreed PROVE RelaySpec => []SentToNamedChain
  OBVIOUS
<1>1. RelayInit => NamedInv
  <2> SUFFICES ASSUME RelayInit PROVE NamedInv
    OBVIOUS
  <2>1. /\ \A s \in Subscribers, e \in Events : sent[s][e] = 0
        /\ \A t \in Tasks : task[t] = Idle /\ call[t] = NoCall
    BY DEF RelayInit, IndexerInit
  <2> QED BY <2>1, RelayInvInit DEF NamedInv, Named, Idle, NoCall
<1>2. ASSUME NamedInv PROVE SentToNamedChain
  <2> SUFFICES ASSUME NEW s \in Subscribers, NEW e \in Events, sent[s][e] > 0
               PROVE  /\ SameChain(e.peer) /\ SignedAsShown(from(e.peer))
                      /\ LockReleasedTx([peer |-> LockCreatedTx(e).names]).to = Home
    BY DEF SentToNamedChain
  <2>1. e.peer \in SupportedIds /\ from(e.peer) \in Agreed
    BY <1>2 DEF NamedInv, Deliverable, Convertible
  <2>2. SameChain(e.peer)
    BY <2>1, NamedByItsId DEF Agreed, SameChain, ctx, get_network_info
  <2>3. SignedAsShown(from(e.peer))
    <3>1. ethereum_address = "test_key_1"
      BY DEF ethereum_address, key_name, to_key_name
    <3>2. NETWORKS[from(e.peer)].key_name = "test_key_1"
      BY <2>1 DEF Agreed, NETWORKS
    <3> QED BY <3>1, <3>2 DEF SignedAsShown, ctx, get_network_info
  <2>4. LockReleasedTx([peer |-> LockCreatedTx(e).names]).to = Home
    <3>1. Home \in SupportedNetwork
      BY RelayAssumption
    <3> QED BY <3>1, KnownByItsId DEF LockReleasedTx, LockCreatedTx, get_network_info
  <2> QED BY <2>2, <2>3, <2>4
<1>3. NamedInv => SentToNamedChain
  BY <1>2
<1> QED BY <1>1, <1>3, NamedInvStep, PTL DEF RelaySpec
=============================================================================
