------------------------- MODULE OracleManagerProofs -------------------------
(***************************************************************************)
(* No call of set_value leaves an oracle at a price from before it.  The   *)
(* invariant: each oracle of a call is still to be written, has a value    *)
(* that no earlier call brought, or was given up; and a call that ended    *)
(* before another started has nothing to write any more.                   *)
(***************************************************************************)
EXTENDS OracleManager, TLAPS

\* A call that has not started has nothing to write.
Unstarted == \A i \in Calls : i > started => call[i].rest = {}

\* A call that ended before another has nothing to write, and is not that other.
Ended == \A i \in 1..started : \A j \in before[i] : j # i /\ call[j].rest = {}

\* Each oracle of a call is to be written, has a value that is not stale, or was given up.
Fresh ==
  \A i \in 1..started : \A o \in call[i].dists :
    \/ o \in call[i].rest
    \/ prices[o] \notin {0} \cup before[i]
    \/ <<i, o>> \in gaveUp

OracleInv == OracleTypeOK /\ Unstarted /\ Ended /\ Fresh

LEMMA StartedAreCalls == OracleTypeOK => started \in Nat /\ 1..started \subseteq Calls
BY OracleAssumption DEF OracleTypeOK, Calls

LEMMA OracleInvInit == OracleInit => OracleInv
BY OracleAssumption DEF OracleInit, OracleInv, OracleTypeOK, Unstarted, Ended, Fresh, Calls

-----------------------------------------------------------------------------
LEMMA SetAddressStep ==
  ASSUME OracleInv, NEW n \in Targets, NEW address \in Addresses,
         set_oracle_address(n, address)
  PROVE  OracleInv'
<1>1. oracle_addresses' \subseteq Oracles
  BY DEF OracleInv, OracleTypeOK, set_oracle_address, Oracles
<1>2. ASSUME NEW o \in oracle_addresses', NEW p \in oracle_addresses', o[1] = p[1]
      PROVE  o = p
  BY <1>2 DEF OracleInv, OracleTypeOK, set_oracle_address
<1> QED
  BY <1>1, <1>2 DEF OracleInv, OracleTypeOK, set_oracle_address, Unstarted, Ended, Fresh

LEMMA RestartStep == OracleInv /\ OracleRestart => OracleInv'
BY DEF OracleInv, OracleTypeOK, OracleRestart, Unstarted, Ended, Fresh

LEMMA SetValueStep == ASSUME OracleInv, set_value PROVE OracleInv'
<1> DEFINE s == started + 1
<1> USE DEF Calls
<1>1. /\ started \in 0..MaxCalls /\ s \in Calls /\ started' = s
      /\ call \in [Calls -> [dists : SUBSET Oracles, rest : SUBSET Oracles, tries : 0..1]]
  BY OracleAssumption DEF OracleInv, OracleTypeOK, set_value
<1>2. /\ call'[s] = [dists |-> oracle_addresses, rest |-> oracle_addresses, tries |-> 0]
      /\ \A i \in Calls : i # s => call'[i] = call[i]
  BY <1>1 DEF set_value
<1>3. /\ before'[s] = (1..started) \ UnderWay /\ before \in [Calls -> SUBSET (1..started)]
      /\ \A i \in Calls : i # s => before'[i] = before[i]
  BY <1>1 DEF set_value, OracleInv, OracleTypeOK
<1>4. OracleTypeOK'
  <2>1. call' \in [Calls -> [dists : SUBSET Oracles, rest : SUBSET Oracles, tries : 0..1]]
    BY <1>1 DEF set_value, OracleInv, OracleTypeOK
  <2>2. \A i \in Calls : call'[i].rest \subseteq call'[i].dists
    BY <1>2 DEF OracleInv, OracleTypeOK
  <2>3. started' \in 0..MaxCalls
    BY <1>1, OracleAssumption
  <2>4. prices' \in [Oracles -> 0..started'] /\ gaveUp' \subseteq (1..started') \X Oracles
    BY <1>1 DEF set_value, OracleInv, OracleTypeOK
  <2>5. before' \in [Calls -> SUBSET (1..started')]
    BY <1>1 DEF set_value, OracleInv, OracleTypeOK
  <2>6. oracle_addresses' = oracle_addresses
    BY DEF set_value
  <2> QED
    BY <2>1, <2>2, <2>3, <2>4, <2>5, <2>6 DEF OracleInv, OracleTypeOK
<1>5. Unstarted'
  BY <1>1, <1>2 DEF Unstarted, OracleInv
<1>6. 1..started \subseteq Calls /\ \A i \in 1..s : i # s => i \in 1..started
  BY <1>1, OracleAssumption
<1>7. Ended'
  <2> SUFFICES ASSUME NEW i \in 1..s, NEW j \in before'[i] PROVE j # i /\ call'[j].rest = {}
    BY <1>1 DEF Ended
  <2>1. CASE i = s
    <3>1. j \in 1..started /\ j \notin UnderWay /\ j \in Calls
      BY <1>3, <1>6, <2>1
    <3>2. j # s
      BY <1>1, <3>1
    <3> QED BY <1>2, <2>1, <3>1, <3>2 DEF UnderWay
  <2>2. CASE i # s
    <3>1. i \in 1..started /\ j \in before[i] /\ j \in 1..started
      BY <1>3, <1>6, <2>2
    <3>2. j # s /\ j \in Calls
      BY <1>1, <1>6, <3>1
    <3> QED BY <1>2, <3>1, <3>2 DEF OracleInv, Ended
  <2> QED BY <2>1, <2>2
<1>8. Fresh'
  <2> SUFFICES ASSUME NEW i \in 1..s, NEW o \in call'[i].dists
               PROVE  \/ o \in call'[i].rest
                      \/ prices[o] \notin {0} \cup before'[i]
                      \/ <<i, o>> \in gaveUp
    BY <1>1 DEF Fresh, set_value
  <2>1. CASE i = s
    BY <1>2, <2>1
  <2>2. CASE i # s
    <3>1. i \in 1..started /\ i \in Calls
      BY <1>6, <2>2
    <3> QED BY <1>2, <1>3, <2>2, <3>1 DEF OracleInv, Fresh
  <2> QED BY <2>1, <2>2
<1> QED BY <1>4, <1>5, <1>7, <1>8 DEF OracleInv

\* What every answer to a call has in common.
LEMMA AnswerStep ==
  ASSUME OracleInv, NEW i \in Calls, NEW o \in Oracles, Awaits(i, o),
         UNCHANGED <<oracle_addresses, started, before>>,
         prices' = [prices EXCEPT ![o] = i] \/ prices' = prices,
         gaveUp' = gaveUp \cup {<<i, o>>} \/ gaveUp' = gaveUp,
         NEW t \in 0..1,
         \/ /\ call' = [call EXCEPT ![i].rest = @ \ {o}, ![i].tries = t]
            /\ prices'[o] = i \/ <<i, o>> \in gaveUp'
         \/ call' = [call EXCEPT ![i].tries = t]
  PROVE  OracleInv'
<1>1. call \in [Calls -> [dists : SUBSET Oracles, rest : SUBSET Oracles, tries : 0..1]]
  BY DEF OracleInv, OracleTypeOK
<1>2. i \in 1..started
  <2>1. o \in call[i].rest
    BY DEF Awaits
  <2> QED BY <2>1, StartedAreCalls DEF OracleInv, Unstarted, Calls
<1>3. /\ call'[i].dists = call[i].dists
      /\ \A j \in Calls : j # i => call'[j] = call[j]
      /\ call'[i].rest \subseteq call[i].rest
      /\ \A p \in call[i].rest :
           p \in call'[i].rest \/ (p = o /\ (prices'[o] = i \/ <<i, o>> \in gaveUp'))
  <2>1. CASE /\ call' = [call EXCEPT ![i].rest = @ \ {o}, ![i].tries = t]
             /\ prices'[o] = i \/ <<i, o>> \in gaveUp'
    <3>1. /\ call'[i].dists = call[i].dists /\ call'[i].rest = call[i].rest \ {o}
          /\ \A j \in Calls : j # i => call'[j] = call[j]
      BY <1>1, <2>1
    <3> QED BY <2>1, <3>1
  <2>2. CASE call' = [call EXCEPT ![i].tries = t]
    <3>1. /\ call'[i].dists = call[i].dists /\ call'[i].rest = call[i].rest
          /\ \A j \in Calls : j # i => call'[j] = call[j]
      BY <1>1, <2>2
    <3> QED BY <3>1
  <2> QED BY <2>1, <2>2
<1>4. OracleTypeOK'
  <2>1. call' \in [Calls -> [dists : SUBSET Oracles, rest : SUBSET Oracles, tries : 0..1]]
    BY <1>1
  <2>2. \A j \in Calls : call'[j].rest \subseteq call'[j].dists
    BY <1>3 DEF OracleInv, OracleTypeOK
  <2>3. prices' \in [Oracles -> 0..started']
    <3>1. prices \in [Oracles -> 0..started] /\ i \in 0..started
      BY <1>2, StartedAreCalls DEF OracleInv, OracleTypeOK
    <3> QED BY <3>1
  <2>4. gaveUp' \subseteq (1..started') \X Oracles
    BY <1>2 DEF OracleInv, OracleTypeOK
  <2> QED BY <2>1, <2>2, <2>3, <2>4 DEF OracleInv, OracleTypeOK
<1>5. Unstarted'
  BY <1>3 DEF OracleInv, Unstarted
<1>6. 1..started \subseteq Calls
  BY StartedAreCalls DEF OracleInv
<1>7. Ended'
  BY <1>3, <1>6 DEF OracleInv, OracleTypeOK, Ended
\* The call that writes has not ended, so its value is stale for none.
<1>8. \A j \in 1..started : i \notin {0} \cup before[j]
  <2>1. call[i].rest # {}
    BY DEF Awaits
  <2> QED BY <1>2, <2>1 DEF OracleInv, Ended
<1>9. Fresh'
  <2> SUFFICES ASSUME NEW j \in 1..started, NEW p \in call'[j].dists
               PROVE  \/ p \in call'[j].rest
                      \/ prices'[p] \notin {0} \cup before[j]
                      \/ <<j, p>> \in gaveUp'
    BY DEF Fresh
  <2>1. p \in call[j].dists /\ p \in Oracles
    BY <1>1, <1>3, <1>6
  <2>2. prices'[p] = prices[p] \/ prices'[p] = i
    BY <2>1 DEF OracleInv, OracleTypeOK
  <2>3. CASE prices'[p] = i
    BY <1>8, <2>3
  <2>4. CASE prices'[p] = prices[p] /\ prices'[p] # i
    <3>1. \/ p \in call[j].rest
          \/ prices[p] \notin {0} \cup before[j]
          \/ <<j, p>> \in gaveUp
      BY <2>1 DEF OracleInv, Fresh
    <3>2. p \in call[j].rest => p \in call'[j].rest \/ <<j, p>> \in gaveUp'
      BY <1>3, <1>6, <2>4
    <3> QED BY <2>4, <3>1, <3>2
  <2> QED BY <2>2, <2>3, <2>4
<1> QED BY <1>4, <1>5, <1>7, <1>9 DEF OracleInv

LEMMA OracleInvStep == OracleInv /\ [OracleNext]_oracleVars => OracleInv'
<1> SUFFICES ASSUME OracleInv, [OracleNext]_oracleVars PROVE OracleInv'
  OBVIOUS
<1>1. ASSUME NEW n \in Targets, NEW address \in Addresses, set_oracle_address(n, address)
      PROVE  OracleInv'
  BY <1>1, SetAddressStep
<1>2. ASSUME NEW i \in Calls, NEW o \in Oracles, Accepted(i, o) PROVE OracleInv'
  <2>1. prices' = [prices EXCEPT ![o] = i] /\ prices'[o] = i
    BY <1>2 DEF Accepted, setPrice, OracleInv, OracleTypeOK
  <2> QED
    BY <1>2, <2>1, AnswerStep, 0 \in 0..1 DEF Accepted, NextOracle
<1>3. ASSUME NEW i \in Calls, NEW o \in Oracles, WriteFails(i, o) PROVE OracleInv'
  BY <1>3, AnswerStep, 1 \in 0..1 DEF WriteFails, setPrice
<1>4. ASSUME NEW i \in Calls, NEW o \in Oracles, RetryFails(i, o) PROVE OracleInv'
  <2>1. <<i, o>> \in gaveUp'
    BY <1>4 DEF RetryFails
  <2> QED
    BY <1>4, <2>1, AnswerStep, 0 \in 0..1 DEF RetryFails, setPrice, NextOracle
<1>5. CASE UNCHANGED oracleVars
  BY <1>5 DEF oracleVars, OracleInv, OracleTypeOK, Unstarted, Ended, Fresh
<1> QED
  BY <1>1, <1>2, <1>3, <1>4, <1>5, RestartStep, SetValueStep DEF OracleNext, Answer

-----------------------------------------------------------------------------
\* Every variable of oracle_manager keeps its type: no call tries a write more than
\* twice, and the map never has two addresses for a network.
THEOREM OracleTypeCorrect == OracleSpec => []OracleTypeOK
<1>1. OracleInv => OracleTypeOK
  BY DEF OracleInv
<1> QED BY <1>1, OracleInvInit, OracleInvStep, PTL DEF OracleSpec

\* However calls overlap and writes fail, no call leaves an oracle it has dealt with
\* at a price from before it, unless the write was given up with two errors.
THEOREM NoOracleLeftStale == OracleSpec => []NoStalePrice
<1>1. OracleInv => NoStalePrice
  BY DEF OracleInv, Fresh, NoStalePrice
<1> QED BY <1>1, OracleInvInit, OracleInvStep, PTL DEF OracleSpec
=============================================================================
