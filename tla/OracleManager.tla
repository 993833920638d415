---------------------------- MODULE OracleManager ----------------------------
(***************************************************************************)
(* chainsight/src/oracle_manager: the canister that sets the price of an   *)
(* asset on all chains.  set_value writes it to one oracle after another,  *)
(* an await each; a write whose answer is an error is tried once more, and *)
(* what becomes of that is not looked at.                                  *)
(*                                                                         *)
(* One symbol stands for all, and a value is known by the call that brings *)
(* it: call i is the i-th that starts.  The transactions of one account    *)
(* are executed in the order of their nonces, so a write takes effect with *)
(* its answer or, if the answer is an error, perhaps not at all.           *)
(***************************************************************************)
EXTENDS Networks, FiniteSets

CONSTANTS
  Targets,    \* the networks with an oracle
  Addresses,  \* the addresses of oracle contracts
  MaxCalls    \* bound: calls of set_value

ASSUME OracleAssumption == Targets \subseteq SupportedNetwork /\ MaxCalls \in Nat

Calls == 1..MaxCalls

VARIABLES
  oracle_addresses,  \* ORACLE_ADDRESSES: the <<network, address>> pairs of the map
  started,           \* how many calls of set_value there were
  call,              \* call[i]: what call i still has to write, and how often it tried
  prices,            \* prices[o]: the call that oracle o has its value from, 0 if none
  gaveUp,            \* the <<call, oracle>> pairs whose retry failed as well
  before             \* before[i]: the calls that had ended when call i started

oracleVars == <<oracle_addresses, started, call, prices, gaveUp, before>>

Oracles == Targets \X Addresses

UnderWay == {i \in Calls : call[i].rest # {}}

OracleInit ==
  /\ oracle_addresses = {}
  /\ started = 0
  /\ call = [i \in Calls |-> [dists |-> {}, rest |-> {}, tries |-> 0]]
  /\ prices = [o \in Oracles |-> 0]
  /\ gaveUp = {}
  /\ before = [i \in Calls |-> {}]

-----------------------------------------------------------------------------
\* The map has one address for a network.
set_oracle_address(n, address) ==
  /\ oracle_addresses' = {o \in oracle_addresses : o[1] # n} \cup {<<n, address>>}
  /\ UNCHANGED <<started, call, prices, gaveUp, before>>

\* The canisters are stopped, which waits for the calls under way, and deployed anew.
OracleRestart ==
  /\ UnderWay = {}
  /\ oracle_addresses' = {}
  /\ UNCHANGED <<started, call, prices, gaveUp, before>>

\* set_value copies the map before its first await.
set_value ==
  /\ started < MaxCalls
  /\ started' = started + 1
  /\ call' = [call EXCEPT ![started + 1] =
                [dists |-> oracle_addresses, rest |-> oracle_addresses, tries |-> 0]]
  /\ before' = [before EXCEPT ![started + 1] = (1..started) \ UnderWay]
  /\ UNCHANGED <<oracle_addresses, prices, gaveUp>>

\* A BTreeMap is read in the order of its keys.
Position(n) == CHOOSE k \in 1..12 : Declared[k] = n

\* Call i waits for the answer about oracle o.
Awaits(i, o) ==
  o \in call[i].rest /\ \A p \in call[i].rest : Position(o[1]) <= Position(p[1])

NextOracle(i, o) == call' = [call EXCEPT ![i].rest = @ \ {o}, ![i].tries = 0]

setPrice(i, o) == prices' = [prices EXCEPT ![o] = i]

Accepted(i, o) ==
  /\ Awaits(i, o)
  /\ setPrice(i, o)
  /\ NextOracle(i, o)
  /\ UNCHANGED <<oracle_addresses, started, gaveUp, before>>

\* Mutation: an error ends the call.
RetryFailsAll(i, o) ==
  /\ Awaits(i, o) /\ call[i].tries = 1
  /\ gaveUp' = gaveUp \cup {<<i, o>>}
  /\ call' = [call EXCEPT ![i].rest = {}]
  /\ setPrice(i, o) \/ UNCHANGED prices
  /\ UNCHANGED <<oracle_addresses, started, before>>

\* Mutation: the write is tried until it succeeds.
RetryFailsAgain(i, o) ==
  /\ Awaits(i, o) /\ call[i].tries = 1
  /\ setPrice(i, o) \/ UNCHANGED prices
  /\ UNCHANGED <<oracle_addresses, started, call, gaveUp, before>>

\* Mutation: the attempts are counted on.
WriteFailsUnbounded(i, o) ==
  /\ Awaits(i, o)
  /\ call' = [call EXCEPT ![i].tries = @ + 1]
  /\ setPrice(i, o) \/ UNCHANGED prices
  /\ UNCHANGED <<oracle_addresses, started, gaveUp, before>>

\* The first attempt is answered by an error, whether or not it was executed.
WriteFails(i, o) ==
  /\ Awaits(i, o) /\ call[i].tries = 0
  /\ call' = [call EXCEPT ![i].tries = 1]
  /\ setPrice(i, o) \/ UNCHANGED prices
  /\ UNCHANGED <<oracle_addresses, started, gaveUp, before>>

\* So is the second: the call goes on with the next oracle.
RetryFails(i, o) ==
  /\ Awaits(i, o) /\ call[i].tries = 1
  /\ gaveUp' = gaveUp \cup {<<i, o>>}
  /\ NextOracle(i, o)
  /\ setPrice(i, o) \/ UNCHANGED prices
  /\ UNCHANGED <<oracle_addresses, started, before>>

Answer(i) == \E o \in Oracles : Accepted(i, o) \/ WriteFails(i, o) \/ RetryFails(i, o)

OracleNext ==
  \/ \E n \in Targets, address \in Addresses : set_oracle_address(n, address)
  \/ OracleRestart
  \/ set_value
  \/ \E i \in Calls : Answer(i)

\* The node, or the platform in its place, answers every request.
OracleFairness == \A i \in Calls : WF_oracleVars(Answer(i))

OracleSpec == OracleInit /\ [][OracleNext]_oracleVars /\ OracleFairness
-----------------------------------------------------------------------------
(* Properties. *)

\* Every variable has its type: a network has one address at most, and a call has
\* some of the oracles it started with to go.
OracleTypeOK ==
  /\ oracle_addresses \subseteq Oracles
  /\ \A o, p \in oracle_addresses : o[1] = p[1] => o = p
  /\ started \in 0..MaxCalls
  /\ call \in [Calls -> [dists : SUBSET Oracles, rest : SUBSET Oracles, tries : 0..1]]
  /\ \A i \in Calls : call[i].rest \subseteq call[i].dists
  /\ prices \in [Oracles -> 0..started]
  /\ gaveUp \subseteq (1..started) \X Oracles
  /\ before \in [Calls -> SUBSET (1..started)]

\* However calls overlap, a call leaves no oracle it has dealt with at a price from
\* before it: the oracle has the value of that call, of one that overlapped it or of
\* a later one, unless its write failed twice.  After a call that nothing overlapped,
\* all its oracles agree; calls that overlap leave each oracle to the last writer.
NoStalePrice ==
  \A i \in 1..started : \A o \in call[i].dists \ call[i].rest :
    prices[o] \notin {0} \cup before[i] \/ <<i, o>> \in gaveUp

\* Every oracle a call started with is written by it in the end, or given up,
\* whatever happens to the writes before.
EveryOracleTried ==
  \A i \in Calls, o \in Oracles :
    o \in call[i].rest ~> (o \notin call[i].rest /\ (prices[o] >= i \/ <<i, o>> \in gaveUp))
=============================================================================
