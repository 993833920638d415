------------------------------- MODULE Networks -------------------------------
(***************************************************************************)
(* chainsight/src/network: the chains the canisters know, by name, by the  *)
(* chain id a contract names them with, and by what is needed to send a    *)
(* transaction there.  Endpoints are left out: each network has its own.   *)
(***************************************************************************)
EXTENDS Integers

\* The variants in the order of their declaration, which Ord is derived from.
Declared == <<"Mainnet", "Ropsten", "Rinkeby", "Kovan", "Goerli", "Local", "Mumbai",
              "Shiden", "Astar", "ScrollAlpha", "ArbitrumGoerli", "OptimismTestnet">>
SupportedNetwork == {Declared[i] : i \in 1..12}

\* The ids SupportedNetwork::from knows; it panics for any other.
SupportedIds == {0, 1, 3, 4, 5, 42, 336, 420, 592, 1337, 80001, 421613, 534353}

from(id) ==
  CASE id = 1 -> "Mainnet" [] id = 3 -> "Ropsten" [] id = 4 -> "Rinkeby"
    [] id = 42 -> "Kovan" [] id = 5 -> "Goerli" [] id \in {1337, 0} -> "Local"
    [] id = 80001 -> "Mumbai" [] id = 336 -> "Shiden" [] id = 592 -> "Astar"
    [] id = 534353 -> "ScrollAlpha" [] id = 420 -> "OptimismTestnet"
    [] id = 421613 -> "ArbitrumGoerli"

\* The table NETWORKS: the id a network's transactions are signed for, and the
\* name of the key they are signed with.
chain_id ==
  [Mainnet |-> 1, Ropsten |-> 3, Rinkeby |-> 4, Kovan |-> 42, Goerli |-> 5,
   Local |-> 31337, Mumbai |-> 80001, Shiden |-> 336, Astar |-> 592,
   ScrollAlpha |-> 534353, OptimismTestnet |-> 420, ArbitrumGoerli |-> 421613]
EthereumNetworks == {"Mainnet", "Ropsten", "Rinkeby", "Kovan", "Goerli"}
\* Mutation: the table has the id of Arbitrum One for its test network.
NETWORKSOne ==
  [n \in SupportedNetwork |->
     [chain_id |-> IF n = "ArbitrumGoerli" THEN 42161 ELSE chain_id[n],
      key_name |-> IF n \in EthereumNetworks THEN "TODO" ELSE "test_key_1"]]

NETWORKS ==
  [n \in SupportedNetwork |->
     [chain_id |-> chain_id[n],
      key_name |-> IF n \in EthereumNetworks THEN "TODO" ELSE "test_key_1"]]

get_network_info(n) == NETWORKS[n]

\* contract::ctx: whom a transaction is sent to, and whom it comes from.
ctx(n) == [chain |-> get_network_info(n).chain_id, signer |-> get_network_info(n).key_name]

\* EcdsaKeyEnvs::to_key_name, which the canisters use for get_ethereum_address only.
to_key_name(n) ==
  CASE n = "Goerli" -> "goerli" [] n = "Kovan" -> "kovan" [] n = "Rinkeby" -> "rinkeby"
    [] n = "Ropsten" -> "ropsten" [] n = "Mainnet" -> "mainnet" [] OTHER -> "test_key_1"

\* KEY_NAME of every canister, and the account get_ethereum_address shows for it: an
\* account is known by the name of its key.
key_name == to_key_name("Local")
ethereum_address == key_name

-----------------------------------------------------------------------------
\* An id that is known names one network, and transactions to that network carry
\* the same id: the counters of both chains meet.  Only the development chain is
\* known by other ids than its own.
SameChain(id) == ctx(from(id)).chain = id

\* The networks whose transactions come from the account that
\* get_ethereum_address shows, and the scripts fund.
SignedAsShown(n) == ctx(n).signer = ethereum_address
=============================================================================
