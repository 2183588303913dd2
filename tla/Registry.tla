------------------------------ MODULE Registry ------------------------------
(***************************************************************************)
(* The exchange account and the registry of adapters.                      *)
(*                                                                         *)
(* The account row holds the environment and the key the operator saved;   *)
(* the registry creates an adapter from it on the first use and keeps it   *)
(* until the settings are saved or the connection is tested.  Everything   *)
(* that talks to the exchange asks the registry, and between the read of   *)
(* the row and the creation of the adapter there is an await.              *)
(*                                                                         *)
(* An account is [env, key]; the encryption of the key is left out.        *)
(***************************************************************************)
EXTENDS Integers, Sequences, FiniteSets

CONSTANTS
  Accounts,     \* settings an operator may save, as [env, key] records
  FromEnv,      \* the settings of the environment variables
  NoAdapter,
  MaxAdapters   \* adapters created in one life of the process (bounds the model)

ASSUME RegistryAssumption ==
  /\ FromEnv \in Accounts /\ MaxAdapters \in Nat \ {0}
  /\ NoAdapter \notin 1..MaxAdapters

VARIABLES
  saved,     \* the row of exchange_accounts
  adapters,  \* adapters created so far: the account each was made from, and
             \* the position mode it remembers
  cache,     \* this.cache.get('binance-futures'): an index of adapters
  stale,     \* the settings are saved and the cache is not invalidated yet
  budget     \* events of the outside world still to come (bounds the model)

registryVars == <<saved, adapters, cache, stale, budget>>

Modes == {"unknown", "one-way", "hedge"}
Handles == 1..MaxAdapters

\* the row is written from the environment variables at every start
SeedFromEnv == FromEnv

RegistryInit ==
  /\ saved = SeedFromEnv
  /\ adapters = <<>>
  /\ cache = NoAdapter
  /\ stale = FALSE

Happens == /\ budget > 0
           /\ budget' = budget - 1

(***************************************************************************)
(* get(): a hit costs nothing; a miss reads the row now and makes the      *)
(* adapter when the read returns, whatever happened in between.            *)
(***************************************************************************)
Hit == cache # NoAdapter

Create(account) ==
  /\ Len(adapters) < MaxAdapters
  /\ adapters' = Append(adapters, [account |-> account, mode |-> "unknown"])
  /\ cache' = Len(adapters) + 1

Remember(a, mode) == adapters' = [adapters EXCEPT ![a].mode = mode]

(***************************************************************************)
(* The operator saves other settings, and the adapter made from the old    *)
(* ones is dropped when the row is written.                                *)
(***************************************************************************)
SaveSettings ==
  /\ ~stale
  /\ Happens
  /\ \E new \in Accounts \ {saved} : saved' = new
  /\ stale' = TRUE
  /\ UNCHANGED <<adapters, cache>>

Invalidate == cache' = NoAdapter

SettingsSaved ==
  /\ stale
  /\ Invalidate
  /\ stale' = FALSE
  /\ UNCHANGED <<saved, adapters, budget>>
=============================================================================
