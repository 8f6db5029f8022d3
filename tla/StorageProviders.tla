--------------------------- MODULE StorageProviders ---------------------------
(* The storage provider of an installation (casino/core/storage): the       *)
(* configuration names it, the first request builds it, and every game      *)
(* action of the installation goes through it. Both providers are set up    *)
(* here; the chosen one alone takes steps. What every caller of the one     *)
(* provider interface may wait for is stated once for both.                 *)
EXTENDS SqlGameAction

CONSTANTS
    JsonKeys, JsonVariants, JsonPlans, JsonEpochs,   \* the JSON provider's instance
    ExactCents, MaxFailures

VARIABLES
    provider,   \* storage_provider_name()
    jWallet, jRows, jState, jClaims, jReceipts, jEpoch, jJournal, jBackup,
    jPc, jReq, jFailures, jTold

json == <<jWallet, jRows, jState, jClaims, jReceipts, jEpoch, jJournal, jBackup,
          jPc, jReq, jFailures, jTold>>

Json == INSTANCE JsonGameAction WITH
    Keys <- JsonKeys, Variants <- JsonVariants, Plans <- JsonPlans, MaxEpoch <- JsonEpochs,
    wallet <- jWallet, rows <- jRows, state <- jState, claims <- jClaims,
    receipts <- jReceipts, epoch <- jEpoch, journal <- jJournal, backup <- jBackup,
    pc <- jPc, req <- jReq, failures <- jFailures, told <- jTold

all == <<provider, vars, json>>

BuildProvider ==
    /\ provider \in {"json", "sql"}
    /\ Init /\ Json!Init

ProviderNext ==
    \/ provider = "sql" /\ Next /\ UNCHANGED <<provider, json>>
    \/ provider = "json" /\ Json!Next /\ UNCHANGED <<provider, vars>>

ProviderSpec == BuildProvider /\ [][ProviderNext]_all

(* The fairness of the provider that serves, as its own module states it.   *)
ProviderFairSpec ==
    /\ ProviderSpec
    /\ \A s \in Sessions :
          /\ WF_vars(provider = "sql" /\ Statement(s))
          /\ WF_vars(provider = "sql" /\ RollBack(s) /\ (sess[s].gone \/ Blocked(s)))
    /\ \A k \in Keys, v \in Variants :
          SF_vars(provider = "sql" /\ \E s \in Sessions : Ask(s, "resolve", k, v))
    /\ <>Calm
    /\ WF_json(provider = "json" /\ (Json!Recovery \/ Json!Serve \/ Json!ResetSeries))
    /\ SF_json(provider = "json" /\ Json!Start([kind |-> "read"]))

(* Nobody waits for ever for the outcome of an action: a SQL resolver that  *)
(* keeps asking is answered, and a plan the JSON journal holds takes effect.*)
OutcomesAreReached ==
    /\ provider = "sql" => ResolverIsAnswered
    /\ provider = "json" => Json!PlannedIsCommitted
===============================================================================
