------------------------------- MODULE Pricing -------------------------------
(***************************************************************************)
(* The `pricing` document: the rate of each model, from the Azure Retail   *)
(* Prices API and the operator's overrides.  The config-sync job and the   *)
(* admin BFF both write it, each from what it read or fetched earlier, and *)
(* the BFF keeps two copies of the rates in its process.                   *)
(***************************************************************************)
EXTENDS Integers

CONSTANTS
  Model,
  Retail,         \* price lists the API may return: functions of Model
  Override,       \* overrides an operator may send: partial functions
  PriceRequest,   \* BFF requests that may run at the same time
  NoPricing,      \* there is no document
  Absent,         \* a field the document lacks
  MaxSaves, MaxSyncs

ASSUME PricingAssumption ==
  /\ \A r \in Retail : DOMAIN r = Model
  /\ \A o \in Override : DOMAIN o \subseteq Model
  /\ Absent \notin Retail
  /\ {MaxSaves, MaxSyncs} \subseteq Nat

VARIABLES
  pricing,      \* the document: [source, overrides, models], or NoPricing
  modelPrices,  \* deps.model_prices: what GET /api/config and costs use
  runsPrices,   \* RunsQuery._model_prices: what the runs page uses
  fetched,      \* the price list the job fetched and has not written yet
  asking,       \* each pricing request that has read and not yet written
  saves, syncs,
  pinned,       \* history: the overrides last saved by an operator
  synced,       \* history: the job has written since that save
  crossed,      \* history: a save landed inside another request
  bare          \* history: overrides saved while no price list was known

priceVars == <<pricing, modelPrices, runsPrices, fetched, asking, saves, syncs,
               pinned, synced, crossed, bare>>

NoRates == <<>>
Quiet == [kind |-> "none", source |-> NoRates, overrides |-> NoRates, crossed |-> FALSE]

\* The BFF may start before or after the first price list was written.
PriceInit ==
  /\ \/ pricing = NoPricing /\ modelPrices = NoRates
     \/ \E r \in Retail : /\ pricing = [source |-> Absent, overrides |-> Absent, models |-> r]
                          /\ modelPrices = r
  /\ runsPrices = modelPrices
  /\ fetched = Absent
  /\ asking = [q \in PriceRequest |-> Quiet]
  /\ saves = 0 /\ syncs = 0
  /\ pinned = NoRates /\ synced = FALSE /\ crossed = FALSE /\ bare = FALSE

-----------------------------------------------------------------------------
(* The job, sync.py sync_pricing.                                          *)

(* A fetch that fails leaves the document alone: no step.                  *)
FetchPrices ==
  /\ fetched = Absent /\ syncs < MaxSyncs
  /\ \E r \in Retail : fetched' = r
  /\ syncs' = syncs + 1
  /\ UNCHANGED <<pricing, modelPrices, runsPrices, asking, saves, pinned, synced, crossed, bare>>

\* The whole document is replaced: {"id", "models"}.
Synced(r) == [source |-> Absent, overrides |-> Absent, models |-> r]

WritePrices ==
  /\ fetched # Absent
  /\ pricing' = Synced(fetched)
  /\ fetched' = Absent
  /\ synced' = TRUE
  /\ UNCHANGED <<modelPrices, runsPrices, asking, saves, syncs, pinned, crossed, bare>>

-----------------------------------------------------------------------------
(* The BFF, app.py pricing_refresh and pricing_put.                        *)

ApplyOverrides(base, over) ==
  [m \in DOMAIN over \cup DOMAIN base |-> IF m \in DOMAIN over THEN over[m] ELSE base[m]]

\* Python's `a or b`: an empty or missing price list does not count.
Known(r) == r # Absent /\ DOMAIN r # {}

\* Mutant of BaseRates: overrides are laid over the rates in force.
BaseRatesInForce(doc) == IF doc = NoPricing THEN NoRates ELSE doc.models

BaseRates(doc) == CASE doc = NoPricing -> NoRates
                    [] doc # NoPricing /\ Known(doc.source) -> doc.source
                    [] OTHER -> doc.models

(* PUT saves overrides over the list the document holds; a refresh fetches *)
(* a new list, and fails without a write when it cannot.                   *)
AskPrices(q) ==
  /\ asking[q].kind = "none" /\ saves < MaxSaves
  /\ saves' = saves + 1
  /\ \E o \in Override, r \in Retail \cup {BaseRates(pricing)} :
       asking' = [asking EXCEPT ![q] = [kind |-> "asked", source |-> r, overrides |-> o,
                                        crossed |-> FALSE]]
  /\ UNCHANGED <<pricing, modelPrices, runsPrices, fetched, syncs, pinned, synced, crossed, bare>>

\* save_doc: list, overrides and their combination in one write.
Saved(source, over) ==
  [source |-> source, overrides |-> over, models |-> ApplyOverrides(source, over)]

SavePrices(q) ==
  /\ asking[q].kind = "asked"
  /\ pricing' = Saved(asking[q].source, asking[q].overrides)
  /\ pinned' = asking[q].overrides
  /\ synced' = FALSE
  /\ crossed' = asking[q].crossed
  /\ bare' = (bare \/ asking[q].source = NoRates)
  /\ asking' = [p \in PriceRequest |->
                  IF p = q THEN [asking[q] EXCEPT !.kind = "saved"]
                  ELSE [asking[p] EXCEPT !.crossed = asking[p].kind # "none"]]
  /\ UNCHANGED <<modelPrices, runsPrices, fetched, saves, syncs>>

(* deps.model_prices is bound to the saved rates after the write; the      *)
(* dictionary RunsQuery was built with is not.                             *)
RebindPrices(q) ==
  /\ asking[q].kind = "saved"
  /\ modelPrices' = ApplyOverrides(asking[q].source, asking[q].overrides)
  /\ asking' = [asking EXCEPT ![q] = Quiet]
  /\ crossed' = (crossed \/ asking[q].crossed)
  /\ UNCHANGED <<pricing, runsPrices, fetched, saves, syncs, pinned, synced, bare>>

\* main.py build_app: a new process reads the document.
RestartBff ==
  /\ pricing # NoPricing
  /\ modelPrices' = pricing.models
  /\ runsPrices' = pricing.models
  /\ asking' = [q \in PriceRequest |-> Quiet]
  /\ crossed' = FALSE
  /\ UNCHANGED <<pricing, fetched, saves, syncs, pinned, synced, bare>>

PriceNext ==
  \/ FetchPrices \/ WritePrices \/ RestartBff
  \/ \E q \in PriceRequest : AskPrices(q) \/ SavePrices(q) \/ RebindPrices(q)

PriceSpec == PriceInit /\ [][PriceNext]_priceVars

-----------------------------------------------------------------------------
(* Properties.                                                             *)

Applied(m) == pricing # NoPricing /\ m \in DOMAIN pricing.models

(* Until the job next writes the document, every rate an operator pinned   *)
(* is the rate in force, and every other model has its price from one of   *)
(* the API's lists: neither an overlapping refresh nor repeated saves mix  *)
(* the two (app.py:335-344, models_pricing.py:115-128) - as long as no     *)
(* override was ever saved before a first price list was known.  Between   *)
(* two requests the BFF computes costs with those rates, unless requests   *)
(* crossed.                                                                *)
PinnedPricesHold ==
  ~synced /\ ~bare =>
    /\ \A m \in Model : Applied(m) =>
         IF m \in DOMAIN pinned THEN pricing.models[m] = pinned[m]
         ELSE \E r \in Retail : pricing.models[m] = r[m]
    /\ ~crossed /\ (\A q \in PriceRequest : asking[q].kind = "none") =>
         pricing = NoPricing \/ modelPrices = pricing.models

(* What gateway/docs/ARCHITECTURE.md:26 says of a refresh: the manual      *)
(* override is kept.                                                       *)
OverrideKept == \A m \in DOMAIN pinned : Applied(m) => pricing.models[m] = pinned[m]
=============================================================================
