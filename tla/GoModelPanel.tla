---------------------------- MODULE GoModelPanel ----------------------------
(***************************************************************************)
(* The GoModel panel (CollectGoModel, internal/collector/gomodel.go): the  *)
(* inventory of the gateway says which models are enabled, a second        *)
(* request which model ids are live, and the two are joined by name.       *)
(* Models are enabled, disabled, served and withdrawn in between.          *)
(*                                                                         *)
(* A name is the sequence of its parts between slashes: "a/b" is           *)
(* <<"a", "b">>, and <<>> an empty one; a provider may be "none". Trimming *)
(* of blanks is left out.                                                  *)
(***************************************************************************)
EXTENDS Integers, Sequences

CONSTANT Catalog  \* the inventory: selector, provider and id of each model

VARIABLES
  enabled,   \* gateway: the models with access.effective_enabled
  served,    \* gateway: the models it can reach now
  gpc,       \* CollectGoModel: the request to make
  keyed,     \* a URL and a key are configured
  inventory, \* the enabled models of the first answer
  llm,       \* the snapshot: models with whether they are available
  asked,     \* ghost: what was served when the second answer was given
  lasting    \* ghost: the models enabled and served since the first answer

gomodelVars == <<enabled, served, gpc, keyed, inventory, llm, asked, lasting>>
gatewayVars == <<enabled, served>>

ASSUME CatalogAssumption ==
  \A m \in Catalog :
    /\ DOMAIN m = {"selector", "provider", "id"}
    /\ m.selector \in {<<>>, m.id, <<m.provider>> \o m.id}

NoModels(e) == [available |-> FALSE, models |-> {}, error |-> e]

-----------------------------------------------------------------------------
\* The name a model is shown by; a model without one is not shown.
Selector(m) == IF m.selector # <<>> THEN m.selector ELSE m.id

\* The names a model goes by: selector, id, and an id without a slash with the
\* provider before it.
Names(m) ==
  ({Selector(m), m.id}
     \cup IF m.provider # "none" /\ Len(m.id) = 1 THEN {<<m.provider>> \o m.id} ELSE {})
  \ {<<>>}

\* modelLive: one of its names is among the live ones.
IsUp_BySelector(m, live) == Selector(m) \in live
IsUp_EmptyList(m, live) == live = {} \/ Names(m) \cap live # {}
IsUp(m, live) == Names(m) \cap live # {}

\* What /v1/models may list: each model served by one of its names or by more.
LiveLists ==
  {L \in SUBSET UNION {Names(m) : m \in served} :
     \A m \in served : Names(m) \cap L # {} \/ Names(m) = {}}

GoModelInit ==
  /\ enabled = {} /\ served = {}
  /\ gpc = "start" /\ keyed = FALSE /\ inventory = {}
  /\ llm = NoModels("unprobed") /\ asked = {} /\ lasting = {}

GatewayChanges ==
  /\ gpc # "done"
  /\ \/ enabled' \in SUBSET Catalog /\ UNCHANGED served
     \/ served' \in SUBSET Catalog /\ UNCHANGED enabled
  /\ lasting' = lasting \cap enabled' \cap served'
  /\ UNCHANGED <<gpc, keyed, inventory, llm, asked>>

GoModelConfigured ==
  /\ gpc = "start"
  /\ keyed' \in BOOLEAN
  /\ gpc' = IF keyed' THEN "inventory" ELSE "done"
  /\ llm' = IF keyed' THEN llm ELSE NoModels("unconfigured")
  /\ UNCHANGED <<gatewayVars, inventory, asked, lasting>>

\* GET /admin/models
Inventory ==
  /\ gpc = "inventory" /\ gpc' = "live"
  /\ inventory' = {m \in enabled : Selector(m) # <<>>}
  /\ lasting' = enabled \cap served
  /\ UNCHANGED <<gatewayVars, keyed, llm, asked>>

\* GET /v1/models, and the join.
Live ==
  /\ gpc = "live" /\ gpc' = "done"
  /\ \E live \in LiveLists :
       llm' = [available |-> TRUE, error |-> "none",
               models |-> {[of |-> m, available |-> IsUp(m, live)] : m \in inventory}]
  /\ asked' = served
  /\ UNCHANGED <<gatewayVars, keyed, inventory, lasting>>

\* Either request fails: no models, not even those of the first answer.
RequestFails ==
  /\ gpc \in {"inventory", "live"} /\ gpc' = "done"
  /\ llm' = NoModels(gpc)
  /\ UNCHANGED <<gatewayVars, keyed, inventory, asked, lasting>>

GoModelNext ==
  GatewayChanges \/ GoModelConfigured \/ Inventory \/ Live \/ RequestFails
-----------------------------------------------------------------------------
GoModelTypeOK ==
  /\ {enabled, served, inventory, asked, lasting} \subseteq SUBSET Catalog
  /\ gpc \in {"start", "inventory", "live", "done"} /\ keyed \in BOOLEAN
  /\ llm.models \subseteq [of : Catalog, available : BOOLEAN]

\* A model that was enabled and served all the while is on the panel as up, by
\* whichever of its names the gateway lists it (modelLive).
ServedIsUp ==
  llm.available =>
    \A m \in lasting :
      Selector(m) # <<>> => [of |-> m, available |-> TRUE] \in llm.models

\* A model shown as up was served when the live ones were asked for, if it shares
\* no name with another: by a bare id two providers of one model cannot be told
\* apart.
UpWasServed ==
  \A r \in llm.models :
    (r.available /\ \A m \in Catalog \ {r.of} : Names(m) \cap Names(r.of) = {}) =>
      r.of \in asked
=============================================================================
