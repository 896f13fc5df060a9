------------------------------ MODULE PriceList ------------------------------
(***************************************************************************)
(* The price list of the models, AIModelPricing: createModel, updateModel,  *)
(* deleteModel and bulkAddModels of src/intelligence/intelligence.service.ts*)
(*                                                                          *)
(* Neither name nor model is unique.  The keys of AIModels are the names, so*)
(* a name stands for the model of the enum it belongs to.                   *)
(***************************************************************************)
EXTENDS Actors, Naturals

CONSTANTS
    EnumModels,   \* models of AIModels
    OtherModels,  \* models an administrator lists
    PriceRows,    \* identities of rows (bounds them)
    MaxByHand     \* bound: rows created or updated by hand

VARIABLES
    pricing,   \* pricing[p]: name, model and activity of a row, or None
    sync,      \* sync[r]: step of a bulkAddModels, the models left to look at and those to create
    byHand,    \* history: how many rows were created or updated by hand
    together   \* history: a sync began while another one ran

priceVars == <<pricing, sync, byHand, together>>

AnyModel == EnumModels \cup OtherModels

PriceRow == [name : AnyModel, model : AnyModel, active : BOOLEAN]

ASSUME PriceListAssumption == MaxByHand \in Nat /\ None \notin PriceRow

NoSync == [step |-> "idle", left |-> {}, toCreate |-> {}]

PriceInit ==
    /\ pricing = [p \in PriceRows |-> None]
    /\ sync = [r \in Requests |-> NoSync]
    /\ byHand = 0
    /\ together = FALSE

-----------------------------------------------------------------------------
Listed == {p \in PriceRows : pricing[p] # None}

SyncAt(r, step) == sync[r].step = step

CreateModel(p, name, model) ==
    /\ pricing[p] = None
    /\ byHand < MaxByHand
    /\ pricing' = [pricing EXCEPT ![p] = [name |-> name, model |-> model, active |-> TRUE]]
    /\ byHand' = byHand + 1
    /\ UNCHANGED <<sync, together>>

EditModel(p, row) ==
    /\ p \in Listed
    /\ byHand < MaxByHand
    /\ pricing' = [pricing EXCEPT ![p] = row]
    /\ byHand' = byHand + 1
    /\ UNCHANGED <<sync, together>>

DeleteModel(p) ==
    /\ p \in Listed
    /\ pricing' = [pricing EXCEPT ![p].active = FALSE]
    /\ UNCHANGED <<sync, byHand, together>>

-----------------------------------------------------------------------------
Deactivated(rows) ==
    [p \in PriceRows |-> IF p \in rows THEN [pricing[p] EXCEPT !.active = FALSE] ELSE pricing[p]]

BulkAddModels(r) ==
    /\ SyncAt(r, "idle")
    /\ sync' = [sync EXCEPT ![r] = [step |-> "look", left |-> EnumModels, toCreate |-> {}]]
    /\ together' = (together \/ \E q \in Requests : ~SyncAt(q, "idle"))
    /\ UNCHANGED <<pricing, byHand>>

\* Mutant: a row that is switched off does not count.
LookAtModelActive(r, m) ==
    LET existing == {p \in Listed : pricing[p].name = m /\ pricing[p].active}
    IN /\ SyncAt(r, "look")
       /\ m \in sync[r].left
       /\ IF \E p \in existing : pricing[p].model = m
          THEN /\ sync' = [sync EXCEPT ![r].left = @ \ {m}]
               /\ UNCHANGED pricing
          ELSE /\ sync' = [sync EXCEPT ![r].left = @ \ {m}, ![r].toCreate = @ \cup {m}]
               /\ pricing' = Deactivated(existing)
       /\ UNCHANGED <<byHand, together>>

\* Rows of the name: one of the very model will do; others are switched off.
\* (The second query names its rows anew; what comes between the two could
\* as well have come before or after them.)
LookAtModel(r, m) ==
    LET existing == {p \in Listed : pricing[p].name = m}
    IN /\ SyncAt(r, "look")
       /\ m \in sync[r].left
       /\ IF \E p \in existing : pricing[p].model = m
          THEN /\ sync' = [sync EXCEPT ![r].left = @ \ {m}]
               /\ UNCHANGED pricing
          ELSE /\ sync' = [sync EXCEPT ![r].left = @ \ {m}, ![r].toCreate = @ \cup {m}]
               /\ pricing' = Deactivated(existing)
       /\ UNCHANGED <<byHand, together>>

\* createMany of all that were missing, in one query.
CreateMissing(r) ==
    /\ SyncAt(r, "look")
    /\ sync[r].left = {}
    /\ \E new \in [sync[r].toCreate -> PriceRows \ Listed] :
         /\ \A m, n \in sync[r].toCreate : new[m] = new[n] => m = n
         /\ pricing' = [p \in PriceRows |->
              IF \E m \in sync[r].toCreate : new[m] = p
              THEN LET m == CHOOSE m \in sync[r].toCreate : new[m] = p
                   IN [name |-> m, model |-> m, active |-> TRUE]
              ELSE pricing[p]]
    /\ sync' = [sync EXCEPT ![r].step = "deactivate"]
    /\ UNCHANGED <<byHand, together>>

DeactivateOthers(r) ==
    /\ SyncAt(r, "deactivate")
    /\ pricing' = Deactivated({p \in Listed : pricing[p].model \notin EnumModels})
    /\ sync' = [sync EXCEPT ![r] = NoSync]
    /\ UNCHANGED <<byHand, together>>

SyncFails(r) ==
    /\ ~SyncAt(r, "idle")
    /\ sync' = [sync EXCEPT ![r] = NoSync]
    /\ UNCHANGED <<pricing, byHand, together>>

PriceNext ==
    \/ \E p \in PriceRows :
         \/ \E name, model \in AnyModel : CreateModel(p, name, model)
         \/ \E row \in PriceRow : EditModel(p, row)
         \/ DeleteModel(p)
    \/ \E r \in Requests :
         \/ BulkAddModels(r)
         \/ \E m \in EnumModels : LookAtModel(r, m)
         \/ CreateMissing(r)
         \/ DeactivateOthers(r)
         \/ SyncFails(r)

-----------------------------------------------------------------------------
(* The types of the rows and syncs. *)
PriceTypeOK ==
    /\ pricing \in [PriceRows -> PriceRow \cup {None}]
    /\ sync \in [Requests -> [step : {"idle", "look", "deactivate"}, left : SUBSET EnumModels,
                              toCreate : SUBSET EnumModels]]
    /\ byHand \in 0 .. MaxByHand
    /\ together \in BOOLEAN

(* Syncs alone list every model of the enum once, and only those; a sync     *)
(* about to end has listed them all; two syncs at once may list one twice.   *)
ModelsListedOnce ==
    /\ byHand = 0 => \A p \in Listed : pricing[p].model \in EnumModels
    /\ byHand = 0 /\ ~together =>
         \A p, q \in Listed : pricing[p].model = pricing[q].model => p = q
    /\ byHand = 0 => \A r \in Requests : SyncAt(r, "deactivate") =>
         \A m \in EnumModels : \E p \in Listed : pricing[p].model = m
=============================================================================
