--------------------------- MODULE ProductCatalog ---------------------------
(***************************************************************************)
(* createProduct and createWarehouse of InventoryService, with the         *)
(* ProductRepository and the WarehouseRepository.  Repositories answer at  *)
(* once and the service goes on after an await: what findBySku found may   *)
(* be out of date when the product is stored.                              *)
(***************************************************************************)
EXTENDS Naturals, Sequences

CONSTANTS
    ProductCalls,   \* calls of createProduct
    ProductSpecs,   \* what they ask for: [sku, tenantId]
    WarehouseCalls  \* calls of createWarehouse

VARIABLES
    products,       \* the stored products: [product, by], by the call that stored it
    creating,       \* creating[c]: [pc, product, existing, since], since the number
                    \* of products stored when c looked for its SKU
    seeding,        \* seeding[w]: where createWarehouse is
    docks           \* docks[w]: the bin codes of the warehouse that w stored

catalogVars == <<products, creating, seeding, docks>>

IdleCall == [pc |-> "idle"]

CatalogInit ==
    /\ products = << >>
    /\ creating = [c \in ProductCalls |-> IdleCall]
    /\ seeding = [w \in WarehouseCalls |-> "idle"]
    /\ docks = [w \in WarehouseCalls |-> << >>]

----------------------------------------------------------------------------
(* Variants of the definitions below, each with one plausible mistake.     *)

\* A SKU is looked for in the catalogs of all tenants.
FoundInAnyTenant(p) == \E i \in DOMAIN products : products[i].product.sku = p.sku

----------------------------------------------------------------------------
\* whether findBySku(sku, tenantId) finds a product
findBySku(p) == \E i \in DOMAIN products : products[i].product = p

createProduct(c, p) ==
    /\ creating[c] = IdleCall
    /\ creating' = [creating EXCEPT ![c] = [pc |-> "found", product |-> p,
                        existing |-> findBySku(p), since |-> Len(products)]]
    /\ UNCHANGED <<products, seeding, docks>>

\* After the await: a conflict, or the product is stored.
CreateProduct(c) ==
    /\ creating[c].pc = "found"
    /\ IF creating[c].existing
       THEN /\ creating' = [creating EXCEPT ![c].pc = "conflict"]
            /\ UNCHANGED products
       ELSE /\ creating' = [creating EXCEPT ![c].pc = "created"]
            /\ products' = Append(products, [product |-> creating[c].product, by |-> c])
    /\ UNCHANGED <<seeding, docks>>

createWarehouse(w) ==
    /\ seeding[w] = "idle"
    /\ seeding' = [seeding EXCEPT ![w] = "seed"]
    /\ UNCHANGED <<products, creating, docks>>

\* The default receiving bin
createBin(w) ==
    /\ seeding[w] = "seed"
    /\ seeding' = [seeding EXCEPT ![w] = "returned"]
    /\ docks' = [docks EXCEPT ![w] = Append(@, "RCV-01-A")]
    /\ UNCHANGED <<products, creating>>

CatalogNext ==
    \/ \E c \in ProductCalls, p \in ProductSpecs : createProduct(c, p)
    \/ \E c \in ProductCalls : CreateProduct(c)
    \/ \E w \in WarehouseCalls : createWarehouse(w) \/ createBin(w)

CatalogSpec == CatalogInit /\ [][CatalogNext]_catalogVars

----------------------------------------------------------------------------
\* A tenant has one SKU twice only when the later call of createProduct looked
\* for it before the earlier one had stored it, and a call is refused only when
\* its own tenant has the SKU.
CatalogAgrees ==
    /\ \A i, j \in DOMAIN products :
        i < j /\ products[i].product = products[j].product =>
            creating[products[j].by].since < i
    /\ \A c \in ProductCalls :
        creating[c].pc = "conflict" =>
            \E i \in 1 .. creating[c].since : products[i].product = creating[c].product
=============================================================================
