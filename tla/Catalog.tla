------------------------------- MODULE Catalog -------------------------------
(***************************************************************************)
(* A product, and the stock that administrators import for it while others *)
(* edit the product and customers buy.  A payload is the set of its        *)
(* <<key, value>> pairs, which stands for the encrypted document, its      *)
(* preview and its hash alike.                                             *)
(***************************************************************************)
EXTENDS Integers, Sequences, FiniteSets

CONSTANTS
    Required,    \* keys that the required field of the product may have
    Optional,    \* keys that its optional field may have
    Rows,        \* rows of an import: <<value>> or <<value, value>>
    Importers,   \* imports (ImportBatch) that run at the same time
    MaxItems,    \* bound: rows of inventory_items ever stored
    MaxSaves     \* bound: times the product is saved

VARIABLES
    product,     \* the product: none, live or archived
    fields,      \* <<required key, optional key>>
    saves,       \* how often it was saved
    archiving,   \* archive() is under way: it found nothing RESERVED
    item,        \* every item ever stored, in the order of creation
    batch        \* batch[b]: the import b

catalogVars == <<product, fields, saves, archiving, item, batch>>

ASSUME CatalogConstants ==
    /\ {MaxItems, MaxSaves} \subseteq Nat
    /\ IsFiniteSet(Rows) /\ \A row \in Rows : DOMAIN row \in {1..1, 1..2}

FieldLists == {f \in Required \X Optional : f[1] # f[2]}
Unused == [step |-> "idle"]

CatalogInit ==
    /\ product = "none" /\ fields = <<>>
    /\ saves = 0 /\ archiving = FALSE
    /\ item = <<>>
    /\ batch = [b \in Importers |-> Unused]

InStock == {n \in DOMAIN item : item[n].status # "DELETED"}
StockOf(payload) == {n \in InStock : item[n].payload = payload}

CatalogTypeOK ==
    /\ product \in {"none", "live", "archived"}
    /\ fields \in FieldLists \cup {<<>>}
    /\ fields = <<>> <=> product = "none"
    /\ saves \in 0..MaxSaves /\ archiving \in BOOLEAN
    /\ Len(item) <= MaxItems
    /\ \A n \in DOMAIN item :
          item[n].status \in {"AVAILABLE", "RESERVED", "SOLD", "DELETED"}

-----------------------------------------------------------------------------
(* Editing the product.                                                    *)

Changed(f) == {n \in 1..2 : f[n] # fields[n]}
Sources(f) == {fields[n] : n \in Changed(f)}
Targets(f) == {f[n] : n \in Changed(f)}
KeysOf(payload) == {pair[1] : pair \in payload}

(* A payload that a product with the fields f can have.                    *)
Fits(payload, f) ==
    KeysOf(payload) \subseteq {f[1], f[2]} /\ f[1] \in KeysOf(payload)

(* Mutated: the payloads keep the old keys.                                *)
RenamedNone(payload, f) == payload

(* renamePayloadKeys().                                                    *)
NewKey(k, f) ==
    IF k \in Sources(f) THEN f[CHOOSE n \in Changed(f) : fields[n] = k] ELSE k
Renamed(payload, f) == {<<NewKey(pair[1], f), pair[2]>> : pair \in payload}

(* assertCompatibleFields() and the refusals of renameInventoryFieldKeys():*)
(* a target that is in use, a required value that is missing, two payloads *)
(* that would become the same.                                             *)
Compatible(f) ==
    /\ Sources(f) \cap Targets(f) = {}
    /\ \A n \in InStock :
          /\ 1 \in Changed(f) => fields[1] \in KeysOf(item[n].payload)
          /\ Targets(f) \cap KeysOf(item[n].payload) = {}
    /\ Cardinality({Renamed(item[n].payload, f) : n \in InStock})
          = Cardinality(InStock)

(* create() and update(); update() conflicts with an archive() under way.  *)
Save ==
    /\ product # "archived" /\ saves < MaxSaves
    /\ \E f \in FieldLists :
          /\ InStock # {} => Compatible(f)
          /\ fields' = f
          /\ item' = [n \in DOMAIN item |->
                        IF n \in InStock
                        THEN [item[n] EXCEPT !.payload = Renamed(@, f)]
                        ELSE item[n]]
    /\ product' = "live" /\ saves' = saves + 1 /\ archiving' = FALSE
    /\ UNCHANGED batch

(* archive(): the snapshot that its transaction checks, ...                *)
BeginArchive ==
    /\ product = "live" /\ ~archiving /\ archiving' = TRUE
    /\ \A n \in InStock : item[n].status # "RESERVED"
    /\ UNCHANGED <<product, fields, saves, item, batch>>

(* ... and its commit, which does not write what was checked.              *)
Archive ==
    /\ archiving /\ archiving' = FALSE /\ product' = "archived"
    /\ UNCHANGED <<fields, saves, item, batch>>

-----------------------------------------------------------------------------
(* Importing stock.                                                        *)

CatalogStays == UNCHANGED <<product, fields, saves, archiving>>
Payload(row) == {<<fields[n], row[n]>> : n \in DOMAIN row}

(* prepare() reads the product and normalizes the rows.  Rows of a page    *)
(* that knows older keys come out as shorter ones, or as none.             *)
Prepare(b) ==
    /\ batch[b] = Unused /\ product = "live"
    /\ \E rows \in (SUBSET Rows) \ {{}}, overwrite \in BOOLEAN :
          batch' = [batch EXCEPT ![b] =
                      [step |-> "prepared", overwrite |-> overwrite,
                       fields |-> fields,
                       rows |-> {Payload(r) : r \in rows}]]
    /\ UNCHANGED item /\ CatalogStays

(* prepare() looks for the hashes in the stock, commit() stores the batch. *)
Match(b) ==
    /\ batch[b].step = "prepared"
    /\ LET fresh == {p \in batch[b].rows : StockOf(p) = {}}
           over == IF batch[b].overwrite
                   THEN {n \in InStock : /\ item[n].status = "AVAILABLE"
                                         /\ item[n].payload \in batch[b].rows}
                   ELSE {}
       IN batch' = [batch EXCEPT ![b] =
            [step |-> "PROCESSING", fields |-> batch[b].fields,
             insert |-> fresh,
             over |-> {[item |-> n, payload |-> item[n].payload] : n \in over},
             prepared |-> fresh \cup {item[n].payload : n \in over},
             check |-> over, imported |-> 0, overwritten |-> 0,
             wrote |-> {}]]
    /\ UNCHANGED item /\ CatalogStays

(* One insert of the unordered bulk write, under the unique index on the   *)
(* hash: whatever fields the product has by now.                           *)
InsertRow(b) ==
    /\ batch[b].step = "PROCESSING" /\ Len(item) < MaxItems
    /\ \E p \in batch[b].insert :
          IF StockOf(p) = {}
          THEN /\ item' = Append(item,
                    [payload |-> p, status |-> "AVAILABLE", batch |-> b])
               /\ batch' = [batch EXCEPT ![b].insert = @ \ {p},
                              ![b].imported = @ + 1, ![b].wrote = @ \cup {p}]
          ELSE UNCHANGED item
               /\ batch' = [batch EXCEPT ![b].insert = @ \ {p}]
    /\ CatalogStays

(* Mutated: the write overwrites what the preparation found.               *)
OverwritableAsPrepared(o) == o.item \in InStock

(* The filter of the overwriting update.                                   *)
Overwritable(o) == /\ item[o.item].status = "AVAILABLE"
                   /\ item[o.item].payload = o.payload

OverwriteRow(b) ==
    /\ batch[b].step = "PROCESSING" /\ batch[b].insert = {}
    /\ \E o \in batch[b].over :
          IF Overwritable(o)
          THEN /\ item' = [item EXCEPT ![o.item].batch = b]
               /\ batch' = [batch EXCEPT ![b].over = @ \ {o},
                                         ![b].wrote = @ \cup {o.payload}]
          ELSE UNCHANGED item
               /\ batch' = [batch EXCEPT ![b].over = @ \ {o}]
    /\ CatalogStays

(* Mutated: what was to be overwritten is reported as overwritten.         *)
OverwrittenAsPlanned(b) == batch[b].check

(* The items that carry the batch now.                                     *)
Overwritten(b) == {n \in batch[b].check : item[n].batch = b}

(* The report, stored in the batch.                                        *)
Report(b) ==
    /\ batch[b].step = "PROCESSING"
    /\ batch[b].insert = {} /\ batch[b].over = {}
    /\ LET over == Cardinality(Overwritten(b)) IN
       batch' = [batch EXCEPT ![b].overwritten = over, ![b].step =
          IF batch[b].imported + over = Cardinality(batch[b].prepared)
          THEN "COMPLETED" ELSE "PARTIAL"]
    /\ UNCHANGED item /\ CatalogStays

-----------------------------------------------------------------------------
(* The stock is sold (only what of it the imports can meet) and removed.   *)

Becomes(n, from, to) ==
    /\ item[n].status = from /\ item' = [item EXCEPT ![n].status = to]
    /\ UNCHANGED batch /\ CatalogStays

Reserve(n) == product = "live" /\ Becomes(n, "AVAILABLE", "RESERVED")
Sell(n) == Becomes(n, "RESERVED", "SOLD")
Release(n) == Becomes(n, "RESERVED", "AVAILABLE")
RemoveItem(n) == Becomes(n, "AVAILABLE", "DELETED")

(* removeBatch().                                                          *)
RemoveBatch(b) ==
    /\ batch[b].step \in {"PROCESSING", "COMPLETED", "PARTIAL"}
    /\ item' = [n \in DOMAIN item |->
                  IF item[n].batch = b /\ item[n].status = "AVAILABLE"
                  THEN [item[n] EXCEPT !.status = "DELETED"] ELSE item[n]]
    /\ UNCHANGED batch /\ CatalogStays

CatalogNext ==
    \/ Save \/ BeginArchive \/ Archive
    \/ \E b \in Importers : \/ Prepare(b) \/ Match(b) \/ InsertRow(b)
                            \/ OverwriteRow(b) \/ Report(b) \/ RemoveBatch(b)
    \/ \E n \in DOMAIN item :
          Reserve(n) \/ Sell(n) \/ Release(n) \/ RemoveItem(n)

CatalogSpec == CatalogInit /\ [][CatalogNext]_catalogVars

(* Whatever imports, edits and sales race, no step spoils what is in       *)
(* stock: an item that has the keys of the product's fields, the required  *)
(* one among them, has those of the fields after every edit, and no        *)
(* payload is ever in stock twice.  Only a row that was planned before an  *)
(* edit and is written after it comes in unfit, and it has the keys of the *)
(* fields its import has read (product.service.ts:226-264,                 *)
(* inventory-import.service.ts:35-50, inventory-item.schema.ts:34).        *)
StockMatchesFields ==
    [][\A n \in InStock' :
          /\ \/ Fits(item'[n].payload, fields')
             \/ n \in InStock /\ ~Fits(item[n].payload, fields)
             \/ /\ n \notin DOMAIN item
                /\ \E b \in Importers :
                      /\ batch[b].step = "PROCESSING"
                      /\ batch[b].fields # fields
                      /\ Fits(item'[n].payload, batch[b].fields)
          /\ \A m \in InStock' \ {n} :
                item'[m].payload # item'[n].payload]_catalogVars

(* An item that is reserved or sold keeps its batch and its values and is  *)
(* not removed, by an import that overwrites or by a batch that is taken   *)
(* back ("Duplicate became sold or reserved before overwrite and was       *)
(* protected", inventory-import.service.ts:130).                           *)
SoldIsProtected ==
    [][\A n \in DOMAIN item : item[n].status \in {"RESERVED", "SOLD"} =>
          /\ item'[n].status # "DELETED" /\ item'[n].batch = item[n].batch
          /\ {pair[2] : pair \in item'[n].payload}
                = {pair[2] : pair \in item[n].payload}]_catalogVars

(* The report of an import claims no more than was written, and COMPLETED  *)
(* says that every prepared row was, whatever other imports, sales and     *)
(* removals did meanwhile (inventory-import.service.ts:122-137).           *)
ImportIsHonest ==
    \A b \in Importers : batch[b].step \in {"COMPLETED", "PARTIAL"} =>
        /\ batch[b].imported + batch[b].overwritten
              <= Cardinality(batch[b].wrote)
        /\ batch[b].step = "COMPLETED" => batch[b].wrote = batch[b].prepared
=============================================================================
