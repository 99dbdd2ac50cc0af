---------------------------- MODULE CatalogProofs ----------------------------
(***************************************************************************)
(* What administrators keep stays in order for any number of imports,      *)
(* desks, changes, products, complaints, accounts and bots: the products and*)
(* the stock, the complaints of customers and the answers to them, the bank*)
(* accounts and the token of the bot.  What the migrations set up under    *)
(* all of it stands, for any number of runs and of mishaps.  And a line of *)
(* stock reaches the customer as it was pasted, for every text and pattern.*)
(***************************************************************************)
EXTENDS Catalog, Support, BankConfig, BotToken, Migration, Pattern,
        FiniteSums, FiniteSetTheorems, SequenceTheorems, TLAPS

LEMMA OneReplaced ==
    ASSUME NEW S, NEW s \in Seq(S), NEW m \in 1..Len(s), NEW e \in S,
           NEW t, t = [s EXCEPT ![m] = e]
    PROVE  /\ t \in Seq(S) /\ Len(t) = Len(s) /\ t[m] = e
           /\ \A n \in 1..Len(s) \ {m} : t[n] = s[n]
<1>1. s \in [1..Len(s) -> S] /\ Len(s) \in Nat
    OBVIOUS
<1>2. /\ t \in [1..Len(s) -> S] /\ t[m] = e
      /\ \A n \in 1..Len(s) \ {m} : t[n] = s[n]
    BY <1>1
<1>3. t \in Seq(S) /\ Len(t) = Len(s)
    BY <1>1, <1>2
<1> QED
    BY <1>2, <1>3

Keys == Required \cup Optional
Values == UNION {{row[n] : n \in DOMAIN row} : row \in Rows}
Payloads == SUBSET (Keys \X Values)

Items == [payload : Payloads,
          status : {"AVAILABLE", "RESERVED", "SOLD", "DELETED"},
          batch : Importers]

PreparedBatches ==
    [step : {"prepared"}, overwrite : BOOLEAN, fields : FieldLists,
     rows : SUBSET Payloads]

StoredBatches ==
    [step : {"PROCESSING", "COMPLETED", "PARTIAL"}, fields : FieldLists,
     insert : SUBSET Payloads, over : SUBSET [item : Nat, payload : Payloads],
     prepared : SUBSET Payloads, check : SUBSET (1..MaxItems),
     imported : Nat, overwritten : Nat, wrote : SUBSET Payloads]

(* A product that has fields, items from its imports, and batches.         *)
CatalogTyped ==
    /\ product \in {"none", "live", "archived"}
    /\ fields \in FieldLists \cup {<<>>}
    /\ fields = <<>> <=> product = "none"
    /\ product = "none" => item = <<>>
    /\ archiving => product = "live"
    /\ saves \in 0..MaxSaves /\ archiving \in BOOLEAN
    /\ item \in Seq(Items) /\ Len(item) <= MaxItems
    /\ batch \in [Importers -> {Unused} \cup PreparedBatches
                                        \cup StoredBatches]

(* The rows of a batch are checked against the fields it was prepared for. *)
BatchesFit ==
    \A b \in Importers :
       /\ product = "none" => batch[b] = Unused
       /\ batch[b].step = "prepared" =>
             \A p \in batch[b].rows : Fits(p, batch[b].fields)
       /\ batch[b].step \in {"PROCESSING", "COMPLETED", "PARTIAL"} =>
             \A p \in batch[b].insert : Fits(p, batch[b].fields)

(* No payload is in stock twice.                                           *)
StockIsApart ==
    \A m, n \in InStock : m # n => item[m].payload # item[n].payload

(* The product and its stock.                                              *)
CatalogInvariant == CatalogTyped /\ BatchesFit /\ StockIsApart

-----------------------------------------------------------------------------
(* Renaming.                                                               *)

LEMMA RenamedIs ==
    ASSUME NEW payload, NEW f
    PROVE  Renamed(payload, f) = {<<NewKey(pair[1], f), pair[2]>> :
                                     pair \in payload}
BY DEF Renamed, NewKey

LEMMA FieldListIs ==
    ASSUME NEW f \in FieldLists
    PROVE  /\ f[1] \in Keys /\ f[2] \in Keys /\ f[1] # f[2] /\ f # <<>>
BY DEF FieldLists, Keys

LEMMA NewKeyIs ==
    ASSUME fields \in FieldLists, NEW f \in FieldLists
    PROVE  /\ NewKey(fields[1], f) = f[1] /\ NewKey(fields[2], f) = f[2]
           /\ \A k \in Keys : NewKey(k, f) \in Keys
<1>1. fields[1] # fields[2] /\ f[1] \in Keys /\ f[2] \in Keys
    BY FieldListIs
<1>2. ASSUME NEW i \in {1, 2} PROVE NewKey(fields[i], f) = f[i]
    <2>1. CASE f[i] = fields[i]
        <3>1. fields[i] \notin Sources(f)
            BY <1>1, <2>1 DEF Sources, Changed
        <3> QED
            BY <2>1, <3>1 DEF NewKey
    <2>2. CASE f[i] # fields[i]
        <3>1. i \in Changed(f) /\ fields[i] \in Sources(f)
            BY <2>2 DEF Sources, Changed
        <3>2. \A n \in Changed(f) : fields[n] = fields[i] => n = i
            BY <1>1 DEF Changed
        <3>3. (CHOOSE n \in Changed(f) : fields[n] = fields[i]) = i
            BY <3>1, <3>2
        <3> QED
            BY <3>1, <3>3 DEF NewKey
    <2> QED
        BY <2>1, <2>2
<1>3. ASSUME NEW k \in Keys PROVE NewKey(k, f) \in Keys
    <2>1. CASE k \in Sources(f)
        <3>1. PICK n \in Changed(f) : fields[n] = k
            BY <2>1 DEF Sources
        <3>2. (CHOOSE m \in Changed(f) : fields[m] = k) \in {1, 2}
            BY <3>1 DEF Changed
        <3> QED
            BY <1>1, <2>1, <3>2 DEF NewKey
    <2>2. CASE k \notin Sources(f)
        BY <2>2 DEF NewKey
    <2> QED
        BY <2>1, <2>2
<1> QED
    BY <1>2, <1>3

LEMMA RenamedFits ==
    ASSUME fields \in FieldLists, NEW f \in FieldLists,
           NEW payload \in Payloads
    PROVE  /\ Renamed(payload, f) \in Payloads
           /\ Fits(payload, fields) => Fits(Renamed(payload, f), f)
           /\ {pair[2] : pair \in Renamed(payload, f)}
                = {pair[2] : pair \in payload}
<1>0. Renamed(payload, f) = {<<NewKey(pair[1], f), pair[2]>> :
                                pair \in payload}
    BY RenamedIs
<1>1. /\ NewKey(fields[1], f) = f[1] /\ NewKey(fields[2], f) = f[2]
      /\ \A k \in Keys : NewKey(k, f) \in Keys
    BY NewKeyIs
<1>2. KeysOf(Renamed(payload, f)) = {NewKey(pair[1], f) : pair \in payload}
    <2>1. ASSUME NEW pair \in payload
          PROVE  \E p \in Renamed(payload, f) : p[1] = NewKey(pair[1], f)
        <3>1. <<NewKey(pair[1], f), pair[2]>>[1] = NewKey(pair[1], f)
            OBVIOUS
        <3> QED
            BY <1>0, <3>1
    <2>2. ASSUME NEW p \in Renamed(payload, f)
          PROVE  \E pair \in payload : p[1] = NewKey(pair[1], f)
        <3>1. PICK pair \in payload : p = <<NewKey(pair[1], f), pair[2]>>
            BY <1>0
        <3> QED
            BY <3>1
    <2> QED
        BY <2>1, <2>2 DEF KeysOf
<1>3. Renamed(payload, f) \in Payloads
    <2>1. ASSUME NEW pair \in payload
          PROVE  <<NewKey(pair[1], f), pair[2]>> \in Keys \X Values
        <3>1. pair[1] \in Keys /\ pair[2] \in Values
            BY DEF Payloads
        <3> QED
            BY <1>1, <3>1
    <2>2. ASSUME NEW q \in Renamed(payload, f) PROVE q \in Keys \X Values
        <3>1. PICK pair \in payload : q = <<NewKey(pair[1], f), pair[2]>>
            BY <1>0
        <3> QED
            BY <2>1, <3>1
    <2> QED
        BY <2>2 DEF Payloads
<1>4. ASSUME Fits(payload, fields) PROVE Fits(Renamed(payload, f), f)
    BY <1>1, <1>2, <1>4 DEF Fits, KeysOf
<1>5. {pair[2] : pair \in Renamed(payload, f)} = {pair[2] : pair \in payload}
    <2>1. ASSUME NEW pair \in payload
          PROVE  \E p \in Renamed(payload, f) : p[2] = pair[2]
        <3>1. <<NewKey(pair[1], f), pair[2]>>[2] = pair[2]
            OBVIOUS
        <3> QED
            BY <1>0, <3>1
    <2>2. ASSUME NEW p \in Renamed(payload, f)
          PROVE  \E pair \in payload : p[2] = pair[2]
        <3>1. PICK pair \in payload : p = <<NewKey(pair[1], f), pair[2]>>
            BY <1>0
        <3> QED
            BY <3>1
    <2> QED
        BY <2>1, <2>2
<1> QED
    BY <1>3, <1>4, <1>5
-----------------------------------------------------------------------------
(* The steps.                                                              *)

LEMMA ItemsAre ==
    ASSUME item \in Seq(Items)
    PROVE  /\ item \in [1..Len(item) -> Items] /\ Len(item) \in Nat
           /\ DOMAIN item = 1..Len(item)
OBVIOUS

LEMMA CatalogInitInvariant == CatalogInit => CatalogInvariant
<1> SUFFICES ASSUME CatalogInit PROVE CatalogInvariant
    OBVIOUS
<1>1. CatalogTyped
    <2>1. item \in Seq(Items) /\ Len(item) = 0
        BY DEF CatalogInit
    <2>2. batch \in [Importers -> {Unused} \cup PreparedBatches
                                           \cup StoredBatches]
        <3>1. batch = [b \in Importers |-> Unused]
            BY DEF CatalogInit
        <3> QED
            BY <3>1
    <2>3. MaxItems \in Nat /\ MaxSaves \in Nat
        BY CatalogConstants
    <2>4. saves \in 0..MaxSaves
        BY <2>3 DEF CatalogInit
    <2>6. Len(item) <= MaxItems
        BY <2>1, <2>3
    <2>7. archiving \in BOOLEAN /\ ~archiving
        BY Zenon DEF CatalogInit
    <2>5. /\ product = "none" /\ item = <<>>
          /\ fields = <<>> /\ fields \in FieldLists \cup {<<>>}
        BY DEF CatalogInit
    <2> QED
        BY <2>1, <2>2, <2>4, <2>5, <2>6, <2>7, Zenon DEF CatalogTyped
<1>2. BatchesFit
    BY DEF CatalogInit, BatchesFit, Unused
<1>3. InStock = {}
    BY DEF CatalogInit, InStock
<1> QED
    BY <1>1, <1>2, <1>3 DEF CatalogInvariant, StockIsApart

(* The stock of a step that adds nothing to it and renames nothing.        *)
LEMMA StockApartStill ==
    ASSUME StockIsApart, UNCHANGED fields, InStock' \subseteq InStock,
           \A n \in InStock : item'[n].payload = item[n].payload
    PROVE  StockIsApart'
BY DEF StockIsApart

LEMMA BatchesFitStill ==
    ASSUME BatchesFit, UNCHANGED batch,
           product' = "none" => product = "none"
    PROVE  BatchesFit'
BY DEF BatchesFit

LEMMA BecomesInvariant ==
    ASSUME CatalogInvariant, NEW n \in DOMAIN item,
           NEW from \in {"AVAILABLE", "RESERVED"},
           NEW to \in {"AVAILABLE", "RESERVED", "SOLD", "DELETED"},
           Becomes(n, from, to)
    PROVE  CatalogInvariant'
<1>0. /\ UNCHANGED <<product, fields, saves, archiving, batch>>
      /\ item[n].status = from /\ item' = [item EXCEPT ![n].status = to]
      /\ item \in Seq(Items)
    BY DEF Becomes, CatalogStays, CatalogInvariant, CatalogTyped
<1>1. n \in 1..Len(item) /\ item[n] \in Items
    BY <1>0
<1>2. PICK e \in Items : e = [item[n] EXCEPT !.status = to]
    BY <1>1 DEF Items
<1>3. /\ e.payload = item[n].payload
      /\ e.batch = item[n].batch /\ e.status = to
    BY <1>1, <1>2 DEF Items
<1>4. /\ item' \in Seq(Items) /\ Len(item') = Len(item) /\ item'[n] = e
      /\ \A m \in 1..Len(item) \ {n} : item'[m] = item[m]
    <2>1. item' = [item EXCEPT ![n] = e]
        BY <1>0, <1>2
    <2> QED
        BY <1>0, <1>1, <2>1, OneReplaced
<1>5. DOMAIN item = 1..Len(item) /\ DOMAIN item' = 1..Len(item)
      /\ item' # <<>>
    BY <1>0, <1>1, <1>4
<1>6. InStock' \subseteq InStock
    BY <1>0, <1>4, <1>5 DEF InStock
<1>7. \A m \in InStock : item'[m].payload = item[m].payload
    BY <1>3, <1>4, <1>5 DEF InStock
<1>8. StockIsApart'
    BY <1>0, <1>6, <1>7, StockApartStill DEF CatalogInvariant
<1>9. CatalogTyped'
    <2>1. product # "none"
        BY <1>0, <1>1 DEF CatalogInvariant, CatalogTyped
    <2> QED
        BY <1>0, <1>4, <2>1 DEF CatalogInvariant, CatalogTyped
<1> QED
    BY <1>0, <1>8, <1>9, BatchesFitStill DEF CatalogInvariant
LEMMA StockIsFinite ==
    ASSUME item \in Seq(Items)
    PROVE  InStock \subseteq 1..Len(item) /\ IsFiniteSet(InStock)
<1>1. Len(item) \in Nat /\ InStock \subseteq 1..Len(item)
    BY ItemsAre DEF InStock
<1>2. IsFiniteSet(1..Len(item))
    BY <1>1, FS_Interval
<1> QED
    BY <1>1, <1>2, FS_Subset

(* "Two payloads that would become the same" are refused.                  *)
LEMMA RenamedApart ==
    ASSUME item \in Seq(Items), NEW f, Compatible(f),
           NEW m \in InStock, NEW n \in InStock, m # n
    PROVE  Renamed(item[m].payload, f) # Renamed(item[n].payload, f)
<1> DEFINE S == InStock
           T == {Renamed(item[k].payload, f) : k \in InStock}
           g == [k \in S |-> Renamed(item[k].payload, f)]
<1>1. IsFiniteSet(S) /\ Cardinality(T) = Cardinality(S)
    BY StockIsFinite DEF Compatible
<1>2. g \in Surjection(S, T)
    BY DEF Surjection
<1>3. g \in Injection(S, T)
    <2> HIDE DEF S, T, g
    <2> QED
        BY <1>1, <1>2, FS_SurjSameCardinalityImpliesInj
<1>4. \A a, b \in S : g[a] = g[b] => a = b
    BY <1>3 DEF Injection, IsInjective
<1> QED
    BY <1>4

LEMMA SavedItems ==
    ASSUME CatalogInvariant, NEW f \in FieldLists,
           InStock # {} => Compatible(f),
           item' = [n \in DOMAIN item |->
                      IF n \in InStock
                      THEN [item[n] EXCEPT !.payload = Renamed(@, f)]
                      ELSE item[n]]
    PROVE  /\ item' \in Seq(Items) /\ Len(item') = Len(item)
           /\ \A n \in 1..Len(item) :
                 /\ item'[n].status = item[n].status
                 /\ item'[n].batch = item[n].batch
                 /\ n \in InStock => item'[n].payload
                                       = Renamed(item[n].payload, f)
                 /\ n \notin InStock => item'[n].payload = item[n].payload
<1>0. /\ item \in [1..Len(item) -> Items] /\ Len(item) \in Nat
      /\ DOMAIN item = 1..Len(item)
    BY ItemsAre DEF CatalogInvariant, CatalogTyped
<1>1. ASSUME NEW n \in 1..Len(item)
      PROVE  /\ item'[n] \in Items
             /\ item'[n].status = item[n].status
             /\ item'[n].batch = item[n].batch
             /\ n \in InStock => item'[n].payload = Renamed(item[n].payload, f)
             /\ n \notin InStock => item'[n].payload = item[n].payload
    <2>1. CASE n \notin InStock
        <3>1. item'[n] = item[n]
            BY <1>0, <2>1
        <3> QED
            BY <1>0, <2>1, <3>1
    <2>2. CASE n \in InStock
        <3>1. fields \in FieldLists
            BY <1>0 DEF CatalogInvariant, CatalogTyped
        <3>2. item[n] \in Items /\ item[n].payload \in Payloads
            BY <1>0 DEF Items
        <3>3. PICK p \in Payloads : p = Renamed(item[n].payload, f)
            BY <3>1, <3>2, RenamedFits
        <3>4. item'[n] = [item[n] EXCEPT !.payload = p]
            BY <1>0, <2>2, <3>3
        <3> QED
            BY <2>2, <3>2, <3>3, <3>4 DEF Items
    <2> QED
        BY <2>1, <2>2
<1>2. item' \in [1..Len(item) -> Items]
    <2>1. item' = [n \in 1..Len(item) |-> item'[n]]
        BY <1>0
    <2> QED
        BY <1>1, <2>1
<1>3. item' \in Seq(Items) /\ Len(item') = Len(item)
    BY <1>0, <1>2
<1> QED
    BY <1>1, <1>3

LEMMA SaveInvariant ==
    ASSUME CatalogInvariant, Save
    PROVE  CatalogInvariant'
<1>1. PICK f \in FieldLists :
          /\ InStock # {} => Compatible(f)
          /\ fields' = f
          /\ item' = [n \in DOMAIN item |->
                        IF n \in InStock
                        THEN [item[n] EXCEPT !.payload = Renamed(@, f)]
                        ELSE item[n]]
    BY DEF Save
<1>2. /\ item' \in Seq(Items) /\ Len(item') = Len(item)
      /\ \A n \in 1..Len(item) :
            /\ item'[n].status = item[n].status
            /\ item'[n].batch = item[n].batch
            /\ n \in InStock => item'[n].payload
                                  = Renamed(item[n].payload, f)
            /\ n \notin InStock => item'[n].payload = item[n].payload
    BY <1>1, SavedItems
<1>3. InStock' = InStock /\ InStock \subseteq 1..Len(item)
    BY <1>2, ItemsAre DEF InStock, CatalogInvariant, CatalogTyped
<1>4. product' = "live" /\ UNCHANGED batch /\ f # <<>>
      /\ saves' = saves + 1 /\ saves < MaxSaves /\ archiving' = FALSE
    BY FieldListIs DEF Save
<1>5. CatalogTyped'
    <2>1. MaxSaves \in Nat
        BY CatalogConstants
    <2>2. saves' \in 0..MaxSaves
        BY <1>4, <2>1 DEF CatalogInvariant, CatalogTyped
    <2>5. Len(item') <= MaxItems
        BY <1>2 DEF CatalogInvariant, CatalogTyped
    <2>6. archiving' \in BOOLEAN /\ ~archiving'
        BY <1>4, Zenon
    <2>3. batch' \in [Importers -> {Unused} \cup PreparedBatches
                                            \cup StoredBatches]
        BY <1>4 DEF CatalogInvariant, CatalogTyped
    <2>4. /\ product' = "live" /\ fields' \in FieldLists \cup {<<>>}
          /\ fields' # <<>> /\ product' # "none"
        BY <1>1, <1>4
    <2> QED
        BY <1>2, <2>2, <2>3, <2>4, <2>5, <2>6, Zenon DEF CatalogTyped
<1>6. StockIsApart'
    <2>1. ASSUME NEW m \in InStock, NEW n \in InStock, m # n
          PROVE  item'[m].payload # item'[n].payload
        BY <1>1, <1>2, <1>3, <2>1, RenamedApart
        DEF CatalogInvariant, CatalogTyped
    <2> QED
        BY <1>3, <2>1 DEF StockIsApart
<1> QED
    BY <1>4, <1>5, <1>6, BatchesFitStill DEF CatalogInvariant
LEMMA ArchivingInvariant ==
    ASSUME CatalogInvariant, BeginArchive \/ Archive
    PROVE  CatalogInvariant'
<1>1. /\ UNCHANGED <<fields, saves, item, batch>> /\ archiving' \in BOOLEAN
      /\ product' \in {"live", "archived"} /\ product # "none"
      /\ archiving' => product' = "live"
    BY DEF BeginArchive, Archive, CatalogInvariant, CatalogTyped
<1>2. StockIsApart'
    BY <1>1 DEF CatalogInvariant, StockIsApart, InStock
<1>3. CatalogTyped'
    BY <1>1 DEF CatalogInvariant, CatalogTyped
<1> QED
    BY <1>1, <1>2, <1>3, BatchesFitStill DEF CatalogInvariant

(* A batch goes on, and the catalogue and the stock stay.                  *)
LEMMA BatchGoesOn ==
    ASSUME CatalogInvariant, UNCHANGED item, CatalogStays, NEW b \in Importers,
           NEW e \in {Unused} \cup PreparedBatches \cup StoredBatches,
           batch' = [batch EXCEPT ![b] = e], product # "none",
           e.step = "prepared" => \A p \in e.rows : Fits(p, e.fields),
           e.step \in {"PROCESSING", "COMPLETED", "PARTIAL"} =>
              \A p \in e.insert : Fits(p, e.fields)
    PROVE  CatalogInvariant'
<1>1. UNCHANGED <<product, fields, saves, archiving, item>>
    BY DEF CatalogStays
<1>2. /\ batch' \in [Importers -> {Unused} \cup PreparedBatches
                                           \cup StoredBatches]
      /\ batch'[b] = e
      /\ \A c \in Importers \ {b} : batch'[c] = batch[c]
    BY DEF CatalogInvariant, CatalogTyped
<1>3. BatchesFit'
    <2> SUFFICES ASSUME NEW c \in Importers
                 PROVE  /\ product' = "none" => batch'[c] = Unused
                        /\ batch'[c].step = "prepared" =>
                              \A p \in batch'[c].rows :
                                 Fits(p, batch'[c].fields)
                        /\ batch'[c].step
                              \in {"PROCESSING", "COMPLETED", "PARTIAL"} =>
                              \A p \in batch'[c].insert :
                                 Fits(p, batch'[c].fields)
        BY DEF BatchesFit
    <2>1. CASE c = b
        BY <1>1, <1>2, <2>1
    <2>2. CASE c # b
        BY <1>1, <1>2, <2>2 DEF CatalogInvariant, BatchesFit
    <2> QED
        BY <2>1, <2>2
<1>4. StockIsApart'
    BY <1>1 DEF CatalogInvariant, StockIsApart, InStock
<1>5. CatalogTyped'
    BY <1>1, <1>2 DEF CatalogInvariant, CatalogTyped
<1> QED
    BY <1>3, <1>4, <1>5 DEF CatalogInvariant

LEMMA PayloadFits ==
    ASSUME fields \in FieldLists, NEW row \in Rows
    PROVE  Payload(row) \in Payloads /\ Fits(Payload(row), fields)
<1>1. DOMAIN row \subseteq {1, 2} /\ 1 \in DOMAIN row
    <2>1. DOMAIN row \in {1..1, 1..2}
        BY CatalogConstants
    <2> QED
        BY <2>1
<1>2. fields[1] \in Keys /\ fields[2] \in Keys
    BY FieldListIs
<1>3. Payload(row) \in Payloads
    <2> SUFFICES ASSUME NEW n \in DOMAIN row
                 PROVE  <<fields[n], row[n]>> \in Keys \X Values
        BY DEF Payload, Payloads
    <2>1. fields[n] \in Keys
        BY <1>1, <1>2
    <2>2. row[n] \in Values
        BY DEF Values
    <2> QED
        BY <2>1, <2>2
<1>4. KeysOf(Payload(row)) = {fields[n] : n \in DOMAIN row}
    <2>1. ASSUME NEW n \in DOMAIN row
          PROVE  \E p \in Payload(row) : p[1] = fields[n]
        <3>1. <<fields[n], row[n]>>[1] = fields[n]
            OBVIOUS
        <3> QED
            BY <3>1 DEF Payload
    <2>2. ASSUME NEW p \in Payload(row)
          PROVE  \E n \in DOMAIN row : p[1] = fields[n]
        <3>1. PICK n \in DOMAIN row : p = <<fields[n], row[n]>>
            BY DEF Payload
        <3> QED
            BY <3>1
    <2> QED
        BY <2>1, <2>2 DEF KeysOf
<1> QED
    BY <1>1, <1>3, <1>4 DEF Fits

LEMMA PrepareInvariant ==
    ASSUME CatalogInvariant, NEW b \in Importers, Prepare(b)
    PROVE  CatalogInvariant'
<1>1. PICK rows \in (SUBSET Rows) \ {{}}, overwrite \in BOOLEAN :
          batch' = [batch EXCEPT ![b] =
                      [step |-> "prepared", overwrite |-> overwrite,
                       fields |-> fields,
                       rows |-> {Payload(r) : r \in rows}]]
    BY DEF Prepare
<1>2. product = "live" /\ UNCHANGED item /\ CatalogStays
      /\ fields \in FieldLists
    BY DEF Prepare, CatalogInvariant, CatalogTyped
<1>3. PICK P \in SUBSET Payloads : /\ P = {Payload(r) : r \in rows}
                                   /\ \A p \in P : Fits(p, fields)
    <2>1. \A r \in rows : Payload(r) \in Payloads /\ Fits(Payload(r), fields)
        BY <1>2, PayloadFits
    <2>2. {Payload(r) : r \in rows} \in SUBSET Payloads
        BY <2>1
    <2> QED
        BY <2>1, <2>2
<1>4. PICK e \in PreparedBatches :
         e = [step |-> "prepared", overwrite |-> overwrite,
              fields |-> fields, rows |-> P]
    BY <1>2 DEF PreparedBatches
<1>5. /\ e.step = "prepared" /\ e.rows = P /\ e.fields = fields
      /\ batch' = [batch EXCEPT ![b] = e]
    BY <1>1, <1>3, <1>4
<1> QED
    BY <1>2, <1>3, <1>5, BatchGoesOn
LEMMA MatchInvariant ==
    ASSUME CatalogInvariant, NEW b \in Importers, Match(b)
    PROVE  CatalogInvariant'
<1> DEFINE fresh == {p \in batch[b].rows : StockOf(p) = {}}
           over == IF batch[b].overwrite
                   THEN {n \in InStock : /\ item[n].status = "AVAILABLE"
                                         /\ item[n].payload \in batch[b].rows}
                   ELSE {}
           O == {[item |-> n, payload |-> item[n].payload] : n \in over}
           all == fresh \cup {item[n].payload : n \in over}
<1>1. /\ batch[b].step = "prepared" /\ UNCHANGED item /\ CatalogStays
      /\ batch' = [batch EXCEPT ![b] =
            [step |-> "PROCESSING", fields |-> batch[b].fields,
             insert |-> fresh, over |-> O, prepared |-> all,
             check |-> over, imported |-> 0, overwritten |-> 0,
             wrote |-> {}]]
    BY DEF Match
<1>2. batch[b] \in PreparedBatches
    BY <1>1 DEF CatalogInvariant, CatalogTyped, Unused, StoredBatches
<1>3. /\ batch[b].fields \in FieldLists /\ batch[b].rows \in SUBSET Payloads
      /\ \A p \in batch[b].rows : Fits(p, batch[b].fields)
    BY <1>1, <1>2 DEF PreparedBatches, CatalogInvariant, BatchesFit
<1>4. /\ item \in [1..Len(item) -> Items] /\ Len(item) \in Nat
      /\ Len(item) <= MaxItems /\ MaxItems \in Nat
      /\ InStock \subseteq 1..Len(item)
    BY ItemsAre, StockIsFinite, CatalogConstants
    DEF CatalogInvariant, CatalogTyped
<1>5. over \subseteq InStock /\ over \in SUBSET (1..MaxItems)
    <2>1. over \subseteq InStock
        OBVIOUS
    <2> HIDE DEF over
    <2>2. 1..Len(item) \subseteq 1..MaxItems
        BY <1>4
    <2> QED
        BY <1>4, <2>1, <2>2
<1>6. \A n \in over : n \in Nat /\ item[n].payload \in Payloads
    <2> HIDE DEF over
    <2> QED
        BY <1>4, <1>5 DEF Items
<1>7. fresh \in SUBSET Payloads /\ \A p \in fresh : Fits(p, batch[b].fields)
    BY <1>3
<1> HIDE DEF fresh, over
<1>8. O \in SUBSET [item : Nat, payload : Payloads] /\ all \in SUBSET Payloads
    BY <1>6, <1>7
<1> HIDE DEF O, all
<1>9. PICK e \in StoredBatches :
         e = [step |-> "PROCESSING", fields |-> batch[b].fields,
              insert |-> fresh, over |-> O, prepared |-> all,
              check |-> over, imported |-> 0, overwritten |-> 0,
              wrote |-> {}]
    BY <1>3, <1>5, <1>7, <1>8 DEF StoredBatches
<1>10. /\ e.step = "PROCESSING" /\ e.insert = fresh
       /\ e.fields = batch[b].fields /\ batch' = [batch EXCEPT ![b] = e]
    BY <1>1, <1>9
<1>11. product # "none"
    BY <1>1 DEF CatalogInvariant, BatchesFit, Unused
<1> QED
    BY <1>1, <1>7, <1>10, <1>11, BatchGoesOn
(* A batch that is stored stays one.                                       *)
LEMMA StoredBatchIs ==
    ASSUME CatalogInvariant, NEW b \in Importers,
           batch[b].step \in {"PROCESSING", "COMPLETED", "PARTIAL"}
    PROVE  /\ batch[b] \in StoredBatches /\ product # "none"
           /\ fields \in FieldLists
           /\ \A p \in batch[b].insert : Fits(p, batch[b].fields)
BY DEF CatalogInvariant, CatalogTyped, BatchesFit, Unused, PreparedBatches

LEMMA InsertRowInvariant ==
    ASSUME CatalogInvariant, NEW b \in Importers, InsertRow(b)
    PROVE  CatalogInvariant'
<1>0. /\ batch[b].step = "PROCESSING" /\ Len(item) < MaxItems /\ CatalogStays
      /\ UNCHANGED <<product, fields, saves, archiving>>
    BY DEF InsertRow, CatalogStays
<1>1. /\ batch[b] \in StoredBatches /\ product # "none"
      /\ fields \in FieldLists
      /\ \A p \in batch[b].insert : Fits(p, batch[b].fields)
    BY <1>0, StoredBatchIs
<1>2. PICK p \in batch[b].insert :
          IF StockOf(p) = {}
          THEN /\ item' = Append(item,
                    [payload |-> p, status |-> "AVAILABLE", batch |-> b])
               /\ batch' = [batch EXCEPT ![b].insert = @ \ {p},
                              ![b].imported = @ + 1, ![b].wrote = @ \cup {p}]
          ELSE UNCHANGED item
               /\ batch' = [batch EXCEPT ![b].insert = @ \ {p}]
    BY DEF InsertRow
<1>3. p \in Payloads
    BY <1>1 DEF StoredBatches
<1>4. CASE StockOf(p) # {}
    <2>1. PICK e \in StoredBatches : e = [batch[b] EXCEPT !.insert = @ \ {p}]
        BY <1>1 DEF StoredBatches
    <2>2. /\ e.step = "PROCESSING" /\ e.insert \subseteq batch[b].insert
          /\ e.fields = batch[b].fields
        BY <1>0, <1>1, <2>1 DEF StoredBatches
    <2>3. batch' = [batch EXCEPT ![b] = e] /\ UNCHANGED item
        BY <1>2, <1>4, <2>1
    <2> QED
        BY <1>0, <1>1, <2>2, <2>3, BatchGoesOn
<1>5. CASE StockOf(p) = {}
    <2>1. PICK e \in StoredBatches :
             e = [batch[b] EXCEPT !.insert = @ \ {p}, !.imported = @ + 1,
                                  !.wrote = @ \cup {p}]
        <3> DEFINE left == batch[b].insert \ {p}
                   count == batch[b].imported + 1
                   written == batch[b].wrote \cup {p}
                   now == [batch[b] EXCEPT !.insert = left,
                              !.imported = count, !.wrote = written]
        <3>1. left \in SUBSET Payloads /\ written \in SUBSET Payloads
            BY <1>1, <1>3 DEF StoredBatches
        <3>2. count \in Nat
            BY <1>1 DEF StoredBatches
        <3>3. now = [batch[b] EXCEPT !.insert = @ \ {p}, !.imported = @ + 1,
                                     !.wrote = @ \cup {p}]
            OBVIOUS
        <3> HIDE DEF left, count, written
        <3>4. now \in StoredBatches
            BY <1>1, <3>1, <3>2 DEF StoredBatches
        <3> QED
            BY <3>3, <3>4
    <2>2. /\ e.step = "PROCESSING" /\ e.insert \subseteq batch[b].insert
          /\ e.fields = batch[b].fields
        BY <1>0, <1>1, <2>1 DEF StoredBatches
    <2>3. batch' = [batch EXCEPT ![b] = e]
        BY <1>2, <1>5, <2>1
    <2>4. PICK i \in Items :
             i = [payload |-> p, status |-> "AVAILABLE", batch |-> b]
        BY <1>3 DEF Items
    <2>5. i.payload = p /\ i.status = "AVAILABLE"
        BY <2>4
    <2>6. /\ item \in Seq(Items) /\ item' = Append(item, i)
          /\ Len(item) \in Nat
        BY <1>2, <1>5, <2>4, ItemsAre DEF CatalogInvariant, CatalogTyped
    <2>7. /\ item' \in Seq(Items) /\ Len(item') = Len(item) + 1
          /\ item'[Len(item) + 1] = i
          /\ \A n \in 1..Len(item) : item'[n] = item[n]
        BY <2>6
    <2>8. InStock' = InStock \cup {Len(item) + 1}
          /\ InStock \subseteq 1..Len(item)
        BY <2>5, <2>6, <2>7 DEF InStock
    <2>9. StockIsApart'
        <3>2. ASSUME NEW n \in InStock
              PROVE  item[n].payload # p
            BY <1>5 DEF StockOf
        <3>3. ASSUME NEW m \in InStock', NEW n \in InStock', m # n
              PROVE  item'[m].payload # item'[n].payload
            <4>1. CASE m \in InStock /\ n \in InStock
                BY <2>7, <2>8, <3>3, <4>1 DEF CatalogInvariant, StockIsApart
            <4>2. CASE m = Len(item) + 1 /\ n \in InStock
                BY <2>5, <2>7, <2>8, <3>2, <4>2
            <4>3. CASE m \in InStock /\ n = Len(item) + 1
                BY <2>5, <2>7, <2>8, <3>2, <4>3
            <4> QED
                BY <2>8, <3>3, <4>1, <4>2, <4>3
        <3> QED
            BY <3>3 DEF StockIsApart
    <2>10. BatchesFit'
        <3>1. /\ batch'[b] = e
              /\ \A c \in Importers \ {b} : batch'[c] = batch[c]
            BY <2>3 DEF CatalogInvariant, CatalogTyped
        <3> SUFFICES ASSUME NEW c \in Importers
                     PROVE  /\ product = "none" => batch'[c] = Unused
                            /\ batch'[c].step = "prepared" =>
                                  \A q \in batch'[c].rows :
                                     Fits(q, batch'[c].fields)
                            /\ batch'[c].step
                                  \in {"PROCESSING", "COMPLETED", "PARTIAL"} =>
                                  \A q \in batch'[c].insert :
                                     Fits(q, batch'[c].fields)
            BY <1>0 DEF BatchesFit
        <3>2. CASE c = b
            BY <1>1, <2>2, <3>1, <3>2
        <3>3. CASE c # b
            BY <3>1, <3>3 DEF CatalogInvariant, BatchesFit
        <3> QED
            BY <3>2, <3>3
    <2>11. CatalogTyped'
        <3>1. batch' \in [Importers -> {Unused} \cup PreparedBatches
                                               \cup StoredBatches]
            BY <2>3 DEF CatalogInvariant, CatalogTyped
        <3>2. Len(item') <= MaxItems
            BY <1>0, <2>6, <2>7, CatalogConstants
        <3> QED
            BY <1>0, <1>1, <2>7, <3>1, <3>2 DEF CatalogInvariant, CatalogTyped
    <2> QED
        BY <2>9, <2>10, <2>11 DEF CatalogInvariant
<1> QED
    BY <1>4, <1>5

(* Batches go on, and items change, but not what makes them fit.           *)
LEMMA ItemsGoOn ==
    ASSUME CatalogInvariant, CatalogStays, product # "none",
           item' \in Seq(Items), Len(item') = Len(item),
           InStock' \subseteq InStock,
           \A n \in InStock : item'[n].payload = item[n].payload,
           batch' \in [Importers -> {Unused} \cup PreparedBatches
                                            \cup StoredBatches],
           \A b \in Importers :
              \/ batch'[b] = batch[b]
              \/ /\ batch[b].step \in {"PROCESSING", "COMPLETED", "PARTIAL"}
                 /\ batch'[b].step \in {"PROCESSING", "COMPLETED", "PARTIAL"}
                 /\ batch'[b].insert = batch[b].insert
                 /\ batch'[b].fields = batch[b].fields
    PROVE  CatalogInvariant'
<1>1. UNCHANGED <<product, fields, saves, archiving>>
    BY DEF CatalogStays
<1>2. StockIsApart'
    BY <1>1, StockApartStill DEF CatalogInvariant
<1>3. BatchesFit'
    <2> SUFFICES ASSUME NEW c \in Importers
                 PROVE  /\ product = "none" => batch'[c] = Unused
                        /\ batch'[c].step = "prepared" =>
                              \A q \in batch'[c].rows :
                                 Fits(q, batch'[c].fields)
                        /\ batch'[c].step
                              \in {"PROCESSING", "COMPLETED", "PARTIAL"} =>
                              \A q \in batch'[c].insert :
                                 Fits(q, batch'[c].fields)
        BY <1>1 DEF BatchesFit
    <2>1. CASE batch'[c] = batch[c]
        BY <2>1 DEF CatalogInvariant, BatchesFit
    <2>2. CASE batch'[c] # batch[c]
        BY <2>2 DEF CatalogInvariant, BatchesFit
    <2> QED
        BY <2>1, <2>2
<1>4. CatalogTyped'
    BY <1>1 DEF CatalogInvariant, CatalogTyped
<1> QED
    BY <1>2, <1>3, <1>4 DEF CatalogInvariant

LEMMA OverwriteRowInvariant ==
    ASSUME CatalogInvariant, NEW b \in Importers, OverwriteRow(b)
    PROVE  CatalogInvariant'
<1>0. batch[b].step = "PROCESSING" /\ CatalogStays
    BY DEF OverwriteRow
<1>1. batch[b] \in StoredBatches /\ product # "none"
    BY <1>0, StoredBatchIs
<1>2. PICK o \in batch[b].over :
          IF Overwritable(o)
          THEN /\ item' = [item EXCEPT ![o.item].batch = b]
               /\ batch' = [batch EXCEPT ![b].over = @ \ {o},
                                         ![b].wrote = @ \cup {o.payload}]
          ELSE UNCHANGED item
               /\ batch' = [batch EXCEPT ![b].over = @ \ {o}]
    BY DEF OverwriteRow
<1>3. o.payload \in Payloads /\ o.item \in Nat
    BY <1>1 DEF StoredBatches
<1>4. PICK e \in StoredBatches :
         /\ batch' = [batch EXCEPT ![b] = e]
         /\ e.step = "PROCESSING" /\ e.insert = batch[b].insert
         /\ e.fields = batch[b].fields
    <2>1. CASE Overwritable(o)
        <3>1. PICK e \in StoredBatches :
                 e = [batch[b] EXCEPT !.over = @ \ {o},
                                      !.wrote = @ \cup {o.payload}]
            BY <1>1, <1>3 DEF StoredBatches
        <3>2. /\ e.step = "PROCESSING" /\ e.insert = batch[b].insert
              /\ e.fields = batch[b].fields
            BY <1>0, <1>1, <3>1 DEF StoredBatches
        <3>3. batch' = [batch EXCEPT ![b] = e]
            BY <1>2, <2>1, <3>1
        <3> QED
            BY <3>2, <3>3
    <2>2. CASE ~Overwritable(o)
        <3>1. PICK e \in StoredBatches : e = [batch[b] EXCEPT !.over = @ \ {o}]
            BY <1>1 DEF StoredBatches
        <3>2. /\ e.step = "PROCESSING" /\ e.insert = batch[b].insert
              /\ e.fields = batch[b].fields
            BY <1>0, <1>1, <3>1 DEF StoredBatches
        <3>3. batch' = [batch EXCEPT ![b] = e]
            BY <1>2, <2>2, <3>1
        <3> QED
            BY <3>2, <3>3
    <2> QED
        BY <2>1, <2>2
<1>5. /\ batch' \in [Importers -> {Unused} \cup PreparedBatches
                                           \cup StoredBatches]
      /\ batch'[b] = e
      /\ \A c \in Importers \ {b} : batch'[c] = batch[c]
    BY <1>4 DEF CatalogInvariant, CatalogTyped
<1>6. /\ item \in Seq(Items) /\ item \in [1..Len(item) -> Items]
      /\ DOMAIN item = 1..Len(item) /\ Len(item) \in Nat
    BY ItemsAre DEF CatalogInvariant, CatalogTyped
<1>7. /\ item' \in Seq(Items) /\ Len(item') = Len(item)
      /\ \A n \in 1..Len(item) : /\ item'[n].payload = item[n].payload
                                  /\ item'[n].status = item[n].status
    <2>1. CASE item' = item
        BY <1>6, <2>1
    <2>2. CASE item' = [item EXCEPT ![o.item].batch = b]
        <3>1. CASE o.item \notin 1..Len(item)
            <4>1. item' = item
                BY <1>6, <2>2, <3>1
            <4> QED
                BY <1>6, <4>1
        <3>2. CASE o.item \in 1..Len(item)
            <4>1. item[o.item] \in Items
                BY <1>6, <3>2
            <4>2. PICK i \in Items : i = [item[o.item] EXCEPT !.batch = b]
                BY <4>1 DEF Items
            <4>3. /\ i.payload = item[o.item].payload
                  /\ i.status = item[o.item].status
                BY <4>1, <4>2 DEF Items
            <4>4. item' = [item EXCEPT ![o.item] = i]
                BY <2>2, <4>2
            <4>5. /\ item' \in Seq(Items) /\ Len(item') = Len(item)
                  /\ item'[o.item] = i
                  /\ \A n \in 1..Len(item) \ {o.item} : item'[n] = item[n]
                BY <1>6, <3>2, <4>4, OneReplaced
            <4> QED
                BY <4>3, <4>5
        <3> QED
            BY <3>1, <3>2
    <2> QED
        BY <1>2, <2>1, <2>2
<1>8. InStock' = InStock /\ InStock \subseteq 1..Len(item)
    BY <1>6, <1>7 DEF InStock
<1> QED
    BY <1>0, <1>1, <1>4, <1>5, <1>7, <1>8, ItemsGoOn

LEMMA ReportInvariant ==
    ASSUME CatalogInvariant, NEW b \in Importers, Report(b)
    PROVE  CatalogInvariant'
<1>0. batch[b].step = "PROCESSING" /\ CatalogStays /\ UNCHANGED item
    BY DEF Report
<1>1. /\ batch[b] \in StoredBatches /\ product # "none"
      /\ \A p \in batch[b].insert : Fits(p, batch[b].fields)
    BY <1>0, StoredBatchIs
<1>2. Cardinality(Overwritten(b)) \in Nat
    <2>1. Overwritten(b) \subseteq 1..MaxItems /\ MaxItems \in Nat
        BY <1>1, CatalogConstants DEF Overwritten, StoredBatches
    <2>2. IsFiniteSet(1..MaxItems)
        BY <2>1, FS_Interval
    <2>3. IsFiniteSet(Overwritten(b))
        BY <2>1, <2>2, FS_Subset
    <2> QED
        BY <2>3, FS_CardinalityType
<1>3. PICK to \in {"COMPLETED", "PARTIAL"} :
         batch' = [batch EXCEPT
                      ![b].overwritten = Cardinality(Overwritten(b)),
                      ![b].step = to]
    BY DEF Report
<1>4. PICK e \in StoredBatches :
         e = [batch[b] EXCEPT !.overwritten = Cardinality(Overwritten(b)),
                              !.step = to]
    BY <1>1, <1>2 DEF StoredBatches
<1>5. /\ e.step = to /\ e.insert = batch[b].insert
      /\ e.fields = batch[b].fields /\ batch' = [batch EXCEPT ![b] = e]
    BY <1>1, <1>3, <1>4 DEF StoredBatches
<1> QED
    BY <1>0, <1>1, <1>5, BatchGoesOn

LEMMA RemoveBatchInvariant ==
    ASSUME CatalogInvariant, NEW b \in Importers, RemoveBatch(b)
    PROVE  CatalogInvariant'
<1>0. /\ batch[b].step \in {"PROCESSING", "COMPLETED", "PARTIAL"}
      /\ UNCHANGED batch /\ CatalogStays
      /\ item' = [n \in DOMAIN item |->
                  IF item[n].batch = b /\ item[n].status = "AVAILABLE"
                  THEN [item[n] EXCEPT !.status = "DELETED"] ELSE item[n]]
    BY DEF RemoveBatch
<1>1. product # "none"
    BY <1>0, StoredBatchIs
<1>2. /\ item \in [1..Len(item) -> Items] /\ Len(item) \in Nat
      /\ DOMAIN item = 1..Len(item)
    BY ItemsAre DEF CatalogInvariant, CatalogTyped
<1>3. ASSUME NEW n \in 1..Len(item)
      PROVE  /\ item'[n] \in Items
             /\ item'[n].payload = item[n].payload
             /\ item'[n].status \in {item[n].status, "DELETED"}
    <2>1. item[n] \in Items
        BY <1>2
    <2>2. item'[n] = item[n]
          \/ item'[n] = [item[n] EXCEPT !.status = "DELETED"]
        BY <1>0, <1>2
    <2> QED
        BY <2>1, <2>2 DEF Items
<1>4. item' \in Seq(Items) /\ Len(item') = Len(item)
    <2>1. item' = [n \in 1..Len(item) |-> item'[n]]
        BY <1>0, <1>2
    <2>2. item' \in [1..Len(item) -> Items]
        BY <1>3, <2>1
    <2> QED
        BY <1>2, <2>2
<1>5. InStock' \subseteq InStock /\ InStock \subseteq 1..Len(item)
    BY <1>2, <1>3, <1>4, ItemsAre DEF InStock
<1>6. batch' \in [Importers -> {Unused} \cup PreparedBatches
                                       \cup StoredBatches]
    BY <1>0 DEF CatalogInvariant, CatalogTyped
<1> QED
    BY <1>0, <1>1, <1>3, <1>4, <1>5, <1>6, ItemsGoOn

LEMMA CatalogKeepsInvariant ==
    CatalogInvariant /\ [CatalogNext]_catalogVars => CatalogInvariant'
<1> SUFFICES ASSUME CatalogInvariant, [CatalogNext]_catalogVars
             PROVE  CatalogInvariant'
    OBVIOUS
<1>1. CASE Save \/ BeginArchive \/ Archive
    BY <1>1, SaveInvariant, ArchivingInvariant
<1>2. ASSUME NEW b \in Importers,
             Prepare(b) \/ Match(b) \/ InsertRow(b)
      PROVE  CatalogInvariant'
    BY <1>2, PrepareInvariant, MatchInvariant, InsertRowInvariant
<1>3. ASSUME NEW b \in Importers,
             OverwriteRow(b) \/ Report(b) \/ RemoveBatch(b)
      PROVE  CatalogInvariant'
    BY <1>3, OverwriteRowInvariant, ReportInvariant, RemoveBatchInvariant
<1>4. ASSUME NEW n \in DOMAIN item,
             Reserve(n) \/ Sell(n) \/ Release(n) \/ RemoveItem(n)
      PROVE  CatalogInvariant'
    BY <1>4, BecomesInvariant DEF Reserve, Sell, Release, RemoveItem
<1>5. CASE UNCHANGED catalogVars
    BY <1>5 DEF catalogVars, CatalogInvariant, CatalogTyped, BatchesFit,
       StockIsApart, InStock
<1> QED
    BY <1>1, <1>2, <1>3, <1>4, <1>5 DEF CatalogNext

LEMMA CatalogIsTyped == CatalogInvariant => CatalogTypeOK
BY ItemsAre DEF CatalogInvariant, CatalogTyped, CatalogTypeOK, Items

(* What a step may do to the item n in stock.                              *)
KeepsFit(n) ==
    \/ Fits(item'[n].payload, fields')
    \/ n \in InStock /\ ~Fits(item[n].payload, fields)
    \/ /\ n \notin DOMAIN item
       /\ \E b \in Importers :
             /\ batch[b].step = "PROCESSING" /\ batch[b].fields # fields
             /\ Fits(item'[n].payload, batch[b].fields)

LEMMA UntouchedKeepsFit ==
    ASSUME UNCHANGED fields, NEW n \in InStock,
           item'[n].payload = item[n].payload
    PROVE  KeepsFit(n)
BY DEF KeepsFit

LEMMA SaveKeepsFit ==
    ASSUME CatalogInvariant, Save, NEW n \in InStock' PROVE KeepsFit(n)
<1>1. PICK f \in FieldLists :
          /\ InStock # {} => Compatible(f)
          /\ fields' = f
          /\ item' = [m \in DOMAIN item |->
                        IF m \in InStock
                        THEN [item[m] EXCEPT !.payload = Renamed(@, f)]
                        ELSE item[m]]
    BY DEF Save
<1>2. /\ Len(item') = Len(item) /\ item' \in Seq(Items)
      /\ \A m \in 1..Len(item) :
            /\ item'[m].status = item[m].status
            /\ m \in InStock => item'[m].payload
                                  = Renamed(item[m].payload, f)
    BY <1>1, SavedItems
<1>3. n \in InStock /\ n \in 1..Len(item)
    BY <1>2, ItemsAre DEF InStock, CatalogInvariant, CatalogTyped
<1>4. fields \in FieldLists
    BY <1>3 DEF CatalogInvariant, CatalogTyped
<1>5. item[n].payload \in Payloads
    BY <1>3, ItemsAre DEF CatalogInvariant, CatalogTyped, Items
<1>6. Fits(item[n].payload, fields) => Fits(item'[n].payload, f)
    BY <1>2, <1>3, <1>4, <1>5, RenamedFits
<1> QED
    BY <1>1, <1>3, <1>6 DEF KeepsFit

LEMMA InsertKeepsFit ==
    ASSUME CatalogInvariant, NEW b \in Importers, InsertRow(b),
           NEW n \in InStock'
    PROVE  KeepsFit(n)
<1>1. PICK p \in batch[b].insert :
          \/ item' = Append(item, [payload |-> p, status |-> "AVAILABLE",
                                   batch |-> b])
          \/ UNCHANGED item
    BY DEF InsertRow
<1>2. /\ UNCHANGED fields /\ batch[b].step = "PROCESSING"
      /\ Fits(p, batch[b].fields)
    BY DEF InsertRow, CatalogStays, CatalogInvariant, BatchesFit
<1>3. CASE UNCHANGED item
    BY <1>2, <1>3, UntouchedKeepsFit DEF InStock
<1>4. CASE item' = Append(item, [payload |-> p, status |-> "AVAILABLE",
                                 batch |-> b])
    <2>1. item \in Seq(Items) /\ DOMAIN item = 1..Len(item)
          /\ Len(item) \in Nat
        BY ItemsAre DEF CatalogInvariant, CatalogTyped
    <2>2. /\ DOMAIN item' = 1..(Len(item) + 1)
          /\ \A m \in 1..Len(item) : item'[m] = item[m]
          /\ item'[Len(item) + 1].payload = p
        BY <1>4, <2>1
    <2>3. n \in 1..Len(item) \/ n = Len(item) + 1
        BY <2>1, <2>2 DEF InStock
    <2>4. CASE n \in 1..Len(item)
        <3>1. n \in InStock
            BY <2>1, <2>2, <2>4 DEF InStock
        <3> QED
            BY <1>2, <2>2, <2>4, <3>1, UntouchedKeepsFit
    <2>5. CASE n = Len(item) + 1
        <3>1. n \notin DOMAIN item /\ item'[n].payload = p
            BY <2>1, <2>2, <2>5
        <3> QED
            BY <1>2, <3>1 DEF KeepsFit
    <2> QED
        BY <2>3, <2>4, <2>5
<1> QED
    BY <1>1, <1>3, <1>4

(* The other steps change no payload.                                      *)
LEMMA OthersKeepFit ==
    ASSUME CatalogInvariant, [CatalogNext]_catalogVars, ~Save,
           \A b \in Importers : ~InsertRow(b), NEW n \in InStock'
    PROVE  KeepsFit(n)
<1>1. UNCHANGED fields
    BY DEF CatalogNext, BeginArchive, Archive, Prepare, Match, OverwriteRow,
       Report, RemoveBatch, Reserve, Sell, Release, RemoveItem, Becomes,
       CatalogStays, catalogVars
<1>2. /\ item \in [1..Len(item) -> Items] /\ DOMAIN item = 1..Len(item)
    BY ItemsAre DEF CatalogInvariant, CatalogTyped
<1>3. \/ UNCHANGED item
      \/ \E o, b : item' = [item EXCEPT ![o].batch = b]
      \/ \E o, to : /\ item[o].status # "DELETED"
                    /\ item' = [item EXCEPT ![o].status = to]
      \/ \E b : item' = [m \in DOMAIN item |->
                  IF item[m].batch = b /\ item[m].status = "AVAILABLE"
                  THEN [item[m] EXCEPT !.status = "DELETED"] ELSE item[m]]
    <2>1. CASE \E b \in Importers : OverwriteRow(b)
        BY <2>1 DEF OverwriteRow
    <2>2. CASE \E b \in Importers : RemoveBatch(b)
        BY <2>2 DEF RemoveBatch
    <2>3. CASE \E m \in DOMAIN item : \/ Reserve(m) \/ Sell(m)
                                      \/ Release(m) \/ RemoveItem(m)
        BY <2>3 DEF Reserve, Sell, Release, RemoveItem, Becomes
    <2>4. CASE \/ BeginArchive \/ Archive \/ UNCHANGED catalogVars
               \/ \E b \in Importers : Prepare(b) \/ Match(b) \/ Report(b)
        BY <2>4 DEF BeginArchive, Archive, catalogVars, Prepare, Match, Report
    <2> QED
        BY <2>1, <2>2, <2>3, <2>4 DEF CatalogNext
<1>4. DOMAIN item' = DOMAIN item
    BY <1>2, <1>3
<1>5. n \in 1..Len(item) /\ item[n] \in Items
    BY <1>2, <1>4 DEF InStock
<1>6. \/ item'[n] = item[n]
      \/ \E b : item'[n] = [item[n] EXCEPT !.batch = b]
      \/ \E to : /\ item[n].status # "DELETED"
                 /\ item'[n] = [item[n] EXCEPT !.status = to]
    <2>1. CASE UNCHANGED item
        BY <2>1
    <2>2. CASE \E o, b : item' = [item EXCEPT ![o].batch = b]
        BY <1>2, <1>5, <2>2
    <2>3. CASE \E o, to : /\ item[o].status # "DELETED"
                          /\ item' = [item EXCEPT ![o].status = to]
        BY <1>2, <1>5, <2>3
    <2>4. CASE \E b : item' = [m \in DOMAIN item |->
                  IF item[m].batch = b /\ item[m].status = "AVAILABLE"
                  THEN [item[m] EXCEPT !.status = "DELETED"] ELSE item[m]]
        BY <1>2, <1>5, <2>4
    <2> QED
        BY <1>3, <2>1, <2>2, <2>3, <2>4
<1>7. item'[n].payload = item[n].payload /\ item[n].status # "DELETED"
    BY <1>5, <1>6 DEF InStock, Items
<1>8. n \in InStock
    BY <1>2, <1>5, <1>7 DEF InStock
<1> QED
    BY <1>1, <1>7, <1>8, UntouchedKeepsFit

(* No edit, import, sale or removal spoils an item that fits the product,  *)
(* or brings a payload into stock twice; only a row planned for fields     *)
(* that were edited before it was written comes in unfit, and fits those   *)
(* (product.service.ts:226-264, inventory-import.service.ts:35-50).        *)
THEOREM StockKeepsFitting ==
    CatalogSpec => []CatalogTypeOK /\ StockMatchesFields
<1>1. CatalogInvariant /\ CatalogInvariant' /\ [CatalogNext]_catalogVars =>
          [\A n \in InStock' :
             /\ \/ Fits(item'[n].payload, fields')
                \/ n \in InStock /\ ~Fits(item[n].payload, fields)
                \/ /\ n \notin DOMAIN item
                   /\ \E b \in Importers :
                         /\ batch[b].step = "PROCESSING"
                         /\ batch[b].fields # fields
                         /\ Fits(item'[n].payload, batch[b].fields)
             /\ \A m \in InStock' \ {n} :
                   item'[m].payload # item'[n].payload]_catalogVars
    <2> SUFFICES ASSUME CatalogInvariant, CatalogInvariant',
                        [CatalogNext]_catalogVars, NEW n \in InStock'
                 PROVE  /\ KeepsFit(n)
                        /\ \A m \in InStock' \ {n} :
                              item'[m].payload # item'[n].payload
        BY DEF KeepsFit
    <2>1. KeepsFit(n)
        BY SaveKeepsFit, InsertKeepsFit, OthersKeepFit
    <2> QED
        BY <2>1 DEF CatalogInvariant, StockIsApart
<1> QED
    BY <1>1, CatalogInitInvariant, CatalogKeepsInvariant, CatalogIsTyped,
       PTL DEF CatalogSpec, StockMatchesFields

-----------------------------------------------------------------------------
(* What is reserved or sold is not touched.                                *)

Protected(n) ==
    /\ item'[n].status # "DELETED" /\ item'[n].batch = item[n].batch
    /\ {pair[2] : pair \in item'[n].payload}
          = {pair[2] : pair \in item[n].payload}

(* Nobody deletes, retags or revalues an item that is not AVAILABLE.       *)
LEMMA SoldIsKept ==
    ASSUME CatalogInvariant, CatalogNext, NEW n \in DOMAIN item,
           item[n].status \in {"RESERVED", "SOLD"}
    PROVE  Protected(n)
<1>1. /\ item \in Seq(Items) /\ item \in [1..Len(item) -> Items]
      /\ n \in 1..Len(item) /\ Len(item) \in Nat /\ n \in InStock
      /\ item # <<>>
    BY ItemsAre DEF CatalogInvariant, CatalogTyped, InStock
<1>2. item'[n] = item[n] => Protected(n)
    BY DEF Protected
<1>3. CASE Save
    <2>1. PICK f \in FieldLists :
              /\ InStock # {} => Compatible(f)
              /\ item' = [k \in DOMAIN item |->
                            IF k \in InStock
                            THEN [item[k] EXCEPT !.payload = Renamed(@, f)]
                            ELSE item[k]]
        BY <1>3 DEF Save
    <2>2. /\ item'[n].status = item[n].status
          /\ item'[n].batch = item[n].batch
          /\ item'[n].payload = Renamed(item[n].payload, f)
        BY <1>1, <2>1, SavedItems
    <2>3. item[n].payload \in Payloads /\ fields \in FieldLists
        BY <1>1 DEF Items, CatalogInvariant, CatalogTyped
    <2> DEFINE was == item[n].payload
               now == item'[n].payload
    <2>4. was \in Payloads /\ now = Renamed(was, f)
        BY <2>2, <2>3
    <2> HIDE DEF was, now
    <2>5. {pair[2] : pair \in now} = {pair[2] : pair \in was}
        BY <2>3, <2>4, RenamedFits
    <2> QED
        BY <2>2, <2>5 DEF Protected, was, now
<1>4. CASE BeginArchive \/ Archive
    <2>1. item'[n] = item[n]
        BY <1>4 DEF BeginArchive, Archive
    <2> QED
        BY <1>2, <2>1
<1>5. ASSUME NEW b \in Importers, Prepare(b) \/ Match(b) \/ Report(b)
      PROVE  Protected(n)
    <2>1. UNCHANGED item
        BY <1>5 DEF Prepare, Match, Report
    <2> QED
        BY <1>2, <2>1
<1>6. ASSUME NEW b \in Importers, InsertRow(b)
      PROVE  Protected(n)
    <2>1. PICK p \in batch[b].insert :
             \/ UNCHANGED item
             \/ item' = Append(item,
                    [payload |-> p, status |-> "AVAILABLE", batch |-> b])
        BY <1>6 DEF InsertRow
    <2> DEFINE i == [payload |-> p, status |-> "AVAILABLE", batch |-> b]
    <2> HIDE DEF i
    <2>2. item' \in {item, Append(item, i)}
        BY <2>1 DEF i
    <2>3. item'[n] = item[n]
        BY <1>1, <2>2
    <2> QED
        BY <1>2, <2>3
<1>7. ASSUME NEW b \in Importers, OverwriteRow(b)
      PROVE  Protected(n)
    <2>1. PICK o \in batch[b].over :
             \/ UNCHANGED item
             \/ /\ item[o.item].status = "AVAILABLE"
                /\ item' = [item EXCEPT ![o.item].batch = b]
        BY <1>7 DEF OverwriteRow, Overwritable
    <2> DEFINE m == o.item
    <2>2. \/ UNCHANGED item
          \/ /\ m # n
             /\ item' = [item EXCEPT ![m] = [item[m] EXCEPT !.batch = b]]
        BY <2>1
    <2> HIDE DEF m
    <2>3. item'[n] = item[n]
        BY <1>1, <2>2
    <2> QED
        BY <1>2, <2>3
<1>8. ASSUME NEW b \in Importers, RemoveBatch(b)
      PROVE  Protected(n)
    <2>1. item'[n] = item[n]
        BY <1>1, <1>8 DEF RemoveBatch
    <2> QED
        BY <1>2, <2>1
<1>9. ASSUME NEW m \in DOMAIN item,
             Reserve(m) \/ Sell(m) \/ Release(m) \/ RemoveItem(m)
      PROVE  Protected(n)
    <2>1. CASE m # n
        <3>1. item'[n] = item[n]
            BY <1>1, <1>9, <2>1
            DEF Reserve, Sell, Release, RemoveItem, Becomes
        <3> QED
            BY <1>2, <3>1
    <2>2. CASE m = n
        <3>1. PICK to \in {"SOLD", "AVAILABLE"} :
                 item' = [item EXCEPT ![n].status = to]
            BY <1>1, <1>9, <2>2
            DEF Reserve, Sell, Release, RemoveItem, Becomes
        <3>2. item[n] \in Items
            BY <1>1
        <3>3. item'[n] = [item[n] EXCEPT !.status = to]
            BY <1>1, <3>1
        <3>4. /\ item'[n].status # "DELETED"
              /\ item'[n].batch = item[n].batch
              /\ item'[n].payload = item[n].payload
            BY <3>2, <3>3 DEF Items
        <3> QED
            BY <3>4 DEF Protected
    <2> QED
        BY <2>1, <2>2
<1> QED
    BY <1>3, <1>4, <1>5, <1>6, <1>7, <1>8, <1>9 DEF CatalogNext

(* No step of an administrator or of an import removes a reserved or sold  *)
(* item or changes its values, other than renaming the fields of all.      *)
THEOREM SoldStaysSold == CatalogSpec => SoldIsProtected
<1>1. CatalogInvariant /\ [CatalogNext]_catalogVars
         => [\A n \in DOMAIN item : item[n].status \in {"RESERVED", "SOLD"} =>
               /\ item'[n].status # "DELETED" /\ item'[n].batch = item[n].batch
               /\ {pair[2] : pair \in item'[n].payload}
                     = {pair[2] : pair \in item[n].payload}]_catalogVars
    BY SoldIsKept DEF Protected
<1> QED
    BY <1>1, CatalogInitInvariant, CatalogKeepsInvariant,
       PTL DEF CatalogSpec, SoldIsProtected

-----------------------------------------------------------------------------
(* What the report of an import counts.                                    *)

(* What the batch s has on its plan: the rows that it inserts, and those   *)
(* of the items that it overwrites, each of which has a row of its own.    *)
Planned(s, f) ==
    /\ IsFiniteSet(s.prepared) /\ f \in Injection(s.check, s.prepared)
    /\ s.wrote \subseteq s.prepared
    /\ \A p \in s.insert : /\ p \in s.prepared /\ p \notin s.wrote
                           /\ \A n \in s.check : f[n] # p
    /\ \A o \in s.over : o.item \in s.check /\ f[o.item] = o.payload
    /\ s.imported
          = Cardinality({p \in s.wrote : \A n \in s.check : f[n] # p})

(* An item that carries the batch of its overwriting has been written.     *)
Carried(b, f) ==
    /\ batch[b].check \subseteq DOMAIN item
    /\ \A n \in batch[b].check :
          item[n].batch = b => f[n] \in batch[b].wrote

(* Items carry stored batches only, the rows of a batch are finitely many, *)
(* a batch counts what it writes, and one that has ended was honest.       *)
CountInvariant ==
    /\ \A n \in DOMAIN item :
          batch[item[n].batch].step \notin {"idle", "prepared"}
    /\ \A b \in Importers :
          /\ batch[b].step = "prepared" => IsFiniteSet(batch[b].rows)
          /\ batch[b].step = "PROCESSING" =>
                \E f : Planned(batch[b], f) /\ Carried(b, f)
    /\ ImportIsHonest

LEMMA ReportedIsWritten ==
    ASSUME NEW s \in StoredBatches, NEW f, Planned(s, f),
           NEW over, over \subseteq s.check, \A n \in over : f[n] \in s.wrote
    PROVE  /\ s.imported + Cardinality(over) <= Cardinality(s.wrote)
           /\ s.imported + Cardinality(over) = Cardinality(s.prepared)
                 => s.wrote = s.prepared
<1> DEFINE old == {f[n] : n \in over}
           new == {p \in s.wrote : \A n \in s.check : f[n] # p}
           g == [n \in over |-> f[n]]
<1>1. /\ IsFiniteSet(s.prepared) /\ s.wrote \subseteq s.prepared
      /\ f \in [s.check -> s.prepared]
      /\ \A m, n \in s.check : f[m] = f[n] => m = n
      /\ s.imported = Cardinality(new)
    BY DEF Planned, Injection, IsInjective
<1>2. /\ IsFiniteSet(s.wrote)
      /\ Cardinality(s.wrote) \in Nat /\ Cardinality(s.prepared) \in Nat
    BY <1>1, FS_Subset, FS_CardinalityType
<1>3. old \subseteq s.wrote /\ new \subseteq s.wrote /\ old \cap new = {}
    OBVIOUS
<1>4. g \in Injection(over, old) /\ g \in Surjection(over, old)
    BY <1>1 DEF Injection, Surjection, IsInjective
<1> HIDE DEF old, new, g
<1>5. IsFiniteSet(old) /\ IsFiniteSet(new)
    BY <1>2, <1>3, FS_Subset
<1>6. Cardinality(over) = Cardinality(old)
    BY <1>4, <1>5, FS_Injection
<1>7. /\ Cardinality(old) \in Nat /\ Cardinality(new) \in Nat
      /\ Cardinality(old \cup new) = Cardinality(old) + Cardinality(new)
    <2>1. Cardinality(old \cap new) = 0
        BY <1>3, FS_EmptySet
    <2>2. Cardinality(old) \in Nat /\ Cardinality(new) \in Nat
        BY <1>5, FS_CardinalityType
    <2>3. Cardinality(old \cup new)
             = Cardinality(old) + Cardinality(new) - Cardinality(old \cap new)
        BY <1>5, FS_Union
    <2> QED
        BY <2>1, <2>2, <2>3
<1>8. old \cup new \subseteq s.wrote
    BY <1>3
<1>9. Cardinality(old \cup new) <= Cardinality(s.wrote)
    BY <1>2, <1>8, FS_Subset
<1>10. ASSUME Cardinality(old) + Cardinality(new) = Cardinality(s.prepared)
       PROVE  s.wrote = s.prepared
    <2>1. Cardinality(s.wrote) <= Cardinality(s.prepared)
        BY <1>1, FS_Subset
    <2>2. Cardinality(s.wrote) = Cardinality(s.prepared)
        BY <1>2, <1>7, <1>9, <1>10, <2>1
    <2> QED
        BY <1>1, <2>2, FS_Subset
<1> QED
    BY <1>1, <1>6, <1>7, <1>9, <1>10

LEMMA InsertedIsPlanned ==
    ASSUME NEW s \in StoredBatches, NEW f, Planned(s, f),
           NEW p \in s.insert, NEW e \in StoredBatches,
           e.insert = s.insert \ {p}, e.over = s.over,
           e.prepared = s.prepared, e.check = s.check,
           \/ e.imported = s.imported /\ e.wrote = s.wrote
           \/ e.imported = s.imported + 1 /\ e.wrote = s.wrote \cup {p}
    PROVE  Planned(e, f)
<1> DEFINE New(w) == {q \in w : \A n \in s.check : f[n] # q}
<1>1. /\ p \in s.prepared /\ p \notin s.wrote /\ \A n \in s.check : f[n] # p
      /\ IsFiniteSet(s.prepared) /\ s.wrote \subseteq s.prepared
      /\ s.imported = Cardinality(New(s.wrote))
    BY DEF Planned
<1>2. e.imported = Cardinality(New(e.wrote))
    <2>1. CASE e.imported = s.imported /\ e.wrote = s.wrote
        BY <1>1, <2>1
    <2>2. CASE e.imported = s.imported + 1 /\ e.wrote = s.wrote \cup {p}
        <3>1. New(e.wrote) = New(s.wrote) \cup {p} /\ p \notin New(s.wrote)
            BY <1>1, <2>2
        <3>2. New(s.wrote) \subseteq s.prepared
            BY <1>1
        <3> HIDE DEF New
        <3>3. IsFiniteSet(New(s.wrote))
            BY <1>1, <3>2, FS_Subset
        <3>4. Cardinality(New(s.wrote) \cup {p})
                 = Cardinality(New(s.wrote)) + 1
            BY <3>1, <3>3, FS_AddElement
        <3> QED
            BY <1>1, <2>2, <3>1, <3>4
    <2> QED
        BY <2>1, <2>2
<1>3. /\ e.wrote \subseteq s.prepared
      /\ \A q \in e.insert : q \in s.insert /\ q \notin e.wrote
    BY <1>1 DEF Planned
<1> QED
    BY <1>2, <1>3 DEF Planned

LEMMA OverwrittenIsPlanned ==
    ASSUME NEW s \in StoredBatches, NEW f, Planned(s, f),
           NEW o \in s.over, NEW e \in StoredBatches,
           s.insert = {}, e.insert = {}, e.over = s.over \ {o},
           e.prepared = s.prepared, e.check = s.check,
           e.imported = s.imported,
           e.wrote = s.wrote \/ e.wrote = s.wrote \cup {o.payload}
    PROVE  Planned(e, f)
<1>1. /\ o.item \in s.check /\ f[o.item] = o.payload
      /\ f \in [s.check -> s.prepared] /\ s.wrote \subseteq s.prepared
    BY DEF Planned, Injection
<1>2. {q \in e.wrote : \A n \in s.check : f[n] # q}
         = {q \in s.wrote : \A n \in s.check : f[n] # q}
    BY <1>1
<1>3. e.wrote \subseteq s.prepared
    BY <1>1
<1>4. /\ IsFiniteSet(s.prepared) /\ f \in Injection(s.check, s.prepared)
      /\ \A q \in s.over : q.item \in s.check /\ f[q.item] = q.payload
    BY DEF Planned
<1>5. e.imported = Cardinality({q \in e.wrote : \A n \in e.check : f[n] # q})
    <2> DEFINE new == {q \in s.wrote : \A n \in s.check : f[n] # q}
    <2>1. s.imported = Cardinality(new)
        BY DEF Planned
    <2>2. {q \in e.wrote : \A n \in e.check : f[n] # q} = new
        BY <1>2
    <2> HIDE DEF new
    <2> QED
        BY <2>1, <2>2
<1> QED
    BY <1>3, <1>4, <1>5 DEF Planned

(* The items keep their batches.                                           *)
LEMMA CountsStay ==
    ASSUME CountInvariant, UNCHANGED batch, DOMAIN item' = DOMAIN item,
           \A n \in DOMAIN item : item'[n].batch = item[n].batch
    PROVE  CountInvariant'
<1>1. ASSUME NEW b \in Importers, NEW f, Carried(b, f)
      PROVE  Carried(b, f)'
    BY <1>1 DEF Carried
<1> QED
    BY <1>1 DEF CountInvariant, ImportIsHonest

(* A batch goes on, and items may come to carry it.                        *)
LEMMA CountGoesOn ==
    ASSUME CountInvariant, NEW b \in Importers, NEW e,
           batch \in [Importers -> {Unused} \cup PreparedBatches
                                            \cup StoredBatches],
           batch' = [batch EXCEPT ![b] = e], e.step # "idle",
           DOMAIN item \subseteq DOMAIN item',
           \A n \in DOMAIN item' :
              \/ item'[n].batch = b
              \/ n \in DOMAIN item /\ item'[n].batch = item[n].batch,
           e.step = "prepared" =>
              IsFiniteSet(e.rows) /\ batch[b] = Unused /\ UNCHANGED item,
           e.step = "PROCESSING" =>
              \E f : /\ Planned(e, f) /\ e.check \subseteq DOMAIN item'
                     /\ \A n \in e.check :
                           item'[n].batch = b => f[n] \in e.wrote,
           e.step \in {"COMPLETED", "PARTIAL"} =>
              /\ e.imported + e.overwritten <= Cardinality(e.wrote)
              /\ e.step = "COMPLETED" => e.wrote = e.prepared
    PROVE  CountInvariant'
<1>1. batch'[b] = e /\ \A c \in Importers \ {b} : batch'[c] = batch[c]
    OBVIOUS
<1>2. ASSUME NEW n \in DOMAIN item'
      PROVE  batch'[item'[n].batch].step \notin {"idle", "prepared"}
    <2>1. CASE e.step = "prepared"
        <3>1. /\ item' = item /\ batch[b].step = "idle"
              /\ batch[item[n].batch].step \notin {"idle", "prepared"}
            BY <2>1 DEF CountInvariant, Unused
        <3>2. item[n].batch # b
            BY <3>1
        <3>3. batch'[item[n].batch] = batch[item[n].batch]
            BY <3>2
        <3> QED
            BY <3>1, <3>3
    <2>2. CASE e.step # "prepared" /\ item'[n].batch = b
        BY <1>1, <2>2
    <2>3. CASE item'[n].batch # b
        <3>1. n \in DOMAIN item /\ item'[n].batch = item[n].batch
            BY <2>3
        <3>2. batch'[item[n].batch] = batch[item[n].batch]
            BY <2>3, <3>1
        <3> QED
            BY <3>1, <3>2 DEF CountInvariant
    <2> QED
        BY <2>1, <2>2, <2>3
<1>3. ASSUME NEW c \in Importers, batch'[c].step = "prepared"
      PROVE  IsFiniteSet(batch'[c].rows)
    BY <1>1, <1>3 DEF CountInvariant
<1>4. ASSUME NEW c \in Importers, batch'[c].step = "PROCESSING"
      PROVE  \E f : Planned(batch'[c], f) /\ Carried(c, f)'
    <2>1. CASE c = b
        BY <1>1, <1>4, <2>1 DEF Carried
    <2>2. CASE c # b
        <3>1. PICK f : Planned(batch[c], f) /\ Carried(c, f)
            BY <1>1, <1>4, <2>2 DEF CountInvariant
        <3>2. Carried(c, f)'
            BY <1>1, <2>2, <3>1 DEF Carried
        <3> QED
            BY <1>1, <2>2, <3>1, <3>2
    <2> QED
        BY <2>1, <2>2
<1>5. ImportIsHonest'
    BY <1>1 DEF CountInvariant, ImportIsHonest
<1> QED
    BY <1>2, <1>3, <1>4, <1>5 DEF CountInvariant

LEMMA PrepareCounts ==
    ASSUME CatalogInvariant, CountInvariant, NEW b \in Importers, Prepare(b)
    PROVE  CountInvariant'
<1>1. PICK rows \in (SUBSET Rows) \ {{}}, overwrite \in BOOLEAN :
          batch' = [batch EXCEPT ![b] =
                      [step |-> "prepared", overwrite |-> overwrite,
                       fields |-> fields,
                       rows |-> {Payload(r) : r \in rows}]]
    BY DEF Prepare
<1>2. /\ batch[b] = Unused /\ UNCHANGED item
      /\ batch \in [Importers -> {Unused} \cup PreparedBatches
                                          \cup StoredBatches]
    BY DEF Prepare, CatalogInvariant, CatalogTyped
<1>3. IsFiniteSet({Payload(r) : r \in rows})
    <2> DEFINE P == {Payload(r) : r \in rows}
               g == [r \in rows |-> Payload(r)]
    <2>1. IsFiniteSet(rows)
        BY CatalogConstants, FS_Subset
    <2>2. g \in Surjection(rows, P)
        BY DEF Surjection
    <2> HIDE DEF P, g
    <2> QED
        BY <2>1, <2>2, FS_Surjection DEF P
<1>4. PICK e : /\ batch' = [batch EXCEPT ![b] = e]
               /\ e.step = "prepared" /\ IsFiniteSet(e.rows)
    <2> DEFINE P == {Payload(r) : r \in rows}
               e == [step |-> "prepared", overwrite |-> overwrite,
                     fields |-> fields, rows |-> P]
    <2>1. e.step = "prepared" /\ e.rows = P
        OBVIOUS
    <2>2. batch' = [batch EXCEPT ![b] = e]
        BY <1>1
    <2> HIDE DEF e
    <2> QED
        BY <1>3, <2>1, <2>2
<1> QED
    BY <1>2, <1>4, CountGoesOn

LEMMA MatchCounts ==
    ASSUME CatalogInvariant, CountInvariant, NEW b \in Importers, Match(b)
    PROVE  CountInvariant'
<1> DEFINE fresh == {p \in batch[b].rows : StockOf(p) = {}}
           over == IF batch[b].overwrite
                   THEN {n \in InStock : /\ item[n].status = "AVAILABLE"
                                         /\ item[n].payload \in batch[b].rows}
                   ELSE {}
           O == {[item |-> n, payload |-> item[n].payload] : n \in over}
           old == {item[n].payload : n \in over}
           f == [n \in over |-> item[n].payload]
<1>1. /\ batch[b].step = "prepared" /\ UNCHANGED item
      /\ batch' = [batch EXCEPT ![b] =
            [step |-> "PROCESSING", fields |-> batch[b].fields,
             insert |-> fresh, over |-> O, prepared |-> fresh \cup old,
             check |-> over, imported |-> 0, overwritten |-> 0,
             wrote |-> {}]]
    BY DEF Match
<1>2. /\ batch \in [Importers -> {Unused} \cup PreparedBatches
                                          \cup StoredBatches]
      /\ item \in Seq(Items) /\ DOMAIN item = 1..Len(item)
      /\ \A m, n \in InStock : m # n => item[m].payload # item[n].payload
    BY ItemsAre DEF CatalogInvariant, CatalogTyped, StockIsApart
<1>3. over \subseteq InStock /\ over \subseteq DOMAIN item
    BY DEF InStock
<1>4. IsFiniteSet(over) /\ IsFiniteSet(fresh)
    <2>1. IsFiniteSet(batch[b].rows)
        BY <1>1 DEF CountInvariant
    <2>2. IsFiniteSet(InStock)
        BY <1>2, StockIsFinite
    <2>3. fresh \subseteq batch[b].rows
        OBVIOUS
    <2> HIDE DEF over, fresh
    <2> QED
        BY <1>3, <2>1, <2>2, <2>3, FS_Subset
<1>5. \A p \in fresh : \A n \in over : f[n] # p
    BY <1>3 DEF StockOf
<1> HIDE DEF over, fresh
<1>6. f \in Surjection(over, old) /\ f \in Injection(over, old)
    BY <1>2, <1>3 DEF Surjection, Injection, IsInjective
<1>7. \A o \in O : o.item \in over /\ f[o.item] = o.payload
    OBVIOUS
<1> HIDE DEF O, old, f
<1>8. IsFiniteSet(fresh \cup old)
    <2>1. IsFiniteSet(old)
        BY <1>4, <1>6, FS_Surjection
    <2> QED
        BY <1>4, <2>1, FS_Union
<1>9. f \in Injection(over, fresh \cup old)
    BY <1>6 DEF Injection, IsInjective
<1>10. PICK e :
          /\ batch' = [batch EXCEPT ![b] = e] /\ e.step = "PROCESSING"
          /\ e.insert = fresh /\ e.over = O /\ e.prepared = fresh \cup old
          /\ e.check = over /\ e.imported = 0 /\ e.wrote = {}
    <2> DEFINE e == [step |-> "PROCESSING", fields |-> batch[b].fields,
                     insert |-> fresh, over |-> O,
                     prepared |-> fresh \cup old, check |-> over,
                     imported |-> 0, overwritten |-> 0, wrote |-> {}]
    <2>1. /\ e.step = "PROCESSING" /\ e.insert = fresh /\ e.over = O
          /\ e.prepared = fresh \cup old /\ e.check = over
          /\ e.imported = 0 /\ e.wrote = {}
        OBVIOUS
    <2>2. batch' = [batch EXCEPT ![b] = e]
        BY <1>1
    <2> HIDE DEF e
    <2> QED
        BY <2>1, <2>2
<1>11. e.imported = Cardinality({p \in e.wrote : \A n \in e.check : f[n] # p})
    BY <1>10, FS_EmptySet
<1>12. Planned(e, f)
    BY <1>5, <1>7, <1>8, <1>9, <1>10, <1>11 DEF Planned
<1>13. \A n \in DOMAIN item : item[n].batch # b
    BY <1>1 DEF CountInvariant
<1> QED
    BY <1>1, <1>2, <1>3, <1>10, <1>12, <1>13, CountGoesOn

LEMMA InsertRowCounts ==
    ASSUME CatalogInvariant, CountInvariant, NEW b \in Importers, InsertRow(b)
    PROVE  CountInvariant'
<1>1. batch[b].step = "PROCESSING"
    BY DEF InsertRow
<1>2. PICK p \in batch[b].insert :
          IF StockOf(p) = {}
          THEN /\ item' = Append(item,
                    [payload |-> p, status |-> "AVAILABLE", batch |-> b])
               /\ batch' = [batch EXCEPT ![b].insert = @ \ {p},
                              ![b].imported = @ + 1, ![b].wrote = @ \cup {p}]
          ELSE UNCHANGED item
               /\ batch' = [batch EXCEPT ![b].insert = @ \ {p}]
    BY DEF InsertRow
<1>3. /\ batch[b] \in StoredBatches /\ p \in Payloads
      /\ batch \in [Importers -> {Unused} \cup PreparedBatches
                                          \cup StoredBatches]
      /\ item \in Seq(Items) /\ Len(item) \in Nat /\ DOMAIN item = 1..Len(item)
    BY <1>1, StoredBatchIs, ItemsAre
    DEF CatalogInvariant, CatalogTyped, StoredBatches
<1>4. PICK f : Planned(batch[b], f) /\ Carried(b, f)
    BY <1>1 DEF CountInvariant
<1>5. PICK e \in StoredBatches :
         /\ batch' = [batch EXCEPT ![b] = e] /\ e.step = "PROCESSING"
         /\ e.insert = batch[b].insert \ {p} /\ e.over = batch[b].over
         /\ e.prepared = batch[b].prepared /\ e.check = batch[b].check
         /\ \/ e.imported = batch[b].imported /\ e.wrote = batch[b].wrote
            \/ /\ e.imported = batch[b].imported + 1
               /\ e.wrote = batch[b].wrote \cup {p}
    <2>1. CASE StockOf(p) # {}
        <3>1. PICK e \in StoredBatches :
                 e = [batch[b] EXCEPT !.insert = @ \ {p}]
            BY <1>3 DEF StoredBatches
        <3>2. batch' = [batch EXCEPT ![b] = e]
            BY <1>2, <2>1, <3>1
        <3>3. /\ e.step = "PROCESSING" /\ e.insert = batch[b].insert \ {p}
              /\ e.over = batch[b].over /\ e.prepared = batch[b].prepared
              /\ e.check = batch[b].check /\ e.wrote = batch[b].wrote
              /\ e.imported = batch[b].imported
            BY <1>1, <1>3, <3>1 DEF StoredBatches
        <3> QED
            BY <3>2, <3>3
    <2>2. CASE StockOf(p) = {}
        <3> DEFINE left == batch[b].insert \ {p}
                   count == batch[b].imported + 1
                   written == batch[b].wrote \cup {p}
                   now == [batch[b] EXCEPT !.insert = left,
                              !.imported = count, !.wrote = written]
        <3>1. /\ left \in SUBSET Payloads /\ written \in SUBSET Payloads
              /\ count \in Nat
            BY <1>3 DEF StoredBatches
        <3>2. batch' = [batch EXCEPT ![b] = now]
            BY <1>2, <2>2
        <3> HIDE DEF left, count, written
        <3>3. /\ now \in StoredBatches /\ now.step = "PROCESSING"
              /\ now.insert = left /\ now.over = batch[b].over
              /\ now.prepared = batch[b].prepared
              /\ now.check = batch[b].check /\ now.wrote = written
              /\ now.imported = count
            BY <1>1, <1>3, <3>1 DEF StoredBatches
        <3> HIDE DEF now
        <3> QED
            BY <3>2, <3>3 DEF left, count, written
    <2> QED
        BY <2>1, <2>2
<1>6. Planned(e, f)
    BY <1>3, <1>4, <1>5, InsertedIsPlanned
<1>7. /\ DOMAIN item \subseteq DOMAIN item'
      /\ \A n \in DOMAIN item : item'[n].batch = item[n].batch
      /\ \A n \in DOMAIN item' \ DOMAIN item : item'[n].batch = b
    <2>1. CASE UNCHANGED item
        BY <2>1
    <2>2. CASE ~UNCHANGED item
        <3>1. PICK i : item' = Append(item, i) /\ i.batch = b
            BY <1>2, <2>2
        <3>2. /\ DOMAIN item' = 1..(Len(item) + 1)
              /\ item'[Len(item) + 1] = i
              /\ \A n \in 1..Len(item) : item'[n] = item[n]
            BY <1>3, <3>1
        <3> QED
            BY <1>3, <3>1, <3>2
    <2> QED
        BY <2>1, <2>2
<1>8. e.check \subseteq DOMAIN item
      /\ \A n \in e.check : item[n].batch = b => f[n] \in e.wrote
    BY <1>4, <1>5 DEF Carried
<1> QED
    BY <1>3, <1>5, <1>6, <1>7, <1>8, CountGoesOn

LEMMA OverwriteRowCounts ==
    ASSUME CatalogInvariant, CountInvariant, NEW b \in Importers,
           OverwriteRow(b)
    PROVE  CountInvariant'
<1>1. batch[b].step = "PROCESSING" /\ batch[b].insert = {}
    BY DEF OverwriteRow
<1>2. PICK o \in batch[b].over :
          IF Overwritable(o)
          THEN /\ item' = [item EXCEPT ![o.item].batch = b]
               /\ batch' = [batch EXCEPT ![b].over = @ \ {o},
                                         ![b].wrote = @ \cup {o.payload}]
          ELSE UNCHANGED item
               /\ batch' = [batch EXCEPT ![b].over = @ \ {o}]
    BY DEF OverwriteRow
<1>3. /\ batch[b] \in StoredBatches /\ o.payload \in Payloads
      /\ batch \in [Importers -> {Unused} \cup PreparedBatches
                                          \cup StoredBatches]
      /\ item \in [1..Len(item) -> Items] /\ DOMAIN item = 1..Len(item)
    BY <1>1, StoredBatchIs, ItemsAre
    DEF CatalogInvariant, CatalogTyped, StoredBatches
<1>4. PICK f : Planned(batch[b], f) /\ Carried(b, f)
    BY <1>1 DEF CountInvariant
<1>5. /\ o.item \in batch[b].check /\ f[o.item] = o.payload
      /\ batch[b].check \subseteq DOMAIN item
      /\ \A m, n \in batch[b].check : f[m] = f[n] => m = n
    BY <1>4 DEF Planned, Carried, Injection, IsInjective
<1>6. PICK e \in StoredBatches :
         /\ batch' = [batch EXCEPT ![b] = e] /\ e.step = "PROCESSING"
         /\ e.insert = {} /\ e.over = batch[b].over \ {o}
         /\ e.prepared = batch[b].prepared /\ e.check = batch[b].check
         /\ e.imported = batch[b].imported
         /\ e.wrote = IF Overwritable(o) THEN batch[b].wrote \cup {o.payload}
                                         ELSE batch[b].wrote
    <2>1. CASE ~Overwritable(o)
        <3>1. PICK e \in StoredBatches :
                 e = [batch[b] EXCEPT !.over = @ \ {o}]
            BY <1>3 DEF StoredBatches
        <3>2. batch' = [batch EXCEPT ![b] = e]
            BY <1>2, <2>1, <3>1
        <3>3. /\ e.step = "PROCESSING" /\ e.insert = {}
              /\ e.over = batch[b].over \ {o}
              /\ e.prepared = batch[b].prepared
              /\ e.check = batch[b].check /\ e.wrote = batch[b].wrote
              /\ e.imported = batch[b].imported
            BY <1>1, <1>3, <3>1 DEF StoredBatches
        <3> QED
            BY <2>1, <3>2, <3>3
    <2>2. CASE Overwritable(o)
        <3>1. PICK e \in StoredBatches :
                 e = [batch[b] EXCEPT !.over = @ \ {o},
                                      !.wrote = @ \cup {o.payload}]
            BY <1>3 DEF StoredBatches
        <3>2. batch' = [batch EXCEPT ![b] = e]
            BY <1>2, <2>2, <3>1
        <3>3. /\ e.step = "PROCESSING" /\ e.insert = {}
              /\ e.over = batch[b].over \ {o}
              /\ e.prepared = batch[b].prepared
              /\ e.check = batch[b].check
              /\ e.wrote = batch[b].wrote \cup {o.payload}
              /\ e.imported = batch[b].imported
            BY <1>1, <1>3, <3>1 DEF StoredBatches
        <3> QED
            BY <2>2, <3>2, <3>3
    <2> QED
        BY <2>1, <2>2
<1>7. Planned(e, f)
    BY <1>1, <1>3, <1>4, <1>6, OverwrittenIsPlanned
<1>8. /\ DOMAIN item' = DOMAIN item
      /\ \A n \in DOMAIN item :
            \/ item'[n].batch = item[n].batch
            \/ n = o.item /\ item'[n].batch = b /\ Overwritable(o)
    <2>1. CASE Overwritable(o)
        <3>1. PICK i : i = [item[o.item] EXCEPT !.batch = b]
            OBVIOUS
        <3>2. i.batch = b
            BY <1>3, <1>5, <3>1 DEF Items
        <3>3. item' = [item EXCEPT ![o.item] = i]
            BY <1>2, <2>1, <3>1
        <3> QED
            BY <1>3, <2>1, <3>2, <3>3
    <2>2. CASE ~Overwritable(o)
        BY <1>2, <2>2
    <2> QED
        BY <2>1, <2>2
<1>9. \A n \in e.check : item'[n].batch = b => f[n] \in e.wrote
    BY <1>4, <1>5, <1>6, <1>8 DEF Carried
<1> QED
    BY <1>3, <1>5, <1>6, <1>7, <1>8, <1>9, CountGoesOn

LEMMA ReportCounts ==
    ASSUME CatalogInvariant, CountInvariant, NEW b \in Importers, Report(b)
    PROVE  CountInvariant'
<1> DEFINE over == Cardinality(Overwritten(b))
           to == IF batch[b].imported + over = Cardinality(batch[b].prepared)
                 THEN "COMPLETED" ELSE "PARTIAL"
<1>1. /\ batch[b].step = "PROCESSING" /\ UNCHANGED item
      /\ batch' = [batch EXCEPT ![b].overwritten = over, ![b].step = to]
    BY DEF Report
<1>2. /\ batch[b] \in StoredBatches
      /\ batch \in [Importers -> {Unused} \cup PreparedBatches
                                          \cup StoredBatches]
    BY <1>1, StoredBatchIs DEF CatalogInvariant, CatalogTyped
<1>3. PICK f : Planned(batch[b], f) /\ Carried(b, f)
    BY <1>1 DEF CountInvariant
<1>4. /\ Overwritten(b) \subseteq batch[b].check
      /\ \A n \in Overwritten(b) : f[n] \in batch[b].wrote
    BY <1>3 DEF Overwritten, Carried
<1>5. /\ batch[b].imported + over <= Cardinality(batch[b].wrote)
      /\ batch[b].imported + over = Cardinality(batch[b].prepared)
            => batch[b].wrote = batch[b].prepared
    BY <1>2, <1>3, <1>4, ReportedIsWritten
<1>6. /\ to \in {"COMPLETED", "PARTIAL"}
      /\ to = "COMPLETED" => batch[b].wrote = batch[b].prepared
    BY <1>5
<1> HIDE DEF over, to
<1>7. PICK e : e = [batch[b] EXCEPT !.overwritten = over, !.step = to]
    OBVIOUS
<1>8. /\ batch' = [batch EXCEPT ![b] = e] /\ e.step = to
      /\ e.imported = batch[b].imported /\ e.overwritten = over
      /\ e.wrote = batch[b].wrote /\ e.prepared = batch[b].prepared
    BY <1>1, <1>2, <1>7 DEF StoredBatches
<1> QED
    BY <1>1, <1>2, <1>5, <1>6, <1>8, CountGoesOn

(* What is sold, removed, renamed or archived carries its batch still.     *)
LEMMA OthersCount ==
    ASSUME CatalogInvariant, CountInvariant,
           \/ Save \/ BeginArchive \/ Archive
           \/ \E b \in Importers : RemoveBatch(b)
           \/ \E n \in DOMAIN item :
                 Reserve(n) \/ Sell(n) \/ Release(n) \/ RemoveItem(n)
           \/ UNCHANGED catalogVars
    PROVE  CountInvariant'
<1>0. item \in [1..Len(item) -> Items] /\ DOMAIN item = 1..Len(item)
    BY ItemsAre DEF CatalogInvariant, CatalogTyped
<1>1. CASE Save
    <2>1. PICK f \in FieldLists :
              /\ InStock # {} => Compatible(f)
              /\ item' = [n \in DOMAIN item |->
                            IF n \in InStock
                            THEN [item[n] EXCEPT !.payload = Renamed(@, f)]
                            ELSE item[n]]
        BY <1>1 DEF Save
    <2>2. \A n \in 1..Len(item) : item'[n].batch = item[n].batch
        BY <2>1, SavedItems
    <2> QED
        BY <1>0, <1>1, <2>1, <2>2, CountsStay DEF Save
<1>2. CASE BeginArchive \/ Archive \/ UNCHANGED catalogVars
    BY <1>2, CountsStay DEF BeginArchive, Archive, catalogVars
<1>3. CASE \E b \in Importers : RemoveBatch(b)
    <2>1. PICK b \in Importers :
             item' = [n \in DOMAIN item |->
                        IF item[n].batch = b /\ item[n].status = "AVAILABLE"
                        THEN [item[n] EXCEPT !.status = "DELETED"]
                        ELSE item[n]]
        BY <1>3 DEF RemoveBatch
    <2>2. ASSUME NEW n \in DOMAIN item
          PROVE  item'[n].batch = item[n].batch
        <3>1. item[n] \in Items
            BY <1>0
        <3>2. \/ item'[n] = item[n]
              \/ item'[n] = [item[n] EXCEPT !.status = "DELETED"]
            BY <2>1
        <3> QED
            BY <3>1, <3>2 DEF Items
    <2> QED
        BY <1>3, <2>1, <2>2, CountsStay DEF RemoveBatch
<1>4. CASE \E n \in DOMAIN item :
              Reserve(n) \/ Sell(n) \/ Release(n) \/ RemoveItem(n)
    <2>1. PICK n \in DOMAIN item,
               to \in {"RESERVED", "SOLD", "AVAILABLE", "DELETED"} :
             item' = [item EXCEPT ![n].status = to] /\ UNCHANGED batch
        BY <1>4 DEF Reserve, Sell, Release, RemoveItem, Becomes
    <2>2. PICK i : i = [item[n] EXCEPT !.status = to]
        OBVIOUS
    <2>3. i.batch = item[n].batch
        BY <1>0, <2>2 DEF Items
    <2>4. item' = [item EXCEPT ![n] = i]
        BY <2>1, <2>2
    <2> QED
        BY <1>0, <2>1, <2>3, <2>4, CountsStay
<1> QED
    BY <1>1, <1>2, <1>3, <1>4

LEMMA CatalogKeepsCount ==
    ASSUME CatalogInvariant, CountInvariant, [CatalogNext]_catalogVars
    PROVE  CountInvariant'
BY PrepareCounts, MatchCounts, InsertRowCounts, OverwriteRowCounts,
   ReportCounts, OthersCount DEF CatalogNext

LEMMA CatalogInitCounts == CatalogInit => CountInvariant
<1> SUFFICES ASSUME CatalogInit PROVE CountInvariant
    OBVIOUS
<1>1. /\ \A b \in Importers : batch[b].step = "idle"
      /\ DOMAIN item = {}
    BY DEF CatalogInit, Unused
<1> QED
    BY <1>1 DEF CountInvariant, ImportIsHonest

(* The report of an import claims no more than was written, and COMPLETED  *)
(* says that all was, for any number of imports, edits, sales and removals *)
(* meanwhile (inventory-import.service.ts:122-137).                        *)
THEOREM ImportsAreHonest == CatalogSpec => []ImportIsHonest
<1>1. CountInvariant => ImportIsHonest
    BY DEF CountInvariant
<1> QED
    BY <1>1, CatalogInitInvariant, CatalogKeepsInvariant, CatalogInitCounts,
       CatalogKeepsCount, PTL DEF CatalogSpec

-----------------------------------------------------------------------------
(* Complaints and the messages about them.                                 *)

LEMMA AtMostOne ==
    ASSUME NEW S, \A x, y \in S : x = y
    PROVE  IsFiniteSet(S) /\ Cardinality(S) \in Nat /\ Cardinality(S) <= 1
<1>1. CASE S = {}
  BY <1>1, FS_EmptySet
<1>2. CASE S # {}
  <2>1. PICK x \in S : TRUE
    BY <1>2
  <2>2. S = {x}
    BY <2>1
  <2>. QED  BY <2>2, FS_Singleton
<1>. QED  BY <1>1, <1>2

(* Complaints.                                                             *)

(* One complaint at most is open, and those that are shown are stored.     *)
ComplaintInvariant ==
    /\ complaint \in [Reports -> ReportStatuses]
    /\ desk \in [Desks -> [of: {Nothing} \cup Messages, seen: ReportStatuses,
          step: {"idle", "stored", "sending", "sent", "refused"}]]
    /\ \A r, s \in ActiveReports : r = s
    /\ opening \subseteq {r \in Reports : complaint[r] # "NONE"}

LEMMA ReportsBegin == SupportInit => ComplaintInvariant
BY DEF SupportInit, ComplaintInvariant, ReportStatuses, Closed, ActiveReports,
       Open, AtDesk

LEMMA ReportsKept ==
    ASSUME ComplaintInvariant, [SupportNext]_supportVars
    PROVE  ComplaintInvariant'
<1>. USE DEF ComplaintInvariant, ActiveReports, Open, Closed, ReportStatuses
<1>1. CASE WarrantyEnds
  BY <1>1 DEF WarrantyEnds
<1>2. ASSUME NEW r \in Reports,
             FileReport(r) \/ StoreReport(r) \/ EnsureOpening(r) \/ Decide(r)
      PROVE  ComplaintInvariant'
  <2>1. CASE FileReport(r) \/ EnsureOpening(r)
    BY <1>2, <2>1 DEF FileReport, EnsureOpening
  <2>2. CASE StoreReport(r)
    BY <1>2, <2>2 DEF StoreReport, IndexFree
  <2>3. CASE Decide(r)
    BY <1>2, <2>3 DEF Decide, MayBecome
  <2>. QED  BY <1>2, <2>1, <2>2, <2>3
<1>3. ASSUME NEW d \in Desks, NEW m \in Messages, Compose(d, m)
      PROVE  ComplaintInvariant'
  <2>1. SeenStatus(m) \in ReportStatuses
    BY SupportConstants DEF SeenStatus
  <2>. QED  BY <1>3, <2>1 DEF Compose, AboutMessages
<1>4. ASSUME NEW d \in Desks,
             ClaimMessage(d) \/ SendMessage(d) \/ DeskDies(d)
      PROVE  ComplaintInvariant'
  BY <1>4 DEF ClaimMessage, SendMessage, DeskDies, Goes, AtDesk, AboutMessages
<1>5. ASSUME NEW d \in Desks, SettleMessage(d) PROVE ComplaintInvariant'
  <2>1. desk' = [desk EXCEPT ![d] = AtDesk] /\ UNCHANGED opening
    BY <1>5 DEF SettleMessage, AboutMessages
  <2>2. CASE UNCHANGED complaint
    BY <2>1, <2>2 DEF AtDesk
  <2>3. CASE /\ TakesUp(d)
             /\ complaint' = [complaint EXCEPT ![About[desk[d].of]]
                                = "REVIEWING"]
    <3>1. /\ About[desk[d].of] \in Reports
          /\ complaint[About[desk[d].of]] = "PENDING"
      BY <2>3, SupportConstants DEF TakesUp, TakesUpAsRead
    <3>. QED  BY <2>1, <2>3, <3>1 DEF AtDesk
  <2>. QED  BY <1>5, <2>2, <2>3 DEF SettleMessage
<1>6. ASSUME NEW m \in Messages, ClaimAges(m) PROVE ComplaintInvariant'
  BY <1>6 DEF ClaimAges, AboutMessages
<1>7. CASE UNCHANGED supportVars
  BY <1>7 DEF supportVars
<1>. QED  BY <1>1, <1>2, <1>3, <1>4, <1>5, <1>6, <1>7 DEF SupportNext

(* An order has one open complaint at most, through any race of customers, *)
(* administrators and answers on their way (warranty.service.ts:212-216).  *)
THEOREM OneComplaint == SupportSpec => []OneActiveReport
<1>1. ComplaintInvariant => OneActiveReport
  BY AtMostOne DEF ComplaintInvariant, OneActiveReport
<1>. QED  BY <1>1, ReportsBegin, ReportsKept, PTL DEF SupportSpec

-----------------------------------------------------------------------------
(* Messages to the customer.                                               *)

Serves(d, m) ==
    desk[d].of = m /\ desk[d].step \in {"sending", "sent", "refused"}
Confirms(d, m) == Serves(d, m) /\ desk[d].step = "sent"

(* While a message is being sent one request holds it, and until that      *)
(* request knows that it was sent every send is covered by a stop.         *)
MessageKept(m) ==
    /\ message[m].status \in {"NONE", "PENDING", "FAILED"} =>
          /\ \A d \in Desks : ~Serves(d, m)
          /\ told[m] <= stops[m]
    /\ message[m].status = "SENDING" =>
          /\ \A d, e \in Desks : Serves(d, m) /\ Serves(e, m) => d = e
          /\ message[m].aged => \A d \in Desks : ~Serves(d, m)
          /\ (\A d \in Desks : ~Confirms(d, m)) => told[m] <= stops[m]
          /\ (\E d \in Desks : Confirms(d, m)) =>
                told[m] > 0 /\ told[m] <= 1 + stops[m]
    /\ message[m].status = "SENT" =>
          /\ \A d \in Desks : Serves(d, m) => Confirms(d, m)
          /\ told[m] > 0 /\ told[m] <= 1 + stops[m]

MessageTypes ==
    /\ message \in [Messages -> [status: MessageStatuses, aged: BOOLEAN]]
    /\ told \in [Messages -> Nat] /\ stops \in [Messages -> Nat]
    /\ desk \in [Desks -> [of: {Nothing} \cup Messages, seen: ReportStatuses,
          step: {"idle", "stored", "sending", "sent", "refused"}]]
    /\ \A d \in Desks :
          \/ desk[d] = AtDesk
          \/ desk[d].step # "idle" /\ desk[d].of \in Messages

MessageInvariant ==
    /\ ComplaintInvariant /\ MessageTypes
    /\ \A m \in Messages : MessageKept(m)

DeskSteps == {"idle", "stored", "sending", "sent", "refused"}

LEMMA MarkTyped ==
    ASSUME message \in [Messages -> [status: MessageStatuses, aged: BOOLEAN]],
           NEW m \in Messages, NEW status \in MessageStatuses, Mark(m, status)
    PROVE  message' \in [Messages -> [status: MessageStatuses, aged: BOOLEAN]]
BY DEF Mark

LEMMA GoesTyped ==
    ASSUME desk \in [Desks -> [of: {Nothing} \cup Messages,
                               seen: ReportStatuses, step: DeskSteps]],
           NEW d \in Desks, NEW step \in DeskSteps, Goes(d, step)
    PROVE  desk' \in [Desks -> [of: {Nothing} \cup Messages,
                                seen: ReportStatuses, step: DeskSteps]]
BY DEF Goes, DeskSteps

LEMMA MessagesBegin == SupportInit => MessageInvariant
<1>. SUFFICES ASSUME SupportInit PROVE MessageInvariant
  OBVIOUS
<1>1. MessageTypes
  BY DEF SupportInit, MessageTypes, MessageStatuses, ReportStatuses, AtDesk
<1>2. \A m \in Messages : MessageKept(m)
  BY DEF SupportInit, MessageKept, Serves, Confirms, AtDesk
<1>. QED  BY <1>1, <1>2, ReportsBegin DEF MessageInvariant

(* A message is not disturbed by requests for others.                      *)
LEMMA MessageUndisturbed ==
    ASSUME NEW m \in Messages, MessageKept(m), message'[m] = message[m],
           told'[m] = told[m], stops'[m] = stops[m],
           \A d \in Desks : \/ desk'[d] = desk[d]
                            \/ ~Serves(d, m) /\ ~Serves(d, m)'
    PROVE  MessageKept(m)'
<1>1. \A d \in Desks : /\ Serves(d, m)' <=> Serves(d, m)
                       /\ Confirms(d, m)' <=> Confirms(d, m)
  BY DEF Serves, Confirms
<1>. QED  BY <1>1 DEF MessageKept

(* One step of a request.                                                  *)
LEMMA RequestKept ==
    ASSUME MessageInvariant, NEW d \in Desks,
           \/ \E m \in Messages : Compose(d, m)
           \/ ClaimMessage(d) \/ SendMessage(d) \/ SettleMessage(d)
           \/ DeskDies(d)
    PROVE  MessageTypes' /\ \A m \in Messages : MessageKept(m)'
<1>. USE DEF MessageInvariant
<1>0. /\ Nothing \notin Messages /\ AtDesk.of = Nothing
      /\ AtDesk.step = "idle" /\ AtDesk.seen = "NONE"
      /\ "NONE" \in ReportStatuses
      /\ AtDesk \in [of: {Nothing} \cup Messages, seen: ReportStatuses,
             step: {"idle", "stored", "sending", "sent", "refused"}]
  BY SupportConstants DEF AtDesk, ReportStatuses
<1>1. ASSUME NEW m \in Messages, Compose(d, m)
      PROVE  MessageTypes' /\ \A k \in Messages : MessageKept(k)'
  <2>1. SeenStatus(m) \in ReportStatuses
    BY SupportConstants DEF SeenStatus, ComplaintInvariant, ReportStatuses
  <2>2. MessageTypes'
    <3>1. PICK step \in {"sent", "stored"} :
            desk' = [desk EXCEPT ![d] = [of |-> m, seen |-> SeenStatus(m),
                                         step |-> step]]
      BY <1>1 DEF Compose
    <3>2. message' \in [Messages -> [status: MessageStatuses, aged: BOOLEAN]]
      BY <1>1, MarkTyped DEF Compose, MessageTypes, MessageStatuses
    <3>3. UNCHANGED <<told, stops>>
      BY <1>1 DEF Compose
    <3>4. desk'[d].of = m /\ desk'[d].step # "idle"
      BY <3>1 DEF MessageTypes
    <3>. QED  BY <2>1, <3>1, <3>2, <3>3, <3>4 DEF MessageTypes
  <2>3. MessageKept(m)'
    BY <1>0, <1>1
    DEF Compose, Mark, MessageTypes, MessageKept, Serves, Confirms
  <2>4. ASSUME NEW k \in Messages, k # m PROVE MessageKept(k)'
    BY <1>0, <1>1, <2>4, MessageUndisturbed
    DEF Compose, Mark, MessageTypes, Serves
  <2>. QED  BY <2>2, <2>3, <2>4
<1>2. CASE ClaimMessage(d)
  <2>1. PICK m \in Messages : desk[d].of = m
    BY <1>0, <1>2 DEF ClaimMessage, MessageTypes
  <2>a. /\ desk[d].step = "stored" /\ UNCHANGED <<told, stops>>
        /\ \A e \in Desks \ {d} : desk'[e] = desk[e]
        /\ \/ /\ MessageClaimable(m) /\ Mark(m, "SENDING")
              /\ desk'[d].of = m /\ desk'[d].step = "sending"
           \/ UNCHANGED message /\ desk'[d] = AtDesk
    BY <1>2, <2>1 DEF ClaimMessage, Goes, MessageTypes
  <2>2. MessageTypes'
    <3>1. message' \in [Messages -> [status: MessageStatuses, aged: BOOLEAN]]
      BY <2>a, MarkTyped DEF MessageTypes, MessageStatuses
    <3>2. desk' \in [Desks ->
             [of: {Nothing} \cup Messages, seen: ReportStatuses,
              step: {"idle", "stored", "sending", "sent", "refused"}]]
      BY <1>0, <1>2, GoesTyped DEF ClaimMessage, MessageTypes, DeskSteps
    <3>. QED  BY <2>a, <3>1, <3>2 DEF MessageTypes
  <2>3. MessageKept(m)'
    <3>1. CASE UNCHANGED message /\ desk'[d] = AtDesk
      BY <1>0, <2>1, <2>a, <3>1, MessageUndisturbed DEF Serves
    <3>2. CASE /\ MessageClaimable(m) /\ Mark(m, "SENDING")
               /\ desk'[d].of = m /\ desk'[d].step = "sending"
      <4>1. /\ \A e \in Desks : ~Serves(e, m)
            /\ told[m] <= stops[m]
        BY <3>2 DEF MessageClaimable, MessageKept, Confirms
      <4>2. /\ \A e \in Desks \ {d} : ~Serves(e, m)'
            /\ \A e \in Desks : ~Confirms(e, m)'
        BY <2>a, <3>2, <4>1 DEF Serves, Confirms
      <4>3. message'[m].status = "SENDING" /\ ~message'[m].aged
        BY <3>2 DEF Mark, MessageTypes
      <4>. QED  BY <2>a, <4>1, <4>2, <4>3 DEF MessageKept
    <3>. QED  BY <2>a, <3>1, <3>2
  <2>4. ASSUME NEW k \in Messages, k # m PROVE MessageKept(k)'
    BY <1>0, <1>2, <2>1, <2>4, MessageUndisturbed
    DEF ClaimMessage, Mark, Goes, MessageTypes, Serves
  <2>. QED  BY <2>2, <2>3, <2>4
<1>3. CASE SendMessage(d)
  <2>1. PICK m \in Messages : desk[d].of = m
    BY <1>0, <1>3 DEF SendMessage, MessageTypes
  <2>a. /\ desk[d].step = "sending" /\ UNCHANGED message
        /\ \A e \in Desks \ {d} : desk'[e] = desk[e]
        /\ desk'[d].of = m
        /\ \/ /\ desk'[d].step = "sent" /\ UNCHANGED stops
              /\ told' = [told EXCEPT ![m] = @ + 1]
           \/ /\ desk'[d].step = "refused" /\ UNCHANGED <<told, stops>>
           \/ /\ desk'[d].step = "refused" /\ Stop(m)
              /\ told' = [told EXCEPT ![m] = @ + 1]
    BY <1>3, <2>1 DEF SendMessage, Goes, MessageTypes
  <2>2. MessageTypes'
    <3>1. told' \in [Messages -> Nat] /\ stops' \in [Messages -> Nat]
      <4>1. told[m] + 1 \in Nat /\ stops[m] + 1 \in Nat
        BY DEF MessageTypes
      <4>2. \/ UNCHANGED told
            \/ told' = [told EXCEPT ![m] = told[m] + 1]
        BY <2>a
      <4>3. \/ UNCHANGED stops
            \/ stops' = [stops EXCEPT ![m] = stops[m] + 1]
        BY <2>a DEF Stop
      <4>. QED  BY <4>1, <4>2, <4>3 DEF MessageTypes
    <3>2. desk' \in [Desks ->
             [of: {Nothing} \cup Messages, seen: ReportStatuses,
              step: {"idle", "stored", "sending", "sent", "refused"}]]
      <4>1. PICK step \in DeskSteps : Goes(d, step)
        BY <1>3 DEF SendMessage, DeskSteps
      <4>. QED  BY <1>0, <4>1, GoesTyped DEF MessageTypes, DeskSteps
    <3>. QED  BY <2>a, <3>1, <3>2 DEF MessageTypes
  <2>3. MessageKept(m)'
    <3>1. /\ Serves(d, m) /\ ~Confirms(d, m)
          /\ message[m].status = "SENDING"
      BY <2>1, <2>a
      DEF Serves, Confirms, MessageKept, MessageTypes, MessageStatuses
    <3>2. /\ ~message[m].aged /\ told[m] <= stops[m]
          /\ \A e \in Desks : Serves(e, m) => e = d
      BY <3>1 DEF MessageKept, Confirms
    <3>3. /\ \A e \in Desks : Serves(e, m)' => e = d
          /\ \A e \in Desks : Confirms(e, m)' => desk'[d].step = "sent"
      BY <2>a, <3>2 DEF Serves, Confirms
    <3>4. told[m] \in Nat /\ stops[m] \in Nat
      BY DEF MessageTypes
    <3>5. CASE desk'[d].step = "sent"
      <4>1. told'[m] = told[m] + 1 /\ stops'[m] = stops[m] /\ Confirms(d, m)'
        BY <2>a, <3>5 DEF Confirms, Serves, MessageTypes
      <4>. QED  BY <2>a, <3>1, <3>2, <3>3, <3>4, <4>1 DEF MessageKept
    <3>6. CASE desk'[d].step = "refused"
      <4>1. told'[m] <= stops'[m]
        BY <2>a, <3>2, <3>4, <3>6 DEF Stop, MessageTypes
      <4>. QED  BY <2>a, <3>1, <3>2, <3>3, <3>6, <4>1 DEF MessageKept
    <3>. QED  BY <2>a, <3>5, <3>6
  <2>4. ASSUME NEW k \in Messages, k # m PROVE MessageKept(k)'
    BY <1>0, <1>3, <2>1, <2>4, MessageUndisturbed
    DEF SendMessage, Stop, Goes, MessageTypes, Serves
  <2>. QED  BY <2>2, <2>3, <2>4
<1>4. CASE SettleMessage(d)
  <2>1. PICK m \in Messages : desk[d].of = m
    BY <1>0, <1>4 DEF SettleMessage, MessageTypes
  <2>2. MessageTypes'
    BY <1>0, <1>4, <2>1
    DEF SettleMessage, Mark, MessageTypes, MessageStatuses
  <2>3. MessageKept(m)'
    BY <1>0, <1>4, <2>1 DEF SettleMessage, Mark,
       MessageTypes, MessageStatuses, MessageKept, Serves, Confirms
  <2>4. ASSUME NEW k \in Messages, k # m PROVE MessageKept(k)'
    BY <1>0, <1>4, <2>1, <2>4, MessageUndisturbed
    DEF SettleMessage, Mark, MessageTypes, Serves
  <2>. QED  BY <2>2, <2>3, <2>4
<1>5. CASE DeskDies(d)
  <2>1. PICK m \in Messages : desk[d].of = m
    BY <1>0, <1>5 DEF DeskDies, MessageTypes
  <2>2. MessageTypes'
    BY <1>0, <1>5, <2>1
    DEF DeskDies, Stop, MessageTypes, MessageStatuses
  <2>3. MessageKept(m)'
    BY <1>0, <1>5, <2>1 DEF DeskDies, Stop,
       MessageTypes, MessageStatuses, MessageKept, Serves, Confirms
  <2>4. ASSUME NEW k \in Messages, k # m PROVE MessageKept(k)'
    BY <1>0, <1>5, <2>1, <2>4, MessageUndisturbed
    DEF DeskDies, Stop, MessageTypes, Serves
  <2>. QED  BY <2>2, <2>3, <2>4
<1>. QED  BY <1>1, <1>2, <1>3, <1>4, <1>5

LEMMA MessagesKept ==
    ASSUME MessageInvariant, [SupportNext]_supportVars PROVE MessageInvariant'
<1>1. ComplaintInvariant'
  BY ReportsKept DEF MessageInvariant
<1>2. CASE UNCHANGED <<message, told, stops, desk>>
  <2>1. MessageTypes'
    BY <1>2 DEF MessageInvariant, MessageTypes
  <2>2. \A m \in Messages : MessageKept(m)'
    BY <1>2, MessageUndisturbed DEF MessageInvariant
  <2>. QED  BY <1>1, <2>1, <2>2 DEF MessageInvariant
<1>3. ASSUME NEW d \in Desks,
             \/ \E m \in Messages : Compose(d, m)
             \/ ClaimMessage(d) \/ SendMessage(d) \/ SettleMessage(d)
             \/ DeskDies(d)
      PROVE  MessageInvariant'
  BY <1>1, <1>3, RequestKept DEF MessageInvariant
<1>4. ASSUME NEW m \in Messages, ClaimAges(m) PROVE MessageInvariant'
  <2>0. MessageTypes /\ MessageKept(m)
    BY DEF MessageInvariant
  <2>a. /\ message[m].status = "SENDING"
        /\ \A e \in Desks :
              desk[e].of # m \/ desk[e].step \in {"idle", "stored"}
        /\ message' = [message EXCEPT ![m].aged = TRUE]
        /\ UNCHANGED <<told, stops, desk>>
    BY <1>4 DEF ClaimAges
  <2>b. /\ message'[m].status = "SENDING"
        /\ message' \in [Messages -> [status: MessageStatuses, aged: BOOLEAN]]
    <3>1. /\ message[m] \in [status: MessageStatuses, aged: BOOLEAN]
          /\ [message[m] EXCEPT !.aged = TRUE]
                \in [status: MessageStatuses, aged: BOOLEAN]
      BY <2>0 DEF MessageTypes
    <3>2. message' = [message EXCEPT ![m] = [message[m] EXCEPT !.aged = TRUE]]
      BY <2>a
    <3>. QED  BY <2>0, <2>a, <3>1, <3>2 DEF MessageTypes
  <2>1. MessageTypes'
    BY <2>0, <2>a, <2>b DEF MessageTypes
  <2>2. MessageKept(m)'
    <3>1. \A e \in Desks : ~Serves(e, m) /\ ~Confirms(e, m)
      BY <2>a DEF Serves, Confirms
    <3>2. \A e \in Desks : ~Serves(e, m)' /\ ~Confirms(e, m)'
      BY <2>a, <3>1 DEF Serves, Confirms
    <3>. QED  BY <2>0, <2>a, <2>b, <3>1, <3>2 DEF MessageKept
  <2>3. \A k \in Messages : k # m => MessageKept(k)'
    BY <1>4, MessageUndisturbed
    DEF ClaimAges, MessageInvariant, MessageTypes
  <2>. QED  BY <1>1, <2>1, <2>2, <2>3 DEF MessageInvariant
<1>. QED
  BY <1>2, <1>3, <1>4
  DEF SupportNext, supportVars, AboutReports, WarrantyEnds, FileReport,
      StoreReport, EnsureOpening, Decide

(* A message is received once, and once more only for a process that died  *)
(* or an answer that got lost while it was sent, however many requests     *)
(* repeat it (customer-message.schema.ts:12-25).                           *)
THEOREM ToldOnce == SupportSpec => []MessageOnce
<1>1. MessageInvariant => MessageOnce
  BY DEF MessageInvariant, MessageTypes, MessageKept, MessageOnce,
         MessageStatuses
<1>. QED  BY <1>1, MessagesBegin, MessagesKept, PTL DEF SupportSpec

-----------------------------------------------------------------------------
(* The bank accounts.                                                      *)

AtWork(e) == edit[e].step \in {"holds", "read", "wrote"}

HolderWorksAlone == \A e \in Edits : AtWork(e) => lease = e
ReadIsStored == \A e \in Edits : edit[e].step = "read" => edit[e].seen = Stored
WrittenIsIncluded == \A e \in Edits : edit[e].step = "wrote" => e \in included

BankInvariant == /\ BankTypeOK /\ HolderWorksAlone /\ ReadIsStored
                 /\ WrittenIsIncluded /\ BankEditsAreKept

(* The parts that depend on the lease and the steps of the changes.        *)
LEMMA BankBegins == BankInit => BankInvariant
<1>. SUFFICES ASSUME BankInit PROVE BankInvariant
  OBVIOUS
<1>1. PICK B \in {{}} \cup {{b} : b \in Banks} :
          /\ accounts = [b \in Banks |->
                            IF b \in B THEN "usable" ELSE "absent"]
          /\ inUse = IF B = {} THEN NoBank ELSE CHOOSE b \in B : TRUE
  BY DEF BankInit
<1>2. inUse \in Banks \cup {NoBank}
  <2>1. CASE B = {}
    BY <1>1, <2>1
  <2>2. CASE B # {}
    <3>1. (CHOOSE b \in B : TRUE) \in B
      BY <2>2
    <3>. QED  BY <1>1, <2>2, <3>1
  <2>. QED  BY <2>1, <2>2
<1>3. Stored \in Value /\ Empty \in Value
  BY <1>1, <1>2 DEF BankInit, Stored, Value, Empty
<1>4. BankTypeOK
  BY <1>3 DEF BankTypeOK, BankInit
<1>. QED
  BY <1>4 DEF BankInvariant, BankInit, HolderWorksAlone, ReadIsStored,
              WrittenIsIncluded, BankEditsAreKept, AtWork

LEMMA ActiveIsBank ==
    ASSUME NEW v \in Value PROVE ActiveIn(v) \in Banks \cup {NoBank}
<1>1. CASE v.inUse \in UsableIn(v) \/ UsableIn(v) = {}
  BY <1>1 DEF ActiveIn, Value
<1>2. CASE ~(v.inUse \in UsableIn(v) \/ UsableIn(v) = {})
  <2>1. (CHOOSE b \in UsableIn(v) : TRUE) \in UsableIn(v)
    BY <1>2
  <2>. QED  BY <1>2, <2>1 DEF ActiveIn, UsableIn
<1>. QED  BY <1>1, <1>2

(* Whatever a change makes of a value can be stored.                       *)
LEMMA OutcomeIsValue ==
    ASSUME NEW v \in Value, NEW w \in Outcomes(v)
    PROVE  /\ w.accounts \in [Banks -> {"absent", "usable", "archived"}]
           /\ w.inUse \in Banks \cup {NoBank}
<1>. v.accounts \in [Banks -> {"absent", "usable", "archived"}]
     /\ v = [accounts |-> v.accounts, inUse |-> v.inUse,
             included |-> v.included]
  BY DEF Value
<1>1. ASSUME NEW b \in Banks, NEW a \in BOOLEAN, w = SavedBank(v, b, a)
      PROVE  /\ w.accounts \in [Banks -> {"absent", "usable", "archived"}]
             /\ w.inUse \in Banks \cup {NoBank}
  BY <1>1, ActiveIsBank DEF SavedBank, Value
<1>2. ASSUME NEW b \in UsableIn(v), w = [v EXCEPT !.inUse = b]
      PROVE  /\ w.accounts \in [Banks -> {"absent", "usable", "archived"}]
             /\ w.inUse \in Banks \cup {NoBank}
  BY <1>2 DEF UsableIn, Value
<1>3. ASSUME NEW b \in Banks,
             w = [v EXCEPT !.accounts[b] = "archived", !.inUse = ActiveIn(v)]
      PROVE  /\ w.accounts \in [Banks -> {"absent", "usable", "archived"}]
             /\ w.inUse \in Banks \cup {NoBank}
  BY <1>3, ActiveIsBank DEF Value
<1>4. CASE w \in BankSaved(v)
  BY <1>1, <1>4 DEF BankSaved
<1>5. CASE w \in BankActivated(v)
  BY <1>2, <1>5 DEF BankActivated
<1>6. CASE w \in BankArchived(v)
  BY <1>3, <1>6 DEF BankArchived
<1>. QED  BY <1>4, <1>5, <1>6 DEF Outcomes

(* Nobody else is at work while a change is.                               *)
LEMMA WorksAlone ==
    ASSUME BankInvariant, NEW e \in Edits, AtWork(e), NEW d \in Edits, d # e
    PROVE  ~AtWork(d)
BY DEF BankInvariant, HolderWorksAlone

LEMMA TakeKeeps ==
    ASSUME BankInvariant, NEW e \in Edits, TakeBankLease(e)
    PROVE  BankInvariant'
<1>1. \A d \in Edits : ~AtWork(d)
  BY BankConstants
  DEF BankInvariant, HolderWorksAlone, TakeBankLease, LeaseFree
<1>2. /\ edit'[e] = [edit[e] EXCEPT !.step = "holds"]
      /\ \A d \in Edits : d # e => edit'[d] = edit[d]
  BY DEF BankInvariant, BankTypeOK, TakeBankLease, Advances
<1>3. BankTypeOK'
  BY DEF BankInvariant, BankTypeOK, TakeBankLease, Advances, SameBanks, Stored
<1>4. HolderWorksAlone'
  BY <1>1, <1>2 DEF HolderWorksAlone, AtWork, TakeBankLease
<1>5. edit'[e].step = "holds"
  BY <1>2 DEF BankInvariant, BankTypeOK
<1>6. (ReadIsStored /\ WrittenIsIncluded /\ BankEditsAreKept)'
  BY <1>2, <1>5 DEF BankInvariant, ReadIsStored, WrittenIsIncluded,
                    BankEditsAreKept, TakeBankLease, SameBanks, Stored
<1>. QED  BY <1>3, <1>4, <1>6 DEF BankInvariant

LEMMA ReadKeeps ==
    ASSUME BankInvariant, NEW e \in Edits, ReadBanks(e)
    PROVE  BankInvariant'
<1>1. /\ edit'[e] = [step |-> "read", seen |-> Stored]
      /\ \A d \in Edits : d # e => edit'[d] = edit[d]
  BY DEF BankInvariant, BankTypeOK, ReadBanks
<1>2. Stored' = Stored
  BY DEF ReadBanks, SameBanks, Stored
<1>3. BankTypeOK'
  BY <1>2 DEF BankInvariant, BankTypeOK, ReadBanks, SameBanks
<1>4. lease = e
  BY DEF BankInvariant, HolderWorksAlone, AtWork, ReadBanks
<1>5. (HolderWorksAlone /\ ReadIsStored /\ WrittenIsIncluded)'
  BY <1>1, <1>2, <1>4 DEF BankInvariant, HolderWorksAlone, AtWork, ReadBanks,
                          ReadIsStored, WrittenIsIncluded, SameBanks
<1>6. BankEditsAreKept'
  BY DEF BankInvariant, BankEditsAreKept, ReadBanks, SameBanks
<1>. QED  BY <1>3, <1>5, <1>6 DEF BankInvariant

(* The only change at work writes: what it read was stored, and held all   *)
(* the confirmed ones.                                                     *)
LEMMA WriteKeeps ==
    ASSUME BankInvariant, NEW e \in Edits, WriteBanks(e)
    PROVE  BankInvariant'
<1>1. /\ edit[e].seen = Stored /\ edit[e].seen \in Value
      /\ edit[e].seen.included = included
  BY DEF BankInvariant, BankTypeOK, ReadIsStored, WriteBanks, Stored
<1>2. included' = included \cup {e}
  BY <1>1 DEF WriteBanks
<1>3. /\ edit'[e].step = "wrote" /\ edit'[e].seen = edit[e].seen
      /\ \A d \in Edits : d # e => edit'[d] = edit[d]
  BY DEF BankInvariant, BankTypeOK, WriteBanks, Advances
<1>4. AtWork(e)
  BY DEF WriteBanks, AtWork
<1>5. Stored' \in Value
  BY <1>1, <1>2, OutcomeIsValue
  DEF BankInvariant, BankTypeOK, WriteBanks, Stored, Value
<1>6. BankTypeOK'
  BY <1>5 DEF BankInvariant, BankTypeOK, WriteBanks, Advances
<1>7. HolderWorksAlone'
  BY <1>3, <1>4, WorksAlone
  DEF BankInvariant, HolderWorksAlone, AtWork, WriteBanks
<1>8. ReadIsStored'
  <2>1. \A d \in Edits : edit'[d].step # "read"
    BY <1>3, <1>4, WorksAlone DEF AtWork
  <2>. QED  BY <2>1 DEF ReadIsStored
<1>9. (WrittenIsIncluded /\ BankEditsAreKept)'
  BY <1>2, <1>3 DEF BankInvariant, WrittenIsIncluded, BankEditsAreKept,
                    WriteBanks
<1>. QED  BY <1>6, <1>7, <1>8, <1>9 DEF BankInvariant

(* A change that ends, with an answer or without.                          *)
LEMMA EndKeeps ==
    ASSUME BankInvariant, NEW e \in Edits, AtWork(e),
           edit' = [edit EXCEPT ![e].step = "over"],
           lease' \in {lease, NoBank},
           confirmed' \subseteq
               confirmed \cup {d \in {e} : edit[d].step = "wrote"},
           UNCHANGED <<accounts, inUse, included>>
    PROVE  BankInvariant'
<1>1. /\ edit'[e].step = "over"
      /\ \A d \in Edits : d # e => edit'[d] = edit[d]
  BY DEF BankInvariant, BankTypeOK
<1>2. BankTypeOK'
  BY DEF BankInvariant, BankTypeOK, Stored
<1>3. \A d \in Edits : ~AtWork(d)'
  BY <1>1, WorksAlone DEF AtWork
<1>4. (HolderWorksAlone /\ ReadIsStored /\ WrittenIsIncluded)'
  BY <1>3 DEF HolderWorksAlone, ReadIsStored, WrittenIsIncluded, AtWork
<1>5. BankEditsAreKept'
  BY DEF BankInvariant, BankEditsAreKept, WrittenIsIncluded
<1>. QED  BY <1>2, <1>4, <1>5 DEF BankInvariant

LEMMA LeaseEndKeeps ==
    ASSUME BankInvariant, ~MayOverrun, BankLeaseEnds
    PROVE  BankInvariant'
<1>1. lease \in Edits /\ edit[lease].step = "over"
  BY DEF BankInvariant, BankTypeOK, BankLeaseEnds
<1>2. \A d \in Edits : ~AtWork(d)
  BY <1>1 DEF BankInvariant, HolderWorksAlone, AtWork
<1>3. BankTypeOK'
  BY DEF BankInvariant, BankTypeOK, BankLeaseEnds, SameBanks, Stored
<1>4. HolderWorksAlone'
  BY <1>2 DEF HolderWorksAlone, AtWork, BankLeaseEnds
<1>5. (ReadIsStored /\ WrittenIsIncluded /\ BankEditsAreKept)'
  BY DEF BankInvariant, ReadIsStored, WrittenIsIncluded, BankEditsAreKept,
         BankLeaseEnds, SameBanks, Stored
<1>. QED  BY <1>3, <1>4, <1>5 DEF BankInvariant

LEMMA BankStepKeeps ==
    ASSUME ~MayOverrun
    PROVE  BankInvariant /\ [BankNext]_bankVars => BankInvariant'
<1>. SUFFICES ASSUME BankInvariant, [BankNext]_bankVars PROVE BankInvariant'
  OBVIOUS
<1>1. CASE BankLeaseEnds
  BY <1>1, LeaseEndKeeps
<1>2. ASSUME NEW e \in Edits, TakeBankLease(e) PROVE BankInvariant'
  BY <1>2, TakeKeeps
<1>3. ASSUME NEW e \in Edits, ReadBanks(e) PROVE BankInvariant'
  BY <1>3, ReadKeeps
<1>4. ASSUME NEW e \in Edits, WriteBanks(e) PROVE BankInvariant'
  BY <1>4, WriteKeeps
<1>5. ASSUME NEW e \in Edits, ReturnBankLease(e) PROVE BankInvariant'
  <2>1. /\ AtWork(e) /\ lease' \in {lease, NoBank}
        /\ edit' = [edit EXCEPT ![e].step = "over"]
        /\ confirmed' \subseteq
              confirmed \cup {d \in {e} : edit[d].step = "wrote"}
        /\ UNCHANGED <<accounts, inUse, included>>
    BY <1>5 DEF ReturnBankLease, Advances, AtWork
  <2>. QED  BY <2>1, EndKeeps
<1>6. ASSUME NEW e \in Edits, EditFails(e) PROVE BankInvariant'
  <2>1. /\ AtWork(e) /\ lease' \in {lease, NoBank}
        /\ edit' = [edit EXCEPT ![e].step = "over"]
        /\ confirmed' \subseteq
              confirmed \cup {d \in {e} : edit[d].step = "wrote"}
        /\ UNCHANGED <<accounts, inUse, included>>
    BY <1>6 DEF EditFails, Advances, AtWork, SameBanks
  <2>. QED  BY <2>1, EndKeeps
<1>7. CASE UNCHANGED bankVars
  BY <1>7 DEF bankVars, BankInvariant, BankTypeOK, HolderWorksAlone, AtWork,
              ReadIsStored, WrittenIsIncluded, BankEditsAreKept, Stored
<1>. QED
  BY <1>1, <1>2, <1>3, <1>4, <1>5, <1>6, <1>7 DEF BankNext

(* No confirmed change of the bank accounts is undone by another one, when *)
(* every change is quicker than its lease (bot-config.service.ts:523-541). *)
THEOREM BankEditsKept ==
    ASSUME ~MayOverrun PROVE BankSpec => []BankEditsAreKept
<1>1. BankInvariant => BankEditsAreKept
  BY DEF BankInvariant
<1>2. BankInvariant /\ [BankNext]_bankVars => BankInvariant'
  BY BankStepKeeps
<1>. QED  BY BankBegins, <1>1, <1>2, PTL DEF BankSpec

-----------------------------------------------------------------------------
(* The token of the bot.                                                   *)

ChangeWorks(u) == change[u].step \notin {"idle", "over"}
TokenCalls == {"set", "delete"} \X Bots
Harms == {"none", "one", "more"}

(* The bot in use has its hook, unless more went wrong than can be undone. *)
HasHook == harm # "more" => tokenInUse \in hooked

(* How far a change is says which token is stored and what failed, and     *)
(* unless the change is from one token to another, the hook stays.         *)
Midway(u) ==
    LET c == change[u] IN
    /\ c.from \in Bots /\ c.to \in Bots
    /\ c.step \in {"read", "unhooked"} => tokenInUse = c.from
    /\ c.step = "rehook" /\ harm # "more" => tokenInUse = c.from
    /\ c.step \in {"written", "restore"} => tokenInUse = c.to /\ writer = u
    /\ c.step \in {"rehook", "restore"} => harm # "none"
    /\ c.step \in {"read", "end", "undone"} \/ c.to = c.from => HasHook

(* A setting hooks the bot it read.                                        *)
SettingsRead == \A s \in Settings : setting[s].step = "read"
                                    => setting[s].of \in Bots

(* A change at work is alone, and what failed for it is on its account:    *)
(* without a change at work the bot has its hook.                          *)
TokenInvariant ==
    /\ TokenTypeOK /\ SettingsRead
    /\ Settled => HasHook
    /\ \A u \in Changes : ChangeWorks(u) => Midway(u)

LEMMA ChangeProceeds ==
    ASSUME TokenTypeOK, NEW u \in Changes, NEW step \in TokenSteps,
           Proceeds(u, step)
    PROVE  /\ change' \in [Changes -> [step: TokenSteps,
                                       to: Bots \cup {Nobody},
                                       from: Bots \cup {Nobody},
                                       fromWriter: Changes \cup {Nobody}]]
           /\ change'[u].step = step
           /\ change'[u].to = change[u].to
           /\ change'[u].from = change[u].from
           /\ \A v \in Changes \ {u} : change'[v] = change[v]
BY DEF TokenTypeOK, Proceeds, TokenSteps

(* What a step of a change leaves of the rest.                             *)
TokenSound == /\ tokenInUse \in Bots /\ writer \in Changes \cup {Nobody}
         /\ hooked \subseteq Bots /\ belated \subseteq TokenCalls
         /\ failures \in Nat /\ harm \in Harms

(* A step of the change at work, to another step or to its end.            *)
LEMMA HolderKeeps ==
    ASSUME TokenInvariant, NEW u \in Changes, ChangeWorks(u),
           NEW step \in TokenSteps \ {"idle"}, Proceeds(u, step),
           TokenSound', UNCHANGED setting,
           \/ step # "over" /\ UNCHANGED tokenLease /\ Midway(u)'
           \/ step = "over" /\ tokenLease' \in {Nobody, tokenLease} /\ HasHook'
    PROVE  TokenInvariant'
<1>1. TokenTypeOK /\ tokenLease = u
  BY DEF TokenInvariant, TokenTypeOK, ChangeWorks
<1>2. /\ change'[u].step = step
      /\ \A v \in Changes \ {u} : change'[v] = change[v]
  BY <1>1, ChangeProceeds
<1>3. \A v \in Changes \ {u} : ~ChangeWorks(v) /\ ~ChangeWorks(v)'
  BY <1>1, <1>2 DEF TokenTypeOK, ChangeWorks
<1>4. TokenTypeOK'
  <2>1. \A v \in Changes : ChangeWorks(v)' => tokenLease' = v
    BY <1>1, <1>2, <1>3 DEF ChangeWorks
  <2>. QED
    BY <1>1, <2>1, ChangeProceeds
    DEF TokenTypeOK, TokenSound, ChangeWorks, TokenCalls, Harms
<1>5. SettingsRead'
  BY DEF TokenInvariant, SettingsRead
<1>6. Settled' => HasHook'
  BY <1>2, TokenConstants DEF Settled, TokenSteps
<1>7. ASSUME NEW v \in Changes, ChangeWorks(v)' PROVE Midway(v)'
  BY <1>2, <1>3, <1>7 DEF ChangeWorks
<1>. QED  BY <1>4, <1>5, <1>6, <1>7 DEF TokenInvariant

(* What a change at work may rely on.                                      *)
LEMMA HolderStands ==
    ASSUME TokenInvariant, NEW u \in Changes, ChangeWorks(u)
    PROVE  /\ TokenTypeOK /\ TokenSound /\ Midway(u)
           /\ change[u].from \in Bots /\ change[u].to \in Bots
           /\ change[u].fromWriter \in Changes \cup {Nobody}
           /\ Outgoing(u) \subseteq TokenCalls
<1>1. TokenTypeOK /\ Midway(u)
  BY DEF TokenInvariant
<1>2. TokenSound
  BY <1>1 DEF TokenTypeOK, TokenSound, TokenCalls, Harms
<1>3. change[u].from \in Bots /\ change[u].to \in Bots
  BY <1>1 DEF Midway
<1>. QED
  BY <1>1, <1>2, <1>3 DEF TokenTypeOK, Outgoing, TokenCalls

(* What a call does when it is answered, and when it is given up.          *)
LEMMA CallEnds ==
    ASSUME TokenSound, NEW call \in TokenCalls, Succeeds(call) \/ GivesUp(call)
    PROVE  /\ hooked' \subseteq Bots /\ belated' \subseteq TokenCalls
           /\ failures' \in Nat /\ harm' \in Harms
BY DEF TokenSound, Succeeds, GivesUp, Fails, AllIsWell, HooksAfter, OneMore,
       TokenCalls, Harms

LEMMA GivenUp ==
    ASSUME NEW call, GivesUp(call), harm \in Harms
    PROVE  /\ UNCHANGED hooked /\ harm' # "none"
           /\ harm' # "more" => harm = "none"
BY DEF GivesUp, Fails, OneMore, Harms

LEMMA TokenBegins == TokenInit => TokenInvariant
<1>. SUFFICES ASSUME TokenInit PROVE TokenInvariant
  OBVIOUS
<1>1. TokenTypeOK
  BY DEF TokenInit, TokenTypeOK, NoChange, TokenSteps
<1>. QED
  BY <1>1
  DEF TokenInit, TokenInvariant, SettingsRead, HasHook, ChangeWorks, NoChange

LEMMA ChangeBegins ==
    ASSUME TokenInvariant, NEW u \in Changes, BeginChange(u)
    PROVE  TokenInvariant'
<1>1. PICK b \in Bots :
         change' = [change EXCEPT ![u] = [step |-> "read", to |-> b,
                      from |-> tokenInUse, fromWriter |-> writer]]
  BY DEF BeginChange
<1>2. /\ TokenTypeOK /\ tokenLease = Nobody /\ tokenLease' = u
      /\ UNCHANGED <<tokenInUse, writer, hooked, belated, setting>>
      /\ UNCHANGED <<failures, harm>>
  BY DEF BeginChange, TokenInvariant, AllIsWell
<1>3. Settled /\ HasHook
  <2>1. Settled
    BY <1>2, TokenConstants DEF Settled, TokenTypeOK
  <2>. QED  BY <2>1 DEF TokenInvariant
<1>4. /\ change'[u] = [step |-> "read", to |-> b, from |-> tokenInUse,
                       fromWriter |-> writer]
      /\ \A v \in Changes \ {u} : change'[v] = change[v]
  BY <1>1, <1>2 DEF TokenTypeOK
<1>5. \A v \in Changes \ {u} : ~ChangeWorks(v)'
  BY <1>3, <1>4 DEF Settled, ChangeWorks
<1>6. TokenTypeOK'
  <2>1. \A v \in Changes : ChangeWorks(v)' => tokenLease' = v
    BY <1>2, <1>5
  <2>. QED  BY <1>1, <1>2, <2>1 DEF TokenTypeOK, TokenSteps, ChangeWorks
<1>7. Midway(u)'
  BY <1>2, <1>3, <1>4 DEF Midway, HasHook, TokenTypeOK
<1>8. ~Settled'
  BY <1>4 DEF Settled
<1>. QED
  BY <1>2, <1>5, <1>6, <1>7, <1>8 DEF TokenInvariant, SettingsRead

(* A change comes to its end, or its process dies.                         *)
LEMMA ChangeEnds ==
    ASSUME TokenInvariant, NEW u \in Changes, EndChange(u) \/ ChangeDies(u)
    PROVE  TokenInvariant'
<1>1. /\ ChangeWorks(u) /\ Proceeds(u, "over")
      /\ UNCHANGED <<tokenInUse, writer, hooked, setting>>
      /\ tokenLease' \in {Nobody, tokenLease}
  BY DEF EndChange, ChangeDies, ChangeWorks
<1>2. /\ TokenTypeOK /\ TokenSound /\ Midway(u)
      /\ Outgoing(u) \subseteq TokenCalls
  BY <1>1, HolderStands
<1>3. TokenSound' /\ HasHook'
  <2>1. CASE EndChange(u)
    BY <1>1, <1>2, <2>1 DEF EndChange, AllIsWell, TokenSound, Midway, HasHook
  <2>2. CASE ChangeDies(u)
    <3>1. failures' \in Nat /\ harm' \in Harms
      BY <1>2, <2>2 DEF ChangeDies, Fails, TokenSound, Harms
    <3>2. TokenSound'
      BY <1>1, <1>2, <2>2, <3>1 DEF ChangeDies, TokenSound
    <3>3. CASE change[u].step \in {"unhooked", "written", "restore", "rehook"}
      BY <2>2, <3>2, <3>3 DEF ChangeDies, Fails, HasHook
    <3>4. CASE change[u].step \notin {"unhooked", "written", "restore",
                                     "rehook"}
      <4>1. change[u].step \in {"read", "end", "undone"} /\ harm' = harm
        BY <1>1, <1>2, <2>2, <3>4
        DEF ChangeDies, Fails, TokenTypeOK, TokenSteps, ChangeWorks
      <4>. QED  BY <1>1, <1>2, <3>2, <4>1 DEF Midway, HasHook
    <3>. QED  BY <3>3, <3>4
  <2>. QED  BY <2>1, <2>2
<1>. QED  BY <1>1, <1>3, HolderKeeps DEF TokenSteps

(* The steps of a change before the end, one after the other.              *)
LEMMA ChangeGoesOn ==
    ASSUME TokenInvariant, NEW u \in Changes,
           \/ DeleteOldHook(u) \/ WriteToken(u) \/ SetNewHook(u)
           \/ RestoreToken(u) \/ RestoreHook(u)
    PROVE  TokenInvariant'
<1>1. ChangeWorks(u) /\ UNCHANGED <<tokenLease, setting>>
  BY DEF DeleteOldHook, WriteToken, SetNewHook, RestoreToken, RestoreHook,
         ChangeWorks
<1>2. /\ TokenTypeOK /\ TokenSound /\ Midway(u)
      /\ change[u].from \in Bots /\ change[u].to \in Bots
      /\ change[u].fromWriter \in Changes \cup {Nobody}
      /\ Outgoing(u) \subseteq TokenCalls
  BY <1>1, HolderStands
<1>3. ASSUME NEW step \in TokenSteps \ {"idle", "over"}, Proceeds(u, step),
             TokenSound',
             change'[u].step = step /\ change'[u].to = change[u].to
                /\ change'[u].from = change[u].from => Midway(u)'
      PROVE  TokenInvariant'
  BY <1>1, <1>2, <1>3, ChangeProceeds, HolderKeeps
<1>4. CASE DeleteOldHook(u)
  <2>1. /\ change[u].step = "read" /\ UNCHANGED <<tokenInUse, writer>>
        /\ tokenInUse = change[u].from /\ HasHook
    BY <1>2, <1>4 DEF DeleteOldHook, Midway
  <2>2. CASE /\ ~OldHookGoes(u) /\ Proceeds(u, "unhooked")
             /\ UNCHANGED <<hooked, belated>> /\ AllIsWell
    <3>1. TokenSound'
      BY <1>2, <2>1, <2>2 DEF TokenSound, AllIsWell
    <3>. QED
      BY <1>2, <1>3, <2>1, <2>2, <3>1
      DEF Midway, AllIsWell, TokenSteps, HasHook
  <2>3. ASSUME NEW c \in Outgoing(u), Succeeds(c), Proceeds(u, "unhooked")
        PROVE  TokenInvariant'
    <3>1. TokenSound' /\ OldHookGoes(u)
      BY <1>2, <2>1, <2>3, CallEnds DEF TokenSound, Outgoing
    <3>. QED
      BY <1>2, <1>3, <2>1, <2>3, <3>1 DEF Midway, OldHookGoes, TokenSteps
  <2>4. ASSUME NEW c \in Outgoing(u), GivesUp(c), Proceeds(u, "end")
        PROVE  TokenInvariant'
    <3>1. TokenSound'
      BY <1>2, <2>1, <2>4, CallEnds DEF TokenSound
    <3>2. HasHook'
      BY <1>2, <2>1, <2>4, GivenUp DEF TokenSound, HasHook
    <3>. QED
      BY <1>2, <1>3, <2>4, <3>1, <3>2 DEF Midway, TokenSteps
  <2>. QED  BY <1>4, <2>2, <2>3, <2>4 DEF DeleteOldHook
<1>5. CASE WriteToken(u)
  <2>1. /\ change[u].step = "unhooked" /\ UNCHANGED <<hooked, belated>>
        /\ tokenInUse = change[u].from
        /\ change[u].to = change[u].from => HasHook
    BY <1>2, <1>5 DEF WriteToken, Midway
  <2>2. CASE Store(u) /\ Proceeds(u, "written") /\ AllIsWell
    <3>1. TokenSound' /\ tokenInUse' = change[u].to /\ writer' = u
      BY <1>2, <2>1, <2>2 DEF TokenSound, Store, AllIsWell
    <3>. QED
      BY <1>2, <1>3, <2>1, <2>2, <3>1
      DEF Midway, TokenSteps, HasHook, AllIsWell
  <2>3. CASE /\ UNCHANGED <<tokenInUse, writer>> /\ Proceeds(u, "rehook")
             /\ Fails(OneMore)
    <3>1. /\ TokenSound' /\ harm' # "none"
          /\ harm' # "more" => harm = "none"
      BY <1>2, <2>1, <2>3 DEF TokenSound, Fails, OneMore, Harms
    <3>. QED
      BY <1>2, <1>3, <2>1, <2>3, <3>1 DEF Midway, TokenSteps, HasHook
  <2>4. CASE Store(u) /\ Proceeds(u, "rehook") /\ Fails("more")
    <3>1. TokenSound' /\ harm' = "more"
      BY <1>2, <2>1, <2>4 DEF TokenSound, Store, Fails, Harms
    <3>. QED
      BY <1>2, <1>3, <2>4, <3>1 DEF Midway, TokenSteps, HasHook
  <2>. QED  BY <1>5, <2>2, <2>3, <2>4 DEF WriteToken
<1>6. CASE SetNewHook(u)
  <2>1. PICK c \in Outgoing(u) :
           \/ /\ hooked' = HooksAfter(c) /\ harm' = "none"
              /\ Proceeds(u, "end") /\ UNCHANGED <<belated, failures>>
           \/ GivesUp(c) /\ Proceeds(u, "restore")
    BY <1>6 DEF SetNewHook
  <2>2. /\ change[u].step = "written" /\ UNCHANGED <<tokenInUse, writer>>
        /\ tokenInUse = change[u].to /\ writer = u
        /\ change[u].to = change[u].from => HasHook
    BY <1>2, <1>6 DEF SetNewHook, Midway
  <2>3. c = <<"set", change[u].to>>
    BY <2>2 DEF Outgoing
  <2>4. CASE /\ hooked' = HooksAfter(c) /\ harm' = "none"
             /\ Proceeds(u, "end") /\ UNCHANGED <<belated, failures>>
    <3>1. hooked' = hooked \cup {change[u].to}
      BY <2>3, <2>4 DEF HooksAfter
    <3>2. TokenSound'
      BY <1>2, <2>2, <2>4, <3>1 DEF TokenSound, Harms
    <3>. QED
      BY <1>2, <1>3, <2>2, <2>4, <3>1, <3>2 DEF Midway, TokenSteps, HasHook
  <2>5. CASE GivesUp(c) /\ Proceeds(u, "restore")
    <3>1. TokenSound' /\ harm \in Harms
      BY <1>2, <2>2, <2>5, CallEnds DEF TokenSound
    <3>. QED
      BY <1>2, <1>3, <2>2, <2>5, <3>1, GivenUp DEF Midway, TokenSteps, HasHook
  <2>. QED  BY <2>1, <2>4, <2>5
<1>7. CASE RestoreToken(u)
  <2>1. /\ change[u].step = "restore" /\ UNCHANGED <<hooked, belated>>
        /\ tokenInUse = change[u].to /\ writer = u /\ harm # "none"
        /\ change[u].to = change[u].from => HasHook
    BY <1>2, <1>7 DEF RestoreToken, Midway
  <2>2. CASE PutBack(u) /\ AllIsWell /\ Proceeds(u, "rehook")
    <3>1. /\ TokenSound' /\ UNCHANGED harm
          /\ tokenInUse' = change[u].from /\ writer' = change[u].fromWriter
      BY <1>2, <2>1, <2>2 DEF TokenSound, PutBack, AllIsWell
    <3>. QED
      BY <1>2, <1>3, <2>1, <2>2, <3>1 DEF Midway, TokenSteps, HasHook
  <2>3. CASE /\ PutBack(u) \/ UNCHANGED <<tokenInUse, writer>>
             /\ Fails("more") /\ Proceeds(u, "undone")
    <3>1. TokenSound' /\ harm' = "more"
      BY <1>2, <2>1, <2>3 DEF TokenSound, PutBack, Fails, Harms
    <3>. QED
      BY <1>2, <1>3, <2>3, <3>1 DEF Midway, TokenSteps, HasHook
  <2>. QED  BY <1>7, <2>1, <2>2, <2>3 DEF RestoreToken
<1>8. CASE RestoreHook(u)
  <2>1. /\ change[u].step = "rehook" /\ UNCHANGED <<tokenInUse, writer>>
        /\ harm # "more" => tokenInUse = change[u].from
        /\ harm # "none" /\ Proceeds(u, "undone")
        /\ change[u].to = change[u].from => HasHook
    BY <1>2, <1>8 DEF RestoreHook, Midway
  <2>2. CASE /\ HooksRestored(u) = {} /\ UNCHANGED <<hooked, belated>>
             /\ AllIsWell
    <3>1. change[u].to = change[u].from
      BY <2>1, <2>2 DEF HooksRestored, Outgoing, OldHookGoes
    <3>2. TokenSound'
      BY <1>2, <2>1, <2>2 DEF TokenSound, AllIsWell
    <3>. QED
      BY <1>2, <1>3, <2>1, <2>2, <3>1, <3>2
      DEF Midway, TokenSteps, HasHook, AllIsWell
  <2>3. ASSUME NEW c \in HooksRestored(u), Succeeds(c) \/ GivesUp(c)
        PROVE  TokenInvariant'
    <3>1. c \in TokenCalls /\ c = <<"set", change[u].from>>
      BY <1>2, <2>1, <2>3 DEF HooksRestored, Outgoing
    <3>2. TokenSound'
      BY <1>2, <2>1, <2>3, <3>1, CallEnds DEF TokenSound
    <3>3. HasHook'
      <4>1. CASE Succeeds(c)
        BY <2>1, <3>1, <4>1
        DEF Succeeds, AllIsWell, HooksAfter, HasHook
      <4>2. CASE GivesUp(c)
        BY <1>2, <2>1, <4>2, GivenUp DEF TokenSound, HasHook
      <4>. QED  BY <2>3, <4>1, <4>2
    <3>. QED
      BY <1>2, <1>3, <2>1, <3>2, <3>3 DEF Midway, TokenSteps
  <2>. QED  BY <1>8, <2>2, <2>3 DEF RestoreHook
<1>. QED  BY <1>4, <1>5, <1>6, <1>7, <1>8

(* Whatever keeps the hook of the bot in use, or counts what it did to it. *)
LEMMA OthersKeep ==
    ASSUME TokenInvariant, UNCHANGED <<tokenInUse, writer, change>>,
           tokenLease' = tokenLease \/ (Settled /\ tokenLease' = Nobody),
           hooked' \subseteq Bots, belated' \subseteq TokenCalls,
           failures' = failures, harm' = harm \/ harm' = "more",
           tokenInUse \in hooked => tokenInUse \in hooked' \/ harm' = "more",
           setting' \in [Settings -> [step: {"idle", "read", "over"},
                                      of: Bots \cup {Nobody}]],
           SettingsRead'
    PROVE  TokenInvariant'
<1>1. TokenTypeOK'
  <2>1. \A u \in Changes : ChangeWorks(u)' => tokenLease' = u
    BY DEF TokenInvariant, TokenTypeOK, ChangeWorks, Settled
  <2>. QED  BY <2>1 DEF TokenInvariant, TokenTypeOK, ChangeWorks, TokenCalls
<1>2. HasHook => HasHook'
  BY DEF HasHook
<1>3. ASSUME NEW u \in Changes, Midway(u) PROVE Midway(u)'
  BY <1>2, <1>3 DEF Midway
<1>. QED  BY <1>1, <1>2, <1>3 DEF TokenInvariant, ChangeWorks, Settled

LEMMA TokenKept == TokenInvariant /\ [TokenNext]_tokenVars => TokenInvariant'
<1>. SUFFICES ASSUME TokenInvariant, [TokenNext]_tokenVars
              PROVE  TokenInvariant'
  OBVIOUS
<1>0. /\ hooked \subseteq Bots /\ belated \subseteq TokenCalls
      /\ setting \in [Settings -> [step: {"idle", "read", "over"},
                                    of: Bots \cup {Nobody}]]
      /\ SettingsRead /\ tokenInUse \in Bots
  BY DEF TokenInvariant, TokenTypeOK, TokenCalls
<1>1. ASSUME NEW s \in Settings, ReadForHook(s) PROVE TokenInvariant'
  <2>1. SettingsRead'
    BY <1>0, <1>1 DEF ReadForHook, SettingsRead
  <2>. QED  BY <1>0, <1>1, <2>1, OthersKeep DEF ReadForHook, AllIsWell
<1>2. ASSUME NEW s \in Settings, HookForSetting(s) PROVE TokenInvariant'
  <2>1. SettingsRead' /\ <<"set", setting[s].of>> \in TokenCalls
    BY <1>0, <1>2 DEF HookForSetting, SettingsRead, TokenCalls
  <2>2. /\ hooked \subseteq hooked' /\ hooked' \subseteq Bots
        /\ belated' \subseteq TokenCalls /\ UNCHANGED <<failures, harm>>
    BY <1>0, <1>2, <2>1
    DEF HookForSetting, Succeeds, HooksAfter, AllIsWell, TokenCalls
  <2>. QED  BY <1>0, <1>2, <2>1, <2>2, OthersKeep DEF HookForSetting
<1>3. ASSUME NEW c \in belated, Lands(c) PROVE TokenInvariant'
  <2>1. c \in TokenCalls /\ c = <<c[1], c[2]>>
    BY <1>0 DEF TokenCalls
  <2>2. hooked' \subseteq Bots /\ belated' \subseteq TokenCalls
    BY <1>0, <1>3, <2>1 DEF Lands, HooksAfter, TokenCalls
  <2>3. tokenInUse \in hooked => tokenInUse \in hooked' \/ harm' = "more"
    BY <1>3, <2>1 DEF Lands, HooksAfter, TokenCalls
  <2>. QED
    BY <1>0, <1>3, <2>2, <2>3, OthersKeep DEF Lands, SettingsRead
<1>4. ASSUME NEW u \in Changes, TokenLeaseExpires(u) PROVE TokenInvariant'
  <2>1. Settled
    BY <1>4 DEF TokenInvariant, TokenTypeOK, TokenLeaseExpires, Settled
  <2>. QED
    BY <1>0, <1>4, <2>1, OthersKeep
    DEF TokenLeaseExpires, AllIsWell, SettingsRead
<1>5. CASE UNCHANGED tokenVars
  BY <1>0, <1>5, OthersKeep DEF tokenVars, SettingsRead
<1>. QED
  BY <1>1, <1>2, <1>3, <1>4, <1>5, ChangeBegins, ChangeEnds, ChangeGoesOn
  DEF TokenNext

(* For any number of bots, changes and failures: the bot that the shop     *)
(* believes in has its webhook whenever no change is at work, unless since *)
(* the last change that succeeded a second call or write failed, a write   *)
(* took effect and was reported as failed, a process died in the middle,   *)
(* or a deletion that was given up took effect on the bot in use           *)
(* (bot-config.service.ts:421-442, 466-485, 553-558).                      *)
THEOREM CurrentBotIsHooked == TokenSpec => []CurrentBotHasHook
<1>1. TokenInvariant => CurrentBotHasHook
  BY DEF TokenInvariant, HasHook, CurrentBotHasHook
<1>. QED  BY <1>1, TokenBegins, TokenKept, PTL DEF TokenSpec

-----------------------------------------------------------------------------
(* The migrations.                                                         *)

UpOf(n) == Migrations[n].up
DownOf(n) == Migrations[n].down
SetsUp(n, w) == \E i \in 1..Len(UpOf(n)) : UpOf(n)[i] = w
TakesAway(n, w) == \E i \in 1..Len(DownOf(n)) : DownOf(n)[i] = w

-----------------------------------------------------------------------------
LEMMA NamesAre == Names = 1..15 /\ Names \subseteq Nat /\ 0 \notin Names
BY DEF Names, Migrations

LEMMA NameIs ==
    /\ \A n \in 1..15 : n \in Names
    /\ \A n \in Names : n \in Nat /\ 1 <= n /\ n <= 15
BY NamesAre

(* Two lists of works; what it takes away is among what it set up.         *)
TakesOwn(m) ==
    /\ Len(m.up) \in Nat /\ DOMAIN m.up = 1..Len(m.up)
    /\ Len(m.down) \in Nat
    /\ \A i \in 1..Len(m.down) : \E k \in 1..Len(m.up) : m.up[k] = m.down[i]

LEMMA SameWorks ==
    ASSUME NEW m, Len(m.up) \in Nat, DOMAIN m.up = 1..Len(m.up),
           m.down = m.up
    PROVE  TakesOwn(m)
BY DEF TakesOwn

LEMMA OwnWorks ==
    /\ TakesOwn(SafeDefaults) /\ TakesOwn(CatalogueIndexes)
    /\ TakesOwn(CollectionNames) /\ TakesOwn(RuntimeIndexes)
    /\ TakesOwn(ReportIndexes) /\ TakesOwn(CheckoutIndexes)
    /\ TakesOwn(MessageIndexes) /\ TakesOwn(CouponIndexes)
    /\ TakesOwn(AnalyticsIndexes) /\ TakesOwn(HistoryIndexes)
    /\ TakesOwn(QueryIndexes) /\ TakesOwn(SearchIndexes)
    /\ TakesOwn(ConversationIndexes) /\ TakesOwn(WarrantyHours)
<1>1. TakesOwn(SafeDefaults)
    <2> DEFINE m == SafeDefaults
    <2>1. Len(m.up) = 3 /\ DOMAIN m.up = 1..3
        BY DEF SafeDefaults
    <2>2. m.down = m.up
        BY DEF SafeDefaults
    <2> QED
        BY <2>1, <2>2, SameWorks
<1>2. TakesOwn(CatalogueIndexes)
    <2> DEFINE m == CatalogueIndexes
    <2>1. Len(m.up) = 1 /\ DOMAIN m.up = 1..1
        BY DEF CatalogueIndexes
    <2>2. m.down = m.up
        BY DEF CatalogueIndexes
    <2> QED
        BY <2>1, <2>2, SameWorks
<1>3. TakesOwn(RuntimeIndexes)
    <2> DEFINE m == RuntimeIndexes
    <2>1. Len(m.up) = 2 /\ DOMAIN m.up = 1..2
        BY DEF RuntimeIndexes
    <2>2. m.down = m.up
        BY DEF RuntimeIndexes
    <2> QED
        BY <2>1, <2>2, SameWorks
<1>4. TakesOwn(CheckoutIndexes)
    <2> DEFINE m == CheckoutIndexes
    <2>1. Len(m.up) = 2 /\ DOMAIN m.up = 1..2
        BY DEF CheckoutIndexes
    <2>2. m.down = m.up
        BY DEF CheckoutIndexes
    <2> QED
        BY <2>1, <2>2, SameWorks
<1>5. TakesOwn(MessageIndexes)
    <2> DEFINE m == MessageIndexes
    <2>1. Len(m.up) = 2 /\ DOMAIN m.up = 1..2
        BY DEF MessageIndexes
    <2>2. m.down = m.up
        BY DEF MessageIndexes
    <2> QED
        BY <2>1, <2>2, SameWorks
<1>6. TakesOwn(CouponIndexes)
    <2> DEFINE m == CouponIndexes
    <2>1. Len(m.up) = 4 /\ DOMAIN m.up = 1..4
        BY DEF CouponIndexes, CouponWorks
    <2>2. m.down = m.up
        BY DEF CouponIndexes, CouponWorks
    <2> QED
        BY <2>1, <2>2, SameWorks
<1>7. TakesOwn(AnalyticsIndexes)
    <2> DEFINE m == AnalyticsIndexes
    <2>1. Len(m.up) = 1 /\ DOMAIN m.up = 1..1
        BY DEF AnalyticsIndexes
    <2>2. m.down = m.up
        BY DEF AnalyticsIndexes
    <2> QED
        BY <2>1, <2>2, SameWorks
<1>8. TakesOwn(QueryIndexes)
    <2> DEFINE m == QueryIndexes
    <2>1. Len(m.up) = 1 /\ DOMAIN m.up = 1..1
        BY DEF QueryIndexes
    <2>2. m.down = m.up
        BY DEF QueryIndexes
    <2> QED
        BY <2>1, <2>2, SameWorks
<1>9. TakesOwn(ConversationIndexes)
    <2> DEFINE m == ConversationIndexes
    <2>1. Len(m.up) = 1 /\ DOMAIN m.up = 1..1
        BY DEF ConversationIndexes
    <2>2. m.down = m.up
        BY DEF ConversationIndexes
    <2> QED
        BY <2>1, <2>2, SameWorks
<1>10. TakesOwn(WarrantyHours)
    <2> DEFINE m == WarrantyHours
    <2>1. Len(m.up) = 1 /\ DOMAIN m.up = 1..1
        BY DEF WarrantyHours
    <2>2. m.down = m.up
        BY DEF WarrantyHours
    <2> QED
        BY <2>1, <2>2, SameWorks
<1>11. TakesOwn(CollectionNames)
    <2> DEFINE m == CollectionNames
    <2>1. /\ Len(m.up) = 1 /\ DOMAIN m.up = 1..1
          /\ Len(m.down) = 0
        BY DEF CollectionNames
    <2> HIDE DEF m
    <2>2. TakesOwn(m)
        BY <2>1 DEF TakesOwn
    <2> QED
        BY <2>2 DEF m
<1>12. TakesOwn(ReportIndexes)
    <2> DEFINE m == ReportIndexes
    <2>1. /\ Len(m.up) = 2 /\ DOMAIN m.up = 1..2
          /\ Len(m.down) = 2
          /\ m.down[1] = m.up[2] /\ m.down[2] = m.up[1]
        BY DEF ReportIndexes
    <2> HIDE DEF m
    <2>2. TakesOwn(m)
        BY <2>1 DEF TakesOwn
    <2> QED
        BY <2>2 DEF m
<1>13. TakesOwn(HistoryIndexes)
    <2> DEFINE m == HistoryIndexes
    <2>1. /\ Len(m.up) = 2 /\ DOMAIN m.up = 1..2
          /\ Len(m.down) = 1
          /\ m.down[1] = m.up[1]
        BY DEF HistoryIndexes
    <2> HIDE DEF m
    <2>2. TakesOwn(m)
        BY <2>1 DEF TakesOwn
    <2> QED
        BY <2>2 DEF m
<1>14. TakesOwn(SearchIndexes)
    <2> DEFINE m == SearchIndexes
    <2>1. /\ Len(m.up) = 2 /\ DOMAIN m.up = 1..2
          /\ Len(m.down) = 1
          /\ m.down[1] = m.up[1]
        BY DEF SearchIndexes
    <2> HIDE DEF m
    <2>2. TakesOwn(m)
        BY <2>1 DEF TakesOwn
    <2> QED
        BY <2>2 DEF m
<1> QED
    BY <1>1, <1>2, <1>3, <1>4, <1>5, <1>6, <1>7, <1>8, <1>9, <1>10, <1>11,
       <1>12, <1>13, <1>14

LEMMA ReverseOf ==
    ASSUME NEW s, Len(s) = 10
    PROVE  Len(Reverse(s)) = 10 /\ \A i \in 1..10 : Reverse(s)[i] = s[11 - i]
BY DEF Reverse

LEMMA WorksOfMigrations ==
    ASSUME NEW n \in Names
    PROVE  /\ Len(UpOf(n)) \in Nat /\ DOMAIN UpOf(n) = 1..Len(UpOf(n))
           /\ Len(DownOf(n)) \in Nat
           /\ \A w : TakesAway(n, w) => SetsUp(n, w)
<1>1. n \in 1..15
    BY NamesAre
<1>2. /\ Migrations[1] = CreateIndexes /\ Migrations[2] = SafeDefaults
      /\ Migrations[3] = CatalogueIndexes
      /\ Migrations[4] = CollectionNames
      /\ Migrations[5] = RuntimeIndexes /\ Migrations[6] = ReportIndexes
      /\ Migrations[7] = CheckoutIndexes
      /\ Migrations[8] = MessageIndexes /\ Migrations[9] = CouponIndexes
      /\ Migrations[10] = AnalyticsIndexes
      /\ Migrations[11] = HistoryIndexes
      /\ Migrations[12] = QueryIndexes /\ Migrations[13] = SearchIndexes
      /\ Migrations[14] = ConversationIndexes
      /\ Migrations[15] = WarrantyHours
    BY DEF Migrations
<1>3. TakesOwn(CreateIndexes)
    <2> DEFINE s == Declared
    <2>1. Len(s) = 10
        BY DEF Declared
    <2>2. CreateIndexes.up = s /\ CreateIndexes.down = Reverse(s)
        BY DEF CreateIndexes
    <2> HIDE DEF s
    <2>3. Len(Reverse(s)) = 10 /\ \A i \in 1..10 : Reverse(s)[i] = s[11 - i]
        BY <2>1, ReverseOf
    <2>4. DOMAIN s = 1..10
        BY DEF s, Declared
    <2>5. ASSUME NEW i \in 1..10
          PROVE  \E k \in 1..10 : s[k] = Reverse(s)[i]
        <3> HIDE DEF s
        <3>1. 11 - i \in 1..10 /\ s[11 - i] = Reverse(s)[i]
            BY <2>3
        <3> QED
            BY <3>1
    <2> DEFINE m == CreateIndexes
               t == Reverse(s)
    <2> HIDE DEF s, m, t
    <2>6. m.up = s /\ m.down = t
        BY <2>2 DEF m, t
    <2>7. TakesOwn(m)
        <3>1. /\ Len(m.up) = 10 /\ DOMAIN m.up = 1..10
              /\ Len(m.down) = 10
            BY <2>1, <2>3, <2>4, <2>6 DEF t
        <3>2. \A i \in 1..10 : \E k \in 1..10 : m.up[k] = m.down[i]
            BY <2>5, <2>6 DEF t
        <3> QED
            BY <3>1, <3>2 DEF TakesOwn
    <2> QED
        BY <2>7 DEF m
<1>4. TakesOwn(Migrations[n])
    <2>1. n = 1 \/ n = 2 \/ n = 3 \/ n = 4 \/ n = 5 \/ n = 6 \/ n = 7 \/ n = 8
          \/ n = 9 \/ n = 10 \/ n = 11 \/ n = 12 \/ n = 13 \/ n = 14 \/ n = 15
        BY <1>1
    <2> QED
        BY <1>2, <1>3, <2>1, OwnWorks
<1> QED
    BY <1>4 DEF TakesOwn, TakesAway, SetsUp, UpOf, DownOf

LEMMA SecondOf ==
    ASSUME NEW a, NEW w PROVE w \in ToSet(<<a, w>>)
<1> DEFINE s == <<a, w>>
<1>1. DOMAIN s = 1..2 /\ s[2] = w
    OBVIOUS
<1> HIDE DEF s
<1>2. w \in {s[i] : i \in DOMAIN s}
    BY <1>1
<1> QED
    BY <1>2 DEF ToSet, s

LEMMA AllWorksAre ==
    /\ \A n \in Names : \A i \in 1..Len(UpOf(n)) : UpOf(n)[i] \in AllWorks
    /\ \A w \in AllWorks : \E n \in Names : SetsUp(n, w)
    /\ "search values" \in AllWorks
<1>1. ASSUME NEW n \in Names
      PROVE  ToSet(UpOf(n)) = {UpOf(n)[i] : i \in 1..Len(UpOf(n))}
    BY WorksOfMigrations DEF ToSet
<1>2. AllWorks = UNION {ToSet(UpOf(n)) : n \in Names}
    BY DEF AllWorks, UpOf
<1>3. "search values" \in AllWorks
    <2> DEFINE a == "previews"
               w == "search values"
    <2>1. Migrations[13] = SearchIndexes /\ 13 \in Names
        BY NamesAre DEF Migrations
    <2>2. UpOf(13) = <<a, w>>
        <3>1. SearchIndexes.up = <<a, w>>
            BY DEF SearchIndexes
        <3> HIDE DEF a, w
        <3> QED
            BY <2>1, <3>1 DEF UpOf
    <2> HIDE DEF a, w
    <2>3. w \in ToSet(<<a, w>>)
        BY SecondOf
    <2>4. w \in AllWorks
        <3> DEFINE s == UpOf(13)
        <3>1. w \in ToSet(s)
            BY <2>2, <2>3
        <3> HIDE DEF s
        <3>2. ToSet(s) \subseteq AllWorks
            BY <1>2, <2>1 DEF s
        <3> QED
            BY <3>1, <3>2
    <2> QED
        BY <2>4 DEF w
<1>4. \A n \in Names : \A i \in 1..Len(UpOf(n)) : UpOf(n)[i] \in AllWorks
    BY <1>1, <1>2
<1>5. \A w \in AllWorks : \E n \in Names : SetsUp(n, w)
    BY <1>1, <1>2 DEF SetsUp
<1> QED
    BY <1>3, <1>4, <1>5, Zenon

-----------------------------------------------------------------------------
(* The invariant.  The records name the first migrations, in order; a run  *)
(* that applies them is at most one ahead and has built what it passed; an *)
(* undo is alone and at the last record.                                   *)
Reads == {<<>>} \cup (Nat \X Nat)
Passes == [does : {"none", "up", "down", "repair"},
           seen : SUBSET (Names \cup {0}), at : Names \cup {0},
           done : Nat, read : Reads]

(* The records name the first migrations, each at its place.               *)
RecordsInOrder ==
    /\ records \in Seq(Names) /\ Len(records) \in 0..15
    /\ \A i \in 1..Len(records) : records[i] = i

JobsTyped == job \in [Jobs -> Passes]

(* A run that applies migrations is at the next one, at most, and has      *)
(* built the works of it that it passed.                                   *)
Applies(j) ==
    /\ job[j].seen \subseteq 1..Len(records)
    /\ job[j].at \in Names /\ job[j].at \notin job[j].seen
    /\ job[j].at <= Len(records) + 1
    /\ job[j].done <= Len(UpOf(job[j].at))
    /\ \A i \in 1..job[j].done : UpOf(job[j].at)[i] \in works

(* An undo is at the last record, and no other run is there.               *)
TakesBack(j) ==
    /\ job[j].at = Len(records) /\ job[j].at \in Names
    /\ job[j].done <= Len(DownOf(job[j].at))
    /\ \A k \in Jobs \ {j} : job[k].does = "none"

(* A repair after the older release is gone leaves no value spoiled.       *)
Repairs(j) ==
    job[j].seen = {0} =>
        ~oldWriter /\ (job[j].read = <<>> \/ AsRead(j)
                                          \/ search \in {0, preview})

JobsAreSound ==
    \A j \in Jobs : /\ Working(j, "up") => Applies(j)
                    /\ Working(j, "down") => TakesBack(j)
                    /\ Working(j, "repair") => Repairs(j)

(* What a recorded migration set up stands, unless a later one that also   *)
(* sets it up is not on record (any more) or is half undone.               *)
Missed(m, w) ==
    \E o \in Names : /\ o > m /\ SetsUp(o, w)
                     /\ o > Len(records) \/ o \in torn

WorksStand ==
    /\ works \subseteq AllWorks /\ torn \subseteq 1..Len(records)
    /\ \A m \in (1..Len(records)) \ torn :
          \A w \in AllWorks : SetsUp(m, w) => w \in works \/ Missed(m, w)

(* An item's search values are missing or those of its preview.            *)
ItemIsRight ==
    /\ preview \in Nat /\ search \in Nat
    /\ search \in {0, preview} \/ spoiled

MigrationInvariant ==
    /\ RecordsInOrder /\ JobsTyped /\ JobsAreSound /\ WorksStand
    /\ ItemIsRight
-----------------------------------------------------------------------------
LEMMA EmptyPass ==
    /\ NoJob \in Passes /\ NoJob.does = "none"
<1>1. <<>> \in Reads
    BY DEF Reads
<1> QED
    BY <1>1 DEF NoJob, Passes

LEMMA TowardUp ==
    ASSUME NEW seen \in SUBSET (Names \cup {0}), NEW m \in Names
    PROVE  LET q == Toward("up", seen, m)
           IN  /\ q \in Passes /\ q.does = "up" /\ q.seen = seen
               /\ q.at = m /\ q.done = 0 /\ q.read = <<>>
<1>1. m # 0
    BY NamesAre
<1>2. <<>> \in Reads
    BY DEF Reads
<1> QED
    BY <1>1, <1>2 DEF Toward, NoJob, Passes

LEMMA TowardDown ==
    ASSUME NEW seen \in SUBSET (Names \cup {0}), NEW m \in Names
    PROVE  LET q == Toward("down", seen, m)
           IN  /\ q \in Passes /\ q.does = "down" /\ q.seen = seen
               /\ q.at = m /\ q.done = 0 /\ q.read = <<>>
<1>1. m # 0
    BY NamesAre
<1>2. <<>> \in Reads
    BY DEF Reads
<1> QED
    BY <1>1, <1>2 DEF Toward, NoJob, Passes

LEMMA TowardRepair ==
    ASSUME NEW seen \in SUBSET (Names \cup {0}), NEW m \in Names
    PROVE  LET q == Toward("repair", seen, m)
           IN  /\ q \in Passes /\ q.does = "repair" /\ q.seen = seen
               /\ q.at = m /\ q.done = 0 /\ q.read = <<>>
<1>1. m # 0
    BY NamesAre
<1>2. <<>> \in Reads
    BY DEF Reads
<1> QED
    BY <1>1, <1>2 DEF Toward, NoJob, Passes

LEMMA GoesOn ==
    ASSUME JobsTyped, NEW j \in Jobs, JobGoes(j)
    PROVE  \E q \in Passes :
              /\ job' = [job EXCEPT ![j] = q]
              /\ q.does = job[j].does /\ q.seen = job[j].seen
              /\ q.at = job[j].at /\ q.done = job[j].done + 1
              /\ q.read = <<>>
<1> DEFINE p == job[j]
           q == [p EXCEPT !.done = @ + 1, !.read = <<>>]
<1>1. job' = [job EXCEPT ![j] = q]
    BY DEF JobGoes
<1>2. p \in Passes
    BY DEF JobsTyped
<1> HIDE DEF p
<1>3. /\ q \in Passes /\ q.does = p.does /\ q.seen = p.seen
      /\ q.at = p.at /\ q.done = p.done + 1 /\ q.read = <<>>
    <2> DEFINE r == [p EXCEPT !.done = @ + 1]
               none == <<>>
    <2>1. /\ r \in Passes /\ r.does = p.does /\ r.seen = p.seen
          /\ r.at = p.at /\ r.done = p.done + 1
        BY <1>2 DEF Passes
    <2>2. q = [r EXCEPT !.read = none]
        OBVIOUS
    <2>3. none \in Reads
        BY DEF Reads
    <2> HIDE DEF r, none
    <2>4. LET o == [r EXCEPT !.read = none]
          IN  /\ o \in Passes /\ o.does = r.does /\ o.seen = r.seen
              /\ o.at = r.at /\ o.done = r.done /\ o.read = none
        BY <2>1, <2>3 DEF Passes
    <2> QED
        BY <2>1, <2>2, <2>4 DEF none
<1> QED
    BY <1>1, <1>3 DEF p

(* The records name the first migrations: the next one is the next name.   *)
LEMMA PendingIs ==
    ASSUME NEW k \in 0..15, NEW seen, NEW n,
           {m \in Names : m > n /\ m \notin seen} = {m \in Names : m > k}
    PROVE  Pending(seen, n) = IF k = 15 THEN 0 ELSE k + 1
<1>1. CASE k = 15
    <2>1. {m \in Names : m > k} = {}
        BY <1>1, NamesAre
    <2> QED
        BY <1>1, <2>1 DEF Pending
<1>2. CASE k # 15
    <2> DEFINE rest == {m \in Names : m > k}
    <2>1. k + 1 \in rest /\ \A m \in rest : k + 1 <= m /\ m \in Nat
        BY <1>2, NamesAre
    <2> HIDE DEF rest
    <2>2. \A m \in rest : (\A o \in rest : m <= o) => m = k + 1
        BY <2>1
    <2>3. (CHOOSE m \in rest : \A o \in rest : m <= o) = k + 1
        BY <2>1, <2>2
    <2> QED
        BY <1>2, <2>1, <2>3 DEF Pending, rest
<1> QED
    BY <1>1, <1>2

LEMMA RecordedAre ==
    ASSUME RecordsInOrder
    PROVE  /\ ToSet(records) = 1..Len(records)
           /\ \A i \in 1..Len(records) : i \in Names
<1>1. DOMAIN records = 1..Len(records)
    BY DEF RecordsInOrder
<1>2. ToSet(records) = {records[i] : i \in 1..Len(records)}
    BY <1>1 DEF ToSet
<1>3. {records[i] : i \in 1..Len(records)} = 1..Len(records)
    BY DEF RecordsInOrder
<1>4. Len(records) \in 0..15
    BY DEF RecordsInOrder
<1>5. ToSet(records) = 1..Len(records)
    BY <1>2, <1>3, Zenon
<1>6. \A i \in 1..Len(records) : i \in Names
    <2> DEFINE k == Len(records)
    <2> HIDE DEF k
    <2>1. k \in 0..15
        BY <1>4 DEF k
    <2>2. \A i \in 1..k : i \in 1..15
        BY <2>1
    <2>3. \A i \in 1..k : i \in Names
        BY <2>2, NameIs
    <2> QED
        BY <2>3 DEF k
<1> QED
    BY <1>5, <1>6

LEMMA NextPending ==
    ASSUME RecordsInOrder
    PROVE  /\ Pending(ToSet(records), 0)
                 = IF Len(records) = 15 THEN 0 ELSE Len(records) + 1
           /\ \A seen : \A n \in Names :
                 seen \subseteq 1..n
                 => Pending(seen, n) = IF n = 15 THEN 0 ELSE n + 1
<1> DEFINE k == Len(records)
<1>1. k \in 0..15
    BY DEF RecordsInOrder
<1>2. {m \in Names : m > 0 /\ m \notin ToSet(records)}
      = {m \in Names : m > k}
    BY <1>1, RecordedAre, NamesAre
<1>3. Pending(ToSet(records), 0) = IF k = 15 THEN 0 ELSE k + 1
    <2> HIDE DEF k
    <2> QED
        BY <1>1, <1>2, PendingIs
<1>4. ASSUME NEW seen, NEW n \in Names, seen \subseteq 1..n
      PROVE  Pending(seen, n) = IF n = 15 THEN 0 ELSE n + 1
    <2>1. n \in 0..15
        BY NamesAre
    <2>2. {m \in Names : m > n /\ m \notin seen} = {m \in Names : m > n}
        BY <1>4, NamesAre
    <2> QED
        BY <2>1, <2>2, PendingIs
<1> QED
    BY <1>3, <1>4

LEMMA MigrationInitInvariant == MigrationInit => MigrationInvariant
<1> SUFFICES ASSUME MigrationInit PROVE MigrationInvariant
    OBVIOUS
<1>1. records = <<>> /\ works = {} /\ torn = {}
    BY DEF MigrationInit
<1>2. RecordsInOrder
    BY <1>1 DEF RecordsInOrder
<1>3. \A j \in Jobs : job[j] = NoJob
    BY DEF MigrationInit
<1>4. JobsTyped
    BY EmptyPass DEF MigrationInit, JobsTyped
<1>5. JobsAreSound
    <2>1. NoJob.does # "up" /\ NoJob.does # "down" /\ NoJob.does # "repair"
        BY DEF NoJob
    <2> QED
        BY <1>3, <2>1, Zenon DEF JobsAreSound, Working
<1>6. WorksStand
    BY <1>1 DEF WorksStand
<1>7. ItemIsRight
    BY DEF MigrationInit, ItemIsRight
<1> QED
    BY <1>2, <1>4, <1>5, <1>6, <1>7 DEF MigrationInvariant

-----------------------------------------------------------------------------
(* The steps, by the part of the state they change.                        *)

(* A step of a run that takes nothing away.                                *)
DataStays ==
    /\ UNCHANGED <<records, torn, oldWriter>>
    /\ works \subseteq works' /\ works' \subseteq AllWorks
    /\ UNCHANGED <<preview, search>> \/ search' = preview'

SameData == UNCHANGED <<works, records, torn, preview, search, oldWriter,
                        spoiled>>

LEMMA SameDataStays ==
    ASSUME MigrationInvariant, SameData PROVE DataStays /\ ItemIsRight'
BY DEF MigrationInvariant, SameData, DataStays, WorksStand, ItemIsRight

LEMMA RunMoves ==
    ASSUME MigrationInvariant, DataStays, ItemIsRight',
           NEW j \in Jobs, NEW q \in Passes, job' = [job EXCEPT ![j] = q],
           Working(j, "up")' => Applies(j)',
           Working(j, "repair")' => Repairs(j)',
           Working(j, "down")' => TakesBack(j)',
           q.does = "none" \/ \A k \in Jobs \ {j} : ~Working(k, "down")
    PROVE  MigrationInvariant'
<1>1. RecordsInOrder' /\ WorksStand'
    BY DEF MigrationInvariant, DataStays, RecordsInOrder, WorksStand, Missed
<1>2. JobsTyped'
    BY DEF MigrationInvariant, JobsTyped
<1>3. job'[j] = q /\ \A k \in Jobs \ {j} : job'[k] = job[k]
    BY DEF MigrationInvariant, JobsTyped
<1>4. ASSUME NEW k \in Jobs \ {j}
      PROVE  /\ Working(k, "up")' => Applies(k)'
             /\ Working(k, "repair")' => Repairs(k)'
             /\ Working(k, "down")' => TakesBack(k)'
    <2>1. /\ Working(k, "up") => Applies(k)
          /\ Working(k, "repair") => Repairs(k)
          /\ Working(k, "down") => TakesBack(k)
        BY DEF MigrationInvariant, JobsAreSound
    <2>2. job'[k] = job[k]
        BY <1>3
    <2>3. Working(k, "up")' => Applies(k)'
        BY <2>1, <2>2 DEF Working, Applies, DataStays
    <2>4. Working(k, "repair")' => Repairs(k)'
        BY <2>1, <2>2 DEF Working, Repairs, DataStays, AsRead
    <2>5. ASSUME Working(k, "down")' PROVE TakesBack(k)'
        <3>1. Working(k, "down") /\ TakesBack(k)
            BY <2>1, <2>2, <2>5 DEF Working
        <3>2. q.does = "none"
            BY <3>1
        <3>3. \A i \in Jobs \ {k} : job'[i].does = "none"
            BY <1>3, <3>1, <3>2 DEF TakesBack
        <3> QED
            BY <2>2, <3>1, <3>3 DEF TakesBack, DataStays
    <2> QED
        BY <2>3, <2>4, <2>5
<1>5. JobsAreSound'
    BY <1>4 DEF JobsAreSound
<1> QED
    BY <1>1, <1>2, <1>5 DEF MigrationInvariant

LEMMA RunEnds ==
    ASSUME MigrationInvariant, SameData, NEW j \in Jobs, JobEnds(j)
    PROVE  MigrationInvariant'
<1>1. job' = [job EXCEPT ![j] = NoJob]
    BY DEF JobEnds
<1>2. ~Working(j, "up")' /\ ~Working(j, "repair")' /\ ~Working(j, "down")'
    <2>1. job'[j].does = "none"
        BY <1>1, EmptyPass DEF MigrationInvariant, JobsTyped
    <2> QED
        BY <2>1 DEF Working
<1> QED
    BY <1>1, <1>2, EmptyPass, RunMoves, SameDataStays

LEMMA BeginUpKeeps ==
    ASSUME MigrationInvariant, NEW j \in Jobs, BeginUp(j)
    PROVE  MigrationInvariant'
<1> DEFINE n == Len(records)
           q == Toward("up", 1..n, n + 1)
<1>1. RecordsInOrder /\ n \in 0..15
    BY DEF MigrationInvariant, RecordsInOrder
<1>2. job' = [job EXCEPT ![j] =
                  Toward("up", 1..n, IF n = 15 THEN 0 ELSE n + 1)]
    BY <1>1, NextPending, RecordedAre DEF BeginUp
<1>3. SameData
    BY DEF BeginUp, SameItem, SameData
<1>4. CASE n = 15
    <2>1. JobEnds(j)
        BY <1>2, <1>4 DEF JobEnds, Toward
    <2> QED
        BY <1>3, <2>1, RunEnds
<1>5. CASE n # 15
    <2>1. job' = [job EXCEPT ![j] = q]
        BY <1>2, <1>5
    <2> HIDE DEF n
    <2>2. n + 1 \in Names /\ (1..n) \in SUBSET (Names \cup {0})
        <3>1. n + 1 \in 1..15 /\ \A i \in 1..n : i \in 1..15
            BY <1>1, <1>5
        <3> QED
            BY <3>1, NameIs
    <2>3. /\ q \in Passes /\ q.does = "up" /\ q.seen = 1..n
          /\ q.at = n + 1 /\ q.done = 0
        BY <2>2, TowardUp
    <2> HIDE DEF q
    <2>4. job'[j] = q
        BY <2>1 DEF MigrationInvariant, JobsTyped
    <2>5. Applies(j)'
        <3>1. Len(records') = n /\ n \in Nat
            BY <1>1, <1>3 DEF n, SameData
        <3>2. Len(UpOf(n + 1)) \in Nat
            BY <2>2, WorksOfMigrations
        <3>3. job'[j].at = n + 1 /\ job'[j].seen = 1..n /\ job'[j].done = 0
            BY <2>3, <2>4
        <3> QED
            BY <2>2, <3>1, <3>2, <3>3 DEF Applies
    <2>6. ~Working(j, "repair")' /\ ~Working(j, "down")'
        BY <2>3, <2>4 DEF Working
    <2>7. \A k \in Jobs \ {j} : ~Working(k, "down")
        BY DEF BeginUp
    <2> QED
        BY <1>3, <2>1, <2>3, <2>5, <2>6, <2>7, RunMoves, SameDataStays
<1> QED
    BY <1>4, <1>5

LEMMA NextWorkIs ==
    ASSUME NEW j \in Jobs, JobsTyped, Applies(j), ~Built(j)
    PROVE  NextWork(j) \in AllWorks
<1> DEFINE n == job[j].at
           d == job[j].done
<1>1. n \in Names /\ d \in Nat
    BY DEF JobsTyped, Passes, Applies
<1>2. Len(UpOf(n)) \in Nat /\ d <= Len(UpOf(n)) /\ d # Len(UpOf(n))
    BY <1>1, WorksOfMigrations DEF Applies, Built, UpOf
<1>3. NextWork(j) = UpOf(n)[d + 1]
    BY DEF NextWork, UpOf
<1> HIDE DEF n, d
<1>4. d + 1 \in 1..Len(UpOf(n))
    BY <1>1, <1>2
<1> QED
    BY <1>1, <1>3, <1>4, AllWorksAre

(* The run goes on, after it built its next work.                          *)
LEMMA GoesOnKeeps ==
    ASSUME MigrationInvariant, DataStays, ItemIsRight', NEW j \in Jobs,
           Working(j, "up"), ~Built(j), NextWork(j) \in works', JobGoes(j)
    PROVE  MigrationInvariant'
<1>1. JobsTyped /\ Applies(j)
    BY DEF MigrationInvariant, JobsAreSound
<1>2. PICK q \in Passes :
         /\ job' = [job EXCEPT ![j] = q]
         /\ q.does = job[j].does /\ q.seen = job[j].seen
         /\ q.at = job[j].at /\ q.done = job[j].done + 1
         /\ q.read = <<>>
    BY <1>1, GoesOn
<1>3. job'[j] = q
    BY <1>1, <1>2 DEF JobsTyped
<1>4. q.does = "up" /\ q.does # "repair" /\ q.does # "down"
    BY <1>2 DEF Working
<1>5. Applies(j)'
    <2> DEFINE n == job[j].at
               d == job[j].done
    <2>1. n \in Names /\ d \in Nat
        BY <1>1 DEF JobsTyped, Passes, Applies
    <2>2. Len(UpOf(n)) \in Nat /\ d <= Len(UpOf(n)) /\ d # Len(UpOf(n))
        BY <1>1, <2>1, WorksOfMigrations DEF Applies, Built, UpOf
    <2>3. UpOf(n)[d + 1] \in works'
        BY DEF NextWork, UpOf
    <2>4. \A i \in 1..d : UpOf(n)[i] \in works'
        BY <1>1 DEF Applies, DataStays
    <2>5. job'[j].at = n /\ job'[j].done = d + 1 /\ job'[j].seen = job[j].seen
        BY <1>2, <1>3
    <2>6. /\ job[j].seen \subseteq 1..Len(records') /\ n \notin job[j].seen
          /\ n <= Len(records') + 1
        BY <1>1 DEF Applies, DataStays
    <2> HIDE DEF n, d
    <2>7. \A i \in 1..(d + 1) : UpOf(n)[i] \in works'
        BY <2>1, <2>3, <2>4
    <2>8. d + 1 <= Len(UpOf(n))
        BY <2>1, <2>2
    <2> QED
        BY <2>1, <2>5, <2>6, <2>7, <2>8 DEF Applies
<1>6. \A k \in Jobs \ {j} : ~Working(k, "down")
    <2> SUFFICES ASSUME NEW k \in Jobs \ {j}, Working(k, "down")
                 PROVE  FALSE
        OBVIOUS
    <2>1. job[j].does = "none"
        BY DEF MigrationInvariant, JobsAreSound, TakesBack
    <2> QED
        BY <2>1, <1>2, <1>4
<1>7. ~Working(j, "repair")' /\ ~Working(j, "down")'
    BY <1>3, <1>4 DEF Working
<1> QED
    BY <1>2, <1>5, <1>6, <1>7, RunMoves

LEMMA BuildKeeps ==
    ASSUME MigrationInvariant, NEW j \in Jobs, Build(j)
    PROVE  MigrationInvariant'
<1>1. Applies(j) /\ JobsTyped /\ works \subseteq AllWorks
    BY DEF MigrationInvariant, JobsAreSound, Build, WorksStand
<1>2. NextWork(j) \in AllWorks
    BY <1>1, NextWorkIs DEF Build
<1>3. DataStays
    BY <1>1, <1>2 DEF Build, SameItem, DataStays
<1>4. ItemIsRight'
    BY DEF MigrationInvariant, Build, SameItem, ItemIsRight
<1> QED
    BY <1>3, <1>4, GoesOnKeeps DEF Build

(* A migration comes on record: what it set up stands.                     *)
LEMMA RecordKeeps ==
    ASSUME MigrationInvariant, NEW j \in Jobs, Record(j)
    PROVE  MigrationInvariant'
<1> DEFINE n == job[j].at
           k == Len(records)
<1>1. Applies(j) /\ JobsTyped /\ RecordsInOrder /\ k \in 0..15
    BY DEF MigrationInvariant, JobsAreSound, Record, RecordsInOrder
<1>2. n \in Names /\ n \in 1..15 /\ n <= k + 1
    <2>1. n \in Names /\ n <= k + 1
        BY <1>1 DEF Applies
    <2> HIDE DEF n, k
    <2> QED
        BY <2>1, NameIs
<1>3. CASE n \in ToSet(records)
    BY <1>3, RunEnds DEF Record, SameItem, SameData
<1>4. CASE n \notin ToSet(records)
    <2>1. n = k + 1
        <3>1. n \notin 1..k
            BY <1>1, <1>4, RecordedAre
        <3> HIDE DEF n, k
        <3> QED
            BY <1>1, <1>2, <3>1
    <2>2. /\ records' = Append(records, n)
          /\ job' = [job EXCEPT ![j] = Toward("up", job[j].seen,
                                              Pending(job[j].seen, n))]
          /\ UNCHANGED <<works, torn, preview, search, oldWriter, spoiled>>
        BY <1>4 DEF Record, SameItem
    <2>3. Len(records') = k + 1 /\ RecordsInOrder'
        <3>1. records \in Seq(Names)
            BY <1>1 DEF RecordsInOrder
        <3>2. Len(records') = k + 1 /\ records' \in Seq(Names)
            BY <1>2, <2>2, <3>1
        <3>3. ASSUME NEW i \in 1..(k + 1) PROVE records'[i] = i
            <4>1. CASE i = k + 1
                BY <1>1, <2>1, <2>2, <3>1, <4>1
            <4>2. CASE i # k + 1
                <5>1. i \in 1..k
                    BY <1>1, <4>2
                <5>2. records'[i] = records[i]
                    BY <2>2, <3>1, <5>1
                <5> QED
                    BY <1>1, <5>1, <5>2 DEF RecordsInOrder
            <4> QED
                BY <4>1, <4>2
        <3>4. k + 1 \in 0..15
            BY <1>1, <1>2, <2>1
        <3> QED
            BY <3>2, <3>3, <3>4 DEF RecordsInOrder
    <2>4. \A i \in 1..Len(UpOf(n)) : UpOf(n)[i] \in works
        <3>1. job[j].done = Len(UpOf(n))
            BY DEF Record, Built, UpOf
        <3> QED
            BY <1>1, <3>1 DEF Applies
    <2>5. WorksStand'
        <3>1. torn' \subseteq 1..Len(records') /\ works' \subseteq AllWorks
            <4>1. torn \subseteq 1..k /\ works \subseteq AllWorks
                BY DEF MigrationInvariant, WorksStand
            <4> HIDE DEF k
            <4> QED
                BY <1>1, <2>2, <2>3, <4>1
        <3>2. ASSUME NEW m \in (1..Len(records')) \ torn', NEW w \in AllWorks,
                     SetsUp(m, w)
              PROVE  w \in works' \/ Missed(m, w)'
            <4>1. CASE m = n
                BY <2>2, <2>4, <3>2, <4>1 DEF SetsUp
            <4>2. CASE m # n
                <5>1. m \in (1..k) \ torn
                    <6> HIDE DEF k, n
                    <6> QED
                        BY <1>1, <2>1, <2>2, <2>3, <4>2
                <5>2. w \in works \/ Missed(m, w)
                    BY <3>2, <5>1 DEF MigrationInvariant, WorksStand
                <5>3. CASE w \in works
                    BY <2>2, <5>3
                <5>4. ASSUME NEW o \in Names, o > m, SetsUp(o, w),
                             o > k \/ o \in torn
                      PROVE  w \in works' \/ Missed(m, w)'
                    <6>1. CASE o = n
                        BY <2>2, <2>4, <5>4, <6>1 DEF SetsUp
                    <6>2. CASE o # n
                        <7>1. o \in Nat
                            BY NameIs
                        <7>2. o > k + 1 \/ o \in torn
                            <8> HIDE DEF k, n
                            <8> QED
                                BY <1>1, <2>1, <5>4, <6>2, <7>1
                        <7> QED
                            BY <2>2, <2>3, <5>4, <7>2 DEF Missed
                    <6> QED
                        BY <6>1, <6>2
                <5> QED
                    BY <5>2, <5>3, <5>4 DEF Missed
            <4> QED
                BY <4>1, <4>2
        <3> QED
            BY <3>1, <3>2 DEF WorksStand
    <2>6. ItemIsRight'
        BY <2>2 DEF MigrationInvariant, ItemIsRight
    <2> DEFINE q == Toward("up", job[j].seen, Pending(job[j].seen, n))
    <2>7. Pending(job[j].seen, n) = IF n = 15 THEN 0 ELSE n + 1
        <3>1. job[j].seen \subseteq 1..n
            <4>1. job[j].seen \subseteq 1..k
                BY <1>1 DEF Applies
            <4> HIDE DEF k, n
            <4> QED
                BY <1>1, <2>1, <4>1
        <3> HIDE DEF n
        <3> QED
            BY <1>1, <1>2, <3>1, NextPending
    <2>8. /\ q \in Passes
          /\ q.does # "none" => /\ q.does = "up" /\ q.at = n + 1
                                /\ n + 1 \in Names /\ q.done = 0
                                /\ q.seen = job[j].seen
        <3> DEFINE s == job[j].seen
        <3>1. s \in SUBSET (Names \cup {0})
            BY <1>1 DEF JobsTyped, Passes
        <3>2. n # 15 => n + 1 \in Names
            <4>1. n # 15 => n + 1 \in 1..15
                BY <1>2
            <4> QED
                BY <4>1, NameIs
        <3> HIDE DEF n, s
        <3>3. CASE n = 15
            <4>1. Toward("up", s, 0) = NoJob
                BY DEF Toward
            <4>2. q = NoJob
                BY <2>7, <3>3, <4>1 DEF s
            <4> HIDE DEF q
            <4> QED
                BY <4>2, EmptyPass
        <3>4. CASE n # 15
            <4>1. q = Toward("up", s, n + 1)
                BY <2>7, <3>4 DEF s
            <4>2. LET o == Toward("up", s, n + 1)
                  IN  /\ o \in Passes /\ o.does = "up" /\ o.seen = s
                      /\ o.at = n + 1 /\ o.done = 0
                BY <3>1, <3>2, <3>4, TowardUp
            <4> HIDE DEF q
            <4> QED
                BY <3>2, <3>4, <4>1, <4>2 DEF s
        <3> QED
            BY <3>3, <3>4
    <2> HIDE DEF q
    <2>9. job' = [job EXCEPT ![j] = q] /\ job'[j] = q
        BY <1>1, <2>2 DEF q, JobsTyped
    <2>10. JobsTyped'
        BY <1>1, <2>8, <2>9 DEF JobsTyped
    <2>11. ASSUME NEW i \in Jobs, Working(i, "up")' PROVE Applies(i)'
        <3>1. CASE i = j
            <4>1. q.does # "none"
                BY <2>9, <2>11, <3>1 DEF Working
            <4>2. /\ job'[i].at = n + 1 /\ n + 1 \in Names
                  /\ job'[i].done = 0 /\ job'[i].seen = job[j].seen
                BY <2>8, <2>9, <3>1, <4>1
            <4>3. job[j].seen \subseteq 1..(k + 1) /\ n + 1 \notin job[j].seen
                <5>1. job[j].seen \subseteq 1..k
                    BY <1>1 DEF Applies
                <5> HIDE DEF k, n
                <5> QED
                    BY <1>1, <2>1, <5>1
            <4>4. n + 1 <= Len(records') + 1
                BY <1>2, <2>1, <2>3
            <4>5. 0 <= Len(UpOf(n + 1)) /\ (1..0) = {}
                BY <4>2, WorksOfMigrations
            <4> HIDE DEF n, k
            <4> QED
                BY <2>3, <4>2, <4>3, <4>4, <4>5 DEF Applies
        <3>2. CASE i # j
            <4>1. job'[i] = job[i]
                BY <1>1, <2>9, <3>2 DEF JobsTyped
            <4>2. Applies(i)
                BY <2>11, <4>1 DEF Working, MigrationInvariant, JobsAreSound
            <4>3. job[i].at \in Nat
                BY <4>2, NameIs DEF Applies
            <4>4. job'[i].at <= Len(records') + 1
                BY <1>1, <2>3, <4>1, <4>2, <4>3 DEF Applies
            <4>5. job'[i].seen \subseteq 1..Len(records')
                <5>1. job[i].seen \subseteq 1..k
                    BY <4>2 DEF Applies
                <5> HIDE DEF k
                <5> QED
                    BY <1>1, <2>3, <4>1, <5>1
            <4> QED
                BY <2>2, <4>1, <4>2, <4>4, <4>5 DEF Applies
        <3> QED
            BY <3>1, <3>2
    <2>12. ASSUME NEW i \in Jobs, Working(i, "down")' PROVE TakesBack(i)'
        <3>1. CASE i = j
            BY <2>8, <2>9, <2>12, <3>1 DEF Working
        <3>2. CASE i # j
            <4>1. Working(i, "down")
                BY <1>1, <2>9, <2>12, <3>2 DEF JobsTyped, Working
            <4>2. job[j].does = "none"
                BY <3>2, <4>1 DEF MigrationInvariant, JobsAreSound, TakesBack
            <4> QED
                BY <4>2 DEF Record, Working
        <3> QED
            BY <3>1, <3>2
    <2>13. ASSUME NEW i \in Jobs, Working(i, "repair")' PROVE Repairs(i)'
        <3>1. CASE i = j
            BY <2>8, <2>9, <2>13, <3>1 DEF Working
        <3>2. CASE i # j
            <4>1. job'[i] = job[i]
                BY <1>1, <2>9, <3>2 DEF JobsTyped
            <4>2. Repairs(i)
                BY <2>13, <4>1 DEF Working, MigrationInvariant, JobsAreSound
            <4> QED
                BY <2>2, <4>1, <4>2 DEF Repairs, AsRead
        <3> QED
            BY <3>1, <3>2
    <2>14. JobsAreSound'
        BY <2>11, <2>12, <2>13 DEF JobsAreSound
    <2> QED
        BY <2>3, <2>5, <2>6, <2>10, <2>14 DEF MigrationInvariant
<1> QED
    BY <1>3, <1>4

LEMMA JobDiesKeeps ==
    ASSUME MigrationInvariant, NEW j \in Jobs, JobDies(j)
    PROVE  MigrationInvariant'
BY RunEnds DEF JobDies, SameItem, SameData

LEMMA BeginDownKeeps ==
    ASSUME MigrationInvariant, NEW j \in Jobs, BeginDown(j)
    PROVE  MigrationInvariant'
<1> DEFINE n == Len(records)
           q == Toward("down", {}, n)
<1>1. RecordsInOrder /\ n \in 0..15 /\ n # 0
    BY DEF MigrationInvariant, RecordsInOrder, BeginDown
<1>2. Last(records) = n
    BY <1>1 DEF RecordsInOrder, Last
<1>3. n \in Names
    <2> HIDE DEF n
    <2> QED
        BY <1>1, NameIs
<1>4. job' = [job EXCEPT ![j] = q] /\ SameData
    BY <1>2 DEF BeginDown, SameBase, SameItem, SameData
<1> HIDE DEF n
<1>5. /\ q \in Passes /\ q.does = "down" /\ q.at = n /\ q.done = 0
    BY <1>3, TowardDown
<1> HIDE DEF q
<1>6. job'[j] = q /\ \A k \in Jobs \ {j} : job'[k] = job[k]
    BY <1>4 DEF MigrationInvariant, JobsTyped
<1>7. TakesBack(j)'
    <2>1. job'[j].at = Len(records') /\ job'[j].at \in Names
        BY <1>3, <1>4, <1>5, <1>6 DEF n, SameData
    <2>2. job'[j].done <= Len(DownOf(job'[j].at))
        BY <1>3, <1>5, <1>6, WorksOfMigrations
    <2>3. \A k \in Jobs \ {j} : job'[k].does = "none"
        BY <1>6 DEF BeginDown, Alone
    <2> QED
        BY <2>1, <2>2, <2>3 DEF TakesBack
<1>8. ~Working(j, "up")' /\ ~Working(j, "repair")'
    BY <1>5, <1>6 DEF Working
<1>9. \A k \in Jobs \ {j} : ~Working(k, "down")
    BY DEF BeginDown, Alone, Working
<1> QED
    BY <1>4, <1>5, <1>7, <1>8, <1>9, RunMoves, SameDataStays

LEMMA BeginRepairKeeps ==
    ASSUME MigrationInvariant, NEW j \in Jobs, BeginRepair(j)
    PROVE  MigrationInvariant'
<1> DEFINE seen == IF oldWriter THEN {} ELSE {0}
           q == Toward("repair", seen, 13)
<1>1. job' = [job EXCEPT ![j] = q] /\ SameData
    BY DEF BeginRepair, SameBase, SameItem, SameData
<1>2. 13 \in Names /\ seen \in SUBSET (Names \cup {0})
    BY NameIs
<1>3. seen = {0} => ~oldWriter
    OBVIOUS
<1> HIDE DEF seen
<1>4. /\ q \in Passes /\ q.does = "repair" /\ q.seen = seen /\ q.read = <<>>
    BY <1>2, TowardRepair
<1> HIDE DEF q
<1>5. job'[j] = q
    BY <1>1 DEF MigrationInvariant, JobsTyped
<1>6. Repairs(j)'
    BY <1>1, <1>3, <1>4, <1>5 DEF Repairs, SameData
<1>7. ~Working(j, "up")' /\ ~Working(j, "down")'
    BY <1>4, <1>5 DEF Working
<1>8. \A k \in Jobs \ {j} : ~Working(k, "down")
    BY DEF BeginRepair, Alone, Working
<1> QED
    BY <1>1, <1>4, <1>6, <1>7, <1>8, RunMoves, SameDataStays

(* A work is taken away: who else set it up is missing it, and why.        *)
LEMMA UndoKeeps ==
    ASSUME MigrationInvariant, NEW j \in Jobs, Undo(j)
    PROVE  MigrationInvariant'
<1> DEFINE n == job[j].at
           d == job[j].done
           work == DownOf(n)[d + 1]
<1>1. Working(j, "down") /\ TakesBack(j) /\ JobsTyped /\ RecordsInOrder
    BY DEF Undo, MigrationInvariant, JobsAreSound
<1>2. n \in Names /\ n = Len(records) /\ d \in Nat
    BY <1>1 DEF TakesBack, JobsTyped, Passes
<1>3. Len(DownOf(n)) \in Nat /\ d <= Len(DownOf(n)) /\ d # Len(DownOf(n))
    BY <1>1, <1>2, WorksOfMigrations DEF TakesBack, Undo, Gone, DownOf
<1>4. SetsUp(n, work)
    <2>1. TakesAway(n, work)
        <3> HIDE DEF n, d
        <3>1. d + 1 \in 1..Len(DownOf(n))
            BY <1>2, <1>3
        <3> QED
            BY <3>1 DEF TakesAway
    <2> QED
        BY <1>2, <2>1, WorksOfMigrations
<1>5. CASE Strict(n) /\ work \notin works
    BY <1>5, RunEnds DEF Undo, DownOf, SameItem, SameData
<1>6. CASE ~(Strict(n) /\ work \notin works)
    <2>1. /\ works' = works \ {work} /\ torn' = torn \cup {n} /\ JobGoes(j)
          /\ UNCHANGED <<records, preview, search, oldWriter, spoiled>>
        BY <1>6 DEF Undo, DownOf, SameItem
    <2>2. RecordsInOrder' /\ ItemIsRight'
        BY <2>1 DEF MigrationInvariant, RecordsInOrder, ItemIsRight
    <2> HIDE DEF work
    <2>3. WorksStand'
        <3>1. works \subseteq AllWorks /\ torn \subseteq 1..Len(records)
            BY DEF MigrationInvariant, WorksStand
        <3>2. n \in 1..Len(records')
            <4>1. n \in Nat /\ n >= 1
                BY <1>2, NameIs
            <4> QED
                BY <1>2, <2>1, <4>1
        <3>3. works' \subseteq AllWorks /\ torn' \subseteq 1..Len(records')
            BY <2>1, <3>1, <3>2
        <3>4. ASSUME NEW m \in (1..Len(records')) \ torn', NEW w \in AllWorks,
                     SetsUp(m, w)
              PROVE  w \in works' \/ Missed(m, w)'
            <4>1. m \in (1..Len(records)) \ torn /\ m # n
                BY <2>1
            <4>2. w \in works \/ Missed(m, w)
                BY <3>4, <4>1 DEF MigrationInvariant, WorksStand
            <4>3. Missed(m, w) => Missed(m, w)'
                BY <2>1 DEF Missed
            <4>4. CASE w = work
                <5>1. n > m
                    <6>1. n \in Nat
                        BY <1>2, NameIs
                    <6> HIDE DEF n
                    <6> QED
                        BY <1>2, <4>1, <6>1
                <5> QED
                    BY <1>2, <1>4, <2>1, <4>4, <5>1 DEF Missed
            <4>5. CASE w # work
                BY <2>1, <4>2, <4>3, <4>5
            <4> QED
                BY <4>4, <4>5
        <3> QED
            BY <3>3, <3>4 DEF WorksStand
    <2>4. PICK q \in Passes :
             /\ job' = [job EXCEPT ![j] = q]
             /\ q.does = job[j].does /\ q.at = n /\ q.done = d + 1
        BY <1>1, <2>1, GoesOn
    <2>5. job'[j] = q /\ \A k \in Jobs \ {j} : job'[k].does = "none"
        BY <1>1, <2>4 DEF JobsTyped, TakesBack
    <2>6. JobsTyped'
        BY <1>1, <2>4 DEF JobsTyped
    <2>7. TakesBack(j)'
        <3>1. job'[j].at = Len(records') /\ job'[j].at \in Names
            BY <1>2, <2>1, <2>4, <2>5
        <3>2. job'[j].done <= Len(DownOf(job'[j].at))
            <4>1. job'[j].at = n /\ job'[j].done = d + 1
                BY <2>4, <2>5
            <4> HIDE DEF n, d
            <4> QED
                BY <1>2, <1>3, <4>1
        <3> QED
            BY <2>5, <3>1, <3>2 DEF TakesBack
    <2>8. q.does = "down"
        BY <1>1, <2>4 DEF Working
    <2>9. JobsAreSound'
        BY <2>5, <2>7, <2>8 DEF JobsAreSound, Working
    <2> QED
        BY <2>2, <2>3, <2>6, <2>9 DEF MigrationInvariant
<1> QED
    BY <1>5, <1>6

(* The latest record goes: what the migration set up counts no more.       *)
LEMMA UnrecordKeeps ==
    ASSUME MigrationInvariant, NEW j \in Jobs, Unrecord(j)
    PROVE  MigrationInvariant'
<1> DEFINE n == Len(records)
<1>1. Working(j, "down") /\ TakesBack(j) /\ JobsTyped /\ RecordsInOrder
    BY DEF Unrecord, MigrationInvariant, JobsAreSound
<1>2. n \in Names /\ n = job[j].at /\ n \in Nat /\ n >= 1 /\ n <= 15
    BY <1>1, NameIs DEF TakesBack
<1>3. /\ records' = Front(records) /\ torn' = torn \ {n} /\ JobEnds(j)
      /\ UNCHANGED <<works, preview, search, oldWriter, spoiled>>
    BY <1>2 DEF Unrecord, SameItem
<1>4. records \in Seq(Names) /\ records' = SubSeq(records, 1, n - 1)
    BY <1>1, <1>3 DEF RecordsInOrder, Front
<1>5. /\ Len(records') = n - 1
      /\ \A i \in 1..(n - 1) : records'[i] = records[i]
      /\ records' \in Seq(Names)
    BY <1>2, <1>4
<1>6. RecordsInOrder'
    <2>1. \A i \in 1..n : records[i] = i
        BY <1>1 DEF RecordsInOrder
    <2> HIDE DEF n
    <2>2. ASSUME NEW i \in 1..(n - 1) PROVE records'[i] = i
        <3>1. i \in 1..n
            BY <1>2
        <3> QED
            BY <1>5, <2>1, <3>1
    <2>3. n - 1 \in 0..15
        BY <1>2
    <2> QED
        BY <1>5, <2>2, <2>3 DEF RecordsInOrder
<1>7. WorksStand'
    <2>1. works \subseteq AllWorks /\ torn \subseteq 1..n
        BY DEF MigrationInvariant, WorksStand
    <2>2. works' \subseteq AllWorks /\ torn' \subseteq 1..Len(records')
        <3> HIDE DEF n
        <3>1. \A i \in (1..n) \ {n} : i \in 1..(n - 1)
            BY <1>2
        <3>2. torn' \subseteq 1..(n - 1)
            BY <1>3, <2>1, <3>1
        <3> QED
            BY <1>3, <1>5, <2>1, <3>2
    <2>3. ASSUME NEW m \in (1..Len(records')) \ torn', NEW w \in AllWorks,
                 SetsUp(m, w)
          PROVE  w \in works' \/ Missed(m, w)'
        <3>1. m \in (1..n) \ torn
            <4> HIDE DEF n
            <4> QED
                BY <1>2, <1>3, <1>5
        <3>2. w \in works \/ Missed(m, w)
            BY <2>3, <3>1 DEF MigrationInvariant, WorksStand
        <3>3. Missed(m, w) => Missed(m, w)'
            <4> SUFFICES ASSUME NEW o \in Names, o > m, SetsUp(o, w),
                                o > n \/ o \in torn
                         PROVE  Missed(m, w)'
                BY DEF Missed
            <4>1. o \in Nat
                BY NameIs
            <4>2. o > n - 1 \/ o \in torn'
                <5> HIDE DEF n
                <5> QED
                    BY <1>2, <1>3, <4>1
            <4> QED
                BY <1>5, <4>2 DEF Missed
        <3> QED
            BY <1>3, <3>2, <3>3
    <2> QED
        BY <2>2, <2>3 DEF WorksStand
<1>8. ItemIsRight'
    BY <1>3 DEF MigrationInvariant, ItemIsRight
<1>9. \A k \in Jobs : job'[k].does = "none"
    <2>1. job' = [job EXCEPT ![j] = NoJob]
        BY <1>3 DEF JobEnds
    <2>2. job'[j] = NoJob /\ \A k \in Jobs \ {j} : job'[k] = job[k]
        BY <1>1, <2>1 DEF JobsTyped
    <2> QED
        BY <1>1, <2>2, EmptyPass DEF TakesBack
<1>10. JobsTyped'
    BY <1>1, <1>3, EmptyPass DEF JobsTyped, JobEnds
<1>11. JobsAreSound'
    BY <1>9 DEF JobsAreSound, Working
<1> QED
    BY <1>6, <1>7, <1>8, <1>10, <1>11 DEF MigrationInvariant

-----------------------------------------------------------------------------
LEMMA NoneUndoes ==
    ASSUME MigrationInvariant, NEW j \in Jobs, job[j].does # "none"
    PROVE  \A k \in Jobs \ {j} : ~Working(k, "down")
BY DEF MigrationInvariant, JobsAreSound, TakesBack

(* The values of the item are those of its preview after this.             *)
LEMMA FilledKeeps ==
    ASSUME MigrationInvariant, NEW j \in Jobs, AtValues(j), Filled(j),
           UNCHANGED <<records, torn, oldWriter, preview>>,
           search' = search \/ search' = preview,
           search' \in {0, preview} \/ spoiled'
    PROVE  MigrationInvariant'
<1>1. works' = works \cup {"search values"}
    BY DEF Filled
<1>2. works \subseteq AllWorks /\ ItemIsRight
    BY DEF MigrationInvariant, WorksStand
<1>3. works' \subseteq AllWorks
    <2> DEFINE w == "search values"
    <2>1. works' = works \cup {w} /\ w \in AllWorks
        BY <1>1, AllWorksAre
    <2> HIDE DEF w
    <2> QED
        BY <1>2, <2>1
<1>4. DataStays
    BY <1>1, <1>3 DEF DataStays
<1>5. ItemIsRight'
    BY <1>2 DEF ItemIsRight
<1>6. CASE Working(j, "repair")
    <2>1. JobEnds(j)
        BY <1>6 DEF Filled
    <2>2. job' = [job EXCEPT ![j] = NoJob]
        BY <2>1 DEF JobEnds
    <2>3. job'[j].does = "none"
        BY <2>2, EmptyPass DEF MigrationInvariant, JobsTyped
    <2>4. ~Working(j, "up")' /\ ~Working(j, "repair")' /\ ~Working(j, "down")'
        BY <2>3 DEF Working
    <2> QED
        BY <1>4, <1>5, <2>2, <2>4, EmptyPass, RunMoves
<1>7. CASE ~Working(j, "repair")
    <2>1. /\ Working(j, "up") /\ ~Built(j) /\ JobGoes(j)
          /\ NextWork(j) = "search values"
        BY <1>7, Zenon DEF AtValues, Filled
    <2>2. NextWork(j) \in works'
        BY <1>1, <2>1
    <2> QED
        BY <1>4, <1>5, <2>1, <2>2, GoesOnKeeps
<1> QED
    BY <1>6, <1>7

(* A run reads the item, or finds it right.                                *)
LEMMA ScanKeeps ==
    ASSUME MigrationInvariant, NEW j \in Jobs, Scan(j)
    PROVE  MigrationInvariant'
<1>1. UNCHANGED <<records, torn, preview, search, oldWriter>> /\ AtValues(j)
    BY DEF Scan
<1>2. JobsTyped /\ ItemIsRight
    BY DEF MigrationInvariant
<1>3. CASE Wanted(j)
    <2> DEFINE p == job[j]
               r == <<preview, search>>
               q == [p EXCEPT !.read = r]
    <2>1. job' = [job EXCEPT ![j] = q] /\ UNCHANGED <<works, spoiled>>
        BY <1>3 DEF Scan
    <2>2. p \in Passes
        BY <1>2 DEF JobsTyped
    <2>3. r \in Reads
        BY <1>2 DEF ItemIsRight, Reads
    <2> HIDE DEF r, p
    <2>4. /\ q \in Passes /\ q.does = p.does /\ q.seen = p.seen
          /\ q.at = p.at /\ q.done = p.done /\ q.read = r
        BY <2>2, <2>3 DEF Passes
    <2> HIDE DEF q
    <2>5. job'[j] = q
        BY <1>2, <2>1 DEF JobsTyped
    <2>6. SameData
        BY <1>1, <2>1 DEF SameData
    <2>7. Working(j, "up")' => Applies(j)'
        <3>1. Working(j, "up") => Applies(j)
            BY DEF MigrationInvariant, JobsAreSound
        <3> QED
            BY <2>4, <2>5, <2>6, <3>1 DEF Working, Applies, SameData, p
    <2>8. Working(j, "repair")' => Repairs(j)'
        <3>1. Working(j, "repair") => Repairs(j)
            BY DEF MigrationInvariant, JobsAreSound
        <3>2. AsRead(j)'
            BY <2>4, <2>5, <2>6 DEF AsRead, SameData, r
        <3> QED
            BY <2>4, <2>5, <2>6, <3>1, <3>2
               DEF Working, Repairs, SameData, p
    <2>9. q.does # "down" /\ job[j].does # "none"
        BY <1>1, <2>4 DEF AtValues, Working, p
    <2>10. ~Working(j, "down")'
        BY <2>5, <2>9 DEF Working
    <2> QED
        BY <2>1, <2>4, <2>6, <2>7, <2>8, <2>9, <2>10, NoneUndoes, RunMoves,
           SameDataStays
<1>4. CASE ~Wanted(j)
    <2>1. Filled(j)
        BY <1>4 DEF Scan
    <2>2. search' \in {0, preview} \/ spoiled'
        <3>1. spoiled' <=> spoiled /\ ~(Working(j, "repair")
                                         /\ job[j].seen = {0})
            BY <2>1 DEF Filled
        <3>2. Working(j, "repair") => search = preview
            BY <1>4 DEF Wanted
        <3> QED
            BY <1>1, <1>2, <3>1, <3>2 DEF ItemIsRight
    <2> QED
        BY <1>1, <2>1, <2>2, FilledKeeps
<1> QED
    BY <1>3, <1>4

(* A run writes the values of the preview it read, if the item is as read. *)
LEMMA PatchKeeps ==
    ASSUME MigrationInvariant, NEW j \in Jobs, Patch(j)
    PROVE  MigrationInvariant'
<1>1. /\ UNCHANGED <<records, torn, preview, oldWriter>>
      /\ AtValues(j) /\ Filled(j) /\ job[j].read # <<>>
    BY DEF Patch
<1>2. ItemIsRight
    BY DEF MigrationInvariant
<1>3. AsRead(j) => search' = preview
    BY DEF Patch, AsRead
<1>4. ~AsRead(j) => search' = search
    BY DEF Patch
<1>5. search' \in {0, preview} \/ spoiled'
    <2>1. spoiled' <=> spoiled /\ ~(Working(j, "repair")
                                     /\ job[j].seen = {0})
        BY <1>1 DEF Filled
    <2>2. Working(j, "repair") => Repairs(j)
        BY DEF MigrationInvariant, JobsAreSound
    <2> QED
        BY <1>1, <1>2, <1>3, <1>4, <2>1, <2>2 DEF ItemIsRight, Repairs
<1>6. search' = search \/ search' = preview
    BY <1>3, <1>4
<1> QED
    BY <1>1, <1>5, <1>6, FilledKeeps

(* An item changes, or the older release is gone.                          *)
LEMMA ItemMoves ==
    ASSUME MigrationInvariant, SameBase, UNCHANGED job, ItemIsRight',
           oldWriter' => oldWriter,
           oldWriter => oldWriter' \/ UNCHANGED <<preview, search>>,
           ~oldWriter => UNCHANGED <<preview, search>> \/ search' = preview'
    PROVE  MigrationInvariant'
<1>1. RecordsInOrder' /\ WorksStand' /\ JobsTyped'
    BY DEF MigrationInvariant, SameBase, RecordsInOrder, WorksStand, Missed,
           JobsTyped
<1>2. ASSUME NEW j \in Jobs
      PROVE  /\ Working(j, "up")' => Applies(j)'
             /\ Working(j, "down")' => TakesBack(j)'
             /\ Working(j, "repair")' => Repairs(j)'
    <2>1. /\ Working(j, "up") => Applies(j)
          /\ Working(j, "down") => TakesBack(j)
          /\ Working(j, "repair") => Repairs(j)
        BY DEF MigrationInvariant, JobsAreSound
    <2>2. Working(j, "up")' => Applies(j)'
        BY <2>1 DEF Working, Applies, SameBase
    <2>3. Working(j, "down")' => TakesBack(j)'
        BY <2>1 DEF Working, TakesBack, SameBase
    <2>4. Working(j, "repair")' => Repairs(j)'
        BY <2>1 DEF Working, Repairs, AsRead
    <2> QED
        BY <2>2, <2>3, <2>4
<1> QED
    BY <1>1, <1>2 DEF MigrationInvariant, JobsAreSound

LEMMA ChangesKeep ==
    ASSUME MigrationInvariant, ChangeStock \/ ChangeStockOld \/ OldDrains
    PROVE  MigrationInvariant'
<1>1. ItemIsRight
    BY DEF MigrationInvariant
<1>2. CASE ChangeStock
    BY <1>1, <1>2, ItemMoves DEF ChangeStock, ItemIsRight
<1>3. CASE ChangeStockOld
    <2>1. ItemIsRight'
        <3>1. spoiled' <=> search # 0
            BY <1>3, Zenon DEF ChangeStockOld
        <3>2. preview' = preview + 1 /\ search' = search
            BY <1>3 DEF ChangeStockOld
        <3>3. preview' \in Nat /\ search' \in Nat
            BY <1>1, <3>2 DEF ItemIsRight
        <3>4. search' \in {0, preview'} \/ spoiled'
            BY <3>1, <3>2
        <3> QED
            BY <3>3, <3>4 DEF ItemIsRight
    <2> QED
        BY <1>3, <2>1, ItemMoves DEF ChangeStockOld
<1>4. CASE OldDrains
    <2>1. ItemIsRight'
        BY <1>1, <1>4 DEF OldDrains, ItemIsRight
    <2> QED
        BY <1>4, <2>1, ItemMoves DEF OldDrains
<1> QED
    BY <1>2, <1>3, <1>4
-----------------------------------------------------------------------------
LEMMA MigrationKeepsInvariant ==
    MigrationInvariant /\ [MigrationNext]_migrationVars
    => MigrationInvariant'
<1> SUFFICES ASSUME MigrationInvariant, [MigrationNext]_migrationVars
             PROVE  MigrationInvariant'
    OBVIOUS
<1>1. ASSUME NEW j \in Jobs,
             \/ BeginUp(j) \/ Build(j) \/ Record(j)
             \/ BeginDown(j) \/ Undo(j) \/ Unrecord(j) \/ JobDies(j)
             \/ BeginRepair(j) \/ Scan(j) \/ Patch(j)
      PROVE  MigrationInvariant'
    BY <1>1, BeginUpKeeps, BuildKeeps, RecordKeeps, BeginDownKeeps,
       UndoKeeps, UnrecordKeeps, JobDiesKeeps, BeginRepairKeeps, ScanKeeps,
       PatchKeeps
<1>2. CASE ChangeStock \/ ChangeStockOld \/ OldDrains
    BY <1>2, ChangesKeep
<1>3. CASE UNCHANGED migrationVars
    <2>1. SameBase /\ UNCHANGED <<job, preview, search, oldWriter, spoiled>>
        BY <1>3 DEF migrationVars, SameBase
    <2>2. ItemIsRight'
        BY <2>1 DEF MigrationInvariant, ItemIsRight
    <2> QED
        BY <2>1, <2>2, ItemMoves
<1> QED
    BY <1>1, <1>2, <1>3 DEF MigrationNext

LEMMA InvariantIsReady == MigrationInvariant => RecordedIsReady
<1> SUFFICES ASSUME MigrationInvariant PROVE RecordedIsReady
    OBVIOUS
<1>1. search \in {0, preview} \/ spoiled
    BY DEF MigrationInvariant, ItemIsRight
<1>2. ASSUME ToSet(records) = Names, torn = {} PROVE works = AllWorks
    <2> DEFINE k == Len(records)
    <2>1. k \in 0..15 /\ ToSet(records) = 1..k
        BY RecordedAre DEF MigrationInvariant, RecordsInOrder
    <2>2. 15 \in 1..k
        BY <1>2, <2>1, NameIs
    <2>3. k = 15
        <3> HIDE DEF k
        <3> QED
            BY <2>1, <2>2
    <2>4. ASSUME NEW w \in AllWorks PROVE w \in works
        <3>1. PICK m \in Names : SetsUp(m, w)
            BY AllWorksAre
        <3>2. m \in 1..15
            BY NameIs
        <3>3. m \in (1..k) \ torn
            <4> HIDE DEF k
            <4> QED
                BY <1>2, <2>3, <3>2
        <3>4. w \in works \/ Missed(m, w)
            BY <3>1, <3>3 DEF MigrationInvariant, WorksStand
        <3>5. ~Missed(m, w)
            BY <1>2, <2>3, NameIs DEF Missed
        <3> QED
            BY <3>4, <3>5
    <2>5. works \subseteq AllWorks
        BY DEF MigrationInvariant, WorksStand
    <2> QED
        BY <2>4, <2>5
<1> QED
    BY <1>1, <1>2 DEF RecordedIsReady

LEMMA MigrationTyped == MigrationInvariant => MigrationTypeOK
<1> SUFFICES ASSUME MigrationInvariant PROVE MigrationTypeOK
    OBVIOUS
<1>1. works \subseteq AllWorks
    BY DEF MigrationInvariant, WorksStand
<1>2. records \in Seq(Names) /\ DOMAIN records = 1..Len(records)
    BY DEF MigrationInvariant, RecordsInOrder
<1>3. IsInjective(records)
    BY <1>2 DEF MigrationInvariant, RecordsInOrder, IsInjective
<1>4. \A j \in Jobs : job[j].does \in {"none", "up", "down", "repair"}
    BY DEF MigrationInvariant, JobsTyped, Passes
<1> QED
    BY <1>1, <1>2, <1>3, <1>4 DEF MigrationTypeOK

(* The fifteen migrations on record, and no undo ended half way: then      *)
(* every index and every default stands, for any number of runs that died, *)
(* ran beside another or undid what was there (runner.ts:20-43).  And the  *)
(* search values of an item are missing or right, unless an instance of    *)
(* the older release changed it and no repair ran since they are gone.     *)
THEOREM RecordedIsBuilt == MigrationSpec => []RecordedIsReady
<1>1. MigrationInit => MigrationInvariant
    BY MigrationInitInvariant
<1>2. MigrationInvariant /\ [MigrationNext]_migrationVars
      => MigrationInvariant'
    BY MigrationKeepsInvariant
<1>3. MigrationInvariant => RecordedIsReady
    BY InvariantIsReady
<1> QED
    BY <1>1, <1>2, <1>3, PTL DEF MigrationSpec

-----------------------------------------------------------------------------
(* The lines of stock.                                                     *)

(* What holds at 0 and passes from each number to the next one holds up to *)
(* any number.                                                             *)
LEMMA CountingUp ==
    ASSUME NEW n \in Nat, NEW Good, 0 \in Good,
           \A i \in 0..(n - 1) : i \in Good => i + 1 \in Good
    PROVE  0..n \subseteq Good
<1> DEFINE D == (0..n) \ Good
<1> SUFFICES ASSUME D # {} PROVE FALSE
  OBVIOUS
<1>1. D \in SUBSET Int /\ IsFiniteSet(D) /\ D \in SUBSET (0..n)
  <2>1. IsFiniteSet(0..n)
    BY FS_Interval
  <2> QED
    BY <2>1, FS_Subset
<1>2. Min(D) \in D /\ \A x \in D : Min(D) <= x
  <2> HIDE DEF D
  <2> QED
    BY <1>1, LeastIn
<1>3. PICK m : m = Min(D)
  OBVIOUS
<1>4. m \in 0..n /\ m \notin Good /\ m # 0
  BY <1>2, <1>3
<1>5. m - 1 \in Good
  <2>1. m - 1 \in 0..n /\ m - 1 \notin D
    BY <1>2, <1>3, <1>4
  <2> QED
    BY <2>1
<1>6. m - 1 \in 0..(n - 1) /\ (m - 1) + 1 = m
  BY <1>4
<1> QED
  BY <1>4, <1>5, <1>6

-----------------------------------------------------------------------------
(* FlattenSeq() puts the pieces of a sequence one after the other.         *)
Grows(g, s) ==
    /\ g[0] = <<>>
    /\ \A i \in 1..Len(s) : g[i] = g[i - 1] \o s[i]

IsFlatten(f, s, n) ==
    f = [i \in 1..n |-> IF i = 1 THEN s[i] ELSE f[i - 1] \o s[i]]

LEMMA FlattenExists ==
    ASSUME NEW s, NEW n \in Nat
    PROVE  \E f : IsFlatten(f, s, n)
<1> DEFINE Good == {m \in 0..n : \E f : IsFlatten(f, s, m)}
<1>1. 0 \in Good
  <2> DEFINE f == [i \in {} |-> 0]
  <2>1. f = [i \in 1..0 |-> IF i = 1 THEN s[i] ELSE f[i - 1] \o s[i]]
    OBVIOUS
  <2>2. IsFlatten(f, s, 0)
    <3> HIDE DEF f
    <3> QED
      BY <2>1 DEF IsFlatten
  <2> QED
    BY <2>2
<1>2. ASSUME NEW m \in 0..(n - 1), m \in Good PROVE m + 1 \in Good
  <2> PICK f : IsFlatten(f, s, m)
    BY <1>2
  <2> DEFINE w(i) == IF i = 1 THEN s[i] ELSE f[i - 1] \o s[i]
             g == [i \in 1..(m + 1) |-> w(i)]
  <2>1. ASSUME NEW i \in 1..m PROVE g[i] = f[i]
    <3>1. f = [j \in 1..m |-> w(j)]
      BY DEF IsFlatten
    <3>2. i \in 1..(m + 1)
      BY <2>1
    <3> HIDE DEF w
    <3>3. f[i] = w(i)
      BY <2>1, <3>1
    <3> QED
      BY <3>2, <3>3
  <2>2. ASSUME NEW i \in 1..(m + 1)
        PROVE  w(i) = IF i = 1 THEN s[i] ELSE g[i - 1] \o s[i]
    <3>1. CASE i = 1
      BY <3>1
    <3>2. CASE i # 1
      <4>1. i - 1 \in 1..m
        BY <3>2
      <4>2. g[i - 1] = f[i - 1]
        BY <2>1, <4>1
      <4> HIDE DEF g
      <4> QED
        BY <4>2
    <3> QED
      BY <3>1, <3>2
  <2>3. g = [i \in 1..(m + 1) |->
                IF i = 1 THEN s[i] ELSE g[i - 1] \o s[i]]
    <3> DEFINE u(i) == IF i = 1 THEN s[i] ELSE g[i - 1] \o s[i]
    <3>1. \A i \in 1..(m + 1) : w(i) = u(i)
      BY <2>2
    <3> HIDE DEF w, u
    <3>2. [i \in 1..(m + 1) |-> w(i)] = [i \in 1..(m + 1) |-> u(i)]
      BY <3>1
    <3> QED
      BY <3>2 DEF u
  <2>4. IsFlatten(g, s, m + 1)
    <3> HIDE DEF g
    <3> QED
      BY <2>3 DEF IsFlatten
  <2> QED
    BY <2>4
<1>3. 0..n \subseteq Good
  <2> HIDE DEF Good
  <2> QED
    BY <1>1, <1>2, CountingUp
<1>4. n \in Good
  BY <1>3
<1> QED
  BY <1>4

LEMMA FlattenGrows ==
    ASSUME NEW S, NEW s \in Seq(Seq(S))
    PROVE  \E g \in [0..Len(s) -> Seq(S)] :
              Grows(g, s) /\ FlattenSeq(s) = g[Len(s)]
<1>1. CASE Len(s) = 0
  <2>1. s = <<>> /\ FlattenSeq(s) = <<>>
    BY <1>1 DEF FlattenSeq
  <2> DEFINE g == [i \in 0..Len(s) |-> <<>>]
  <2>2. g \in [0..Len(s) -> Seq(S)] /\ Grows(g, s) /\ g[Len(s)] = <<>>
    BY <1>1 DEF Grows
  <2> QED
    BY <2>1, <2>2
<1>2. CASE Len(s) # 0
  <2> DEFINE n == Len(s)
             Body(f) ==
                [i \in 1..n |-> IF i = 1 THEN s[i] ELSE f[i - 1] \o s[i]]
             f == CHOOSE f : f = Body(f)
  <2>1. n \in Nat /\ n # 0 /\ \A i \in 1..n : s[i] \in Seq(S)
    BY <1>2
  <2>2. FlattenSeq(s) = f[n]
    BY <1>2 DEF FlattenSeq
  <2>3. f = Body(f)
    <3>1. \E h : h = Body(h)
      <4>1. \E h : IsFlatten(h, s, n)
        <5> HIDE DEF n
        <5> QED
          BY <2>1, FlattenExists
      <4> QED
        BY <4>1 DEF IsFlatten
    <3> HIDE DEF Body
    <3> QED
      BY <3>1
  <2> DEFINE g == [i \in 0..n |-> IF i = 0 THEN <<>> ELSE f[i]]
  <2>4. ASSUME NEW i \in 1..n
        PROVE  f[i] = IF i = 1 THEN s[i] ELSE f[i - 1] \o s[i]
    BY <2>3
  <2> HIDE DEF f
  <2>5. ASSUME NEW i \in 1..n PROVE g[i] = g[i - 1] \o s[i]
    <3>1. CASE i = 1
      <4>1. g[i] = s[i] /\ g[i - 1] = <<>>
        BY <2>4, <3>1
      <4>2. s[i] \in Seq(S)
        BY <2>1
      <4> HIDE DEF g, n
      <4> QED
        BY <4>1, <4>2, ConcatEmptySeq
    <3>2. CASE i # 1
      <4>1. i \in 0..n /\ i - 1 \in 0..n /\ i # 0 /\ i - 1 # 0
        BY <2>1, <3>2
      <4>2. g[i] = f[i] /\ g[i - 1] = f[i - 1]
        BY <4>1
      <4>3. f[i] = f[i - 1] \o s[i]
        BY <2>4, <3>2
      <4> HIDE DEF g, n
      <4> QED
        BY <4>2, <4>3
    <3> QED
      BY <3>1, <3>2
  <2>6. g \in [0..n -> Seq(S)]
    <3> DEFINE Good == {m \in 0..n : g[m] \in Seq(S)}
    <3>1. 0 \in Good
      BY <2>1
    <3>2. ASSUME NEW m \in 0..(n - 1), m \in Good PROVE m + 1 \in Good
      <4>1. m + 1 \in 1..n /\ (m + 1) - 1 = m /\ m + 1 \in 0..n
        BY <2>1
      <4>2. g[m + 1] = g[m] \o s[m + 1]
        BY <2>5, <4>1
      <4>3. g[m] \in Seq(S) /\ s[m + 1] \in Seq(S)
        BY <2>1, <3>2, <4>1
      <4> HIDE DEF g, n
      <4>4. g[m + 1] \in Seq(S)
        BY <4>2, <4>3, ConcatProperties
      <4> QED
        BY <4>1, <4>4
    <3>3. 0..n \subseteq Good
      <4> HIDE DEF Good, n
      <4> QED
        BY <2>1, <3>1, <3>2, CountingUp
    <3>4. \A m \in 0..n : g[m] \in Seq(S)
      BY <3>3
    <3>5. DOMAIN g = 0..n
      OBVIOUS
    <3>6. g = [m \in 0..n |-> g[m]]
      OBVIOUS
    <3> HIDE DEF g, n
    <3> QED
      BY <3>4, <3>6
  <2>7. Grows(g, s)
    <3>1. g[0] = <<>>
      BY <2>1
    <3> HIDE DEF g
    <3> QED
      BY <2>5, <3>1 DEF Grows
  <2>8. g[n] = f[n]
    BY <2>1
  <2> QED
    BY <2>2, <2>6, <2>7, <2>8
<1> QED
  BY <1>1, <1>2

(* Only the pieces up to a place decide what is put together up to it.     *)
LEMMA GrowsAgree ==
    ASSUME NEW g, NEW h, NEW s, NEW t, NEW n \in Nat, Len(s) \in Nat,
           Len(t) \in Nat, n <= Len(s), n <= Len(t), Grows(g, s), Grows(h, t),
           \A i \in 1..n : s[i] = t[i]
    PROVE  g[n] = h[n]
<1> DEFINE Good == {m \in 0..n : g[m] = h[m]}
<1>1. 0 \in Good
  BY DEF Grows
<1>2. ASSUME NEW m \in 0..(n - 1), m \in Good PROVE m + 1 \in Good
  <2>1. m + 1 \in 1..n /\ (m + 1) - 1 = m /\ m + 1 \in 0..n
        /\ m + 1 \in 1..Len(s) /\ m + 1 \in 1..Len(t)
    OBVIOUS
  <2>2. g[m + 1] = g[m] \o s[m + 1] /\ h[m + 1] = h[m] \o t[m + 1]
    BY <2>1 DEF Grows
  <2> QED
    BY <1>2, <2>1, <2>2
<1>3. 0..n \subseteq Good
  <2> HIDE DEF Good
  <2> QED
    BY <1>1, <1>2, CountingUp
<1>4. n \in Good
  BY <1>3
<1> QED
  BY <1>4

JoinAnyWay(S) ==
    \A x, y, z \in Seq(S) : (x \o y) \o z = x \o (y \o z)

LEMMA OneAfterTheOther == ASSUME NEW S PROVE JoinAnyWay(S)
BY ConcatAssociative, SMT DEF JoinAnyWay

LEMMA FlattenConcat ==
    ASSUME NEW S, NEW s \in Seq(Seq(S)), NEW t \in Seq(Seq(S))
    PROVE  /\ FlattenSeq(s) \in Seq(S)
           /\ FlattenSeq(s \o t) = FlattenSeq(s) \o FlattenSeq(t)
<1> DEFINE a == Len(s)
           b == Len(t)
           u == s \o t
<1>1. /\ a \in Nat /\ b \in Nat /\ u \in Seq(Seq(S)) /\ Len(u) = a + b
      /\ \A i \in 1..a : u[i] = s[i]
      /\ \A i \in 1..b : u[a + i] = t[i]
  <2>1. u \in Seq(Seq(S)) /\ Len(u) = a + b
        /\ \A i \in 1..Len(u) : u[i] = IF i <= a THEN s[i] ELSE t[i - a]
    BY ConcatProperties
  <2>2. a \in Nat /\ b \in Nat
    OBVIOUS
  <2> HIDE DEF a, b, u
  <2>3. ASSUME NEW i \in 1..b PROVE u[a + i] = t[i]
    <3>1. a + i \in 1..Len(u) /\ ~(a + i <= a) /\ (a + i) - a = i
      <4>1. Len(u) = a + b
        BY <2>1
      <4> QED
        BY <2>2, <4>1
    <3> QED
      BY <2>1, <3>1
  <2>4. ASSUME NEW i \in 1..a PROVE u[i] = s[i]
    <3>1. i \in 1..Len(u) /\ i <= a
      <4>1. Len(u) = a + b
        BY <2>1
      <4> QED
        BY <2>2, <4>1
    <3> QED
      BY <2>1, <3>1
  <2> QED
    BY <2>1, <2>2, <2>3, <2>4
<1> HIDE DEF a, b, u
<1>2. PICK g \in [0..a -> Seq(S)] : Grows(g, s) /\ FlattenSeq(s) = g[a]
  BY FlattenGrows DEF a
<1>3. PICK h \in [0..b -> Seq(S)] : Grows(h, t) /\ FlattenSeq(t) = h[b]
  BY FlattenGrows DEF b
<1>4. PICK f \in [0..Len(u) -> Seq(S)] :
         Grows(f, u) /\ FlattenSeq(u) = f[Len(u)]
  BY <1>1, FlattenGrows
<1>5. f[a] = g[a]
  <2>1. a <= Len(s) /\ a <= Len(u) /\ Len(s) \in Nat /\ Len(u) \in Nat
        /\ a \in Nat
    BY <1>1 DEF a
  <2> QED
    BY <1>1, <1>2, <1>4, <2>1, GrowsAgree
<1> DEFINE Good == {m \in 0..b : f[a + m] = g[a] \o h[m]}
<1>6. 0 \in Good
  <2>1. h[0] = <<>> /\ g[a] \in Seq(S) /\ a + 0 = a /\ 0 \in 0..b
    BY <1>1, <1>2, <1>3 DEF Grows
  <2>2. g[a] \o h[0] = g[a]
    BY <2>1, ConcatEmptySeq
  <2> QED
    BY <1>5, <2>1, <2>2
<1>12. \A i \in 1..b : t[i] \in Seq(S)
  BY ElementOfSeq DEF b
<1>7. ASSUME NEW m \in 0..(b - 1), m \in Good PROVE m + 1 \in Good
  <2>1. m + 1 \in 1..b /\ (m + 1) - 1 = m /\ m + 1 \in 0..b /\ m \in 0..b
        /\ (a + (m + 1)) - 1 = a + m /\ a + (m + 1) \in 1..Len(u)
        /\ a \in 0..a
    BY <1>1
  <2>2. h[m + 1] = h[m] \o t[m + 1]
    BY <1>3, <2>1 DEF Grows, b
  <2>3. f[a + (m + 1)] = f[a + m] \o u[a + (m + 1)]
    BY <1>4, <2>1 DEF Grows
  <2>4. u[a + (m + 1)] = t[m + 1] /\ t[m + 1] \in Seq(S)
    <3>1. u[a + (m + 1)] = t[m + 1]
      <4>1. (\A i \in 1..b : u[a + i] = t[i]) /\ m + 1 \in 1..b
        BY <1>1, <2>1
      <4> QED
        BY <4>1
    <3>2. t[m + 1] \in Seq(S)
      BY <1>12, <2>1
    <3> QED
      BY <3>1, <3>2
  <2>5. f[a + m] = g[a] \o h[m] /\ g[a] \in Seq(S) /\ h[m] \in Seq(S)
    BY <1>2, <1>3, <1>7, <2>1
  <2>6. (g[a] \o h[m]) \o t[m + 1] = g[a] \o (h[m] \o t[m + 1])
    <3>1. JoinAnyWay(S)
      BY OneAfterTheOther
    <3> QED
      BY <2>4, <2>5, <3>1, Zenon DEF JoinAnyWay
  <2>7. f[a + (m + 1)] = (g[a] \o h[m]) \o t[m + 1]
    BY <2>3, <2>4, <2>5
  <2>8. f[a + (m + 1)] = g[a] \o h[m + 1]
    BY <2>2, <2>6, <2>7
  <2> QED
    BY <2>1, <2>8
<1>8. 0..b \subseteq Good
  <2> HIDE DEF Good
  <2> QED
    BY <1>1, <1>6, <1>7, CountingUp
<1>9. b \in 0..b /\ b \in Good
  <2> HIDE DEF Good
  <2>1. b \in 0..b
    BY <1>1
  <2> QED
    BY <1>8, <2>1
<1>10. FlattenSeq(u) = g[a] \o h[b]
  BY <1>1, <1>4, <1>9
<1>11. g[a] \in Seq(S)
  BY <1>1, <1>2
<1> QED
  BY <1>2, <1>3, <1>10, <1>11 DEF u

-----------------------------------------------------------------------------
(* The signs of a text that are not blank.                                 *)
SolidPieces(text) ==
    [n \in DOMAIN text |-> IF text[n] = Space THEN <<>> ELSE <<text[n]>>]

LEMMA PiecesOfText ==
    ASSUME NEW S, NEW t \in Seq(S)
    PROVE  /\ SolidPieces(t) \in Seq(Seq(S)) /\ Len(SolidPieces(t)) = Len(t)
           /\ \A n \in 1..Len(t) :
                 SolidPieces(t)[n] = IF t[n] = Space THEN <<>> ELSE <<t[n]>>
<1>1. Len(t) \in Nat /\ DOMAIN t = 1..Len(t)
  BY LenProperties
<1>2. \A n \in 1..Len(t) : t[n] \in S
  BY ElementOfSeq
<1> DEFINE w(n) == IF t[n] = Space THEN <<>> ELSE <<t[n]>>
<1>3. \A n \in 1..Len(t) : w(n) \in Seq(S)
  BY <1>2
<1>4. SolidPieces(t) = [n \in 1..Len(t) |-> w(n)]
  BY <1>1 DEF SolidPieces
<1> HIDE DEF w
<1>5. [n \in 1..Len(t) |-> w(n)] \in Seq(Seq(S))
  BY <1>1, <1>3
<1>6. Len([n \in 1..Len(t) |-> w(n)]) = Len(t)
  BY <1>1
<1>7. \A n \in 1..Len(t) : SolidPieces(t)[n] = w(n)
  BY <1>4
<1> QED
  BY <1>4, <1>5, <1>6, <1>7 DEF w

LEMMA SolidConcat ==
    ASSUME NEW S, NEW a \in Seq(S), NEW b \in Seq(S)
    PROVE  /\ Solid(a) \in Seq(S)
           /\ Solid(a \o b) = Solid(a) \o Solid(b)
<1> DEFINE c == a \o b
           A == SolidPieces(a)
           B == SolidPieces(b)
           C == SolidPieces(c)
<1>1. /\ c \in Seq(S) /\ Len(c) = Len(a) + Len(b)
      /\ Len(a) \in Nat /\ Len(b) \in Nat
      /\ \A i \in 1..Len(c) :
            c[i] = IF i <= Len(a) THEN a[i] ELSE b[i - Len(a)]
  BY ConcatProperties
<1> HIDE DEF c
<1>2. /\ A \in Seq(Seq(S)) /\ Len(A) = Len(a)
      /\ \A i \in 1..Len(a) : A[i] = IF a[i] = Space THEN <<>> ELSE <<a[i]>>
  BY PiecesOfText
<1>3. /\ B \in Seq(Seq(S)) /\ Len(B) = Len(b)
      /\ \A i \in 1..Len(b) : B[i] = IF b[i] = Space THEN <<>> ELSE <<b[i]>>
  BY PiecesOfText
<1>4. /\ C \in Seq(Seq(S)) /\ Len(C) = Len(c)
      /\ \A i \in 1..Len(c) : C[i] = IF c[i] = Space THEN <<>> ELSE <<c[i]>>
  BY <1>1, PiecesOfText
<1>5. /\ Solid(a) = FlattenSeq(A) /\ Solid(b) = FlattenSeq(B)
      /\ Solid(c) = FlattenSeq(C)
  BY DEF Solid, SolidPieces
<1> HIDE DEF A, B, C
<1>6. C = A \o B
  <2> DEFINE D == A \o B
  <2>1. /\ D \in Seq(Seq(S)) /\ Len(D) = Len(A) + Len(B)
        /\ \A i \in 1..(Len(A) + Len(B)) :
              D[i] = IF i <= Len(A) THEN A[i] ELSE B[i - Len(A)]
    <3>1. A \in Seq(Seq(S)) /\ B \in Seq(Seq(S))
      BY <1>2, <1>3
    <3> QED
      BY <3>1, ConcatProperties
  <2> HIDE DEF D
  <2>2. Len(C) = Len(D)
    BY <1>1, <1>2, <1>3, <1>4, <2>1
  <2>3. ASSUME NEW i \in 1..Len(C) PROVE C[i] = D[i]
    <3>1. i \in 1..Len(c) /\ i \in 1..(Len(A) + Len(B))
      BY <1>1, <1>2, <1>3, <1>4
    <3>2. CASE i <= Len(a)
      <4>1. i \in 1..Len(a)
        BY <1>1, <3>1, <3>2
      <4>2. c[i] = a[i] /\ D[i] = A[i]
        BY <1>1, <1>2, <2>1, <3>1, <3>2
      <4> QED
        BY <1>2, <1>4, <3>1, <4>1, <4>2
    <3>3. CASE ~(i <= Len(a))
      <4>1. PICK j : j = i - Len(a)
        OBVIOUS
      <4>2. j \in 1..Len(b)
        BY <1>1, <3>1, <3>3, <4>1
      <4>3. c[i] = b[j] /\ D[i] = B[j]
        BY <1>1, <1>2, <2>1, <3>1, <3>3, <4>1
      <4> QED
        BY <1>3, <1>4, <3>1, <4>2, <4>3
    <3> QED
      BY <3>2, <3>3
  <2>4. C = D
    BY <1>4, <2>1, <2>2, <2>3, SeqEqual
  <2> QED
    BY <2>4 DEF D
<1>7. FlattenSeq(A) \in Seq(S)
      /\ FlattenSeq(A \o B) = FlattenSeq(A) \o FlattenSeq(B)
  BY <1>2, <1>3, FlattenConcat
<1> QED
  BY <1>5, <1>6, <1>7 DEF c

LEMMA SolidOfBlanks ==
    ASSUME NEW S, NEW t \in Seq(S), \A n \in 1..Len(t) : t[n] = Space
    PROVE  Solid(t) = <<>>
<1> DEFINE s == SolidPieces(t)
           k == Len(s)
<1>1. /\ s \in Seq(Seq(S)) /\ k \in Nat
      /\ \A n \in 1..k : s[n] = <<>>
  <2>1. s \in Seq(Seq(S)) /\ Len(s) = Len(t) /\ Len(t) \in Nat
        /\ \A n \in 1..Len(t) : s[n] = <<>>
    <3>1. /\ s \in Seq(Seq(S)) /\ Len(s) = Len(t)
          /\ \A n \in 1..Len(t) :
                s[n] = IF t[n] = Space THEN <<>> ELSE <<t[n]>>
      BY PiecesOfText
    <3>2. Len(t) \in Nat
      BY LenProperties
    <3> HIDE DEF s
    <3> QED
      BY <3>1, <3>2
  <2> HIDE DEF s
  <2> QED
    BY <2>1
<1>2. Solid(t) = FlattenSeq(s)
  BY DEF Solid, SolidPieces
<1> HIDE DEF s
<1>3. PICK g \in [0..k -> Seq(S)] : Grows(g, s) /\ FlattenSeq(s) = g[k]
  BY <1>1, FlattenGrows
<1> DEFINE Good == {m \in 0..k : g[m] = <<>>}
<1>4. 0 \in Good
  BY <1>1, <1>3 DEF Grows
<1>5. ASSUME NEW m \in 0..(k - 1), m \in Good PROVE m + 1 \in Good
  <2> HIDE DEF k
  <2>1. m + 1 \in 1..k /\ (m + 1) - 1 = m /\ m + 1 \in 0..k
    <3>1. k \in Nat
      BY <1>1
    <3> QED
      BY <3>1
  <2>2. g[m + 1] = g[m] \o s[m + 1]
    BY <1>3, <2>1 DEF Grows, k
  <2>3. g[m] = <<>> /\ s[m + 1] = <<>>
    BY <1>1, <1>5, <2>1
  <2>4. <<>> \o <<>> = <<>>
    BY ConcatEmptySeq, EmptySeq
  <2> QED
    BY <2>1, <2>2, <2>3, <2>4
<1>6. 0..k \subseteq Good
  <2> HIDE DEF Good, k
  <2> QED
    BY <1>1, <1>4, <1>5, CountingUp
<1>7. k \in Good
  BY <1>1, <1>6
<1> QED
  BY <1>2, <1>3, <1>7

LEMMA PartOfText ==
    ASSUME NEW S, NEW v \in Seq(S), NEW a \in 1..Len(v), NEW b \in a..Len(v),
           NEW t, t = SubSeq(v, a, b)
    PROVE  /\ t \in Seq(S) /\ Len(t) = b - a + 1
           /\ \A i \in 1..(b - a + 1) : t[i] = v[a + i - 1]
<1>1. Len(v) \in Nat /\ \A i \in 1..Len(v) : v[i] \in S
  BY LenProperties, ElementOfSeq
<1>2. a \in Int /\ b \in Int /\ a <= b /\ \A i \in a..b : v[i] \in S
  BY <1>1
<1>3. /\ t \in Seq(S)
      /\ Len(t) = IF a <= b THEN b - a + 1 ELSE 0
      /\ \A i \in 1..(b - a + 1) : t[i] = v[a + i - 1]
  BY <1>2, SubSeqProperties
<1> QED
  BY <1>2, <1>3

LEMMA OneSign ==
    ASSUME NEW S, NEW v \in Seq(S), Len(v) = 1
    PROVE  v = <<v[1]>>
OBVIOUS

(* trim() cuts blanks from both ends of a text, and nothing else.          *)
TrimmedTo(t, a, b) ==
    /\ a \in 1..Len(t) /\ b \in a..Len(t) /\ Trim(t) = SubSeq(t, a, b)
    /\ \A n \in 1..(a - 1) : t[n] = Space
    /\ \A n \in (b + 1)..Len(t) : t[n] = Space

LEMMA TrimCuts ==
    ASSUME NEW S, NEW t \in Seq(S)
    PROVE  \/ Trim(t) = <<>> /\ \A n \in 1..Len(t) : t[n] = Space
           \/ \E a, b \in Nat : TrimmedTo(t, a, b)
<1> DEFINE solid == {n \in 1..Len(t) : t[n] # Space}
<1>1. Len(t) \in Nat /\ DOMAIN t = 1..Len(t)
  BY LenProperties
<1>2. Trim(t) = IF solid = {} THEN <<>> ELSE SubSeq(t, Min(solid), Max(solid))
  BY <1>1 DEF Trim
<1>3. /\ solid \in SUBSET Int /\ IsFiniteSet(solid)
      /\ solid \in SUBSET (1..Len(t))
  <2>1. IsFiniteSet(1..Len(t))
    BY <1>1, FS_Interval
  <2> QED
    BY <2>1, FS_Subset
<1>4. CASE solid = {}
  BY <1>2, <1>4
<1>5. CASE solid # {}
  <2>1. /\ Min(solid) \in solid /\ \A x \in solid : Min(solid) <= x
        /\ Max(solid) \in solid /\ \A x \in solid : x <= Max(solid)
    <3> HIDE DEF solid
    <3> QED
      BY <1>3, <1>5, LeastIn, GreatestIn
  <2>2. PICK a, b : a = Min(solid) /\ b = Max(solid)
    OBVIOUS
  <2>3. a \in solid /\ b \in solid /\ \A x \in solid : a <= x /\ x <= b
    BY <2>1, <2>2
  <2>4. Trim(t) = SubSeq(t, a, b)
    BY <1>2, <1>5, <2>2
  <2>5. a \in 1..Len(t) /\ b \in a..Len(t)
    BY <1>1, <2>3
  <2>6. \A n \in 1..Len(t) : n < a \/ b < n => t[n] = Space
    BY <1>1, <2>3
  <2>7. \A n \in 1..(a - 1) : t[n] = Space
    BY <1>1, <2>5, <2>6
  <2>8. \A n \in (b + 1)..Len(t) : t[n] = Space
    BY <1>1, <2>5, <2>6
  <2>9. TrimmedTo(t, a, b)
    BY <2>4, <2>5, <2>7, <2>8 DEF TrimmedTo
  <2>10. a \in Nat /\ b \in Nat
    BY <1>1, <2>5
  <2> QED
    BY <2>9, <2>10
<1> QED
  BY <1>4, <1>5

LEMMA SolidTrim ==
    ASSUME NEW S, NEW t \in Seq(S)
    PROVE  Trim(t) \in Seq(S) /\ Solid(Trim(t)) = Solid(t)
<1>1. CASE Trim(t) = <<>> /\ \A n \in 1..Len(t) : t[n] = Space
  <2>1. Solid(t) = <<>>
    BY <1>1, SolidOfBlanks
  <2>2. <<>> \in Seq(S) /\ Len(<<>>) = 0
    BY EmptySeq
  <2>3. Solid(<<>>) = <<>>
    <3>1. \A n \in 1..Len(<<>>) : <<>>[n] = Space
      BY <2>2
    <3> QED
      BY <2>2, <3>1, SolidOfBlanks
  <2> QED
    BY <1>1, <2>1, <2>2, <2>3
<1>2. ASSUME NEW a \in Nat, NEW b \in Nat, TrimmedTo(t, a, b)
      PROVE  Trim(t) \in Seq(S) /\ Solid(Trim(t)) = Solid(t)
  <2> DEFINE n == Len(t)
             x == SubSeq(t, 1, a - 1)
             y == SubSeq(t, a, b)
             z == SubSeq(t, b + 1, n)
  <2>1. n \in Nat /\ a \in 1..n /\ b \in a..n /\ Trim(t) = y
    BY <1>2 DEF TrimmedTo
  <2>2. \A i \in 1..n : t[i] \in S
    BY ElementOfSeq
  <2> HIDE DEF n
  <2>3. /\ x \in Seq(S) /\ Len(x) = a - 1
        /\ \A i \in 1..(a - 1) : x[i] = t[i]
    <3>1. \A i \in 1..(a - 1) : t[i] \in S
      BY <2>1, <2>2
    <3>2. /\ x \in Seq(S)
          /\ Len(x) = IF 1 <= a - 1 THEN (a - 1) - 1 + 1 ELSE 0
          /\ \A i \in 1..((a - 1) - 1 + 1) : x[i] = t[1 + i - 1]
      BY <2>1, <3>1, SubSeqProperties
    <3> HIDE DEF x
    <3>3. \A i \in 1..(a - 1) : 1 + i - 1 = i /\ i \in 1..((a - 1) - 1 + 1)
      BY <2>1
    <3>4. \A i \in 1..(a - 1) : x[i] = t[i]
      BY <3>2, <3>3
    <3>5. Len(x) = a - 1
      BY <2>1, <3>2
    <3> QED
      BY <3>2, <3>4, <3>5
  <2>4. y \in Seq(S)
    <3>1. \A i \in a..b : t[i] \in S
      BY <2>1, <2>2
    <3> QED
      BY <2>1, <3>1, SubSeqProperties
  <2>5. /\ z \in Seq(S) /\ \A i \in 1..Len(z) : z[i] = Space
    <3>1. \A i \in (b + 1)..n : t[i] \in S
      BY <2>1, <2>2
    <3>2. /\ z \in Seq(S)
          /\ Len(z) = IF b + 1 <= n THEN n - (b + 1) + 1 ELSE 0
          /\ \A i \in 1..(n - (b + 1) + 1) : z[i] = t[(b + 1) + i - 1]
      BY <2>1, <3>1, SubSeqProperties
    <3> HIDE DEF z
    <3>3. ASSUME NEW i \in 1..Len(z) PROVE z[i] = Space
      <4>1. i \in 1..(n - (b + 1) + 1) /\ (b + 1) + i - 1 \in (b + 1)..n
        BY <2>1, <3>2
      <4>2. \A j \in (b + 1)..n : t[j] = Space
        BY <1>2 DEF TrimmedTo, n
      <4>3. z[i] = t[(b + 1) + i - 1]
        BY <3>2, <4>1
      <4> QED
        BY <4>1, <4>2, <4>3
    <3> QED
      BY <3>2, <3>3
  <2>6. \A i \in 1..Len(x) : x[i] = Space
    <3> HIDE DEF x
    <3> QED
      BY <1>2, <2>3 DEF TrimmedTo
  <2>7. Solid(x) = <<>> /\ Solid(z) = <<>>
    BY <2>3, <2>5, <2>6, SolidOfBlanks
  <2>8. t = x \o (y \o z)
    <3>1. y \o z = SubSeq(t, a, n)
      <4>1. b \in a - 1 .. Len(t) /\ a \in 1 .. Len(t) + 1 /\ n \in b .. Len(t)
        BY <2>1 DEF n
      <4> QED
        BY <4>1, ConcatAdjacentSubSeq
    <3>2. x \o SubSeq(t, (a - 1) + 1, n) = SubSeq(t, 1, n)
      <4>1. /\ a - 1 \in 1 - 1 .. Len(t) /\ 1 \in 1 .. Len(t) + 1
            /\ n \in a - 1 .. Len(t)
        BY <2>1 DEF n
      <4> QED
        BY <4>1, ConcatAdjacentSubSeq
    <3>3. SubSeq(t, 1, n) = t
      BY SubSeqFull DEF n
    <3>4. (a - 1) + 1 = a
      OBVIOUS
    <3> QED
      BY <3>1, <3>2, <3>3, <3>4
  <2> HIDE DEF x, y, z
  <2>9. Solid(y \o z) = Solid(y) /\ y \o z \in Seq(S) /\ Solid(y) \in Seq(S)
    <3>1. Solid(y \o z) = Solid(y) \o Solid(z) /\ Solid(y) \in Seq(S)
      BY <2>4, <2>5, SolidConcat
    <3>2. Solid(y) \o <<>> = Solid(y)
      BY <3>1, ConcatEmptySeq
    <3>3. y \o z \in Seq(S)
      BY <2>4, <2>5, ConcatProperties
    <3> QED
      BY <2>7, <3>1, <3>2, <3>3
  <2>10. Solid(t) = Solid(x) \o Solid(y \o z)
    BY <2>3, <2>8, <2>9, SolidConcat
  <2>11. <<>> \o Solid(y) = Solid(y)
    BY <2>9, ConcatEmptySeq
  <2> QED
    BY <2>1, <2>4, <2>7, <2>9, <2>10, <2>11
<1> QED
  BY <1>1, <1>2, TrimCuts

-----------------------------------------------------------------------------
(* The keys of a pattern and the literals between them.                    *)
LEMMA KeysAreInside ==
    ASSUME NEW F, NEW form \in Seq(F)
    PROVE  /\ Len(form) \in Nat /\ KeyPlaces(form) \subseteq 1..Len(form)
           /\ IsFiniteSet(KeyPlaces(form))
<1>1. Len(form) \in Nat /\ DOMAIN form = 1..Len(form)
  BY LenProperties
<1>2. KeyPlaces(form) \subseteq 1..Len(form)
  BY <1>1 DEF KeyPlaces
<1>3. IsFiniteSet(1..Len(form))
  BY <1>1, FS_Interval
<1> QED
  BY <1>1, <1>2, <1>3, FS_Subset

LEMMA KeyBefore ==
    ASSUME NEW F, NEW form \in Seq(F), NEW p \in Nat \ {0}
    PROVE  /\ Before(form, p) \in {0} \cup KeyPlaces(form)
           /\ Before(form, p) \in 0..(p - 1)
           /\ \A q \in KeyPlaces(form) : q < p => q <= Before(form, p)
<1> DEFINE E == {q \in KeyPlaces(form) : q < p}
           D == {0} \cup E
<1>1. /\ Len(form) \in Nat /\ KeyPlaces(form) \subseteq 1..Len(form)
      /\ IsFiniteSet(KeyPlaces(form))
  BY KeysAreInside
<1>2. IsFiniteSet(D)
  <2>1. IsFiniteSet(E)
    BY <1>1, FS_Subset
  <2>2. IsFiniteSet(E \cup {0})
    <3> HIDE DEF E
    <3> QED
      BY <2>1, FS_AddElement
  <2>3. D = E \cup {0}
    OBVIOUS
  <2> QED
    BY <2>2, <2>3
<1>3. D \in SUBSET Int /\ D # {}
  BY <1>1
<1>4. Max(D) \in D /\ \A x \in D : x <= Max(D)
  <2> HIDE DEF D
  <2> QED
    BY <1>2, <1>3, GreatestIn
<1>5. PICK m : m = Max(D)
  OBVIOUS
<1>6. Before(form, p) = m
  BY <1>5 DEF Before
<1>7. m \in D /\ \A x \in D : x <= m
  BY <1>4, <1>5
<1>8. m \in {0} \cup KeyPlaces(form) /\ m \in 0..(p - 1)
  BY <1>1, <1>7
<1>9. \A q \in KeyPlaces(form) : q < p => q <= m
  BY <1>7
<1> QED
  BY <1>6, <1>8, <1>9

LEMMA KeyAfter ==
    ASSUME NEW F, NEW form \in Seq(F), NEW p \in 0..Len(form)
    PROVE  /\ After(form, p) \in {Len(form) + 1} \cup KeyPlaces(form)
           /\ After(form, p) \in (p + 1)..(Len(form) + 1)
           /\ \A q \in KeyPlaces(form) : p < q => After(form, p) <= q
<1> DEFINE n == Len(form)
           E == {q \in KeyPlaces(form) : p < q}
           D == {n + 1} \cup E
<1>1. /\ n \in Nat /\ KeyPlaces(form) \subseteq 1..n
      /\ IsFiniteSet(KeyPlaces(form)) /\ p \in 0..n
  BY KeysAreInside
<1> HIDE DEF n
<1>2. IsFiniteSet(D)
  <2>1. IsFiniteSet(E)
    BY <1>1, FS_Subset
  <2>2. IsFiniteSet(E \cup {n + 1})
    <3> HIDE DEF E
    <3> QED
      BY <2>1, FS_AddElement
  <2>3. D = E \cup {n + 1}
    OBVIOUS
  <2> QED
    BY <2>2, <2>3
<1>3. D \in SUBSET Int /\ D # {}
  BY <1>1
<1>4. Min(D) \in D /\ \A x \in D : Min(D) <= x
  <2> HIDE DEF D
  <2> QED
    BY <1>2, <1>3, LeastIn
<1>5. PICK m : m = Min(D)
  OBVIOUS
<1>6. After(form, p) = m
  BY <1>5 DEF After, n
<1>7. m \in D /\ \A x \in D : m <= x
  BY <1>4, <1>5
<1>8. m \in {n + 1} \cup KeyPlaces(form) /\ m \in (p + 1)..(n + 1)
  BY <1>1, <1>7
<1>9. \A q \in KeyPlaces(form) : p < q => m <= q
  BY <1>7
<1> QED
  BY <1>6, <1>8, <1>9 DEF n

LEMMA LiteralSigns ==
    ASSUME NEW F, NEW form \in Seq(F), NEW p \in 0..Len(form)
    PROVE  /\ Literal(form, p) \in Seq(F)
           /\ Len(Literal(form, p)) = After(form, p) - p - 1
           /\ \A i \in 1..Len(Literal(form, p)) :
                 Literal(form, p)[i] = form[p + i]
<1> DEFINE n == Len(form)
<1>1. n \in Nat /\ \A i \in 1..n : form[i] \in F
  BY LenProperties, ElementOfSeq
<1>2. PICK q : q = After(form, p)
  OBVIOUS
<1>3. q \in (p + 1)..(n + 1) /\ p \in 0..n
  BY <1>2, KeyAfter
<1> HIDE DEF n
<1>4. PICK x : x = SubSeq(form, p + 1, q - 1)
  OBVIOUS
<1>5. x = Literal(form, p)
  BY <1>2, <1>4 DEF Literal
<1>6. \A i \in (p + 1)..(q - 1) : form[i] \in F
  BY <1>1, <1>3
<1>7. p + 1 \in Int /\ q - 1 \in Int
  BY <1>1, <1>3
<1>8. /\ x \in Seq(F)
      /\ Len(x) = IF p + 1 <= q - 1 THEN (q - 1) - (p + 1) + 1 ELSE 0
      /\ \A i \in 1..((q - 1) - (p + 1) + 1) : x[i] = form[(p + 1) + i - 1]
  BY <1>4, <1>6, <1>7, SubSeqProperties
<1>9. Len(x) = q - p - 1
  BY <1>1, <1>3, <1>8
<1>10. ASSUME NEW i \in 1..Len(x) PROVE x[i] = form[p + i]
  <2>1. i \in 1..((q - 1) - (p + 1) + 1) /\ (p + 1) + i - 1 = p + i
    BY <1>1, <1>3, <1>9
  <2> QED
    BY <1>8, <2>1
<1> QED
  BY <1>2, <1>5, <1>8, <1>9, <1>10

(* Between a key and the next one there is no key.                         *)
LEMMA NextKey ==
    ASSUME NEW F, NEW form \in Seq(F), NEW p \in KeyPlaces(form)
    PROVE  After(form, Before(form, p)) = p
<1>1. Len(form) \in Nat /\ p \in 1..Len(form)
      /\ KeyPlaces(form) \subseteq 1..Len(form)
  BY KeysAreInside
<1>2. PICK b : b = Before(form, p)
  OBVIOUS
<1>3. /\ b \in 0..(p - 1)
      /\ \A q \in KeyPlaces(form) : q < p => q <= b
  BY <1>1, <1>2, KeyBefore
<1>4. b \in 0..Len(form)
  BY <1>1, <1>3
<1>5. PICK a : a = After(form, b)
  OBVIOUS
<1>6. /\ a \in {Len(form) + 1} \cup KeyPlaces(form)
      /\ a \in (b + 1)..(Len(form) + 1)
      /\ \A q \in KeyPlaces(form) : b < q => a <= q
  BY <1>4, <1>5, KeyAfter
<1>7. a <= p
  BY <1>1, <1>3, <1>6
<1>8. ~(a < p)
  BY <1>1, <1>3, <1>6
<1> QED
  BY <1>1, <1>2, <1>5, <1>6, <1>7, <1>8

-----------------------------------------------------------------------------
(* The parts of a line.                                                    *)
IsPart(part, text, form, D) ==
    part = [p \in D |->
               PartAt(text, form, p, IF Before(form, p) = 0 THEN 0
                                     ELSE part[Before(form, p)][2])]

LEMMA PartsExist ==
    ASSUME NEW F, NEW form \in Seq(F), NEW text
    PROVE  \E part : IsPart(part, text, form, KeyPlaces(form))
<1> DEFINE n == Len(form)
           K(m) == {p \in KeyPlaces(form) : p <= m}
           Good == {m \in 0..n : \E part : IsPart(part, text, form, K(m))}
<1>1. n \in Nat /\ KeyPlaces(form) \subseteq 1..n
  BY KeysAreInside
<1> HIDE DEF n
<1>2. 0 \in Good
  <2>1. K(0) = {}
    BY <1>1
  <2> DEFINE part == [p \in {} |-> <<0, 0>>]
  <2>2. part = [p \in {} |->
                   PartAt(text, form, p, IF Before(form, p) = 0 THEN 0
                                         ELSE part[Before(form, p)][2])]
    OBVIOUS
  <2>3. IsPart(part, text, form, {})
    <3> HIDE DEF part
    <3> QED
      BY <2>2 DEF IsPart
  <2>4. \E x : IsPart(x, text, form, K(0))
    <3> HIDE DEF K
    <3> QED
      BY <2>1, <2>3
  <2> HIDE DEF K
  <2> QED
    BY <1>1, <2>4
<1>3. ASSUME NEW m \in 0..(n - 1), m \in Good PROVE m + 1 \in Good
  <2> PICK part : IsPart(part, text, form, K(m))
    BY <1>3
  <2>1. m + 1 \in 0..n
    BY <1>1
  <2> DEFINE w(p) == PartAt(text, form, p, IF Before(form, p) = 0 THEN 0
                                           ELSE part[Before(form, p)][2])
             x == [p \in K(m + 1) |-> w(p)]
             u(p) == PartAt(text, form, p, IF Before(form, p) = 0 THEN 0
                                           ELSE x[Before(form, p)][2])
  <2>2. ASSUME NEW p \in K(m) PROVE x[p] = part[p]
    <3>1. part = [q \in K(m) |-> w(q)]
      BY DEF IsPart
    <3>2. p \in K(m + 1)
      BY <1>1, <2>2
    <3> HIDE DEF w, K
    <3>3. part[p] = w(p)
      BY <2>2, <3>1
    <3> QED
      BY <3>2, <3>3
  <2>3. ASSUME NEW p \in K(m + 1) PROVE w(p) = u(p)
    <3>1. CASE Before(form, p) = 0
      BY <3>1
    <3>2. CASE Before(form, p) # 0
      <4>1. p \in Nat \ {0} /\ p <= m + 1
        BY <1>1, <2>3
      <4>2. Before(form, p) \in {0} \cup KeyPlaces(form)
            /\ Before(form, p) \in 0..(p - 1)
        BY <4>1, KeyBefore
      <4>3. Before(form, p) \in K(m)
        BY <1>1, <3>2, <4>1, <4>2
      <4>4. x[Before(form, p)] = part[Before(form, p)]
        BY <2>2, <4>3
      <4> HIDE DEF x
      <4> QED
        BY <4>4
    <3> QED
      BY <3>1, <3>2
  <2>4. x = [p \in K(m + 1) |-> u(p)]
    <3> HIDE DEF w, u, K
    <3> QED
      BY <2>3
  <2>5. IsPart(x, text, form, K(m + 1))
    <3> HIDE DEF x
    <3> QED
      BY <2>4 DEF IsPart
  <2> QED
    BY <2>1, <2>5
<1>4. 0..n \subseteq Good
  <2> HIDE DEF Good
  <2> QED
    BY <1>1, <1>2, <1>3, CountingUp
<1>5. n \in Good
  <2> HIDE DEF Good
  <2> QED
    BY <1>1, <1>4
<1>6. K(n) = KeyPlaces(form)
  BY <1>1
<1> HIDE DEF K
<1> QED
  BY <1>5, <1>6

LEMMA SplitIsPart ==
    ASSUME NEW F, NEW form \in Seq(F), NEW text
    PROVE  IsPart(Split(text, form), text, form, KeyPlaces(form))
<1> DEFINE Body(x) ==
              [p \in KeyPlaces(form) |->
                  PartAt(text, form, p, IF Before(form, p) = 0 THEN 0
                                        ELSE x[Before(form, p)][2])]
           y == CHOOSE x : x = Body(x)
<1>1. \E x : x = Body(x)
  BY PartsExist DEF IsPart
<1>2. y = Body(y)
  <2> HIDE DEF Body
  <2> QED
    BY <1>1
<1>3. Split(text, form) = y
  BY DEF Split
<1> HIDE DEF y
<1>4. IsPart(y, text, form, KeyPlaces(form))
  BY <1>2 DEF IsPart
<1> QED
  BY <1>3, <1>4

LEMMA PlaceIsFirst ==
    ASSUME NEW part, NEW text, NEW from \in Int, NEW p,
           Len(text) \in Nat, Len(part) \in Nat,
           p = Place(part, text, from)
    PROVE  /\ p \in Int
           /\ \/ p = 0
              \/ /\ p \in PlacesOf(part, text, from)
                 /\ \A q \in PlacesOf(part, text, from) : p <= q
<1> DEFINE top == Len(text) + 1 - Len(part)
           D == PlacesOf(part, text, from)
<1>1. top \in Int
  OBVIOUS
<1>2. D \in SUBSET (from..top)
  BY DEF PlacesOf
<1> HIDE DEF top, D
<1>3. D \in SUBSET Int /\ IsFiniteSet(D)
  <2>1. IsFiniteSet(from..top)
    BY <1>1, FS_Interval
  <2>2. IsFiniteSet(D)
    BY <1>2, <2>1, FS_Subset
  <2>3. D \in SUBSET Int
    BY <1>1, <1>2
  <2> QED
    BY <2>2, <2>3
<1>4. CASE D = {}
  BY <1>4 DEF Place, D
<1>5. CASE D # {}
  <2>1. p = Min(D)
    BY <1>5 DEF Place, D
  <2>2. Min(D) \in D /\ \A q \in D : Min(D) <= q
    BY <1>3, <1>5, LeastIn
  <2> QED
    BY <1>3, <2>1, <2>2 DEF D
<1> QED
  BY <1>4, <1>5

(* A literal stands in a text from a place on.                             *)
Stands(literal, text, at) ==
    /\ at + Len(literal) <= Len(text) + 1
    /\ \A i \in 1..Len(literal) : text[at + i - 1] = literal[i]

LEMMA PlacesStand ==
    ASSUME NEW S, NEW text \in Seq(S), NEW F, NEW part \in Seq(F),
           NEW from \in Nat \ {0}, NEW p \in Int
    PROVE  p \in PlacesOf(part, text, from)
           <=> from <= p /\ Stands(part, text, p)
<1> DEFINE n == Len(text)
           k == Len(part)
           x == SubSeq(text, p, p + k - 1)
<1>1. n \in Nat /\ k \in Nat /\ \A i \in 1..n : text[i] \in S
  BY LenProperties, ElementOfSeq
<1> HIDE DEF n, k
<1>2. p \in PlacesOf(part, text, from)
      <=> from <= p /\ p <= n + 1 - k /\ x = part
  BY <1>1 DEF PlacesOf, n, k
<1>3. ASSUME from <= p, p <= n + 1 - k
      PROVE  x = part <=> \A i \in 1..k : text[p + i - 1] = part[i]
  <2>1. \A i \in p..(p + k - 1) : text[i] \in S
    BY <1>1, <1>3
  <2>2. p \in Int /\ p + k - 1 \in Int
    BY <1>1
  <2>3. /\ x \in Seq(S)
        /\ Len(x) = IF p <= p + k - 1 THEN (p + k - 1) - p + 1 ELSE 0
        /\ \A i \in 1..((p + k - 1) - p + 1) : x[i] = text[p + i - 1]
    BY <2>1, <2>2, SubSeqProperties
  <2> HIDE DEF x
  <2>4. (p + k - 1) - p + 1 = k
    BY <1>1
  <2>5. Len(x) = k /\ \A i \in 1..k : x[i] = text[p + i - 1]
    BY <1>1, <2>3, <2>4
  <2>6. ASSUME \A i \in 1..k : text[p + i - 1] = part[i] PROVE x = part
    <3>1. x \in Seq(S \cup F) /\ part \in Seq(S \cup F)
      BY <2>3
    <3>2. Len(x) = Len(part) /\ \A i \in 1..Len(x) : x[i] = part[i]
      BY <2>5, <2>6 DEF k
    <3> QED
      BY <3>1, <3>2, SeqEqual
  <2> QED
    BY <2>5, <2>6
<1> HIDE DEF x
<1>4. Stands(part, text, p) <=>
         p <= n + 1 - k /\ \A i \in 1..k : text[p + i - 1] = part[i]
  BY <1>1 DEF Stands, n, k
<1> QED
  BY <1>2, <1>3, <1>4

LEMMA PrefixStands ==
    ASSUME NEW S, NEW text \in Seq(S), NEW F, NEW part \in Seq(F),
           IsPrefix(part, text)
    PROVE  Stands(part, text, 1)
<1> DEFINE n == Len(text)
           k == Len(part)
<1>1. n \in Nat /\ k \in Nat /\ \A i \in 1..n : text[i] \in S
  BY LenProperties, ElementOfSeq
<1>2. k <= n /\ SubSeq(part, 1, k) = SubSeq(text, 1, k)
  BY DEF IsPrefix
<1>3. SubSeq(part, 1, k) = part
  BY SubSeqFull
<1> HIDE DEF n, k
<1>4. \A i \in 1..k : part[i] = text[i]
  <2>1. \A i \in 1..k : text[i] \in S
    BY <1>1, <1>2
  <2>2. \A i \in 1..(k - 1 + 1) : SubSeq(text, 1, k)[i] = text[1 + i - 1]
    BY <1>1, <2>1, SubSeqProperties
  <2>3. \A i \in 1..k : i \in 1..(k - 1 + 1) /\ 1 + i - 1 = i
    BY <1>1
  <2> QED
    BY <1>2, <1>3, <2>2, <2>3
<1>5. \A i \in 1..k : 1 + i - 1 = i
  BY <1>1
<1> QED
  BY <1>1, <1>2, <1>4, <1>5 DEF Stands, n, k

LEMMA SuffixStands ==
    ASSUME NEW S, NEW text \in Seq(S), NEW F, NEW part \in Seq(F),
           IsSuffix(part, text)
    PROVE  Stands(part, text, Len(text) - Len(part) + 1)
<1> DEFINE n == Len(text)
           k == Len(part)
           a == Reverse(part)
           b == Reverse(text)
<1>1. /\ n \in Nat /\ k \in Nat
      /\ \A i \in 1..n : text[i] \in S
      /\ \A i \in 1..k : part[i] \in F
  BY LenProperties, ElementOfSeq
<1>2. IsPrefix(a, b)
  BY DEF IsSuffix
<1>3. a = [i \in 1..k |-> part[(k - i) + 1]]
      /\ b = [i \in 1..n |-> text[(n - i) + 1]]
  BY DEF Reverse
<1> HIDE DEF n, k, a, b
<1>4. a \in Seq(F) /\ Len(a) = k /\ b \in Seq(S) /\ Len(b) = n
  <2>1. \A i \in 1..k : part[(k - i) + 1] \in F
    BY <1>1
  <2>2. \A i \in 1..n : text[(n - i) + 1] \in S
    BY <1>1
  <2> QED
    BY <1>1, <1>3, <2>1, <2>2
<1>5. Stands(a, b, 1)
  BY <1>2, <1>4, PrefixStands
<1>6. k <= n /\ \A i \in 1..k : b[i] = a[i]
  <2>1. 1 + k <= n + 1 /\ \A i \in 1..k : b[1 + i - 1] = a[i]
    BY <1>4, <1>5 DEF Stands
  <2>2. \A i \in 1..k : 1 + i - 1 = i
    BY <1>1
  <2> QED
    BY <1>1, <2>1, <2>2
<1>7. ASSUME NEW i \in 1..k PROVE text[(n - k + 1) + i - 1] = part[i]
  <2>1. PICK j : j = (k - i) + 1
    OBVIOUS
  <2>2. j \in 1..k /\ j \in 1..n /\ (k - j) + 1 = i
        /\ (n - j) + 1 = (n - k + 1) + i - 1
    <3>1. n \in Nat /\ k \in Nat /\ k <= n /\ i \in 1..k
      BY <1>1, <1>6
    <3>2. j \in 1..k /\ (k - j) + 1 = i
      BY <2>1, <3>1
    <3>3. j \in 1..n
      BY <3>1, <3>2
    <3>4. (n - j) + 1 = (n - k + 1) + i - 1
      BY <2>1, <3>1
    <3> QED
      BY <3>2, <3>3, <3>4
  <2>3. a[j] = part[i] /\ b[j] = text[(n - k + 1) + i - 1]
    BY <1>3, <2>2
  <2> QED
    BY <1>6, <2>2, <2>3
<1>8. (n - k + 1) + k <= n + 1
  BY <1>1
<1> QED
  BY <1>7, <1>8 DEF Stands, n, k

(* A value that is found begins after the literal before it and ends where *)
(* the one after it stands first, the last one where the text ends on it.  *)
Found(text, form, p, last, from, to) ==
    /\ from \in Nat \ {0} /\ to \in Nat /\ from <= to
    /\ Before(form, p) = 0
       => /\ from = 1 + Len(Literal(form, 0))
          /\ Stands(Literal(form, 0), text, 1)
    /\ Before(form, p) # 0
       => from = last + Len(Literal(form, Before(form, p)))
    /\ Stands(Literal(form, p), text, to)
    /\ IsLast(form, p) => to + Len(Literal(form, p)) = Len(text) + 1
    /\ ~IsLast(form, p)
       => \A q \in Int : from <= q /\ Stands(Literal(form, p), text, q)
                         => to <= q

LEMMA PartIsFound ==
    ASSUME NEW S, NEW text \in Seq(S), NEW F, NEW form \in Seq(F),
           NEW p \in KeyPlaces(form), NEW last \in Nat
    PROVE  \E from, to \in Nat :
              /\ PartAt(text, form, p, last) = <<from, to>>
              /\ from = 0 => to = 0
              /\ from # 0 => Found(text, form, p, last, from, to)
<1>1. PICK from : from = ValueFrom(text, form, p, last)
  OBVIOUS
<1>2. PICK to : to = ValueTo(text, form, p, from)
  OBVIOUS
<1>3. PartAt(text, form, p, last) =
         IF from = 0 \/ to < from THEN <<0, 0>> ELSE <<from, to>>
  BY <1>1, <1>2 DEF PartAt
<1>4. PICK b : b = Before(form, p)
  OBVIOUS
<1>5. /\ Len(form) \in Nat /\ p \in 1..Len(form)
      /\ KeyPlaces(form) \subseteq 1..Len(form)
  BY KeysAreInside
<1>6. b \in 0..(p - 1)
  BY <1>4, <1>5, KeyBefore
<1>7. b \in 0..Len(form) /\ p \in 0..Len(form) /\ 0 \in 0..Len(form)
  BY <1>5, <1>6
<1>8. PICK x : x = Literal(form, b)
  OBVIOUS
<1>9. PICK y : y = Literal(form, p)
  OBVIOUS
<1>10. x \in Seq(F) /\ y \in Seq(F)
  BY <1>7, <1>8, <1>9, LiteralSigns
<1>11. Len(text) \in Nat /\ Len(x) \in Nat /\ Len(y) \in Nat
  BY <1>10, LenProperties
<1>12. from = IF b = 0
              THEN IF IsPrefix(x, text) THEN Len(x) + 1 ELSE 0
              ELSE IF last = 0 THEN 0 ELSE last + Len(x)
  BY <1>1, <1>4, <1>8 DEF ValueFrom
<1>13. to = IF ~IsLast(form, p) THEN Place(y, text, from)
            ELSE IF IsSuffix(y, text) THEN Len(text) - Len(y) + 1 ELSE 0
  BY <1>2, <1>9 DEF ValueTo
<1>14. from \in Nat
  BY <1>11, <1>12
<1>15. CASE from = 0 \/ to < from
  BY <1>3, <1>15
<1>16. CASE from # 0 /\ ~(to < from)
  <2>1. b = 0 => from = 1 + Len(x) /\ Stands(x, text, 1)
    <3>1. b = 0 => from = 1 + Len(x) /\ IsPrefix(x, text)
      BY <1>11, <1>12, <1>16
    <3> QED
      BY <1>10, <3>1, PrefixStands
  <2>2. b # 0 => from = last + Len(x)
    BY <1>12, <1>16
  <2>3. CASE IsLast(form, p)
    <3>1. IsSuffix(y, text) /\ to = Len(text) - Len(y) + 1
      <4>1. ~IsSuffix(y, text) => to = 0
        BY <1>13, <2>3
      <4>2. IsSuffix(y, text)
        BY <1>14, <1>16, <4>1
      <4> QED
        BY <1>13, <2>3, <4>2
    <3>2. Stands(y, text, to)
      BY <1>10, <3>1, SuffixStands
    <3>3. to \in Nat /\ from <= to /\ to + Len(y) = Len(text) + 1
      BY <1>11, <1>14, <1>16, <3>1
    <3>4. Found(text, form, p, last, from, to)
      BY <1>4, <1>8, <1>9, <1>14, <1>16, <2>1, <2>2, <2>3, <3>2, <3>3
         DEF Found
    <3> QED
      BY <1>3, <1>14, <1>16, <3>3, <3>4
  <2>4. CASE ~IsLast(form, p)
    <3>1. to = Place(y, text, from)
      BY <1>13, <2>4
    <3>2. /\ to \in Int
          /\ \/ to = 0
             \/ /\ to \in PlacesOf(y, text, from)
                /\ \A q \in PlacesOf(y, text, from) : to <= q
      BY <1>11, <1>14, <3>1, PlaceIsFirst
    <3>3. to # 0 /\ to \in Nat /\ from <= to /\ from \in Nat \ {0}
      BY <1>14, <1>16, <3>2
    <3>4. Stands(y, text, to)
      BY <1>10, <3>2, <3>3, PlacesStand
    <3>5. \A q \in Int : from <= q /\ Stands(y, text, q)
                        => q \in PlacesOf(y, text, from)
      BY <1>10, <3>3, PlacesStand
    <3>6. Found(text, form, p, last, from, to)
      BY <1>4, <1>8, <1>9, <2>1, <2>2, <2>4, <3>2, <3>3, <3>4, <3>5
         DEF Found
    <3> QED
      BY <1>3, <1>14, <1>16, <3>3, <3>6
  <2> QED
    BY <2>3, <2>4
<1> QED
  BY <1>15, <1>16

(* The place where the literal after the key at place b begins.            *)
Start(part, b) == IF b = 0 THEN 1 ELSE part[b][2]

LEMMA PartsAreNumbers ==
    ASSUME NEW S, NEW text \in Seq(S), NEW F, NEW form \in Seq(F), NEW part,
           IsPart(part, text, form, KeyPlaces(form))
    PROVE  \A p \in KeyPlaces(form) : \E from, to \in Nat :
              /\ part[p] = <<from, to>>
              /\ from = 0 => to = 0
              /\ from # 0 => Found(text, form, p, Start(part, Before(form, p)),
                                   from, to)
<1> DEFINE n == Len(form)
           Ahead(p) == IF Before(form, p) = 0 THEN 0
                      ELSE part[Before(form, p)][2]
           Good == {m \in 0..n : \A p \in KeyPlaces(form) :
                                    p <= m => part[p][2] \in Nat}
<1>1. n \in Nat /\ KeyPlaces(form) \subseteq 1..n
  BY KeysAreInside
<1>2. \A p \in KeyPlaces(form) : part[p] = PartAt(text, form, p, Ahead(p))
  BY DEF IsPart
<1> HIDE DEF n
<1>3. 0 \in Good
  BY <1>1
<1>4. ASSUME NEW m \in 0..(n - 1), m \in Good PROVE m + 1 \in Good
  <2>1. ASSUME NEW p \in KeyPlaces(form), p <= m + 1
        PROVE  part[p][2] \in Nat
    <3>1. p \in Nat \ {0}
      BY <1>1
    <3>2. PICK b : b = Before(form, p)
      OBVIOUS
    <3>3. b \in {0} \cup KeyPlaces(form) /\ b \in 0..(p - 1)
      BY <3>1, <3>2, KeyBefore
    <3>4. b # 0 => b \in KeyPlaces(form) /\ b <= m
      BY <1>1, <2>1, <3>1, <3>3
    <3>5. Ahead(p) \in Nat
      BY <1>4, <3>2, <3>4
    <3>6. PICK last \in Nat : last = Ahead(p)
      BY <3>5
    <3>7. \E from, to \in Nat :
             /\ PartAt(text, form, p, last) = <<from, to>>
             /\ from = 0 => to = 0
             /\ from # 0 => Found(text, form, p, last, from, to)
      BY PartIsFound
    <3>8. PICK from, to \in Nat : part[p] = <<from, to>>
      BY <1>2, <3>6, <3>7
    <3> QED
      BY <3>8
  <2> QED
    BY <1>1, <2>1
<1>5. 0..n \subseteq Good
  <2> HIDE DEF Good
  <2> QED
    BY <1>1, <1>3, <1>4, CountingUp
<1>6. \A p \in KeyPlaces(form) : part[p][2] \in Nat
  <2>1. n \in Good
    <3> HIDE DEF Good
    <3> QED
      BY <1>1, <1>5
  <2> QED
    BY <1>1, <2>1
<1> SUFFICES ASSUME NEW p \in KeyPlaces(form)
             PROVE  \E from, to \in Nat :
                       /\ part[p] = <<from, to>>
                       /\ from = 0 => to = 0
                       /\ from # 0
                          => Found(text, form, p,
                                   Start(part, Before(form, p)), from, to)
  OBVIOUS
<1>7. PICK b : b = Before(form, p)
  OBVIOUS
<1>8. b \in {0} \cup KeyPlaces(form)
  BY <1>1, <1>7, KeyBefore
<1>9. PICK last : last = Ahead(p)
  OBVIOUS
<1>10. last \in Nat /\ (b # 0 => last = Start(part, b))
  BY <1>6, <1>7, <1>8, <1>9 DEF Start
<1>11. PICK from, to \in Nat :
          /\ PartAt(text, form, p, last) = <<from, to>>
          /\ from = 0 => to = 0
          /\ from # 0 => Found(text, form, p, last, from, to)
  BY <1>10, PartIsFound
<1>12. part[p] = <<from, to>>
  BY <1>2, <1>9, <1>11
<1>13. from # 0 => Found(text, form, p, Start(part, b), from, to)
  BY <1>7, <1>10, <1>11 DEF Found
<1> QED
  BY <1>7, <1>11, <1>12, <1>13

AllFound(text, form, part) ==
    \A p \in KeyPlaces(form) :
       /\ part[p][1] \in Nat /\ part[p][2] \in Nat
       /\ Found(text, form, p, Start(part, Before(form, p)),
                part[p][1], part[p][2])

LEMMA LiteralsStand ==
    ASSUME NEW S, NEW text \in Seq(S), NEW F, NEW form \in Seq(F), NEW part,
           AllFound(text, form, part), KeyPlaces(form) # {},
           NEW b \in {0} \cup KeyPlaces(form)
    PROVE  /\ Start(part, b) \in Nat \ {0}
           /\ Stands(Literal(form, b), text, Start(part, b))
<1>1. Len(form) \in Nat /\ KeyPlaces(form) \subseteq 1..Len(form)
  BY KeysAreInside
<1>2. CASE b # 0
  <2>1. Found(text, form, b, Start(part, Before(form, b)), part[b][1],
              part[b][2])
    BY <1>2 DEF AllFound
  <2>2. part[b][1] \in Nat \ {0} /\ part[b][2] \in Nat
        /\ part[b][1] <= part[b][2]
    BY <2>1 DEF Found
  <2>3. part[b][2] \in Nat \ {0}
    BY <2>2
  <2> QED
    BY <1>2, <2>1, <2>3 DEF Found, Start
<1>3. CASE b = 0
  <2>1. PICK k \in KeyPlaces(form) : TRUE
    OBVIOUS
  <2>2. 0 \in 0..Len(form) /\ k \in 1..Len(form)
    BY <1>1
  <2>3. PICK p : p = After(form, 0)
    OBVIOUS
  <2>4. /\ p \in {Len(form) + 1} \cup KeyPlaces(form)
        /\ \A q \in KeyPlaces(form) : 0 < q => p <= q
    BY <2>2, <2>3, KeyAfter
  <2>5. p \in KeyPlaces(form) /\ p \in Nat \ {0}
    BY <1>1, <2>2, <2>4
  <2>6. Before(form, p) \in {0} \cup KeyPlaces(form)
        /\ Before(form, p) \in 0..(p - 1)
    BY <2>5, KeyBefore
  <2>7. Before(form, p) = 0
    BY <1>1, <2>4, <2>5, <2>6
  <2>8. Stands(Literal(form, 0), text, 1)
    BY <2>5, <2>7 DEF AllFound, Found
  <2> QED
    BY <1>3, <2>8 DEF Start
<1> QED
  BY <1>2, <1>3

(* The place in a line that is reached after m signs of the pattern.       *)
Cut(form, part, m) ==
    Start(part, Before(form, m + 1)) + (m - Before(form, m + 1))

LEMMA CutAtBegin ==
    ASSUME NEW F, NEW form \in Seq(F), NEW part
    PROVE  Cut(form, part, 0) = 1
<1>1. Before(form, 0 + 1) = 0
  <2>1. 0 + 1 \in Nat \ {0} /\ (0 + 1) - 1 = 0
    OBVIOUS
  <2>2. Before(form, 0 + 1) \in 0..((0 + 1) - 1)
    BY <2>1, KeyBefore
  <2> QED
    BY <2>1, <2>2
<1> QED
  BY <1>1 DEF Cut, Start

LEMMA CutAtEnd ==
    ASSUME NEW S, NEW text \in Seq(S), NEW F, NEW form \in Seq(F), NEW part,
           AllFound(text, form, part), KeyPlaces(form) # {}
    PROVE  Cut(form, part, Len(form)) = Len(text) + 1
<1>1. Len(form) \in Nat /\ KeyPlaces(form) \subseteq 1..Len(form)
      /\ Len(text) \in Nat
  BY KeysAreInside, LenProperties
<1>2. PICK n : n = Len(form)
  OBVIOUS
<1>3. PICK b : b = Before(form, n + 1)
  OBVIOUS
<1>4. n + 1 \in Nat \ {0} /\ (n + 1) - 1 = n
  BY <1>1, <1>2
<1>5. /\ b \in {0} \cup KeyPlaces(form) /\ b \in 0..((n + 1) - 1)
      /\ \A q \in KeyPlaces(form) : q < n + 1 => q <= b
  BY <1>3, <1>4, KeyBefore
<1>6. PICK k \in KeyPlaces(form) : TRUE
  OBVIOUS
<1>7. k \in 1..n /\ k <= b
  BY <1>1, <1>2, <1>5
<1>8. b \in KeyPlaces(form) /\ b # 0 /\ b \in 0..Len(form) /\ b \in 1..n
  BY <1>1, <1>2, <1>5, <1>7
<1>9. PICK a : a = After(form, b)
  OBVIOUS
<1>10. /\ a \in {Len(form) + 1} \cup KeyPlaces(form)
       /\ a \in (b + 1)..(Len(form) + 1)
  BY <1>8, <1>9, KeyAfter
<1>11. a = n + 1
  BY <1>1, <1>2, <1>5, <1>8, <1>10
<1>12. IsLast(form, b)
  BY <1>1, <1>2, <1>9, <1>11 DEF IsLast
<1>13. PICK k1 : k1 = Len(Literal(form, b))
  OBVIOUS
<1>14. k1 = n + 1 - b - 1
  <2>1. Len(Literal(form, b)) = After(form, b) - b - 1
    BY <1>8, LiteralSigns
  <2>2. n \in Int /\ b \in Int /\ a \in Int
    BY <1>1, <1>2, <1>8, <1>11
  <2>3. k1 = a - b - 1
    BY <1>9, <1>13, <2>1
  <2> QED
    BY <1>11, <2>2, <2>3
<1>15. part[b][2] \in Nat /\ part[b][2] + k1 = Len(text) + 1
  BY <1>8, <1>12, <1>13 DEF AllFound, Found
<1>16. Cut(form, part, Len(form)) = part[b][2] + (n - b)
  BY <1>2, <1>3, <1>8 DEF Cut, Start
<1> QED
  BY <1>1, <1>2, <1>8, <1>14, <1>15, <1>16

(* The next sign of the pattern stands in the line from c to d.            *)
SignRead(text, form, part, p, c, d) ==
    /\ c \in Nat \ {0} /\ d \in Nat /\ c <= d /\ d <= Len(text) + 1
    /\ p \in KeyPlaces(form) => c = part[p][1] /\ d = part[p][2]
    /\ p \notin KeyPlaces(form) => d = c + 1 /\ text[c] = form[p]

LEMMA CutAtSign ==
    ASSUME NEW S, NEW text \in Seq(S), NEW F, NEW form \in Seq(F), NEW part,
           AllFound(text, form, part), KeyPlaces(form) # {},
           NEW m \in 0..(Len(form) - 1), NEW p, p = m + 1,
           NEW c, c = Cut(form, part, m), NEW d, d = Cut(form, part, p)
    PROVE  SignRead(text, form, part, p, c, d)
<1>1. Len(form) \in Nat /\ KeyPlaces(form) \subseteq 1..Len(form)
      /\ Len(text) \in Nat
  BY KeysAreInside, LenProperties
<1>2. p \in 1..Len(form) /\ p \in Nat \ {0} /\ p + 1 \in Nat \ {0}
      /\ m = p - 1
  BY <1>1
<1>3. PICK b : b = Before(form, p)
  OBVIOUS
<1>4. /\ b \in {0} \cup KeyPlaces(form) /\ b \in 0..(p - 1)
      /\ \A q \in KeyPlaces(form) : q < p => q <= b
  BY <1>2, <1>3, KeyBefore
<1>5. b \in 0..Len(form)
  BY <1>1, <1>2, <1>4
<1>6. PICK s : s = Start(part, b)
  OBVIOUS
<1>7. PICK x : x = Literal(form, b)
  OBVIOUS
<1>8. s \in Nat \ {0} /\ Stands(x, text, s)
  BY <1>4, <1>6, <1>7, LiteralsStand
<1>9. c = s + (m - b)
  BY <1>2, <1>3, <1>6 DEF Cut
<1>10. PICK b1 : b1 = Before(form, p + 1)
  OBVIOUS
<1>11. /\ b1 \in {0} \cup KeyPlaces(form) /\ b1 \in 0..((p + 1) - 1)
       /\ \A q \in KeyPlaces(form) : q < p + 1 => q <= b1
  BY <1>2, <1>10, KeyBefore
<1>12. d = Start(part, b1) + (p - b1)
  BY <1>10 DEF Cut
<1>13. PICK a : a = After(form, b)
  OBVIOUS
<1>14. /\ a \in {Len(form) + 1} \cup KeyPlaces(form)
       /\ a \in (b + 1)..(Len(form) + 1)
  BY <1>5, <1>13, KeyAfter
<1>15. /\ x \in Seq(F) /\ Len(x) = a - b - 1
       /\ \A i \in 1..Len(x) : x[i] = form[b + i]
  BY <1>5, <1>7, <1>13, LiteralSigns
<1>16. CASE p \in KeyPlaces(form)
  <2>1. b1 = p /\ p # 0
    BY <1>1, <1>2, <1>11, <1>16
  <2>2. a = p
    BY <1>3, <1>13, <1>16, NextKey
  <2>3. /\ part[p][1] \in Nat /\ part[p][2] \in Nat
        /\ Found(text, form, p, s, part[p][1], part[p][2])
    BY <1>3, <1>6, <1>16 DEF AllFound
  <2>4. d = part[p][2]
    BY <1>2, <1>12, <2>1, <2>3 DEF Start
  <2>5. part[p][1] = s + Len(x)
    <3>1. CASE b = 0
      BY <1>3, <1>6, <1>7, <2>3, <3>1 DEF Found, Start
    <3>2. CASE b # 0
      BY <1>3, <1>7, <2>3, <3>2 DEF Found
    <3> QED
      BY <3>1, <3>2
  <2>6. c = part[p][1]
    <3>1. PICK k : k = Len(x)
      OBVIOUS
    <3>2. k = p - b - 1 /\ part[p][1] = s + k
      BY <1>15, <2>2, <2>5, <3>1
    <3>3. s \in Int /\ b \in Int /\ p \in Int /\ m = p - 1
      BY <1>2, <1>4, <1>8
    <3>4. s + k = s + (m - b)
      BY <3>2, <3>3
    <3> QED
      BY <1>9, <3>2, <3>4
  <2>7. part[p][1] \in Nat \ {0} /\ part[p][1] <= part[p][2]
    BY <2>3 DEF Found
  <2>8. PICK k : k = Len(Literal(form, p))
    OBVIOUS
  <2>9. part[p][2] + k <= Len(text) + 1 /\ k \in Nat
    <3>1. p \in 0..Len(form)
      BY <1>1, <1>2
    <3>2. Literal(form, p) \in Seq(F)
      BY <3>1, LiteralSigns
    <3> QED
      BY <2>3, <2>8, <3>2, LenProperties DEF Found, Stands
  <2>10. part[p][2] <= Len(text) + 1
    BY <1>1, <2>3, <2>9
  <2> QED
    BY <1>16, <2>3, <2>4, <2>6, <2>7, <2>10 DEF SignRead
<1>17. CASE p \notin KeyPlaces(form)
  <2>1. b1 = b
    <3>1. b1 <= b
      BY <1>1, <1>2, <1>4, <1>11, <1>17
    <3>2. b <= b1
      BY <1>1, <1>2, <1>4, <1>11
    <3> QED
      BY <1>2, <1>4, <1>11, <3>1, <3>2
  <2>2. p < a
    BY <1>1, <1>2, <1>4, <1>14, <1>17
  <2>3. PICK i : i = p - b
    OBVIOUS
  <2>4. i \in 1..Len(x) /\ b + i = p /\ s + i - 1 = c /\ Len(x) \in Nat
    <3>1. PICK k : k = Len(x)
      OBVIOUS
    <3>2. k = a - b - 1 /\ a \in Int
      BY <1>1, <1>2, <1>4, <1>14, <1>15, <3>1
    <3>3. s \in Int /\ b \in Int /\ p \in Int /\ m = p - 1 /\ b <= p - 1
      BY <1>2, <1>4, <1>8
    <3>4. i \in 1..k /\ b + i = p /\ s + i - 1 = s + (m - b) /\ k \in Nat
      BY <2>2, <2>3, <3>2, <3>3
    <3> QED
      BY <1>9, <3>1, <3>4
  <2>5. text[c] = form[p]
    BY <1>8, <1>15, <2>4 DEF Stands
  <2>6. d = c + 1 /\ c \in Nat \ {0}
    BY <1>2, <1>4, <1>6, <1>8, <1>9, <1>12, <2>1
  <2>7. s + Len(x) <= Len(text) + 1
    BY <1>8 DEF Stands
  <2>8. d <= Len(text) + 1
    BY <1>1, <1>8, <2>4, <2>6, <2>7
  <2> QED
    BY <1>17, <2>5, <2>6, <2>8 DEF SignRead
<1> QED
  BY <1>16, <1>17

(* The pieces of a message: the values that were read and the signs of the *)
(* pattern between them.                                                   *)
PiecesOf(pieces, text, form, part) ==
    /\ Len(pieces) = Len(form)
    /\ \A p \in 1..Len(form) :
          IF p \in KeyPlaces(form)
          THEN Solid(pieces[p])
               = Solid(SubSeq(text, part[p][1], part[p][2] - 1))
          ELSE pieces[p] = <<form[p]>>

(* What is written by the pattern that a line was split by has the signs   *)
(* of the line: one sign or one value of the pattern after the other, as   *)
(* much is written as was read.                                            *)
LEMMA WrittenAsRead ==
    ASSUME NEW S, NEW text \in Seq(S), NEW F, NEW form \in Seq(F), NEW part,
           AllFound(text, form, part), KeyPlaces(form) # {},
           NEW pieces \in Seq(Seq(S)), PiecesOf(pieces, text, form, part)
    PROVE  FlattenSeq(pieces) \in Seq(S)
           /\ Solid(FlattenSeq(pieces)) = Solid(text)
<1> DEFINE n == Len(form)
           Read(m) == SubSeq(text, 1, Cut(form, part, m) - 1)
<1>1. n \in Nat /\ Len(text) \in Nat /\ \A i \in 1..Len(text) : text[i] \in S
  BY LenProperties, ElementOfSeq
<1>2. PICK g \in [0..n -> Seq(S)] :
         Grows(g, pieces) /\ FlattenSeq(pieces) = g[n]
  BY FlattenGrows DEF PiecesOf
<1> DEFINE Good == {m \in 0..n : Solid(g[m]) = Solid(Read(m))}
<1>3. 0 \in Good
  <2>1. Read(0) = <<>>
    <3>1. Cut(form, part, 0) = 1
      BY CutAtBegin
    <3>2. 1 - 1 < 1
      OBVIOUS
    <3> QED
      BY <3>1, <3>2, SubSeqEmpty
  <2>2. g[0] = <<>>
    BY <1>2 DEF Grows
  <2> HIDE DEF Read
  <2> QED
    BY <1>1, <2>1, <2>2
<1>4. ASSUME NEW m \in 0..(n - 1), m \in Good PROVE m + 1 \in Good
  <2>1. PICK p : p = m + 1
    OBVIOUS
  <2>2. p \in 1..n /\ p \in 0..n /\ m \in 0..n /\ p - 1 = m
    BY <1>1, <2>1
  <2>3. PICK c : c = Cut(form, part, m)
    OBVIOUS
  <2>4. PICK d : d = Cut(form, part, p)
    OBVIOUS
  <2>5. /\ c \in Nat \ {0} /\ d \in Nat /\ c <= d /\ d <= Len(text) + 1
        /\ p \in KeyPlaces(form) => c = part[p][1] /\ d = part[p][2]
        /\ p \notin KeyPlaces(form) => d = c + 1 /\ text[c] = form[p]
    <3>1. m \in 0..(Len(form) - 1)
      OBVIOUS
    <3> HIDE DEF n
    <3>2. SignRead(text, form, part, p, c, d)
      BY <2>1, <2>3, <2>4, <3>1, CutAtSign
    <3> QED
      BY <3>2 DEF SignRead
  <2> DEFINE x == SubSeq(text, 1, c - 1)
             y == SubSeq(text, c, d - 1)
             z == SubSeq(text, 1, d - 1)
  <2>6. x \in Seq(S) /\ y \in Seq(S)
    <3>1. /\ \A i \in 1..(c - 1) : text[i] \in S
          /\ \A i \in c..(d - 1) : text[i] \in S
          /\ 1 \in Int /\ c \in Int /\ c - 1 \in Int /\ d - 1 \in Int
      BY <1>1, <2>5
    <3> QED
      BY <3>1, SubSeqProperties
  <2>7. z = x \o y
    <3>1. /\ 1 \in 1 .. Len(text) + 1 /\ c - 1 \in 1 - 1 .. Len(text)
          /\ d - 1 \in c - 1 .. Len(text) /\ (c - 1) + 1 = c
      BY <1>1, <2>5
    <3>2. SubSeq(text, 1, c - 1) \o SubSeq(text, (c - 1) + 1, d - 1)
          = SubSeq(text, 1, d - 1)
      BY <3>1, ConcatAdjacentSubSeq
    <3> QED
      BY <3>1, <3>2
  <2>8. Read(m) = x /\ Read(p) = z
    BY <2>3, <2>4
  <2>9. g[p] = g[m] \o pieces[p]
    BY <1>2, <2>2 DEF Grows, PiecesOf
  <2>10. g[m] \in Seq(S) /\ pieces[p] \in Seq(S)
    <3>1. pieces[p] \in Seq(S)
      <4>1. p \in 1..Len(pieces)
        BY <2>2 DEF PiecesOf
      <4> QED
        BY <4>1, ElementOfSeq
    <3> QED
      BY <1>2, <2>2, <3>1
  <2>11. Solid(g[m]) = Solid(x)
    <3> HIDE DEF Read, x
    <3> QED
      BY <1>4, <2>8
  <2>12. Solid(pieces[p]) = Solid(y)
    <3>1. CASE p \in KeyPlaces(form)
      BY <2>2, <2>5, <3>1 DEF PiecesOf
    <3>2. CASE p \notin KeyPlaces(form)
      <4>1. pieces[p] = <<text[c]>> /\ d - 1 = c
        BY <2>2, <2>5, <3>2 DEF PiecesOf
      <4>2. y = <<text[c]>>
        <5>1. c \in 1..Len(text) /\ c \in c..Len(text)
          BY <1>1, <2>5, <4>1
        <5>2. PICK w : w = SubSeq(text, c, c)
          OBVIOUS
        <5>3. /\ w \in Seq(S) /\ Len(w) = c - c + 1
              /\ \A i \in 1..(c - c + 1) : w[i] = text[c + i - 1]
          BY <5>1, <5>2, PartOfText
        <5>4. Len(w) = 1 /\ 1 \in 1..(c - c + 1) /\ c + 1 - 1 = c
          BY <2>5, <5>3
        <5>5. w[1] = text[c]
          BY <5>3, <5>4
        <5>6. w = <<text[c]>>
          BY <5>3, <5>4, <5>5, OneSign
        <5> QED
          BY <4>1, <5>2, <5>6
      <4> QED
        BY <4>1, <4>2
    <3> QED
      BY <3>1, <3>2
  <2> HIDE DEF x, y, z, Read
  <2>13. Solid(g[p]) = Solid(g[m]) \o Solid(pieces[p])
    BY <2>9, <2>10, SolidConcat
  <2>14. Solid(z) = Solid(x) \o Solid(y)
    BY <2>6, <2>7, SolidConcat
  <2>15. Solid(g[p]) = Solid(Read(p))
    BY <2>8, <2>11, <2>12, <2>13, <2>14
  <2> QED
    BY <2>1, <2>2, <2>15
<1>5. 0..n \subseteq Good
  <2>1. n \in Nat /\ \A m \in 0..(n - 1) : m \in Good => m + 1 \in Good
    <3> HIDE DEF Good, n
    <3> QED
      BY <1>1, <1>4
  <2> HIDE DEF Good, n
  <2> QED
    BY <1>3, <2>1, CountingUp
<1>6. Solid(g[n]) = Solid(Read(n))
  <2> HIDE DEF Read
  <2>1. n \in Good
    <3> HIDE DEF Good, n
    <3>1. n \in Nat
      BY <1>1
    <3>2. n \in 0..n
      BY <3>1
    <3> QED
      BY <1>5, <3>2
  <2> QED
    BY <2>1
<1>7. Read(n) = text
  <2>1. Cut(form, part, n) = Len(text) + 1
    BY CutAtEnd
  <2>2. (Len(text) + 1) - 1 = Len(text)
    BY <1>1
  <2> QED
    BY <2>1, <2>2, SubSeqFull
<1>8. g[n] \in Seq(S)
  BY <1>1, <1>2
<1> HIDE DEF Read, n
<1> QED
  BY <1>2, <1>6, <1>7, <1>8

(* A part of a text that ends where a literal stands first does not hold   *)
(* that literal, however it is trimmed.                                    *)
EndsFirst(v, c, d, x, text) ==
    /\ c \in Nat \ {0} /\ d \in Nat /\ c <= d /\ d + Len(x) <= Len(text) + 1
    /\ \A q \in Int : c <= q /\ Stands(x, text, q) => d <= q
    /\ Len(v) = d - c /\ \A i \in 1..(d - c) : v[i] = text[c + i - 1]

LEMMA PartHoldsNoLiteral ==
    ASSUME NEW S, NEW text \in Seq(S), NEW v \in Seq(S),
           NEW F, NEW x \in Seq(F), x # <<>>,
           NEW c, NEW d, EndsFirst(v, c, d, x, text)
    PROVE  PlacesOf(x, Trim(v), 1) = {}
<1> PICK k : k = Len(x)
  OBVIOUS
<1>2. k \in Nat \ {0}
  BY EmptySeq
<1>3. /\ c \in Nat \ {0} /\ d \in Nat /\ c <= d /\ d + k <= Len(text) + 1
      /\ \A q \in Int : c <= q /\ Stands(x, text, q) => d <= q
      /\ Len(v) = d - c /\ \A i \in 1..(d - c) : v[i] = text[c + i - 1]
  BY DEF EndsFirst
<1> SUFFICES ASSUME NEW q \in PlacesOf(x, Trim(v), 1) PROVE FALSE
  OBVIOUS
<1>1. Len(text) \in Nat /\ Len(v) \in Nat
  BY LenProperties
<1>11. Trim(v) \in Seq(S)
  BY SolidTrim
<1>12. q \in Int
  <2>1. Len(Trim(v)) \in Nat /\ Len(x) \in Nat
    BY <1>11, LenProperties
  <2> QED
    BY <2>1 DEF PlacesOf
<1>13. 1 <= q /\ Stands(x, Trim(v), q)
  BY <1>11, <1>12, PlacesStand
<1>14. /\ q + k <= Len(Trim(v)) + 1
       /\ \A i \in 1..k : Trim(v)[q + i - 1] = x[i]
  BY <1>13 DEF Stands
<1>15. Trim(v) # <<>>
  <2>1. Len(<<>>) = 0
    BY EmptySeq
  <2> QED
    BY <1>2, <1>12, <1>13, <1>14, <2>1
<1>16. PICK a, b \in Nat : TrimmedTo(v, a, b)
  BY <1>15, TrimCuts
<1>17. a \in 1..(d - c) /\ b \in a..(d - c) /\ Trim(v) = SubSeq(v, a, b)
  BY <1>3, <1>16 DEF TrimmedTo
<1>18. PICK t : t = Trim(v)
  OBVIOUS
<1>19. Len(t) = b - a + 1 /\ \A i \in 1..(b - a + 1) : t[i] = v[a + i - 1]
  <2>1. a \in 1..Len(v) /\ b \in a..Len(v)
    BY <1>3, <1>17
  <2>2. v \in Seq(S) /\ t = SubSeq(v, a, b)
    BY <1>17, <1>18
  <2>3. /\ t \in Seq(S) /\ Len(t) = b - a + 1
        /\ \A i \in 1..(b - a + 1) : t[i] = v[a + i - 1]
    BY <2>1, <2>2, PartOfText
  <2> QED
    BY <2>3
<1>20. PICK e : e = c + (a - 1) + (q - 1)
  OBVIOUS
<1>21. /\ q + k <= (b - a + 1) + 1 /\ e \in Int /\ c <= e
       /\ e + k <= d
  BY <1>2, <1>3, <1>12, <1>13, <1>14, <1>17, <1>18, <1>19, <1>20
<1>22. ASSUME NEW i \in 1..k PROVE text[e + i - 1] = x[i]
  <2>1. PICK j : j = q + i - 1
    OBVIOUS
  <2>2. j \in 1..(b - a + 1)
    BY <1>2, <1>12, <1>13, <1>17, <1>21, <2>1
  <2>3. t[j] = x[i] /\ t[j] = v[a + j - 1]
    BY <1>14, <1>18, <1>19, <2>1, <2>2
  <2>4. PICK l : l = a + j - 1
    OBVIOUS
  <2>5. l \in 1..(d - c) /\ c + l - 1 = e + i - 1
    BY <1>2, <1>3, <1>12, <1>17, <1>20, <2>1, <2>2, <2>4
  <2>6. v[l] = text[c + l - 1]
    BY <1>3, <2>5
  <2> QED
    BY <2>3, <2>4, <2>5, <2>6
<1>23. e + k <= Len(text) + 1
  BY <1>1, <1>2, <1>3, <1>21
<1>24. Stands(x, text, e)
  BY <1>22, <1>23 DEF Stands
<1>25. d <= e
  BY <1>3, <1>21, <1>24
<1> QED
  BY <1>2, <1>3, <1>21, <1>25

(* Such a part is every value but the last.                                *)
LEMMA ValueHoldsNoLiteral ==
    ASSUME NEW S, NEW text \in Seq(S), NEW F, NEW form \in Seq(F), NEW part,
           AllFound(text, form, part), NEW p \in KeyPlaces(form),
           ~IsLast(form, p), Literal(form, p) # <<>>,
           NEW v, v = SubSeq(text, part[p][1], part[p][2] - 1)
    PROVE  PlacesOf(Literal(form, p), Trim(v), 1) = {}
<1>1. PICK x : x = Literal(form, p)
  OBVIOUS
<1>2. PICK c : c = part[p][1]
  OBVIOUS
<1>3. PICK d : d = part[p][2]
  OBVIOUS
<1>4. /\ Len(form) \in Nat /\ p \in 1..Len(form) /\ p \in 0..Len(form)
      /\ Len(text) \in Nat /\ \A i \in 1..Len(text) : text[i] \in S
  <2>1. /\ Len(form) \in Nat /\ KeyPlaces(form) \subseteq 1..Len(form)
    BY KeysAreInside
  <2>2. p \in 1..Len(form) /\ p \in 0..Len(form)
    BY <2>1
  <2> QED
    BY <2>1, <2>2, LenProperties, ElementOfSeq
<1>5. x \in Seq(F)
  BY <1>1, <1>4, LiteralSigns
<1>6. PICK k : k = Len(x)
  OBVIOUS
<1>7. k \in Nat \ {0}
  BY <1>1, <1>5, <1>6, EmptySeq
<1>8. /\ c \in Nat \ {0} /\ d \in Nat /\ c <= d /\ Stands(x, text, d)
      /\ \A q \in Int : c <= q /\ Stands(x, text, q) => d <= q
  BY <1>1, <1>2, <1>3 DEF AllFound, Found
<1>9. d + k <= Len(text) + 1
  BY <1>6, <1>8 DEF Stands
<1>10. /\ v \in Seq(S) /\ Len(v) = d - c
       /\ \A i \in 1..(d - c) : v[i] = text[c + i - 1]
  <2>1. \A i \in c..(d - 1) : text[i] \in S
    BY <1>4, <1>7, <1>8, <1>9
  <2>2. c \in Int /\ d - 1 \in Int
    BY <1>8
  <2>3. /\ v \in Seq(S)
        /\ Len(v) = IF c <= d - 1 THEN (d - 1) - c + 1 ELSE 0
        /\ \A i \in 1..((d - 1) - c + 1) : v[i] = text[c + i - 1]
    BY <1>2, <1>3, <2>1, <2>2, SubSeqProperties
  <2>4. (d - 1) - c + 1 = d - c /\ (~(c <= d - 1) => d - c = 0)
    BY <1>8
  <2> QED
    BY <2>3, <2>4
<1>11. EndsFirst(v, c, d, x, text)
  BY <1>6, <1>8, <1>9, <1>10 DEF EndsFirst
<1> QED
  BY <1>1, <1>5, <1>10, <1>11, PartHoldsNoLiteral

-----------------------------------------------------------------------------
(* The rows of a line.                                                     *)
ValuesAreParts(row, part, text, form) ==
    /\ AllFound(text, form, part)
    /\ \A p \in KeyPlaces(form) :
          row[form[p]] = Trim(SubSeq(text, part[p][1], part[p][2] - 1))

LEMMA RowIsSplit ==
    ASSUME NEW S, NEW text \in Seq(S), NEW F, NEW form \in Seq(F),
           Valid(form), NEW row \in RowsOf(text, form)
    PROVE  \E part : ValuesAreParts(row, part, text, form)
<1> DEFINE part == Split(text, form)
           ValueOf(p) == Trim(SubSeq(text, part[p][1], part[p][2] - 1))
           PlaceOf(k) == CHOOSE p \in KeyPlaces(form) : form[p] = k
           all == [k \in FormKeys |->
                      IF k \in KeysIn(form) THEN ValueOf(PlaceOf(k)) ELSE <<>>]
<1>1. /\ \A p \in KeyPlaces(form) : part[p] # <<0, 0>>
      /\ row = all
  BY DEF RowsOf
<1>2. IsPart(part, text, form, KeyPlaces(form))
  BY SplitIsPart
<1> HIDE DEF part, ValueOf
<1>3. ASSUME NEW p \in KeyPlaces(form)
      PROVE  /\ part[p][1] \in Nat /\ part[p][2] \in Nat
             /\ Found(text, form, p, Start(part, Before(form, p)),
                      part[p][1], part[p][2])
  <2>1. PICK from, to \in Nat :
           /\ part[p] = <<from, to>>
           /\ from = 0 => to = 0
           /\ from # 0 => Found(text, form, p, Start(part, Before(form, p)),
                                from, to)
    BY <1>2, PartsAreNumbers
  <2>2. from # 0
    BY <1>1, <2>1
  <2>3. part[p][1] = from /\ part[p][2] = to
    BY <2>1
  <2> QED
    BY <2>1, <2>2, <2>3
<1>4. ASSUME NEW p \in KeyPlaces(form) PROVE row[form[p]] = ValueOf(p)
  <2>1. form[p] \in FormKeys /\ form[p] \in KeysIn(form)
    BY DEF KeyPlaces, KeysIn
  <2>2. PlaceOf(form[p]) \in KeyPlaces(form)
        /\ form[PlaceOf(form[p])] = form[p]
    OBVIOUS
  <2>3. PlaceOf(form[p]) = p
    BY <2>2 DEF Valid
  <2>4. row[form[p]] = ValueOf(PlaceOf(form[p]))
    <3> HIDE DEF PlaceOf
    <3> QED
      BY <1>1, <2>1
  <2> HIDE DEF PlaceOf
  <2> QED
    BY <2>3, <2>4
<1>5. ValuesAreParts(row, part, text, form)
  BY <1>3, <1>4 DEF ValuesAreParts, AllFound, ValueOf
<1> QED
  BY <1>5

(* By the pattern of the line, its row is written with the signs of it.    *)
LEMMA SentAsRead ==
    ASSUME NEW text \in Seq(Signs), NEW form \in Seq(Signs \cup FormKeys),
           Valid(form), NEW row \in RowsOf(text, form)
    PROVE  /\ Formatted(row, form) \in Seq(Signs)
           /\ Solid(Formatted(row, form)) = Solid(text)
<1>1. PICK part : ValuesAreParts(row, part, text, form)
  BY RowIsSplit
<1>2. AllFound(text, form, part) /\ KeyPlaces(form) # {}
  BY <1>1 DEF ValuesAreParts, Valid, Parses
<1>3. /\ Len(form) \in Nat /\ DOMAIN form = 1..Len(form)
      /\ \A p \in 1..Len(form) : form[p] \in Signs \cup FormKeys
      /\ Len(text) \in Nat /\ \A i \in 1..Len(text) : text[i] \in Signs
  BY LenProperties, ElementOfSeq
<1> DEFINE w(p) == IF form[p] \in FormKeys THEN row[form[p]] ELSE <<form[p]>>
           pieces == [p \in 1..Len(form) |-> w(p)]
<1>4. Formatted(row, form) = FlattenSeq(pieces)
  BY <1>3 DEF Formatted
<1>5. ASSUME NEW p \in 1..Len(form), p \in KeyPlaces(form)
      PROVE  /\ w(p) \in Seq(Signs)
             /\ Solid(w(p))
                = Solid(SubSeq(text, part[p][1], part[p][2] - 1))
  <2>1. PICK x : x = SubSeq(text, part[p][1], part[p][2] - 1)
    OBVIOUS
  <2>2. w(p) = Trim(x)
    BY <1>1, <1>5, <2>1 DEF ValuesAreParts, KeyPlaces
  <2>3. PICK c : c = part[p][1]
    OBVIOUS
  <2>4. PICK d : d = part[p][2]
    OBVIOUS
  <2>5. /\ c \in Nat \ {0} /\ d \in Nat
        /\ Stands(Literal(form, p), text, d)
    BY <1>2, <1>5, <2>3, <2>4 DEF AllFound, Found
  <2>6. d <= Len(text) + 1
    <3>1. Literal(form, p) \in Seq(Signs \cup FormKeys)
      BY <1>3, LiteralSigns
    <3>2. Len(Literal(form, p)) \in Nat
      BY <3>1, LenProperties
    <3> QED
      BY <1>3, <2>5, <3>2 DEF Stands
  <2>7. x \in Seq(Signs)
    <3>1. \A i \in c..(d - 1) : text[i] \in Signs
      BY <1>3, <2>5, <2>6
    <3>2. c \in Int /\ d - 1 \in Int
      BY <2>5
    <3> QED
      BY <2>1, <2>3, <2>4, <3>1, <3>2, SubSeqProperties
  <2>8. Trim(x) \in Seq(Signs) /\ Solid(Trim(x)) = Solid(x)
    BY <2>7, SolidTrim
  <2> QED
    BY <2>1, <2>2, <2>8
<1>6. ASSUME NEW p \in 1..Len(form), p \notin KeyPlaces(form)
      PROVE  w(p) = <<form[p]>> /\ w(p) \in Seq(Signs)
  <2>1. form[p] \notin FormKeys /\ form[p] \in Signs
    BY <1>3, <1>6 DEF KeyPlaces
  <2> QED
    BY <2>1
<1>7. \A p \in 1..Len(form) : w(p) \in Seq(Signs)
  BY <1>5, <1>6
<1>8. /\ pieces \in Seq(Seq(Signs)) /\ Len(pieces) = Len(form)
      /\ \A p \in 1..Len(form) : pieces[p] = w(p)
  <2> HIDE DEF w
  <2> QED
    BY <1>3, <1>7
<1>9. PiecesOf(pieces, text, form, part)
  <2> HIDE DEF w, pieces
  <2> QED
    BY <1>5, <1>6, <1>8 DEF PiecesOf
<1> HIDE DEF w, pieces
<1>10. FlattenSeq(pieces) \in Seq(Signs)
       /\ Solid(FlattenSeq(pieces)) = Solid(text)
  BY <1>2, <1>8, <1>9, WrittenAsRead
<1> QED
  BY <1>4, <1>10

(* Only the last value of a row may hold the literal after it.             *)
LEMMA RowHoldsNoLiteral ==
    ASSUME NEW text \in Seq(Signs), NEW form \in Seq(Signs \cup FormKeys),
           Valid(form), NEW row \in RowsOf(text, form),
           NEW p \in KeyPlaces(form), ~IsLast(form, p)
    PROVE  PlacesOf(Literal(form, p), row[form[p]], 1) = {}
<1>1. PICK part : ValuesAreParts(row, part, text, form)
  BY RowIsSplit
<1>2. PICK v : v = SubSeq(text, part[p][1], part[p][2] - 1)
  OBVIOUS
<1>3. AllFound(text, form, part) /\ row[form[p]] = Trim(v)
  BY <1>1, <1>2 DEF ValuesAreParts
<1>4. Literal(form, p) # <<>>
  BY DEF Valid, Parses
<1> QED
  BY <1>2, <1>3, <1>4, ValueHoldsNoLiteral

(* What is written does not depend on what is concealed.                   *)
LEMMA ConcealedIsNotSent ==
    ASSUME NEW row, NEW other, NEW form,
           \A k \in FormKeys : k \notin concealed => other[k] = row[k]
    PROVE  Rendered(other, form) = Rendered(row, form)
<1> DEFINE seen == {p \in KeyPlaces(form) : form[p] \notin concealed}
<1>1. CASE AllShown(form)
  <2> DEFINE u(p) == IF form[p] \in FormKeys THEN row[form[p]]
                     ELSE <<form[p]>>
             v(p) == IF form[p] \in FormKeys THEN other[form[p]]
                     ELSE <<form[p]>>
  <2>1. \A p \in DOMAIN form : u(p) = v(p)
    BY <1>1 DEF AllShown, KeysIn, KeyPlaces
  <2>2. /\ Formatted(row, form) = FlattenSeq([p \in DOMAIN form |-> u(p)])
        /\ Formatted(other, form) = FlattenSeq([p \in DOMAIN form |-> v(p)])
    BY DEF Formatted
  <2> HIDE DEF u, v
  <2>3. [p \in DOMAIN form |-> u(p)] = [p \in DOMAIN form |-> v(p)]
    BY <2>1
  <2>4. Formatted(other, form) = Formatted(row, form)
    BY <2>2, <2>3
  <2> QED
    BY <1>1, <2>4 DEF Rendered
<1>2. CASE ~AllShown(form)
  <2> DEFINE u(p) == IF p \notin seen THEN <<>>
                     ELSE IF p = Min(seen) THEN row[form[p]]
                     ELSE <<Dash, Dash, Dash, Dash>> \o row[form[p]]
             v(p) == IF p \notin seen THEN <<>>
                     ELSE IF p = Min(seen) THEN other[form[p]]
                     ELSE <<Dash, Dash, Dash, Dash>> \o other[form[p]]
  <2>1. \A p \in seen : other[form[p]] = row[form[p]]
    BY DEF KeyPlaces
  <2>2. /\ Rendered(row, form) = FlattenSeq([p \in DOMAIN form |-> u(p)])
        /\ Rendered(other, form) = FlattenSeq([p \in DOMAIN form |-> v(p)])
    BY <1>2 DEF Rendered
  <2>3. \A p \in DOMAIN form : u(p) = v(p)
    <3> HIDE DEF seen
    <3> QED
      BY <2>1
  <2> HIDE DEF u, v
  <2>4. [p \in DOMAIN form |-> u(p)] = [p \in DOMAIN form |-> v(p)]
    BY <2>3
  <2> QED
    BY <2>2, <2>4
<1> QED
  BY <1>1, <1>2

-----------------------------------------------------------------------------
(* The line that was pasted was split by a pattern that products may have, *)
(* and what was sent was written from its values.                          *)
LineIsSplit ==
    typed # Nowhere =>
       /\ typed.text \in Seq(Signs) /\ typed.by \in Forms /\ Valid(typed.by)
       /\ values \in RowsOf(Trim(typed.text), typed.by)

PatternInvariant ==
    /\ pattern \in Forms /\ Valid(pattern) /\ known \in Forms /\ Valid(known)
    /\ LineIsSplit
    /\ delivered # Nowhere =>
          /\ typed # Nowhere
          /\ delivered.text = Trim(Rendered(values, delivered.by))

LEMMA PatternStarts ==
    ASSUME PatternInit PROVE PatternInvariant
BY DEF PatternInit, PatternInvariant, LineIsSplit

LEMMA PatternSteps ==
    ASSUME PatternConstants, PatternInvariant, [PatternNext]_patternVars
    PROVE  PatternInvariant'
<1>1. CASE UNCHANGED patternVars
  BY <1>1 DEF patternVars, PatternInvariant, LineIsSplit, Rendered, AllShown
<1>2. CASE SavePattern
  BY <1>2 DEF SavePattern, PatternInvariant, LineIsSplit, Rendered, AllShown
<1>3. CASE LoadProducts
  BY <1>3 DEF LoadProducts, PatternInvariant, LineIsSplit, Rendered, AllShown
<1>4. CASE PasteLine
  <2> PICK line \in Texts :
         /\ values' \in RowsOf(Trim(line), known)
         /\ typed' = [text |-> line, by |-> known]
    BY <1>4 DEF PasteLine
  <2>1. UNCHANGED <<pattern, known, concealed, delivered>> /\ typed = Nowhere
    BY <1>4 DEF PasteLine
  <2>2. line \in Seq(Signs)
    BY DEF PatternConstants, Texts, BoundedSeq, SeqOf
  <2>3. typed'.text = line /\ typed'.by = known
    OBVIOUS
  <2>4. LineIsSplit'
    BY <2>2, <2>3 DEF LineIsSplit, PatternInvariant
  <2>5. delivered = Nowhere
    BY <2>1 DEF PatternInvariant
  <2> QED
    BY <2>1, <2>4, <2>5 DEF PatternInvariant
<1>5. CASE SendValues
  <2>1. /\ UNCHANGED <<pattern, known, concealed, typed, values>>
        /\ typed # Nowhere
        /\ delivered' = [text |-> Trim(Rendered(values, pattern)),
                         by |-> pattern]
    BY <1>5 DEF SendValues
  <2>2. delivered'.by = pattern
        /\ delivered'.text = Trim(Rendered(values, pattern))
    BY <2>1
  <2>3. Rendered(values, pattern)' = Rendered(values, pattern)
    BY <2>1 DEF Rendered, AllShown
  <2>4. delivered'.text = Trim(Rendered(values, delivered.by))'
    BY <2>1, <2>2 DEF Rendered, AllShown
  <2>5. LineIsSplit'
    BY <2>1 DEF LineIsSplit, PatternInvariant
  <2> QED
    BY <2>1, <2>4, <2>5 DEF PatternInvariant
<1> QED
  BY <1>1, <1>2, <1>3, <1>4, <1>5 DEF PatternNext

LEMMA SentIsPasted ==
    ASSUME PatternConstants, PatternInvariant
    PROVE  SentAsPasted
<1>1. ASSUME NEW form \in Forms PROVE form \in Seq(Signs \cup FormKeys)
  BY DEF PatternConstants
<1>2. typed # Nowhere => Trim(typed.text) \in Seq(Signs)
  BY SolidTrim DEF PatternInvariant, LineIsSplit
<1>3. ASSUME delivered # Nowhere, delivered.by = typed.by, AllShown(typed.by)
      PROVE  Solid(delivered.text) = Solid(typed.text)
  <2>1. /\ typed # Nowhere /\ LineIsSplit
        /\ delivered.text = Trim(Rendered(values, delivered.by))
    BY <1>3 DEF PatternInvariant
  <2>2. /\ typed.text \in Seq(Signs) /\ typed.by \in Forms
        /\ Valid(typed.by) /\ values \in RowsOf(Trim(typed.text), typed.by)
    BY <2>1 DEF LineIsSplit
  <2>3. delivered.text = Trim(Formatted(values, typed.by))
    BY <1>3, <2>1 DEF Rendered
  <2>4. PICK text : text = Trim(typed.text)
    OBVIOUS
  <2>5. text \in Seq(Signs) /\ Solid(text) = Solid(typed.text)
    BY <2>2, <2>4, SolidTrim
  <2>6. typed.by \in Seq(Signs \cup FormKeys)
    BY <1>1, <2>2
  <2>7. /\ Formatted(values, typed.by) \in Seq(Signs)
        /\ Solid(Formatted(values, typed.by)) = Solid(text)
    BY <2>2, <2>4, <2>5, <2>6, SentAsRead
  <2>8. Solid(Trim(Formatted(values, typed.by)))
        = Solid(Formatted(values, typed.by))
    BY <2>7, SolidTrim
  <2> QED
    BY <2>3, <2>5, <2>7, <2>8
<1>4. ASSUME delivered # Nowhere, NEW row,
             NEW other, other = [k \in FormKeys |->
                                   IF k \in concealed THEN row[k]
                                   ELSE values[k]]
      PROVE  delivered.text = Trim(Rendered(other, delivered.by))
  <2>1. delivered.text = Trim(Rendered(values, delivered.by))
    BY <1>4 DEF PatternInvariant
  <2>2. \A k \in FormKeys : k \notin concealed => other[k] = values[k]
    BY <1>4
  <2>3. Rendered(other, delivered.by) = Rendered(values, delivered.by)
    BY <2>2, ConcealedIsNotSent
  <2> QED
    BY <2>1, <2>3
<1>5. ASSUME typed # Nowhere, NEW p \in KeyPlaces(typed.by),
             ~IsLast(typed.by, p)
      PROVE  PlacesOf(Literal(typed.by, p), values[typed.by[p]], 1) = {}
  <2>1. /\ typed.by \in Forms /\ Valid(typed.by)
        /\ values \in RowsOf(Trim(typed.text), typed.by)
    BY <1>5 DEF PatternInvariant, LineIsSplit
  <2>2. /\ typed.by \in Seq(Signs \cup FormKeys)
        /\ Trim(typed.text) \in Seq(Signs)
    BY <1>1, <1>2, <1>5, <2>1
  <2> QED
    BY <1>5, <2>1, <2>2, RowHoldsNoLiteral
<1> QED
  BY <1>3, <1>4, <1>5 DEF SentAsPasted
=============================================================================
